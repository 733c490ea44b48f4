CONSTANTS
    Options <- MCOptions
    FullNames <- MCFullNames
    Elfs <- MCElfs
    FileArgs <- MCFileArgs
    Existing <- MCExisting
    NoElf = NoElf

SPECIFICATION Spec

INVARIANT TypeOK
INVARIANT NoClobber

CHECK_DEADLOCK FALSE
