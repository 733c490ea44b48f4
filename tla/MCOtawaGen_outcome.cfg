CONSTANTS
    Options <- MCOptions
    FullNames <- MCFullNames
    Elfs <- MCElfs
    FileArgs <- MCAnyFileArgs
    Existing <- MCExisting
    NoElf = NoElf

SPECIFICATION Spec

INVARIANT GenerationAtomic

CHECK_DEADLOCK FALSE
