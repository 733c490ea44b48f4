CONSTANTS
    Names <- MCNames
    Texts <- MCDiamondAndRequires
    Requests <- MCRequestA
    Files <- MCFiles
    Tools <- MCTools
    NoPack = NoPack
    NoTest = NoTest

SPECIFICATION Spec

INVARIANT OptionsAndIndexHonoured

CHECK_DEADLOCK FALSE
