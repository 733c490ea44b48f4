CONSTANTS
    Names <- MCNames
    Texts <- MCDiamondTexts
    Requests <- MCRequestsAandAA
    Files <- MCFiles
    Tools <- MCTools
    NoPack = NoPack
    NoTest = NoTest

SPECIFICATION Spec

INVARIANT ClosureSound

CHECK_DEADLOCK FALSE
