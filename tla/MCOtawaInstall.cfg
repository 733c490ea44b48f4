CONSTANTS
    Names <- MCNames
    Texts <- MCTexts
    Requests <- MCRequests
    Files <- MCFiles
    Tools <- MCTools
    NoPack = NoPack
    NoTest = NoTest

SPECIFICATION Spec

INVARIANT TypeOK
INVARIANT DownloadClosureExact
INVARIANT InstallsOnlyRequired
 
PROPERTY Terminates

CHECK_DEADLOCK FALSE
