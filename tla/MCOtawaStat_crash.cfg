CONSTANTS
    NoAttr = NoAttr
    NoFile = NoFile
    NoLink = NoLink
    NoFill = NoFill
    Docs <- MCGoodDocs
    StatNames <- MCStatNames
    Streams <- MCStreams
    ArgLists <- MCArgLists
    ColorStats <- MCColorStats
    Modes <- MCModes
    DefaultStat = "t"
    ExistingFiles <- MCExistingFiles
    FileLen <- MCFileLen
    SourcePath <- MCSubdirPath
    Blank = Blank

SPECIFICATION Spec

INVARIANT WellFormedRunCompletes


CHECK_DEADLOCK FALSE
