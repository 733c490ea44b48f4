CONSTANTS
    NoAttr = NoAttr
    NoFile = NoFile
    NoLink = NoLink
    NoFill = NoFill
    Docs <- MCRecordDocs
    StatNames <- MCStatNames
    Streams <- MCRecordStreams
    ArgLists <- MCRecordArgs
    ColorStats <- MCColorStats
    Modes <- MCModes
    DefaultStat = "t"
    ExistingFiles <- MCExistingFiles
    FileLen <- MCFileLen
    SourcePath <- MCSourcePath
    Blank = Blank

SPECIFICATION Spec

INVARIANT RecordsReachTheirBlocks


CHECK_DEADLOCK FALSE
