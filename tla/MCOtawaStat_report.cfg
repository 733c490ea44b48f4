CONSTANTS
    NoAttr = NoAttr
    NoFile = NoFile
    NoLink = NoLink
    NoFill = NoFill
    Docs <- MCReportDocs
    StatNames <- MCStatNames
    Streams <- MCStreams
    ArgLists <- MCArgLists
    ColorStats <- MCColorStats
    Modes <- MCModes
    DefaultStat = "t"
    ExistingFiles <- MCExistingFiles
    FileLen <- MCFileLen
    SourcePath <- MCAbsolutePath
    Blank = Blank

SPECIFICATION Spec

INVARIANT ReportConsistent


CHECK_DEADLOCK FALSE
