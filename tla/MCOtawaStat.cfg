CONSTANTS
    NoAttr = NoAttr
    NoFile = NoFile
    NoLink = NoLink
    NoFill = NoFill
    Docs <- MCDocs
    StatNames <- MCStatNames
    Streams <- MCStreams
    ArgLists <- MCArgLists
    ColorStats <- MCColorStats
    Modes <- MCModes
    DefaultStat = "t"
    ExistingFiles <- MCExistingFiles
    FileLen <- MCFileLen
    SourcePath <- MCSourcePath
    Blank = Blank

SPECIFICATION Spec

INVARIANT TypeOK
INVARIANT RecordAttribution
INVARIANT AggregatesCorrect
INVARIANT FillIsNearestShade
INVARIANT ListingMatchesBlocks
INVARIANT ValidDocumentIsBuilt


CHECK_DEADLOCK FALSE
