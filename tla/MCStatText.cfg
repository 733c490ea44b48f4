CONSTANTS
    Disk <- MCDisk
    Blocks <- MCBlocks
    Paths <- MCPaths
    Labels <- MCLabels
    None = None

SPECIFICATION Spec

INVARIANT ShownTextReadsBack

CHECK_DEADLOCK FALSE
