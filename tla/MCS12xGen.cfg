CONSTANTS
    Inputs <- MCInputs
    NoCond = NoCond

SPECIFICATION Spec

INVARIANT TypeOK
INVARIANT DefaultTimeIsWorstCase

\* The script exits after the table or at an exception.
CHECK_DEADLOCK FALSE
