CONSTANTS
    Inputs <- MCCaseInputs
    NoCond = NoCond

SPECIFICATION Spec

INVARIANT CaseFunctionsSound


\* The script exits after the table or at an exception.
CHECK_DEADLOCK FALSE
