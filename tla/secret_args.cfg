CONSTANTS
    Requests <- MCRequests
    Inputs <- MCInputs
    Argvs <- MCArgvs
    Spelled <- MCSpelled
    Lower <- MCLower
    Values <- MCValues
    Nesting <- MCNesting
SPECIFICATION ReplaySpec
INVARIANT SecretArgsHidden
