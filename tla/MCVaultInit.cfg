SPECIFICATION Spec
CONSTANTS
    Procs = {p1, p2}
    Users = {A}
    None = None
CHECK_DEADLOCK FALSE
INVARIANT InitialisedVaultOpens
