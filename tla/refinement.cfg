SPECIFICATION FairSpec
CONSTANTS
    Ids = {i1}
    Calls = {c1, c2}
    Ops = {"Create", "CreateWithInitialization", "Reset", "Recover", "Reinitialize", "Delete", "Batch"}
    Faults = {"Timeout", "Query", "Raw"}
    Nobody = Nobody
    Admin = "racing"
INVARIANTS TypeOK
PROPERTIES ImplementsWorkspace EveryCallReturns LockReleased
