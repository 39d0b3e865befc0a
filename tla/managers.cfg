SPECIFICATION FairSpec
CONSTANTS
    Managers = {m1, m2}
    Identity <- SameRole
    NoManager = NoManager
    Calls = {c1, c2}
    Islets = {i1}
    PoolSize = 1
    Nobody = Nobody
INVARIANTS TypeOK BootstrapsSerialized ReadyComplete NoWaitingCycle NothingLeaked
PROPERTIES EveryCallFinishes CloseCompletes
