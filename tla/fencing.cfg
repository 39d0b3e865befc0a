SPECIFICATION Spec
CONSTANTS
    Ids = {i1}
    Calls = {c1, c2, c3}
    Ops = {"Reinitialize", "Reset", "Batch"}
    Faults = {"Timeout"}
    Nobody = Nobody
    Admin = "careful"
SYMMETRY Symmetry
INVARIANTS ContentFenced LockProtects InitializationPrivate OutcomeHonest ExternalSurvives
PROPERTIES CommitFenced FailureAttributed
