SPECIFICATION Spec
CONSTANTS
    Ids = {i1}
    Calls = {c1, c2}
    Ops = {"Reset", "Batch"}
    Faults = {"Timeout"}
    Nobody = Nobody
    Admin = "racing"
SYMMETRY Symmetry
INVARIANTS ExternalSurvives
