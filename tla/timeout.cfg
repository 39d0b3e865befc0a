SPECIFICATION Spec
CONSTANTS
    Ids = {i1}
    Calls = {c1}
    Ops = {"Reinitialize"}
    Faults = {"Timeout"}
    Nobody = Nobody
    Admin = "absent"
SYMMETRY Symmetry
INVARIANTS TimeoutMeansNotCommitted
