SPECIFICATION Spec
CONSTANTS
    Ids = {i1}
    Calls = {c1, c2, c3}
    Ops = {"CreateWithInitialization", "Recover", "Reset", "Delete"}
    Faults = {"Timeout"}
    Nobody = Nobody
    Admin = "careful"
SYMMETRY Symmetry
INVARIANTS DeleteFinal OutcomeHonest HandleFresh DoubtReported
PROPERTIES ActiveOnlySeeded
