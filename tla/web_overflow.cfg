SPECIFICATION Spec
CONSTANTS
    Requests = {r1, r2}
    MaxSessions = 1
    NoCookie = NoCookie
    Failures = {"remove"}
SYMMETRY Symmetry
INVARIANTS WithinCapacity
