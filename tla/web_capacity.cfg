SPECIFICATION FairSpec
CONSTANTS
    Requests = {r1, r2, r3}
    MaxSessions = 1
    NoCookie = NoCookie
    Failures = {"create", "open"}
INVARIANTS WithinCapacity
PROPERTIES ExpiredRemoved
