SPECIFICATION FairSpec
CONSTANTS
    Requests = {r1, r2}
    MaxSessions = 1
    NoCookie = NoCookie
    Failures = {"create", "open", "remove", "drain", "hang"}
PROPERTIES OnlyOpenHangs ShutdownCompletes
