SPECIFICATION Spec
CONSTANTS
    Requests = {r1, r2, r3}
    MaxSessions = 2
    NoCookie = NoCookie
    Failures = {"create", "open", "remove", "drain", "hang"}
SYMMETRY Symmetry
INVARIANTS TypeOK NothingForgotten CleanExit ReconnectPossible
PROPERTIES WorkspaceKept
