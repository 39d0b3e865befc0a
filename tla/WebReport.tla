----------------------------- MODULE WebReport -----------------------------
(***************************************************************************)
(* What the web example tells its user about an error of the engine        *)
(* (examples/web/errors.go): the first case that errors.Is finds.          *)
(***************************************************************************)
EXTENDS IsletEngine, Sequences, FiniteSetsExt

\* The cases of report: error kinds, and what is reported.
EarlyCases ==
    << <<{"OutcomeUnknown"}, "unknown">>,
       <<{"Busy", "StaleGeneration"}, "busy">>,
       <<{"Failed", "Unavailable"}, "unavailable">>,
       <<{"NotFound"}, "session">> >>

TimeoutCase == << <<{"Timeout"}, "timeout">> >>

LateCases ==
    << <<{"ResultLimit"}, "limit">>,
       <<{"SQLTooLarge"}, "limit">>,
       <<{"Policy"}, "policy">>,
       <<{"RuntimeConnection"}, "connection">>,
       <<{"Query"}, "query">> >>

\* As Cases, but a timeout is looked for first.
CasesTimeoutFirst == TimeoutCase \o EarlyCases \o LateCases

Cases == EarlyCases \o TimeoutCase \o LateCases

Report(err) ==
    LET hits == {k \in DOMAIN Cases : Cases[k][1] \cap err # {}} IN
    IF err = {} THEN "none" ELSE IF hits = {} THEN "internal" ELSE Cases[Min(hits)][2]

\* A user is warned whenever the operation may still be executed: if a COMMIT
\* of the call is left at the server after it returned, the report is "The
\* commit outcome is unknown", whatever else went wrong on the way
\* (errors.go:29, and the errors initialize joins).
DoubtReported ==
    \A c \in Calls : pc[c] = "done" /\ ~Settled(c) => Report(res[c].err) = "unknown"

\* A timeout that is reported as such means that nothing of the operation was
\* committed (the message of examples/web/errors.go:42).
TimeoutMeansNotCommitted ==
    \A c \in Calls :
        pc[c] = "done" /\ Report(res[c].err) = "timeout"
        => did[c] \cap {"lifecycle", "batch"} = {}

=============================================================================
