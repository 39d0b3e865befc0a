---------------------------- MODULE WebSessions ----------------------------
(***************************************************************************)
(* The session table of the web example (examples/web): the handlers that  *)
(* create, use and end workspaces, the cleanup of expired ones, and the    *)
(* shutdown sequence of run().                                             *)
(*                                                                         *)
(* Simplifications.                                                        *)
(*  - The cookie token and the islet that a start request draws are both   *)
(*    named by the request, and every request is made at most once.        *)
(*  - The age of a session is "live" or "expired".  A call that has a      *)
(*    deadline is over long before the 30 minutes of the session that the  *)
(*    request has refreshed; the Open of current has none (Failures).      *)
(*  - The engine (IsletEngine) is seen through its API.  Of an islet only  *)
(*    the state is kept; a call that meets another operation or a newer    *)
(*    generation is one that fails without effect.                         *)
(***************************************************************************)
EXTENDS Integers, FiniteSets

CONSTANTS
    Requests,     \* HTTP requests, also their tokens and islets
    MaxSessions,  \* maxSessions, 32 in the code
    NoCookie,
    Failures      \* what may happen: "create", "open" and "remove" fail; Shutdown
                  \* gives up ("drain"); the Open of current, which has no
                  \* deadline, is not answered at all ("hang")

ASSUME MaxSessionsAssumption == MaxSessions \in Nat \ {0}
ASSUME NoCookieAssumption == NoCookie \notin Requests

\* A request that hangs outlasts Shutdown, and a Shutdown that gives up cancels
\* the contexts of all requests.
ASSUME FailuresAssumption ==
    /\ Failures \subseteq {"create", "open", "remove", "drain", "hang"}
    /\ "hang" \in Failures => "drain" \in Failures
    /\ "drain" \in Failures => {"create", "open", "remove"} \subseteq Failures

VARIABLES
    sessions, \* s.sessions: the age of each token's session, or "none"
    pending,  \* s.pending
    islets,   \* the state of each islet in the database
    ask,      \* the operation and the cookie of each request
    pc,       \* where each handler stands
    reply,    \* how each request was answered
    main,     \* where run() stands
    failed,   \* will run() return an error?
    taken,    \* the sessions Cleanup has taken off the table (expired)
    sweep     \* the one it is removing, and how far it is

vars == <<sessions, pending, islets, ask, pc, reply, main, failed, taken, sweep>>
mainVars == <<main, failed, taken, sweep>>

Ages == {"none", "live", "expired"}
RemoveSteps == {"reopen", "recover", "delete"}
Refreshed == {"open", "use", "reseed", "forget"} \cup RemoveSteps
Busy == {"start", "current", "admit", "create", "register", "release"} \cup Refreshed

(***************************************************************************)
(* "coming": the COMMIT of the creation has not been answered and may      *)
(* still be executed.                                                      *)
(***************************************************************************)
IsletStates == {"none", "coming", "initializing", "active", "failed"}

Exists(t) == islets[t] \notin {"none", "coming"}
Kept == {t \in Requests : sessions[t] # "none"}
Running == {r \in Requests : pc[r] \in Busy}

Init ==
    /\ sessions = [t \in Requests |-> "none"]
    /\ pending = 0
    /\ islets = [t \in Requests |-> "none"]
    /\ ask = [r \in Requests |-> [op |-> "none", cookie |-> NoCookie]]
    /\ pc = [r \in Requests |-> "idle"]
    /\ reply = [r \in Requests |-> "none"]
    /\ main = "serving"
    /\ failed = FALSE
    /\ taken = [t \in Requests |-> "none"]
    /\ sweep = [cur |-> NoCookie, step |-> "none"]

Alive(t) == t # NoCookie /\ sessions[t] = "live"

Goto(r, p) == pc' = [pc EXCEPT ![r] = p]

\* The handler of r writes its response and returns.
Answer(r, a) ==
    /\ Goto(r, "done")
    /\ reply' = [reply EXCEPT ![r] = a]

(***************************************************************************)
(* Requests                                                                *)
(***************************************************************************)

\* The tokens browsers have been given.
Cookies == {t \in Requests : reply[t] = "created"}

\* ServeHTTP or decode turns the request away.
Reject(r) ==
    /\ pc[r] = "idle"
    /\ main \in {"serving", "sweeping"}
    /\ Answer(r, "rejected")
    /\ UNCHANGED <<sessions, pending, islets, ask, mainVars>>

\* ServeHTTP passes the request on: POST and DELETE /api/session, and the
\* handlers that work on the workspace.
Arrive(r, op, cookie) ==
    /\ pc[r] = "idle"
    /\ main \in {"serving", "sweeping"}
    /\ ask' = [ask EXCEPT ![r] = [op |-> op, cookie |-> cookie]]
    /\ Goto(r, IF op = "start" THEN "start" ELSE "current")
    /\ UNCHANGED <<sessions, pending, islets, reply, mainVars>>

\* start: is the session of the cookie alive?
StartCheck(r) ==
    LET t == ask[r].cookie IN
    /\ pc[r] = "start"
    /\ Goto(r, IF Alive(t) THEN "current" ELSE "admit")
    /\ UNCHANGED <<sessions, pending, islets, ask, reply, mainVars>>

\* As Full, without the starts that are under way.
FullNoPending == Cardinality(Kept) >= MaxSessions

\* All workspace slots are in use.
Full == Cardinality(Kept) + pending >= MaxSessions

Admit(r) ==
    /\ pc[r] = "admit"
    /\ \/ /\ Full
          /\ Answer(r, "capacity")
          /\ UNCHANGED pending
       \/ /\ ~Full
          /\ pending' = pending + 1
          /\ Goto(r, "create")
          /\ UNCHANGED reply
    /\ UNCHANGED <<sessions, islets, ask, mainVars>>

\* As Create, but a failure without a handle gives the slot back itself.
CreateReleasing(r) ==
    /\ pc[r] = "create"
    /\ \/ /\ islets' = [islets EXCEPT ![r] = "active"]
          /\ Goto(r, "register")
          /\ UNCHANGED <<reply, pending>>
       \/ /\ Goto(r, "release")
          /\ reply' = [reply EXCEPT ![r] = "error"]
          /\ pending' = pending - 1
          /\ UNCHANGED islets
    /\ UNCHANGED <<sessions, ask, mainVars>>

\* CreateWithInitialization succeeds, fails without a handle, or fails with
\* one: the islet is then in any state, or its COMMIT still on the way.
Create(r) ==
    /\ pc[r] = "create"
    /\ \/ /\ islets' = [islets EXCEPT ![r] = "active"]
          /\ Goto(r, "register")
          /\ UNCHANGED reply
       \/ /\ "create" \in Failures
          /\ Goto(r, "release")
          /\ reply' = [reply EXCEPT ![r] = "error"]
          /\ UNCHANGED islets
       \/ /\ "create" \in Failures
          /\ \E s \in IsletStates : islets' = [islets EXCEPT ![r] = s]
          /\ Goto(r, "reopen")
          /\ UNCHANGED reply
    /\ UNCHANGED <<sessions, pending, ask, mainVars>>

Register(r) ==
    /\ pc[r] = "register"
    /\ sessions' = [sessions EXCEPT ![r] = "live"]
    /\ reply' = [reply EXCEPT ![r] = "created"]
    /\ Goto(r, "release")
    /\ UNCHANGED <<pending, islets, ask, mainVars>>

\* The deferred function of start.
Release(r) ==
    /\ pc[r] = "release"
    /\ pending' = pending - 1
    /\ Goto(r, "done")
    /\ UNCHANGED <<sessions, islets, ask, reply, mainVars>>

\* current: the session must be alive, and is refreshed.
Current(r) ==
    LET t == ask[r].cookie IN
    /\ pc[r] = "current"
    /\ \/ ~Alive(t) /\ Answer(r, "unauthorized")
       \/ Alive(t) /\ Goto(r, "open") /\ UNCHANGED reply
    /\ UNCHANGED <<sessions, pending, islets, ask, mainVars>>

\* current: the islet must be there.
Open(r) ==
    LET t == ask[r].cookie IN
    /\ pc[r] = "open"
    /\ \/ ~Exists(t) /\ Answer(r, "unauthorized")
       \/ "open" \in Failures /\ Answer(r, "error")
       \/ Exists(t) /\ ask[r].op = "start" /\ Answer(r, "reused")
       \/ Exists(t) /\ ask[r].op # "start" /\ UNCHANGED reply
          /\ Goto(r, IF ask[r].op = "end" THEN "reopen" ELSE "use")
    /\ UNCHANGED <<sessions, pending, islets, ask, mainVars>>

\* query, schema and reset; a failed Reset leaves a failed islet.
Use(r) ==
    LET t == ask[r].cookie IN
    /\ pc[r] = "use"
    /\ \/ UNCHANGED islets
       \/ /\ islets[t] \in {"active", "failed"}
          /\ \E s \in {"active", "failed"} : islets' = [islets EXCEPT ![t] = s]
    /\ Answer(r, "used")
    /\ UNCHANGED <<sessions, pending, ask, mainVars>>

\* reseed: the reset of Reinitialize, then its initialization, which may be
\* overtaken by a removal or come to no end.
Reseed(r) ==
    LET t == ask[r].cookie IN
    /\ pc[r] = "use"
    /\ islets[t] \in {"active", "failed"}
    /\ islets' = [islets EXCEPT ![t] = "initializing"]
    /\ Goto(r, "reseed")
    /\ UNCHANGED <<sessions, pending, ask, reply, mainVars>>

ReseedEnds(r) ==
    LET t == ask[r].cookie IN
    /\ pc[r] = "reseed"
    /\ \/ UNCHANGED islets
       \/ /\ islets[t] = "initializing"
          /\ \E s \in {"active", "failed"} : islets' = [islets EXCEPT ![t] = s]
    /\ Answer(r, "used")
    /\ UNCHANGED <<sessions, pending, ask, mainVars>>

(***************************************************************************)
(* remove: Open, Recover if the islet is being initialized, Delete.  The   *)
(* outcomes of a step on an islet in state s: the state it leaves, and     *)
(* what comes next.  A step may fail without effect, leave the islet       *)
(* failed, or fail although it was executed.                               *)
(***************************************************************************)

\* As RemoveOutcomes, but a failed Delete starts again from Open.
RemoveRetrying(step, s) ==
    LET to(state, then) == [islet |-> state, then |-> then] IN
    IF step = "reopen"
    THEN {to(s, IF s \in {"none", "coming"} THEN "ok"
                ELSE IF s = "initializing" THEN "recover" ELSE "delete")}
    ELSE {to("none", "ok"), to(s, "reopen")}

RemoveOutcomes(step, s) ==
    LET to(state, then) == [islet |-> state, then |-> then]
        gone == s \in {"none", "coming"}
        errors(states) == IF "remove" \in Failures
                          THEN {to(x, "err") : x \in states \cup {s}} ELSE {} IN
    CASE step = "reopen"  ->
           {to(s, IF gone THEN "ok" ELSE IF s = "initializing" THEN "recover" ELSE "delete")}
           \cup errors({})
      [] step = "recover" ->
           IF gone THEN {to(s, "err")}
           ELSE {to("active", "delete")} \cup errors({"active", "failed"})
      [] step = "delete"  ->
           IF gone THEN {to(s, "ok")}
           ELSE IF s = "initializing" THEN {to(s, "err")}
           ELSE {to("none", "ok")} \cup errors({"none", "failed"})

\* The islet a request removes: its own, or the one of its cookie.
Target(r) == IF ask[r].op = "start" THEN r ELSE ask[r].cookie

\* start drops the error of remove, and reports the one it had before.
Remove(r) ==
    LET t == Target(r) IN
    /\ pc[r] \in RemoveSteps
    /\ \E o \in RemoveOutcomes(pc[r], islets[t]) :
          /\ islets' = [islets EXCEPT ![t] = o.islet]
          /\ \/ o.then \in RemoveSteps /\ Goto(r, o.then) /\ UNCHANGED reply
             \/ /\ o.then \notin RemoveSteps /\ ask[r].op = "start"
                /\ Goto(r, "release")
                /\ reply' = [reply EXCEPT ![r] = "error"]
             \/ o.then = "ok" /\ ask[r].op = "end" /\ Goto(r, "forget") /\ UNCHANGED reply
             \/ o.then = "err" /\ ask[r].op = "end" /\ Answer(r, "error")
    /\ UNCHANGED <<sessions, pending, ask, mainVars>>

\* As Forget, but the session stays.
ForgetNot(r) ==
    /\ pc[r] = "forget"
    /\ Answer(r, "deleted")
    /\ UNCHANGED <<sessions, pending, islets, ask, mainVars>>

\* end: the session goes after its islet.
Forget(r) ==
    /\ pc[r] = "forget"
    /\ sessions' = [sessions EXCEPT ![ask[r].cookie] = "none"]
    /\ Answer(r, "deleted")
    /\ UNCHANGED <<pending, islets, ask, mainVars>>

(***************************************************************************)
(* run() and Cleanup                                                       *)
(***************************************************************************)

\* As Sweepable, without looking at the age.
SweepableAnyAge(t, all) == sessions[t] # "none"

\* As Sweepable, but sessions are only removed at the end.
SweepableAtExit(t, all) == sessions[t] # "none" /\ all

\* The sessions Cleanup takes off the table.
Sweepable(t, all) ==
    \/ sessions[t] = "expired"
    \/ sessions[t] = "live" /\ all

\* Cleanup, up to the end of its first critical section.
Take(all) ==
    /\ taken' = [t \in Requests |-> IF Sweepable(t, all) THEN sessions[t] ELSE "none"]
    /\ sessions' = [t \in Requests |-> IF Sweepable(t, all) THEN "none" ELSE sessions[t]]

\* The ticker fires.
Tick ==
    /\ main = "serving"
    /\ main' = "sweeping"
    /\ Take(FALSE)
    /\ UNCHANGED <<pending, islets, ask, pc, reply, failed, sweep>>

\* As Reinserted, but a session whose islet could not be removed is dropped.
ReinsertedNot(t) == sessions

\* Cleanup puts a session back whose islet it could not remove.
Reinserted(t) == [sessions EXCEPT ![t] = taken[t]]

SweepNext(t) ==
    /\ sweep.cur = NoCookie
    /\ taken[t] # "none"
    /\ sweep' = [cur |-> t, step |-> "reopen"]
    /\ UNCHANGED <<sessions, pending, islets, ask, pc, reply, main, failed, taken>>

\* One step of remove; it fails at once when Shutdown has used up the deadline
\* that Cleanup shares with it.
SweepOutcomes ==
    IF main = "overdue" THEN {[islet |-> islets[sweep.cur], then |-> "err"]}
    ELSE RemoveOutcomes(sweep.step, islets[sweep.cur])

\* Only the errors of the last Cleanup reach run's result.
SweepStep ==
    LET t == sweep.cur IN
    /\ t # NoCookie
    /\ \E o \in SweepOutcomes :
          /\ islets' = [islets EXCEPT ![t] = o.islet]
          /\ \/ /\ o.then \in RemoveSteps
                /\ sweep' = [sweep EXCEPT !.step = o.then]
                /\ UNCHANGED <<sessions, taken, failed>>
             \/ /\ o.then \notin RemoveSteps
                /\ sweep' = [cur |-> NoCookie, step |-> "none"]
                /\ taken' = [taken EXCEPT ![t] = "none"]
                /\ sessions' = IF o.then = "err" THEN Reinserted(t) ELSE sessions
                /\ failed' = (failed \/ (o.then = "err" /\ main # "sweeping"))
    /\ UNCHANGED <<pending, ask, pc, reply, main>>

\* Cleanup returns, to the loop or to the end of run(), which closes the Manager.
SweepEnds ==
    /\ main \in {"sweeping", "final", "overdue"}
    /\ taken = [t \in Requests |-> "none"]
    /\ main' = IF main = "sweeping" THEN "serving" ELSE "closing"
    /\ UNCHANGED <<sessions, pending, islets, ask, pc, reply, failed, taken, sweep>>

\* Where a handler calls the Manager, and has a connection of its pool at times.
Calling == {"create", "open", "use", "reseed"} \cup RemoveSteps

\* The deferred manager.Close() returns, and the process ends.  It waits for the
\* connections that handlers have which Shutdown has left running; a handler in
\* a call may just then have none, so that Close can return at any time.  Only
\* when no handler is in a call is it sure to return (Fairness).
ManagerCloses ==
    /\ main = "closing"
    /\ main' = "exited"
    /\ UNCHANGED <<sessions, pending, islets, ask, pc, reply, failed, taken, sweep>>

\* A signal arrives, or ListenAndServe returns an error.
Stop ==
    /\ main = "serving"
    /\ main' = "draining"
    /\ failed' \in BOOLEAN
    /\ UNCHANGED <<sessions, pending, islets, ask, pc, reply, taken, sweep>>

\* As DrainError, but the error of Shutdown is dropped.
DrainErrorDropped == failed

\* The error of Shutdown is joined to the result.
DrainError == TRUE

\* Shutdown has waited for every handler, or gives up after 45 seconds and
\* leaves them running; then Cleanup takes everything.
Drain ==
    /\ main = "draining"
    /\ \/ /\ Running = {}
          /\ main' = "final"
          /\ UNCHANGED failed
       \/ /\ Running # {} /\ "drain" \in Failures
          /\ main' = "overdue"
          /\ failed' = DrainError
    /\ Take(TRUE)
    /\ UNCHANGED <<pending, islets, ask, pc, reply, sweep>>

(***************************************************************************)
(* Time and the server                                                     *)
(***************************************************************************)

\* The handler of r has refreshed the session of t, and not long ago.
Using(r, t) ==
    /\ ask[r].cookie = t
    /\ pc[r] \in Refreshed
    /\ pc[r] = "open" => "hang" \notin Failures
    /\ pc[r] \in RemoveSteps => ask[r].op = "end"

\* 30 minutes without a new request for t.
Expire(t) ==
    /\ main # "exited"
    /\ sessions[t] = "live"
    /\ \A r \in Requests : ~Using(r, t)
    /\ sessions' = [sessions EXCEPT ![t] = "expired"]
    /\ UNCHANGED <<pending, islets, ask, pc, reply, mainVars>>

\* A COMMIT nobody waits for is executed or comes to nothing.
LateCreate(t) ==
    /\ islets[t] = "coming"
    /\ \E s \in {"none", "initializing"} : islets' = [islets EXCEPT ![t] = s]
    /\ UNCHANGED <<sessions, pending, ask, pc, reply, mainVars>>

(***************************************************************************)
(* The specification                                                       *)
(***************************************************************************)

Handler(r) ==
    /\ main # "exited"
    /\ \/ StartCheck(r) \/ Admit(r) \/ Create(r) \/ Register(r) \/ Release(r)
       \/ Current(r) \/ Open(r) \/ Use(r) \/ Reseed(r) \/ ReseedEnds(r)
       \/ Remove(r) \/ Forget(r)

Sweeper == SweepStep \/ SweepEnds \/ \E t \in Requests : SweepNext(t)

Exited == main = "exited" /\ UNCHANGED vars

Next ==
    \/ \E r \in Requests :
          \/ Handler(r) \/ Reject(r)
          \/ \E op \in {"start", "end", "use"} :
                \E cookie \in Cookies \cup {NoCookie} : Arrive(r, op, cookie)
    \/ Tick \/ Sweeper \/ Stop \/ Drain \/ ManagerCloses
    \/ \E t \in Requests : LateCreate(t) \/ Expire(t)
    \/ Exited

Spec == Init /\ [][Next]_vars

\* As Cancelled, but the server is not closed when Shutdown has given up.
CancelledNever == FALSE

\* run() has closed the server, which cancels the contexts of its requests.
Cancelled == main \in {"overdue", "closing"}

(***************************************************************************)
(* Fairness.  The calls of a handler have deadlines: OperationTimeout, and *)
(* 10 seconds in remove.  The Open of current has none (sessions.go:49):   *)
(* if the database does not answer it goes on until its request is         *)
(* cancelled.  The ticker fires every minute, every call of Cleanup ends   *)
(* by the deadline of remove, and Shutdown gives up after 45 seconds.      *)
(***************************************************************************)
Bounded(r) == pc[r] = "open" => "hang" \notin Failures \/ Cancelled

Fairness ==
    /\ \A r \in Requests : WF_vars(Handler(r) /\ Bounded(r))
    /\ WF_vars(Sweeper)
    /\ WF_vars(Tick)
    /\ WF_vars(Drain)
    /\ WF_vars(ManagerCloses /\ \A r \in Requests : pc[r] \notin Calling)

FairSpec == Spec /\ Fairness

(***************************************************************************)
(* Properties                                                              *)
(***************************************************************************)

\* Every variable keeps its type.
TypeOK ==
    /\ sessions \in [Requests -> Ages]
    /\ pending \in Nat
    /\ islets \in [Requests -> IsletStates]
    /\ ask \in [Requests -> [op : {"none", "start", "end", "use"},
                             cookie : Requests \cup {NoCookie}]]
    /\ pc \in [Requests -> Busy \cup {"idle", "done"}]
    /\ reply \in [Requests -> {"none", "rejected", "capacity", "created", "reused",
                               "unauthorized", "used", "deleted", "error"}]
    /\ main \in {"serving", "sweeping", "draining", "final", "overdue", "closing", "exited"}
    /\ failed \in BOOLEAN
    /\ taken \in [Requests -> Ages]
    /\ sweep \in [cur : Requests \cup {NoCookie}, step : RemoveSteps \cup {"none"}]

\* Until it exits, the server knows of every islet it has made: it is in the
\* table, Cleanup has it in hand, its start is still running, or its start was
\* answered with an error (start, end, Cleanup).
NothingForgotten ==
    main # "exited" =>
    \A t \in Requests : Exists(t) =>
        \/ sessions[t] # "none"
        \/ taken[t] # "none"
        \/ ask[t].op = "start" /\ pc[t] \in Busy
        \/ reply[t] = "error"

\* While the server runs, an islet is destroyed only by a request to end it, by
\* the cleanup of its expired session, or by the start that failed to make it:
\* never under a browser that keeps using it (current, Cleanup).  A request that
\* has hung in Open for 30 minutes does not count as use.
WorkspaceKept ==
    [][\A t \in Requests :
          Exists(t) /\ ~Exists(t)' /\ main # "final" =>
             \/ \E r \in Requests : Target(r) = t /\ pc[r] = "delete"
             \/ taken[t] = "expired"]_vars

\* A shutdown that reports no error leaves only islets whose start had failed
\* (run).
CleanExit ==
    main = "exited" /\ ~failed =>
    \A t \in Requests : Exists(t) => reply[t] = "error"

\* The table never holds more sessions than maxSessions (README.md:905),
\* however starts, cleanups and their failures interleave.
WithinCapacity == Cardinality(Kept) <= MaxSessions

\* A browser that is told to reconnect can, unless an end it asked for before
\* was answered with an error: only then does a session without an islet stand
\* in the way of a new one (the messages of sessions.go:45 and errors.go:39).
ReconnectPossible ==
    main = "serving" /\ Running = {} =>
    \A r \in Requests :
        LET t == ask[r].cookie IN
        /\ reply[r] = "unauthorized" /\ ask[r].op = "start"
        /\ Alive(t) /\ islets[t] = "none"
        => \E e \in Requests : ask[e].op = "end" /\ ask[e].cookie = t /\ reply[e] = "error"

\* Every expired session leaves the table, if islets can be removed.
ExpiredRemoved ==
    \A t \in Requests : sessions[t] = "expired" ~> sessions[t] = "none" \/ main = "exited"

\* Every request is answered unless the server exits before or the database does
\* not answer current's Open, to which nobody gives the deadline that README.md:316
\* asks callers for (sessions.go:49): no other step of a handler, the removal of a failed
\* start included, can keep it for ever, whatever fails (start, end, remove and
\* the deadlines of the engine).
OnlyOpenHangs ==
    \A r \in Requests : pc[r] \in Busy ~> pc[r] \in {"open", "done"} \/ main = "exited"

\* Once told to stop the server exits, although requests may hang, removals fail,
\* and Close waits for the connections of handlers that Shutdown has left
\* running: server.Close has cancelled what they wait for (run).
ShutdownCompletes == main = "draining" ~> main = "exited"

=============================================================================
