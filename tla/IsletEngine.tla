---------------------------- MODULE IsletEngine ----------------------------
(***************************************************************************)
(* The lifecycle and execution engine of pgislet (internal/engine): the    *)
(* registry rows kept in PostgreSQL, the transactions that lock them, and  *)
(* the API calls that run against them from any number of processes.       *)
(*                                                                         *)
(* Simplifications.                                                        *)
(*  - The registry row, the dedicated schema and the runtime role of an    *)
(*    islet are one record: every transaction of the engine changes them   *)
(*    together.                                                            *)
(*  - The content of a schema is a set of marks, one for each batch that   *)
(*    left something there, carrying the generation of the handle the      *)
(*    batch was called with.                                               *)
(*  - An API call is a process used once.  Its identity also stands for    *)
(*    the random initialization token it draws.                            *)
(*  - An error is the set of kinds errors.Is finds in it.  "Raw" is a      *)
(*    driver error that matches none of them.  A statement that is         *)
(*    rejected by the policy or exceeds the result budget fails like one   *)
(*    that PostgreSQL rejects.                                             *)
(***************************************************************************)
EXTENDS Naturals, FiniteSets

CONSTANTS
    Ids,        \* islet identifiers (opaque() draws them at random)
    Calls,      \* API calls, each made at most once
    Ops,        \* the operations that are called
    Faults,     \* what classify() makes of a failed database call
    Nobody,     \* no token, no transaction owner
    Admin       \* "absent", or "careful" not to add a dependency during an
                \* operation on the islet, or "racing" with it

InitOps == {"CreateWithInitialization", "Reinitialize"}
CreateOps == {"Create", "CreateWithInitialization"}
CleanupOps == {"Reset", "Recover", "Reinitialize", "Delete"}
AllOps == CreateOps \cup CleanupOps \cup {"Batch"}

Kinds == {"NotFound", "Busy", "Unavailable", "Failed", "StaleGeneration",
          "Timeout", "RuntimeConnection", "Initialization", "Lifecycle",
          "Query", "OutcomeUnknown", "ExternalDependency", "SQLTooLarge",
          "Raw"}

ASSUME OpsAssumption == Ops \subseteq AllOps
ASSUME FaultsAssumption == Faults \subseteq {"Timeout", "Query", "Raw"}
ASSUME NobodyAssumption == Nobody \notin Calls \cup Ids
ASSUME AdminAssumption == Admin \in {"absent", "careful", "racing"}

VARIABLES
    db,       \* the committed registry row, schema and role of each islet
    tx,       \* the transaction that holds the row lock of each islet
    issued,   \* the highest generation each islet ever committed
    external, \* islets on whose content an object outside them depends
    lost,     \* islets whose cleanup destroyed such an object
    pc,       \* where each call stands
    req,      \* what each call was asked, and the token it has looked up
    res,      \* what each call returns
    late,     \* calls whose failure update is still waiting at the server
    did       \* what each call has committed (history)

vars == <<db, tx, issued, external, lost, pc, req, res, late, did>>

(***************************************************************************)
(* Types                                                                   *)
(***************************************************************************)

Mark == [by : Calls, gen : Nat]

Row == [state : {"absent", "active", "initializing", "failed"},
        gen : Nat, tok : Calls \cup {Nobody}, data : SUBSET Mark]

Effects == {"lifecycle", "failed", "batch"}

(***************************************************************************)
(* "open" belongs to a live call.  An "orphan" has lost its client and is  *)
(* rolled back by the server.  "committing" has lost its client after      *)
(* COMMIT was sent, and may still commit.  cut holds the islet itself once *)
(* the transaction has dropped an object outside it.                       *)
(***************************************************************************)
Tx == [phase : {"none", "open", "orphan", "committing"},
       by : Calls \cup {Nobody}, effect : Effects \cup {"none"},
       cut : SUBSET Ids, ws : Row]

LifecyclePCs == {"create", "lock", "locked", "cleanup", "commit"}
RuntimePCs == {"lookup", "connect", "enter", "check", "run", "commitBatch"}
HoldingPCs == {"locked", "cleanup", "commit", "check", "run", "commitBatch"}
PCs == LifecyclePCs \cup RuntimePCs \cup
       {"idle", "mark", "reopenFailed", "reopen", "done", "crashed"}

Absent == [state |-> "absent", gen |-> 0, tok |-> Nobody, data |-> {}]
NoTx == [phase |-> "none", by |-> Nobody, effect |-> "none",
         cut |-> {}, ws |-> Absent]
Running == PCs \ {"idle", "done", "crashed"}

(***************************************************************************)
(* Helpers                                                                 *)
(***************************************************************************)

Exists(i) == db[i].state # "absent"
Locked(i) == tx[i].phase # "none"

\* A transaction of call c that holds the row lock of i, with its view of the
\* committed row as its working copy.
Begun(c, i) == [NoTx EXCEPT !.phase = "open", !.by = c, !.ws = db[i]]

\* The call ends with error kinds e and a handle of generation g, or with none but
\* the one it was given (0), which its caller holds already.
Return(c, e, g) ==
    /\ pc' = [pc EXCEPT ![c] = "done"]
    /\ res' = [res EXCEPT ![c] = [err |-> e, ret |-> g]]

\* As FailWith, but an unavailable islet is tried again from the start.
FailWithRetry(c, e, g) ==
    IF e = {"Unavailable"} /\ pc[c] = "enter"
    THEN pc' = [pc EXCEPT ![c] = "lookup"] /\ UNCHANGED res
    ELSE Return(c, res[c].err \cup e, g)

\* A step of call c fails with error kinds e: initialize() goes on to record
\* the failure, every other call returns, with the handle generation g.
FailWith(c, e, g) ==
    IF req[c].op \in InitOps /\ pc[c] \in RuntimePCs
    THEN /\ pc' = [pc EXCEPT ![c] = "mark"]
         /\ res' = [res EXCEPT ![c].err = e \cup {"Initialization"}]
    ELSE Return(c, res[c].err \cup e, g)

Fail(c, e) == FailWith(c, e, 0)

Goto(c, p) == pc' = [pc EXCEPT ![c] = p]

dbVars == <<db, issued, external, lost, did>>

Init ==
    /\ issued \in [Ids -> {0, 1}]
    /\ db = [i \in Ids |-> IF issued[i] = 0 THEN Absent
                           ELSE [Absent EXCEPT !.state = "active", !.gen = 1]]
    /\ tx = [i \in Ids |-> NoTx]
    /\ external = {}
    /\ lost = {}
    /\ pc = [c \in Calls |-> "idle"]
    /\ req = [c \in Calls |-> [op |-> "none", id |-> Nobody, gen |-> 0,
                               tok |-> Nobody]]
    /\ res = [c \in Calls |-> [err |-> {}, ret |-> 0]]
    /\ late = {}
    /\ did = [c \in Calls |-> {}]

(***************************************************************************)
(* The calls                                                               *)
(***************************************************************************)

\* The generations of the handles of i that callers can hold: Open returns the
\* committed one at any time, and create and reset return theirs even when
\* COMMIT fails.
Handles(i) ==
    (1 .. issued[i]) \cup
    {res[d].ret : d \in {e \in Calls : req[e].id = i /\ res[e].ret # 0}}

\* Create and CreateWithInitialization draw an identifier nobody else has.
CallCreate(c, op, i) ==
    /\ op \in CreateOps
    /\ pc[c] = "idle"
    /\ issued[i] = 0
    /\ \A d \in Calls : req[d].id # i
    /\ req' = [req EXCEPT ![c] = [op |-> op, id |-> i, gen |-> 1, tok |-> Nobody]]
    /\ Goto(c, "create")
    /\ UNCHANGED <<dbVars, tx, res, late>>

\* Reset, Recover, Reinitialize, Delete and Batch are given a handle.
CallWith(c, op, i, g) ==
    /\ op \in CleanupOps \cup {"Batch"}
    /\ pc[c] = "idle"
    /\ req' = [req EXCEPT ![c] = [op |-> op, id |-> i, gen |-> g, tok |-> Nobody]]
    /\ Goto(c, IF op = "Batch" THEN "lookup" ELSE "lock")
    /\ UNCHANGED <<dbVars, tx, res, late>>

\* checkSize refuses the statements before anything else happens; Reinitialize
\* gives its caller's handle back.
CallTooLarge(c, op) ==
    /\ op \in InitOps \cup {"Batch"}
    /\ pc[c] = "idle"
    /\ req' = [req EXCEPT ![c].op = op]
    /\ Return(c, {"SQLTooLarge"}, 0)
    /\ UNCHANGED <<dbVars, tx, late>>

(***************************************************************************)
(* Lifecycle transactions                                                  *)
(***************************************************************************)

\* The state and token a successful create or reset leaves behind.
Prepared(c, g) ==
    [state |-> IF req[c].op \in InitOps THEN "initializing" ELSE "active",
     gen |-> g,
     tok |-> IF req[c].op \in InitOps THEN c ELSE Nobody,
     data |-> {}]

\* create(): role, schema, grants and row in one transaction.  Nobody else
\* sees the row before it commits.
CreateRow(c) ==
    LET i == req[c].id IN
    /\ pc[c] = "create"
    /\ tx' = [tx EXCEPT ![i] = [Begun(c, i) EXCEPT !.effect = "lifecycle",
                                                  !.ws = Prepared(c, 1)]]
    /\ Goto(c, "commit")
    /\ UNCHANGED <<dbVars, req, res, late>>

\* As LockErrors, but a locked row is taken for one that is gone.
LockErrorsBusyGone(c) ==
    IF ~Exists(req[c].id) \/ Locked(req[c].id)
    THEN {IF req[c].op = "Delete" THEN {} ELSE {"NotFound"}} ELSE {}

\* What SELECT ... FOR UPDATE NOWAIT makes a call return: Delete is content
\* with a row that is gone.
LockErrors(c) ==
    IF ~Exists(req[c].id) THEN {IF req[c].op = "Delete" THEN {} ELSE {"NotFound"}}
    ELSE IF Locked(req[c].id) THEN {{"Busy"}} ELSE {}

LockMetadata(c) ==
    LET i == req[c].id IN
    /\ pc[c] = "lock"
    /\ \/ \E e \in LockErrors(c) : Return(c, e, 0) /\ UNCHANGED tx
       \/ /\ LockErrors(c) = {}
          /\ tx' = [tx EXCEPT ![i] = Begun(c, i)]
          /\ Goto(c, "locked")
          /\ UNCHANGED res
    /\ UNCHANGED <<dbVars, req, late>>

\* As Refusal, without comparing generations.
RefusalAnyGeneration(c, row) ==
    IF row.state = "initializing" /\ req[c].op # "Recover"
    THEN {"Unavailable"} ELSE {}

\* Why reset and Delete refuse the row they have locked.
Refusal(c, row) ==
    IF row.gen # req[c].gen THEN {"StaleGeneration"}
    ELSE IF row.state = "initializing" /\ req[c].op # "Recover"
    THEN {"Unavailable"} ELSE {}

\* The row is refused; the deferred rollback releases its lock.
Refuse(c) ==
    LET i == req[c].id IN
    /\ pc[c] = "locked"
    /\ Refusal(c, tx[i].ws) # {}
    /\ Fail(c, Refusal(c, tx[i].ws))
    /\ tx' = [tx EXCEPT ![i] = NoTx]
    /\ UNCHANGED <<dbVars, req, late>>

\* As FailedWork, without ROLLBACK TO SAVEPOINT.
FailedWorkNoSavepoint(i) ==
    [tx[i] EXCEPT !.effect = "failed",
                  !.ws = [db[i] EXCEPT !.state = "failed", !.tok = Nobody, !.data = {}]]

\* failLifecycle: the failed row, to be committed instead of the cleanup.
FailedWork(i) ==
    [tx[i] EXCEPT !.effect = "failed", !.cut = {},
                  !.ws = [db[i] EXCEPT !.state = "failed", !.tok = Nobody]]

\* As Dependent, but a batch does not look.
DependentNotInBatch(c) == req[c].id \in external /\ req[c].op # "Batch"

\* checkDependencies: does an object outside the schema depend on it?
Dependent(c) == req[c].id \in external

\* An external dependent marks the islet failed.
CheckDependencies(c) ==
    LET i == req[c].id IN
    /\ pc[c] = "locked"
    /\ Refusal(c, tx[i].ws) = {}
    /\ \/ /\ Dependent(c)
          /\ tx' = [tx EXCEPT ![i] = FailedWork(i)]
          /\ res' = [res EXCEPT ![c].err = {"Lifecycle", "ExternalDependency"}]
          /\ Goto(c, "commit")
       \/ /\ ~Dependent(c)
          /\ Goto(c, "cleanup")
          /\ UNCHANGED <<tx, res>>
    /\ UNCHANGED <<dbVars, req, late>>

\* As Cleaned, but the generation stays.
CleanedSameGeneration(c, row) ==
    IF req[c].op = "Delete" THEN Absent ELSE Prepared(c, row.gen)

\* As Cleaned, but Reset keeps the old schema.
CleanedNoDrop(c, row) ==
    IF req[c].op = "Delete" THEN Absent
    ELSE [Prepared(c, row.gen + 1) EXCEPT !.data = IF req[c].op = "Reset" THEN row.data ELSE {}]

\* As Cleaned, but Delete leaves a row in the state "deleting".
CleanedDeleting(c, row) ==
    IF req[c].op = "Delete" THEN [row EXCEPT !.state = "deleting"]
    ELSE Prepared(c, row.gen + 1)

\* What the cleanup leaves of row: nothing for Delete, an empty schema and
\* the next generation otherwise.
Cleaned(c, row) ==
    IF req[c].op = "Delete" THEN Absent ELSE Prepared(c, row.gen + 1)

\* DROP SCHEMA ... CASCADE takes every dependent with it, external or not.
Cleanup(c) ==
    LET i == req[c].id IN
    /\ pc[c] = "cleanup"
    /\ tx' = [tx EXCEPT ![i] = [tx[i] EXCEPT !.effect = "lifecycle",
                                            !.cut = external \cap {i},
                                            !.ws = Cleaned(c, tx[i].ws)]]
    /\ Goto(c, "commit")
    /\ UNCHANGED <<dbVars, req, res, late>>

\* The cleanup fails: ROLLBACK TO SAVEPOINT, then failLifecycle.
CleanupFails(c) ==
    LET i == req[c].id IN
    /\ pc[c] = "cleanup"
    /\ tx' = [tx EXCEPT ![i] = FailedWork(i)]
    /\ res' = [res EXCEPT ![c].err = {"Lifecycle"}]
    /\ Goto(c, "commit")
    /\ UNCHANGED <<dbVars, req, late>>

(***************************************************************************)
(* COMMIT, of lifecycle transactions and of batches                        *)
(***************************************************************************)

\* PostgreSQL commits the transaction that holds i.
Install(i) ==
    /\ db' = [db EXCEPT ![i] = tx[i].ws]
    /\ issued' = [issued EXCEPT ![i] = IF tx[i].ws.gen > @ THEN tx[i].ws.gen ELSE @]
    /\ external' = external \ tx[i].cut
    /\ lost' = lost \cup tx[i].cut
    /\ did' = [did EXCEPT ![tx[i].by] = @ \cup {tx[i].effect}]
    /\ tx' = [tx EXCEPT ![i] = NoTx]

CommitPCs == {"commit", "commitBatch"}

\* COMMIT succeeds.  CreateWithInitialization and Reinitialize go on to run
\* the batch against the generation they prepared, and to reopen it after.
CommitSucceeds(c) ==
    LET i == req[c].id
        g == tx[i].ws.gen
        init == req[c].op \in InitOps IN
    /\ pc[c] \in CommitPCs
    /\ Install(i)
    /\ \/ /\ tx[i].effect = "lifecycle" /\ init
          /\ Goto(c, "lookup")
          /\ req' = [req EXCEPT ![c].gen = g]
          /\ UNCHANGED res
       \/ /\ tx[i].effect = "lifecycle" /\ ~init
          /\ Return(c, {}, g) /\ UNCHANGED req
       \/ /\ tx[i].effect = "failed"
          /\ Return(c, res[c].err, 0) /\ UNCHANGED req
       \/ /\ tx[i].effect = "batch" /\ init
          /\ Goto(c, "reopen") /\ UNCHANGED <<req, res>>
       \/ /\ tx[i].effect = "batch" /\ ~init
          /\ Return(c, {}, 0) /\ UNCHANGED req
    /\ UNCHANGED late

\* create and reset return their handle together with the error of COMMIT.
CommitError(c, e) ==
    FailWith(c, e, IF tx[req[c].id].effect = "lifecycle"
                   THEN tx[req[c].id].ws.gen ELSE 0)

\* COMMIT is answered with an error of PostgreSQL: nothing was committed.
CommitRejected(c) ==
    /\ pc[c] \in CommitPCs
    /\ \E f \in Faults \ {"Raw"} : CommitError(c, {f})
    /\ tx' = [tx EXCEPT ![req[c].id] = NoTx]
    /\ UNCHANGED <<dbVars, req, late>>

\* As UnansweredCommit, but reported like any other deadline.
UnansweredAsTimeout == {"Timeout"}

\* commit() does not know what became of a COMMIT that was not answered.
UnansweredCommit == {"OutcomeUnknown"}

CommitLost(c) ==
    /\ pc[c] \in CommitPCs
    /\ CommitError(c, UnansweredCommit)
    /\ tx' = [tx EXCEPT ![req[c].id].phase = "committing"]
    /\ UNCHANGED <<dbVars, req, late>>

(***************************************************************************)
(* Execution as the runtime role                                           *)
(***************************************************************************)

\* The registry is read without a lock, before the runtime connection.
Lookup(c) ==
    LET row == db[req[c].id] IN
    /\ pc[c] = "lookup"
    /\ \/ /\ row.state = "absent"
          /\ Fail(c, {"NotFound"}) /\ UNCHANGED req
       \/ /\ row.state # "absent" /\ row.gen # req[c].gen
          /\ Fail(c, {"StaleGeneration"}) /\ UNCHANGED req
       \/ /\ row.state # "absent" /\ row.gen = req[c].gen
          /\ req' = [req EXCEPT ![c].tok = row.tok]
          /\ Goto(c, "connect") /\ UNCHANGED res
    /\ UNCHANGED <<dbVars, tx, late>>

\* connectRuntime logs in as the islet's role, which Delete drops.
ConnectRuntime(c) ==
    /\ pc[c] = "connect"
    /\ IF Exists(req[c].id) THEN Goto(c, "enter") /\ UNCHANGED res
       ELSE Fail(c, {"RuntimeConnection", "Query"})
    /\ UNCHANGED <<dbVars, tx, req, late>>

\* As Admitted, but a call without a token may enter an initializing islet.
AdmittedNoToken(c, row) ==
    req[c].op \in InitOps => row.state = "initializing" /\ row.tok = req[c].tok

\* May a call with or without its token enter the row?
Admitted(c, row) ==
    \/ row.state = "active" /\ req[c].op \notin InitOps
    \/ row.state = "initializing" /\ req[c].op \in InitOps /\ row.tok = req[c].tok

\* As EnterErrors, without FOR UPDATE.
EnterErrorsUnlocked(c) ==
    LET i == req[c].id IN
    IF ~Exists(i) THEN {{"NotFound"}, {"Query"}}
    ELSE IF db[i].gen # req[c].gen THEN {{"StaleGeneration"}}
    ELSE IF Admitted(c, db[i]) THEN {} ELSE {{"Unavailable"}}

\* The exceptions of pgislet_api.enter.  After a Delete the role has lost its
\* right to call the function.
EnterErrors(c) ==
    LET i == req[c].id IN
    IF ~Exists(i) THEN {{"NotFound"}, {"Query"}}
    ELSE IF Locked(i) THEN {{"Busy"}}
    ELSE IF db[i].gen # req[c].gen THEN {{"StaleGeneration"}}
    ELSE IF db[i].state = "failed" THEN {{"Failed"}}
    ELSE IF ~Admitted(c, db[i]) THEN {{"Unavailable"}} ELSE {}

\* An exception aborts the transaction at the server, so a refused call holds
\* no lock.
Enter(c) ==
    LET i == req[c].id IN
    /\ pc[c] = "enter"
    /\ \/ \E e \in EnterErrors(c) : Fail(c, e) /\ UNCHANGED tx
       \/ /\ EnterErrors(c) = {}
          /\ tx' = [tx EXCEPT ![i] = Begun(c, i)]
          /\ Goto(c, "check")
          /\ UNCHANGED res
    /\ UNCHANGED <<dbVars, req, late>>

\* execute() checks the dependencies over the management pool; a violation
\* only rolls the batch back.
CheckBatch(c) ==
    /\ pc[c] = "check"
    /\ \/ /\ Dependent(c)
          /\ Fail(c, {"ExternalDependency"})
          /\ tx' = [tx EXCEPT ![req[c].id] = NoTx]
       \/ /\ ~Dependent(c)
          /\ Goto(c, "run")
          /\ UNCHANGED <<tx, res>>
    /\ UNCHANGED <<dbVars, req, late>>

\* A statement of the batch: it may drop any content of the schema, with
\* CASCADE, and leave content of its own.
Statement(c) ==
    LET i == req[c].id
        own == [by |-> c, gen |-> req[c].gen] IN
    /\ pc[c] = "run"
    /\ \E data \in SUBSET (tx[i].ws.data \cup {own}) :
          /\ data # tx[i].ws.data
          /\ tx' = [tx EXCEPT ![i].ws.data = data,
                             ![i].cut = IF db[i].data \subseteq data THEN @
                                        ELSE @ \cup (external \cap {i})]
    /\ UNCHANGED <<dbVars, pc, req, res, late>>

\* The row the batch commits: pgislet_api.finish activates an initialization.
Finished(c, row) ==
    IF req[c].op \in InitOps THEN [row EXCEPT !.state = "active", !.tok = Nobody]
    ELSE row

Finish(c) ==
    LET i == req[c].id IN
    /\ pc[c] = "run"
    /\ tx' = [tx EXCEPT ![i].effect = "batch", ![i].ws = Finished(c, @)]
    /\ Goto(c, "commitBatch")
    /\ UNCHANGED <<dbVars, req, res, late>>

(***************************************************************************)
(* initialize() after its batch                                            *)
(***************************************************************************)

\* As MarkMatches, without the generation.
MarkMatchesAnyGeneration(c) == db[req[c].id].state = "initializing"

\* UPDATE ... WHERE id=$1 AND generation=$2 AND state='initializing'
MarkMatches(c) ==
    /\ db[req[c].id].gen = req[c].gen
    /\ db[req[c].id].state = "initializing"

\* The update waits for the lock of a row it matches.
MarkRow(c) ==
    LET i == req[c].id IN
    /\ MarkMatches(c) => ~Locked(i)
    /\ db' = IF MarkMatches(c)
             THEN [db EXCEPT ![i].state = "failed", ![i].tok = Nobody] ELSE db

MarkFailed(c) ==
    /\ pc[c] = "mark"
    /\ MarkRow(c)
    /\ Goto(c, "reopenFailed")
    /\ UNCHANGED <<tx, issued, external, lost, req, res, late, did>>

\* The update meets lock_timeout, the 5 second deadline or a broken
\* connection; in the last two the server may still be executing it.
MarkFails(c) ==
    /\ pc[c] = "mark"
    /\ late' \in {late, late \cup {c}}
    /\ Goto(c, "reopenFailed")
    /\ UNCHANGED <<dbVars, tx, req, res>>

\* The server finishes or gives up an update nobody waits for.
LateMark(c) ==
    /\ c \in late
    /\ late' = late \ {c}
    /\ MarkRow(c)
    /\ UNCHANGED <<tx, issued, external, lost, pc, req, res, did>>

LateMarkLapses(c) ==
    /\ c \in late
    /\ late' = late \ {c}
    /\ UNCHANGED <<dbVars, tx, pc, req, res>>

\* Open, at the end of initialize(): whatever generation is current then.
Reopen(c) ==
    LET i == req[c].id IN
    /\ pc[c] \in {"reopen", "reopenFailed"}
    /\ \/ Exists(i) /\ Return(c, res[c].err, db[i].gen)
       \/ ~Exists(i) /\ Return(c, res[c].err \cup {"NotFound"}, req[c].gen)
       \/ \E f \in Faults : Return(c, res[c].err \cup {f}, req[c].gen)
    /\ UNCHANGED <<dbVars, tx, req, late>>

(***************************************************************************)
(* Failures                                                                *)
(***************************************************************************)

\* The errors a call returns when the database call it is at fails.
StepErrors(c) ==
    LET at(pcs, errors) == IF pc[c] \in pcs THEN errors ELSE {} IN
    at({"lock", "create", "locked", "cleanup"}, {{"Lifecycle"}}) \cup
    at({"locked", "check"}, {{"Raw"}}) \cup
    at({"locked"}, IF Dependent(c) THEN {{"Lifecycle", "ExternalDependency"}} ELSE {}) \cup
    at({"lock", "lookup", "enter", "run"}, {{f} : f \in Faults}) \cup
    at({"connect"}, {{"RuntimeConnection", f} : f \in Faults})

\* The client of a transaction is gone without ending it.  A request to lock
\* the row that was already sent may still be granted.
Abandon(c) ==
    LET i == req[c].id IN
    \/ /\ pc[c] \in HoldingPCs
       /\ \E p \in IF pc[c] \in CommitPCs THEN {"orphan", "committing"} ELSE {"orphan"} :
             tx' = [tx EXCEPT ![i].phase = p]
    \/ /\ pc[c] \in {"lock", "enter"} /\ Exists(i) /\ ~Locked(i)
       /\ pc[c] = "enter" => EnterErrors(c) = {}
       /\ tx' = [tx EXCEPT ![i] = [Begun(c, i) EXCEPT !.phase = "orphan"]]
    \/ /\ pc[c] \notin HoldingPCs
       /\ UNCHANGED tx

\* The database call c is at fails or times out.  Its transaction is rolled
\* back, or left to the server when the connection broke.
StepFails(c) ==
    /\ \E e \in StepErrors(c) : Fail(c, e)
    /\ \/ Abandon(c)
       \/ pc[c] \in HoldingPCs /\ tx' = [tx EXCEPT ![req[c].id] = NoTx]
    /\ UNCHANGED <<dbVars, req, late>>

\* The process that makes call c dies.
Crash(c) ==
    /\ pc[c] \in Running
    /\ Goto(c, "crashed")
    /\ Abandon(c)
    /\ late' \in IF pc[c] = "mark" THEN {late, late \cup {c}} ELSE {late}
    /\ UNCHANGED <<dbVars, req, res>>

\* As Abandoned, but a session idle in a transaction is never ended.
AbandonedNoTimeout(i) == tx[i].phase = "committing"

\* PostgreSQL ends a transaction whose connection broke or whose session
\* exceeds a timeout the engine has set.
Abandoned(i) == tx[i].phase \in {"orphan", "committing"}

OrphanAborts(i) ==
    /\ Abandoned(i)
    /\ tx' = [tx EXCEPT ![i] = NoTx]
    /\ UNCHANGED <<dbVars, pc, req, res, late>>

\* The server completes a COMMIT whose client is gone.
OrphanCommits(i) ==
    /\ tx[i].phase = "committing"
    /\ Install(i)
    /\ UNCHANGED <<pc, req, res, late>>

(***************************************************************************)
(* Administrators                                                          *)
(***************************************************************************)

\* An object outside the islet comes to depend on its content.  PostgreSQL
\* does not let it depend on what an open transaction has dropped.
AdminDepend(i) ==
    /\ Admin # "absent"
    /\ i \notin external
    /\ db[i].data # {}
    /\ Locked(i) => Admin = "racing" /\ db[i].data \subseteq tx[i].ws.data
    /\ external' = external \cup {i}
    /\ UNCHANGED <<db, tx, issued, lost, pc, req, res, late, did>>

AdminRelease(i) ==
    /\ i \in external \ tx[i].cut
    /\ external' = external \ {i}
    /\ UNCHANGED <<db, tx, issued, lost, pc, req, res, late, did>>

(***************************************************************************)
(* The specification                                                       *)
(***************************************************************************)

\* One step of the code that call c runs, successful or not.
Step(c) ==
    \/ CreateRow(c) \/ LockMetadata(c) \/ Refuse(c) \/ CheckDependencies(c)
    \/ Cleanup(c) \/ CleanupFails(c)
    \/ CommitSucceeds(c) \/ CommitRejected(c) \/ CommitLost(c)
    \/ Lookup(c) \/ ConnectRuntime(c) \/ Enter(c) \/ CheckBatch(c)
    \/ Finish(c) \/ MarkFailed(c) \/ MarkFails(c) \/ Reopen(c)
    \/ StepFails(c)

Invoke(c) ==
    /\ pc[c] = "idle"
    /\ \E op \in Ops :
       \/ \E i \in Ids : CallCreate(c, op, i)
       \/ \E i \in Ids : \E g \in Handles(i) : CallWith(c, op, i, g)
       \/ CallTooLarge(c, op)

Server(i) == OrphanAborts(i) \/ OrphanCommits(i)

\* Every call has returned or died.
Quiet ==
    /\ \A c \in Calls : pc[c] \notin Running
    /\ UNCHANGED vars

Next ==
    \/ \E c \in Calls : \/ Invoke(c) \/ Step(c) \/ Statement(c) \/ Crash(c)
                       \/ LateMark(c) \/ LateMarkLapses(c)
    \/ \E i \in Ids : Server(i) \/ AdminDepend(i) \/ AdminRelease(i)
    \/ Quiet

Spec == Init /\ [][Next]_vars

(***************************************************************************)
(* Properties                                                              *)
(***************************************************************************)

\* Every variable keeps its type: the states of the registry's CHECK
\* constraint that the engine writes, the error kinds it declares.
TypeOK ==
    /\ db \in [Ids -> Row]
    /\ tx \in [Ids -> Tx]
    /\ issued \in [Ids -> Nat]
    /\ external \subseteq Ids
    /\ lost \subseteq Ids
    /\ pc \in [Calls -> PCs]
    /\ req \in [Calls -> [op : AllOps \cup {"none"}, id : Ids \cup {Nobody},
                         gen : Nat, tok : Calls \cup {Nobody}]]
    /\ res \in [Calls -> [err : SUBSET Kinds, ret : Nat]]
    /\ late \subseteq Calls
    /\ did \in [Calls -> SUBSET (Effects \cup {"none"})]

\* SQL prepared for one generation never reaches another: whatever a schema
\* holds was written by batches whose handle named the row's generation, however
\* lookup, enter, resets and abandoned transactions interleave.
ContentFenced ==
    \A i \in Ids : \A m \in db[i].data : m.gen = db[i].gen

\* No lost update: a call that relies on the row lock owns the open transaction
\* of its islet, nothing has changed the committed row since it took the lock,
\* and a batch still runs against the generation of its handle.
LockProtects ==
    \A c \in Calls : pc[c] \in HoldingPCs =>
        LET i == req[c].id IN
        /\ tx[i].phase = "open" /\ tx[i].by = c
        /\ pc[c] \in {"locked", "cleanup", "check"} => tx[i].ws = db[i]
        /\ pc[c] \in {"check", "run", "commitBatch"} =>
             tx[i].ws.gen = db[i].gen /\ db[i].gen = req[c].gen

\* Between the two transactions of an initialization nobody else gets in: the
\* schema is still empty, and only the call that drew the token can have a
\* batch open on it (the state and token tests of pgislet_api.enter).
InitializationPrivate ==
    \A i \in Ids : db[i].state = "initializing" =>
        /\ db[i].data = {}
        /\ \A c \in Calls : pc[c] \in {"check", "run", "commitBatch"} /\ req[c].id = i
                            => c = db[i].tok

\* No commit lands on a generation other than the one its call was holding,
\* not even the commit of a transaction whose client has gone.
CommitFenced ==
    [][\A c \in Calls : \A e \in did'[c] \ did[c] :
          \/ e = "lifecycle" /\ req[c].op \in CreateOps
          \/ db[req[c].id].gen = req[c].gen]_vars

\* Within a generation an initializing islet becomes active only by the commit
\* of its own initialization batch, never by recovery, failure handling or
\* another call.
ActiveOnlySeeded ==
    [][\A i \in Ids :
          db[i].state = "initializing" /\ db'[i].state = "active" /\ db'[i].gen = db[i].gen
          => "batch" \in did'[db[i].tok] \ did[db[i].tok]]_vars

\* A failure is recorded by a cleanup that holds the row lock, or by the failed
\* initialization itself: a delayed failure update never hits a newer
\* initialization or an islet that is in use (initialize, failLifecycle).
FailureAttributed ==
    [][\A i \in Ids :
          db[i].state # "failed" /\ db'[i].state = "failed"
          => \/ tx[i].effect = "failed"
             \/ /\ db[i].state = "initializing"
                /\ pc[db[i].tok] = "mark" \/ db[i].tok \in late]_vars

\* What a call that returns nil has committed.
Promised(op) ==
    (IF op = "Batch" THEN {} ELSE {"lifecycle"}) \cup
    (IF op \in InitOps \cup {"Batch"} THEN {"batch"} ELSE {})

\* Nothing call c left at the server can still commit.
Settled(c) == \A i \in Ids : tx[i].by = c => tx[i].phase = "orphan"

\* Callers can believe what they are told: nil means everything promised is
\* committed; an error without ErrOutcomeUnknown means that a single-transaction
\* call changed nothing and never will, except that it may have marked the islet
\* failed, and that an ErrInitialization left nothing of the batch.
OutcomeHonest ==
    \A c \in Calls : pc[c] = "done" =>
        /\ res[c].err = {} /\ req[c].op # "Delete" => Promised(req[c].op) \subseteq did[c]
        /\ res[c].err # {} /\ "OutcomeUnknown" \notin res[c].err =>
             /\ req[c].op \notin InitOps => did[c] \cap {"lifecycle", "batch"} = {} /\ Settled(c)
             /\ "Initialization" \in res[c].err => "batch" \notin did[c] /\ Settled(c)

\* A nil Delete is final: the islet can exist afterwards only because the
\* COMMIT of its creation was still on its way and had been reported as unknown.
DeleteFinal ==
    \A c \in Calls :
        pc[c] = "done" /\ req[c].op = "Delete" /\ res[c].err = {} /\ Exists(req[c].id)
        => \E d \in Calls : /\ req[d].op \in CreateOps
                            /\ req[d].id = req[c].id
                            /\ "OutcomeUnknown" \in res[d].err

\* Neither the cleanup of Reset and Delete nor the SQL of a batch destroys an
\* object outside the islet (checkDependencies before DROP ... CASCADE).
ExternalSurvives == lost = {}

\* The handle a nil call returns is one of a committed generation, and not one
\* from before the call: at least the generation the call itself made, although
\* initialize() opens the islet again after others may have reset it.
HandleFresh ==
    \A c \in Calls :
        pc[c] = "done" /\ res[c].err = {} /\ req[c].op \notin {"Delete", "Batch"} =>
        LET own == IF req[c].op \in {"Reset", "Recover"} THEN req[c].gen + 1 ELSE req[c].gen IN
        own <= res[c].ret /\ res[c].ret <= issued[req[c].id]

\* The committed state of the engine behaves like IsletWorkspace.
WS == INSTANCE IsletWorkspace WITH
        ws <- [i \in Ids |-> [state |-> db[i].state, gen |-> db[i].gen, data |-> db[i].data]],
        used <- {i \in Ids : issued[i] > 0}

ImplementsWorkspace == WS!WSpec

(***************************************************************************)
(* Fairness.  Every step of a call runs under a context deadline and ends  *)
(* one way or the other; PostgreSQL ends abandoned transactions when it    *)
(* finds the connection broken or a session timeout expires.  Nothing is   *)
(* assumed about statements, crashes, administrators or late updates.      *)
(***************************************************************************)
Fairness ==
    /\ \A c \in Calls : WF_vars(Step(c))
    /\ \A i \in Ids : WF_vars(Server(i))

FairSpec == Spec /\ Fairness

\* Every call returns, or its process dies.
EveryCallReturns ==
    \A c \in Calls : pc[c] \in Running ~> pc[c] \in {"done", "crashed"}

\* No islet stays locked for ever, whoever dies while holding it.
LockReleased ==
    \A i \in Ids : Locked(i) ~> ~Locked(i)

=============================================================================
