--------------------------- MODULE ManagementPool ---------------------------
(***************************************************************************)
(* What the calls of a Manager wait for: connections of its management     *)
(* pool (manager.go) and row locks of the registry (lifecycle.go,          *)
(* execute.go, registry.go).  A batch also has a runtime connection of its *)
(* own, which no pool limits.                                              *)
(*                                                                         *)
(* Of an islet only that is kept which decides who may lock its row: that  *)
(* it is being initialized by a call, is gone, or neither ("ready").       *)
(* Handles are current.  What the calls do to the islets is IsletEngine's  *)
(* subject.                                                                *)
(***************************************************************************)
EXTENDS Bootstrap, Sequences

CONSTANTS
    Calls,     \* calls of the Managers' methods, each made at most once
    Islets,
    PoolSize,  \* MaxConns of the pool
    Nobody

Kinds == {"Create", "Reset", "Recover", "Reinitialize", "Delete", "Batch", "Open"}

ASSUME PoolSizeAssumption == PoolSize \in Nat \ {0}
ASSUME CallsAssumption == Calls \cap {Nobody, "ready", "gone"} = {}

VARIABLES
    free,     \* connections each pool can still give out
    pool,     \* "open", "closing" (Close waits) or "closed"
    at,       \* where each call stands
    job,      \* what it was asked
    islet,    \* "ready", "gone", or the call that initializes the islet
    rowLock,  \* the call that holds the row of each islet
    granting  \* the catalog rows whose privileges each call has changed and
              \* not yet committed

poolVars == <<free, pool, at, job, islet, rowLock, granting>>

\* Where a call has a connection of the pool.
Holding == {"lock", "work", "create", "commit", "lookingUp", "checking", "marking", "opening"}

\* Where a call waits for one, and where it works on its runtime connection.
Waiting == {"begin", "lookup", "check", "mark", "open"}
AtRuntime == {"enter", "run"}

Active(c) == at[c] \in Holding \cup Waiting \cup AtRuntime

PoolInit ==
    /\ free = [m \in Managers |-> PoolSize]
    /\ pool = [m \in Managers |-> "open"]
    /\ at = [c \in Calls |-> "idle"]
    /\ job = [c \in Calls |-> [kind |-> "none", by |-> Nobody, id |-> Nobody]]
    /\ islet = [i \in Islets |-> "ready"]
    /\ rowLock = [i \in Islets |-> Nobody]
    /\ granting = [c \in Calls |-> {}]

At(c, p) == at' = [at EXCEPT ![c] = p]

\* As HasConnection, but a call that waits for one counts, too.
HasConnectionOrWaits(c) == at[c] \in Holding \cup Waiting

HasConnection(c) == at[c] \in Holding

\* The connection of c goes back to its pool; the row it holds is unlocked.
Returned(c) == free' = [free EXCEPT ![job[c].by] = @ + 1]
Unlocked(c) == rowLock' = [i \in Islets |-> IF rowLock[i] = c THEN Nobody ELSE rowLock[i]]

\* The first thing each method waits for.
Entry(kind) ==
    CASE kind = "Batch" -> "lookup" [] kind = "Open" -> "open" [] OTHER -> "begin"

Invoke(c, kind, m, i) ==
    /\ at[c] = "idle"
    /\ job' = [job EXCEPT ![c] = [kind |-> kind, by |-> m, id |-> i]]
    /\ At(c, Entry(kind))
    /\ UNCHANGED <<free, pool, islet, rowLock, granting>>

\* initialize() records a failure and opens the islet; other calls return.
AfterFailure(c) ==
    IF job[c].kind = "Reinitialize" /\ at[c] \in {"lookup", "lookingUp", "check", "checking"} \cup AtRuntime
    THEN "mark"
    ELSE IF at[c] \in {"mark", "marking"} THEN "open" ELSE "done"

(***************************************************************************)
(* The pool                                                                *)
(***************************************************************************)

\* What a call does with the connection it gets.
Acquired(c) ==
    CASE at[c] = "begin"  -> IF job[c].kind = "Create" THEN "create" ELSE "lock"
      [] at[c] = "lookup" -> "lookingUp"
      [] at[c] = "check"  -> "checking"
      [] at[c] = "mark"   -> "marking"
      [] at[c] = "open"   -> "opening"

Acquire(c) ==
    LET m == job[c].by IN
    /\ at[c] \in Waiting
    /\ pool[m] = "open"
    /\ free[m] > 0
    /\ free' = [free EXCEPT ![m] = @ - 1]
    /\ At(c, Acquired(c))
    /\ UNCHANGED <<pool, job, islet, rowLock, granting>>

\* A closed pool gives nothing; a batch gives up its row lock.
AcquireClosed(c) ==
    /\ at[c] \in Waiting
    /\ pool[job[c].by] # "open"
    /\ At(c, AfterFailure(c))
    /\ Unlocked(c)
    /\ UNCHANGED <<free, pool, job, islet, granting>>

Close(m) ==
    /\ pool[m] = "open"
    /\ pool' = [pool EXCEPT ![m] = "closing"]
    /\ UNCHANGED <<free, at, job, islet, rowLock, granting>>

\* Close returns when every connection is back.
CloseEnds(m) ==
    /\ pool[m] = "closing"
    /\ free[m] = PoolSize
    /\ pool' = [pool EXCEPT ![m] = "closed"]
    /\ UNCHANGED <<free, at, job, islet, rowLock, granting>>

(***************************************************************************)
(* Lifecycle transactions                                                  *)
(***************************************************************************)

\* As GiveUp, but without the rollback: the transaction stays open.
GiveUpOpen(c) ==
    /\ At(c, AfterFailure(c))
    /\ UNCHANGED <<free, pool, job, islet, rowLock, granting>>

\* The deferred rollback of a lifecycle transaction, and its return.
GiveUp(c) ==
    /\ At(c, AfterFailure(c))
    /\ Returned(c)
    /\ Unlocked(c)
    /\ granting' = [granting EXCEPT ![c] = {}]
    /\ UNCHANGED <<pool, job, islet>>

\* As LockOutcome, but FOR UPDATE waits for the lock.
LockOutcomeWaiting(c) ==
    LET i == job[c].id IN
    IF rowLock[i] # Nobody THEN "waits"
    ELSE IF islet[i] = "ready" THEN "locked" ELSE "refused"

\* lockMetadata, and the tests of reset and Delete that follow it.
LockOutcome(c) ==
    LET i == job[c].id IN
    IF islet[i] = "gone" \/ rowLock[i] # Nobody THEN "refused"
    ELSE IF islet[i] = "ready" \/ job[c].kind = "Recover" THEN "locked" ELSE "refused"

LockRow(c) ==
    /\ at[c] = "lock"
    /\ \/ LockOutcome(c) = "refused" /\ GiveUp(c)
       \/ /\ LockOutcome(c) = "locked"
          /\ rowLock' = [rowLock EXCEPT ![job[c].id] = c]
          /\ At(c, "work")
          /\ UNCHANGED <<free, pool, job, islet, granting>>

\* The rows create and Delete change, in this order.
GrantRows == <<"database", "api", "gateway">>

NextRow(c) == GrantRows[Cardinality(granting[c]) + 1]

\* A statement that changes the privileges in the next row.
Grant(c, next) ==
    /\ granting' = [granting EXCEPT ![c] = @ \cup {NextRow(c)}]
    /\ At(c, IF NextRow(c) = "gateway" THEN next ELSE at[c])
    /\ UNCHANGED <<free, pool, job, islet, rowLock>>

\* Dependency check and cleanup, on the transaction's own connection.  Delete
\* also revokes privileges; if others (held) are changing the row it goes back
\* to its savepoint and marks the islet failed.
Work(c, held) ==
    /\ at[c] = "work"
    /\ \/ /\ job[c].kind = "Delete" /\ NextRow(c) \notin held
          /\ Grant(c, "commit")
       \/ /\ job[c].kind = "Delete" => NextRow(c) \in held
          /\ granting' = [granting EXCEPT ![c] = {}]
          /\ At(c, "commit")
          /\ UNCHANGED <<free, pool, job, islet, rowLock>>

\* create grants privileges on the same rows.
CreateIslet(c, held) ==
    /\ at[c] = "create"
    /\ \/ NextRow(c) \in held /\ GiveUp(c)
       \/ NextRow(c) \notin held /\ Grant(c, "commit")

\* What the transaction of c makes of its islet when it is committed.
Effect(c) ==
    CASE at[c] \notin {"commit", "run"} \/ job[c].kind \in {"Create", "Batch"} -> islet[job[c].id]
      [] at[c] = "commit" /\ job[c].kind = "Reinitialize" -> c
      [] at[c] = "commit" /\ job[c].kind = "Delete" /\ granting[c] # {} -> "gone"
      [] OTHER -> "ready"

\* COMMIT.  Reinitialize goes on with its batch.
CommitLifecycle(c) ==
    /\ at[c] = "commit"
    /\ islet' = [islet EXCEPT ![job[c].id] = Effect(c)]
    /\ At(c, IF job[c].kind = "Reinitialize" THEN "lookup" ELSE "done")
    /\ Returned(c)
    /\ Unlocked(c)
    /\ granting' = [granting EXCEPT ![c] = {}]
    /\ UNCHANGED <<pool, job>>

(***************************************************************************)
(* Batches and initialize                                                  *)
(***************************************************************************)

\* lookup: the row is read and the connection goes back.
Lookup(c) ==
    /\ at[c] = "lookingUp"
    /\ At(c, IF islet[job[c].id] = "gone" THEN AfterFailure(c) ELSE "enter")
    /\ Returned(c)
    /\ UNCHANGED <<pool, job, islet, rowLock, granting>>

\* As Admits, but a batch may enter while another call initializes the islet.
AdmitsInitializing(c) ==
    LET i == job[c].id IN
    /\ rowLock[i] = Nobody
    /\ islet[i] # "gone"

\* pgislet_api.enter: NOWAIT, and only into an islet that is ready or that the
\* call initializes.
Admits(c) ==
    LET i == job[c].id IN
    /\ rowLock[i] = Nobody
    /\ islet[i] = IF job[c].kind = "Batch" THEN "ready" ELSE c

Enter(c) ==
    /\ at[c] = "enter"
    /\ \/ /\ Admits(c)
          /\ rowLock' = [rowLock EXCEPT ![job[c].id] = c]
          /\ At(c, "check")
       \/ ~Admits(c) /\ At(c, AfterFailure(c)) /\ UNCHANGED rowLock
    /\ UNCHANGED <<free, pool, job, islet, granting>>

\* checkDependencies of a batch uses the pool while the row is locked.
CheckBatch(c) ==
    /\ at[c] = "checking"
    /\ At(c, "run")
    /\ Returned(c)
    /\ UNCHANGED <<pool, job, islet, rowLock, granting>>

\* The statements, finish and COMMIT.
Run(c) ==
    /\ at[c] = "run"
    /\ islet' = [islet EXCEPT ![job[c].id] = Effect(c)]
    /\ At(c, IF job[c].kind = "Batch" THEN "done" ELSE "open")
    /\ Unlocked(c)
    /\ UNCHANGED <<free, pool, job, granting>>

\* The failure update of initialize waits for the row if it is still the
\* call's own.
Mark(c) ==
    LET i == job[c].id IN
    /\ at[c] = "marking"
    /\ islet[i] = c => rowLock[i] = Nobody
    /\ islet' = IF islet[i] = c THEN [islet EXCEPT ![i] = "ready"] ELSE islet
    /\ At(c, "open")
    /\ Returned(c)
    /\ UNCHANGED <<pool, job, rowLock, granting>>

Open(c) ==
    /\ at[c] = "opening"
    /\ At(c, "done")
    /\ Returned(c)
    /\ UNCHANGED <<pool, job, islet, rowLock, granting>>

\* A step of c; held are the catalog rows other transactions have changed.
CallStep(c, held) ==
    \/ Acquire(c) \/ AcquireClosed(c)
    \/ LockRow(c) \/ Work(c, held) \/ CreateIslet(c, held) \/ CommitLifecycle(c)
    \/ Lookup(c) \/ Enter(c) \/ CheckBatch(c) \/ Run(c) \/ Mark(c) \/ Open(c)

\* A call is answered with an error, or its deadline passes: the deferred
\* functions give back what it holds.  A COMMIT may have been executed.
CallFails(c) ==
    /\ Active(c)
    /\ At(c, AfterFailure(c))
    /\ free' = IF HasConnection(c) THEN [free EXCEPT ![job[c].by] = @ + 1] ELSE free
    /\ Unlocked(c)
    /\ islet' \in {islet, [islet EXCEPT ![job[c].id] = Effect(c)]}
    /\ granting' = [granting EXCEPT ![c] = {}]
    /\ UNCHANGED <<pool, job>>

=============================================================================
