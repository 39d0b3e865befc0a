--------------------------- MODULE SharedDatabase ---------------------------
(***************************************************************************)
(* Several Managers on one database: New opens a pool and runs bootstrap   *)
(* on one of its connections (Bootstrap); the Manager it returns serves    *)
(* calls until it is closed (ManagementPool).  Bootstrap, Create and       *)
(* Delete change privileges of the same rows.                              *)
(***************************************************************************)
EXTENDS ManagementPool

vars == <<bootVars, poolVars>>

Init == BootInit /\ PoolInit

\* The catalog rows that lifecycle transactions have changed, and the ones that
\* transactions other than that of call c have.
Granted == UNION {granting[c] : c \in Calls}
HeldRows(c) ==
    UNION {granting[d] : d \in Calls \ {c}} \cup UNION {DOMAIN draft[m] : m \in Managers}

\* New opens the pool, and bootstrap takes a connection of it.
New(m) ==
    /\ boot[m] = "new"
    /\ boot' = [boot EXCEPT ![m] = "begin"]
    /\ free' = [free EXCEPT ![m] = @ - 1]
    /\ UNCHANGED <<catalog, draft, advisory, fate, supported, exposed,
                   pool, at, job, islet, rowLock, granting>>

\* As Settle, but a bootstrap that fails keeps its connection.
SettleLeaking(m) ==
    IF boot'[m] = "done"
    THEN IF fate'[m] = "ready"
         THEN free' = [free EXCEPT ![m] = @ + 1] /\ pool' = pool
         ELSE free' = free /\ pool' = [pool EXCEPT ![m] = "closing"]
    ELSE UNCHANGED <<free, pool>>

\* When bootstrap ends, its connection goes back; if it failed, New closes the
\* pool.
Settle(m) ==
    IF boot'[m] = "done"
    THEN /\ free' = [free EXCEPT ![m] = @ + 1]
         /\ pool' = IF fate'[m] = "ready" THEN pool ELSE [pool EXCEPT ![m] = "closing"]
    ELSE UNCHANGED <<free, pool>>

Bootstraps(m) ==
    /\ BootStep(m, Granted)
    /\ Settle(m)
    /\ UNCHANGED <<at, job, islet, rowLock, granting>>

BootstrapFails(m) ==
    /\ BootStepFails(m)
    /\ Settle(m)
    /\ UNCHANGED <<at, job, islet, rowLock, granting>>

\* Only a Manager that New has returned is called or closed.
Ready == {m \in Managers : fate[m] = "ready"}

Call(c) ==
    /\ \E kind \in Kinds, m \in Ready, i \in Islets : Invoke(c, kind, m, i)
    /\ UNCHANGED bootVars

Progress(c) == CallStep(c, HeldRows(c)) /\ UNCHANGED bootVars

Fails(c) == CallFails(c) /\ UNCHANGED bootVars

CloseManager(m) == m \in Ready /\ Close(m) /\ UNCHANGED bootVars

PoolCloses(m) == CloseEnds(m) /\ UNCHANGED bootVars

Quiet ==
    /\ \A c \in Calls : ~Active(c)
    /\ Booting = {}
    /\ UNCHANGED vars

Next ==
    \/ \E m \in Managers : \/ New(m) \/ Bootstraps(m) \/ BootstrapFails(m)
                           \/ CloseManager(m) \/ PoolCloses(m)
    \/ \E c \in Calls : Call(c) \/ Progress(c) \/ Fails(c)
    \/ Quiet

Spec == Init /\ [][Next]_vars

(***************************************************************************)
(* Fairness.  A statement that PostgreSQL can execute is answered, a wait  *)
(* for a catalog row ends with the transaction that holds it or by the     *)
(* deadlock detector, and a pool with a free connection gives it to a call *)
(* that waits.  Nothing is assumed about deadlines, lock timeouts or other *)
(* failures: no call may need one to come to its end.                      *)
(***************************************************************************)
FairSpec ==
    /\ Spec
    /\ \A m \in Managers : WF_vars(Bootstraps(m)) /\ WF_vars(PoolCloses(m))
    /\ \A c \in Calls : WF_vars(Progress(c))

(***************************************************************************)
(* Properties                                                              *)
(***************************************************************************)

\* Every variable keeps its type; no connection is given back twice.
TypeOK ==
    /\ \A o \in Objects : catalog[o] \in {"none", "made", "1", "2", "somebody"} \cup
                                         {Identity[m] : m \in Managers}
    /\ \A m \in Managers : DOMAIN draft[m] \subseteq Objects
    /\ advisory \in Managers \cup {NoManager}
    /\ boot \in [Managers -> BootSteps \cup {"new", "done"}]
    /\ fate \in [Managers -> {"none", "ready", "unsupported", "collision", "conflict", "failure"}]
    /\ supported \in BOOLEAN /\ exposed \in BOOLEAN
    /\ pool \in [Managers -> {"open", "closing", "closed"}]
    /\ at \in [Calls -> Holding \cup Waiting \cup AtRuntime \cup {"idle", "done"}]
    /\ job \in [Calls -> [kind : Kinds \cup {"none"}, by : Managers \cup {Nobody},
                          id : Islets \cup {Nobody}]]
    /\ islet \in [Islets -> Calls \cup {"ready", "gone"}]
    /\ rowLock \in [Islets -> Calls \cup {Nobody}]
    /\ granting \in [Calls -> SUBSET Objects]
    /\ free \in [Managers -> 0 .. PoolSize]

\* What a call can wait for: a connection of its pool, or the row that its
\* failure update changes.  A bootstrap waits for the advisory lock.
WaitsForPool(c) ==
    at[c] \in Waiting /\ pool[job[c].by] = "open" /\ free[job[c].by] = 0
WaitsForRow(c) ==
    at[c] = "marking" /\ islet[job[c].id] = c /\ rowLock[job[c].id] # Nobody
WaitsForLock(m) == boot[m] = "lock" /\ advisory # NoManager

\* Nobody waits for one who waits for him, directly or over others: a connection
\* that is waited for is with another call, which at most waits for a row; who
\* has that row waits neither for a row nor for a connection, although batches
\* do wait for one while they hold theirs; and the advisory lock is with a
\* bootstrap that goes on (lockMetadata and enter, which do not wait, and the
\* states in which enter lets a batch in).
NoWaitingCycle ==
    /\ \A c \in Calls : WaitsForPool(c) =>
          \E d \in Calls \ {c} : at[d] \in Holding /\ job[d].by = job[c].by
    /\ \A c \in Calls : WaitsForRow(c) =>
          LET d == rowLock[job[c].id] IN d # c /\ at[d] \in Holding /\ ~WaitsForRow(d)
    /\ \A m \in Managers : WaitsForLock(m) => advisory \in Booting /\ ~WaitsForLock(advisory)

\* The calls that have a connection of the pool of m, and the connections that
\* the bootstrap of m has.
Users(m) == {c \in Calls : HasConnection(c) /\ job[c].by = m}
BootUses(m) == IF boot[m] \in BootSteps THEN 1 ELSE 0

\* Nothing is lost or given back twice, however calls and bootstraps end, fail,
\* time out or are refused: every connection of a pool is free, with one call or
\* with the bootstrap; a row is locked by a call that is under way on this islet,
\* and privileges are changed only by one that still has its transaction; the
\* advisory lock and uncommitted changes of the catalog are with a bootstrap
\* that is under way (the deferred rollbacks of lifecycle.go:47, :112 and :175,
\* execute.go:79 and bootstrap.go:16).
NothingLeaked ==
    /\ \A m \in Managers : free[m] + Cardinality(Users(m)) + BootUses(m) = PoolSize
    /\ \A i \in Islets : rowLock[i] # Nobody => Active(rowLock[i]) /\ job[rowLock[i]].id = i
    /\ \A c \in Calls : granting[c] # {} => at[c] \in {"work", "create", "commit"}
    /\ advisory # NoManager => advisory \in Booting
    /\ \A m \in Managers : DOMAIN draft[m] # {} => m \in Booting /\ advisory = m

\* Every call ends although a batch keeps the row lock while it waits for a
\* second connection of the pool, and the failure update keeps a connection
\* while it waits for the row, even if the pool has a single connection and no
\* deadline ever passes (lockMetadata and enter do not wait).
EveryCallFinishes == \A c \in Calls : Active(c) ~> at[c] = "done"

\* Close returns, and New closes the pool of a failed bootstrap without
\* waiting for ever: every way a call or a bootstrap can end gives its
\* connection back.
CloseCompletes == \A m \in Managers : pool[m] = "closing" ~> pool[m] = "closed"

=============================================================================
