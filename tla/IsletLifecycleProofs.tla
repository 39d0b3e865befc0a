------------------------ MODULE IsletLifecycleProofs ------------------------
(***************************************************************************)
(* Initialization, failure records and the refinement of IsletWorkspace,   *)
(* for any number of islets and calls.                                     *)
(***************************************************************************)
EXTENDS IsletEngineProofs

(***************************************************************************)
(* The invariant.  FenceInv says whose a transaction is; here is what it   *)
(* would commit, and what the calls know of the generation they have made. *)
(***************************************************************************)

\* The committed row of i has the highest generation, or is gone for good.
Booked(i) ==
    /\ Exists(i) => db[i].gen = issued[i] /\ issued[i] > 0
    /\ ~Exists(i) => db[i] = Absent
    /\ db[i].state = "initializing" => db[i].data = {} /\ db[i].tok \in Calls

Same(r, s) == r.state = s.state /\ r.gen = s.gen /\ r.tok = s.tok

\* A batch of c is admitted to the row.
Seated(c, row) ==
    IF req[c].op \in InitOps THEN row.state = "initializing" /\ row.tok = c
    ELSE req[c].op = "Batch" /\ row.state = "active"

\* A create, a reset or a Delete of i is about to be committed.
Replaces(i) ==
    LET c == tx[i].by IN
    IF req[c].op = "Delete"
    THEN tx[i].ws = Absent /\ db[i].state \in {"active", "failed"}
    ELSE /\ tx[i].ws = Prepared(c, issued[i] + 1)
         /\ req[c].op \in CreateOps => issued[i] = 0
         /\ req[c].op \notin CreateOps => Exists(i) /\ req[c].op \in CleanupOps
         /\ db[i].state = "initializing" => req[c].op = "Recover"

\* What the transaction that holds i would commit.
InWork(i) ==
    /\ tx[i].phase = "none" => tx[i] = NoTx
    /\ tx[i].phase # "none" =>
       /\ tx[i].effect = "lifecycle" => Replaces(i)
       /\ tx[i].effect # "lifecycle" => Exists(i)
       /\ tx[i].effect = "none" => tx[i].phase # "committing" /\ Same(tx[i].ws, db[i])
       /\ tx[i].effect = "failed" =>
             tx[i].ws = [db[i] EXCEPT !.state = "failed", !.tok = Nobody]
       /\ tx[i].effect = "batch" =>
             /\ Seated(tx[i].by, db[i])
             /\ tx[i].ws.state = "active" /\ tx[i].ws.gen = db[i].gen
       /\ tx[i].effect \in {"none", "batch"} =>
             tx[i].ws.data \subseteq db[i].data \cup {[by |-> tx[i].by, gen |-> db[i].gen]}

\* initialize() after its batch.
InitPCs == {"mark", "reopenFailed", "reopen"}

\* Call c has committed the generation it goes on with: nobody else has.
Author(c) ==
    /\ req[c].gen <= issued[req[c].id]
    /\ db[req[c].id].state = "initializing" /\ db[req[c].id].gen = req[c].gen
       => db[req[c].id].tok = c

\* The operation of call c and its transaction fit the place it has reached.
Staged(c) ==
    /\ pc[c] \in {"lock", "locked", "cleanup"} => req[c].op \in CleanupOps
    /\ pc[c] = "commit" => req[c].op \in CreateOps \cup CleanupOps
    /\ pc[c] \in RuntimePCs => req[c].op \in InitOps \cup {"Batch"}
    /\ pc[c] \in InitPCs \/ c \in late => req[c].op \in InitOps
    /\ c \in late => pc[c] \in {"reopenFailed", "done", "crashed"}
    /\ pc[c] \in {"locked", "cleanup", "check", "run"} => tx[req[c].id].effect = "none"
    /\ pc[c] = "commit" => tx[req[c].id].effect \in {"lifecycle", "failed"}
    /\ pc[c] = "commitBatch" => tx[req[c].id].effect = "batch"
    /\ pc[c] = "cleanup" /\ db[req[c].id].state = "initializing" => req[c].op = "Recover"
    /\ pc[c] \in {"check", "run"} => Seated(c, db[req[c].id])
    /\ (pc[c] \in RuntimePCs \/ pc[c] \in InitPCs \/ c \in late) /\ req[c].op \in InitOps
       => Author(c)

LifeInv ==
    /\ FenceInv
    /\ \A i \in Ids : Booked(i) /\ InWork(i)
    /\ \A c \in Calls : Staged(c)

(***************************************************************************)
(* Steps that leave an islet alone, and commits                            *)
(***************************************************************************)

\* A call that runs keeps its operation.
LEMMA SameOp ==
    ASSUME Typed, NEW c \in Calls, CallStep(c)
    PROVE  req'[c].op = req[c].op
<1>0. req \in [Calls -> Req]
  BY DEF Typed, TypeOK, Req
<1>1. CASE CommitSucceeds(c) \/ Lookup(c)
  BY <1>0, <1>1 DEF CommitSucceeds, Lookup, Req
<1>2. CASE ~(CommitSucceeds(c) \/ Lookup(c))
  BY <1>2 DEF CallStep, Step, Statement, Crash, LateMark, LateMarkLapses, CreateRow,
       LockMetadata, Refuse, CheckDependencies, Cleanup, CleanupFails, CommitRejected,
       CommitLost, ConnectRuntime, Enter, CheckBatch, Finish, MarkFailed, MarkFails, Reopen,
       StepFails
<1> QED
  BY <1>1, <1>2

\* An islet whose row, transaction and owner's operation stay the same.
LEMMA SameIslet ==
    ASSUME LifeInv, NEW i \in Ids, db'[i] = db[i], tx'[i] = tx[i], issued'[i] = issued[i],
           tx[i].phase # "none" => req'[tx[i].by].op = req[tx[i].by].op
    PROVE  Booked(i)' /\ InWork(i)'
<1>1. Booked(i) /\ InWork(i)
  BY DEF LifeInv
<1>2. Booked(i)'
  BY <1>1 DEF Booked, Exists
<1>3. tx[i].phase # "none" =>
         /\ \A g : Prepared(tx[i].by, g)' = Prepared(tx[i].by, g)
         /\ Seated(tx[i].by, db[i])' = Seated(tx[i].by, db[i])
  BY DEF Prepared, Seated
<1>4. tx[i].phase # "none" /\ Replaces(i) => Replaces(i)'
  BY <1>3 DEF Replaces, Exists
<1>5. InWork(i)'
  BY <1>1, <1>3, <1>4 DEF InWork, Exists
<1> QED
  BY <1>2, <1>5

\* The transaction of i is over, and the row has not changed.
LEMMA ReleasedIslet ==
    ASSUME LifeInv, NEW i \in Ids, db'[i] = db[i], tx'[i] = NoTx, issued'[i] = issued[i]
    PROVE  Booked(i)' /\ InWork(i)'
<1>1. Booked(i)
  BY DEF LifeInv
<1> QED
  BY <1>1 DEF Booked, Exists, InWork, NoTx

\* What a commit makes of an islet.  A generation that starts initializing is
\* new, and its token is the call that made it.
LEMMA Installed ==
    ASSUME LifeInv, NEW i \in Ids, Install(i), tx[i].phase # "none", tx[i].effect # "none"
    PROVE  /\ Booked(i)' /\ InWork(i)'
           /\ db'[i] = tx[i].ws
           /\ issued'[i] >= issued[i]
           /\ db'[i].state = "initializing" =>
                 /\ db'[i].gen = issued[i] + 1 /\ issued'[i] = issued[i] + 1
                 /\ db'[i].tok = tx[i].by
<1>0. /\ Booked(i) /\ InWork(i) /\ db[i] \in Row /\ tx[i] \in Tx /\ tx[i].ws \in Row
      /\ issued \in [Ids -> Nat] /\ issued[i] \in Nat /\ tx[i].by \in Calls
      /\ db \in [Ids -> Row] /\ tx \in [Ids -> Tx]
  BY DEF LifeInv, FenceInv, Owned, Typed, TypeOK, Tx
<1>1. /\ db'[i] = tx[i].ws /\ tx'[i] = NoTx
      /\ issued'[i] = IF tx[i].ws.gen > issued[i] THEN tx[i].ws.gen ELSE issued[i]
  BY <1>0 DEF Install
<1>2. InWork(i)'
  BY <1>1 DEF InWork, NoTx
<1>3. CASE tx[i].effect = "lifecycle" /\ req[tx[i].by].op = "Delete"
  <2>1. tx[i].ws = Absent
    BY <1>0, <1>3 DEF InWork, Replaces
  <2> QED
    BY <1>0, <1>1, <1>2, <2>1 DEF Absent, Booked, Exists
<1>4. CASE tx[i].effect = "lifecycle" /\ req[tx[i].by].op # "Delete"
  <2>1. tx[i].ws = Prepared(tx[i].by, issued[i] + 1)
    BY <1>0, <1>4 DEF InWork, Replaces
  <2>2. /\ tx[i].ws.gen = issued[i] + 1 /\ tx[i].ws.data = {}
        /\ tx[i].ws.state \in {"active", "initializing"}
        /\ tx[i].ws.state = "initializing" => tx[i].ws.tok = tx[i].by
    BY <2>1 DEF Prepared
  <2> QED
    BY <1>0, <1>1, <1>2, <2>2 DEF Booked, Exists
<1>5. CASE tx[i].effect \in {"failed", "batch"}
  <2>1. /\ Exists(i) /\ tx[i].ws.gen = db[i].gen
        /\ tx[i].ws.state \in {"active", "failed"}
    BY <1>0, <1>5 DEF InWork, Row
  <2> QED
    BY <1>0, <1>1, <1>2, <2>1 DEF Booked, Exists
<1> QED
  BY <1>0, <1>3, <1>4, <1>5 DEF Tx, Effects

\* A call that has made its generation remains its author, unless it commits.
LEMMA AuthorStays ==
    ASSUME LifeInv, NEW c \in Calls, Author(c), req[c].id \in Ids,
           req'[c].id = req[c].id, req'[c].gen = req[c].gen,
           \/ db'[req[c].id] = db[req[c].id] /\ issued'[req[c].id] = issued[req[c].id]
           \/ db'[req[c].id].state = "failed" /\ issued'[req[c].id] = issued[req[c].id]
           \/ /\ Install(req[c].id) /\ tx[req[c].id].phase # "none"
              /\ tx[req[c].id].effect # "none"
    PROVE  Author(c)'
<1> DEFINE i == req[c].id
<1>0. issued[i] \in Nat /\ req[c].gen \in Nat
  BY DEF LifeInv, FenceInv, Typed, TypeOK
<1>1. CASE Install(i) /\ tx[i].phase # "none" /\ tx[i].effect # "none"
  <2>1. /\ issued'[i] >= issued[i]
        /\ db'[i].state = "initializing" => db'[i].gen = issued[i] + 1
    BY <1>1, Installed
  <2>2. issued'[i] \in Nat
    BY <1>0, <1>1 DEF Install, LifeInv, FenceInv, Typed, TypeOK, Tx, Row
  <2> QED
    BY <1>0, <2>1, <2>2 DEF Author
<1> QED
  BY <1>0, <1>1 DEF Author

(***************************************************************************)
(* What a step of call c does to its own part of the invariant             *)
(***************************************************************************)

\* A call that fails or returns is over, or goes on to record the failure.
LEMMA Ending ==
    ASSUME Typed, NEW c \in Calls, NEW e, NEW g,
           FailWith(c, e, g) \/ Fail(c, e) \/ Return(c, e, g)
    PROVE  \/ pc'[c] = "done"
           \/ pc'[c] = "mark" /\ req[c].op \in InitOps /\ pc[c] \in RuntimePCs
<1>1. pc \in [Calls -> PCs]
  BY DEF Typed, TypeOK
<1> QED
  BY <1>1 DEF FailWith, Fail, Return

\* The islet of call c when its step leaves row and transaction alone.
LEMMA OwnSame ==
    ASSUME LifeInv, NEW c \in Calls, CallStep(c), NEW i \in Ids, req[c].id = i,
           UNCHANGED <<db, tx, issued>>
    PROVE  Booked(i)' /\ InWork(i)'
<1>0. Typed /\ Owned(i)
  BY DEF LifeInv, FenceInv
<1>1. tx[i].phase # "none" => req'[tx[i].by].op = req[tx[i].by].op
  BY <1>0, SameOp, Frame DEF Owned
<1> QED
  BY <1>0, <1>1, SameIslet

\* A call that is over, or on its way to record a failure.
LEMMA StagedOver ==
    ASSUME LifeInv, NEW c \in Calls, CallStep(c), req' = req,
           UNCHANGED <<db, issued>> \/ (db'[req[c].id].state = "failed" /\ issued' = issued),
           \/ pc'[c] \in {"done", "crashed"}
           \/ /\ pc'[c] \in {"mark", "reopenFailed"} /\ req[c].op \in InitOps
              /\ pc[c] \in RuntimePCs \cup {"mark"},
           c \in late' => /\ c \in late \/ pc[c] = "mark"
                          /\ pc'[c] \in {"reopenFailed", "done", "crashed"}
    PROVE  Staged(c)'
<1>0. req[c].id \in Ids /\ Staged(c)
  BY ActorKnown DEF LifeInv, FenceInv, CallStep
<1>1. Author(c) => Author(c)'
  BY <1>0, AuthorStays
<1>2. c \in late' => req[c].op \in InitOps /\ Author(c)
  BY <1>0 DEF Staged, InitPCs
<1>3. pc'[c] \in {"mark", "reopenFailed"} => Author(c)
  BY <1>0 DEF Staged, InitPCs
<1> QED
  BY <1>1, <1>2, <1>3 DEF Staged, InitPCs, RuntimePCs

\* The transaction of i is left to the server: it commits only if COMMIT was
\* sent for something.
LEMMA LeftIslet ==
    ASSUME LifeInv, NEW i \in Ids, db'[i] = db[i], issued'[i] = issued[i], req' = req,
           tx[i].phase # "none", NEW q \in {"orphan", "committing"},
           tx' = [tx EXCEPT ![i].phase = q], q = "committing" => tx[i].effect # "none"
    PROVE  Booked(i)' /\ InWork(i)'
<1>0. Booked(i) /\ InWork(i) /\ tx \in [Ids -> Tx] /\ tx[i] \in Tx
  BY DEF LifeInv, FenceInv, Typed, TypeOK
<1>1. /\ tx'[i].phase = q /\ tx'[i].by = tx[i].by /\ tx'[i].effect = tx[i].effect
      /\ tx'[i].ws = tx[i].ws
  BY <1>0 DEF Tx
<1>2. Booked(i)'
  BY <1>0 DEF Booked, Exists
<1>3. Replaces(i) => Replaces(i)'
  BY <1>1 DEF Replaces, Exists, Prepared
<1>4. Seated(tx[i].by, db[i])' = Seated(tx[i].by, db[i])
  BY DEF Seated
<1>5. InWork(i)'
  BY <1>0, <1>1, <1>3, <1>4 DEF InWork, Exists, Same
<1> QED
  BY <1>2, <1>5

\* Call c takes the row lock: its transaction starts from the committed row.
LEMMA BegunIslet ==
    ASSUME LifeInv, NEW c \in Calls, NEW i \in Ids, Exists(i),
           db'[i] = db[i], issued'[i] = issued[i],
           \/ tx' = [tx EXCEPT ![i] = Begun(c, i)]
           \/ tx' = [tx EXCEPT ![i] = [Begun(c, i) EXCEPT !.phase = "orphan"]]
    PROVE  Booked(i)' /\ InWork(i)' /\ tx'[i].effect = "none"
<1>0. Booked(i) /\ tx \in [Ids -> Tx]
  BY DEF LifeInv, FenceInv, Typed, TypeOK
<1>1. /\ tx'[i].phase \in {"open", "orphan"} /\ tx'[i].effect = "none"
      /\ tx'[i].ws = db[i]
  BY <1>0 DEF Begun, NoTx
<1>2. Booked(i)'
  BY <1>0 DEF Booked, Exists
<1>3. InWork(i)'
  BY <1>1 DEF InWork, Exists, Same
<1> QED
  BY <1>1, <1>2, <1>3

\* The client of call c is gone: the transaction it leaves has nothing of a
\* cleanup that was not finished.
LEMMA AbandonedIslet ==
    ASSUME LifeInv, NEW c \in Calls, CallStep(c), NEW i \in Ids, req[c].id = i,
           Abandon(c), UNCHANGED <<db, issued, req>>
    PROVE  Booked(i)' /\ InWork(i)'
<1>0. Staged(c) /\ Held(c)
  BY DEF LifeInv, FenceInv
<1>1. CASE UNCHANGED tx
  BY <1>1, OwnSame
<1>2. CASE pc[c] \in HoldingPCs /\ ~UNCHANGED tx
  <2>1. PICK q \in {"orphan", "committing"} :
           /\ tx' = [tx EXCEPT ![i].phase = q]
           /\ q = "committing" => pc[c] \in CommitPCs
    BY <1>2 DEF Abandon, HoldingPCs
  <2>2. q = "committing" => tx[i].effect # "none"
    BY <1>0, <2>1 DEF Staged, CommitPCs
  <2>3. tx[i].phase # "none"
    BY <1>0, <1>2 DEF Held
  <2> QED
    BY <1>0, <2>1, <2>2, <2>3, LeftIslet
<1>3. CASE pc[c] \notin HoldingPCs /\ ~UNCHANGED tx
  <2>1. Exists(i) /\ tx' = [tx EXCEPT ![i] = [Begun(c, i) EXCEPT !.phase = "orphan"]]
    BY <1>3 DEF Abandon
  <2> QED
    BY <1>0, <2>1, BegunIslet
<1> QED
  BY <1>1, <1>2, <1>3

\* What a step of call c does to its own place and to its islet.
LEMMA OwnLife ==
    ASSUME LifeInv, NEW c \in Calls, CallStep(c), NEW i \in Ids, req[c].id = i
    PROVE  Staged(c)' /\ Booked(i)' /\ InWork(i)'
<1>0. /\ tx \in [Ids -> Tx] /\ db \in [Ids -> Row] /\ issued \in [Ids -> Nat]
      /\ pc \in [Calls -> PCs] /\ req \in [Calls -> Req] /\ Typed /\ TypeOK
      /\ Held(c) /\ Fresh(c) /\ Owned(i) /\ Booked(i) /\ InWork(i) /\ Staged(c)
      /\ tx[i] \in Tx /\ db[i] \in Row /\ tx[i].ws \in Row /\ issued[i] \in Nat
  BY DEF LifeInv, FenceInv, Typed, TypeOK, Req, Tx
<1>1. /\ req'[c].id = i /\ req'[c].op = req[c].op
  BY <1>0, SameId, SameOp
<1>2. ASSUME req' = req, UNCHANGED <<db, issued>>, late' = late,
             NEW e, NEW g, FailWith(c, e, g) \/ Fail(c, e) \/ Return(c, e, g)
      PROVE  Staged(c)'
  <2>1. \/ pc'[c] = "done"
        \/ pc'[c] = "mark" /\ req[c].op \in InitOps /\ pc[c] \in RuntimePCs
    BY <1>0, <1>2, Ending
  <2>2. pc[c] \in RuntimePCs => c \notin late
    BY <1>0 DEF Staged, RuntimePCs
  <2> QED
    BY <1>2, <2>1, <2>2, StagedOver
<1>3. CASE CreateRow(c)
  <2>1. /\ pc'[c] = "commit" /\ req' = req /\ db' = db /\ issued' = issued /\ late' = late
        /\ tx'[i] = [Begun(c, i) EXCEPT !.effect = "lifecycle", !.ws = Prepared(c, 1)]
        /\ pc[c] = "create"
    BY <1>0, <1>3 DEF CreateRow, Goto, dbVars
  <2>2. /\ tx'[i].phase = "open" /\ tx'[i].by = c /\ tx'[i].effect = "lifecycle"
        /\ tx'[i].ws = Prepared(c, 1)
    BY <2>1 DEF Begun, NoTx
  <2>3. issued[i] = 0 /\ ~Exists(i) /\ req[c].op \in CreateOps /\ req[c].op # "Delete"
    BY <1>0, <2>1 DEF Fresh, Booked, CreateOps
  <2>4. Prepared(c, 1)' = Prepared(c, 1)
    BY <2>1 DEF Prepared
  <2>5. Replaces(i)'
    BY <2>1, <2>2, <2>3, <2>4 DEF Replaces, Exists
  <2>6. Booked(i)' /\ InWork(i)'
    BY <1>0, <2>1, <2>2, <2>5 DEF Booked, InWork, Exists
  <2>7. c \notin late
    BY <1>0, <2>1 DEF Staged
  <2>8. Staged(c)'
    BY <1>1, <2>1, <2>2, <2>3, <2>7 DEF Staged, RuntimePCs, InitPCs
  <2> QED
    BY <2>6, <2>8
<1>4. CASE LockMetadata(c)
  <2>1. /\ req' = req /\ db' = db /\ issued' = issued /\ late' = late /\ pc[c] = "lock"
    BY <1>4 DEF LockMetadata, dbVars
  <2>2. CASE UNCHANGED tx
    <3>1. PICK e \in LockErrors(c) : Return(c, e, 0)
      BY <1>0, <1>4, <2>2 DEF LockMetadata, LockErrors, Begun, NoTx, Locked
    <3> QED
      BY <1>2, <2>1, <2>2, <3>1, OwnSame
  <2>3. CASE ~UNCHANGED tx
    <3>1. /\ LockErrors(c) = {} /\ tx' = [tx EXCEPT ![i] = Begun(c, i)] /\ pc'[c] = "locked"
      BY <1>0, <1>4, <2>3 DEF LockMetadata, Goto
    <3>2. Exists(i)
      BY <3>1 DEF LockErrors
    <3>3. Booked(i)' /\ InWork(i)' /\ tx'[i].effect = "none"
      BY <2>1, <3>1, <3>2, BegunIslet
    <3>4. Staged(c)'
      BY <1>0, <1>1, <2>1, <3>1, <3>3 DEF Staged, RuntimePCs, InitPCs
    <3> QED
      BY <3>3, <3>4
  <2> QED
    BY <2>2, <2>3
<1>5. CASE Refuse(c) \/ CommitRejected(c)
  <2>1. req' = req /\ db' = db /\ issued' = issued /\ late' = late /\ tx'[i] = NoTx
    BY <1>0, <1>5 DEF Refuse, CommitRejected, dbVars
  <2>2. \E e, g : FailWith(c, e, g) \/ Fail(c, e) \/ Return(c, e, g)
    BY <1>5 DEF Refuse, CommitRejected, CommitError
  <2> QED
    BY <1>2, <2>1, <2>2, ReleasedIslet
<1>6. ASSUME pc[c] \in {"locked", "cleanup"}, pc'[c] = "commit", tx'[i] = FailedWork(i),
             UNCHANGED <<req, db, issued, late>>
      PROVE  Staged(c)' /\ Booked(i)' /\ InWork(i)'
  <2>1. tx[i].effect = "none" /\ tx[i].phase = "open" /\ Exists(i) /\ req[c].op \in CleanupOps
    BY <1>0, <1>6 DEF Staged, Held, InWork, HoldingPCs
  <2>2. /\ tx'[i].phase = "open" /\ tx'[i].effect = "failed"
        /\ tx'[i].ws = [db[i] EXCEPT !.state = "failed", !.tok = Nobody]
    BY <1>0, <1>6, <2>1 DEF FailedWork, Tx
  <2>3. Booked(i)'
    BY <1>0, <1>6 DEF Booked, Exists
  <2>4. InWork(i)'
    BY <1>6, <2>1, <2>2 DEF InWork, Exists
  <2>5. Staged(c)'
    BY <1>0, <1>1, <1>6, <2>1, <2>2 DEF Staged, RuntimePCs, InitPCs
  <2> QED
    BY <2>3, <2>4, <2>5
<1>7. CASE CheckDependencies(c)
  <2>1. req' = req /\ db' = db /\ issued' = issued /\ late' = late /\ pc[c] = "locked"
    BY <1>7 DEF CheckDependencies, dbVars
  <2>2. CASE Dependent(c)
    <3>1. pc'[c] = "commit" /\ tx'[i] = FailedWork(i)
      BY <1>0, <1>7, <2>2 DEF CheckDependencies, Goto
    <3> QED
      BY <1>6, <2>1, <3>1
  <2>3. CASE ~Dependent(c)
    <3>1. pc'[c] = "cleanup" /\ tx' = tx
      BY <1>0, <1>7, <2>3 DEF CheckDependencies, Goto
    <3>2. tx[i].ws = db[i]
      BY <1>0, <2>1 DEF Held, HoldingPCs
    <3>3. db[i].state = "initializing" => req[c].op = "Recover"
      BY <1>7, <3>2 DEF CheckDependencies, Refusal
    <3>4. Staged(c)'
      BY <1>0, <1>1, <2>1, <3>1, <3>3 DEF Staged, RuntimePCs, InitPCs
    <3> QED
      BY <2>1, <3>1, <3>4, OwnSame
  <2> QED
    BY <2>2, <2>3
<1>8. CASE CleanupFails(c)
  <2>1. /\ req' = req /\ db' = db /\ issued' = issued /\ late' = late /\ pc[c] = "cleanup"
        /\ pc'[c] = "commit" /\ tx'[i] = FailedWork(i)
    BY <1>0, <1>8 DEF CleanupFails, Goto, dbVars
  <2> QED
    BY <1>6, <2>1
<1>9. CASE Cleanup(c)
  <2>1. /\ req' = req /\ db' = db /\ issued' = issued /\ late' = late /\ pc[c] = "cleanup"
        /\ pc'[c] = "commit"
        /\ tx'[i] = [tx[i] EXCEPT !.effect = "lifecycle", !.cut = external \cap {i},
                                  !.ws = Cleaned(c, tx[i].ws)]
    BY <1>0, <1>9 DEF Cleanup, Goto, dbVars
  <2>2. /\ tx[i].ws = db[i] /\ tx[i].phase = "open" /\ tx[i].by = c /\ tx[i].effect = "none"
        /\ req[c].op \in CleanupOps /\ Exists(i)
        /\ db[i].state = "initializing" => req[c].op = "Recover"
    BY <1>0, <2>1 DEF Held, HoldingPCs, Staged, InWork
  <2>3. /\ tx'[i].phase = "open" /\ tx'[i].by = c /\ tx'[i].effect = "lifecycle"
        /\ tx'[i].ws = Cleaned(c, db[i])
    BY <1>0, <2>1, <2>2 DEF Tx
  <2>4. db[i].gen = issued[i] /\ db[i].state \in {"active", "initializing", "failed"}
    BY <1>0, <2>2 DEF Booked, Exists, Row
  <2>5. Prepared(c, issued[i] + 1)' = Prepared(c, issued[i] + 1)
    BY <2>1 DEF Prepared
  <2>6. Replaces(i)'
    <3>1. CASE req[c].op = "Delete"
      BY <2>1, <2>2, <2>3, <2>4, <3>1 DEF Replaces, Cleaned
    <3>2. CASE req[c].op # "Delete"
      <4>1. tx'[i].ws = Prepared(c, issued[i] + 1)
        BY <2>3, <2>4, <3>2 DEF Cleaned
      <4>2. req[c].op \notin CreateOps
        BY <2>2 DEF CreateOps, CleanupOps
      <4> QED
        BY <2>1, <2>2, <2>3, <2>5, <3>2, <4>1, <4>2 DEF Replaces, Exists
    <3> QED
      BY <3>1, <3>2
  <2>7. Booked(i)' /\ InWork(i)'
    BY <1>0, <2>1, <2>3, <2>6 DEF Booked, InWork, Exists
  <2>8. Staged(c)'
    BY <1>0, <1>1, <2>1, <2>2, <2>3 DEF Staged, RuntimePCs, InitPCs
  <2> QED
    BY <2>7, <2>8
<1>10. CASE CommitLost(c)
  <2>1. /\ req' = req /\ db' = db /\ issued' = issued /\ late' = late /\ pc[c] \in CommitPCs
        /\ tx' = [tx EXCEPT ![i].phase = "committing"]
    BY <1>10 DEF CommitLost, dbVars
  <2>2. tx[i].effect # "none" /\ tx[i].phase # "none"
    BY <1>0, <2>1 DEF Staged, Held, CommitPCs, HoldingPCs
  <2>3. Booked(i)' /\ InWork(i)'
    BY <2>1, <2>2, LeftIslet
  <2>4. \E e, g : FailWith(c, e, g) \/ Fail(c, e) \/ Return(c, e, g)
    BY <1>10 DEF CommitLost, CommitError
  <2> QED
    BY <1>2, <2>1, <2>3, <2>4
<1>11. CASE CommitSucceeds(c)
  <2>1. /\ pc[c] \in CommitPCs /\ Install(i) /\ late' = late
    BY <1>11 DEF CommitSucceeds
  <2>2. /\ tx[i].phase # "none" /\ tx[i].by = c /\ tx[i].effect # "none" /\ c \notin late
    BY <1>0, <2>1 DEF Staged, Held, CommitPCs, HoldingPCs
  <2>3. /\ Booked(i)' /\ InWork(i)' /\ db'[i] = tx[i].ws /\ issued'[i] >= issued[i]
        /\ db'[i].state = "initializing" =>
              /\ db'[i].gen = issued[i] + 1 /\ issued'[i] = issued[i] + 1
              /\ db'[i].tok = c
    BY <2>1, <2>2, Installed
  <2>4. CASE pc'[c] = "done"
    BY <2>1, <2>2, <2>3, <2>4 DEF Staged, RuntimePCs, InitPCs
  <2>5. CASE pc'[c] = "lookup" /\ tx[i].effect = "lifecycle" /\ req[c].op \in InitOps
             /\ req' = [req EXCEPT ![c].gen = tx[i].ws.gen]
    <3>1. req'[c].gen = tx[i].ws.gen
      BY <1>0, <2>5 DEF Req
    <3>2. tx[i].ws = Prepared(c, issued[i] + 1)
      BY <1>0, <2>2, <2>5 DEF InWork, Replaces, InitOps
    <3>3. tx[i].ws.gen = issued[i] + 1 /\ tx[i].ws.state = "initializing"
      BY <2>5, <3>2 DEF Prepared
    <3>4. Author(c)'
      BY <1>0, <1>1, <2>3, <3>1, <3>3 DEF Author
    <3> QED
      BY <1>1, <2>1, <2>2, <2>3, <2>5, <3>4 DEF Staged, RuntimePCs, InitPCs
  <2>6. CASE pc'[c] = "reopen" /\ tx[i].effect = "batch" /\ req[c].op \in InitOps /\ req' = req
    <3>1. Author(c)
      BY <1>0, <2>1, <2>6 DEF Staged, CommitPCs, RuntimePCs
    <3>2. Author(c)'
      BY <2>1, <2>2, <2>6, <3>1, AuthorStays
    <3> QED
      BY <1>1, <2>1, <2>2, <2>3, <2>6, <3>2 DEF Staged, RuntimePCs, InitPCs
  <2> QED
    BY <1>0, <1>11, <2>3, <2>4, <2>5, <2>6 DEF CommitSucceeds, Goto, Return
<1>12. ASSUME NEW p \in {"connect", "enter"}, pc'[c] = p, pc[c] \in RuntimePCs, late' = late,
              UNCHANGED <<db, tx, issued>>, req'[c].gen = req[c].gen
       PROVE  Staged(c)' /\ Booked(i)' /\ InWork(i)'
  <2>1. c \notin late
    BY <1>0, <1>12 DEF Staged, RuntimePCs
  <2>2. req[c].op \in InitOps => Author(c)'
    BY <1>0, <1>1, <1>12, AuthorStays DEF Staged
  <2>3. Staged(c)'
    BY <1>0, <1>1, <1>12, <2>1, <2>2 DEF Staged, RuntimePCs, InitPCs
  <2> QED
    BY <1>12, <2>3, OwnSame
<1>13. CASE Lookup(c)
  <2>1. UNCHANGED <<db, tx, issued, late>> /\ pc[c] = "lookup"
    BY <1>13 DEF Lookup, dbVars
  <2>2. CASE \E e : Fail(c, e) /\ req' = req
    BY <1>2, <2>1, <2>2, OwnSame
  <2>3. CASE Goto(c, "connect") /\ req' = [req EXCEPT ![c].tok = db[i].tok]
    <3>1. pc'[c] = "connect" /\ req'[c].gen = req[c].gen
      BY <1>0, <2>3 DEF Goto, Req
    <3> QED
      BY <1>12, <2>1, <3>1 DEF RuntimePCs
  <2> QED
    BY <1>13, <2>2, <2>3 DEF Lookup
<1>14. CASE ConnectRuntime(c)
  <2>1. UNCHANGED <<db, tx, issued, late, req>> /\ pc[c] = "connect"
    BY <1>14 DEF ConnectRuntime, dbVars
  <2>2. CASE \E e : Fail(c, e)
    BY <1>2, <2>1, <2>2, OwnSame
  <2>3. CASE Goto(c, "enter")
    <3>1. pc'[c] = "enter"
      BY <1>0, <2>3 DEF Goto
    <3> QED
      BY <1>12, <2>1, <3>1 DEF RuntimePCs
  <2> QED
    BY <1>14, <2>2, <2>3 DEF ConnectRuntime
<1>15. CASE Enter(c)
  <2>1. UNCHANGED <<db, issued, late, req>> /\ pc[c] = "enter"
    BY <1>15 DEF Enter, dbVars
  <2>2. CASE \E e : Fail(c, e) /\ UNCHANGED tx
    BY <1>2, <2>1, <2>2, OwnSame
  <2>3. CASE EnterErrors(c) = {} /\ tx' = [tx EXCEPT ![i] = Begun(c, i)] /\ Goto(c, "check")
    <3>1. Exists(i) /\ db[i].gen = req[c].gen /\ Admitted(c, db[i]) /\ pc'[c] = "check"
      BY <1>0, <2>3 DEF EnterErrors, Goto
    <3>2. Booked(i)' /\ InWork(i)' /\ tx'[i].effect = "none"
      BY <2>1, <2>3, <3>1, BegunIslet
    <3>3. req[c].op \in InitOps => Author(c)
      BY <1>0, <2>1 DEF Staged, RuntimePCs
    <3>4. Seated(c, db[i])
      BY <1>0, <2>1, <3>1, <3>3 DEF Seated, Admitted, Author, Staged, RuntimePCs
    <3>5. req[c].op \in InitOps => Author(c)'
      BY <2>1, <3>3, AuthorStays
    <3>6. c \notin late
      BY <1>0, <2>1 DEF Staged
    <3>7. Seated(c, db[req[c].id])'
      BY <2>1, <3>4 DEF Seated
    <3> QED
      BY <1>0, <1>1, <2>1, <3>1, <3>2, <3>5, <3>6, <3>7 DEF Staged, RuntimePCs, InitPCs
  <2> QED
    BY <1>15, <2>2, <2>3 DEF Enter
<1>16. CASE CheckBatch(c)
  <2>1. UNCHANGED <<db, issued, late, req>> /\ pc[c] = "check"
    BY <1>16 DEF CheckBatch, dbVars
  <2>2. CASE Dependent(c)
    <3>1. Fail(c, {"ExternalDependency"}) /\ tx'[i] = NoTx
      BY <1>0, <1>16, <2>2 DEF CheckBatch
    <3> QED
      BY <1>2, <2>1, <3>1, ReleasedIslet
  <2>3. CASE ~Dependent(c)
    <3>1. pc'[c] = "run" /\ tx' = tx
      BY <1>0, <1>16, <2>3 DEF CheckBatch, Goto
    <3>2. req[c].op \in InitOps => Author(c)'
      BY <1>0, <2>1, AuthorStays DEF Staged, RuntimePCs
    <3>3. Seated(c, db[i]) /\ c \notin late /\ tx[i].effect = "none"
      BY <1>0, <2>1 DEF Staged
    <3>4. Seated(c, db[req[c].id])'
      BY <2>1, <3>3 DEF Seated
    <3>5. Staged(c)'
      BY <1>0, <1>1, <2>1, <3>1, <3>2, <3>3, <3>4 DEF Staged, RuntimePCs, InitPCs
    <3> QED
      BY <2>1, <3>1, <3>5, OwnSame
  <2> QED
    BY <2>2, <2>3
<1>17. ASSUME pc[c] = "run", UNCHANGED <<db, issued, late, req>>, pc'[c] \in {"run", "commitBatch"},
              tx'[i].phase = "open", tx'[i].by = c, tx'[i].ws.gen = tx[i].ws.gen,
              tx'[i].effect = IF pc'[c] = "run" THEN "none" ELSE "batch",
              pc'[c] = "run" => tx'[i].ws.state = tx[i].ws.state /\ tx'[i].ws.tok = tx[i].ws.tok,
              pc'[c] = "commitBatch" => tx'[i].ws.state = "active",
              tx'[i].ws.data \subseteq tx[i].ws.data \cup {[by |-> c, gen |-> db[i].gen]}
       PROVE  Staged(c)' /\ Booked(i)' /\ InWork(i)'
  <2>1. /\ tx[i].phase = "open" /\ tx[i].by = c /\ tx[i].effect = "none" /\ Exists(i)
        /\ tx[i].ws.gen = db[i].gen /\ Seated(c, db[i]) /\ c \notin late
        /\ Same(tx[i].ws, db[i])
        /\ tx[i].ws.data \subseteq db[i].data \cup {[by |-> c, gen |-> db[i].gen]}
    BY <1>0, <1>17 DEF Held, HoldingPCs, Staged, InWork
  <2>2. Booked(i)'
    BY <1>0, <1>17 DEF Booked, Exists
  <2>3. Seated(c, db[i])' /\ Seated(c, db[req[c].id])'
    BY <1>17, <2>1 DEF Seated
  <2>4. InWork(i)'
    <3>1. tx'[i].ws.data \subseteq db[i].data \cup {[by |-> c, gen |-> db[i].gen]}
      BY <1>17, <2>1
    <3>2. tx'[i].effect = "none" => Same(tx[i].ws, db[i])'
      BY <1>17, <2>1 DEF Same
    <3> QED
      BY <1>17, <2>1, <2>3, <3>1, <3>2 DEF InWork, Exists
  <2>5. req[c].op \in InitOps => Author(c)'
    BY <1>0, <1>17, AuthorStays DEF Staged, RuntimePCs
  <2>6. Staged(c)'
    BY <1>0, <1>1, <1>17, <2>1, <2>3, <2>5 DEF Staged, RuntimePCs, InitPCs
  <2> QED
    BY <2>2, <2>4, <2>6
<1>18. CASE Finish(c)
  <2>1. /\ pc[c] = "run" /\ pc'[c] = "commitBatch" /\ UNCHANGED <<db, issued, late, req>>
        /\ tx'[i] = [tx[i] EXCEPT !.effect = "batch", !.ws = Finished(c, tx[i].ws)]
        /\ tx[i].phase = "open" /\ tx[i].by = c
    BY <1>0, <1>18 DEF Finish, Goto, dbVars, Held, HoldingPCs
  <2>2. /\ tx'[i].phase = "open" /\ tx'[i].by = c /\ tx'[i].effect = "batch"
        /\ tx'[i].ws = Finished(c, tx[i].ws)
    BY <1>0, <2>1 DEF Tx
  <2>3. tx[i].ws.state = db[i].state /\ Seated(c, db[i])
    BY <1>0, <2>1 DEF Staged, InWork, Same
  <2>4. /\ tx'[i].ws.gen = tx[i].ws.gen /\ tx'[i].ws.data = tx[i].ws.data
        /\ tx'[i].ws.state = "active"
    BY <1>0, <2>2, <2>3 DEF Finished, Row, Seated
  <2> QED
    BY <1>17, <2>1, <2>2, <2>4
<1>19. CASE Statement(c)
  <2>1. /\ pc[c] = "run" /\ pc' = pc /\ UNCHANGED <<db, issued, late, req>>
        /\ tx[i].phase = "open" /\ tx[i].by = c /\ tx[i].effect = "none"
        /\ db[i].gen = req[c].gen
    BY <1>0, <1>19 DEF Statement, dbVars, Held, HoldingPCs, Staged
  <2>2. PICK data \in SUBSET (tx[i].ws.data \cup {[by |-> c, gen |-> req[c].gen]}) :
          tx' = [tx EXCEPT ![i].ws.data = data,
                           ![i].cut = IF db[i].data \subseteq data THEN @
                                      ELSE @ \cup (external \cap {i})]
    BY <1>19 DEF Statement
  <2>3. PICK s : tx'[i] = [tx[i] EXCEPT !.ws = [tx[i].ws EXCEPT !.data = data], !.cut = s]
    BY <1>0, <2>2
  <2>4. /\ tx'[i].phase = "open" /\ tx'[i].by = c /\ tx'[i].effect = "none"
        /\ tx'[i].ws = [tx[i].ws EXCEPT !.data = data]
    BY <1>0, <2>1, <2>3 DEF Tx
  <2>5. /\ tx'[i].ws.gen = tx[i].ws.gen /\ tx'[i].ws.data = data
        /\ tx'[i].ws.state = tx[i].ws.state /\ tx'[i].ws.tok = tx[i].ws.tok
    BY <1>0, <2>4 DEF Row
  <2> QED
    BY <1>17, <2>1, <2>2, <2>4, <2>5
<1>20. CASE MarkFailed(c) \/ LateMark(c)
  <2>1. tx' = tx /\ req' = req /\ issued' = issued /\ MarkRow(c)
    BY <1>20 DEF MarkFailed, LateMark
  <2>2. /\ MarkFailed(c) => pc[c] = "mark" /\ pc'[c] = "reopenFailed" /\ late' = late
        /\ LateMark(c) => pc' = pc /\ c \in late /\ c \notin late'
    BY <1>0 DEF MarkFailed, LateMark, Goto
  <2>3. CASE MarkMatches(c)
    <3>1. db'[i] = [db[i] EXCEPT !.state = "failed", !.tok = Nobody] /\ ~Locked(i)
      BY <1>0, <2>1, <2>3 DEF MarkRow
    <3>2. db'[i].state = "failed" /\ db'[i].gen = db[i].gen /\ Exists(i)
      BY <1>0, <2>3, <3>1 DEF Row, MarkMatches, Exists
    <3>3. Booked(i)' /\ InWork(i)'
      BY <1>0, <2>1, <3>1, <3>2 DEF Booked, InWork, Exists, Locked
    <3>4. Staged(c)'
      <4>1. CASE MarkFailed(c)
        BY <1>0, <2>1, <2>2, <3>2, <4>1, StagedOver DEF Staged, InitPCs
      <4>2. CASE LateMark(c)
        BY <1>0, <1>1, <2>1, <2>2, <3>2, <4>2, AuthorStays DEF Staged, InitPCs, RuntimePCs
      <4> QED
        BY <1>20, <4>1, <4>2
    <3> QED
      BY <3>3, <3>4
  <2>4. CASE ~MarkMatches(c)
    <3>1. db' = db
      BY <2>1, <2>4 DEF MarkRow
    <3>2. Staged(c)'
      <4>1. CASE MarkFailed(c)
        BY <1>0, <2>1, <2>2, <3>1, <4>1, StagedOver DEF Staged, InitPCs
      <4>2. CASE LateMark(c)
        BY <1>0, <1>1, <2>1, <2>2, <3>1, <4>2, AuthorStays DEF Staged, InitPCs, RuntimePCs
      <4> QED
        BY <1>20, <4>1, <4>2
    <3> QED
      BY <2>1, <3>1, <3>2, OwnSame
  <2> QED
    BY <2>3, <2>4
<1>21. CASE LateMarkLapses(c)
  <2>1. UNCHANGED <<db, tx, issued, pc, req>> /\ c \in late /\ c \notin late'
    BY <1>21 DEF LateMarkLapses, dbVars
  <2>2. Staged(c)'
    BY <1>0, <2>1, AuthorStays DEF Staged, InitPCs, RuntimePCs
  <2> QED
    BY <2>1, <2>2, OwnSame
<1>22. CASE MarkFails(c)
  <2>1. /\ UNCHANGED <<db, tx, issued, req>> /\ pc[c] = "mark" /\ pc'[c] = "reopenFailed"
        /\ late' \subseteq late \cup {c}
    BY <1>0, <1>22 DEF MarkFails, dbVars, Goto
  <2>2. Staged(c)'
    BY <1>0, <2>1, StagedOver DEF Staged, InitPCs
  <2> QED
    BY <2>1, <2>2, OwnSame
<1>23. CASE Reopen(c)
  <2>1. UNCHANGED <<db, tx, issued, req, late>> /\ pc'[c] = "done"
    BY <1>0, <1>23 DEF Reopen, dbVars, Return
  <2>2. Staged(c)'
    BY <2>1, StagedOver
  <2> QED
    BY <2>1, <2>2, OwnSame
<1>24. CASE StepFails(c)
  <2>1. UNCHANGED <<db, issued, req, late>> /\ \E e : Fail(c, e)
    BY <1>24 DEF StepFails, dbVars
  <2>2. CASE Abandon(c)
    BY <1>2, <2>1, <2>2, AbandonedIslet
  <2>3. CASE tx' = [tx EXCEPT ![i] = NoTx]
    BY <1>0, <1>2, <2>1, <2>3, ReleasedIslet
  <2> QED
    BY <1>24, <2>2, <2>3 DEF StepFails
<1>25. CASE Crash(c)
  <2>1. /\ UNCHANGED <<db, issued, req>> /\ Abandon(c) /\ pc'[c] = "crashed"
        /\ c \in late' => c \in late \/ pc[c] = "mark"
    BY <1>0, <1>25 DEF Crash, dbVars, Goto
  <2>2. Staged(c)'
    BY <2>1, StagedOver
  <2> QED
    BY <2>1, <2>2, AbandonedIslet
<1> QED
  BY <1>3, <1>4, <1>5, <1>7, <1>8, <1>9, <1>10, <1>11, <1>13, <1>14, <1>15, <1>16, <1>18,
     <1>19, <1>20, <1>21, <1>22, <1>23, <1>24, <1>25 DEF CallStep, Step

\* What a step of call c can do to the row of its islet.
LEMMA RowChange ==
    ASSUME LifeInv, NEW c \in Calls, CallStep(c), NEW i \in Ids, req[c].id = i
    PROVE  \/ db'[i] = db[i] /\ issued'[i] = issued[i]
           \/ /\ db'[i].state = "failed" /\ issued'[i] = issued[i]
              /\ MarkMatches(c) /\ (pc[c] = "mark" \/ c \in late)
              /\ db'[i] = [db[i] EXCEPT !.state = "failed", !.tok = Nobody]
           \/ /\ CommitSucceeds(c) /\ Install(i)
              /\ tx[i].phase # "none" /\ tx[i].effect # "none" /\ tx[i].by = c
<1>0. Held(c) /\ Staged(c) /\ db \in [Ids -> Row] /\ db[i] \in Row
  BY DEF LifeInv, FenceInv, Typed, TypeOK
<1>1. CASE CommitSucceeds(c)
  BY <1>0, <1>1 DEF CommitSucceeds, Held, Staged, CommitPCs, HoldingPCs
<1>2. CASE MarkFailed(c) \/ LateMark(c)
  <2>1. MarkRow(c) /\ issued' = issued /\ (pc[c] = "mark" \/ c \in late)
    BY <1>2 DEF MarkFailed, LateMark
  <2>2. CASE MarkMatches(c)
    <3>1. db'[i] = [db[i] EXCEPT !.state = "failed", !.tok = Nobody]
      BY <1>0, <2>1, <2>2 DEF MarkRow
    <3> QED
      BY <1>0, <2>1, <2>2, <3>1 DEF Row
  <2> QED
    BY <2>1, <2>2 DEF MarkRow
<1>3. CASE ~(CommitSucceeds(c) \/ MarkFailed(c) \/ LateMark(c))
  BY <1>3 DEF CallStep, Step, Statement, Crash, LateMarkLapses, CreateRow, LockMetadata, Refuse,
       CheckDependencies, Cleanup, CleanupFails, CommitRejected, CommitLost, Lookup,
       ConnectRuntime, Enter, CheckBatch, Finish, MarkFails, Reopen, StepFails, dbVars
<1> QED
  BY <1>1, <1>2, <1>3

\* A call that takes no part in a step stays where it is: its transaction is
\* untouched, and it remains the author of its generation.
LEMMA StagedStays ==
    ASSUME LifeInv, NEW d \in Calls, pc'[d] = pc[d], req'[d] = req[d], d \in late' => d \in late,
           pc[d] \in HoldingPCs => /\ tx'[req[d].id] = tx[req[d].id]
                                   /\ db'[req[d].id] = db[req[d].id],
           Author(d) /\ req[d].id \in Ids => Author(d)'
    PROVE  Staged(d)'
<1>0. Staged(d) /\ Typed
  BY DEF LifeInv, FenceInv
<1>1. pc[d] \in HoldingPCs => Seated(d, db[req[d].id])' = Seated(d, db[req[d].id])
  BY DEF Seated
<1>2. pc[d] \in RuntimePCs \/ pc[d] \in InitPCs \/ d \in late => req[d].id \in Ids
  BY <1>0 DEF Typed, KnownIds, Running, PCs, RuntimePCs, InitPCs
<1>3. {"locked", "cleanup", "commit", "check", "run", "commitBatch"} = HoldingPCs
  BY DEF HoldingPCs
<1> QED
  BY <1>0, <1>1, <1>2, <1>3 DEF Staged

\* A step of a call keeps the invariant.
LEMMA CallStepLife ==
    ASSUME LifeInv, NEW c \in Calls, CallStep(c)
    PROVE  LifeInv'
<1>0. /\ FenceInv /\ Typed /\ req[c].id \in Ids
      /\ \A j \in Ids : Owned(j) /\ Booked(j) /\ InWork(j)
      /\ \A d \in Calls : Held(d) /\ Staged(d)
  BY ActorKnown DEF LifeInv, FenceInv, CallStep
<1>1. PICK i \in Ids : req[c].id = i
  BY <1>0
<1>2. FenceInv'
  BY <1>0, CallStepFenced
<1>3. Staged(c)' /\ Booked(i)' /\ InWork(i)'
  BY <1>1, OwnLife
<1>4. ASSUME NEW j \in Ids \ {i} PROVE Booked(j)' /\ InWork(j)'
  <2>1. tx'[j] = tx[j] /\ db'[j] = db[j] /\ issued'[j] = issued[j]
    BY <1>0, <1>1, Frame
  <2>2. tx[j].phase # "none" => req'[tx[j].by].op = req[tx[j].by].op
    BY <1>0, <1>1, Frame DEF Owned
  <2> QED
    BY <2>1, <2>2, SameIslet
<1>5. ASSUME NEW d \in Calls \ {c} PROVE Staged(d)'
  <2>1. pc'[d] = pc[d] /\ req'[d] = req[d]
    BY <1>0, Frame
  <2>2. d \in late' => d \in late
    BY DEF CallStep, Step, Statement, Crash, LateMark, LateMarkLapses, CreateRow, LockMetadata,
         Refuse, CheckDependencies, Cleanup, CleanupFails, CommitSucceeds, CommitRejected,
         CommitLost, Lookup, ConnectRuntime, Enter, CheckBatch, Finish, MarkFailed,
         MarkFails, Reopen, StepFails
  <2>3. ASSUME pc[d] \in HoldingPCs
        PROVE  tx'[req[d].id] = tx[req[d].id] /\ db'[req[d].id] = db[req[d].id]
    <3>1. req[d].id \in Ids /\ tx[req[d].id].phase = "open" /\ tx[req[d].id].by = d
      BY <1>0, <2>3 DEF Held, Typed, KnownIds, Running, HoldingPCs, PCs, LifecyclePCs, RuntimePCs
    <3>2. CASE req[d].id = i
      BY <1>0, <1>1, <3>1, <3>2, NoInterference DEF Mine
    <3>3. CASE req[d].id # i
      BY <1>0, <1>1, <3>1, <3>3, Frame
    <3> QED
      BY <3>2, <3>3
  <2>4. ASSUME Author(d), req[d].id \in Ids PROVE Author(d)'
    <3>1. CASE req[d].id = i
      <4>1. \/ db'[i] = db[i] /\ issued'[i] = issued[i]
            \/ db'[i].state = "failed" /\ issued'[i] = issued[i]
            \/ Install(i) /\ tx[i].phase # "none" /\ tx[i].effect # "none"
        BY <1>1, RowChange
      <4> QED
        BY <2>1, <2>4, <3>1, <4>1, AuthorStays
    <3>2. CASE req[d].id # i
      <4>1. db'[req[d].id] = db[req[d].id] /\ issued'[req[d].id] = issued[req[d].id]
        BY <1>0, <1>1, <2>4, <3>2, Frame
      <4> QED
        BY <2>1, <2>4, <4>1, AuthorStays
    <3> QED
      BY <3>1, <3>2
  <2> QED
    BY <2>1, <2>2, <2>3, <2>4, StagedStays
<1> QED
  BY <1>1, <1>2, <1>3, <1>4, <1>5 DEF LifeInv

\* Every step keeps the invariant.
LEMMA NextLife == LifeInv /\ [Next]_vars => LifeInv'
<1> SUFFICES ASSUME LifeInv, [Next]_vars PROVE LifeInv'
  OBVIOUS
<1>0. /\ FenceInv /\ FenceInv' /\ Typed /\ pc \in [Calls -> PCs] /\ req \in [Calls -> Req]
      /\ tx \in [Ids -> Tx] /\ db \in [Ids -> Row] /\ issued \in [Ids -> Nat]
      /\ \A j \in Ids : Owned(j) /\ Booked(j) /\ InWork(j)
      /\ \A d \in Calls : Held(d) /\ Staged(d)
  BY NextFenced DEF LifeInv, FenceInv, Typed, TypeOK, Req
<1>1. ASSUME NEW c \in Calls, CallStep(c) PROVE LifeInv'
  BY <1>1, CallStepLife
<1>2. ASSUME NEW c \in Calls, Invoke(c) PROVE LifeInv'
  <2>1. PICK op \in Ops : \/ \E i \in Ids : CallCreate(c, op, i)
                          \/ \E i \in Ids : \E g \in Handles(i) : CallWith(c, op, i, g)
                          \/ CallTooLarge(c, op)
    BY <1>2 DEF Invoke
  <2>2. /\ pc[c] = "idle" /\ UNCHANGED <<db, tx, issued, late>>
        /\ \A d \in Calls \ {c} : pc'[d] = pc[d] /\ req'[d] = req[d]
        /\ \/ pc'[c] \in {"create", "done"}
           \/ pc'[c] = "lock" /\ req'[c].op \in CleanupOps
           \/ pc'[c] = "lookup" /\ req'[c].op = "Batch"
    BY <1>0, <2>1 DEF CallCreate, CallWith, CallTooLarge, Goto, Return, dbVars
  <2>3. ASSUME NEW j \in Ids PROVE Booked(j)' /\ InWork(j)'
    <3>1. tx[j].phase # "none" => tx[j].by \in Calls \ {c}
      BY <1>0, <2>2 DEF Owned, HoldingPCs, Over
    <3> QED
      BY <2>2, <3>1, SameIslet
  <2>4. ASSUME NEW d \in Calls PROVE Staged(d)'
    <3>1. CASE d = c
      <4>1. c \notin late
        BY <1>0, <2>2 DEF Staged
      <4> QED
        BY <2>2, <3>1, <4>1 DEF Staged, RuntimePCs, InitPCs, InitOps
    <3>2. CASE d # c
      BY <2>2, <3>2, AuthorStays, StagedStays
    <3> QED
      BY <3>1, <3>2
  <2> QED
    BY <1>0, <2>3, <2>4 DEF LifeInv
<1>3. ASSUME NEW i \in Ids, Server(i) PROVE LifeInv'
  <2>1. /\ tx[i].phase \in {"orphan", "committing"} /\ UNCHANGED <<pc, req, res, late>>
        /\ tx'[i] = NoTx
        /\ \A j \in Ids \ {i} : tx'[j] = tx[j] /\ db'[j] = db[j] /\ issued'[j] = issued[j]
    BY <1>0, <1>3 DEF Server, OrphanAborts, OrphanCommits, Abandoned, Install, dbVars
  <2>2. \/ db'[i] = db[i] /\ issued'[i] = issued[i]
        \/ Install(i) /\ tx[i].phase # "none" /\ tx[i].effect # "none"
    BY <1>0, <1>3 DEF Server, OrphanAborts, OrphanCommits, dbVars, InWork
  <2>3. ASSUME NEW j \in Ids PROVE Booked(j)' /\ InWork(j)'
    <3>1. CASE j = i
      BY <2>1, <2>2, <3>1, ReleasedIslet, Installed
    <3>2. CASE j # i
      BY <2>1, <3>2, SameIslet
    <3> QED
      BY <3>1, <3>2
  <2>4. ASSUME NEW d \in Calls PROVE Staged(d)'
    <3>1. pc[d] \in HoldingPCs => req[d].id \in Ids /\ req[d].id # i
      BY <1>0, <2>1 DEF Held, Typed, KnownIds, Running, HoldingPCs, PCs, LifecyclePCs, RuntimePCs
    <3>2. ASSUME Author(d), req[d].id \in Ids PROVE Author(d)'
      BY <2>1, <2>2, <3>2, AuthorStays
    <3> QED
      BY <2>1, <3>1, <3>2, StagedStays
  <2> QED
    BY <1>0, <2>3, <2>4 DEF LifeInv
<1>4. CASE UNCHANGED <<db, tx, issued, pc, req, late>>
  <2>1. ASSUME NEW j \in Ids PROVE Booked(j)' /\ InWork(j)'
    BY <1>4, SameIslet
  <2>2. ASSUME NEW d \in Calls PROVE Staged(d)'
    BY <1>4, AuthorStays, StagedStays
  <2> QED
    BY <1>0, <2>1, <2>2 DEF LifeInv
<1> QED
  BY <1>1, <1>2, <1>3, <1>4 DEF Next, CallStep, Quiet, AdminDepend, AdminRelease, vars

\* The initial states satisfy the invariant.
LEMMA InitLife == Init => LifeInv
<1> SUFFICES ASSUME Init PROVE LifeInv
  OBVIOUS
<1>1. FenceInv
  BY InitFenced
<1>2. ASSUME NEW i \in Ids PROVE Booked(i) /\ InWork(i)
  <2>1. issued[i] \in {0, 1} /\ tx[i] = NoTx
    BY DEF Init
  <2>2. CASE issued[i] = 0
    BY <2>1, <2>2 DEF Init, Booked, InWork, Exists, Absent, NoTx
  <2>3. CASE issued[i] = 1
    <3>1. db[i].state = "active" /\ db[i].gen = 1
      BY <2>3 DEF Init, Absent
    <3> QED
      BY <2>1, <2>3, <3>1 DEF Booked, InWork, Exists, NoTx
  <2> QED
    BY <2>1, <2>2, <2>3
<1>3. \A c \in Calls : Staged(c)
  BY DEF Init, Staged, RuntimePCs, InitPCs
<1> QED
  BY <1>1, <1>2, <1>3 DEF LifeInv

\* The inductive invariant holds in every reachable state.
LEMMA LifeInvariant == Spec => []LifeInv
  BY InitLife, NextLife, PTL DEF Spec

(***************************************************************************)
(* Initialization and failure                                              *)
(***************************************************************************)

\* An islet between the two transactions of its initialization is empty, and
\* the only batch that can be open on it is that of the call that drew its
\* token.
THEOREM InitializationIsPrivate == Spec => []InitializationPrivate
<1>1. ASSUME LifeInv PROVE InitializationPrivate
  <2>1. SUFFICES ASSUME NEW i \in Ids, db[i].state = "initializing"
                 PROVE  /\ db[i].data = {}
                        /\ \A c \in Calls : pc[c] \in {"check", "run", "commitBatch"}
                                            /\ req[c].id = i => c = db[i].tok
    BY DEF InitializationPrivate
  <2>2. db[i].data = {}
    BY <1>1, <2>1 DEF LifeInv, Booked
  <2>3. ASSUME NEW c \in Calls, pc[c] \in {"check", "run", "commitBatch"}, req[c].id = i
        PROVE  c = db[i].tok
    <3>1. Held(c) /\ Staged(c) /\ InWork(i)
      BY <1>1 DEF LifeInv, FenceInv
    <3>2. Seated(c, db[i])
      BY <2>3, <3>1 DEF Held, Staged, InWork, HoldingPCs
    <3> QED
      BY <2>1, <3>2 DEF Seated
  <2> QED
    BY <2>2, <2>3
<1> QED
  BY <1>1, LifeInvariant, PTL

\* Only a cleanup that holds the row lock, or the initialization that failed,
\* marks an islet failed: not a delayed update of an older generation.
THEOREM FailuresAreAttributed == Spec => FailureAttributed
<1> DEFINE A == \A i \in Ids :
                   db[i].state # "failed" /\ db'[i].state = "failed"
                   => \/ tx[i].effect = "failed"
                      \/ /\ db[i].state = "initializing"
                         /\ pc[db[i].tok] = "mark" \/ db[i].tok \in late
<1>1. ASSUME LifeInv, [Next]_vars PROVE [A]_vars
  <2>0. /\ Typed /\ db \in [Ids -> Row] /\ tx \in [Ids -> Tx]
        /\ \A j \in Ids : Booked(j) /\ InWork(j) /\ Owned(j)
        /\ \A d \in Calls : Staged(d)
    BY <1>1 DEF LifeInv, FenceInv, Typed, TypeOK
  <2>1. ASSUME NEW i \in Ids, Install(i), tx[i].phase # "none", tx[i].effect # "none",
               db'[i].state = "failed"
        PROVE  tx[i].effect = "failed"
    <3>1. db'[i] = tx[i].ws /\ tx[i] \in Tx
      BY <1>1, <2>0, <2>1, Installed
    <3>2. tx[i].effect = "lifecycle" => tx[i].ws.state # "failed"
      <4>1. tx[i].effect = "lifecycle" =>
               tx[i].ws = Absent \/ tx[i].ws = Prepared(tx[i].by, issued[i] + 1)
        BY <2>0, <2>1 DEF InWork, Replaces
      <4>2. Absent.state # "failed" /\ Prepared(tx[i].by, issued[i] + 1).state # "failed"
        BY DEF Absent, Prepared
      <4> QED
        BY <4>1, <4>2
    <3>3. tx[i].effect = "batch" => tx[i].ws.state # "failed"
      BY <2>0, <2>1 DEF InWork
    <3> QED
      BY <2>1, <3>1, <3>2, <3>3 DEF Tx, Effects
  <2>2. ASSUME NEW i \in Ids, \A j \in Ids \ {i} : db'[j] = db[j],
               db[i].state # "failed" /\ db'[i].state = "failed" =>
                  \/ tx[i].effect = "failed"
                  \/ /\ db[i].state = "initializing"
                     /\ pc[db[i].tok] = "mark" \/ db[i].tok \in late
        PROVE  A
    BY <2>2
  <2>3. ASSUME NEW c \in Calls, CallStep(c) PROVE A
    <3>1. PICK i \in Ids : req[c].id = i
      BY <2>0, <2>3, ActorKnown DEF CallStep
    <3>2. \A j \in Ids \ {i} : db'[j] = db[j]
      BY <2>0, <2>3, <3>1, Frame
    <3>3. CASE MarkMatches(c) /\ (pc[c] = "mark" \/ c \in late)
      <4>1. db[i].state = "initializing" /\ db[i].gen = req[c].gen
        BY <3>1, <3>3 DEF MarkMatches
      <4>2. Author(c)
        BY <2>0, <3>3 DEF Staged, InitPCs
      <4>3. db[i].tok = c
        BY <3>1, <4>1, <4>2 DEF Author
      <4> QED
        BY <2>2, <3>2, <3>3, <4>1, <4>3
    <3>4. CASE Install(i) /\ tx[i].phase # "none" /\ tx[i].effect # "none"
      BY <2>1, <2>2, <3>2, <3>4
    <3>5. CASE db'[i] = db[i]
      BY <2>2, <3>2, <3>5
    <3>6. \/ MarkMatches(c) /\ (pc[c] = "mark" \/ c \in late)
          \/ Install(i) /\ tx[i].phase # "none" /\ tx[i].effect # "none"
          \/ db'[i] = db[i]
      BY <1>1, <2>3, <3>1, RowChange
    <3> HIDE DEF A
    <3> QED
      BY <3>3, <3>4, <3>5, <3>6
  <2>4. ASSUME NEW i \in Ids, OrphanCommits(i) PROVE A
    <3>1. Install(i) /\ tx[i].phase # "none" /\ tx[i].effect # "none"
      BY <2>0, <2>4 DEF OrphanCommits, InWork
    <3>2. \A j \in Ids \ {i} : db'[j] = db[j]
      BY <2>0, <3>1 DEF Install
    <3> QED
      BY <2>1, <2>2, <3>1, <3>2
  <2>5. CASE UNCHANGED db
    BY <2>5
  <2>6. ASSUME NEW c \in Calls, Invoke(c) PROVE UNCHANGED db
    BY <2>6 DEF Invoke, CallCreate, CallWith, CallTooLarge, dbVars
  <2>7. ASSUME NEW i \in Ids, OrphanAborts(i) \/ AdminDepend(i) \/ AdminRelease(i)
        PROVE  UNCHANGED db
    BY <2>7 DEF OrphanAborts, AdminDepend, AdminRelease, dbVars
  <2>8. UNCHANGED vars => UNCHANGED db
    BY DEF vars
  <2> HIDE DEF A
  <2> QED
    BY <1>1, <2>3, <2>4, <2>5, <2>6, <2>7, <2>8 DEF Next, CallStep, Server, Quiet
<1>2. Spec => [][A]_vars
  BY <1>1, LifeInvariant, PTL DEF Spec
<1> QED
  BY <1>2 DEF FailureAttributed

(***************************************************************************)
(* The refinement of IsletWorkspace                                        *)
(***************************************************************************)

\* The workspaces that the registry rows stand for.
Shown == [i \in Ids |-> [state |-> db[i].state, gen |-> db[i].gen, data |-> db[i].data]]
Named == {i \in Ids : issued[i] > 0}

\* A step that changes one row changes one workspace.
LEMMA ShownStep ==
    ASSUME NEW i \in Ids, \A j \in Ids \ {i} : db'[j] = db[j] /\ issued'[j] = issued[j]
    PROVE  /\ \A s, g, d : db'[i].state = s /\ db'[i].gen = g /\ db'[i].data = d =>
                 Shown' = [Shown EXCEPT ![i] = [state |-> s, gen |-> g, data |-> d]]
           /\ (issued'[i] > 0 <=> issued[i] > 0) => Named' = Named
           /\ issued'[i] > 0 => Named' = Named \cup {i}
<1>1. ASSUME NEW s, NEW g, NEW d, db'[i].state = s, db'[i].gen = g, db'[i].data = d
      PROVE  Shown' = [Shown EXCEPT ![i] = [state |-> s, gen |-> g, data |-> d]]
  BY <1>1 DEF Shown
<1>2. (issued'[i] > 0 <=> issued[i] > 0) => Named' = Named
  BY DEF Named
<1>3. issued'[i] > 0 => Named' = Named \cup {i}
  BY DEF Named
<1> QED
  BY <1>1, <1>2, <1>3

\* Every commit is one atomic step of the workspace.
LEMMA InstallRefines ==
    ASSUME LifeInv, NEW i \in Ids, Install(i), tx[i].phase # "none", tx[i].effect # "none"
    PROVE  WS!WNext
<1> DEFINE c == tx[i].by
<1>0. /\ Booked(i) /\ InWork(i) /\ db[i] \in Row /\ tx[i] \in Tx /\ tx[i].ws \in Row
      /\ issued \in [Ids -> Nat] /\ issued[i] \in Nat /\ c \in Calls
      /\ db \in [Ids -> Row] /\ tx \in [Ids -> Tx]
  BY DEF LifeInv, FenceInv, Owned, Typed, TypeOK, Tx
<1>1. /\ db'[i] = tx[i].ws
      /\ issued'[i] = IF tx[i].ws.gen > issued[i] THEN tx[i].ws.gen ELSE issued[i]
      /\ \A j \in Ids \ {i} : db'[j] = db[j] /\ issued'[j] = issued[j]
  BY <1>0 DEF Install
<1>2. /\ Shown[i].state = db[i].state /\ Shown[i].gen = db[i].gen /\ Shown[i].data = db[i].data
      /\ i \in Named <=> issued[i] > 0
  BY DEF Shown, Named
<1>3. CASE tx[i].effect = "lifecycle" /\ req[c].op = "Delete"
  <2>1. tx[i].ws = Absent /\ db[i].state \in {"active", "failed"}
    BY <1>0, <1>3 DEF InWork, Replaces
  <2>2. Shown' = [Shown EXCEPT ![i] = [state |-> "absent", gen |-> 0, data |-> {}]]
    BY <1>1, <2>1, ShownStep DEF Absent
  <2>3. Named' = Named
    BY <1>0, <1>1, <2>1, ShownStep DEF Absent
  <2>4. WS!Delete(i)
    BY <1>2, <2>1, <2>2, <2>3 DEF WS!Delete, WS!Gone, Shown, Named
  <2> QED
    BY <2>4 DEF WS!WNext
<1>4. CASE tx[i].effect = "lifecycle" /\ req[c].op # "Delete"
  <2>1. /\ tx[i].ws = Prepared(c, issued[i] + 1)
        /\ req[c].op \in CreateOps => issued[i] = 0
        /\ req[c].op \notin CreateOps => Exists(i) /\ req[c].op \in CleanupOps
        /\ db[i].state = "initializing" => req[c].op = "Recover"
    BY <1>0, <1>4 DEF InWork, Replaces
  <2>2. PICK s \in {"active", "initializing"} :
           /\ tx[i].ws.state = s /\ tx[i].ws.gen = issued[i] + 1 /\ tx[i].ws.data = {}
           /\ db[i].state = "initializing" => s = "active"
    BY <2>1 DEF Prepared, InitOps
  <2>3. Shown' = [Shown EXCEPT ![i] = [state |-> s, gen |-> issued[i] + 1, data |-> {}]]
    BY <1>1, <2>2, ShownStep
  <2>4. issued'[i] = issued[i] + 1
    BY <1>0, <1>1, <2>2
  <2>5. CASE req[c].op \in CreateOps
    <3>1. Named' = Named \cup {i} /\ i \notin Named
      BY <1>0, <1>1, <1>2, <2>1, <2>4, <2>5, ShownStep
    <3>2. Shown' = [Shown EXCEPT ![i] = [state |-> s, gen |-> 1, data |-> {}]]
      <4>1. issued[i] + 1 = 1
        BY <2>1, <2>5
      <4> QED
        BY <2>3, <4>1
    <3>3. WS!Create(i)
      BY <3>1, <3>2 DEF WS!Create, WS!Empty, Shown, Named
    <3> QED
      BY <3>3 DEF WS!WNext
  <2>6. CASE req[c].op \notin CreateOps
    <3>1. db[i].state # "absent" /\ db[i].gen = issued[i] /\ issued[i] > 0
      BY <1>0, <2>1, <2>6 DEF Booked, Exists
    <3>2. Named' = Named
      BY <1>0, <1>1, <2>4, <3>1, ShownStep
    <3>3. Shown' = [Shown EXCEPT ![i] = [state |-> s, gen |-> Shown[i].gen + 1, data |-> {}]]
      BY <1>2, <2>3, <3>1
    <3>4. WS!Clear(i)
      BY <1>2, <2>2, <3>1, <3>2, <3>3 DEF WS!Clear, WS!Empty, Shown, Named
    <3> QED
      BY <3>4 DEF WS!WNext
  <2> QED
    BY <2>5, <2>6
<1>5. CASE tx[i].effect \in {"failed", "batch"}
  <2>1. db[i].state # "absent" /\ tx[i].ws.gen = db[i].gen
    BY <1>0, <1>5 DEF InWork, Exists, Row
  <2>2. issued'[i] = issued[i]
    BY <1>0, <1>1, <2>1 DEF Booked, Exists
  <2>3. Named' = Named
    BY <1>1, <2>2, ShownStep
  <2>4. CASE tx[i].effect = "failed"
    <3>1. tx[i].ws.state = "failed" /\ tx[i].ws.data = db[i].data
      BY <1>0, <2>4 DEF InWork, Row
    <3>2. Shown' = [Shown EXCEPT ![i] = [state |-> "failed", gen |-> db[i].gen,
                                         data |-> db[i].data]]
      BY <1>1, <2>1, <3>1, ShownStep
    <3>3. Shown' = [Shown EXCEPT ![i].state = "failed"]
      BY <3>2 DEF Shown
    <3>4. WS!MarkAsFailed(i)
      BY <1>2, <2>1, <2>3, <3>3 DEF WS!MarkAsFailed, Shown, Named
    <3> QED
      BY <3>4 DEF WS!WNext
  <2>5. CASE tx[i].effect = "batch"
    <3>1. /\ Seated(c, db[i]) /\ tx[i].ws.state = "active"
          /\ tx[i].ws.data \subseteq db[i].data \cup {[by |-> c, gen |-> db[i].gen]}
      BY <1>0, <2>5 DEF InWork
    <3>2. PICK d : tx[i].ws.data = d
      OBVIOUS
    <3>3. Shown' = [Shown EXCEPT ![i] = [state |-> "active", gen |-> db[i].gen, data |-> d]]
      BY <1>1, <2>1, <3>1, <3>2, ShownStep
    <3>4. CASE db[i].state = "active"
      <4>1. Shown' = [Shown EXCEPT ![i].data = d]
        BY <3>3, <3>4 DEF Shown
      <4>2. d \in SUBSET (Shown[i].data \cup {[by |-> c, gen |-> Shown[i].gen]})
        BY <1>2, <3>1, <3>2
      <4>3. WS!Run(i)
        BY <1>0, <1>2, <2>3, <3>4, <4>1, <4>2 DEF WS!Run, Shown, Named
      <4> QED
        BY <4>3 DEF WS!WNext
    <3>5. CASE db[i].state = "initializing"
      <4>1. Shown' = [Shown EXCEPT ![i].state = "active", ![i].data = d]
        BY <3>3, <3>5 DEF Shown
      <4>2. d \in SUBSET {[by |-> c, gen |-> Shown[i].gen]}
        BY <1>0, <1>2, <3>1, <3>2, <3>5 DEF Booked
      <4>3. WS!Initialize(i)
        BY <1>0, <1>2, <2>3, <3>5, <4>1, <4>2 DEF WS!Initialize, Shown, Named
      <4> QED
        BY <4>3 DEF WS!WNext
    <3> QED
      BY <3>1, <3>4, <3>5 DEF Seated
  <2> QED
    BY <1>5, <2>4, <2>5
<1> QED
  BY <1>0, <1>3, <1>4, <1>5 DEF Tx, Effects

\* The engine implements IsletWorkspace: whatever locks, transactions, crashes
\* and delayed updates do, the committed islets move by its atomic operations.
THEOREM EngineImplementsWorkspace == Spec => ImplementsWorkspace
<1>1. Init => WS!WInit
  <2> SUFFICES ASSUME Init PROVE WS!WInit
    OBVIOUS
  <2>1. ASSUME NEW i \in Ids
        PROVE  /\ issued[i] = 0 \/ issued[i] = 1
               /\ issued[i] = 0 => db[i].state = "absent" /\ db[i].gen = 0 /\ db[i].data = {}
               /\ issued[i] = 1 => db[i].state = "active" /\ db[i].gen = 1 /\ db[i].data = {}
    BY DEF Init, Absent
  <2>2. Shown = [i \in Ids |-> IF i \in Named THEN [state |-> "active", gen |-> 1, data |-> {}]
                               ELSE [state |-> "absent", gen |-> 0, data |-> {}]]
    <3>1. ASSUME NEW i \in Ids
          PROVE  [state |-> db[i].state, gen |-> db[i].gen, data |-> db[i].data] =
                    IF i \in Named THEN [state |-> "active", gen |-> 1, data |-> {}]
                    ELSE [state |-> "absent", gen |-> 0, data |-> {}]
      <4>1. CASE issued[i] = 0
        <5>1. i \notin Named
          BY <4>1 DEF Named
        <5> QED
          BY <2>1, <4>1, <5>1
      <4>2. CASE issued[i] = 1
        <5>1. i \in Named
          BY <4>2 DEF Named
        <5> QED
          BY <2>1, <4>2, <5>1
      <4> QED
        BY <2>1, <4>1, <4>2
    <3> QED
      BY <3>1 DEF Shown
  <2>3. Named \in SUBSET Ids
    BY DEF Named
  <2> QED
    BY <2>2, <2>3 DEF WS!WInit, WS!Empty, WS!Gone, Shown, Named
<1>2. ASSUME LifeInv, [Next]_vars PROVE [WS!WNext]_WS!wsVars
  <2>0. /\ Typed /\ db \in [Ids -> Row] /\ tx \in [Ids -> Tx] /\ issued \in [Ids -> Nat]
        /\ \A j \in Ids : Booked(j) /\ InWork(j) /\ Owned(j)
    BY <1>2 DEF LifeInv, FenceInv, Typed, TypeOK
  <2>1. UNCHANGED <<db, issued>> => UNCHANGED WS!wsVars
    BY DEF WS!wsVars
  <2>2. ASSUME NEW c \in Calls, CallStep(c) PROVE [WS!WNext]_WS!wsVars
    <3>1. PICK i \in Ids : req[c].id = i
      BY <2>0, <2>2, ActorKnown DEF CallStep
    <3>2. \A j \in Ids \ {i} : db'[j] = db[j] /\ issued'[j] = issued[j]
      BY <2>0, <2>2, <3>1, Frame
    <3>3. CASE db'[i] = db[i] /\ issued'[i] = issued[i]
      <4>1. Shown' = Shown /\ Named' = Named
        BY <3>2, <3>3 DEF Shown, Named
      <4> QED
        BY <4>1 DEF WS!wsVars, Shown, Named
    <3>4. CASE /\ MarkMatches(c) /\ issued'[i] = issued[i]
               /\ db'[i] = [db[i] EXCEPT !.state = "failed", !.tok = Nobody]
      <4>1. /\ db'[i].state = "failed" /\ db'[i].gen = db[i].gen /\ db'[i].data = db[i].data
            /\ db[i].state # "absent"
        BY <2>0, <3>1, <3>4 DEF Row, MarkMatches
      <4>2. Shown' = [Shown EXCEPT ![i] = [state |-> "failed", gen |-> db[i].gen,
                                           data |-> db[i].data]]
        BY <3>2, <4>1, ShownStep
      <4>3. Shown' = [Shown EXCEPT ![i].state = "failed"]
        BY <4>2 DEF Shown
      <4>4. Named' = Named
        BY <3>2, <3>4, ShownStep
      <4>5. Shown[i].state # "absent"
        BY <4>1 DEF Shown
      <4>6. WS!MarkAsFailed(i)
        BY <4>3, <4>4, <4>5 DEF WS!MarkAsFailed, Shown, Named
      <4> QED
        BY <4>6 DEF WS!WNext
    <3>5. CASE Install(i) /\ tx[i].phase # "none" /\ tx[i].effect # "none"
      BY <1>2, <3>5, InstallRefines
    <3> QED
      BY <1>2, <2>2, <3>1, <3>3, <3>4, <3>5, RowChange
  <2>3. ASSUME NEW i \in Ids, OrphanCommits(i) PROVE WS!WNext
    BY <1>2, <2>0, <2>3, InstallRefines DEF OrphanCommits, InWork
  <2>4. ASSUME NEW c \in Calls, Invoke(c) PROVE UNCHANGED <<db, issued>>
    BY <2>4 DEF Invoke, CallCreate, CallWith, CallTooLarge, dbVars
  <2>5. ASSUME NEW i \in Ids, OrphanAborts(i) \/ AdminDepend(i) \/ AdminRelease(i)
        PROVE  UNCHANGED <<db, issued>>
    BY <2>5 DEF OrphanAborts, AdminDepend, AdminRelease, dbVars
  <2>6. UNCHANGED vars => UNCHANGED <<db, issued>>
    BY DEF vars
  <2> QED
    BY <1>2, <2>1, <2>2, <2>3, <2>4, <2>5, <2>6 DEF Next, CallStep, Server, Quiet
<1> QED
  BY <1>1, <1>2, LifeInvariant, PTL DEF Spec, ImplementsWorkspace, WS!WSpec

=============================================================================
