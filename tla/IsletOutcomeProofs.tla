------------------------- MODULE IsletOutcomeProofs -------------------------
(***************************************************************************)
(* What callers are told: outcomes, handles, nil Deletes and the report of *)
(* the web example, for any number of islets and calls.                    *)
(***************************************************************************)
EXTENDS IsletLifecycleProofs, WebReport

(***************************************************************************)
(* The invariant.  LifeInv says what each transaction would commit; here   *)
(* is what its call has committed so far, and what it will report.         *)
(***************************************************************************)

\* The effect of the transaction that holds i is still to come, and a COMMIT
\* that is on its way without a client was reported as unknown.
Pending(i) ==
    tx[i].phase # "none" =>
        /\ tx[i].effect # "none" => tx[i].effect \notin did[tx[i].by]
        /\ tx[i].phase = "committing" /\ pc[tx[i].by] # "crashed"
           => "OutcomeUnknown" \in res[tx[i].by].err

\* The places of a call before its first COMMIT.
Firsts == {"idle", "create", "lock", "locked", "cleanup"}

\* The part of OutcomeHonest that is about what is committed already.
Honest(c) ==
    /\ res[c].err = {} /\ req[c].op # "Delete" => Promised(req[c].op) \subseteq did[c]
    /\ res[c].err # {} /\ "OutcomeUnknown" \notin res[c].err =>
         /\ req[c].op \notin InitOps => did[c] \cap {"lifecycle", "batch"} = {}
         /\ "Initialization" \in res[c].err => "batch" \notin did[c]

\* What call c has committed, and the error it carries, at each place.
Reported(c) ==
    /\ pc[c] \in Firsts \cup {"commit"} => did[c] = {}
    /\ pc[c] \in Firsts \cup RuntimePCs \cup {"reopen"} => res[c].err = {}
    /\ pc[c] = "commit" => /\ "Initialization" \notin res[c].err
                           /\ res[c].err = {} <=> tx[req[c].id].effect = "lifecycle"
    /\ (pc[c] \in RuntimePCs \/ pc[c] \in InitPCs) /\ req[c].op \in InitOps
       => "lifecycle" \in did[c]
    /\ pc[c] \in RuntimePCs => /\ "batch" \notin did[c]
                               /\ req[c].op = "Batch" => did[c] = {}
    /\ pc[c] = "reopen" => "batch" \in did[c]
    /\ pc[c] \in {"mark", "reopenFailed"} =>
         /\ "Initialization" \in res[c].err
         /\ "OutcomeUnknown" \notin res[c].err => "batch" \notin did[c]
    /\ pc[c] = "done" => Honest(c)

\* The generation a nil call has made.
Own(c) == IF req[c].op \in {"Reset", "Recover"} THEN req[c].gen + 1 ELSE req[c].gen

\* The handle that call c returns.
Handed(c) ==
    /\ pc[c] \in {"create", "commit"} /\ req[c].op \in CreateOps => req[c].gen = 1
    /\ pc[c] = "done" /\ res[c].err = {} /\ req[c].op \notin {"Delete", "Batch"} =>
         req[c].id \in Ids /\ Own(c) <= res[c].ret /\ res[c].ret <= issued[req[c].id]

OutcomeInv ==
    /\ LifeInv
    /\ \A i \in Ids : Pending(i)
    /\ \A c \in Calls : Reported(c) /\ Handed(c)

(***************************************************************************)
(* What a step of call c does to its own part of the invariant             *)
(***************************************************************************)

\* A step that fails has a reason.
LEMMA Reasons ==
    ASSUME NEW c \in Calls
    PROVE  {} \notin EnterErrors(c) /\ {} \notin StepErrors(c)
<1>1. {} \notin EnterErrors(c)
  BY DEF EnterErrors
<1>2. {} \notin StepErrors(c)
  <2>1. {} \notin {{f} : f \in Faults} /\ {} \notin {{"RuntimeConnection", f} : f \in Faults}
    OBVIOUS
  <2> QED
    BY <2>1 DEF StepErrors
<1> QED
  BY <1>1, <1>2

\* A step that fails before or in the COMMIT of call c: the call returns with
\* nothing committed, or initialize() goes on without its batch.
LEMMA FailsHonestly ==
    ASSUME OutcomeInv, NEW c \in Calls, NEW e \in SUBSET Kinds, e # {}, NEW g,
           FailWith(c, e, g) \/ Fail(c, e), did'[c] = did[c], req' = req,
           pc[c] \in Firsts \cup {"commit"} \cup RuntimePCs
    PROVE  /\ Reported(c)' /\ Handed(c)'
           /\ e \subseteq res'[c].err /\ pc'[c] \in {"mark", "done"}
<1>0. /\ Reported(c) /\ Staged(c) /\ pc \in [Calls -> PCs] /\ res \in [Calls -> Res]
  BY DEF OutcomeInv, LifeInv, FenceInv, Typed, TypeOK, Res
<1>1. \E h : FailWith(c, e, h)
  BY DEF Fail
<1>2. CASE req[c].op \in InitOps /\ pc[c] \in RuntimePCs
  <2>1. pc'[c] = "mark" /\ res'[c].err = e \cup {"Initialization"}
    BY <1>0, <1>1, <1>2 DEF FailWith, Res
  <2> QED
    BY <1>0, <1>2, <2>1 DEF Reported, Handed, Firsts, RuntimePCs, InitPCs
<1>3. CASE ~(req[c].op \in InitOps /\ pc[c] \in RuntimePCs)
  <2>1. pc'[c] = "done" /\ res'[c].err = res[c].err \cup e
    BY <1>0, <1>1, <1>3 DEF FailWith, Return, Res
  <2>2. did'[c] = {}
    BY <1>0, <1>3 DEF Reported, Staged
  <2>3. Honest(c)'
    BY <2>1, <2>2 DEF Honest
  <2> QED
    BY <2>1, <2>3 DEF Reported, Handed, Firsts, RuntimePCs, InitPCs
<1> QED
  BY <1>2, <1>3

\* Only COMMIT adds to what a call has committed, and only to that of its own.
LEMMA DidFrame ==
    ASSUME LifeInv, NEW c \in Calls, CallStep(c)
    PROVE  /\ ~CommitSucceeds(c) => did' = did
           /\ \A d \in Calls \ {c} : did'[d] = did[d]
           /\ CommitSucceeds(c) => did'[c] = did[c] \cup {tx[req[c].id].effect}
<1>0. Held(c) /\ did \in [Calls -> SUBSET (Effects \cup {"none"})]
  BY DEF LifeInv, FenceInv, Typed, TypeOK
<1>1. CASE CommitSucceeds(c)
  <2>1. tx[req[c].id].by = c /\ Install(req[c].id)
    BY <1>0, <1>1 DEF CommitSucceeds, Held, CommitPCs, HoldingPCs
  <2> QED
    BY <1>0, <1>1, <2>1 DEF Install
<1>2. CASE ~CommitSucceeds(c)
  BY <1>2 DEF CallStep, Step, Statement, Crash, LateMark, LateMarkLapses, CreateRow,
       LockMetadata, Refuse, CheckDependencies, Cleanup, CleanupFails, CommitRejected,
       CommitLost, Lookup, ConnectRuntime, Enter, CheckBatch, Finish, MarkFailed, MarkFails,
       Reopen, StepFails, dbVars
<1> QED
  BY <1>1, <1>2

\* A call that is over forgets no error.
LEMMA ErrorsStay ==
    ASSUME Typed, NEW c \in Calls, CallStep(c), pc[c] \in Over
    PROVE  res[c].err \subseteq res'[c].err /\ (pc[c] = "crashed" => pc'[c] = "crashed")
<1>0. pc \in [Calls -> PCs] /\ res \in [Calls -> Res]
  BY DEF Typed, TypeOK, Res
<1>1. ~StepFails(c)
  BY DEF StepFails, StepErrors, Over
<1>2. MarkFailed(c) \/ MarkFails(c) \/ LateMark(c) \/ LateMarkLapses(c) \/ Reopen(c) \/ Crash(c)
  BY <1>1 DEF CallStep, Step, Over, CommitPCs, CreateRow, LockMetadata, Refuse,
        CheckDependencies, Cleanup, CleanupFails, CommitSucceeds, CommitRejected, CommitLost,
        Lookup, ConnectRuntime, Enter, CheckBatch, Finish, Statement
<1>3. CASE Reopen(c)
  BY <1>0, <1>3 DEF Reopen, Return, Res
<1>4. CASE ~Reopen(c)
  BY <1>0, <1>2, <1>4 DEF MarkFailed, MarkFails, LateMark, LateMarkLapses, Crash, dbVars, Running
<1> QED
  BY <1>3, <1>4

\* A transaction that no step touches stays pending.
LEMMA PendingSame ==
    ASSUME OutcomeInv, NEW c \in Calls, CallStep(c), NEW j \in Ids, tx'[j] = tx[j],
           ~CommitSucceeds(c) \/ req[c].id # j
    PROVE  Pending(j)'
<1>0. LifeInv /\ Typed /\ Owned(j) /\ Pending(j) /\ tx[j] \in Tx
  BY DEF OutcomeInv, LifeInv, FenceInv, Typed, TypeOK
<1>1. SUFFICES ASSUME tx[j].phase # "none" PROVE Pending(j)'
  BY DEF Pending
<1>2. CASE tx[j].by = c
  <2>1. did'[c] = did[c]
    BY <1>0, <1>1, <1>2, DidFrame DEF Owned
  <2>2. tx[j].phase = "committing" => pc[c] \in Over
    BY <1>0, <1>1, <1>2 DEF Owned
  <2> QED
    BY <1>0, <1>2, <2>1, <2>2, ErrorsStay DEF Pending
<1>3. CASE tx[j].by # c
  <2>1. did'[tx[j].by] = did[tx[j].by] /\ pc'[tx[j].by] = pc[tx[j].by] /\ res'[tx[j].by] = res[tx[j].by]
    BY <1>0, <1>1, <1>3, DidFrame, Frame DEF Owned
  <2> QED
    BY <1>0, <2>1 DEF Pending
<1> QED
  BY <1>2, <1>3

\* The transaction that call c leaves to the server.
LEMMA PendingAbandoned ==
    ASSUME OutcomeInv, NEW c \in Calls, CallStep(c), NEW i \in Ids, req[c].id = i, Abandon(c),
           did' = did, pc'[c] = "crashed" \/ pc[c] \notin CommitPCs
    PROVE  Pending(i)'
<1>0. LifeInv /\ Held(c) /\ Pending(i) /\ Staged(c) /\ tx[i] \in Tx /\ tx \in [Ids -> Tx]
  BY DEF OutcomeInv, LifeInv, FenceInv, Typed, TypeOK
<1>1. CASE UNCHANGED tx
  <2>1. ~CommitSucceeds(c)
    <3>1. ASSUME CommitSucceeds(c) PROVE FALSE
      <4>1. tx'[i] = NoTx /\ tx[i].phase = "open"
        BY <1>0, <3>1 DEF CommitSucceeds, Install, Held, CommitPCs, HoldingPCs
      <4> QED
        BY <1>1, <4>1 DEF NoTx
    <3> QED
      BY <3>1
  <2> QED
    BY <1>1, <2>1, PendingSame
<1>2. CASE pc[c] \in HoldingPCs /\ ~UNCHANGED tx
  <2>1. PICK q \in {"orphan", "committing"} :
           /\ tx' = [tx EXCEPT ![i].phase = q]
           /\ q = "committing" => pc[c] \in CommitPCs
    BY <1>2 DEF Abandon, HoldingPCs
  <2>2. /\ tx'[i].phase = q /\ tx'[i].by = c /\ tx'[i].effect = tx[i].effect
        /\ tx[i].phase # "none" /\ tx[i].by = c
    BY <1>0, <1>2, <2>1 DEF Tx, Held
  <2> QED
    BY <1>0, <2>1, <2>2 DEF Pending
<1>3. CASE pc[c] \notin HoldingPCs /\ ~UNCHANGED tx
  <2>1. tx' = [tx EXCEPT ![i] = [Begun(c, i) EXCEPT !.phase = "orphan"]]
    BY <1>3 DEF Abandon
  <2>2. tx'[i].phase = "orphan" /\ tx'[i].effect = "none"
    BY <1>0, <2>1 DEF Begun, NoTx
  <2> QED
    BY <2>2 DEF Pending
<1> QED
  BY <1>1, <1>2, <1>3

\* What a step of call c does to its own report and to the transaction of its
\* islet.
LEMMA OwnOutcome ==
    ASSUME OutcomeInv, NEW c \in Calls, CallStep(c), NEW i \in Ids, req[c].id = i
    PROVE  Reported(c)' /\ Handed(c)' /\ Pending(i)'
<1>0. /\ LifeInv /\ Typed /\ TypeOK /\ Reported(c) /\ Handed(c) /\ Pending(i)
      /\ Staged(c) /\ Held(c) /\ Fresh(c) /\ Booked(i) /\ InWork(i) /\ Owned(i)
      /\ tx \in [Ids -> Tx] /\ tx[i] \in Tx /\ issued[i] \in Nat
      /\ pc \in [Calls -> PCs] /\ res \in [Calls -> Res] /\ req \in [Calls -> Req]
  BY DEF OutcomeInv, LifeInv, FenceInv, Typed, TypeOK, Req, Res
<1>1. /\ req'[c].id = i /\ req'[c].op = req[c].op
      /\ ~CommitSucceeds(c) => did' = did
  BY <1>0, SameId, SameOp, DidFrame
<1>2. tx'[i] = NoTx => Pending(i)'
  BY DEF Pending, NoTx
<1>3. ASSUME UNCHANGED <<res, did>>, tx'[i].phase = "open", tx'[i].by = c,
             req'[c].gen = req[c].gen,
             \/ pc[c] = "create" /\ pc'[c] = "commit" /\ tx'[i].effect = "lifecycle"
             \/ pc[c] = "cleanup" /\ pc'[c] = "commit" /\ tx'[i].effect = "lifecycle"
             \/ pc[c] = "lock" /\ pc'[c] = "locked" /\ tx'[i].effect = "none"
             \/ pc[c] = "locked" /\ pc'[c] = "cleanup" /\ tx'[i].effect = "none"
             \/ pc[c] = "enter" /\ pc'[c] = "check" /\ tx'[i].effect = "none"
             \/ pc[c] = "check" /\ pc'[c] = "run" /\ tx'[i].effect = "none"
             \/ pc[c] = "run" /\ pc'[c] = "run" /\ tx'[i].effect = "none"
             \/ pc[c] = "run" /\ pc'[c] = "commitBatch" /\ tx'[i].effect = "batch"
      PROVE  Reported(c)' /\ Handed(c)' /\ Pending(i)'
  <2>1. Reported(c)'
    BY <1>0, <1>1, <1>3 DEF Reported, Firsts, RuntimePCs, InitPCs
  <2>2. Handed(c)'
    BY <1>0, <1>1, <1>3 DEF Handed, CreateOps, CleanupOps, Staged
  <2>3. Pending(i)'
    BY <1>0, <1>3 DEF Pending, Reported, Firsts, RuntimePCs
  <2> QED
    BY <2>1, <2>2, <2>3
<1>4. CASE CreateRow(c)
  <2>1. /\ pc[c] = "create" /\ pc'[c] = "commit" /\ UNCHANGED <<res, did, req>>
        /\ tx'[i] = [Begun(c, i) EXCEPT !.effect = "lifecycle", !.ws = Prepared(c, 1)]
    BY <1>0, <1>4 DEF CreateRow, Goto, dbVars
  <2>2. tx'[i].phase = "open" /\ tx'[i].by = c /\ tx'[i].effect = "lifecycle"
    BY <2>1 DEF Begun, NoTx
  <2> QED
    BY <1>3, <2>1, <2>2
<1>5. CASE LockMetadata(c)
  <2>1. UNCHANGED <<did, req>> /\ pc[c] = "lock"
    BY <1>5 DEF LockMetadata, dbVars
  <2>2. CASE \E e \in LockErrors(c) : Return(c, e, 0) /\ UNCHANGED tx
    <3>1. PICK e \in LockErrors(c) : Return(c, e, 0)
      BY <2>2
    <3>2. pc'[c] = "done" /\ res'[c].err = e /\ (e = {} => req[c].op = "Delete")
      BY <1>0, <3>1 DEF Return, Res, LockErrors
    <3>3. did'[c] = {}
      BY <1>0, <2>1 DEF Reported, Firsts
    <3>4. Reported(c)' /\ Handed(c)'
      BY <1>1, <3>2, <3>3 DEF Reported, Handed, Honest, Firsts, RuntimePCs, InitPCs
    <3> QED
      BY <1>5, <2>1, <2>2, <3>4, PendingSame DEF LockMetadata, CommitSucceeds, CommitPCs
  <2>3. CASE tx' = [tx EXCEPT ![i] = Begun(c, i)] /\ Goto(c, "locked") /\ UNCHANGED res
    <3>1. tx'[i].phase = "open" /\ tx'[i].by = c /\ tx'[i].effect = "none" /\ pc'[c] = "locked"
      BY <1>0, <2>3 DEF Begun, NoTx, Goto
    <3> QED
      BY <1>3, <2>1, <2>3, <3>1
  <2> QED
    BY <1>5, <2>2, <2>3 DEF LockMetadata
<1>6. CASE Refuse(c)
  <2>1. /\ did' = did /\ req' = req /\ tx'[i] = NoTx /\ pc[c] \in Firsts
        /\ Refusal(c, tx[i].ws) # {} /\ Fail(c, Refusal(c, tx[i].ws))
    BY <1>0, <1>6 DEF Refuse, dbVars, Firsts
  <2> QED
    BY <1>2, <2>1, ErrorTypes, FailsHonestly
<1>7. ASSUME pc[c] \in {"locked", "cleanup"}, Goto(c, "commit"), tx' = [tx EXCEPT ![i] = FailedWork(i)],
             NEW e \in SUBSET Kinds, e # {}, "Initialization" \notin e,
             res' = [res EXCEPT ![c].err = e], UNCHANGED <<did, req>>
      PROVE  Reported(c)' /\ Handed(c)' /\ Pending(i)'
  <2>1. pc'[c] = "commit" /\ res'[c].err = e /\ did'[c] = {}
    BY <1>0, <1>7 DEF Goto, Res, Reported, Firsts
  <2>2. tx'[i].effect = "failed" /\ tx'[i].phase = "open" /\ tx'[i].by = c
    BY <1>0, <1>7 DEF FailedWork, Tx, Held, HoldingPCs
  <2>3. Reported(c)'
    BY <1>1, <1>7, <2>1, <2>2 DEF Reported, Firsts, RuntimePCs, InitPCs
  <2>4. Handed(c)'
    BY <1>0, <1>1, <1>7, <2>1 DEF Handed, Staged, CreateOps, CleanupOps
  <2>5. Pending(i)'
    BY <2>1, <2>2 DEF Pending
  <2> QED
    BY <2>3, <2>4, <2>5
<1>8. CASE CheckDependencies(c)
  <2>1. UNCHANGED <<did, req>> /\ pc[c] = "locked"
    BY <1>8 DEF CheckDependencies, dbVars
  <2>2. CASE Dependent(c)
    <3>1. /\ {"Lifecycle", "ExternalDependency"} \in SUBSET Kinds
          /\ "Initialization" \notin {"Lifecycle", "ExternalDependency"}
      BY DEF Kinds
    <3> QED
      BY <1>7, <1>8, <2>1, <2>2, <3>1 DEF CheckDependencies
  <2>3. CASE ~Dependent(c)
    <3>1. UNCHANGED <<res, tx>> /\ pc'[c] = "cleanup"
      BY <1>0, <1>8, <2>3 DEF CheckDependencies, Goto
    <3>2. tx[i].phase = "open" /\ tx[i].by = c /\ tx[i].effect = "none"
      BY <1>0, <2>1 DEF Held, HoldingPCs, Staged
    <3> QED
      BY <1>3, <2>1, <3>1, <3>2
  <2> QED
    BY <2>2, <2>3
<1>9. CASE CleanupFails(c)
  <2>1. {"Lifecycle"} \in SUBSET Kinds /\ "Initialization" \notin {"Lifecycle"}
    BY DEF Kinds
  <2> QED
    BY <1>7, <1>9, <2>1 DEF CleanupFails, dbVars
<1>10. CASE Cleanup(c)
  <2>1. /\ pc[c] = "cleanup" /\ pc'[c] = "commit" /\ UNCHANGED <<res, did, req>>
        /\ tx'[i] = [tx[i] EXCEPT !.effect = "lifecycle", !.cut = external \cap {i},
                                  !.ws = Cleaned(c, tx[i].ws)]
    BY <1>0, <1>10 DEF Cleanup, Goto, dbVars
  <2>2. tx'[i].phase = "open" /\ tx'[i].by = c /\ tx'[i].effect = "lifecycle"
    BY <1>0, <2>1 DEF Tx, Held, HoldingPCs
  <2> QED
    BY <1>3, <2>1, <2>2
<1>11. CASE CommitRejected(c)
  <2>1. /\ did' = did /\ req' = req /\ tx'[i] = NoTx /\ pc[c] \in {"commit"} \cup RuntimePCs
    BY <1>0, <1>11 DEF CommitRejected, dbVars, CommitPCs, RuntimePCs
  <2>2. PICK f \in Faults : \E g : FailWith(c, {f}, g)
    BY <1>11 DEF CommitRejected, CommitError
  <2> QED
    BY <1>2, <2>1, <2>2, ErrorTypes, FailsHonestly
<1>12. CASE CommitLost(c)
  <2>1. /\ did' = did /\ req' = req /\ pc[c] \in {"commit"} \cup RuntimePCs /\ pc[c] \in HoldingPCs
        /\ tx'[i] = [tx[i] EXCEPT !.phase = "committing"]
    BY <1>0, <1>12 DEF CommitLost, dbVars, CommitPCs, RuntimePCs, HoldingPCs
  <2>2. PICK g : FailWith(c, {"OutcomeUnknown"}, g)
    BY <1>12 DEF CommitLost, CommitError, UnansweredCommit
  <2>3. {"OutcomeUnknown"} \in SUBSET Kinds
    BY DEF Kinds
  <2>4. /\ Reported(c)' /\ Handed(c)' /\ {"OutcomeUnknown"} \subseteq res'[c].err
    BY <2>1, <2>2, <2>3, FailsHonestly
  <2>5. /\ tx'[i].phase = "committing" /\ tx'[i].by = c /\ tx'[i].effect = tx[i].effect
        /\ tx[i].phase = "open" /\ tx[i].by = c
    BY <1>0, <2>1 DEF Tx, Held
  <2>6. Pending(i)'
    BY <1>0, <2>1, <2>4, <2>5 DEF Pending
  <2> QED
    BY <2>4, <2>6
<1>13. CASE CommitSucceeds(c)
  <2>1. /\ pc[c] \in CommitPCs /\ Install(i) /\ tx'[i] = NoTx
        /\ did'[c] = did[c] \cup {tx[i].effect}
    BY <1>0, <1>13, DidFrame DEF CommitSucceeds, Install
  <2>2. /\ tx[i].phase = "open" /\ tx[i].by = c /\ FencedCommit(i)
    BY <1>0, <2>1 DEF Held, CommitPCs, HoldingPCs
  <2>3. ASSUME tx[i].effect = "lifecycle"
        PROVE  pc[c] = "commit" /\ did'[c] = {"lifecycle"} /\ res[c].err = {}
    BY <1>0, <2>1, <2>3 DEF Staged, Reported, CommitPCs
  <2>4. ASSUME tx[i].effect = "batch"
        PROVE  pc[c] = "commitBatch" /\ "batch" \in did'[c] /\ res[c].err = {}
    BY <1>0, <2>1, <2>4 DEF Staged, Reported, CommitPCs, RuntimePCs
  <2>5. CASE tx[i].effect = "lifecycle" /\ req[c].op \in InitOps /\ Goto(c, "lookup") /\ res' = res
    <3>1. pc'[c] = "lookup" /\ res'[c].err = {} /\ did'[c] = {"lifecycle"} /\ req[c].op # "Batch"
      BY <1>0, <2>3, <2>5 DEF Goto, InitOps
    <3>2. Reported(c)'
      BY <1>1, <3>1 DEF Reported, Firsts, RuntimePCs, InitPCs
    <3>3. Handed(c)'
      BY <3>1 DEF Handed
    <3> QED
      BY <1>2, <2>1, <3>2, <3>3
  <2>6. CASE tx[i].effect = "lifecycle" /\ req[c].op \notin InitOps
             /\ Return(c, {}, tx[i].ws.gen) /\ req' = req
    <3>1. pc'[c] = "done" /\ res'[c].err = {} /\ res'[c].ret = tx[i].ws.gen
      BY <1>0, <2>6 DEF Return
    <3>2. did'[c] = {"lifecycle"} /\ req[c].op \in CreateOps \cup CleanupOps /\ pc[c] = "commit"
      BY <1>0, <2>3, <2>6 DEF Staged
    <3>3. Reported(c)'
      <4>1. Promised(req[c].op) = {"lifecycle"}
        BY <2>6, <3>2 DEF Promised, CreateOps, CleanupOps
      <4>2. Honest(c)'
        BY <2>6, <3>1, <3>2, <4>1 DEF Honest, Promised
      <4> QED
        BY <3>1, <4>2 DEF Reported, Firsts, RuntimePCs, InitPCs
    <3>4. Handed(c)'
      <4>1. CASE req[c].op = "Delete"
        BY <2>6, <3>1, <4>1 DEF Handed
      <4>2. CASE req[c].op # "Delete"
        <5>1. /\ tx[i].ws = Prepared(c, issued[i] + 1)
              /\ req[c].op \in CreateOps => issued[i] = 0
              /\ req[c].op \notin CreateOps => Exists(i)
          BY <1>0, <2>2, <2>6, <4>2 DEF InWork, Replaces
        <5>2. tx[i].ws.gen = issued[i] + 1
          BY <5>1 DEF Prepared
        <5>3. issued'[i] = issued[i] + 1
          BY <1>0, <2>1, <5>2 DEF Install, TypeOK
        <5>4. CASE req[c].op \in CreateOps
          <6>1. req[c].gen = 1 /\ issued[i] = 0
            BY <1>0, <3>2, <5>1, <5>4 DEF Handed
          <6>2. Own(c)' = 1
            BY <2>6, <5>4, <6>1 DEF Own, CreateOps
          <6> QED
            BY <1>1, <3>1, <5>2, <5>3, <6>1, <6>2 DEF Handed
        <5>5. CASE req[c].op \notin CreateOps
          <6>1. req[c].gen = issued[i]
            BY <1>0, <2>2, <5>1, <5>5 DEF FencedCommit, Booked
          <6>2. Own(c)' <= issued[i] + 1
            BY <1>0, <2>6, <6>1 DEF Own
          <6> QED
            BY <1>0, <1>1, <3>1, <5>2, <5>3, <6>2 DEF Handed
        <5> QED
          BY <5>4, <5>5
      <4> QED
        BY <4>1, <4>2
    <3> QED
      BY <1>2, <2>1, <3>3, <3>4
  <2>7. CASE tx[i].effect = "failed" /\ Return(c, res[c].err, 0) /\ req' = req
    <3>1. pc'[c] = "done" /\ res'[c].err = res[c].err
      BY <1>0, <2>7 DEF Return
    <3>2. /\ did'[c] = {"failed"} /\ res[c].err # {} /\ "Initialization" \notin res[c].err
      BY <1>0, <2>1, <2>7 DEF Staged, Reported, CommitPCs
    <3>3. Reported(c)' /\ Handed(c)'
      BY <3>1, <3>2 DEF Reported, Handed, Honest, Firsts, RuntimePCs, InitPCs
    <3> QED
      BY <1>2, <2>1, <3>3
  <2>8. CASE tx[i].effect = "batch" /\ req[c].op \in InitOps /\ Goto(c, "reopen") /\ res' = res
    <3>1. pc'[c] = "reopen" /\ res'[c].err = {} /\ "batch" \in did'[c]
      BY <1>0, <2>4, <2>8 DEF Goto
    <3>2. "lifecycle" \in did'[c]
      BY <1>0, <2>1, <2>4, <2>8 DEF Reported, RuntimePCs
    <3>3. Reported(c)' /\ Handed(c)'
      BY <3>1, <3>2 DEF Reported, Handed, Firsts, RuntimePCs, InitPCs
    <3> QED
      BY <1>2, <2>1, <3>3
  <2>9. CASE tx[i].effect = "batch" /\ req[c].op \notin InitOps /\ Return(c, {}, 0) /\ req' = req
    <3>1. pc'[c] = "done" /\ res'[c].err = {} /\ "batch" \in did'[c] /\ pc[c] = "commitBatch"
      BY <1>0, <2>4, <2>9 DEF Return
    <3>2. req[c].op = "Batch"
      BY <1>0, <2>9, <3>1 DEF Staged, RuntimePCs
    <3>3. Promised(req[c].op) = {"batch"}
      BY <3>2 DEF Promised
    <3>4. Reported(c)' /\ Handed(c)'
      BY <2>9, <3>1, <3>2, <3>3 DEF Reported, Handed, Honest, Promised, Firsts, RuntimePCs, InitPCs
    <3> QED
      BY <1>2, <2>1, <3>4
  <2> QED
    BY <1>13, <2>5, <2>6, <2>7, <2>8, <2>9 DEF CommitSucceeds
<1>14. ASSUME pc[c] \in RuntimePCs, pc'[c] \in {"connect", "enter"}, UNCHANGED <<res, did, tx>>
       PROVE  Reported(c)' /\ Handed(c)' /\ Pending(i)'
  <2>1. ~CommitSucceeds(c)
    BY <1>0, <1>14 DEF CommitSucceeds, Goto, Return
  <2>2. Reported(c)' /\ Handed(c)'
    BY <1>0, <1>1, <1>14 DEF Reported, Handed, Firsts, RuntimePCs, InitPCs
  <2> QED
    BY <1>14, <2>1, <2>2, PendingSame
<1>15. ASSUME pc[c] \in {"lookup", "connect", "enter"}, UNCHANGED <<req, tx, did>>,
              NEW e \in SUBSET Kinds, e # {}, Fail(c, e)
       PROVE  Reported(c)' /\ Handed(c)' /\ Pending(i)'
  <2>1. ~CommitSucceeds(c)
    BY <1>15 DEF CommitSucceeds, CommitPCs
  <2>2. Reported(c)' /\ Handed(c)'
    BY <1>15, FailsHonestly DEF RuntimePCs
  <2> QED
    BY <1>15, <2>1, <2>2, PendingSame
<1>16. CASE Lookup(c)
  <2>1. UNCHANGED <<tx, did>> /\ pc[c] = "lookup"
    BY <1>16 DEF Lookup, dbVars
  <2>2. CASE req' = req /\ (Fail(c, {"NotFound"}) \/ Fail(c, {"StaleGeneration"}))
    <3>1. {"NotFound"} \in SUBSET Kinds /\ {"StaleGeneration"} \in SUBSET Kinds
      BY DEF Kinds
    <3> QED
      BY <1>15, <2>1, <2>2, <3>1
  <2>3. CASE Goto(c, "connect") /\ res' = res
    <3>1. pc'[c] = "connect"
      BY <1>0, <2>3 DEF Goto
    <3> QED
      BY <1>14, <2>1, <2>3, <3>1 DEF RuntimePCs
  <2> QED
    BY <1>16, <2>2, <2>3 DEF Lookup
<1>17. CASE ConnectRuntime(c)
  <2>1. UNCHANGED <<tx, did, req>> /\ pc[c] = "connect"
    BY <1>17 DEF ConnectRuntime, dbVars
  <2>2. CASE Fail(c, {"RuntimeConnection", "Query"})
    <3>1. {"RuntimeConnection", "Query"} \in SUBSET Kinds
      BY DEF Kinds
    <3> QED
      BY <1>15, <2>1, <2>2, <3>1
  <2>3. CASE Goto(c, "enter") /\ res' = res
    <3>1. pc'[c] = "enter"
      BY <1>0, <2>3 DEF Goto
    <3> QED
      BY <1>14, <2>1, <2>3, <3>1 DEF RuntimePCs
  <2> QED
    BY <1>17, <2>2, <2>3 DEF ConnectRuntime
<1>18. CASE Enter(c)
  <2>1. UNCHANGED <<did, req>> /\ pc[c] = "enter"
    BY <1>18 DEF Enter, dbVars
  <2>2. CASE \E e \in EnterErrors(c) : Fail(c, e) /\ UNCHANGED tx
    BY <1>15, <2>1, <2>2, ErrorTypes, Reasons
  <2>3. CASE tx' = [tx EXCEPT ![i] = Begun(c, i)] /\ Goto(c, "check") /\ UNCHANGED res
    <3>1. tx'[i].phase = "open" /\ tx'[i].by = c /\ tx'[i].effect = "none" /\ pc'[c] = "check"
      BY <1>0, <2>3 DEF Begun, NoTx, Goto
    <3> QED
      BY <1>3, <2>1, <2>3, <3>1
  <2> QED
    BY <1>18, <2>2, <2>3 DEF Enter
<1>19. CASE CheckBatch(c)
  <2>1. UNCHANGED <<did, req>> /\ pc[c] = "check"
    BY <1>19 DEF CheckBatch, dbVars
  <2>2. CASE Dependent(c)
    <3>1. Fail(c, {"ExternalDependency"}) /\ tx'[i] = NoTx
      BY <1>0, <1>19, <2>2 DEF CheckBatch
    <3>2. {"ExternalDependency"} \in SUBSET Kinds
      BY DEF Kinds
    <3> QED
      BY <1>2, <2>1, <3>1, <3>2, FailsHonestly DEF RuntimePCs
  <2>3. CASE ~Dependent(c)
    <3>1. UNCHANGED <<res, tx>> /\ pc'[c] = "run"
      BY <1>0, <1>19, <2>3 DEF CheckBatch, Goto
    <3>2. tx[i].phase = "open" /\ tx[i].by = c /\ tx[i].effect = "none"
      BY <1>0, <2>1 DEF Held, HoldingPCs, Staged
    <3> QED
      BY <1>3, <2>1, <3>1, <3>2
  <2> QED
    BY <2>2, <2>3
<1>20. CASE Finish(c)
  <2>1. /\ pc[c] = "run" /\ pc'[c] = "commitBatch" /\ UNCHANGED <<res, did, req>>
        /\ tx'[i] = [tx[i] EXCEPT !.effect = "batch", !.ws = Finished(c, tx[i].ws)]
    BY <1>0, <1>20 DEF Finish, Goto, dbVars
  <2>2. tx'[i].phase = "open" /\ tx'[i].by = c /\ tx'[i].effect = "batch"
    BY <1>0, <2>1 DEF Tx, Held, HoldingPCs
  <2> QED
    BY <1>3, <2>1, <2>2
<1>21. CASE Statement(c)
  <2>1. /\ pc[c] = "run" /\ pc' = pc /\ UNCHANGED <<res, did, req>>
        /\ tx[i].phase = "open" /\ tx[i].by = c /\ tx[i].effect = "none"
    BY <1>0, <1>21 DEF Statement, dbVars, Held, HoldingPCs, Staged
  <2>2. PICK data :
          tx' = [tx EXCEPT ![i].ws.data = data,
                           ![i].cut = IF db[i].data \subseteq data THEN @
                                      ELSE @ \cup (external \cap {i})]
    BY <1>21 DEF Statement
  <2>3. PICK s : tx'[i] = [tx[i] EXCEPT !.ws = [tx[i].ws EXCEPT !.data = data], !.cut = s]
    BY <1>0, <2>2
  <2>4. tx'[i].phase = "open" /\ tx'[i].by = c /\ tx'[i].effect = "none"
    BY <1>0, <2>1, <2>3 DEF Tx
  <2> QED
    BY <1>3, <2>1, <2>4
<1>22. CASE MarkFailed(c) \/ MarkFails(c)
  <2>1. pc[c] = "mark" /\ pc'[c] = "reopenFailed" /\ UNCHANGED <<res, did, tx, req>>
    BY <1>0, <1>22 DEF MarkFailed, MarkFails, Goto, dbVars
  <2>2. Reported(c)' /\ Handed(c)'
    BY <1>0, <2>1 DEF Reported, Handed, Firsts, RuntimePCs, InitPCs
  <2> QED
    BY <2>1, <2>2, PendingSame DEF CommitSucceeds, CommitPCs
<1>23. CASE LateMark(c) \/ LateMarkLapses(c)
  <2>1. UNCHANGED <<pc, req, res, did, tx, issued>> /\ c \in late
    BY <1>23 DEF LateMark, LateMarkLapses, dbVars
  <2>2. pc[c] \in {"reopenFailed", "done", "crashed"}
    BY <1>0, <2>1 DEF Staged
  <2>3. Reported(c)'
    BY <1>0, <2>1 DEF Reported, Honest
  <2>4. Handed(c)'
    BY <1>0, <2>1 DEF Handed, Own
  <2> QED
    BY <2>1, <2>2, <2>3, <2>4, PendingSame DEF CommitSucceeds, CommitPCs
<1>24. CASE Reopen(c)
  <2>1. UNCHANGED <<did, tx, req, db, issued>> /\ pc[c] \in {"reopen", "reopenFailed"}
    BY <1>24 DEF Reopen, dbVars
  <2>2. PICK e \in SUBSET (Kinds \ {"Initialization"}) :
           /\ pc'[c] = "done" /\ res'[c].err = res[c].err \cup e
           /\ e = {} => Exists(i) /\ res'[c].ret = db[i].gen
    <3>1. {"NotFound"} \in SUBSET (Kinds \ {"Initialization"})
      BY DEF Kinds
    <3>2. \A f \in Faults : {f} \in SUBSET (Kinds \ {"Initialization"})
      BY FaultsAssumption DEF Kinds
    <3>3. CASE Exists(i) /\ Return(c, res[c].err, db[i].gen)
      <4>1. pc'[c] = "done" /\ res'[c].err = res[c].err \cup {} /\ res'[c].ret = db[i].gen
        BY <1>0, <3>3 DEF Return
      <4>2. {} \in SUBSET (Kinds \ {"Initialization"})
        OBVIOUS
      <4> QED
        BY <3>3, <4>1, <4>2
    <3>4. CASE Return(c, res[c].err \cup {"NotFound"}, req[c].gen)
      BY <1>0, <3>1, <3>4 DEF Return
    <3>5. ASSUME NEW f \in Faults, Return(c, res[c].err \cup {f}, req[c].gen)
          PROVE  pc'[c] = "done" /\ res'[c].err = res[c].err \cup {f}
      BY <1>0, <3>5 DEF Return
    <3> QED
      BY <1>24, <3>2, <3>3, <3>4, <3>5 DEF Reopen
  <2>3. req[c].op \in InitOps /\ Author(c)
    BY <1>0, <2>1 DEF Staged, InitPCs
  <2>4. Honest(c)'
    <3>1. Promised(req[c].op) = {"lifecycle", "batch"}
      BY <2>3 DEF Promised, InitOps
    <3>2. res'[c].err = {} => Promised(req[c].op) \subseteq did[c]
      BY <1>0, <2>1, <2>2, <2>3, <3>1 DEF Reported, InitPCs
    <3>3. "Initialization" \in res'[c].err => pc[c] = "reopenFailed"
      BY <1>0, <2>1, <2>2 DEF Reported
    <3>4. "Initialization" \in res'[c].err /\ "OutcomeUnknown" \notin res'[c].err
          => "batch" \notin did[c]
      BY <1>0, <2>2, <3>3 DEF Reported
    <3> QED
      BY <2>1, <2>3, <3>2, <3>4 DEF Honest, Promised
  <2>5. Reported(c)'
    BY <2>2, <2>4 DEF Reported, Firsts, RuntimePCs, InitPCs
  <2>6. Handed(c)'
    <3>1. SUFFICES ASSUME res'[c].err = {} PROVE Own(c)' <= res'[c].ret /\ res'[c].ret <= issued'[i]
      BY <1>1, <2>2 DEF Handed
    <3>2. res'[c].ret = db[i].gen /\ Exists(i)
      BY <2>2, <3>1
    <3>3. db[i].gen = issued[i] /\ req[c].gen <= issued[i]
      BY <1>0, <2>3, <3>2 DEF Booked, Author
    <3>4. Own(c)' = req[c].gen
      BY <2>1, <2>3 DEF Own, InitOps
    <3> QED
      BY <1>0, <2>1, <3>2, <3>3, <3>4
  <2> QED
    BY <2>1, <2>5, <2>6, PendingSame DEF CommitSucceeds, CommitPCs
<1>25. CASE StepFails(c)
  <2>1. UNCHANGED <<did, req>> /\ \E e \in StepErrors(c) : Fail(c, e)
    BY <1>25 DEF StepFails, dbVars
  <2>2. pc[c] \in Firsts \cup RuntimePCs /\ pc[c] \notin CommitPCs
    BY <2>1 DEF StepErrors, Firsts, RuntimePCs, CommitPCs
  <2>3. Reported(c)' /\ Handed(c)'
    BY <2>1, <2>2, ErrorTypes, Reasons, FailsHonestly
  <2>4. CASE Abandon(c)
    BY <2>1, <2>2, <2>3, <2>4, PendingAbandoned
  <2>5. CASE tx' = [tx EXCEPT ![i] = NoTx]
    BY <1>0, <1>2, <2>3, <2>5
  <2> QED
    BY <1>25, <2>4, <2>5 DEF StepFails
<1>26. CASE Crash(c)
  <2>1. did' = did /\ Abandon(c) /\ pc'[c] = "crashed"
    BY <1>0, <1>26 DEF Crash, dbVars, Goto
  <2>2. Reported(c)' /\ Handed(c)'
    BY <2>1 DEF Reported, Handed, Firsts, RuntimePCs, InitPCs
  <2> QED
    BY <2>1, <2>2, PendingAbandoned
<1> QED
  BY <1>4, <1>5, <1>6, <1>8, <1>9, <1>10, <1>11, <1>12, <1>13, <1>16, <1>17, <1>18, <1>19,
     <1>20, <1>21, <1>22, <1>23, <1>24, <1>25, <1>26 DEF CallStep, Step

(***************************************************************************)
(* Every step keeps the invariant                                          *)
(***************************************************************************)

\* Generations only grow.
LEMMA IssuedGrows ==
    ASSUME LifeInv, [Next]_vars
    PROVE  \A j \in Ids : issued'[j] \in Nat /\ issued[j] \in Nat /\ issued'[j] >= issued[j]
<1>0. /\ Typed /\ issued \in [Ids -> Nat] /\ tx \in [Ids -> Tx]
      /\ \A j \in Ids : tx[j].ws.gen \in Nat
  BY DEF LifeInv, FenceInv, Typed, TypeOK, Tx, Row
<1>1. ASSUME NEW i \in Ids, Install(i)
      PROVE  \A j \in Ids : issued'[j] \in Nat /\ issued'[j] >= issued[j]
  BY <1>0, <1>1 DEF Install
<1>2. ASSUME NEW c \in Calls, CommitSucceeds(c) PROVE Install(req[c].id) /\ req[c].id \in Ids
  BY <1>0, <1>2, ActorKnown DEF CommitSucceeds, Step
<1>3. CASE UNCHANGED issued
  BY <1>0, <1>3
<1>4. ASSUME NEW c \in Calls, CallStep(c), ~CommitSucceeds(c) PROVE UNCHANGED issued
  BY <1>4 DEF CallStep, Step, Statement, Crash, LateMark, LateMarkLapses, CreateRow,
       LockMetadata, Refuse, CheckDependencies, Cleanup, CleanupFails, CommitRejected,
       CommitLost, Lookup, ConnectRuntime, Enter, CheckBatch, Finish, MarkFailed, MarkFails,
       Reopen, StepFails, dbVars
<1>5. ASSUME NEW c \in Calls, Invoke(c) PROVE UNCHANGED issued
  BY <1>5 DEF Invoke, CallCreate, CallWith, CallTooLarge, dbVars
<1>6. ASSUME NEW i \in Ids, Server(i) PROVE Install(i) \/ UNCHANGED issued
  BY <1>6 DEF Server, OrphanAborts, OrphanCommits, dbVars
<1>7. ASSUME NEW i \in Ids, AdminDepend(i) \/ AdminRelease(i) PROVE UNCHANGED issued
  BY <1>7 DEF AdminDepend, AdminRelease
<1>8. UNCHANGED vars => UNCHANGED issued
  BY DEF vars
<1> QED
  BY <1>0, <1>1, <1>2, <1>3, <1>4, <1>5, <1>6, <1>7, <1>8 DEF Next, CallStep, Quiet

\* A call that takes no part in a step.
LEMMA OutcomeStays ==
    ASSUME OutcomeInv, [Next]_vars, NEW d \in Calls, pc'[d] = pc[d], req'[d] = req[d],
           res'[d] = res[d], did'[d] = did[d],
           pc[d] \in HoldingPCs => tx'[req[d].id] = tx[req[d].id]
    PROVE  Reported(d)' /\ Handed(d)'
<1>0. LifeInv /\ Reported(d) /\ Handed(d) /\ res[d].ret \in Nat
  BY DEF OutcomeInv, LifeInv, FenceInv, Typed, TypeOK
<1>1. Reported(d)'
  BY <1>0 DEF Reported, Honest, HoldingPCs
<1>2. Own(d)' = Own(d)
  BY DEF Own
<1>3. Handed(d)'
  BY <1>0, <1>2, IssuedGrows DEF Handed
<1> QED
  BY <1>1, <1>3

\* A step of a call keeps the invariant.
LEMMA CallStepOutcome ==
    ASSUME OutcomeInv, NEW c \in Calls, CallStep(c)
    PROVE  OutcomeInv'
<1>0. /\ LifeInv /\ FenceInv /\ Typed /\ req[c].id \in Ids /\ [Next]_vars
      /\ \A j \in Ids : Owned(j)
      /\ \A d \in Calls : Held(d)
  BY ActorKnown DEF OutcomeInv, LifeInv, FenceInv, CallStep, Next
<1>1. PICK i \in Ids : req[c].id = i
  BY <1>0
<1>2. LifeInv'
  BY <1>0, CallStepLife
<1>3. Reported(c)' /\ Handed(c)' /\ Pending(i)'
  BY <1>1, OwnOutcome
<1>4. ASSUME NEW j \in Ids \ {i} PROVE Pending(j)'
  BY <1>0, <1>1, Frame, PendingSame
<1>5. ASSUME NEW d \in Calls \ {c} PROVE Reported(d)' /\ Handed(d)'
  <2>1. pc'[d] = pc[d] /\ req'[d] = req[d] /\ res'[d] = res[d] /\ did'[d] = did[d]
    BY <1>0, Frame, DidFrame
  <2>2. ASSUME pc[d] \in HoldingPCs PROVE tx'[req[d].id] = tx[req[d].id]
    <3>1. req[d].id \in Ids /\ tx[req[d].id].phase = "open" /\ tx[req[d].id].by = d
      BY <1>0, <2>2 DEF Held, Typed, KnownIds, Running, HoldingPCs, PCs, LifecyclePCs, RuntimePCs
    <3>2. CASE req[d].id = i
      BY <1>0, <1>1, <3>1, <3>2, NoInterference DEF Mine
    <3>3. CASE req[d].id # i
      BY <1>0, <1>1, <3>1, <3>3, Frame
    <3> QED
      BY <3>2, <3>3
  <2> QED
    BY <1>0, <2>1, <2>2, OutcomeStays
<1> QED
  BY <1>1, <1>2, <1>3, <1>4, <1>5 DEF OutcomeInv

\* Every step keeps the invariant.
LEMMA NextOutcome == OutcomeInv /\ [Next]_vars => OutcomeInv'
<1> SUFFICES ASSUME OutcomeInv, [Next]_vars PROVE OutcomeInv'
  OBVIOUS
<1>0. /\ LifeInv /\ LifeInv' /\ Typed /\ pc \in [Calls -> PCs] /\ req \in [Calls -> Req]
      /\ res \in [Calls -> Res] /\ tx \in [Ids -> Tx]
      /\ did \in [Calls -> SUBSET (Effects \cup {"none"})]
      /\ \A j \in Ids : Owned(j) /\ InWork(j) /\ Pending(j)
      /\ \A d \in Calls : Held(d) /\ Reported(d) /\ Handed(d)
  BY NextLife DEF OutcomeInv, LifeInv, FenceInv, Typed, TypeOK, Req, Res
<1>1. ASSUME NEW c \in Calls, CallStep(c) PROVE OutcomeInv'
  BY <1>1, CallStepOutcome
<1>2. ASSUME NEW c \in Calls, Invoke(c) PROVE OutcomeInv'
  <2>1. PICK op \in Ops : \/ \E i \in Ids : CallCreate(c, op, i)
                          \/ \E i \in Ids : \E g \in Handles(i) : CallWith(c, op, i, g)
                          \/ CallTooLarge(c, op)
    BY <1>2 DEF Invoke
  <2>2. /\ pc[c] = "idle" /\ UNCHANGED <<tx, did>>
        /\ \A d \in Calls \ {c} : pc'[d] = pc[d] /\ req'[d] = req[d] /\ res'[d] = res[d]
    BY <1>0, <2>1 DEF CallCreate, CallWith, CallTooLarge, Goto, Return, dbVars
  <2>3. ASSUME NEW j \in Ids PROVE Pending(j)'
    <3>1. tx[j].phase # "none" => tx[j].by \in Calls \ {c}
      BY <1>0, <2>2 DEF Owned, HoldingPCs, Over
    <3> QED
      BY <1>0, <2>2, <3>1 DEF Pending
  <2>4. did[c] = {} /\ res[c].err = {}
    BY <1>0, <2>2 DEF Reported, Firsts
  <2>5. Reported(c)' /\ Handed(c)'
    <3>1. ASSUME NEW i \in Ids, CallCreate(c, op, i) PROVE Reported(c)' /\ Handed(c)'
      <4>1. /\ pc'[c] = "create" /\ res' = res
            /\ req'[c] = [op |-> op, id |-> i, gen |-> 1, tok |-> Nobody]
        BY <1>0, <3>1 DEF CallCreate, Goto
      <4> QED
        BY <2>2, <2>4, <4>1 DEF Reported, Handed, Firsts, RuntimePCs, InitPCs
    <3>2. ASSUME NEW i \in Ids, NEW g \in Handles(i), CallWith(c, op, i, g)
          PROVE  Reported(c)' /\ Handed(c)'
      <4>1. /\ res' = res /\ pc'[c] = IF op = "Batch" THEN "lookup" ELSE "lock"
            /\ req'[c] = [op |-> op, id |-> i, gen |-> g, tok |-> Nobody]
        BY <1>0, <3>2 DEF CallWith, Goto
      <4> QED
        BY <2>2, <2>4, <4>1 DEF Reported, Handed, Firsts, RuntimePCs, InitPCs, InitOps
    <3>3. CASE CallTooLarge(c, op)
      <4>1. pc'[c] = "done" /\ res'[c].err = {"SQLTooLarge"}
        BY <1>0, <3>3 DEF CallTooLarge, Return
      <4> QED
        BY <2>2, <2>4, <4>1 DEF Reported, Handed, Honest, Firsts, RuntimePCs, InitPCs
    <3> QED
      BY <2>1, <3>1, <3>2, <3>3
  <2>6. ASSUME NEW d \in Calls \ {c} PROVE Reported(d)' /\ Handed(d)'
    BY <2>2, OutcomeStays
  <2> QED
    BY <1>0, <2>3, <2>5, <2>6 DEF OutcomeInv
<1>3. ASSUME NEW i \in Ids, Server(i) PROVE OutcomeInv'
  <2>1. /\ tx[i].phase \in {"orphan", "committing"} /\ UNCHANGED <<pc, req, res, late>>
        /\ tx'[i] = NoTx /\ \A j \in Ids \ {i} : tx'[j] = tx[j]
    BY <1>0, <1>3 DEF Server, OrphanAborts, OrphanCommits, Abandoned, Install, dbVars
  <2>2. /\ tx[i].by \in Calls /\ req[tx[i].by].id = i /\ pc[tx[i].by] \in Over
    BY <1>0, <2>1 DEF Owned
  <2>3. \A d \in Calls \ {tx[i].by} : did'[d] = did[d]
    BY <1>0, <1>3, <2>2 DEF Server, OrphanAborts, OrphanCommits, Install, dbVars
  <2>4. ASSUME NEW j \in Ids PROVE Pending(j)'
    <3>1. CASE j = i
      BY <2>1, <3>1 DEF Pending, NoTx
    <3>2. CASE j # i
      <4>1. tx[j].phase # "none" => tx[j].by \in Calls \ {tx[i].by}
        BY <1>0, <2>2, <3>2 DEF Owned
      <4> QED
        BY <1>0, <2>1, <2>3, <3>2, <4>1 DEF Pending
    <3> QED
      BY <3>1, <3>2
  <2>5. ASSUME NEW d \in Calls PROVE Reported(d)' /\ Handed(d)'
    <3>1. pc[d] \in HoldingPCs => tx'[req[d].id] = tx[req[d].id]
      BY <1>0, <2>1 DEF Held, Typed, KnownIds, Running, HoldingPCs, PCs, LifecyclePCs, RuntimePCs
    <3>2. CASE did'[d] = did[d]
      BY <2>1, <3>1, <3>2, OutcomeStays
    <3>3. CASE did'[d] # did[d]
      <4>1. /\ d = tx[i].by /\ tx[i].phase = "committing"
            /\ did'[d] = did[d] \cup {tx[i].effect}
        BY <1>0, <1>3, <2>2, <2>3, <3>3 DEF Server, OrphanAborts, OrphanCommits, Install, dbVars
      <4>2. pc[d] # "crashed" => "OutcomeUnknown" \in res[d].err
        BY <1>0, <4>1 DEF Pending
      <4>3. Reported(d)'
        BY <1>0, <2>1, <2>2, <4>1, <4>2 DEF Reported, Honest, Over, Firsts, RuntimePCs, InitPCs
      <4>4. Handed(d)'
        BY <1>0, <2>1, <2>2, <4>1, <4>2 DEF Handed, Over
      <4> QED
        BY <4>3, <4>4
    <3> QED
      BY <3>2, <3>3
  <2> QED
    BY <1>0, <2>4, <2>5 DEF OutcomeInv
<1>4. CASE UNCHANGED <<tx, pc, req, res, did>>
  <2>1. ASSUME NEW j \in Ids PROVE Pending(j)'
    BY <1>0, <1>4 DEF Pending
  <2>2. ASSUME NEW d \in Calls PROVE Reported(d)' /\ Handed(d)'
    BY <1>4, OutcomeStays
  <2> QED
    BY <1>0, <2>1, <2>2 DEF OutcomeInv
<1> QED
  BY <1>1, <1>2, <1>3, <1>4 DEF Next, CallStep, Quiet, AdminDepend, AdminRelease, vars

\* The initial states satisfy the invariant.
LEMMA InitOutcome == Init => OutcomeInv
<1> SUFFICES ASSUME Init PROVE OutcomeInv
  OBVIOUS
<1>1. LifeInv
  BY InitLife
<1>2. \A i \in Ids : Pending(i)
  BY DEF Init, Pending, NoTx
<1>3. \A c \in Calls : Reported(c) /\ Handed(c)
  BY DEF Init, Reported, Handed, Firsts, RuntimePCs, InitPCs
<1> QED
  BY <1>1, <1>2, <1>3 DEF OutcomeInv

\* The inductive invariant holds in every reachable state.
LEMMA OutcomeInvariant == Spec => []OutcomeInv
  BY InitOutcome, NextOutcome, PTL DEF Spec

(***************************************************************************)
(* Outcomes and handles                                                    *)
(***************************************************************************)

\* What call c has left at the server when it has returned: nothing, or a
\* COMMIT that was reported as unknown.
LEMMA LeftUnknown ==
    ASSUME OutcomeInv, NEW c \in Calls, pc[c] = "done", ~Settled(c)
    PROVE  "OutcomeUnknown" \in res[c].err
<1>1. PICK i \in Ids : tx[i].by = c /\ tx[i].phase # "orphan"
  BY DEF Settled
<1>2. Owned(i) /\ InWork(i) /\ Pending(i) /\ tx[i] \in Tx
  BY DEF OutcomeInv, LifeInv, FenceInv, Typed, TypeOK
<1>3. tx[i].phase # "none"
  BY <1>1, <1>2, NobodyAssumption DEF InWork, NoTx
<1>4. tx[i].phase # "open"
  BY <1>1, <1>2, <1>3 DEF Owned, HoldingPCs
<1>5. tx[i].phase = "committing"
  BY <1>1, <1>2, <1>3, <1>4 DEF Tx
<1> QED
  BY <1>1, <1>2, <1>5 DEF Pending

\* nil means that everything promised is committed, and an error without
\* ErrOutcomeUnknown that nothing is, nor will be.
THEOREM OutcomesAreHonest == Spec => []OutcomeHonest
<1>1. ASSUME OutcomeInv PROVE OutcomeHonest
  <2>1. ASSUME NEW c \in Calls, pc[c] = "done" PROVE Honest(c)
    BY <1>1, <2>1 DEF OutcomeInv, Reported
  <2>2. ASSUME NEW c \in Calls, pc[c] = "done", "OutcomeUnknown" \notin res[c].err
        PROVE  Settled(c)
    BY <1>1, <2>2, LeftUnknown
  <2> QED
    BY <2>1, <2>2 DEF OutcomeHonest, Honest
<1> QED
  BY <1>1, OutcomeInvariant, PTL

\* The handle of a nil call names a committed generation that is not older
\* than the one the call has made.
THEOREM HandlesAreFresh == Spec => []HandleFresh
<1>1. OutcomeInv => HandleFresh
  BY DEF OutcomeInv, Handed, Own, HandleFresh
<1> QED
  BY <1>1, OutcomeInvariant, PTL

\* An islet leaves "initializing" for "active", in the same generation, only by
\* the one commit of the batch of the call that drew its token.
THEOREM OnlySeedingActivates == Spec => ActiveOnlySeeded
<1> DEFINE A == \A i \in Ids :
                   db[i].state = "initializing" /\ db'[i].state = "active"
                   /\ db'[i].gen = db[i].gen
                   => "batch" \in did'[db[i].tok] \ did[db[i].tok]
<1>1. ASSUME OutcomeInv, [Next]_vars PROVE [A]_vars
  <2>0. /\ LifeInv /\ Typed /\ db \in [Ids -> Row] /\ tx \in [Ids -> Tx]
        /\ did \in [Calls -> SUBSET (Effects \cup {"none"})]
        /\ \A j \in Ids : Booked(j) /\ InWork(j) /\ Owned(j) /\ Pending(j)
    BY <1>1 DEF OutcomeInv, LifeInv, FenceInv, Typed, TypeOK
  <2>1. ASSUME NEW i \in Ids, Install(i), tx[i].phase # "none", tx[i].effect # "none"
        PROVE  A
    <3>1. db'[i] = tx[i].ws /\ \A j \in Ids \ {i} : db'[j] = db[j]
      BY <2>0, <2>1 DEF Install
    <3>2. SUFFICES ASSUME db[i].state = "initializing", db'[i].state = "active",
                          db'[i].gen = db[i].gen
                   PROVE  "batch" \in did'[db[i].tok] \ did[db[i].tok]
      BY <3>1
    <3>3. tx[i].effect # "lifecycle"
      <4>1. SUFFICES ASSUME tx[i].effect = "lifecycle" PROVE FALSE
        OBVIOUS
      <4>2. tx[i].ws = Absent \/ tx[i].ws = Prepared(tx[i].by, issued[i] + 1)
        BY <2>0, <2>1, <4>1 DEF InWork, Replaces
      <4>3. tx[i].ws.state = "absent" \/ tx[i].ws.gen = issued[i] + 1
        BY <4>2 DEF Absent, Prepared
      <4>4. db[i].gen = issued[i] /\ issued[i] \in Nat
        BY <2>0, <3>2 DEF Booked, Exists, LifeInv, FenceInv, Typed, TypeOK
      <4> QED
        BY <3>1, <3>2, <4>3, <4>4
    <3>4. tx[i].effect # "failed"
      BY <2>0, <2>1, <3>1, <3>2 DEF InWork, Row
    <3>5. tx[i].effect = "batch"
      BY <2>0, <2>1, <3>3, <3>4 DEF Tx, Effects
    <3>6. tx[i].by = db[i].tok /\ tx[i].by \in Calls /\ "batch" \notin did[tx[i].by]
      <4>1. Seated(tx[i].by, db[i])
        BY <2>0, <2>1, <3>5 DEF InWork
      <4>2. tx[i].by = db[i].tok
        BY <3>2, <4>1 DEF Seated
      <4>3. tx[i].by \in Calls
        BY <2>0, <2>1 DEF Owned
      <4>4. "batch" \notin did[tx[i].by]
        BY <2>0, <2>1, <3>5 DEF Pending
      <4> QED
        BY <4>2, <4>3, <4>4
    <3>7. did'[tx[i].by] = did[tx[i].by] \cup {"batch"}
      BY <2>0, <2>1, <3>5, <3>6 DEF Install
    <3> QED
      BY <3>6, <3>7
  <2>2. ASSUME NEW c \in Calls, CallStep(c) PROVE A
    <3>1. PICK i \in Ids : req[c].id = i
      BY <2>0, <2>2, ActorKnown DEF CallStep
    <3>2. \A j \in Ids \ {i} : db'[j] = db[j]
      BY <2>0, <2>2, <3>1, Frame
    <3>3. CASE db'[i] = db[i] \/ db'[i].state = "failed"
      BY <3>2, <3>3
    <3>4. CASE Install(i) /\ tx[i].phase # "none" /\ tx[i].effect # "none"
      BY <2>1, <3>4
    <3> HIDE DEF A
    <3> QED
      BY <2>0, <2>2, <3>1, <3>3, <3>4, RowChange
  <2>3. ASSUME NEW i \in Ids, OrphanCommits(i) PROVE A
    <3>1. Install(i) /\ tx[i].phase # "none" /\ tx[i].effect # "none"
      BY <2>0, <2>3 DEF OrphanCommits, InWork
    <3> QED
      BY <2>1, <3>1
  <2>4. CASE UNCHANGED db
    BY <2>4
  <2>5. ASSUME NEW c \in Calls, Invoke(c) PROVE UNCHANGED db
    BY <2>5 DEF Invoke, CallCreate, CallWith, CallTooLarge, dbVars
  <2>6. ASSUME NEW i \in Ids, OrphanAborts(i) \/ AdminDepend(i) \/ AdminRelease(i)
        PROVE  UNCHANGED db
    BY <2>6 DEF OrphanAborts, AdminDepend, AdminRelease, dbVars
  <2>7. UNCHANGED vars => UNCHANGED db
    BY DEF vars
  <2> HIDE DEF A
  <2> QED
    BY <1>1, <2>2, <2>3, <2>4, <2>5, <2>6, <2>7 DEF Next, CallStep, Server, Quiet
<1>2. Spec => [][A]_vars
  BY <1>1, OutcomeInvariant, PTL DEF Spec
<1> QED
  BY <1>2 DEF ActiveOnlySeeded

\* A user of the web example whose COMMIT may still be executed is told that
\* the outcome is unknown, whatever else has failed.
THEOREM DoubtIsReported == Spec => []DoubtReported
<1>1. ASSUME NEW err, "OutcomeUnknown" \in err PROVE Report(err) = "unknown"
  <2>1. /\ 1 \in DOMAIN Cases /\ DOMAIN Cases \subseteq Nat \ {0}
        /\ Cases[1] = <<{"OutcomeUnknown"}, "unknown">>
    BY DEF Cases, EarlyCases, TimeoutCase, LateCases
  <2> DEFINE hits == {k \in DOMAIN Cases : Cases[k][1] \cap err # {}}
  <2>2. 1 \in hits /\ \A k \in hits : k \in Nat /\ 1 <= k
    BY <1>1, <2>1
  <2>3. Min(hits) = 1
    BY <2>2 DEF Min
  <2> QED
    BY <1>1, <2>1, <2>2, <2>3 DEF Report
<1>2. ASSUME OutcomeInv PROVE DoubtReported
  BY <1>1, <1>2, LeftUnknown DEF DoubtReported
<1> QED
  BY <1>2, OutcomeInvariant, PTL

(***************************************************************************)
(* Delete.  A nil Delete may have found no row because the COMMIT of the   *)
(* creation was still on its way; that needs to know who can have made a   *)
(* handle, and that an islet has one creator.                              *)
(***************************************************************************)

\* Call d was made to create islet i.
Maker(d, i) == req[d].op \in CreateOps /\ req[d].id = i

\* Islet i was committed once, or the call to create it has returned.
Traced(i) == issued[i] > 0 \/ \E d \in Calls : Maker(d, i) /\ pc[d] = "done"

\* Where the request and the handle of call c come from.
Asked(c) ==
    /\ pc[c] = "idle" => req[c].id = Nobody
    /\ req[c].op = "none" => pc[c] = "idle"
    /\ res[c].ret # 0 => pc[c] = "done"
    /\ req[c].op = "Delete" => req[c].id \in Ids
    /\ req[c].op \in CleanupOps \cup {"Batch"} /\ req[c].id \in Ids => Traced(req[c].id)

\* An identifier is drawn once.
Sole == \A i \in Ids : \A c, d \in Calls : Maker(c, i) /\ Maker(d, i) => c = d

\* The creation of islet i was reported as unknown.
Doubted(i) ==
    \E d \in Calls : Maker(d, i) /\ pc[d] = "done" /\ "OutcomeUnknown" \in res[d].err

\* What holds after a nil Delete.
Removed(c) ==
    pc[c] = "done" /\ req[c].op = "Delete" /\ res[c].err = {} =>
        \/ Doubted(req[c].id)
        \/ ~Exists(req[c].id) /\ Traced(req[c].id)

DeleteInv ==
    /\ OutcomeInv
    /\ Sole
    /\ \A c \in Calls : Asked(c) /\ Removed(c)

\* What a step does to the requests and results of the calls.
LEMMA RequestsStay ==
    ASSUME LifeInv, [Next]_vars, NEW d \in Calls
    PROVE  /\ pc[d] = "done" => pc'[d] = "done" /\ res'[d] = res[d]
           /\ pc[d] # "idle" => /\ pc'[d] # "idle" /\ req'[d].op = req[d].op
                                /\ req'[d].id = req[d].id
           /\ res'[d].ret # res[d].ret => pc'[d] = "done"
<1>0. /\ Typed /\ pc \in [Calls -> PCs] /\ req \in [Calls -> Req] /\ res \in [Calls -> Res]
      /\ Staged(d)
  BY DEF LifeInv, FenceInv, Typed, TypeOK, Req, Res
<1>1. ASSUME NEW c \in Calls, Invoke(c)
      PROVE  /\ pc[c] = "idle" /\ (res'[c].ret # res[c].ret => pc'[c] = "done")
             /\ \A e \in Calls \ {c} : pc'[e] = pc[e] /\ req'[e] = req[e] /\ res'[e] = res[e]
  BY <1>0, <1>1 DEF Invoke, CallCreate, CallWith, CallTooLarge, Goto, Return
<1>2. ASSUME NEW c \in Calls, CallStep(c), c # d
      PROVE  pc'[d] = pc[d] /\ req'[d] = req[d] /\ res'[d] = res[d]
  BY <1>0, <1>2, Frame
<1>3. ASSUME CallStep(d)
      PROVE  /\ req'[d].op = req[d].op /\ req'[d].id = req[d].id
             /\ pc'[d] # "idle"
             /\ pc[d] = "done" => pc'[d] = "done" /\ res'[d] = res[d]
             /\ res'[d].ret # res[d].ret => pc'[d] = "done"
  <2>1. req'[d].op = req[d].op /\ req'[d].id = req[d].id
    BY <1>0, <1>3, SameOp, SameId
  <2>2. CASE LateMark(d) \/ LateMarkLapses(d)
    BY <1>0, <2>1, <2>2 DEF LateMark, LateMarkLapses, Staged
  <2>3. CASE StepFails(d)
    <3>1. pc[d] # "done" /\ \E e : Fail(d, e)
      BY <2>3 DEF StepFails, StepErrors
    <3> QED
      BY <1>0, <2>1, <3>1 DEF Fail, FailWith, Return, Res
  <2>4. CASE CreateRow(d) \/ LockMetadata(d) \/ Refuse(d) \/ CheckDependencies(d)
             \/ Cleanup(d) \/ CleanupFails(d)
    BY <1>0, <2>1, <2>4 DEF CreateRow, LockMetadata, Refuse, CheckDependencies, Cleanup,
          CleanupFails, Goto, Fail, FailWith, Return, Res
  <2>5. CASE CommitSucceeds(d) \/ CommitRejected(d) \/ CommitLost(d)
    BY <1>0, <2>1, <2>5 DEF CommitSucceeds, CommitRejected, CommitLost, CommitError, CommitPCs,
          Goto, FailWith, Return, Res
  <2>6. CASE Lookup(d) \/ ConnectRuntime(d) \/ Enter(d) \/ CheckBatch(d) \/ Finish(d) \/ Statement(d)
    BY <1>0, <2>1, <2>6 DEF Lookup, ConnectRuntime, Enter, CheckBatch, Finish, Statement,
          Goto, Fail, FailWith, Return, Res
  <2>7. CASE MarkFailed(d) \/ MarkFails(d) \/ Reopen(d) \/ Crash(d)
    BY <1>0, <2>1, <2>7 DEF MarkFailed, MarkFails, Reopen, Crash, Running, Goto, Return, Res
  <2> QED
    BY <1>3, <2>2, <2>3, <2>4, <2>5, <2>6, <2>7 DEF CallStep, Step
<1>4. CASE UNCHANGED <<pc, req, res>>
  BY <1>4
<1>5. ASSUME NEW i \in Ids, Server(i) \/ AdminDepend(i) \/ AdminRelease(i)
      PROVE  UNCHANGED <<pc, req, res>>
  BY <1>5 DEF Server, OrphanAborts, OrphanCommits, AdminDepend, AdminRelease
<1>6. UNCHANGED vars => UNCHANGED <<pc, req, res>>
  BY DEF vars
<1>7. ASSUME NEW c \in Calls, Invoke(c), c # d
      PROVE  pc'[d] = pc[d] /\ req'[d] = req[d] /\ res'[d] = res[d]
  BY <1>1, <1>7
<1>8. ASSUME Invoke(d)
      PROVE  pc[d] = "idle" /\ (res'[d].ret # res[d].ret => pc'[d] = "done")
  BY <1>1, <1>8
<1>9. \/ CallStep(d)
      \/ Invoke(d)
      \/ pc'[d] = pc[d] /\ req'[d] = req[d] /\ res'[d] = res[d]
  BY <1>2, <1>5, <1>6, <1>7 DEF Next, CallStep, Quiet
<1> QED
  BY <1>3, <1>8, <1>9

\* What is known of the creation of an islet stays known.
LEMMA TracesStay ==
    ASSUME OutcomeInv, [Next]_vars, NEW i \in Ids
    PROVE  (Traced(i) => Traced(i)') /\ (Doubted(i) => Doubted(i)')
<1>0. LifeInv
  BY DEF OutcomeInv
<1>1. issued[i] > 0 => issued'[i] > 0
  BY <1>0, IssuedGrows
<1>2. ASSUME NEW d \in Calls, Maker(d, i), pc[d] = "done"
      PROVE  Maker(d, i)' /\ pc'[d] = "done" /\ res'[d] = res[d]
  BY <1>0, <1>2, RequestsStay DEF Maker
<1> QED
  BY <1>1, <1>2 DEF Traced, Doubted

\* An islet that does not exist comes into being only by the COMMIT of the call
\* made to create it.
LEMMA Birth ==
    ASSUME OutcomeInv, [Next]_vars, NEW i \in Ids, ~Exists(i), Exists(i)'
    PROVE  /\ issued[i] = 0 /\ tx[i].by \in Calls /\ Maker(tx[i].by, i)
           /\ pc[tx[i].by] # "done" \/ "OutcomeUnknown" \in res[tx[i].by].err
<1>0. /\ LifeInv /\ Typed /\ Owned(i) /\ InWork(i) /\ Pending(i) /\ tx[i] \in Tx
      /\ db \in [Ids -> Row] /\ \A c \in Calls : Held(c)
  BY DEF OutcomeInv, LifeInv, FenceInv, Typed, TypeOK
<1>1. db'[i] # db[i]
  BY DEF Exists
<1>2. \/ \E c \in Calls : CommitSucceeds(c) /\ req[c].id = i
      \/ OrphanCommits(i)
  <2>1. ASSUME NEW c \in Calls, CallStep(c) PROVE CommitSucceeds(c) /\ req[c].id = i
    <3>1. req[c].id = i
      BY <1>0, <1>1, <2>1, Frame
    <3> QED
      BY <1>0, <1>1, <2>1, <3>1, RowChange DEF MarkMatches, Exists
  <2>2. ASSUME NEW c \in Calls, Invoke(c) PROVE UNCHANGED db
    BY <2>2 DEF Invoke, CallCreate, CallWith, CallTooLarge, dbVars
  <2>3. ASSUME NEW j \in Ids, OrphanAborts(j) \/ AdminDepend(j) \/ AdminRelease(j)
        PROVE  UNCHANGED db
    BY <2>3 DEF OrphanAborts, AdminDepend, AdminRelease, dbVars
  <2>4. ASSUME NEW j \in Ids, OrphanCommits(j) PROVE j = i
    BY <1>0, <1>1, <2>4 DEF OrphanCommits, Install
  <2>5. UNCHANGED vars => UNCHANGED db
    BY DEF vars
  <2> QED
    BY <1>1, <2>1, <2>2, <2>3, <2>4, <2>5 DEF Next, CallStep, Server, Quiet
<1>3. /\ tx[i].phase # "none"
      /\ pc[tx[i].by] # "done" \/ "OutcomeUnknown" \in res[tx[i].by].err
  <2>1. CASE OrphanCommits(i)
    BY <1>0, <2>1 DEF OrphanCommits, Pending
  <2>2. ASSUME NEW c \in Calls, CommitSucceeds(c), req[c].id = i
        PROVE  tx[i].phase # "none" /\ pc[tx[i].by] # "done"
    BY <1>0, <2>2 DEF CommitSucceeds, CommitPCs, HoldingPCs, Held
  <2> QED
    BY <1>2, <2>1, <2>2
<1>4. tx[i].effect = "lifecycle"
  BY <1>0, <1>3 DEF InWork
<1>5. Replaces(i)
  BY <1>0, <1>3, <1>4 DEF InWork
<1>6. req[tx[i].by].op \in CreateOps /\ issued[i] = 0
  BY <1>5 DEF Replaces, Exists
<1>7. tx[i].by \in Calls /\ req[tx[i].by].id = i
  BY <1>0, <1>3 DEF Owned
<1> QED
  BY <1>3, <1>6, <1>7 DEF Maker

\* A nil Delete keeps its promise.
LEMMA RemovedStays ==
    ASSUME DeleteInv, [Next]_vars, NEW c \in Calls, pc[c] = "done"
    PROVE  Removed(c)'
<1>0. OutcomeInv /\ LifeInv /\ Removed(c) /\ Asked(c) /\ Sole
  BY DEF DeleteInv, OutcomeInv
<1>1. pc'[c] = "done" /\ res'[c] = res[c] /\ req'[c].op = req[c].op /\ req'[c].id = req[c].id
  BY <1>0, RequestsStay
<1>2. SUFFICES ASSUME req[c].op = "Delete", res[c].err = {} PROVE Removed(c)'
  BY <1>1 DEF Removed
<1>3. PICK i \in Ids : req[c].id = i
  BY <1>0, <1>2 DEF Asked
<1>4. CASE Doubted(i)
  BY <1>0, <1>1, <1>3, <1>4, TracesStay DEF Removed
<1>5. CASE ~Exists(i) /\ Traced(i)
  <2>1. CASE ~Exists(i)'
    BY <1>0, <1>1, <1>3, <1>5, <2>1, TracesStay DEF Removed
  <2>2. CASE Exists(i)'
    <3>1. /\ issued[i] = 0 /\ tx[i].by \in Calls /\ Maker(tx[i].by, i)
          /\ pc[tx[i].by] # "done" \/ "OutcomeUnknown" \in res[tx[i].by].err
      BY <1>0, <1>5, <2>2, Birth
    <3>2. PICK d \in Calls : Maker(d, i) /\ pc[d] = "done"
      BY <1>5, <3>1 DEF Traced
    <3>3. d = tx[i].by
      BY <1>0, <3>1, <3>2 DEF Sole
    <3>4. Doubted(i)
      BY <3>1, <3>2, <3>3 DEF Doubted
    <3> QED
      BY <1>4, <3>4
  <2> QED
    BY <2>1, <2>2
<1> QED
  BY <1>0, <1>2, <1>3, <1>4, <1>5 DEF Removed

\* A Delete that returns nil has found no row or has removed it.
LEMMA RemovedNow ==
    ASSUME DeleteInv, NEW c \in Calls, CallStep(c), pc[c] # "done"
    PROVE  Removed(c)'
<1>0. /\ OutcomeInv /\ LifeInv /\ Typed /\ Asked(c) /\ Staged(c) /\ Held(c) /\ Fresh(c)
      /\ Reported(c) /\ pc \in [Calls -> PCs] /\ res \in [Calls -> Res] /\ [Next]_vars
  BY DEF DeleteInv, OutcomeInv, LifeInv, FenceInv, Typed, TypeOK, Res, Next, CallStep
<1>1. req'[c].op = req[c].op /\ req'[c].id = req[c].id
  BY <1>0, SameOp, SameId
<1>2. SUFFICES ASSUME pc'[c] = "done", req[c].op = "Delete", res'[c].err = {}
               PROVE  Removed(c)'
  BY <1>1 DEF Removed
<1>3. PICK i \in Ids : req[c].id = i
  BY <1>0, <1>2 DEF Asked
<1>4. Traced(i)'
  BY <1>0, <1>2, <1>3, TracesStay DEF Asked, CleanupOps
<1>5. /\ req[c].op \notin InitOps \cup {"Batch"} /\ req[c].op \notin CreateOps
      /\ pc[c] \notin RuntimePCs /\ pc[c] \notin InitPCs /\ pc[c] # "create" /\ c \notin late
  BY <1>0, <1>2 DEF Staged, Fresh, InitOps, CreateOps
<1>6. \A e, g : FailWith(c, e, g) \/ Fail(c, e) => e = {}
  BY <1>0, <1>2, <1>5 DEF FailWith, Fail, Return
<1>7. ~Refuse(c) /\ ~CommitRejected(c) /\ ~CommitLost(c) /\ ~StepFails(c)
  <2>1. ~Refuse(c)
    BY <1>6 DEF Refuse
  <2>2. ~CommitRejected(c)
    BY <1>6 DEF CommitRejected, CommitError
  <2>3. ~CommitLost(c)
    BY <1>6 DEF CommitLost, CommitError, UnansweredCommit
  <2>4. ~StepFails(c)
    BY <1>6, Reasons DEF StepFails
  <2> QED
    BY <2>1, <2>2, <2>3, <2>4
<1>8. LockMetadata(c) \/ CommitSucceeds(c)
  <2>1. ~(CheckDependencies(c) \/ Cleanup(c) \/ CleanupFails(c) \/ Crash(c))
    BY <1>0, <1>2 DEF CheckDependencies, Cleanup, CleanupFails, Crash, Goto
  <2>2. ~(LateMark(c) \/ LateMarkLapses(c) \/ CreateRow(c))
    BY <1>5 DEF LateMark, LateMarkLapses, CreateRow
  <2>3. ~(Lookup(c) \/ ConnectRuntime(c) \/ Enter(c) \/ CheckBatch(c) \/ Finish(c) \/ Statement(c))
    BY <1>5 DEF Lookup, ConnectRuntime, Enter, CheckBatch, Finish, Statement, RuntimePCs
  <2>4. ~(MarkFailed(c) \/ MarkFails(c) \/ Reopen(c))
    BY <1>5 DEF MarkFailed, MarkFails, Reopen, InitPCs
  <2> QED
    BY <1>7, <2>1, <2>2, <2>3, <2>4 DEF CallStep, Step
<1>9. CASE LockMetadata(c)
  <2>1. PICK e \in LockErrors(c) : Return(c, e, 0)
    BY <1>0, <1>2, <1>9 DEF LockMetadata, Goto
  <2>2. e = {} /\ db' = db
    BY <1>0, <1>2, <1>9, <2>1 DEF Return, LockMetadata, dbVars
  <2>3. ~Exists(i)
    BY <1>3, <2>1, <2>2 DEF LockErrors
  <2>4. ~Exists(i)'
    BY <2>2, <2>3 DEF Exists
  <2> QED
    BY <1>1, <1>3, <1>4, <2>4 DEF Removed
<1>10. CASE CommitSucceeds(c)
  <2>1. pc[c] = "commit" /\ Install(i)
    BY <1>3, <1>5, <1>10 DEF CommitSucceeds, CommitPCs, RuntimePCs
  <2>2. tx[i].effect = "lifecycle"
    <3>1. tx[i].effect \in {"lifecycle", "failed"} /\ (res[c].err = {} => tx[i].effect = "lifecycle")
      BY <1>0, <1>3, <2>1 DEF Staged, Reported
    <3>2. tx[i].effect = "failed" => res'[c].err = res[c].err
      BY <1>0, <1>3, <1>10 DEF CommitSucceeds, Return
    <3> QED
      BY <1>2, <3>1, <3>2
  <2>3. tx[i].ws = Absent
    <3>1. InWork(i) /\ tx[i].phase = "open" /\ tx[i].by = c
      BY <1>0, <1>3, <2>1 DEF LifeInv, Held, HoldingPCs
    <3> QED
      BY <1>2, <2>2, <3>1 DEF InWork, Replaces
  <2>4. ~Exists(i)'
    BY <1>0, <2>1, <2>3 DEF Install, Exists, Absent, Typed, TypeOK
  <2> QED
    BY <1>1, <1>3, <1>4, <2>4 DEF Removed
<1> QED
  BY <1>8, <1>9, <1>10

\* Every step keeps the invariant.
LEMMA NextDelete == DeleteInv /\ [Next]_vars => DeleteInv'
<1> SUFFICES ASSUME DeleteInv, [Next]_vars PROVE DeleteInv'
  OBVIOUS
<1>0. /\ OutcomeInv /\ OutcomeInv' /\ LifeInv /\ Typed /\ Sole
      /\ pc \in [Calls -> PCs] /\ req \in [Calls -> Req] /\ res \in [Calls -> Res]
      /\ \A c \in Calls : Asked(c) /\ Removed(c) /\ Fresh(c)
  BY NextOutcome DEF DeleteInv, OutcomeInv, LifeInv, FenceInv, Typed, TypeOK, Req, Res
<1>1. \A i \in Ids : Traced(i) => Traced(i)'
  BY <1>0, TracesStay
<1>2. ASSUME NEW d \in Calls,
             pc[d] = "idle" => pc'[d] = "idle" /\ req'[d] = req[d] /\ res'[d] = res[d]
      PROVE  Asked(d)'
  <2>1. CASE pc[d] # "idle"
    <3>1. /\ pc'[d] # "idle" /\ req'[d].op = req[d].op /\ req'[d].id = req[d].id
          /\ res'[d].ret # 0 => pc'[d] = "done"
      BY <1>0, <2>1, RequestsStay DEF Asked
    <3> QED
      BY <1>0, <1>1, <2>1, <3>1 DEF Asked
  <2>2. CASE pc[d] = "idle"
    BY <1>0, <1>1, <1>2, <2>2 DEF Asked
  <2> QED
    BY <2>1, <2>2
<1>3. ASSUME \A d \in Calls : req'[d].op = req[d].op /\ req'[d].id = req[d].id PROVE Sole'
  BY <1>0, <1>3 DEF Sole, Maker
<1>4. ASSUME NEW c \in Calls, CallStep(c) PROVE DeleteInv'
  <2>1. Sole'
    BY <1>0, <1>3, <1>4, Frame, SameOp, SameId
  <2>2. ASSUME NEW d \in Calls PROVE Asked(d)'
    <3>1. CASE d = c
      <4>1. pc[c] # "idle"
        BY <1>0, <1>4, ActorKnown DEF CallStep, Running, LifeInv, Staged
      <4> QED
        BY <1>2, <3>1, <4>1
    <3>2. CASE d # c
      BY <1>0, <1>2, <1>4, <3>2, Frame
    <3> QED
      BY <3>1, <3>2
  <2>3. ASSUME NEW d \in Calls PROVE Removed(d)'
    <3>1. CASE pc[d] = "done"
      BY <3>1, RemovedStays
    <3>2. CASE pc[d] # "done" /\ d = c
      BY <1>4, <3>2, RemovedNow
    <3>3. CASE pc[d] # "done" /\ d # c
      BY <1>0, <1>4, <3>3, Frame DEF Removed
    <3> QED
      BY <3>1, <3>2, <3>3
  <2> QED
    BY <1>0, <2>1, <2>2, <2>3 DEF DeleteInv
<1>5. ASSUME NEW c \in Calls, Invoke(c) PROVE DeleteInv'
  <2>1. PICK op \in Ops : \/ \E i \in Ids : CallCreate(c, op, i)
                          \/ \E i \in Ids : \E g \in Handles(i) : CallWith(c, op, i, g)
                          \/ CallTooLarge(c, op)
    BY <1>5 DEF Invoke
  <2>2. /\ pc[c] = "idle" /\ issued' = issued
        /\ \A d \in Calls \ {c} : pc'[d] = pc[d] /\ req'[d] = req[d] /\ res'[d] = res[d]
        /\ req[c].id = Nobody /\ res[c].ret = 0
    BY <1>0, <2>1 DEF CallCreate, CallWith, CallTooLarge, Goto, Return, dbVars, Asked
  <2>3. ASSUME NEW d \in Calls \ {c} PROVE Asked(d)' /\ Removed(d)'
    <3>1. Asked(d)'
      BY <1>2, <2>2
    <3>2. Removed(d)'
      <4>1. CASE pc[d] = "done"
        BY <4>1, RemovedStays
      <4>2. CASE pc[d] # "done"
        BY <2>2, <4>2 DEF Removed
      <4> QED
        BY <4>1, <4>2
    <3> QED
      BY <3>1, <3>2
  <2>4. op \in AllOps /\ op # "none"
    BY OpsAssumption DEF AllOps, CreateOps, CleanupOps
  <2>5. CASE \E i \in Ids : CallCreate(c, op, i)
    <3>1. PICK i \in Ids : CallCreate(c, op, i)
      BY <2>5
    <3>2. /\ req'[c] = [op |-> op, id |-> i, gen |-> 1, tok |-> Nobody] /\ pc'[c] = "create"
          /\ res' = res /\ op \in CreateOps /\ \A d \in Calls : req[d].id # i
      BY <1>0, <3>1 DEF CallCreate, Goto
    <3>3. Asked(c)' /\ Removed(c)'
      BY <2>2, <2>4, <3>2 DEF Asked, Removed, CreateOps, CleanupOps
    <3>4. Sole'
      BY <1>0, <2>2, <3>2 DEF Sole, Maker
    <3> QED
      BY <1>0, <2>3, <3>3, <3>4 DEF DeleteInv
  <2>6. CASE \E i \in Ids : \E g \in Handles(i) : CallWith(c, op, i, g)
    <3>1. PICK i \in Ids : \E g \in Handles(i) : CallWith(c, op, i, g)
      BY <2>6
    <3>2. PICK g \in Handles(i) : CallWith(c, op, i, g)
      BY <3>1
    <3>3. /\ req'[c] = [op |-> op, id |-> i, gen |-> g, tok |-> Nobody]
          /\ pc'[c] \in {"lookup", "lock"} /\ res' = res /\ op \in CleanupOps \cup {"Batch"}
      BY <1>0, <3>2 DEF CallWith, Goto
    <3>4. Traced(i)
      <4>1. CASE g \in 1 .. issued[i]
        BY <1>0, <4>1 DEF Traced, Typed, TypeOK
      <4>2. CASE g \notin 1 .. issued[i]
        <5>1. PICK d \in Calls : req[d].id = i /\ res[d].ret # 0
          BY <3>2, <4>2 DEF Handles
        <5>2. pc[d] = "done" /\ req[d].op # "none" /\ req[d].op \in AllOps \cup {"none"}
          BY <1>0, <5>1 DEF Asked, Req
        <5>3. CASE req[d].op \in CreateOps
          BY <5>1, <5>2, <5>3 DEF Traced, Maker
        <5>4. CASE req[d].op \notin CreateOps
          BY <1>0, <5>1, <5>2, <5>4 DEF Asked, AllOps
        <5> QED
          BY <5>3, <5>4
      <4> QED
        BY <4>1, <4>2
    <3>5. Asked(c)' /\ Removed(c)'
      BY <1>1, <2>2, <2>4, <3>3, <3>4 DEF Asked, Removed
    <3>6. Sole'
      BY <1>0, <2>2, <3>3 DEF Sole, Maker, CreateOps, CleanupOps
    <3> QED
      BY <1>0, <2>3, <3>5, <3>6 DEF DeleteInv
  <2>7. CASE CallTooLarge(c, op)
    <3>1. /\ req'[c].op = op /\ req'[c].id = Nobody /\ pc'[c] = "done"
          /\ res'[c].err = {"SQLTooLarge"} /\ res'[c].ret = 0 /\ op # "Delete"
      BY <1>0, <2>2, <2>7 DEF CallTooLarge, Return, Req, InitOps
    <3>2. Asked(c)' /\ Removed(c)'
      BY <2>4, <3>1, NobodyAssumption DEF Asked, Removed
    <3>3. Sole'
      BY <1>0, <2>2, <3>1, NobodyAssumption DEF Sole, Maker
    <3> QED
      BY <1>0, <2>3, <3>2, <3>3 DEF DeleteInv
  <2> QED
    BY <2>1, <2>5, <2>6, <2>7
<1>6. CASE UNCHANGED <<pc, req, res>>
  <2>1. ASSUME NEW d \in Calls PROVE Asked(d)' /\ Removed(d)'
    <3>1. Asked(d)'
      BY <1>2, <1>6
    <3>2. CASE pc[d] = "done"
      BY <3>1, <3>2, RemovedStays
    <3>3. CASE pc[d] # "done"
      BY <1>6, <3>1, <3>3 DEF Removed
    <3> QED
      BY <3>2, <3>3
  <2> QED
    BY <1>0, <1>3, <1>6, <2>1 DEF DeleteInv
<1>7. ASSUME NEW i \in Ids, Server(i) \/ AdminDepend(i) \/ AdminRelease(i)
      PROVE  UNCHANGED <<pc, req, res>>
  BY <1>7 DEF Server, OrphanAborts, OrphanCommits, AdminDepend, AdminRelease
<1> QED
  BY <1>4, <1>5, <1>6, <1>7 DEF Next, CallStep, Quiet, vars

\* The initial states satisfy the invariant.
LEMMA InitDelete == Init => DeleteInv
<1> SUFFICES ASSUME Init PROVE DeleteInv
  OBVIOUS
<1>1. OutcomeInv
  BY InitOutcome
<1>2. Sole
  BY DEF Init, Sole, Maker, CreateOps
<1>3. \A c \in Calls : Asked(c) /\ Removed(c)
  BY DEF Init, Asked, Removed, CleanupOps
<1> QED
  BY <1>1, <1>2, <1>3 DEF DeleteInv

\* After a nil Delete the islet is gone for good, unless the COMMIT of its
\* creation was still on its way, and then the creator was told so.
THEOREM DeletesAreFinal == Spec => []DeleteFinal
<1>1. Spec => []DeleteInv
  BY InitDelete, NextDelete, PTL DEF Spec
<1>2. DeleteInv => DeleteFinal
  BY DEF DeleteInv, Removed, Doubted, Maker, DeleteFinal
<1> QED
  BY <1>1, <1>2, PTL

=============================================================================
