------------------------- MODULE IsletEngineProofs -------------------------
(***************************************************************************)
(* Theorems about IsletEngine, for any number of islets and calls.         *)
(***************************************************************************)
EXTENDS IsletEngine, TLAPS

\* A call that runs, or whose failure update is on its way, names an islet.
KnownIds ==
    /\ \A c \in Calls : pc[c] \in Running => req[c].id \in Ids
    /\ \A c \in late : req[c].id \in Ids

Typed == TypeOK /\ KnownIds

(***************************************************************************)
(* Types of the values the actions build                                   *)
(***************************************************************************)

\* Requests and results as TypeOK has them.
Req == [op : AllOps \cup {"none"}, id : Ids \cup {Nobody}, gen : Nat,
        tok : Calls \cup {Nobody}]
Res == [err : SUBSET Kinds, ret : Nat]

\* The fields of rows that the actions update keep a row a row.
LEMMA RowUpdates ==
    ASSUME NEW r \in Row
    PROVE  /\ [r EXCEPT !.state = "failed", !.tok = Nobody] \in Row
           /\ [r EXCEPT !.state = "active", !.tok = Nobody] \in Row
           /\ \A d \in SUBSET Mark : [r EXCEPT !.data = d] \in Row
  BY DEF Row

\* The fields of transactions that the actions update keep their type.
LEMMA TxUpdates ==
    ASSUME NEW t \in Tx, NEW r \in Row
    PROVE  /\ [t EXCEPT !.ws = r] \in Tx
           /\ \A e \in Effects : [t EXCEPT !.effect = e, !.ws = r] \in Tx
           /\ \A e \in Effects : \A s \in SUBSET Ids :
                 [t EXCEPT !.effect = e, !.cut = s, !.ws = r] \in Tx
           /\ \A p \in {"none", "open", "orphan", "committing"} :
                 [t EXCEPT !.phase = p] \in Tx
           /\ \A c \in Calls : [t EXCEPT !.phase = "open", !.by = c, !.ws = r] \in Tx
  BY DEF Tx

\* The rows and transactions the helpers build are rows and transactions.
LEMMA HelperTypes ==
    ASSUME TypeOK, NEW c \in Calls
    PROVE  /\ Absent \in Row
           /\ NoTx \in Tx
           /\ \A g \in Nat : Prepared(c, g) \in Row
           /\ \A i \in Ids : /\ Begun(c, i) \in Tx
                             /\ FailedWork(i) \in Tx
                             /\ Cleaned(c, tx[i].ws) \in Row
                             /\ Finished(c, tx[i].ws) \in Row
<1>1. Absent \in Row
  BY DEF Absent, Row
<1>2. NoTx \in Tx
  BY <1>1 DEF NoTx, Tx
<1>3. ASSUME NEW g \in Nat PROVE Prepared(c, g) \in Row
  BY DEF Prepared, Row
<1>4. ASSUME NEW i \in Ids PROVE db[i] \in Row /\ tx[i] \in Tx /\ tx[i].ws \in Row
  BY DEF TypeOK, Tx
<1>5. ASSUME NEW i \in Ids PROVE Begun(c, i) \in Tx
  BY <1>2, <1>4, TxUpdates DEF Begun
<1>6. ASSUME NEW i \in Ids PROVE FailedWork(i) \in Tx
  <2>1. [db[i] EXCEPT !.state = "failed", !.tok = Nobody] \in Row
    BY <1>4, RowUpdates
  <2> QED
    BY <1>4, <2>1, TxUpdates DEF FailedWork, Effects
<1>7. ASSUME NEW i \in Ids PROVE Cleaned(c, tx[i].ws) \in Row
  <2>1. tx[i].ws.gen + 1 \in Nat
    BY <1>4 DEF Row
  <2> QED
    BY <1>1, <1>3, <2>1 DEF Cleaned
<1>8. ASSUME NEW i \in Ids PROVE Finished(c, tx[i].ws) \in Row
  BY <1>4, RowUpdates DEF Finished
<1> QED
  BY <1>1, <1>2, <1>3, <1>5, <1>6, <1>7, <1>8

\* Returning, failing and moving on keep the types of pc and res.
LEMMA ControlTypes ==
    ASSUME TypeOK, NEW c \in Calls
    PROVE  /\ \A p \in PCs : Goto(c, p) => pc' \in [Calls -> PCs]
           /\ \A e \in SUBSET Kinds : \A g \in Nat :
                 Return(c, e, g) \/ FailWith(c, e, g) \/ Fail(c, e) =>
                    /\ pc' \in [Calls -> PCs]
                    /\ res' \in [Calls -> Res]
<1>0. pc \in [Calls -> PCs] /\ res \in [Calls -> Res]
  BY DEF TypeOK, Res
<1>1. ASSUME NEW p \in PCs, Goto(c, p) PROVE pc' \in [Calls -> PCs]
  BY <1>0, <1>1 DEF Goto
<1>2. ASSUME NEW e \in SUBSET Kinds, NEW g \in Nat, Return(c, e, g)
      PROVE  pc' \in [Calls -> PCs] /\ res' \in [Calls -> Res]
  BY <1>0, <1>2 DEF Return, PCs, Res
<1>3. ASSUME NEW e \in SUBSET Kinds, NEW g \in Nat, FailWith(c, e, g)
      PROVE  pc' \in [Calls -> PCs] /\ res' \in [Calls -> Res]
  <2>1. CASE req[c].op \in InitOps /\ pc[c] \in RuntimePCs
    <3>1. e \cup {"Initialization"} \in SUBSET Kinds
      BY DEF Kinds
    <3> QED
      BY <1>0, <1>3, <2>1, <3>1 DEF FailWith, PCs, Res
  <2>2. CASE ~(req[c].op \in InitOps /\ pc[c] \in RuntimePCs)
    <3>1. res[c].err \cup e \in SUBSET Kinds
      BY <1>0 DEF Res
    <3> QED
      BY <1>2, <1>3, <2>2, <3>1 DEF FailWith
  <2> QED
    BY <2>1, <2>2
<1>4. ASSUME NEW e \in SUBSET Kinds, Fail(c, e)
      PROVE  pc' \in [Calls -> PCs] /\ res' \in [Calls -> Res]
  BY <1>3, <1>4 DEF Fail
<1> QED
  BY <1>1, <1>2, <1>3, <1>4

\* Every error of a failing step is a set of declared kinds.
LEMMA ErrorTypes ==
    ASSUME NEW c \in Calls
    PROVE  /\ LockErrors(c) \subseteq SUBSET Kinds
           /\ EnterErrors(c) \subseteq SUBSET Kinds
           /\ StepErrors(c) \subseteq SUBSET Kinds
           /\ \A row : Refusal(c, row) \in SUBSET Kinds
           /\ UnansweredCommit \in SUBSET Kinds
           /\ \A f \in Faults : {f} \in SUBSET Kinds
<1>1. \A f \in Faults : f \in Kinds
  BY FaultsAssumption DEF Kinds
<1>2. LockErrors(c) \subseteq SUBSET Kinds
  BY DEF LockErrors, Kinds
<1>3. EnterErrors(c) \subseteq SUBSET Kinds
  BY DEF EnterErrors, Kinds
<1>4. StepErrors(c) \subseteq SUBSET Kinds
  <2>1. {{f} : f \in Faults} \subseteq SUBSET Kinds
    BY <1>1
  <2>2. {{"RuntimeConnection", f} : f \in Faults} \subseteq SUBSET Kinds
    BY <1>1 DEF Kinds
  <2>3. {"Lifecycle"} \in SUBSET Kinds /\ {"Raw"} \in SUBSET Kinds
        /\ {"Lifecycle", "ExternalDependency"} \in SUBSET Kinds
    BY DEF Kinds
  <2> QED
    BY <2>1, <2>2, <2>3 DEF StepErrors
<1>5. \A row : Refusal(c, row) \in SUBSET Kinds
  BY DEF Refusal, Kinds
<1>6. UnansweredCommit \in SUBSET Kinds
  BY DEF UnansweredCommit, Kinds
<1> QED
  BY <1>1, <1>2, <1>3, <1>4, <1>5, <1>6

\* A server commit keeps the types.
LEMMA InstallTypes ==
    ASSUME TypeOK, NEW i \in Ids, Install(i)
    PROVE  /\ db' \in [Ids -> Row]
           /\ tx' \in [Ids -> Tx]
           /\ issued' \in [Ids -> Nat]
           /\ external' \subseteq Ids
           /\ lost' \subseteq Ids
           /\ did' \in [Calls -> SUBSET (Effects \cup {"none"})]
<1>1. tx[i] \in Tx /\ tx[i].ws \in Row /\ tx[i].ws.gen \in Nat
      /\ tx[i].cut \subseteq Ids /\ tx[i].effect \in Effects \cup {"none"}
  BY DEF TypeOK, Tx, Row
<1>2. NoTx \in Tx
  BY DEF NoTx, Tx, Absent, Row
<1>3. db' \in [Ids -> Row] /\ tx' \in [Ids -> Tx]
  BY <1>1, <1>2 DEF Install, TypeOK
<1>4. issued' \in [Ids -> Nat]
  BY <1>1 DEF Install, TypeOK
<1>5. external' \subseteq Ids /\ lost' \subseteq Ids
  BY <1>1 DEF Install, TypeOK
<1>6. did' \in [Calls -> SUBSET (Effects \cup {"none"})]
  BY <1>1 DEF Install, TypeOK
<1> QED
  BY <1>3, <1>4, <1>5, <1>6

\* The calls that run after a step of call c ran before it, on the same islet.
LEMMA KnownIdsStep ==
    ASSUME Typed, NEW c \in Calls,
           pc[c] \in Running \/ c \in late,
           \A d \in Calls \ {c} : pc'[d] = pc[d],
           pc[c] \in Running \/ pc'[c] = pc[c],
           \A d \in Calls : req'[d].id = req[d].id,
           late' \subseteq late \cup {c}
    PROVE  KnownIds'
  BY DEF Typed, TypeOK, KnownIds

(***************************************************************************)
(* Type correctness                                                        *)
(***************************************************************************)

\* The islet of a call that takes a step.
LEMMA ActorKnown ==
    ASSUME Typed, NEW c \in Calls,
           Step(c) \/ Statement(c) \/ Crash(c) \/ LateMark(c) \/ LateMarkLapses(c)
    PROVE  /\ pc[c] \in Running \/ c \in late
           /\ req[c].id \in Ids
<1> USE DEF Running, PCs, LifecyclePCs, RuntimePCs, CommitPCs
<1>1. CASE CreateRow(c) \/ LockMetadata(c) \/ Refuse(c) \/ CheckDependencies(c)
           \/ Cleanup(c) \/ CleanupFails(c) \/ CommitSucceeds(c)
           \/ CommitRejected(c) \/ CommitLost(c)
  <2>1. pc[c] \in Running
    BY <1>1 DEF CreateRow, LockMetadata, Refuse, CheckDependencies, Cleanup,
                CleanupFails, CommitSucceeds, CommitRejected, CommitLost
  <2> QED
    BY <2>1 DEF Typed, KnownIds
<1>2. CASE Lookup(c) \/ ConnectRuntime(c) \/ Enter(c) \/ CheckBatch(c) \/ Finish(c)
           \/ Statement(c) \/ MarkFailed(c) \/ MarkFails(c) \/ Reopen(c) \/ Crash(c)
  <2>1. pc[c] \in Running
    BY <1>2 DEF Lookup, ConnectRuntime, Enter, CheckBatch, Finish, Statement,
                MarkFailed, MarkFails, Reopen, Crash
  <2> QED
    BY <2>1 DEF Typed, KnownIds
<1>3. CASE StepFails(c)
  <2>1. StepErrors(c) # {}
    BY <1>3 DEF StepFails
  <2>2. pc[c] \in {"lock", "locked", "create", "cleanup", "lookup", "enter", "run",
                   "connect", "check"}
    BY <2>1 DEF StepErrors
  <2> QED
    BY <2>2 DEF Typed, KnownIds
<1>4. CASE LateMark(c) \/ LateMarkLapses(c)
  BY <1>4 DEF LateMark, LateMarkLapses, Typed, KnownIds
<1> QED
  BY <1>1, <1>2, <1>3, <1>4 DEF Step

\* Each step of a call keeps every variable in its type.
LEMMA CallStepTyped ==
    ASSUME Typed, NEW c \in Calls,
           Step(c) \/ Statement(c) \/ Crash(c) \/ LateMark(c) \/ LateMarkLapses(c)
    PROVE  TypeOK'
<1> DEFINE i == req[c].id
<1> USE DEF Req, Res
<1>a. i \in Ids
  BY ActorKnown
<1>b. /\ db \in [Ids -> Row] /\ tx \in [Ids -> Tx] /\ req \in [Calls -> Req]
      /\ res \in [Calls -> Res] /\ pc \in [Calls -> PCs]
      /\ db[i] \in Row /\ tx[i] \in Tx /\ tx[i].ws \in Row
      /\ tx[i].ws.gen \in Nat /\ db[i].gen \in Nat /\ db[i].tok \in Calls \cup {Nobody}
      /\ req[c].gen \in Nat /\ res[c].err \in SUBSET Kinds
  BY <1>a DEF Typed, TypeOK, Tx, Row
<1>c. TypeOK /\ (UNCHANGED dbVars => db' \in [Ids -> Row] /\ issued' \in [Ids -> Nat]
        /\ external' \subseteq Ids /\ lost' \subseteq Ids
        /\ did' \in [Calls -> SUBSET (Effects \cup {"none"})])
  BY DEF Typed, TypeOK, dbVars
<1>d. ASSUME NEW t \in Tx PROVE [tx EXCEPT ![i] = t] \in [Ids -> Tx]
  BY <1>a, <1>b
<1>e. /\ {"commit", "commitBatch", "locked", "cleanup", "lookup", "connect", "enter",
          "check", "run", "mark", "reopen", "reopenFailed", "done", "crashed"} \subseteq PCs
      /\ {"Lifecycle", "ExternalDependency"} \in SUBSET Kinds
      /\ {"Lifecycle"} \in SUBSET Kinds /\ {"ExternalDependency"} \in SUBSET Kinds
      /\ {"NotFound"} \in SUBSET Kinds /\ {"StaleGeneration"} \in SUBSET Kinds
      /\ {"RuntimeConnection", "Query"} \in SUBSET Kinds /\ {} \in SUBSET Kinds
      /\ "lifecycle" \in Effects /\ "batch" \in Effects
  BY DEF PCs, LifecyclePCs, RuntimePCs, Kinds, Effects
<1>f. ASSUME NEW e \in SUBSET Kinds PROVE [res EXCEPT ![c].err = e] \in [Calls -> Res]
  BY <1>b
<1>1. CASE CreateRow(c)
  <2>1. Prepared(c, 1) \in Row /\ Begun(c, i) \in Tx
    BY <1>a, <1>c, HelperTypes
  <2>2. [Begun(c, i) EXCEPT !.effect = "lifecycle", !.ws = Prepared(c, 1)] \in Tx
    BY <2>1 DEF Tx, Effects
  <2>3. tx' \in [Ids -> Tx]
    BY <1>1, <1>d, <2>2 DEF CreateRow
  <2> QED
    BY <1>1, <1>b, <1>c, <1>e, <2>3, ControlTypes DEF CreateRow, TypeOK
<1>2. CASE LockMetadata(c)
  <2>1. Begun(c, i) \in Tx
    BY <1>a, <1>c, HelperTypes
  <2>2. tx' \in [Ids -> Tx]
    BY <1>2, <1>b, <1>d, <2>1 DEF LockMetadata
  <2>3. pc' \in [Calls -> PCs] /\ res' \in [Calls -> Res]
    BY <1>2, <1>b, <1>c, <1>e, ErrorTypes, ControlTypes DEF LockMetadata
  <2> QED
    BY <1>2, <1>c, <2>2, <2>3 DEF LockMetadata, TypeOK
<1>3. CASE Refuse(c)
  <2>1. tx' \in [Ids -> Tx]
    BY <1>3, <1>c, <1>d, HelperTypes DEF Refuse
  <2>2. pc' \in [Calls -> PCs] /\ res' \in [Calls -> Res]
    BY <1>3, <1>c, ErrorTypes, ControlTypes DEF Refuse
  <2> QED
    BY <1>3, <1>c, <2>1, <2>2 DEF Refuse, TypeOK
<1>4. CASE CheckDependencies(c)
  <2>1. FailedWork(i) \in Tx
    BY <1>a, <1>c, HelperTypes
  <2>2. tx' \in [Ids -> Tx] /\ res' \in [Calls -> Res]
    <3>1. [tx EXCEPT ![i] = FailedWork(i)] \in [Ids -> Tx]
      BY <1>d, <2>1
    <3>2. [res EXCEPT ![c].err = {"Lifecycle", "ExternalDependency"}] \in [Calls -> Res]
      BY <1>e, <1>f
    <3> QED
      BY <1>4, <1>b, <3>1, <3>2 DEF CheckDependencies
  <2>3. pc' \in [Calls -> PCs]
    BY <1>4, <1>c, <1>e, ControlTypes DEF CheckDependencies
  <2> QED
    BY <1>4, <1>c, <2>2, <2>3 DEF CheckDependencies, TypeOK
<1>5. CASE Cleanup(c)
  <2>1. Cleaned(c, tx[i].ws) \in Row /\ external \cap {i} \in SUBSET Ids
    BY <1>a, <1>c, HelperTypes
  <2>2. tx' \in [Ids -> Tx]
    <3>1. tx[i] \in Tx
      BY <1>b
    <3>2. [tx[i] EXCEPT !.effect = "lifecycle", !.cut = external \cap {i},
                        !.ws = Cleaned(c, tx[i].ws)] \in Tx
      BY <2>1, <3>1 DEF Tx, Effects
    <3> QED
      BY <1>5, <1>d, <3>2 DEF Cleanup
  <2>3. pc' \in [Calls -> PCs]
    BY <1>5, <1>c, <1>e, ControlTypes DEF Cleanup
  <2> QED
    BY <1>5, <1>b, <1>c, <2>2, <2>3 DEF Cleanup, TypeOK
<1>6. CASE CleanupFails(c)
  <2>1. FailedWork(i) \in Tx
    BY <1>a, <1>c, HelperTypes
  <2>2. tx' \in [Ids -> Tx] /\ res' \in [Calls -> Res]
    BY <1>6, <1>d, <1>e, <1>f, <2>1 DEF CleanupFails
  <2>3. pc' \in [Calls -> PCs]
    BY <1>6, <1>c, <1>e, ControlTypes DEF CleanupFails
  <2> QED
    BY <1>6, <1>c, <2>2, <2>3 DEF CleanupFails, TypeOK
<1>7. CASE CommitSucceeds(c)
  <2>1. Install(i)
    BY <1>7 DEF CommitSucceeds
  <2>2. pc' \in [Calls -> PCs] /\ res' \in [Calls -> Res]
    BY <1>7, <1>b, <1>c, <1>e, ControlTypes DEF CommitSucceeds
  <2>3. req' \in [Calls -> Req]
    <3>1. [req EXCEPT ![c].gen = tx[i].ws.gen] \in [Calls -> Req]
      BY <1>b
    <3> QED
      BY <1>7, <1>b, <3>1 DEF CommitSucceeds
  <2> QED
    BY <1>7, <1>a, <1>c, <2>1, <2>2, <2>3, InstallTypes DEF CommitSucceeds, TypeOK
<1>8. CASE CommitRejected(c)
  <2>1. tx' \in [Ids -> Tx]
    BY <1>8, <1>c, <1>d, HelperTypes DEF CommitRejected
  <2>2. pc' \in [Calls -> PCs] /\ res' \in [Calls -> Res]
    BY <1>8, <1>b, <1>c, ErrorTypes, ControlTypes DEF CommitRejected, CommitError
  <2> QED
    BY <1>8, <1>c, <2>1, <2>2 DEF CommitRejected, TypeOK
<1>9. CASE CommitLost(c)
  <2>0. tx[i] \in Tx
    BY <1>b
  <2>1. [tx[i] EXCEPT !.phase = "committing"] \in Tx
    BY <2>0 DEF Tx
  <2>2. tx' \in [Ids -> Tx]
    BY <1>9, <1>b, <1>d, <2>1 DEF CommitLost
  <2>3. pc' \in [Calls -> PCs] /\ res' \in [Calls -> Res]
    BY <1>9, <1>b, <1>c, ErrorTypes, ControlTypes DEF CommitLost, CommitError
  <2> QED
    BY <1>9, <1>c, <2>2, <2>3 DEF CommitLost, TypeOK
<1>10. CASE Lookup(c)
  <2>1. pc' \in [Calls -> PCs] /\ res' \in [Calls -> Res]
    BY <1>10, <1>b, <1>c, <1>e, ControlTypes DEF Lookup
  <2>2. [req EXCEPT ![c].tok = db[i].tok] \in [Calls -> Req]
    BY <1>b
  <2>3. req' \in [Calls -> Req]
    BY <1>10, <1>b, <2>2 DEF Lookup
  <2> QED
    BY <1>10, <1>c, <2>1, <2>3 DEF Lookup, TypeOK
<1>11. CASE ConnectRuntime(c)
  <2>1. pc' \in [Calls -> PCs] /\ res' \in [Calls -> Res]
    BY <1>11, <1>b, <1>c, <1>e, ControlTypes DEF ConnectRuntime
  <2> QED
    BY <1>11, <1>c, <2>1 DEF ConnectRuntime, TypeOK
<1>12. CASE Enter(c)
  <2>1. Begun(c, i) \in Tx
    BY <1>a, <1>c, HelperTypes
  <2>2. tx' \in [Ids -> Tx]
    BY <1>12, <1>b, <1>d, <2>1 DEF Enter
  <2>3. pc' \in [Calls -> PCs] /\ res' \in [Calls -> Res]
    BY <1>12, <1>b, <1>c, <1>e, ErrorTypes, ControlTypes DEF Enter
  <2> QED
    BY <1>12, <1>c, <2>2, <2>3 DEF Enter, TypeOK
<1>13. CASE CheckBatch(c)
  <2>1. tx' \in [Ids -> Tx]
    BY <1>13, <1>b, <1>c, <1>d, HelperTypes DEF CheckBatch
  <2>2. pc' \in [Calls -> PCs] /\ res' \in [Calls -> Res]
    BY <1>13, <1>b, <1>c, <1>e, ControlTypes DEF CheckBatch
  <2> QED
    BY <1>13, <1>c, <2>1, <2>2 DEF CheckBatch, TypeOK
<1>14. CASE Finish(c)
  <2>1. Finished(c, tx[i].ws) \in Row
    BY <1>a, <1>c, HelperTypes
  <2>2. [tx[i] EXCEPT !.effect = "batch", !.ws = Finished(c, tx[i].ws)] \in Tx
    <3>1. tx[i] \in Tx
      BY <1>b
    <3> QED
      BY <2>1, <3>1 DEF Tx, Effects
  <2>3. tx' = [tx EXCEPT ![i] = [tx[i] EXCEPT !.effect = "batch", !.ws = Finished(c, tx[i].ws)]]
    BY <1>14, <1>a, <1>b DEF Finish
  <2>4. pc' \in [Calls -> PCs]
    BY <1>14, <1>c, <1>e, ControlTypes DEF Finish
  <2> QED
    BY <1>14, <1>b, <1>c, <1>d, <2>2, <2>3, <2>4 DEF Finish, TypeOK
<1>15. ASSUME MarkRow(c) PROVE db' \in [Ids -> Row]
  <2>1. [db[i] EXCEPT !.state = "failed", !.tok = Nobody] \in Row
    BY <1>b, RowUpdates
  <2>2. [db EXCEPT ![i].state = "failed", ![i].tok = Nobody]
          = [db EXCEPT ![i] = [db[i] EXCEPT !.state = "failed", !.tok = Nobody]]
    BY <1>a, <1>b
  <2> QED
    BY <1>15, <1>a, <1>b, <2>1, <2>2 DEF MarkRow
<1>16. CASE MarkFailed(c)
  BY <1>15, <1>16, <1>c, <1>e, ControlTypes DEF MarkFailed, TypeOK
<1>17. CASE MarkFails(c)
  <2>1. late' \subseteq Calls
    BY <1>17, <1>c DEF MarkFails, TypeOK
  <2> QED
    BY <1>17, <1>c, <1>e, <2>1, ControlTypes DEF MarkFails, TypeOK
<1>18. CASE LateMark(c)
  BY <1>15, <1>18, <1>c DEF LateMark, TypeOK
<1>19. CASE LateMarkLapses(c)
  BY <1>19, <1>c DEF LateMarkLapses, TypeOK
<1>20. CASE Reopen(c)
  <2>1. \A f \in Faults : res[c].err \cup {f} \in SUBSET Kinds
    BY <1>b, ErrorTypes
  <2>2. res[c].err \cup {"NotFound"} \in SUBSET Kinds
    BY <1>b, <1>e
  <2>3. pc' \in [Calls -> PCs] /\ res' \in [Calls -> Res]
    BY <1>20, <1>b, <1>c, <2>1, <2>2, ControlTypes DEF Reopen
  <2> QED
    BY <1>20, <1>c, <2>3 DEF Reopen, TypeOK
<1>21. ASSUME Abandon(c) PROVE tx' \in [Ids -> Tx]
  <2>0. tx[i] \in Tx /\ Begun(c, i) \in Tx
    BY <1>a, <1>b, <1>c, HelperTypes
  <2>1. ASSUME NEW p \in {"orphan", "committing"}
        PROVE  [tx EXCEPT ![i].phase = p] \in [Ids -> Tx]
    <3>1. [tx[i] EXCEPT !.phase = p] \in Tx
      BY <2>0 DEF Tx
    <3> QED
      BY <1>a, <1>b, <1>d, <3>1
  <2>2. [tx EXCEPT ![i] = [Begun(c, i) EXCEPT !.phase = "orphan"]] \in [Ids -> Tx]
    <3>1. [Begun(c, i) EXCEPT !.phase = "orphan"] \in Tx
      BY <2>0 DEF Tx
    <3> QED
      BY <1>d, <3>1
  <2> QED
    BY <1>21, <1>b, <2>1, <2>2 DEF Abandon
<1>22. CASE StepFails(c)
  <2>1. tx' \in [Ids -> Tx]
    BY <1>21, <1>22, <1>c, <1>d, HelperTypes DEF StepFails
  <2>2. pc' \in [Calls -> PCs] /\ res' \in [Calls -> Res]
    BY <1>22, <1>c, ErrorTypes, ControlTypes DEF StepFails
  <2> QED
    BY <1>22, <1>c, <2>1, <2>2 DEF StepFails, TypeOK
<1>23. CASE Crash(c)
  <2>1. late' \subseteq Calls
    BY <1>23, <1>c DEF Crash, TypeOK
  <2>2. pc' \in [Calls -> PCs]
    BY <1>23, <1>c, <1>e, ControlTypes DEF Crash
  <2> QED
    BY <1>21, <1>23, <1>c, <2>1, <2>2 DEF Crash, TypeOK
<1>24. CASE Statement(c)
  <2>1. PICK data \in SUBSET (tx[i].ws.data \cup {[by |-> c, gen |-> req[c].gen]}) :
          tx' = [tx EXCEPT ![i].ws.data = data,
                           ![i].cut = IF db[i].data \subseteq data THEN @
                                      ELSE @ \cup (external \cap {i})]
    BY <1>24 DEF Statement
  <2>2. data \in SUBSET Mark
    BY <1>b DEF Row, Mark
  <2>3. [tx[i].ws EXCEPT !.data = data] \in Row
    BY <1>b, <2>2, RowUpdates
  <2>4. tx[i].cut \subseteq Ids
    BY <1>b DEF Tx
  <2>5. \A s \in SUBSET Ids :
          [tx[i] EXCEPT !.ws = [tx[i].ws EXCEPT !.data = data], !.cut = s] \in Tx
    <3>1. tx[i] \in Tx
      BY <1>b
    <3> QED
      BY <2>3, <3>1 DEF Tx
  <2>6. PICK s \in SUBSET Ids :
          tx' = [tx EXCEPT ![i] = [tx[i] EXCEPT !.ws = [tx[i].ws EXCEPT !.data = data], !.cut = s]]
    <3>1. tx[i].cut \cup (external \cap {i}) \in SUBSET Ids
      BY <1>a, <2>4
    <3> QED
      BY <1>a, <1>b, <2>1, <2>4, <3>1
  <2>7. tx' \in [Ids -> Tx]
    BY <1>d, <2>5, <2>6
  <2> QED
    BY <1>24, <1>c, <2>7 DEF Statement, TypeOK
<1> QED
  BY <1>1, <1>2, <1>3, <1>4, <1>5, <1>6, <1>7, <1>8, <1>9, <1>10, <1>11, <1>12, <1>13,
     <1>14, <1>16, <1>17, <1>18, <1>19, <1>20, <1>22, <1>23, <1>24 DEF Step

\* A step changes the pc of one call and keeps the islet every call names,
\* except that a new call picks one.
LEMMA CallStepKnown ==
    ASSUME Typed, NEW c \in Calls,
           Step(c) \/ Statement(c) \/ Crash(c) \/ LateMark(c) \/ LateMarkLapses(c)
    PROVE  KnownIds'
<1>0. pc[c] \in Running \/ c \in late
  BY ActorKnown
<1>1. pc \in [Calls -> PCs] /\ req \in [Calls -> Req] /\ late \subseteq Calls
  BY DEF Typed, TypeOK, Req
<1>2. /\ \A d \in Calls \ {c} : pc'[d] = pc[d]
      /\ pc[c] \in Running \/ pc'[c] = pc[c]
  <2>1. CASE LateMark(c) \/ LateMarkLapses(c)
    BY <2>1 DEF LateMark, LateMarkLapses
  <2>2. CASE Statement(c)
    BY <1>1, <2>2 DEF Statement, Running, PCs, RuntimePCs
  <2>3. CASE Step(c) \/ Crash(c)
    <3>1. \E p \in PCs : Goto(c, p)
      <4> USE DEF PCs, LifecyclePCs, RuntimePCs, Goto, Return, FailWith, Fail, CommitError
      <4>1. CASE CreateRow(c) \/ LockMetadata(c) \/ Refuse(c) \/ CheckDependencies(c)
                 \/ Cleanup(c) \/ CleanupFails(c)
        BY <4>1 DEF CreateRow, LockMetadata, Refuse, CheckDependencies, Cleanup, CleanupFails
      <4>2. CASE CommitSucceeds(c)
        BY <4>2 DEF CommitSucceeds
      <4>3. CASE CommitRejected(c) \/ CommitLost(c)
        BY <4>3 DEF CommitRejected, CommitLost
      <4>4. CASE Lookup(c) \/ ConnectRuntime(c) \/ Enter(c) \/ CheckBatch(c) \/ Finish(c)
        BY <4>4 DEF Lookup, ConnectRuntime, Enter, CheckBatch, Finish
      <4>5. CASE MarkFailed(c) \/ MarkFails(c) \/ Reopen(c) \/ StepFails(c) \/ Crash(c)
        BY <4>5 DEF MarkFailed, MarkFails, Reopen, StepFails, Crash
      <4> QED
        BY <2>3, <4>1, <4>2, <4>3, <4>4, <4>5 DEF Step
    <3>2. pc[c] \in Running
      <4>1. CASE StepFails(c)
        BY <4>1 DEF StepFails, StepErrors, Running, PCs, LifecyclePCs, RuntimePCs
      <4>2. CASE ~StepFails(c)
        BY <2>3, <4>2 DEF Step, Running, PCs, LifecyclePCs, RuntimePCs, CommitPCs,
              CreateRow, LockMetadata, Refuse, CheckDependencies, Cleanup, CleanupFails,
              CommitSucceeds, CommitRejected, CommitLost, Lookup, ConnectRuntime, Enter,
              CheckBatch, Finish, MarkFailed, MarkFails, Reopen, Crash
      <4> QED
        BY <4>1, <4>2
    <3> QED
      BY <1>1, <3>1, <3>2 DEF Goto
  <2> QED
    BY <2>1, <2>2, <2>3
<1>3. \A d \in Calls : req'[d].id = req[d].id
  <2>1. CASE CommitSucceeds(c)
    BY <1>1, <2>1 DEF CommitSucceeds, Req
  <2>2. CASE Lookup(c)
    BY <1>1, <2>2 DEF Lookup, Req
  <2>3. CASE ~CommitSucceeds(c) /\ ~Lookup(c)
    BY <2>3 DEF Step, Statement, Crash, LateMark, LateMarkLapses, CreateRow, LockMetadata,
         Refuse, CheckDependencies, Cleanup, CleanupFails, CommitRejected, CommitLost,
         ConnectRuntime, Enter, CheckBatch, Finish, MarkFailed, MarkFails, Reopen, StepFails
  <2> QED
    BY <2>1, <2>2, <2>3
<1>4. late' \subseteq late \cup {c}
  BY DEF Step, Statement, Crash, LateMark, LateMarkLapses, CreateRow, LockMetadata,
         Refuse, CheckDependencies, Cleanup, CleanupFails, CommitSucceeds, CommitRejected,
         CommitLost, Lookup, ConnectRuntime, Enter, CheckBatch, Finish, MarkFailed,
         MarkFails, Reopen, StepFails
<1> QED
  BY <1>0, <1>2, <1>3, <1>4, KnownIdsStep

\* A handle's generation is a number.
LEMMA HandleTypes ==
    ASSUME TypeOK, NEW i \in Ids
    PROVE  Handles(i) \subseteq Nat
  BY DEF TypeOK, Handles

\* Every step keeps the types.
LEMMA NextTyped == Typed /\ [Next]_vars => Typed'
<1> SUFFICES ASSUME Typed, [Next]_vars PROVE Typed'
  OBVIOUS
<1>1. ASSUME NEW c \in Calls,
             Step(c) \/ Statement(c) \/ Crash(c) \/ LateMark(c) \/ LateMarkLapses(c)
      PROVE  Typed'
  BY <1>1, CallStepTyped, CallStepKnown DEF Typed
<1>2. ASSUME NEW c \in Calls, Invoke(c) PROVE Typed'
  <2>0. TypeOK /\ KnownIds /\ pc \in [Calls -> PCs] /\ req \in [Calls -> Req]
        /\ res \in [Calls -> Res] /\ late \subseteq Calls
    BY DEF Typed, TypeOK, Req, Res
  <2>1. PICK op \in Ops : \/ \E i \in Ids : CallCreate(c, op, i)
                          \/ \E i \in Ids : \E g \in Handles(i) : CallWith(c, op, i, g)
                          \/ CallTooLarge(c, op)
    BY <1>2 DEF Invoke
  <2>2. op \in AllOps
    BY OpsAssumption
  <2>3. ASSUME NEW i \in Ids, NEW g \in Nat, NEW p \in PCs,
               req' = [req EXCEPT ![c] = [op |-> op, id |-> i, gen |-> g, tok |-> Nobody]],
               Goto(c, p), UNCHANGED <<dbVars, tx, res, late>>
        PROVE  Typed'
    <3>1. [op |-> op, id |-> i, gen |-> g, tok |-> Nobody] \in Req
      BY <2>2 DEF Req
    <3>2. req' \in [Calls -> Req] /\ pc' \in [Calls -> PCs]
      BY <2>0, <2>3, <3>1 DEF Goto
    <3>3. TypeOK'
      BY <2>0, <2>3, <3>2 DEF TypeOK, Req, dbVars
    <3>4. KnownIds'
      BY <2>0, <2>3 DEF KnownIds, Goto
    <3> QED
      BY <3>3, <3>4 DEF Typed
  <2>4. ASSUME NEW i \in Ids, CallCreate(c, op, i) PROVE Typed'
    BY <2>3, <2>4 DEF CallCreate, PCs, LifecyclePCs
  <2>5. ASSUME NEW i \in Ids, NEW g \in Handles(i), CallWith(c, op, i, g) PROVE Typed'
    <3>1. g \in Nat
      BY <2>0, HandleTypes
    <3> QED
      BY <2>3, <2>5, <3>1 DEF CallWith, PCs, LifecyclePCs, RuntimePCs
  <2>6. CASE CallTooLarge(c, op)
    <3>1. req' \in [Calls -> Req]
      BY <2>0, <2>2, <2>6 DEF CallTooLarge, Req
    <3>2. {"SQLTooLarge"} \in SUBSET Kinds
      BY DEF Kinds
    <3>3. pc' \in [Calls -> PCs] /\ res' \in [Calls -> Res]
      BY <2>0, <2>6, <3>2, ControlTypes DEF CallTooLarge
    <3>4. TypeOK'
      BY <2>0, <2>6, <3>1, <3>3 DEF CallTooLarge, TypeOK, Req, Res, dbVars
    <3>5. KnownIds'
      BY <2>0, <2>6 DEF CallTooLarge, KnownIds, Return, Running, Req
    <3> QED
      BY <3>4, <3>5 DEF Typed
  <2> QED
    BY <2>1, <2>4, <2>5, <2>6
<1>3. ASSUME NEW i \in Ids, Server(i) PROVE Typed'
  <2>1. CASE OrphanAborts(i)
    <3>1. NoTx \in Tx
      BY DEF NoTx, Tx, Absent, Row
    <3> QED
      BY <2>1, <3>1 DEF OrphanAborts, Typed, TypeOK, KnownIds, dbVars
  <2>2. CASE OrphanCommits(i)
    BY <2>2, InstallTypes DEF OrphanCommits, Typed, TypeOK, KnownIds
  <2> QED
    BY <1>3, <2>1, <2>2 DEF Server
<1>4. ASSUME NEW i \in Ids, AdminDepend(i) \/ AdminRelease(i) PROVE Typed'
  BY <1>4 DEF AdminDepend, AdminRelease, Typed, TypeOK, KnownIds
<1>5. CASE UNCHANGED vars
  BY <1>5 DEF vars, Typed, TypeOK, KnownIds
<1> QED
  BY <1>1, <1>2, <1>3, <1>4, <1>5 DEF Next, Quiet

\* The initial states are well typed.
LEMMA InitTyped == Init => Typed
<1> SUFFICES ASSUME Init PROVE Typed
  OBVIOUS
<1>1. Absent \in Row /\ [Absent EXCEPT !.state = "active", !.gen = 1] \in Row /\ NoTx \in Tx
  BY DEF Absent, Row, NoTx, Tx
<1>2. db \in [Ids -> Row] /\ tx \in [Ids -> Tx] /\ issued \in [Ids -> Nat]
  BY <1>1 DEF Init
<1>3. TypeOK
  BY <1>2 DEF Init, TypeOK, PCs
<1>4. KnownIds
  BY DEF Init, KnownIds, Running
<1> QED
  BY <1>3, <1>4 DEF Typed

\* Types are preserved by every reachable step, and a call that runs always
\* names an islet.
THEOREM TypeCorrect == Spec => []TypeOK
<1>1. Spec => []Typed
  BY InitTyped, NextTyped, PTL DEF Spec
<1>2. Typed => TypeOK
  BY DEF Typed
<1> QED
  BY <1>1, <1>2, PTL

(***************************************************************************)
(* The generation fence.  LockProtects, ContentFenced and CommitFenced are *)
(* not inductive: they need to know who owns which transaction, including  *)
(* the abandoned ones, and that a new identifier is nobody else's.         *)
(***************************************************************************)

\* A call that leaves a transaction behind at the server starts no other.
Over == {"mark", "reopenFailed", "done", "crashed"}

FencedCommit(i) ==
    \/ tx[i].effect = "lifecycle" /\ req[tx[i].by].op \in CreateOps
    \/ db[i].gen = req[tx[i].by].gen

\* Whose transaction holds i.
Owned(i) ==
    tx[i].phase # "none" =>
        /\ tx[i].by \in Calls
        /\ req[tx[i].by].id = i
        /\ tx[i].phase = "open" => pc[tx[i].by] \in HoldingPCs
        /\ tx[i].phase # "open" => pc[tx[i].by] \in Over
        /\ tx[i].phase = "committing" => FencedCommit(i)

\* What call c knows of the row it has locked.
Held(c) ==
    pc[c] \in HoldingPCs =>
        /\ tx[req[c].id].phase = "open"
        /\ tx[req[c].id].by = c
        /\ pc[c] \in {"locked", "cleanup", "check"} => tx[req[c].id].ws = db[req[c].id]
        /\ pc[c] \in {"check", "run", "commitBatch"} =>
             tx[req[c].id].ws.gen = db[req[c].id].gen
        /\ pc[c] \in {"cleanup", "check", "run", "commitBatch"} =>
             db[req[c].id].gen = req[c].gen
        /\ pc[c] \in CommitPCs => FencedCommit(req[c].id)

\* A call that creates an islet is the only one that knows it.
Fresh(c) ==
    /\ pc[c] \in {"idle", "create"} => res[c].ret = 0
    /\ pc[c] = "create" =>
        /\ req[c].op \in CreateOps
        /\ issued[req[c].id] = 0
        /\ \A d \in Calls \ {c} : req[d].id # req[c].id

\* Committed and uncommitted content carries the generation of its row.
Clean(i) ==
    /\ \A m \in db[i].data : m.gen = db[i].gen
    /\ \A m \in tx[i].ws.data : m.gen = tx[i].ws.gen

FenceInv ==
    /\ Typed
    /\ \A i \in Ids : Owned(i) /\ Clean(i)
    /\ \A c \in Calls : Held(c) /\ Fresh(c)

CallStep(c) ==
    Step(c) \/ Statement(c) \/ Crash(c) \/ LateMark(c) \/ LateMarkLapses(c)

\* Call c may change the transaction and the row of its islet.
Mine(c) ==
    tx[req[c].id].phase = "none" \/ (tx[req[c].id].phase = "open" /\ tx[req[c].id].by = c)

\* A step of call c leaves the other calls and the other islets alone.
LEMMA Frame ==
    ASSUME Typed, NEW c \in Calls, CallStep(c)
    PROVE  /\ \A d \in Calls \ {c} : pc'[d] = pc[d] /\ req'[d] = req[d] /\ res'[d] = res[d]
           /\ \A j \in Ids \ {req[c].id} : tx'[j] = tx[j] /\ db'[j] = db[j] /\ issued'[j] = issued[j]
<1>0. /\ pc \in [Calls -> PCs] /\ req \in [Calls -> Req] /\ res \in [Calls -> Res]
      /\ tx \in [Ids -> Tx] /\ db \in [Ids -> Row] /\ issued \in [Ids -> Nat]
  BY DEF Typed, TypeOK, Req, Res
<1> USE <1>0 DEF Goto, Return, FailWith, Fail, CommitError, dbVars
<1>1. CASE CreateRow(c) \/ LockMetadata(c) \/ Refuse(c)
  BY <1>1 DEF CreateRow, LockMetadata, Refuse
<1>2. CASE CheckDependencies(c) \/ Cleanup(c) \/ CleanupFails(c)
  BY <1>2 DEF CheckDependencies, Cleanup, CleanupFails
<1>3. CASE CommitSucceeds(c)
  BY <1>3 DEF CommitSucceeds, Install
<1>4. CASE CommitRejected(c) \/ CommitLost(c)
  BY <1>4 DEF CommitRejected, CommitLost
<1>5. CASE Lookup(c) \/ ConnectRuntime(c) \/ Enter(c)
  BY <1>5 DEF Lookup, ConnectRuntime, Enter
<1>6. CASE CheckBatch(c) \/ Finish(c) \/ Statement(c)
  BY <1>6 DEF CheckBatch, Finish, Statement
<1>7. CASE MarkFailed(c) \/ MarkFails(c) \/ LateMark(c) \/ LateMarkLapses(c) \/ Reopen(c)
  BY <1>7 DEF MarkFailed, MarkFails, LateMark, LateMarkLapses, Reopen, MarkRow
<1>8. CASE StepFails(c) \/ Crash(c)
  BY <1>8 DEF StepFails, Crash, Abandon
<1> QED
  BY <1>1, <1>2, <1>3, <1>4, <1>5, <1>6, <1>7, <1>8 DEF CallStep, Step

\* A transaction of another call, or one that was left behind, and the row it
\* has locked, are not touched by a step of call c.
LEMMA NoInterference ==
    ASSUME FenceInv, NEW c \in Calls, CallStep(c), ~Mine(c)
    PROVE  tx'[req[c].id] = tx[req[c].id] /\ db'[req[c].id] = db[req[c].id]
<1> DEFINE i == req[c].id
<1>0. /\ tx \in [Ids -> Tx] /\ db \in [Ids -> Row] /\ i \in Ids /\ Typed
      /\ Held(c) /\ Owned(i) /\ Fresh(c)
  BY ActorKnown DEF FenceInv, Typed, TypeOK, CallStep
<1>1. pc[c] \notin HoldingPCs
  BY <1>0 DEF Held, Mine
<1>2. pc[c] # "create"
  BY <1>0 DEF Fresh, Owned, Mine, HoldingPCs, Over
<1>3. Locked(i)
  BY <1>0 DEF Mine, Locked, Tx
<1>4. ~(CreateRow(c) \/ Refuse(c) \/ CheckDependencies(c) \/ Cleanup(c) \/ CleanupFails(c)
        \/ CommitSucceeds(c) \/ CommitRejected(c) \/ CommitLost(c) \/ CheckBatch(c)
        \/ Finish(c) \/ Statement(c))
  BY <1>1, <1>2 DEF HoldingPCs, CommitPCs, CreateRow, Refuse, CheckDependencies, Cleanup,
        CleanupFails, CommitSucceeds, CommitRejected, CommitLost, CheckBatch, Finish, Statement
<1>5. CASE LockMetadata(c) \/ Lookup(c) \/ ConnectRuntime(c) \/ Enter(c)
  BY <1>3, <1>5 DEF LockMetadata, LockErrors, Lookup, ConnectRuntime, Enter, EnterErrors, dbVars
<1>6. CASE MarkFailed(c) \/ MarkFails(c) \/ LateMark(c) \/ LateMarkLapses(c) \/ Reopen(c)
  BY <1>3, <1>6 DEF MarkFailed, MarkFails, LateMark, LateMarkLapses, Reopen, MarkRow, dbVars
<1>7. CASE StepFails(c) \/ Crash(c)
  BY <1>1, <1>3, <1>7 DEF StepFails, Crash, Abandon, dbVars
<1> QED
  BY <1>4, <1>5, <1>6, <1>7 DEF CallStep, Step

\* A call that is over stays so, and keeps its request.
LEMMA OverStays ==
    ASSUME Typed, NEW c \in Calls, CallStep(c), pc[c] \in Over
    PROVE  pc'[c] \in Over /\ req'[c] = req[c]
<1>0. pc \in [Calls -> PCs] /\ req \in [Calls -> Req]
  BY DEF Typed, TypeOK, Req
<1>1. ~StepFails(c)
  BY DEF StepFails, StepErrors, Over
<1>2. MarkFailed(c) \/ MarkFails(c) \/ LateMark(c) \/ LateMarkLapses(c) \/ Reopen(c) \/ Crash(c)
  BY <1>1 DEF CallStep, Step, Over, CommitPCs, CreateRow, LockMetadata, Refuse,
        CheckDependencies, Cleanup, CleanupFails, CommitSucceeds, CommitRejected, CommitLost,
        Lookup, ConnectRuntime, Enter, CheckBatch, Finish, Statement
<1> QED
  BY <1>0, <1>2 DEF MarkFailed, MarkFails, LateMark, LateMarkLapses, Reopen, Crash, Over,
        Goto, Return

\* A call keeps the islet it names.
LEMMA SameId ==
    ASSUME Typed, NEW c \in Calls, CallStep(c)
    PROVE  req'[c].id = req[c].id
<1>0. req \in [Calls -> Req]
  BY DEF Typed, TypeOK, Req
<1>1. CASE CommitSucceeds(c) \/ Lookup(c)
  BY <1>0, <1>1 DEF CommitSucceeds, Lookup, Req
<1>2. CASE ~(CommitSucceeds(c) \/ Lookup(c))
  BY <1>2 DEF CallStep, Step, Statement, Crash, LateMark, LateMarkLapses, CreateRow,
       LockMetadata, Refuse, CheckDependencies, Cleanup, CleanupFails, CommitRejected,
       CommitLost, ConnectRuntime, Enter, CheckBatch, Finish, MarkFailed, MarkFails, Reopen,
       StepFails
<1> QED
  BY <1>1, <1>2

\* What a step of call c does to its own islet.
LEMMA OwnPart ==
    ASSUME FenceInv, NEW c \in Calls, CallStep(c)
    PROVE  /\ Held(c)' /\ Fresh(c)'
           /\ Mine(c) => Owned(req[c].id)' /\ Clean(req[c].id)'
<1> DEFINE i == req[c].id
<1>0. /\ tx \in [Ids -> Tx] /\ db \in [Ids -> Row] /\ i \in Ids /\ Typed /\ TypeOK
      /\ Held(c) /\ Owned(i) /\ Fresh(c) /\ Clean(i)
      /\ pc \in [Calls -> PCs] /\ req \in [Calls -> Req] /\ res \in [Calls -> Res]
      /\ issued \in [Ids -> Nat]
  BY ActorKnown DEF FenceInv, Typed, TypeOK, CallStep, Req, Res
<1>1. CASE CreateRow(c)
  <2>1. /\ pc' = [pc EXCEPT ![c] = "commit"] /\ req' = req /\ db' = db
        /\ tx'[i] = [Begun(c, i) EXCEPT !.effect = "lifecycle", !.ws = Prepared(c, 1)]
    BY <1>0, <1>1 DEF CreateRow, Goto, dbVars
  <2>2. tx'[i].phase = "open" /\ tx'[i].by = c /\ tx'[i].effect = "lifecycle" /\ tx'[i].ws.data = {}
    BY <2>1 DEF Begun, NoTx, Prepared
  <2> QED
    BY <1>0, <1>1, <2>1, <2>2 DEF Held, Fresh, Owned, Clean, FencedCommit, HoldingPCs, CommitPCs, CreateRow
<1>2. ASSUME NEW p \in {"locked", "check"}, pc[c] \in {"lock", "enter"}, ~Locked(i),
             tx' = [tx EXCEPT ![i] = Begun(c, i)], Goto(c, p), UNCHANGED <<db, req>>,
             p = "check" => db[i].gen = req[c].gen
      PROVE  Held(c)' /\ Fresh(c)' /\ Owned(i)' /\ Clean(i)'
  <2>1. /\ pc' = [pc EXCEPT ![c] = p] /\ req' = req /\ db' = db
        /\ tx'[i] = Begun(c, i)
    BY <1>0, <1>2 DEF Goto
  <2>2. tx'[i].phase = "open" /\ tx'[i].by = c /\ tx'[i].ws = db[i]
    BY <2>1 DEF Begun, NoTx
  <2> QED
    BY <1>0, <1>2, <2>1, <2>2 DEF Held, Fresh, Owned, Clean, HoldingPCs, CommitPCs
<1>3. ASSUME NEW p \in PCs \ (HoldingPCs \cup {"idle", "create"}), Goto(c, p),
             pc[c] \notin HoldingPCs, UNCHANGED <<db, tx>>,
             req'[c].id = i
      PROVE  Held(c)' /\ Fresh(c)' /\ (Mine(c) => Owned(i)' /\ Clean(i)')
  <2>1. pc'[c] = p
    BY <1>0, <1>3 DEF Goto
  <2>2. Mine(c) => tx[i].phase = "none"
    BY <1>0, <1>3 DEF Mine, Owned
  <2> QED
    BY <1>0, <1>3, <2>1, <2>2 DEF Held, Fresh, Owned, Clean
<1>4. ASSUME NEW p \in PCs \ (HoldingPCs \cup {"idle", "create"}), Goto(c, p),
             tx' = [tx EXCEPT ![i] = NoTx], UNCHANGED <<db, req>>
      PROVE  Held(c)' /\ Fresh(c)' /\ Owned(i)' /\ Clean(i)'
  <2>1. pc'[c] = p /\ tx'[i] = NoTx
    BY <1>0, <1>4 DEF Goto
  <2> QED
    BY <1>0, <1>4, <2>1 DEF Held, Fresh, Owned, Clean, NoTx, Absent
<1>5. ASSUME NEW p \in Over, Goto(c, p), pc[c] \in HoldingPCs, UNCHANGED <<db, req>>,
             NEW q \in {"orphan", "committing"}, pc[c] \notin CommitPCs => q = "orphan",
             tx' = [tx EXCEPT ![i].phase = q]
      PROVE  Held(c)' /\ Fresh(c)' /\ Owned(i)' /\ Clean(i)'
  <2>1. pc'[c] = p /\ tx'[i] = [tx[i] EXCEPT !.phase = q]
    BY <1>0, <1>5 DEF Goto
  <2>2. tx'[i].phase = q /\ tx'[i].by = c /\ tx'[i].ws = tx[i].ws /\ tx'[i].effect = tx[i].effect
    BY <1>0, <1>5, <2>1 DEF Held, Tx
  <2>3. q = "committing" => FencedCommit(i)
    BY <1>0, <1>5 DEF Held
  <2> QED
    BY <1>0, <1>5, <2>1, <2>2, <2>3 DEF Held, Fresh, Owned, Clean, FencedCommit, Over, HoldingPCs
<1>6. /\ {"mark", "done", "crashed", "lookup", "connect", "enter", "reopen", "reopenFailed"}
           \subseteq PCs \ (HoldingPCs \cup {"idle", "create"})
      /\ {"mark", "done", "crashed"} \subseteq Over
  BY DEF PCs, LifecyclePCs, RuntimePCs, HoldingPCs, Over
<1>7. \A e, g : FailWith(c, e, g) \/ Fail(c, e) \/ Return(c, e, g) => Goto(c, "mark") \/ Goto(c, "done")
  BY DEF FailWith, Fail, Return, Goto
<1>8. CASE LockMetadata(c)
  <2>1. CASE LockErrors(c) # {} /\ UNCHANGED tx
    <3>1. Goto(c, "mark") \/ Goto(c, "done")
      BY <1>7, <1>8, <2>1 DEF LockMetadata
    <3> QED
      BY <1>3, <1>6, <1>8, <2>1, <3>1 DEF LockMetadata, HoldingPCs, dbVars
  <2>2. CASE LockErrors(c) = {} /\ tx' = [tx EXCEPT ![i] = Begun(c, i)] /\ Goto(c, "locked")
    <3>1. ~Locked(i)
      BY <2>2 DEF LockErrors
    <3> QED
      BY <1>2, <1>8, <2>2, <3>1 DEF LockMetadata, dbVars
  <2> QED
    BY <1>8, <2>1, <2>2 DEF LockMetadata
<1>9. CASE Enter(c)
  <2>1. CASE EnterErrors(c) # {} /\ UNCHANGED tx
    <3>1. Goto(c, "mark") \/ Goto(c, "done")
      BY <1>7, <1>9, <2>1 DEF Enter
    <3> QED
      BY <1>3, <1>6, <1>9, <2>1, <3>1 DEF Enter, HoldingPCs, dbVars
  <2>2. CASE EnterErrors(c) = {} /\ tx' = [tx EXCEPT ![i] = Begun(c, i)] /\ Goto(c, "check")
    <3>1. ~Locked(i) /\ db[i].gen = req[c].gen
      BY <2>2 DEF EnterErrors
    <3> QED
      BY <1>2, <1>9, <2>2, <3>1 DEF Enter, dbVars
  <2> QED
    BY <1>9, <2>1, <2>2 DEF Enter
<1>10. CASE Refuse(c) \/ CommitRejected(c)
  <2>1. Goto(c, "mark") \/ Goto(c, "done")
    BY <1>7, <1>10 DEF Refuse, CommitRejected, CommitError
  <2> QED
    BY <1>4, <1>6, <1>10, <2>1 DEF Refuse, CommitRejected, dbVars
<1>11. ASSUME NEW t, tx' = [tx EXCEPT ![i] = t], Goto(c, "commit"), UNCHANGED <<db, req>>,
              t.phase = "open", t.by = c, t.effect = "lifecycle" \/ t.effect = "failed",
              db[i].gen = req[c].gen, \A m \in t.ws.data : m.gen = t.ws.gen
       PROVE  Held(c)' /\ Fresh(c)' /\ Owned(i)' /\ Clean(i)'
  <2>1. pc'[c] = "commit" /\ tx'[i] = t
    BY <1>0, <1>11 DEF Goto
  <2> QED
    BY <1>0, <1>11, <2>1 DEF Held, Fresh, Owned, Clean, FencedCommit, HoldingPCs, CommitPCs
<1>12. ASSUME pc[c] \in {"locked", "cleanup"}
       PROVE  /\ FailedWork(i).phase = "open" /\ FailedWork(i).by = c
              /\ FailedWork(i).effect = "failed"
              /\ \A m \in FailedWork(i).ws.data : m.gen = FailedWork(i).ws.gen
  <2>1. tx[i].phase = "open" /\ tx[i].by = c /\ tx[i] \in Tx /\ db[i] \in Row
    BY <1>0, <1>12 DEF Held, HoldingPCs
  <2>2. /\ FailedWork(i).phase = "open" /\ FailedWork(i).by = c
        /\ FailedWork(i).effect = "failed"
        /\ FailedWork(i).ws = [db[i] EXCEPT !.state = "failed", !.tok = Nobody]
    BY <2>1 DEF FailedWork, Tx
  <2>3. FailedWork(i).ws.data = db[i].data /\ FailedWork(i).ws.gen = db[i].gen
    BY <2>1, <2>2 DEF Row
  <2> QED
    BY <1>0, <2>2, <2>3 DEF Clean
<1>13. CASE CheckDependencies(c)
  <2>1. db[i].gen = req[c].gen /\ pc[c] = "locked" /\ tx[i].ws = db[i]
        /\ tx[i].phase = "open" /\ tx[i].by = c
    BY <1>0, <1>13 DEF CheckDependencies, Refusal, Held, HoldingPCs
  <2>2. CASE Dependent(c)
    BY <1>11, <1>12, <1>13, <2>1, <2>2 DEF CheckDependencies, dbVars
  <2>3. CASE ~Dependent(c)
    <3>1. pc' = [pc EXCEPT ![c] = "cleanup"] /\ UNCHANGED <<tx, db, req>>
      BY <1>13, <2>3 DEF CheckDependencies, Goto, dbVars
    <3> QED
      BY <1>0, <2>1, <3>1 DEF Held, Fresh, Owned, Clean, HoldingPCs, CommitPCs
  <2> QED
    BY <2>2, <2>3
<1>14. CASE CleanupFails(c)
  <2>1. db[i].gen = req[c].gen /\ pc[c] = "cleanup"
    BY <1>0, <1>14 DEF CleanupFails, Held, HoldingPCs
  <2> QED
    BY <1>11, <1>12, <1>14, <2>1 DEF CleanupFails, dbVars
<1>15. CASE Cleanup(c)
  <2>1. /\ db[i].gen = req[c].gen /\ pc[c] = "cleanup" /\ tx[i].phase = "open" /\ tx[i].by = c
        /\ tx[i] \in Tx
    BY <1>0, <1>15 DEF Cleanup, Held, HoldingPCs
  <2> DEFINE t == [tx[i] EXCEPT !.effect = "lifecycle", !.cut = external \cap {i},
                                !.ws = Cleaned(c, tx[i].ws)]
  <2>2. /\ t.phase = "open" /\ t.by = c /\ t.effect = "lifecycle" /\ t.ws = Cleaned(c, tx[i].ws)
    BY <2>1 DEF Tx
  <2>3. t.ws.data = {}
    BY <2>2 DEF Cleaned, Absent, Prepared
  <2>4. tx' = [tx EXCEPT ![i] = t] /\ Goto(c, "commit") /\ UNCHANGED <<db, req>>
    BY <1>15 DEF Cleanup, dbVars
  <2> HIDE DEF t
  <2> QED
    BY <1>11, <2>1, <2>2, <2>3, <2>4
<1>16. CASE CommitLost(c)
  <2>1. Goto(c, "mark") \/ Goto(c, "done")
    BY <1>7, <1>16 DEF CommitLost, CommitError
  <2> QED
    BY <1>5, <1>6, <1>16, <2>1 DEF CommitLost, dbVars, CommitPCs, HoldingPCs
<1>17. CASE Lookup(c)
  <2>1. Goto(c, "mark") \/ Goto(c, "done") \/ Goto(c, "connect")
    BY <1>7, <1>17 DEF Lookup
  <2>2. req'[c].id = i
    BY <1>0, <1>17 DEF Lookup, Req
  <2> QED
    BY <1>3, <1>6, <1>17, <2>1, <2>2 DEF Lookup, HoldingPCs, dbVars
<1>18. CASE ConnectRuntime(c)
  <2>1. Goto(c, "mark") \/ Goto(c, "done") \/ Goto(c, "enter")
    BY <1>7, <1>18 DEF ConnectRuntime
  <2> QED
    BY <1>3, <1>6, <1>18, <2>1 DEF ConnectRuntime, HoldingPCs, dbVars
<1>19. CASE CheckBatch(c)
  <2>1. CASE Dependent(c)
    <3>1. Goto(c, "mark") \/ Goto(c, "done")
      BY <1>7, <1>19, <2>1 DEF CheckBatch
    <3> QED
      BY <1>4, <1>6, <1>19, <2>1, <3>1 DEF CheckBatch, dbVars
  <2>2. CASE ~Dependent(c)
    <3>1. pc' = [pc EXCEPT ![c] = "run"] /\ UNCHANGED <<tx, db, req>> /\ pc[c] = "check"
      BY <1>19, <2>2 DEF CheckBatch, Goto, dbVars
    <3> QED
      BY <1>0, <3>1 DEF Held, Fresh, Owned, Clean, HoldingPCs, CommitPCs
  <2> QED
    BY <2>1, <2>2
<1>20. CASE Finish(c)
  <2>1. /\ pc[c] = "run" /\ pc' = [pc EXCEPT ![c] = "commitBatch"] /\ UNCHANGED <<db, req>>
        /\ tx[i] \in Tx /\ tx[i].ws \in Row /\ tx[i].phase = "open" /\ tx[i].by = c
        /\ tx[i].ws.gen = db[i].gen /\ db[i].gen = req[c].gen
    BY <1>0, <1>20 DEF Finish, Goto, dbVars, Held, HoldingPCs, Tx
  <2>2. tx'[i] = [tx[i] EXCEPT !.effect = "batch", !.ws = Finished(c, tx[i].ws)]
    BY <1>0, <1>20 DEF Finish
  <2>3. tx'[i].phase = "open" /\ tx'[i].by = c /\ tx'[i].ws = Finished(c, tx[i].ws)
    BY <2>1, <2>2 DEF Tx
  <2>4. tx'[i].ws.gen = tx[i].ws.gen /\ tx'[i].ws.data = tx[i].ws.data
    BY <2>1, <2>3 DEF Finished, Row
  <2> QED
    BY <1>0, <2>1, <2>3, <2>4 DEF Held, Fresh, Owned, Clean, FencedCommit, HoldingPCs, CommitPCs
<1>21. CASE Statement(c)
  <2>1. /\ pc[c] = "run" /\ UNCHANGED <<db, pc, req, res>>
        /\ tx[i] \in Tx /\ tx[i].ws \in Row /\ tx[i].phase = "open" /\ tx[i].by = c
        /\ tx[i].ws.gen = db[i].gen /\ db[i].gen = req[c].gen
    BY <1>0, <1>21 DEF Statement, dbVars, Held, HoldingPCs, Tx
  <2>2. PICK data \in SUBSET (tx[i].ws.data \cup {[by |-> c, gen |-> req[c].gen]}) :
          tx' = [tx EXCEPT ![i].ws.data = data,
                           ![i].cut = IF db[i].data \subseteq data THEN @
                                      ELSE @ \cup (external \cap {i})]
    BY <1>21 DEF Statement
  <2>3. PICK s : tx'[i] = [tx[i] EXCEPT !.ws = [tx[i].ws EXCEPT !.data = data], !.cut = s]
    BY <1>0, <2>2
  <2>4. /\ tx'[i].phase = "open" /\ tx'[i].by = c
        /\ tx'[i].ws = [tx[i].ws EXCEPT !.data = data]
    BY <2>1, <2>3 DEF Tx
  <2>5. tx'[i].ws.gen = tx[i].ws.gen /\ tx'[i].ws.data = data
    BY <2>1, <2>4 DEF Row
  <2>6. \A m \in data : m.gen = tx[i].ws.gen
    BY <1>0, <2>1 DEF Clean
  <2> QED
    BY <1>0, <2>1, <2>4, <2>5, <2>6 DEF Held, Fresh, Owned, Clean, HoldingPCs, CommitPCs
<1>22. CASE CommitSucceeds(c)
  <2>1. db'[i] = tx[i].ws /\ tx'[i] = NoTx
    BY <1>0, <1>22 DEF CommitSucceeds, Install
  <2>2. \E p \in {"lookup", "done", "reopen"} : pc'[c] = p
    BY <1>0, <1>22 DEF CommitSucceeds, Goto, Return
  <2>3. Held(c)' /\ Fresh(c)'
    BY <2>2 DEF Held, Fresh, HoldingPCs
  <2>4. req'[c].id = i
    BY <1>0, <1>22 DEF CommitSucceeds, Req
  <2>5. Owned(i)' /\ Clean(i)'
    BY <1>0, <2>1, <2>4 DEF Owned, Clean, NoTx, Absent
  <2> QED
    BY <2>3, <2>5
<1>23. CASE MarkFailed(c) \/ LateMark(c)
  <2>1. tx' = tx /\ req' = req /\ MarkRow(c)
    BY <1>23 DEF MarkFailed, LateMark
  <2>2. /\ db'[i].data = db[i].data /\ db'[i].gen = db[i].gen
        /\ Locked(i) => db'[i] = db[i]
    BY <1>0, <2>1 DEF MarkRow, Row
  <2>3. Held(c)' /\ Fresh(c)'
    <3>1. CASE MarkFailed(c)
      <4>1. pc'[c] = "reopenFailed"
        BY <1>0, <3>1 DEF MarkFailed, Goto
      <4> QED
        BY <4>1 DEF Held, Fresh, HoldingPCs
    <3>2. CASE LateMark(c)
      <4>1. UNCHANGED <<pc, req, res, tx, issued>>
        BY <3>2 DEF LateMark
      <4>2. pc[c] \in HoldingPCs => Locked(i)
        BY <1>0 DEF Held, Locked
      <4> QED
        BY <1>0, <2>2, <4>1, <4>2 DEF Held, Fresh, FencedCommit
    <3> QED
      BY <1>23, <3>1, <3>2
  <2>4. Mine(c) => Owned(i)' /\ Clean(i)'
    <3>1. CASE MarkFailed(c)
      <4>1. Mine(c) => tx[i].phase = "none"
        BY <1>0, <3>1 DEF Mine, Owned, MarkFailed, HoldingPCs
      <4> QED
        BY <1>0, <2>1, <2>2, <4>1 DEF Owned, Clean
    <3>2. CASE LateMark(c)
      <4>1. UNCHANGED <<pc, req, tx>>
        BY <3>2 DEF LateMark
      <4> QED
        BY <1>0, <2>2, <4>1 DEF Owned, Clean, FencedCommit
    <3> QED
      BY <1>23, <3>1, <3>2
  <2> QED
    BY <2>3, <2>4
<1>24. CASE LateMarkLapses(c)
  BY <1>0, <1>24 DEF LateMarkLapses, dbVars, Held, Fresh, Owned, Clean, FencedCommit
<1>25. CASE MarkFails(c) \/ Reopen(c)
  <2>1. Goto(c, "reopenFailed") \/ Goto(c, "done")
    BY <1>25 DEF MarkFails, Reopen, Return, Goto
  <2> QED
    BY <1>3, <1>6, <1>25, <2>1 DEF MarkFails, Reopen, HoldingPCs, dbVars
<1>26. ASSUME Abandon(c), NEW p \in {"mark", "done", "crashed"}, Goto(c, p), UNCHANGED <<db, req>>
       PROVE  Held(c)' /\ Fresh(c)' /\ (Mine(c) => Owned(i)' /\ Clean(i)')
  <2>1. CASE pc[c] \in HoldingPCs
    <3>1. PICK q \in {"orphan", "committing"} :
             /\ pc[c] \notin CommitPCs => q = "orphan"
             /\ tx' = [tx EXCEPT ![i].phase = q]
      BY <1>26, <2>1 DEF Abandon, HoldingPCs
    <3> QED
      BY <1>5, <1>6, <1>26, <2>1, <3>1
  <2>2. CASE pc[c] \notin HoldingPCs /\ UNCHANGED tx
    BY <1>3, <1>6, <1>26, <2>2
  <2>3. CASE /\ pc[c] \in {"lock", "enter"}
             /\ tx' = [tx EXCEPT ![i] = [Begun(c, i) EXCEPT !.phase = "orphan"]]
    <3>1. tx'[i].phase = "orphan" /\ tx'[i].by = c /\ tx'[i].ws = db[i]
      BY <1>0, <2>3 DEF Begun, NoTx
    <3>2. pc'[c] = p /\ p \in Over /\ p \notin HoldingPCs
      BY <1>0, <1>26 DEF Goto, Over, HoldingPCs
    <3> QED
      BY <1>0, <1>26, <3>1, <3>2 DEF Held, Fresh, Owned, Clean, Over
  <2> QED
    BY <1>26, <2>1, <2>2, <2>3 DEF Abandon
<1>27. CASE StepFails(c)
  <2>1. Goto(c, "mark") \/ Goto(c, "done")
    BY <1>7, <1>27 DEF StepFails
  <2>2. UNCHANGED <<db, req>>
    BY <1>27 DEF StepFails, dbVars
  <2>3. Abandon(c) \/ tx' = [tx EXCEPT ![i] = NoTx]
    BY <1>27 DEF StepFails
  <2> QED
    BY <1>4, <1>6, <1>26, <2>1, <2>2, <2>3
<1>28. CASE Crash(c)
  BY <1>26, <1>28 DEF Crash, dbVars
<1> QED
  BY <1>1, <1>8, <1>9, <1>10, <1>13, <1>14, <1>15, <1>16, <1>17, <1>18, <1>19, <1>20,
     <1>21, <1>22, <1>23, <1>24, <1>25, <1>27, <1>28 DEF CallStep, Step

\* A step of a call keeps the fence.
LEMMA CallStepFenced ==
    ASSUME FenceInv, NEW c \in Calls, CallStep(c)
    PROVE  FenceInv'
<1> DEFINE i == req[c].id
<1>0. Typed /\ i \in Ids /\ req \in [Calls -> Req]
      /\ \A j \in Ids : Owned(j) /\ Clean(j)
      /\ \A d \in Calls : Held(d) /\ Fresh(d)
  BY ActorKnown DEF FenceInv, CallStep, Typed, TypeOK, Req
<1>1. Typed'
  BY <1>0, CallStepTyped, CallStepKnown DEF CallStep, Typed
<1>2. req'[c].id = i /\ \A d \in Calls : req'[d].id = req[d].id
  BY <1>0, SameId, Frame
<1>3. ASSUME NEW j \in Ids PROVE Owned(j)' /\ Clean(j)'
  <2>1. CASE j = i /\ Mine(c)
    BY <1>2, <2>1, OwnPart
  <2>2. CASE j = i /\ ~Mine(c)
    <3>1. tx'[j] = tx[j] /\ db'[j] = db[j]
      BY <2>2, NoInterference
    <3>2. CASE tx[j].by = c
      <4>1. pc[c] \in Over
        BY <1>0, <2>2, <3>2 DEF Owned, Mine
      <4>2. pc'[c] \in Over /\ req'[c] = req[c]
        BY <1>0, <4>1, OverStays
      <4> QED
        BY <1>0, <2>2, <3>1, <3>2, <4>1, <4>2 DEF Owned, Clean, FencedCommit, Mine
    <3>3. CASE tx[j].by # c
      <4>1. tx[j].phase # "none" =>
               pc'[tx[j].by] = pc[tx[j].by] /\ req'[tx[j].by] = req[tx[j].by]
        BY <1>0, <3>3, Frame DEF Owned
      <4> QED
        BY <1>0, <3>1, <4>1 DEF Owned, Clean, FencedCommit
    <3> QED
      BY <3>2, <3>3
  <2>3. CASE j # i
    <3>1. tx'[j] = tx[j] /\ db'[j] = db[j]
      BY <1>0, <2>3, Frame
    <3>2. tx[j].phase # "none" => tx[j].by # c
      BY <1>0, <2>3 DEF Owned
    <3>3. tx[j].phase # "none" =>
             pc'[tx[j].by] = pc[tx[j].by] /\ req'[tx[j].by] = req[tx[j].by]
      BY <1>0, <3>2, Frame DEF Owned
    <3> QED
      BY <1>0, <3>1, <3>3 DEF Owned, Clean, FencedCommit
  <2> QED
    BY <2>1, <2>2, <2>3
<1>4. ASSUME NEW d \in Calls PROVE Held(d)' /\ Fresh(d)'
  <2>1. CASE d = c
    BY <2>1, OwnPart
  <2>2. CASE d # c
    <3>0. pc'[d] = pc[d] /\ req'[d] = req[d] /\ res'[d] = res[d]
      BY <1>0, <2>2, Frame
    <3>1. Held(d)'
      <4>1. SUFFICES ASSUME pc[d] \in HoldingPCs PROVE Held(d)'
        BY <3>0 DEF Held
      <4>2. req[d].id \in Ids /\ tx[req[d].id].phase = "open" /\ tx[req[d].id].by = d
        BY <1>0, <4>1 DEF Held, Typed, KnownIds, Running, HoldingPCs, PCs, LifecyclePCs, RuntimePCs
      <4>3. tx'[req[d].id] = tx[req[d].id] /\ db'[req[d].id] = db[req[d].id]
        <5>1. CASE req[d].id = i
          BY <2>2, <4>2, <5>1, NoInterference DEF Mine
        <5>2. CASE req[d].id # i
          BY <1>0, <4>2, <5>2, Frame
        <5> QED
          BY <5>1, <5>2
      <4> QED
        BY <1>0, <3>0, <4>2, <4>3 DEF Held, FencedCommit
    <3>2. Fresh(d)'
      <4>1. CASE pc[d] = "create"
        <5>1. req[d].id # i /\ req[d].id \in Ids
          BY <1>0, <2>2, <4>1 DEF Fresh, Typed, KnownIds, Running, PCs, LifecyclePCs
        <5>2. issued'[req[d].id] = issued[req[d].id]
          BY <1>0, <5>1, Frame
        <5> QED
          BY <1>0, <1>2, <3>0, <4>1, <5>2 DEF Fresh
      <4>2. CASE pc[d] # "create"
        BY <1>0, <3>0, <4>2 DEF Fresh
      <4> QED
        BY <4>1, <4>2
    <3> QED
      BY <3>1, <3>2
  <2> QED
    BY <2>1, <2>2
<1> QED
  BY <1>1, <1>3, <1>4 DEF FenceInv

\* Every step keeps the fence.
LEMMA NextFenced == FenceInv /\ [Next]_vars => FenceInv'
<1> SUFFICES ASSUME FenceInv, [Next]_vars PROVE FenceInv'
  OBVIOUS
<1>0. /\ Typed /\ Typed' /\ pc \in [Calls -> PCs] /\ req \in [Calls -> Req]
      /\ res \in [Calls -> Res] /\ tx \in [Ids -> Tx] /\ db \in [Ids -> Row]
      /\ issued \in [Ids -> Nat]
      /\ \A j \in Ids : Owned(j) /\ Clean(j)
      /\ \A d \in Calls : Held(d) /\ Fresh(d)
  BY NextTyped DEF FenceInv, Typed, TypeOK, Req, Res
<1>1. ASSUME NEW c \in Calls, CallStep(c) PROVE FenceInv'
  BY <1>1, CallStepFenced
<1>2. ASSUME NEW c \in Calls, Invoke(c) PROVE FenceInv'
  <2>1. PICK op \in Ops : \/ \E i \in Ids : CallCreate(c, op, i)
                          \/ \E i \in Ids : \E g \in Handles(i) : CallWith(c, op, i, g)
                          \/ CallTooLarge(c, op)
    BY <1>2 DEF Invoke
  <2>2. /\ pc[c] = "idle" /\ UNCHANGED <<db, tx, issued>>
        /\ \A d \in Calls \ {c} : pc'[d] = pc[d] /\ req'[d] = req[d] /\ res'[d] = res[d]
        /\ pc'[c] \in {"create", "lookup", "lock", "done"}
    BY <1>0, <2>1 DEF CallCreate, CallWith, CallTooLarge, Goto, Return, dbVars
  <2>3. ASSUME NEW j \in Ids PROVE Owned(j)' /\ Clean(j)'
    <3>1. tx[j].phase # "none" => tx[j].by \in Calls \ {c}
      BY <1>0, <2>2 DEF Owned, HoldingPCs, Over
    <3> QED
      BY <1>0, <2>2, <3>1 DEF Owned, Clean, FencedCommit
  <2>4. ASSUME NEW d \in Calls PROVE Held(d)'
    <3>1. CASE d = c
      BY <2>2, <3>1 DEF Held, HoldingPCs
    <3>2. CASE d # c
      <4>1. pc[d] \in HoldingPCs => tx[req[d].id].by = d
        BY <1>0 DEF Held
      <4> QED
        BY <1>0, <2>2, <3>2, <4>1 DEF Held, FencedCommit
    <3> QED
      BY <3>1, <3>2
  <2>5. ASSUME NEW d \in Calls PROVE Fresh(d)'
    <3>1. ASSUME NEW i \in Ids, CallCreate(c, op, i) PROVE Fresh(d)'
      <4>1. /\ req' = [req EXCEPT ![c] = [op |-> op, id |-> i, gen |-> 1, tok |-> Nobody]]
            /\ op \in CreateOps /\ issued[i] = 0 /\ res' = res
            /\ \A e \in Calls : req[e].id # i
        BY <3>1 DEF CallCreate
      <4> QED
        BY <1>0, <2>2, <4>1 DEF Fresh
    <3>2. ASSUME NEW i \in Ids, NEW g \in Handles(i), CallWith(c, op, i, g) PROVE Fresh(d)'
      <4>1. /\ req' = [req EXCEPT ![c] = [op |-> op, id |-> i, gen |-> g, tok |-> Nobody]]
            /\ pc'[c] \in {"lock", "lookup"} /\ res' = res
        BY <1>0, <3>2 DEF CallWith, Goto
      <4>2. ASSUME NEW e \in Calls, pc[e] = "create" PROVE req[e].id # i
        BY <1>0, <3>2, <4>2 DEF Fresh, Handles
      <4> QED
        BY <1>0, <2>2, <4>1, <4>2 DEF Fresh
    <3>3. CASE CallTooLarge(c, op)
      <4>1. req'[c].id = req[c].id /\ pc'[c] = "done"
        BY <1>0, <3>3 DEF CallTooLarge, Return, Req
      <4> QED
        BY <1>0, <2>2, <4>1 DEF Fresh
    <3> QED
      BY <2>1, <3>1, <3>2, <3>3
  <2> QED
    BY <1>0, <2>3, <2>4, <2>5 DEF FenceInv
<1>3. ASSUME NEW i \in Ids, Server(i) PROVE FenceInv'
  <2>1. /\ tx[i].phase \in {"orphan", "committing"} /\ UNCHANGED <<pc, req, res>>
        /\ tx'[i] = NoTx /\ db'[i] \in {db[i], tx[i].ws}
        /\ \A j \in Ids \ {i} : tx'[j] = tx[j] /\ db'[j] = db[j] /\ issued'[j] = issued[j]
    BY <1>0, <1>3 DEF Server, OrphanAborts, OrphanCommits, Abandoned, Install, dbVars
  <2>2. ASSUME NEW j \in Ids PROVE Owned(j)' /\ Clean(j)'
    <3>1. CASE j = i
      BY <1>0, <2>1, <3>1 DEF Owned, Clean, NoTx, Absent
    <3>2. CASE j # i
      BY <1>0, <2>1, <3>2 DEF Owned, Clean, FencedCommit
    <3> QED
      BY <3>1, <3>2
  <2>3. ASSUME NEW d \in Calls PROVE Held(d)'
    <3>1. pc[d] \in HoldingPCs => req[d].id \in Ids /\ req[d].id # i
      BY <1>0, <2>1 DEF Held, Typed, KnownIds, Running, HoldingPCs, PCs, LifecyclePCs, RuntimePCs
    <3> QED
      BY <1>0, <2>1, <3>1 DEF Held, FencedCommit
  <2>4. ASSUME NEW d \in Calls PROVE Fresh(d)'
    <3>1. pc[d] = "create" => req[d].id \in Ids
      BY <1>0 DEF Typed, KnownIds, Running, PCs, LifecyclePCs
    <3>2. pc[d] = "create" => req[d].id # i
      BY <1>0, <2>1 DEF Fresh, Owned, Over
    <3> QED
      BY <1>0, <2>1, <3>1, <3>2 DEF Fresh
  <2> QED
    BY <1>0, <2>2, <2>3, <2>4 DEF FenceInv
<1>4. CASE UNCHANGED <<db, tx, issued, pc, req, res>>
  BY <1>0, <1>4 DEF FenceInv, Owned, Clean, Held, Fresh, FencedCommit
<1> QED
  BY <1>1, <1>2, <1>3, <1>4 DEF Next, CallStep, Quiet, AdminDepend, AdminRelease, vars

\* The initial states satisfy the invariant.
LEMMA InitFenced == Init => FenceInv
<1> SUFFICES ASSUME Init PROVE FenceInv
  OBVIOUS
<1>1. Typed
  BY InitTyped
<1>2. \A i \in Ids : Owned(i) /\ Clean(i)
  BY DEF Init, Owned, Clean, NoTx, Absent
<1>3. \A c \in Calls : Held(c) /\ Fresh(c)
  BY DEF Init, Held, Fresh, HoldingPCs
<1> QED
  BY <1>1, <1>2, <1>3 DEF FenceInv

\* The inductive invariant holds in every reachable state.
LEMMA FenceInvariant == Spec => []FenceInv
  BY InitFenced, NextFenced, PTL DEF Spec

\* Whatever lookup, reset, crash and late commit do in between, a schema holds
\* only what was written for the generation of its registry row.
THEOREM ContentIsFenced == Spec => []ContentFenced
<1>1. FenceInv => ContentFenced
  BY DEF FenceInv, Clean, ContentFenced
<1> QED
  BY <1>1, FenceInvariant, PTL

\* From taking the row lock to ending the transaction no other call changes
\* the row, and a batch runs against the generation of its handle.
THEOREM LockIsExclusive == Spec => []LockProtects
<1>1. FenceInv => LockProtects
  BY DEF FenceInv, Held, LockProtects
<1> QED
  BY <1>1, FenceInvariant, PTL

\* No commit, not even one whose client has gone, lands on a generation other
\* than the one its call holds.
THEOREM CommitsAreFenced == Spec => CommitFenced
<1> DEFINE A == \A c \in Calls : \A e \in did'[c] \ did[c] :
                   \/ e = "lifecycle" /\ req[c].op \in CreateOps
                   \/ db[req[c].id].gen = req[c].gen
<1>1. ASSUME FenceInv, [Next]_vars PROVE [A]_vars
  <2>0. /\ did \in [Calls -> SUBSET (Effects \cup {"none"})] /\ Typed
        /\ \A j \in Ids : Owned(j)
        /\ \A d \in Calls : Held(d)
    BY <1>1 DEF FenceInv, Typed, TypeOK
  <2>1. ASSUME NEW i \in Ids, Install(i), tx[i].by \in Calls, req[tx[i].by].id = i, FencedCommit(i)
        PROVE  A
    <3>1. did' = [did EXCEPT ![tx[i].by] = @ \cup {tx[i].effect}]
      BY <2>1 DEF Install
    <3>2. ASSUME NEW c \in Calls, NEW e \in did'[c] \ did[c]
          PROVE  c = tx[i].by /\ e = tx[i].effect
      BY <2>0, <3>1
    <3> QED
      BY <2>1, <3>2 DEF FencedCommit
  <2>2. ASSUME NEW c \in Calls, CommitSucceeds(c) PROVE A
    <3>1. pc[c] \in CommitPCs /\ Install(req[c].id)
      BY <2>2 DEF CommitSucceeds
    <3>2. req[c].id \in Ids /\ tx[req[c].id].by = c /\ FencedCommit(req[c].id)
      BY <2>0, <3>1 DEF Held, HoldingPCs, CommitPCs, Typed, KnownIds, Running, PCs,
                        LifecyclePCs, RuntimePCs
    <3> QED
      BY <2>1, <3>1, <3>2
  <2>3. ASSUME NEW i \in Ids, OrphanCommits(i) PROVE A
    BY <2>0, <2>1, <2>3 DEF OrphanCommits, Owned
  <2>4. CASE UNCHANGED did
    BY <2>4
  <2>5. ASSUME NEW c \in Calls, CallStep(c), ~CommitSucceeds(c) PROVE UNCHANGED did
    BY <2>5 DEF CallStep, Step, Statement, Crash, LateMark, LateMarkLapses, CreateRow,
         LockMetadata, Refuse, CheckDependencies, Cleanup, CleanupFails, CommitRejected,
         CommitLost, Lookup, ConnectRuntime, Enter, CheckBatch, Finish, MarkFailed, MarkFails,
         Reopen, StepFails, dbVars
  <2>6. ASSUME NEW c \in Calls, Invoke(c) PROVE UNCHANGED did
    BY <2>6 DEF Invoke, CallCreate, CallWith, CallTooLarge, dbVars
  <2>7. ASSUME NEW i \in Ids, OrphanAborts(i) \/ AdminDepend(i) \/ AdminRelease(i)
        PROVE  UNCHANGED did
    BY <2>7 DEF OrphanAborts, AdminDepend, AdminRelease, dbVars
  <2>8. UNCHANGED vars => UNCHANGED did
    BY DEF vars
  <2> HIDE DEF A
  <2> QED
    BY <1>1, <2>2, <2>3, <2>4, <2>5, <2>6, <2>7, <2>8 DEF Next, CallStep, Server, Quiet
<1>2. Spec => [][A]_vars
  BY <1>1, FenceInvariant, PTL DEF Spec
<1> QED
  BY <1>2 DEF CommitFenced

(***************************************************************************)
(* External objects                                                        *)
(***************************************************************************)

\* No transaction has dropped an external object, and none is about to: the
\* dependency check holds until the row lock is released.
Spared ==
    /\ lost = {}
    /\ \A i \in Ids : tx[i].cut = {}
    /\ \A c \in Calls : pc[c] \in {"cleanup", "run"} => req[c].id \notin external

\* What a step of a call does to the transactions' cuts and to its own check.
LEMMA CallStepSpares ==
    ASSUME FenceInv, Spared, NEW c \in Calls, CallStep(c)
    PROVE  /\ lost' = {} /\ external' \subseteq external
           /\ \A i \in Ids : tx'[i].cut = {}
           /\ pc'[c] \in {"cleanup", "run"} => req'[c].id \notin external
<1> DEFINE i == req[c].id
<1>0. /\ Typed /\ i \in Ids /\ tx \in [Ids -> Tx] /\ tx[i] \in Tx /\ pc \in [Calls -> PCs]
      /\ lost = {} /\ req'[c].id = i
      /\ \A j \in Ids : tx[j].cut = {}
      /\ pc[c] \in {"cleanup", "run"} => i \notin external
  BY ActorKnown, SameId DEF FenceInv, Typed, TypeOK, CallStep, Spared
<1>1. \A j \in Ids \ {i} : tx'[j].cut = {}
  BY <1>0, Frame
<1>2. NoTx.cut = {} /\ Begun(c, i).cut = {} /\ Begun(c, i) \in Tx
  BY <1>0, HelperTypes DEF NoTx, Begun, Typed
<1> USE DEF Goto, Return, FailWith, Fail, CommitError, dbVars
<1>3. CASE CreateRow(c)
  <2>1. tx'[i] = [Begun(c, i) EXCEPT !.effect = "lifecycle", !.ws = Prepared(c, 1)]
    BY <1>0, <1>3 DEF CreateRow
  <2>2. tx'[i].cut = {}
    BY <1>2, <2>1 DEF Tx
  <2> QED
    BY <1>0, <1>1, <1>3, <2>2 DEF CreateRow
<1>4. CASE LockMetadata(c) \/ Enter(c)
  BY <1>0, <1>1, <1>2, <1>4 DEF LockMetadata, Enter
<1>5. CASE Refuse(c) \/ CommitRejected(c)
  BY <1>0, <1>1, <1>2, <1>5 DEF Refuse, CommitRejected
<1>6. FailedWork(i).cut = {}
  BY <1>0 DEF FailedWork, Tx
<1>7. CASE CheckDependencies(c)
  BY <1>0, <1>1, <1>6, <1>7 DEF CheckDependencies, Dependent
<1>8. CASE CleanupFails(c)
  BY <1>0, <1>1, <1>6, <1>8 DEF CleanupFails
<1>9. CASE Cleanup(c)
  <2>1. i \notin external
    BY <1>0, <1>9 DEF Cleanup
  <2>2. tx'[i] = [tx[i] EXCEPT !.effect = "lifecycle", !.cut = external \cap {i},
                               !.ws = Cleaned(c, tx[i].ws)]
    BY <1>0, <1>9 DEF Cleanup
  <2>3. tx'[i].cut = {}
    BY <1>0, <2>1, <2>2 DEF Tx
  <2> QED
    BY <1>0, <1>1, <1>9, <2>3 DEF Cleanup
<1>10. CASE CommitSucceeds(c)
  BY <1>0, <1>1, <1>2, <1>10 DEF CommitSucceeds, Install
<1>11. CASE CommitLost(c)
  <2>1. tx'[i] = [tx[i] EXCEPT !.phase = "committing"]
    BY <1>0, <1>11 DEF CommitLost
  <2>2. tx'[i].cut = {}
    BY <1>0, <2>1 DEF Tx
  <2> QED
    BY <1>0, <1>1, <1>11, <2>2 DEF CommitLost
<1>12. CASE Lookup(c) \/ ConnectRuntime(c)
  BY <1>0, <1>12 DEF Lookup, ConnectRuntime
<1>13. CASE CheckBatch(c)
  BY <1>0, <1>1, <1>2, <1>13 DEF CheckBatch, Dependent
<1>14. CASE Finish(c)
  <2>1. tx'[i] = [tx[i] EXCEPT !.effect = "batch", !.ws = Finished(c, tx[i].ws)]
    BY <1>0, <1>14 DEF Finish
  <2>2. tx'[i].cut = {}
    BY <1>0, <2>1 DEF Tx
  <2> QED
    BY <1>0, <1>1, <1>14, <2>2 DEF Finish
<1>15. CASE Statement(c)
  <2>1. i \notin external /\ UNCHANGED <<pc, lost, external>>
    BY <1>0, <1>15 DEF Statement
  <2>2. PICK data :
          tx' = [tx EXCEPT ![i].ws.data = data,
                           ![i].cut = IF db[i].data \subseteq data THEN @
                                      ELSE @ \cup (external \cap {i})]
    BY <1>15 DEF Statement
  <2>3. tx[i].cut \cup (external \cap {i}) = {} /\ tx[i].cut = {}
    BY <1>0, <2>1
  <2>4. tx'[i] = [tx[i] EXCEPT !.ws = [tx[i].ws EXCEPT !.data = data], !.cut = {}]
    BY <1>0, <2>2, <2>3
  <2>5. tx'[i].cut = {}
    BY <1>0, <2>4 DEF Tx
  <2> QED
    BY <1>0, <1>1, <2>1, <2>5
<1>16. CASE MarkFailed(c) \/ MarkFails(c) \/ LateMark(c) \/ LateMarkLapses(c) \/ Reopen(c)
  BY <1>0, <1>16 DEF MarkFailed, MarkFails, LateMark, LateMarkLapses, Reopen
<1>17. ASSUME Abandon(c) PROVE tx'[i].cut = {}
  <2>1. ASSUME NEW q, tx' = [tx EXCEPT ![i].phase = q] PROVE tx'[i].cut = {}
    <3>1. tx'[i] = [tx[i] EXCEPT !.phase = q]
      BY <1>0, <2>1
    <3> QED
      BY <1>0, <3>1 DEF Tx
  <2>2. ASSUME tx' = [tx EXCEPT ![i] = [Begun(c, i) EXCEPT !.phase = "orphan"]]
        PROVE  tx'[i].cut = {}
    BY <1>0, <1>2, <2>2 DEF Tx
  <2> QED
    BY <1>0, <1>17, <2>1, <2>2 DEF Abandon
<1>18. CASE StepFails(c) \/ Crash(c)
  BY <1>0, <1>1, <1>2, <1>17, <1>18 DEF StepFails, Crash
<1> QED
  BY <1>3, <1>4, <1>5, <1>7, <1>8, <1>9, <1>10, <1>11, <1>12, <1>13, <1>14, <1>15, <1>16,
     <1>18 DEF CallStep, Step

\* Where administrators keep away from an islet that is being operated on, no
\* cleanup and no batch destroys an object outside its islet, although every
\* DROP says CASCADE.
THEOREM ExternalObjectsSurvive ==
    ASSUME Admin # "racing"
    PROVE  Spec => []ExternalSurvives
<1>1. Init => Spared
  BY DEF Init, Spared, NoTx
<1>2. ASSUME FenceInv, Spared, [Next]_vars PROVE Spared'
  <2>0. /\ lost = {} /\ tx \in [Ids -> Tx] /\ req \in [Calls -> Req]
        /\ pc \in [Calls -> PCs] /\ Typed
        /\ \A j \in Ids : tx[j].cut = {}
        /\ \A d \in Calls : Held(d) /\ (pc[d] \in {"cleanup", "run"} => req[d].id \notin external)
    BY <1>2 DEF FenceInv, Typed, TypeOK, Spared, Req
  <2>1. ASSUME NEW c \in Calls, CallStep(c) PROVE Spared'
    <3>1. \A d \in Calls \ {c} : pc'[d] = pc[d] /\ req'[d] = req[d]
      BY <2>0, <2>1, Frame
    <3> QED
      BY <1>2, <2>0, <2>1, <3>1, CallStepSpares DEF Spared
  <2>2. ASSUME NEW c \in Calls, Invoke(c) PROVE Spared'
    <3>1. UNCHANGED <<lost, tx, external>>
          /\ \A d \in Calls : d # c => pc'[d] = pc[d] /\ req'[d] = req[d]
      BY <2>0, <2>2 DEF Invoke, CallCreate, CallWith, CallTooLarge, dbVars, Goto, Return
    <3>2. pc'[c] \in {"create", "lock", "lookup", "done"}
      BY <2>0, <2>2 DEF Invoke, CallCreate, CallWith, CallTooLarge, Goto, Return
    <3> QED
      BY <2>0, <3>1, <3>2 DEF Spared
  <2>3. ASSUME NEW i \in Ids, Server(i) PROVE Spared'
    BY <2>0, <2>3 DEF Server, OrphanAborts, OrphanCommits, Install, Spared, NoTx, dbVars
  <2>4. ASSUME NEW i \in Ids, AdminDepend(i) \/ AdminRelease(i) PROVE Spared'
    <3>1. AdminDepend(i) => \A d \in Calls : pc[d] \in {"cleanup", "run"} => req[d].id # i
      BY <1>2, <2>0 DEF AdminDepend, Locked, Held, HoldingPCs
    <3> QED
      BY <2>0, <2>4, <3>1 DEF AdminDepend, AdminRelease, Spared
  <2>5. CASE UNCHANGED vars
    BY <1>2, <2>5 DEF vars, Spared
  <2> QED
    BY <1>2, <2>1, <2>2, <2>3, <2>4, <2>5 DEF Next, CallStep, Quiet
<1>3. Spec => []Spared
  BY <1>1, <1>2, FenceInvariant, PTL DEF Spec
<1>4. Spared => ExternalSurvives
  BY DEF Spared, ExternalSurvives
<1> QED
  BY <1>3, <1>4, PTL

=============================================================================
