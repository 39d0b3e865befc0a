--------------------------- MODULE IsletWorkspace ---------------------------
(***************************************************************************)
(* What the engine promises about the workspaces it manages, seen through  *)
(* committed state alone: no locks, transactions, connections or calls.    *)
(* A workspace has a lifecycle state, a generation and a content.  Every   *)
(* step below is atomic; IsletEngine implements it (README.md, "Initial-   *)
(* ization and lifecycle").                                                *)
(***************************************************************************)
EXTENDS Naturals

CONSTANTS Ids, Calls

VARIABLES
    ws,   \* state, generation and content of every workspace
    used  \* identifiers that have ever named a workspace

wsVars == <<ws, used>>

Gone == [state |-> "absent", gen |-> 0, data |-> {}]
Empty(state, g) == [state |-> state, gen |-> g, data |-> {}]

WInit ==
    /\ used \in SUBSET Ids
    /\ ws = [i \in Ids |-> IF i \in used THEN Empty("active", 1) ELSE Gone]

\* A fresh identifier gets a workspace, empty and ready or still to be
\* initialized.
Create(i) ==
    /\ i \notin used
    /\ used' = used \cup {i}
    /\ \E s \in {"active", "initializing"} : ws' = [ws EXCEPT ![i] = Empty(s, 1)]

\* Reset, Recover and Reinitialize: nothing survives, the generation moves on.
\* An interrupted initialization can only be recovered to an active workspace.
Clear(i) ==
    /\ ws[i].state # "absent"
    /\ \E s \in {"active", "initializing"} :
          /\ ws[i].state = "initializing" => s = "active"
          /\ ws' = [ws EXCEPT ![i] = Empty(s, ws[i].gen + 1)]
    /\ UNCHANGED used

\* A batch of one call changes the content of an active workspace.
Run(i) ==
    /\ ws[i].state = "active"
    /\ \E c \in Calls :
          \E data \in SUBSET (ws[i].data \cup {[by |-> c, gen |-> ws[i].gen]}) :
             ws' = [ws EXCEPT ![i].data = data]
    /\ UNCHANGED used

\* The initialization batch and the activation are one step, and it starts
\* from an empty workspace.
Initialize(i) ==
    /\ ws[i].state = "initializing"
    /\ \E c \in Calls :
          \E data \in SUBSET {[by |-> c, gen |-> ws[i].gen]} :
             ws' = [ws EXCEPT ![i].state = "active", ![i].data = data]
    /\ UNCHANGED used

\* A failed cleanup or initialization is recorded and touches nothing else.
MarkAsFailed(i) ==
    /\ ws[i].state # "absent"
    /\ ws' = [ws EXCEPT ![i].state = "failed"]
    /\ UNCHANGED used

\* A deleted workspace never comes back.
Delete(i) ==
    /\ ws[i].state \in {"active", "failed"}
    /\ ws' = [ws EXCEPT ![i] = Gone]
    /\ UNCHANGED used

WNext ==
    \E i \in Ids : \/ Create(i) \/ Clear(i) \/ Run(i) \/ Initialize(i)
                   \/ MarkAsFailed(i) \/ Delete(i)

WSpec == WInit /\ [][WNext]_wsVars

=============================================================================
