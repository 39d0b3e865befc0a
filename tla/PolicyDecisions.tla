-------------------------- MODULE PolicyDecisions --------------------------
(***************************************************************************)
(* Whether the policy's decisions vary: a caller whose batch was refused   *)
(* sends it again, to the same islet.  The refused batch was rolled back   *)
(* and the islet has the functions it had, so that Check is called again   *)
(* with the arguments of the first time, as FuzzPolicySQL does.  The maps  *)
(* of the parse tree may be visited in another order.                      *)
(***************************************************************************)
EXTENDS Execution

VARIABLE refused  \* the batch that is sent again, and its statement that was refused

NotRefused == [batch |-> <<>>, stmt |-> -1]

ResendInit == Init /\ refused = NotRefused

\* The caller sends a batch again that was refused; Batch has returned, and of
\* the first time nothing is left but what is in the database.
Resend ==
    /\ step = "done"
    /\ outcome.err = "Policy"
    /\ refused = NotRefused
    /\ refused' = [batch |-> batch, stmt |-> outcome.stmt]
    /\ step' = "idle" /\ batch' = <<>> /\ sent' = 0
    /\ outcome' = [err |-> "none", stmt |-> -1]
    /\ work' = <<>> /\ local' = {} /\ known' = {} /\ seen' = {} /\ verdict' = "none"
    /\ results' = <<>> /\ query' = "none" /\ rowsLeft' = 0 /\ bytesLeft' = 0
    /\ produced' = [rows |-> 0, bytes |-> 0]
    /\ UNCHANGED <<config, committed, catalog>>

Again == step = "idle" /\ refused # NotRefused => batch' = refused.batch

ResendNext == Resend \/ (Next /\ Again /\ UNCHANGED refused)

ResendSpec == ResendInit /\ [][ResendNext]_<<vars, refused>>

(***************************************************************************)
(* Properties                                                              *)
(***************************************************************************)

\* The statement that was refused is given to PostgreSQL the second time.
Reversed == step = "query" /\ refused.stmt >= 0 /\ sent = refused.stmt + 1

\* The decision about a statement does not vary: "nondeterministic policy
\* decision" is what FuzzPolicySQL fails with (policy_test.go:218).  It does
\* vary, as walk visits the entries of a map in random order (policy.go:79).
DecisionStable == ~Reversed

\* The maps of a text: those of its statements and those within its entries.
Maps(text) ==
    LET statements == Range(Parse[text]) IN
    statements \cup
    UNION {Range(Node[e].kids) \cup (IF HasText(Node[e]) THEN Range(Parse[Body(Node[e])]) ELSE {})
             : e \in Within(UNION statements)}

\* Somewhere below one entry of a map a function is called that is not among
\* these names, and below another entry of the same map it is defined.
DefinedBeside(text, names) ==
    \E map \in Maps(text) : \E x \in map : \E y \in map \ {x} :
       \E e \in Within({x}) :
          /\ Calls(Node[e]) /\ Node[e].parts # <<>>
          /\ ~Callable(Node[e].parts, names)
          /\ FunctionName(Node[e]) \in Defined(Within({y}))

\* Nothing else makes a decision vary: a statement that was refused is refused
\* again unless one entry of a map calls what only another entry of that map
\* defines.  What earlier statements of the batch made is gone after the refusal
\* and is there again at the same statement; the depth starts from 0; the
\* statements of a body are taken in their order, and a body in a text comes
\* before the rest of its definition (execute, Check, walk and definition).
DecisionOrdered == Reversed => DefinedBeside(batch[sent], known)

=============================================================================
