----------------------------- MODULE Execution -----------------------------
(***************************************************************************)
(* The statements of a batch inside its transaction (execute.go): for each *)
(* one the functions of the islet are read again, the policy walks its     *)
(* parse tree (SQLPolicy), and PostgreSQL runs it within the budget        *)
(* (ResultBudget).  How the transaction comes about and ends is            *)
(* IsletEngine's subject; here COMMIT succeeds or rolls back.              *)
(*                                                                         *)
(* Of a statement's effects only the functions it makes and drops are      *)
(* kept.  Nobody else changes the islet's functions meanwhile: the batch   *)
(* holds the islet's row lock.                                             *)
(***************************************************************************)
EXTENDS SQLPolicy, ResultBudget

CONSTANTS
    Length,    \* the length of each text
    Batches,   \* the sequences of texts that are tried
    Configs,   \* the configurations that are tried
    Catalogs   \* the functions the islet may have at first

ASSUME LengthAssumption == Length \in [Texts -> Nat]
ASSUME BatchesAssumption == Batches \subseteq Seq(Texts)
ASSUME ConfigsAssumption == Configs \subseteq [Fields -> Int]
ASSUME CatalogsAssumption == Catalogs \subseteq SUBSET STRING

VARIABLES
    step,      \* where execute stands
    batch,     \* the statements
    committed, \* the functions of the islet
    catalog,   \* the same as the transaction sees them
    sent,      \* how many statements PostgreSQL was given (history)
    outcome    \* the error kind, and the statement it names, if any

execVars == <<step, batch, committed, catalog, sent, outcome>>
vars == <<policyVars, budgetVars, execVars>>

\* The statement in hand, counted from 1.
Current == batch[Len(results) + 1]

Ended(err, stmt) ==
    /\ step' = "done"
    /\ outcome' = [err |-> err, stmt |-> stmt]

\* The batch fails, and the deferred rollback undoes what it did.
RolledBack(err, stmt) ==
    /\ Ended(err, stmt)
    /\ catalog' = committed
    /\ UNCHANGED committed

Init ==
    \E cfg \in Configs :
    /\ PolicyInit
    /\ BudgetInit(cfg)
    /\ step = IF Valid(cfg) THEN "idle" ELSE "rejected"
    /\ batch = <<>>
    /\ committed \in Catalogs
    /\ catalog = committed
    /\ sent = 0
    /\ outcome = [err |-> "none", stmt |-> -1]

\* Batch and execute, up to the loop.
Begin(b) ==
    /\ step = "idle"
    /\ batch' = b
    /\ LET lengths == [i \in DOMAIN b |-> Length[b[i]]] IN
       \/ /\ TooLarge(lengths)
          /\ Ended("SQLTooLarge", -1)
          /\ UNCHANGED budgetVars
       \/ /\ ~TooLarge(lengths)
          /\ Allot
          /\ step' = "loop"
          /\ UNCHANGED outcome
    /\ UNCHANGED <<policyVars, committed, catalog, sent>>

\* As LocalFunctions, but read outside the transaction.
LocalFunctionsCommitted == committed \ Reserved

\* localFunctions: the names in the schema, without the reserved ones.
LocalFunctions == catalog \ Reserved

\* The functions are read, and the statement is given to the policy.
Inspect ==
    /\ step = "loop"
    /\ Len(results) < Len(batch)
    /\ Check(Current, LocalFunctions)
    /\ step' = "policy"
    /\ UNCHANGED <<budgetVars, batch, committed, catalog, sent, outcome>>

\* Reading the functions fails; its error names no statement.
InspectFails ==
    /\ step = "loop"
    /\ Len(results) < Len(batch)
    /\ RolledBack("Query", -1)
    /\ UNCHANGED <<policyVars, budgetVars, batch, sent>>

PolicyStep ==
    /\ step = "policy"
    /\ Walk
    /\ UNCHANGED <<budgetVars, execVars>>

PolicyError ==
    /\ step = "policy"
    /\ verdict = "refused"
    /\ RolledBack("Policy", Len(results))
    /\ UNCHANGED <<policyVars, budgetVars, batch, sent>>

\* The statement is sent.
Send ==
    /\ step = "policy"
    /\ verdict = "allowed"
    /\ sent' = sent + 1
    /\ step' = "query"
    /\ \/ \E names \in Headers : Describe(names)
       \/ DescribeFails
    /\ UNCHANGED <<policyVars, batch, committed, catalog, outcome>>

Fetch ==
    /\ step = "query"
    /\ Rows
    /\ UNCHANGED <<policyVars, execVars>>

\* The functions a statement that has run leaves behind.
Applied(text) ==
    LET top == {Node[e] : e \in UNION Range(Parse[text])}
        made == {FunctionName(n) : n \in {x \in top : Defines(x)}}
        gone == {FunctionName(n) : n \in {x \in top : x.key = "DropStmt" /\ x.parts # <<>>}} IN
    (catalog \ gone) \cup made

\* query returns without an error.
Complete ==
    /\ step = "query"
    /\ query = "ok"
    /\ catalog' = Applied(batch[Len(results)])
    /\ step' = "loop"
    /\ UNCHANGED <<policyVars, budgetVars, batch, committed, sent, outcome>>

\* As NamedStatement, but counted after the result is there.
NamedStatementNext == Len(results)

\* The index an *Error gets.
NamedStatement == Len(results) - 1

\* query returns an error; the transaction is rolled back.
QueryError ==
    /\ step = "query"
    /\ query \in {"error", "limit", "bareLimit"}
    /\ RolledBack(IF query = "error" THEN "Query" ELSE "ResultLimit",
                  IF query = "bareLimit" THEN -1 ELSE NamedStatement)
    /\ UNCHANGED <<policyVars, budgetVars, batch, sent>>

\* Every statement has run.
Commit ==
    /\ step = "loop"
    /\ Len(results) = Len(batch)
    /\ \/ Ended("nil", -1) /\ committed' = catalog /\ UNCHANGED catalog
       \/ RolledBack("Query", -1)
    /\ UNCHANGED <<policyVars, budgetVars, batch, sent>>

Quiet == step \in {"done", "rejected"} /\ UNCHANGED vars

Next ==
    \/ \E b \in Batches : Begin(b)
    \/ Inspect \/ InspectFails \/ PolicyStep \/ PolicyError
    \/ Send \/ Fetch \/ Complete \/ QueryError \/ Commit
    \/ Quiet

Spec == Init /\ [][Next]_vars

(***************************************************************************)
(* Properties                                                              *)
(***************************************************************************)

\* Every variable keeps its type.
TypeOK ==
    /\ work \in Seq([todo : SUBSET Entries, depth : 0 .. MaxNesting])
    /\ local \subseteq STRING /\ known \subseteq local
    /\ verdict \in {"none", "walking", "allowed", "refused"}
    /\ seen \subseteq Entries
    /\ config \in [Fields -> Int]
    /\ rowsLeft \in Nat /\ bytesLeft \in Int
    /\ query \in {"none", "rows", "ok", "error", "limit", "bareLimit"}
    /\ results \in Seq([columns : Nat, rows : Nat, truncated : BOOLEAN])
    /\ produced \in [rows : Nat, bytes : Nat]
    /\ step \in {"idle", "rejected", "loop", "policy", "query", "done"}
    /\ batch \in Seq(Texts)
    /\ committed \subseteq STRING /\ catalog \subseteq STRING
    /\ sent \in Nat
    /\ outcome \in [err : {"none", "nil", "SQLTooLarge", "Policy", "Query", "ResultLimit"},
                    stmt : Int]

\* Whatever earlier statements of the batch made or dropped, a statement that
\* PostgreSQL is given was inspected from its root, and calls only builtins,
\* functions the islet has at that moment and functions it defines itself
\* (localFunctions before each Check).
ExecutedAllowed ==
    step = "query" /\ query = "rows" =>
    /\ UNION Range(Parse[batch[Len(results)]]) \subseteq seen
    /\ \A e \in seen : Calls(Node[e]) =>
          Callable(Node[e].parts, (catalog \ Reserved) \cup Defined(seen))

\* Limits are exact: a batch is too large if and only if it has too many
\* statements or bytes, however they are split; it fails with ErrResultLimit
\* only if the server has sent more rows or bytes than allowed, and does not
\* succeed if it has (checkSize, query).
LimitsExact ==
    LET size == Total([i \in DOMAIN batch |-> Length[batch[i]]])
        over == \/ produced.rows > config.MaxRows
                \/ produced.bytes > config.MaxResultBytes IN
    step = "done" =>
    /\ outcome.err = "SQLTooLarge" <=>
          Len(batch) > config.MaxBatchStatements \/ size > config.MaxSQLBytes
    /\ outcome.err = "ResultLimit" => over
    /\ outcome.err = "nil" => ~over

\* A caller can tell what ran: an index in an error is that of the statement
\* that failed, everything before it has a complete result and nothing after it
\* was sent; only ErrResultLimit truncates, and only the last result
\* (README.md:458 and :805).
ErrorLocated ==
    step = "done" =>
    /\ sent = Len(results)
    /\ outcome.err = "nil" => sent = Len(batch)
    /\ outcome.err = "Policy" => outcome.stmt = sent
    /\ outcome.err # "Policy" /\ outcome.stmt # -1 => outcome.stmt = sent - 1
    /\ \A i \in DOMAIN results :
          results[i].truncated <=> i = Len(results) /\ outcome.err = "ResultLimit"

=============================================================================
