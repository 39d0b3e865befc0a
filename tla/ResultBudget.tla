---------------------------- MODULE ResultBudget ----------------------------
(***************************************************************************)
(* The limits of a Manager (config.go, checkSize) and the budget of rows   *)
(* and bytes that the statements of a batch share (result.go).             *)
(*                                                                         *)
(* A statement is known here by its length, a result by the lengths of     *)
(* its column names and values; NULL counts like an empty string.          *)
(***************************************************************************)
EXTENDS Integers, Sequences, SequencesExt

CONSTANTS
    Fields,   \* the fields of Config that normalized looks at
    Default,  \* what a field that is 0 stands for
    Least,    \* the least valid value: 1, or a millisecond
    Headers,  \* column names of results, as sequences of lengths
    Values    \* lengths of values

ASSUME FieldsAssumption ==
    {"MaxSQLBytes", "MaxBatchStatements", "MaxRows", "MaxResultBytes"} \subseteq Fields
ASSUME LimitsAssumption == Default \in [Fields -> Int] /\ Least \in [Fields -> Nat \ {0}]
ASSUME LengthsAssumption == Headers \subseteq Seq(Nat) /\ Values \subseteq Nat

VARIABLES
    config,    \* m.config
    rowsLeft, bytesLeft,
    query,     \* how far query() is with its statement
    results,   \* the results so far: their columns, rows and Truncated
    produced   \* the rows and bytes the server has sent (history)

budgetVars == <<config, rowsLeft, bytesLeft, query, results, produced>>

\* normalized: a field that is 0 gets its default.
Normalized(cfg) == [f \in Fields |-> IF cfg[f] = 0 THEN Default[f] ELSE cfg[f]]

Valid(cfg) == \A f \in Fields : Normalized(cfg)[f] >= Least[f]

BudgetInit(cfg) ==
    /\ config = Normalized(cfg)
    /\ rowsLeft = 0 /\ bytesLeft = 0
    /\ query = "none"
    /\ results = <<>>
    /\ produced = [rows |-> 0, bytes |-> 0]

(***************************************************************************)
(* checkSize.  left is what remains of MaxSQLBytes after each statement,   *)
(* negative once one did not fit.                                          *)
(***************************************************************************)
Left(lengths) ==
    FoldLeft(LAMBDA left, n : IF n > left THEN -1 ELSE left - n,
             config.MaxSQLBytes, lengths)

TooLarge(lengths) ==
    \/ Len(lengths) > config.MaxBatchStatements
    \/ Left(lengths) < 0

\* The batch gets its budget.
Allot ==
    /\ rowsLeft' = config.MaxRows
    /\ bytesLeft' = config.MaxResultBytes
    /\ UNCHANGED <<config, query, results, produced>>

(***************************************************************************)
(* query                                                                   *)
(***************************************************************************)

Total(sizes) == FoldLeft(LAMBDA sum, n : sum + n, 0, sizes)

\* What names or values of these lengths cost.
Cost(lengths, overhead) == Total([i \in DOMAIN lengths |-> lengths[i] + overhead])

\* As HeaderCost, but names are free.
HeaderFree(names) == 0

HeaderCost(names) == Cost(names, 4)

\* The server describes the columns.
Describe(names) ==
    /\ bytesLeft' = bytesLeft - HeaderCost(names)
    /\ produced' = [produced EXCEPT !.bytes = @ + Cost(names, 4)]
    /\ results' = Append(results, [columns |-> Len(names), rows |-> 0, truncated |-> FALSE])
    /\ query' = "rows"
    /\ UNCHANGED <<config, rowsLeft>>

\* The statement fails before it has columns.
DescribeFails ==
    /\ results' = Append(results, [columns |-> 0, rows |-> 0, truncated |-> FALSE])
    /\ query' = "error"
    /\ UNCHANGED <<config, rowsLeft, bytesLeft, produced>>

Exceeds(size) == rowsLeft <= 0 \/ size > bytesLeft

\* A row arrives: it is kept, or the connection is closed on it.
Row(values) ==
    LET size == Cost(values, 1) IN
    /\ query = "rows"
    /\ Len(values) = Last(results).columns
    /\ produced' = [rows |-> produced.rows + 1, bytes |-> produced.bytes + size]
    /\ \/ /\ Exceeds(size)
          /\ results' = [results EXCEPT ![Len(results)].truncated = TRUE]
          /\ query' = "limit"
          /\ UNCHANGED <<rowsLeft, bytesLeft>>
       \/ /\ ~Exceeds(size)
          /\ results' = [results EXCEPT ![Len(results)].rows = @ + 1]
          /\ rowsLeft' = rowsLeft - 1
          /\ bytesLeft' = bytesLeft - size
          /\ UNCHANGED query
    /\ UNCHANGED config

\* The rows end with an error.
RowsFail ==
    /\ query = "rows"
    /\ query' = "error"
    /\ UNCHANGED <<config, rowsLeft, bytesLeft, results, produced>>

\* The rows end.  Column names alone may have used up the bytes; that error
\* carries no statement index.
RowsEnd ==
    /\ query = "rows"
    /\ \/ /\ bytesLeft < 0
          /\ results' = [results EXCEPT ![Len(results)].truncated = TRUE]
          /\ query' = "bareLimit"
       \/ /\ bytesLeft >= 0
          /\ query' = "ok"
          /\ UNCHANGED results
    /\ UNCHANGED <<config, rowsLeft, bytesLeft, produced>>

Rows ==
    \/ RowsFail
    \/ RowsEnd
    \/ \E names \in Headers : \E values \in [DOMAIN names -> Values] : Row(values)

=============================================================================
