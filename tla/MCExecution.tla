---------------------------- MODULE MCExecution ----------------------------
(***************************************************************************)
(* Execution on the texts of PolicyTrees, one by one, and on batches that  *)
(* make, call and drop a function in every order.                          *)
(***************************************************************************)
EXTENDS PolicyDecisions, PolicyTrees

MCLength == [t \in MCTexts |-> IF t \in {"def f", "atomic"} THEN 2 ELSE 1]

MCBatches ==
    {<<t>> : t \in MCTexts} \cup
    {<<"two", t>> : t \in MCTexts} \cup
    UNION {[1 .. n -> {"def f", "call f", "drop f"}] : n \in {0, 2, 3, 4}}

MCFields ==
    {"OperationTimeout", "StatementTimeout", "LockTimeout", "IdleTransactionTimeout",
     "MaxSQLBytes", "MaxBatchStatements", "MaxRows", "MaxResultBytes"}

MCDefault ==
    [f \in MCFields |-> CASE f = "MaxSQLBytes" -> 5
                         [] f = "MaxBatchStatements" -> 3
                         [] f = "MaxRows" -> 2
                         [] f = "MaxResultBytes" -> 13
                         [] OTHER -> 10]

MCLeast == [f \in MCFields |-> 1]

Unset == [f \in MCFields |-> 0]

MCConfigs ==
    {Unset, [Unset EXCEPT !["MaxRows"] = -1],
     [Unset EXCEPT !["MaxRows"] = 1, !["MaxResultBytes"] = 6, !["MaxSQLBytes"] = 4]}

MCHeaders == {<<>>, <<1>>, <<3, 0>>}

=============================================================================
