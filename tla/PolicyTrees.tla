---------------------------- MODULE PolicyTrees ----------------------------
(***************************************************************************)
(* A small collection of parse trees for model checking: one text for each *)
(* rule of the policy, and function definitions with text and atomic       *)
(* bodies, nested up to and beyond the limit, whose parts define and call  *)
(* functions in different orders.                                          *)
(***************************************************************************)
EXTENDS SQLPolicy, TLC

Plain(key, arg) ==
    [key |-> key, arg |-> arg, parts |-> <<>>, kids |-> <<>>, opts |-> <<>>, atomic |-> FALSE]

With(key, kids) == [Plain(key, "") EXCEPT !.kids = kids]
Named(key, parts) == [Plain(key, "") EXCEPT !.parts = parts]

Opt(name, arg) == [defname |-> name, arg |-> arg]
SQL == Opt("language", "sql")

Function(parts, opts) == [Named("CreateFunctionStmt", parts) EXCEPT !.opts = opts]

\* One entry for each constant rule, allowed or not.
Rules ==
    "GrantStmt" :> Plain("GrantStmt", "") @@
    "DropSchema" :> Plain("DropStmt", "OBJECT_SCHEMA") @@
    "RenameSchema" :> Plain("RenameStmt", "OBJECT_SCHEMA") @@
    "Owner" :> Plain("AlterTableCmd", "AT_ChangeOwner") @@
    "AddColumn" :> Plain("AlterTableCmd", "AT_AddColumn") @@
    "Temp" :> Plain("RangeVar", "t") @@
    "Unlogged" :> Plain("relpersistence", "u") @@
    "Concurrent" :> Plain("IndexStmt", "concurrent") @@
    "Space" :> Plain("tablespacename", "fast") @@
    "Setting" :> Plain("DefElem", "set")

Funcs ==
    "call f" :> With("SelectStmt", <<{"f()"}>>) @@
    "f()" :> Named("FuncCall", <<"f">>) @@
    "call lower" :> With("SelectStmt", <<{"catalog.lower()", "islet.f()"}>>) @@
    "catalog.lower()" :> Named("FuncCall", <<"pg_catalog", "lower">>) @@
    "islet.f()" :> Named("FuncCall", <<"islet", "f">>) @@
    "catalog.f()" :> Named("FuncCall", <<"pg_catalog", "f">>) @@
    "islet.lower()" :> Named("FuncCall", <<"islet", "lower">>) @@
    "trigger" :> Named("CreateTrigStmt", <<"other", "f">>) @@
    "long" :> Named("funcname", <<"db", "islet", "f">>) @@
    "drop f" :> [Plain("DropStmt", "OBJECT_FUNCTION") EXCEPT !.parts = <<"f">>] @@
    \* f calls itself.
    "def f" :> [Function(<<"f">>, <<SQL, Opt("as", "call f")>>) EXCEPT !.kids = <<{"def f.funcname"}>>] @@
    "def f.funcname" :> Named("funcname", <<"f">>) @@
    "def lower" :> Function(<<"islet", "lower">>, <<SQL, Opt("as", "rows")>>) @@
    "def other" :> Function(<<"other", "g">>, <<SQL, Opt("as", "rows")>>) @@
    "def plpgsql" :> Function(<<"g">>, <<Opt("language", "plpgsql"), Opt("as", "rows")>>) @@
    "def set" :> Function(<<"g">>, <<SQL, Opt("set", ""), Opt("as", "rows")>>) @@
    "def c" :> Function(<<"g">>, <<SQL, Opt("as", NotOne)>>) @@
    "def none" :> Function(<<"g">>, <<SQL, Opt("as", Empty)>>) @@
    "def grant" :> Function(<<"g">>, <<SQL, Opt("as", "GrantStmt")>>) @@
    "def noise" :> Function(<<"g">>, <<SQL, Opt("as", "noise")>>) @@
    \* Bodies in bodies: two levels are allowed, three are not.
    "def g" :> Function(<<"g">>, <<SQL, Opt("as", "def f")>>) @@
    "def h" :> Function(<<"h">>, <<SQL, Opt("as", "def g")>>) @@
    \* A body calls f before or after it defines it.
    "def late" :> Function(<<"h">>, <<SQL, Opt("as", "late")>>) @@
    "def early" :> Function(<<"h">>, <<SQL, Opt("as", "early")>>) @@
    \* The default of a parameter calls what the text of the body defines, or
    \* what the atomic body defines, which stands beside it in the same map.
    "text" :> [Function(<<"g">>, <<SQL, Opt("as", "def f")>>) EXCEPT !.kids = <<{"default"}>>] @@
    "atomic" :> [Function(<<"g">>, <<SQL>>) EXCEPT !.atomic = TRUE, !.kids = <<{"default", "sql_body"}>>] @@
    "default" :> With("parameters", <<{"f()"}>>) @@
    "sql_body" :> With("sql_body", <<{"def f"}, {"call f"}>>)

MCNode == Rules @@ Funcs @@ "rows" :> Plain("SelectStmt", "")

MCEntries == DOMAIN MCNode

\* Most texts are one statement and bear the name of its entry.
MCParse ==
    [e \in MCEntries |-> <<{e}>>] @@
    "two" :> <<{"rows"}, {"call f"}>> @@ "noise" :> <<>> @@ "nothing" :> <<>> @@
    "late" :> <<{"call f"}, {"def f"}>> @@ "early" :> <<{"def f"}, {"call f"}>>

MCTexts == DOMAIN MCParse

=============================================================================
