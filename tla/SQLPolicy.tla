----------------------------- MODULE SQLPolicy -----------------------------
(***************************************************************************)
(* The SQL policy (internal/policy): Check parses one statement and walks  *)
(* its parse tree; the text of an SQL function body is parsed and walked   *)
(* in turn.                                                                *)
(*                                                                         *)
(* A parse tree is JSON.  What the walk inspects are the entries (a key    *)
(* with its value) of its maps; the value of an entry is a sequence of     *)
(* groups, one for each map in it, and a group is a set of entries: Go     *)
(* visits arrays in order and maps in no order at all.  Keys that no rule  *)
(* mentions and that hold no map are left out.                             *)
(***************************************************************************)
EXTENDS Integers, Sequences, FiniteSets, SequencesExt

CONSTANTS
    Entries,        \* the entries of the parse trees of all texts
    Node,           \* what each entry says, see EntryType
    Texts,          \* the names of SQL texts: statements and function bodies
    Parse,          \* the statements of a text, each a group of entries
    Unparsable,     \* the texts the parser rejects
    StatementKeys,  \* the keys that look like a statement (...Stmt)
    Statements, Objects, Alterations, Builtins,  \* the allowlists
    Reserved,       \* the names of pg_catalog's routines
    Schema,         \* the schema of the islet
    MaxNesting      \* 16 in the code

Empty == "empty"          \* a body without any text
NotOne == "not one item"  \* an AS clause that does not hold one string

(***************************************************************************)
(* arg is the field a rule looks at, parts a function name, opts the       *)
(* options of a function, atomic whether it has a body in SQL syntax.      *)
(***************************************************************************)
EntryType ==
    [key : STRING, arg : STRING, parts : Seq(STRING),
     kids : Seq(SUBSET Entries),
     opts : Seq([defname : STRING, arg : STRING]), atomic : BOOLEAN]

ASSUME NodeAssumption == Node \in [Entries -> EntryType]
ASSUME ParseAssumption == Texts \subseteq STRING /\ Parse \in [Texts -> Seq(SUBSET Entries)]
ASSUME NestingAssumption == MaxNesting \in Nat

VARIABLES
    work,    \* the groups still to be walked, with their nesting depth
    local,   \* c.local: the names that may be called
    known,   \* what local was when Check was called (history)
    verdict, \* "none", "walking", "allowed" or "refused"
    seen     \* the entries the walk has inspected (history)

policyVars == <<work, local, known, verdict, seen>>

PolicyInit ==
    /\ work = <<>> /\ local = {} /\ known = {} /\ seen = {}
    /\ verdict = "none"

(***************************************************************************)
(* The rules                                                               *)
(***************************************************************************)

\* What the walk refuses whatever the functions are.
Refused(n) ==
    \/ n.key \in StatementKeys \ Statements
    \/ n.key \in {"DropStmt", "RenameStmt", "CommentStmt", "AlterTableStmt"} /\ n.arg \notin Objects
    \/ n.key = "AlterTableCmd" /\ n.arg \notin Alterations
    \/ n.key \in {"RangeVar", "relpersistence"} /\ n.arg \in {"t", "u"}
    \/ n.key \in {"IndexStmt", "tablespacename"} /\ n.arg # ""
    \/ n.key = "DefElem" /\ n.arg \in {"set", "support"}

Calls(n) == n.key \in {"FuncCall", "CreateTrigStmt", "funcname"}
Defines(n) == n.key = "CreateFunctionStmt"

FunctionName(n) == Last(n.parts)

\* function: a local name, or a builtin that is not looked for in the islet.
Callable(parts, names) ==
    LET namespace == IF Len(parts) = 2 THEN parts[1] ELSE "" IN
    /\ Len(parts) \in {1, 2}
    /\ namespace \in {"", "pg_catalog", Schema}
    /\ \/ namespace # "pg_catalog" /\ Last(parts) \in names
       \/ namespace # Schema /\ Last(parts) \in Builtins

Option(n, name) == SelectSeq(n.opts, LAMBDA o : o.defname = name)

\* The text a function is defined with: its last AS clause.
Body(n) == LET as == Option(n, "as") IN IF as = <<>> THEN Empty ELSE Last(as).arg

HasText(n) == Defines(n) /\ Body(n) \in Texts

\* definition: a local name, nothing reserved, SQL, and one body.
Definable(n) ==
    LET language == Option(n, "language") IN
    /\ Len(n.parts) = 1 \/ (Len(n.parts) = 2 /\ n.parts[1] = Schema)
    /\ FunctionName(n) \notin Reserved
    /\ \A i \in DOMAIN n.opts : n.opts[i].defname \notin {"set", "support"}
    /\ \A i \in DOMAIN n.opts : n.opts[i].defname = "as" => n.opts[i].arg # NotOne
    /\ language # <<>> /\ Last(language).arg = "sql"
    /\ Body(n) # Empty \/ n.atomic

\* As Malformed, without the limit on nesting.
MalformedAnyDepth(text, single, depth) ==
    text \in Unparsable \/ Len(Parse[text]) = 0 \/ (single /\ Len(Parse[text]) # 1)

\* parse: the text is nested too deep, or not SQL, or not the expected number
\* of statements.
Malformed(text, single, depth) ==
    \/ depth > MaxNesting
    \/ text \in Unparsable
    \/ Len(Parse[text]) = 0
    \/ single /\ Len(Parse[text]) # 1

(***************************************************************************)
(* The walk                                                                *)
(***************************************************************************)

\* The groups of a value, as work at a nesting depth.
Groups(groups, depth) ==
    [i \in DOMAIN groups |-> [todo |-> groups[i], depth |-> depth]]

\* Check, up to the walk of the tree.
Check(text, names) ==
    /\ local' = names
    /\ known' = names
    /\ seen' = {}
    /\ \/ /\ Malformed(text, TRUE, 0)
          /\ verdict' = "refused"
          /\ work' = <<>>
       \/ /\ ~Malformed(text, TRUE, 0)
          /\ verdict' = "walking"
          /\ work' = Groups(Parse[text], 0)

\* Is the entry n refused, at this depth and with these local names?
Denied(n, depth, names) ==
    \/ Refused(n)
    \/ Calls(n) /\ ~Callable(n.parts, names)
    \/ Defines(n) /\ ~Definable(n)
    \/ HasText(n) /\ Malformed(Body(n), FALSE, depth + 1)

\* As Recorded, but a definition does not make its name known.
RecordedNot(n) == {}

\* definition makes the name known before it looks at the body.
Recorded(n) == IF Defines(n) THEN {FunctionName(n)} ELSE {}

\* As Below, but the depth is not counted.
BelowSameDepth(n, depth) ==
    (IF HasText(n) THEN Groups(Parse[Body(n)], depth) ELSE <<>>) \o Groups(n.kids, depth)

\* As Below, but the text of a body is not walked.
BelowNoText(n, depth) == Groups(n.kids, depth)

\* As Below, but the body waits for its turn among the entries of the value.
BelowTogether(n, depth) ==
    IF HasText(n)
    THEN <<[todo |-> UNION Range(Parse[Body(n)] \o n.kids), depth |-> depth + 1]>>
    ELSE Groups(n.kids, depth)

\* What is walked next: the parsed body, then the value itself.
Below(n, depth) ==
    (IF HasText(n) THEN Groups(Parse[Body(n)], depth + 1) ELSE <<>>)
    \o Groups(n.kids, depth)

\* walk visits one entry of the group at the head of the work.
Visit(e) ==
    LET n == Node[e]
        depth == Head(work).depth
        rest == <<[Head(work) EXCEPT !.todo = @ \ {e}]>> \o Tail(work) IN
    /\ verdict = "walking"
    /\ work # <<>>
    /\ e \in Head(work).todo
    /\ seen' = seen \cup {e}
    /\ \/ /\ Denied(n, depth, local)
          /\ verdict' = "refused"
          /\ UNCHANGED <<work, local>>
       \/ /\ ~Denied(n, depth, local)
          /\ local' = local \cup Recorded(n)
          /\ work' = Below(n, depth) \o rest
          /\ UNCHANGED verdict
    /\ UNCHANGED known

\* walk returns from a map whose entries it has visited.
Leave ==
    /\ verdict = "walking"
    /\ work # <<>>
    /\ Head(work).todo = {}
    /\ work' = Tail(work)
    /\ UNCHANGED <<local, known, verdict, seen>>

\* Nothing is left to walk.
Accept ==
    /\ verdict = "walking"
    /\ work = <<>>
    /\ verdict' = "allowed"
    /\ UNCHANGED <<work, local, known, seen>>

Walk == Accept \/ Leave \/ \E e \in Entries : Visit(e)

(***************************************************************************)
(* What the policy promises                                                *)
(***************************************************************************)

\* The entries directly below an entry, in its value and in its body text.
Kids(e) == UNION Range(Node[e].kids)
TextKids(e) == IF HasText(Node[e]) THEN UNION Range(Parse[Body(Node[e])]) ELSE {}

\* The given entries and everything below them.
Within(start) ==
    LET reach[n \in 0 .. Cardinality(Entries)] ==
          IF n = 0 THEN start
          ELSE LET es == reach[n - 1]
               IN  es \cup UNION {Kids(e) \cup TextKids(e) : e \in es}
    IN  reach[Cardinality(Entries)]

\* Everything in the text of each function, and everything its definition holds.
InText == [d \in Entries |-> Within(TextKids(d))]
Inside == [d \in Entries |-> Within(Kids(d) \cup TextKids(d))]

\* The texts at hand are finite.
ASSUME EntriesAssumption == IsFiniteSet(Entries)

\* The functions a set of entries defines, and the ways in which n of its
\* functions are nested, each in the text of the one before.
Defined(es) == {FunctionName(Node[d]) : d \in {x \in es : Defines(Node[x])}}
Nestings(n, es) ==
    {chain \in [1 .. n -> {d \in es : HasText(Node[d])}] :
       \A i \in 1 .. n - 1 : chain[i + 1] \in InText[chain[i]]}

\* A statement that passes has been inspected as a whole, every body of every
\* function in it included, and all of it is allowed: it calls only builtins,
\* functions that were known before and functions it defines itself, and defines
\* none with a reserved name (walk, function, definition, in whatever order the
\* maps are visited).
PolicySound ==
    verdict = "allowed" =>
    /\ \A e \in seen : Kids(e) \cup TextKids(e) \subseteq seen
    /\ \A e \in seen : ~Denied(Node[e], 0, known \cup Defined(seen))

\* The functions of a statement that passes are not nested deeper, the one in
\* the text of the other, than the limit of parse allows (c.depth).
NestingBounded == verdict = "allowed" => Nestings(MaxNesting + 1, seen) = {}

\* A refusal has its ground in what was inspected, and not in how the walk keeps
\* its state: some entry is forbidden although everything known before and every
\* function whose definition it is part of may be called (definition makes the
\* name known first), or is a function that really is nested deeper than the
\* limit (a depth that is counted in siblings, too, would refuse others).  What
\* is defined beside the entry is not counted: whether that is known already
\* depends on the order of the map, so another walk of the same statement may
\* allow what this one refuses (DecisionStable in PolicyDecisions).
RefusalGrounded ==
    verdict = "refused" /\ seen # {} =>
    \E e \in seen :
       LET around == {d \in seen : e \in Inside[d]} IN
       \/ Denied(Node[e], 0, known \cup Defined(around \cup {e}))
       \/ \E chain \in Nestings(MaxNesting + 1, seen) : chain[MaxNesting + 1] = e

=============================================================================
