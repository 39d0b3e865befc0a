-------------------------- MODULE ExecutionProofs ---------------------------
(***************************************************************************)
(* The policy lets nothing pass that it has not inspected or that is       *)
(* nested too deep, and what it refuses has a ground in the statement; a   *)
(* batch keeps its limits and names the statement that failed, for any     *)
(* parse trees, batches, configurations and results.                       *)
(***************************************************************************)
EXTENDS Execution, ResultBudgetProofs, FiniteSetTheorems

(***************************************************************************)
(* The walk                                                                *)
(***************************************************************************)

Frame == [todo : SUBSET Entries, depth : 0 .. MaxNesting]

\* The entries of these frames that are still to be visited.
Waiting(w) == UNION {w[i].todo : i \in DOMAIN w}

\* The entries of the statements of a text.
Roots(text) == UNION Range(Parse[text])

LEMMA WaitingConcat ==
    ASSUME NEW a \in Seq(Frame), NEW b \in Seq(Frame)
    PROVE  a \o b \in Seq(Frame) /\ Waiting(a \o b) = Waiting(a) \cup Waiting(b)
  <1>1. a \o b \in Seq(Frame)
    OBVIOUS
  <1>2. ASSUME NEW x \in Waiting(a \o b) PROVE x \in Waiting(a) \cup Waiting(b)
    <2>1. PICK i \in DOMAIN (a \o b) : x \in (a \o b)[i].todo
      BY <1>2 DEF Waiting
    <2>2. CASE i <= Len(a)
      BY <2>1, <2>2 DEF Waiting
    <2>3. CASE i > Len(a)
      <3>1. i - Len(a) \in DOMAIN b /\ (a \o b)[i] = b[i - Len(a)]
        BY <2>3
      <3>2. QED
        BY <2>1, <3>1 DEF Waiting
    <2>4. QED
      BY <2>2, <2>3
  <1>3. ASSUME NEW x \in Waiting(a) PROVE x \in Waiting(a \o b)
    <2>1. PICK i \in DOMAIN a : x \in a[i].todo
      BY <1>3 DEF Waiting
    <2>2. i \in DOMAIN (a \o b) /\ (a \o b)[i] = a[i]
      OBVIOUS
    <2>3. QED
      BY <2>1, <2>2 DEF Waiting
  <1>4. ASSUME NEW x \in Waiting(b) PROVE x \in Waiting(a \o b)
    <2>1. PICK i \in DOMAIN b : x \in b[i].todo
      BY <1>4 DEF Waiting
    <2>2. i + Len(a) \in DOMAIN (a \o b) /\ (a \o b)[i + Len(a)] = b[i]
      OBVIOUS
    <2>3. QED
      BY <2>1, <2>2 DEF Waiting
  <1>5. QED
    BY <1>1, <1>2, <1>3, <1>4

LEMMA WaitingTail ==
    ASSUME NEW w \in Seq(Frame), w # <<>>
    PROVE  /\ Head(w) \in Frame /\ Tail(w) \in Seq(Frame)
           /\ Waiting(w) = Head(w).todo \cup Waiting(Tail(w))
  <1>1. Head(w) \in Frame /\ Tail(w) \in Seq(Frame)
    OBVIOUS
  <1>2. ASSUME NEW x \in Waiting(w) PROVE x \in Head(w).todo \cup Waiting(Tail(w))
    <2>1. PICK i \in DOMAIN w : x \in w[i].todo
      BY <1>2 DEF Waiting
    <2>2. CASE i = 1
      BY <2>1, <2>2
    <2>3. CASE i # 1
      <3>1. i - 1 \in DOMAIN Tail(w) /\ Tail(w)[i - 1] = w[i]
        BY <2>3
      <3>2. QED
        BY <2>1, <3>1 DEF Waiting
    <2>4. QED
      BY <2>2, <2>3
  <1>3. ASSUME NEW x \in Waiting(Tail(w)) PROVE x \in Waiting(w)
    <2>1. PICK i \in DOMAIN Tail(w) : x \in Tail(w)[i].todo
      BY <1>3 DEF Waiting
    <2>2. i + 1 \in DOMAIN w /\ Tail(w)[i] = w[i + 1]
      OBVIOUS
    <2>3. QED
      BY <2>1, <2>2 DEF Waiting
  <1>4. Head(w).todo \subseteq Waiting(w)
    <2>1. 1 \in DOMAIN w /\ Head(w) = w[1]
      OBVIOUS
    <2>2. QED
      BY <2>1 DEF Waiting
  <1>5. QED
    BY <1>1, <1>2, <1>3, <1>4

LEMMA WaitingGroups ==
    ASSUME NEW groups \in Seq(SUBSET Entries), NEW depth \in 0 .. MaxNesting
    PROVE  /\ Groups(groups, depth) \in Seq(Frame)
           /\ Waiting(Groups(groups, depth)) = UNION Range(groups)
  <1>1. Groups(groups, depth) \in Seq(Frame)
    <2>1. Groups(groups, depth) \in [1 .. Len(groups) -> Frame]
      BY DEF Groups, Frame
    <2>2. Len(groups) \in Nat
      OBVIOUS
    <2>3. QED
      BY <2>1, <2>2
  <1>2. \A i \in DOMAIN groups : Groups(groups, depth)[i].todo = groups[i]
    BY DEF Groups
  <1>3. DOMAIN Groups(groups, depth) = DOMAIN groups
    BY DEF Groups
  <1>4. QED
    BY <1>1, <1>2, <1>3 DEF Waiting, Range

LEMMA WaitingOne ==
    ASSUME NEW f \in Frame
    PROVE  <<f>> \in Seq(Frame) /\ Waiting(<<f>>) = f.todo
  <1>1. DOMAIN <<f>> = {1} /\ <<f>>[1] = f
    OBVIOUS
  <1>2. QED
    BY <1>1 DEF Waiting

\* Knowing more functions, or being less deep, forbids nothing.
LEMMA DeniedLess ==
    ASSUME NEW n, NEW d \in Nat, NEW names, NEW more, names \subseteq more,
           Denied(n, 0, more)
    PROVE  Denied(n, d, names)
  <1>1. CASE Refused(n) \/ (Defines(n) /\ ~Definable(n))
    BY <1>1 DEF Denied
  <1>2. CASE Calls(n) /\ ~Callable(n.parts, more)
    <2>1. ~Callable(n.parts, names)
      BY <1>2 DEF Callable
    <2>2. QED
      BY <1>2, <2>1 DEF Denied
  <1>3. CASE HasText(n) /\ Malformed(Body(n), FALSE, 0 + 1)
    <2>1. 0 + 1 > MaxNesting => d + 1 > MaxNesting
      BY NestingAssumption
    <2>2. Malformed(Body(n), FALSE, d + 1)
      BY <1>3, <2>1 DEF Malformed
    <2>3. QED
      BY <1>3, <2>2 DEF Denied
  <1>4. QED
    BY <1>1, <1>2, <1>3 DEF Denied

\* What the walk has made sure of: everything below an inspected entry is
\* inspected or waits, local is what was known and what has been defined, and
\* nothing inspected is forbidden.
WalkInv ==
    /\ work \in Seq(Frame)
    /\ known \subseteq STRING /\ local \subseteq STRING /\ known \subseteq local
    /\ seen \subseteq Entries
    /\ verdict \in {"none", "walking", "allowed", "refused"}
    /\ verdict = "allowed" => work = <<>>
    /\ verdict \in {"walking", "allowed"} =>
          /\ \A e \in seen : Kids(e) \cup TextKids(e) \subseteq seen \cup Waiting(work)
          /\ local = known \cup Defined(seen)
          /\ \A e \in seen : ~Denied(Node[e], 0, local)

LEMMA CheckStarts ==
    ASSUME NEW text \in Texts, NEW names, names \subseteq STRING, Check(text, names)
    PROVE  /\ WalkInv'
           /\ known' = names
           /\ verdict' # "none"
           /\ verdict' = "walking" => Roots(text) \subseteq Waiting(work')
           /\ verdict' # "allowed"
  <1>1. Parse[text] \in Seq(SUBSET Entries) /\ 0 \in 0 .. MaxNesting
    <2>1. Parse[text] \in Seq(SUBSET Entries)
      BY ParseAssumption
    <2>2. 0 \in 0 .. MaxNesting
      BY NestingAssumption
    <2>3. QED
      BY <2>1, <2>2
  <1>2. CASE Malformed(text, TRUE, 0)
    <2>1. work' = <<>> /\ verdict' = "refused"
      BY <1>2 DEF Check
    <2>2. QED
      BY <2>1 DEF Check, WalkInv
  <1>3. CASE ~Malformed(text, TRUE, 0)
    <2>1. work' = Groups(Parse[text], 0) /\ verdict' = "walking" /\ seen' = {}
      BY <1>3 DEF Check
    <2>2. work' \in Seq(Frame) /\ Waiting(work') = Roots(text)
      BY <1>1, <2>1, WaitingGroups DEF Roots
    <2>3. local' = names /\ known' = names
      BY DEF Check
    <2>4. Defined(seen)' = {}
      BY <2>1 DEF Defined
    <2>5. WalkInv'
      BY <2>1, <2>2, <2>3, <2>4 DEF WalkInv
    <2>6. QED
      BY <2>1, <2>2, <2>3, <2>5
  <1>4. QED
    BY <1>2, <1>3

LEMMA AcceptKeeps ==
    ASSUME WalkInv, Accept
    PROVE  WalkInv' /\ seen' = seen /\ known' = known /\ Waiting(work') = Waiting(work)
  BY DEF WalkInv, Accept, Kids, TextKids, Defined, Waiting

LEMMA LeaveKeeps ==
    ASSUME WalkInv, Leave
    PROVE  WalkInv' /\ seen' = seen /\ known' = known /\ Waiting(work') = Waiting(work)
  <1>1. work' \in Seq(Frame) /\ Waiting(work') = Waiting(work)
    BY WaitingTail DEF Leave, WalkInv
  <1>2. Defined(seen)' = Defined(seen)
    BY DEF Leave, Defined
  <1>3. QED
    BY <1>1, <1>2 DEF Leave, WalkInv

\* The names that definitions record are strings.
LEMMA RecordedIs ==
    ASSUME NEW e \in Entries, NEW depth, NEW names, ~Denied(Node[e], depth, names)
    PROVE  Recorded(Node[e]) \subseteq STRING
  <1>1. Node[e].parts \in Seq(STRING)
    BY NodeAssumption DEF EntryType
  <1>2. CASE Defines(Node[e])
    <2>1. Len(Node[e].parts) \in {1, 2}
      BY <1>2 DEF Denied, Definable
    <2>2. FunctionName(Node[e]) \in STRING
      BY <1>1, <2>1 DEF FunctionName, Last
    <2>3. QED
      BY <2>2 DEF Recorded
  <1>3. CASE ~Defines(Node[e])
    BY <1>3 DEF Recorded
  <1>4. QED
    BY <1>2, <1>3

\* What is put on the work for an entry that passes.
LEMMA BelowIs ==
    ASSUME NEW e \in Entries, NEW depth \in 0 .. MaxNesting, NEW names,
           ~Denied(Node[e], depth, names)
    PROVE  /\ Below(Node[e], depth) \in Seq(Frame)
           /\ Waiting(Below(Node[e], depth)) = Kids(e) \cup TextKids(e)
  <1>1. Node[e].kids \in Seq(SUBSET Entries)
    BY NodeAssumption DEF EntryType
  <1>2. /\ Groups(Node[e].kids, depth) \in Seq(Frame)
        /\ Waiting(Groups(Node[e].kids, depth)) = Kids(e)
    BY <1>1, WaitingGroups DEF Kids
  <1>3. CASE HasText(Node[e])
    <2>1. depth + 1 \in 0 .. MaxNesting
      <3>1. ~(depth + 1 > MaxNesting)
        BY <1>3 DEF Denied, Malformed
      <3>2. QED
        BY <3>1, NestingAssumption
    <2>2. Parse[Body(Node[e])] \in Seq(SUBSET Entries)
      BY <1>3, ParseAssumption DEF HasText
    <2>3. /\ Groups(Parse[Body(Node[e])], depth + 1) \in Seq(Frame)
          /\ Waiting(Groups(Parse[Body(Node[e])], depth + 1)) = TextKids(e)
      BY <1>3, <2>1, <2>2, WaitingGroups DEF TextKids
    <2>4. Below(Node[e], depth) =
            Groups(Parse[Body(Node[e])], depth + 1) \o Groups(Node[e].kids, depth)
      BY <1>3 DEF Below
    <2>5. QED
      BY <1>2, <2>3, <2>4, WaitingConcat
  <1>4. CASE ~HasText(Node[e])
    <2>1. <<>> \in Seq(Frame) /\ Waiting(<<>>) = {} /\ TextKids(e) = {}
      BY <1>4 DEF Waiting, TextKids
    <2>2. Below(Node[e], depth) = <<>> \o Groups(Node[e].kids, depth)
      BY <1>4 DEF Below
    <2>3. QED
      BY <1>2, <2>1, <2>2, WaitingConcat
  <1>5. QED
    BY <1>3, <1>4

\* An entry that passes is inspected, its own entries wait, and none is lost.
LEMMA VisitKeeps ==
    ASSUME WalkInv, NEW e \in Entries, Visit(e)
    PROVE  /\ WalkInv'
           /\ known' = known
           /\ verdict' \in {"walking", "refused"}
           /\ verdict' = "walking" =>
                 seen \cup Waiting(work) \subseteq seen' \cup Waiting(work')
  <1>1. /\ verdict = "walking" /\ work # <<>> /\ e \in Head(work).todo
        /\ seen' = seen \cup {e} /\ known' = known
    BY DEF Visit
  <1> DEFINE depth == Head(work).depth
             head == [Head(work) EXCEPT !.todo = @ \ {e}]
  <1>2. Head(work) \in Frame /\ Tail(work) \in Seq(Frame)
        /\ Waiting(work) = Head(work).todo \cup Waiting(Tail(work))
    BY <1>1, WaitingTail DEF WalkInv
  <1>3. CASE Denied(Node[e], depth, local)
    <2>1. verdict' = "refused" /\ work' = work /\ local' = local
      BY <1>3 DEF Visit
    <2>2. QED
      BY <1>1, <2>1 DEF WalkInv
  <1>4. CASE ~Denied(Node[e], depth, local)
    <2>1. /\ verdict' = "walking"
          /\ local' = local \cup Recorded(Node[e])
          /\ work' = Below(Node[e], depth) \o (<<head>> \o Tail(work))
      BY <1>1, <1>4 DEF Visit
    <2>2. depth \in 0 .. MaxNesting /\ head \in Frame /\ head.todo = Head(work).todo \ {e}
      BY <1>2 DEF Frame
    <2>3. /\ work' \in Seq(Frame)
          /\ Waiting(work') = (Kids(e) \cup TextKids(e)) \cup
                              ((Head(work).todo \ {e}) \cup Waiting(Tail(work)))
      <3> HIDE DEF head, depth
      <3>1. <<head>> \in Seq(Frame) /\ Waiting(<<head>>) = Head(work).todo \ {e}
        BY <2>2, WaitingOne
      <3>2. /\ <<head>> \o Tail(work) \in Seq(Frame)
            /\ Waiting(<<head>> \o Tail(work)) = (Head(work).todo \ {e}) \cup Waiting(Tail(work))
        BY <1>2, <3>1, WaitingConcat
      <3>3. /\ Below(Node[e], depth) \in Seq(Frame)
            /\ Waiting(Below(Node[e], depth)) = Kids(e) \cup TextKids(e)
        BY <1>4, <2>2, BelowIs
      <3>4. QED
        BY <2>1, <3>2, <3>3, WaitingConcat
    <2>4. seen \cup Waiting(work) \subseteq seen' \cup Waiting(work')
      BY <1>1, <1>2, <2>3
    <2>5. ASSUME NEW x \in seen'
          PROVE  Kids(x) \cup TextKids(x) \subseteq seen' \cup Waiting(work')
      BY <1>1, <2>3, <2>4, <2>5 DEF WalkInv
    <2>6. local' = known \cup Defined(seen')
      <3>1. Defined(seen') = Defined(seen) \cup Recorded(Node[e])
        BY <1>1 DEF Defined, Recorded
      <3>2. QED
        BY <1>1, <2>1, <3>1 DEF WalkInv
    <2>7. ASSUME NEW x \in seen' PROVE ~Denied(Node[x], 0, local')
      <3>1. CASE x = e
        <4>1. depth \in Nat /\ local \subseteq local'
          BY <2>1, <2>2
        <4>2. QED
          BY <1>4, <3>1, <4>1, DeniedLess
      <3>2. CASE x \in seen
        <4>1. ~Denied(Node[x], 0, local) /\ local \subseteq local'
          BY <1>1, <2>1, <3>2 DEF WalkInv
        <4>2. QED
          BY <4>1, DeniedLess
      <3>3. QED
        BY <1>1, <2>7, <3>1, <3>2
    <2>8. local' \subseteq STRING /\ known' \subseteq local'
      BY <1>1, <1>4, <2>1, RecordedIs DEF WalkInv
    <2>9. Defined(seen') = Defined(seen)'
      BY DEF Defined
    <2>10. WalkInv'
      BY <1>1, <2>1, <2>3, <2>5, <2>6, <2>7, <2>8, <2>9 DEF WalkInv
    <2>11. QED
      BY <1>1, <2>1, <2>4, <2>10
  <1>5. QED
    BY <1>3, <1>4

\* Every step of the walk.
LEMMA WalkKeeps ==
    ASSUME WalkInv, Walk
    PROVE  /\ WalkInv'
           /\ known' = known
           /\ verdict = "walking"
           /\ verdict' \in {"walking", "allowed", "refused"}
           /\ verdict' # "refused" =>
                 seen \cup Waiting(work) \subseteq seen' \cup Waiting(work')
  <1>1. CASE Accept
    BY <1>1, AcceptKeeps DEF Accept
  <1>2. CASE Leave
    BY <1>2, LeaveKeeps DEF Leave
  <1>3. CASE \E e \in Entries : Visit(e)
    BY <1>3, VisitKeeps DEF Visit
  <1>4. QED
    BY <1>1, <1>2, <1>3 DEF Walk

\* What the invariant says of a statement that has passed.
LEMMA WalkPassed ==
    ASSUME WalkInv, verdict = "allowed"
    PROVE  /\ Waiting(work) = {}
           /\ PolicySound
  <1>1. Waiting(work) = {}
    BY DEF WalkInv, Waiting
  <1>2. QED
    BY <1>1 DEF WalkInv, PolicySound

(***************************************************************************)
(* The budget                                                              *)
(***************************************************************************)

ResultType == [columns : Nat, rows : Nat, truncated : BOOLEAN]

Limited == {"limit", "bareLimit"}

Over == produced.rows > config.MaxRows \/ produced.bytes > config.MaxResultBytes

\* Only the result a limit was met in is truncated.
BudgetTyped ==
    /\ config \in [Fields -> Int]
    /\ rowsLeft \in Nat /\ bytesLeft \in Int
    /\ query \in {"none", "rows", "ok", "error"} \cup Limited
    /\ results \in Seq(ResultType)
    /\ produced \in [rows : Nat, bytes : Nat]
    /\ query # "none" => results # <<>>
    /\ \A i \in DOMAIN results :
          results[i].truncated <=> i = Len(results) /\ query \in Limited

\* What is left and what the server has sent add up to the limits, until one of
\* them is met; then too much has been sent.
Accounts ==
    /\ query # "limit" => /\ rowsLeft = config.MaxRows - produced.rows
                          /\ bytesLeft = config.MaxResultBytes - produced.bytes
    /\ query \in {"none", "ok"} => bytesLeft >= 0
    /\ query \in Limited => Over

LEMMA MaxFields ==
    ASSUME config \in [Fields -> Int]
    PROVE  /\ config.MaxRows \in Int /\ config.MaxResultBytes \in Int
           /\ config.MaxSQLBytes \in Int /\ config.MaxBatchStatements \in Int
  BY FieldsAssumption

LEMMA TruncatedLast ==
    ASSUME NEW s \in Seq(ResultType), s # <<>>
    PROVE  LET t == [s EXCEPT ![Len(s)].truncated = TRUE]
           IN  /\ t \in Seq(ResultType) /\ Len(t) = Len(s) /\ t[Len(s)].truncated
               /\ \A i \in DOMAIN s : i # Len(s) => t[i] = s[i]
  <1> DEFINE new == [s[Len(s)] EXCEPT !.truncated = TRUE]
             t == [s EXCEPT ![Len(s)] = new]
  <1>1. Len(s) \in DOMAIN s /\ s[Len(s)] \in ResultType
    OBVIOUS
  <1>2. new \in ResultType /\ new.truncated
    BY <1>1 DEF ResultType
  <1> HIDE DEF new
  <1>3. /\ t \in Seq(ResultType) /\ Len(t) = Len(s) /\ t[Len(s)] = new
        /\ \A i \in DOMAIN s : i # Len(s) => t[i] = s[i]
    BY <1>1, <1>2
  <1>4. QED
    BY <1>2, <1>3 DEF new

LEMMA DescribeKeeps ==
    ASSUME BudgetTyped, Accounts, query \in {"none", "ok"}, NEW names \in Headers, Describe(names)
    PROVE  BudgetTyped' /\ Accounts' /\ Len(results') = Len(results) + 1 /\ query' # "none"
  <1>1. Len(names) \in Nat /\ Cost(names, 4) \in Nat
    BY LengthsAssumption, CostNat
  <1> DEFINE new == [columns |-> Len(names), rows |-> 0, truncated |-> FALSE]
  <1>2. /\ config' = config /\ rowsLeft' = rowsLeft /\ query' = "rows"
        /\ bytesLeft' = bytesLeft - Cost(names, 4)
        /\ results' = Append(results, new)
        /\ produced' = [produced EXCEPT !.bytes = @ + Cost(names, 4)]
    BY DEF Describe, HeaderCost
  <1>3. new \in ResultType /\ ~new.truncated
    BY <1>1 DEF ResultType
  <1>4. /\ results' \in Seq(ResultType) /\ results' # <<>> /\ Len(results') = Len(results) + 1
        /\ \A i \in DOMAIN results' : ~results'[i].truncated
    <2> HIDE DEF new
    <2>1. QED
      BY <1>2, <1>3 DEF BudgetTyped, Limited
  <1>5. /\ produced' \in [rows : Nat, bytes : Nat]
        /\ produced'.rows = produced.rows
        /\ produced'.bytes = produced.bytes + Cost(names, 4)
    BY <1>1, <1>2 DEF BudgetTyped
  <1>6. BudgetTyped'
    BY <1>1, <1>2, <1>4, <1>5 DEF BudgetTyped, Limited
  <1>7. Accounts'
    <2>1. config.MaxResultBytes \in Int /\ bytesLeft = config.MaxResultBytes - produced.bytes
      BY MaxFields DEF BudgetTyped, Accounts
    <2>2. bytesLeft' = config.MaxResultBytes - produced'.bytes
      BY <1>1, <1>2, <1>5, <2>1 DEF BudgetTyped
    <2>3. rowsLeft' = config.MaxRows - produced'.rows
      BY <1>2, <1>5 DEF Accounts
    <2>4. QED
      BY <1>2, <2>2, <2>3 DEF Accounts, Limited
  <1>8. QED
    BY <1>2, <1>4, <1>6, <1>7

LEMMA DescribeFailsKeeps ==
    ASSUME BudgetTyped, Accounts, query \in {"none", "ok"}, DescribeFails
    PROVE  BudgetTyped' /\ Accounts' /\ Len(results') = Len(results) + 1 /\ query' # "none"
  <1> DEFINE new == [columns |-> 0, rows |-> 0, truncated |-> FALSE]
  <1>1. /\ UNCHANGED <<config, rowsLeft, bytesLeft, produced>> /\ query' = "error"
        /\ results' = Append(results, new)
    BY DEF DescribeFails
  <1>2. new \in ResultType /\ ~new.truncated
    BY DEF ResultType
  <1>3. /\ results' \in Seq(ResultType) /\ results' # <<>> /\ Len(results') = Len(results) + 1
        /\ \A i \in DOMAIN results' : ~results'[i].truncated
    <2> HIDE DEF new
    <2>1. QED
      BY <1>1, <1>2 DEF BudgetTyped, Limited
  <1>4. BudgetTyped'
    BY <1>1, <1>3 DEF BudgetTyped, Limited
  <1>5. Accounts'
    BY <1>1 DEF Accounts, Limited
  <1>6. QED
    BY <1>1, <1>3, <1>4, <1>5

LEMMA RowKeeps ==
    ASSUME BudgetTyped, Accounts, NEW values \in Seq(Nat), Row(values)
    PROVE  BudgetTyped' /\ Accounts' /\ Len(results') = Len(results) /\ query' # "none"
  <1> DEFINE size == Cost(values, 1)
  <1>1. size \in Nat
    BY CostNat
  <1> HIDE DEF size
  <1>2. /\ query = "rows" /\ config' = config /\ results # <<>>
        /\ produced' = [rows |-> produced.rows + 1, bytes |-> produced.bytes + size]
    BY DEF Row, BudgetTyped, size
  <1>3. Len(results) \in DOMAIN results /\ results[Len(results)] \in ResultType
    BY <1>2 DEF BudgetTyped
  <1>4. CASE Exceeds(size)
    <2>1. /\ results' = [results EXCEPT ![Len(results)].truncated = TRUE]
          /\ query' = "limit" /\ UNCHANGED <<rowsLeft, bytesLeft>>
      BY <1>4 DEF Row, size
    <2>2. /\ results' \in Seq(ResultType) /\ Len(results') = Len(results)
          /\ \A i \in DOMAIN results' : results'[i].truncated <=> i = Len(results')
      BY <1>2, <1>3, <2>1, TruncatedLast DEF BudgetTyped, Limited
    <2>3. BudgetTyped'
      BY <1>1, <1>2, <2>1, <2>2 DEF BudgetTyped, Limited
    <2>4. Accounts'
      BY <1>1, <1>2, <1>4, <2>1, MaxFields DEF BudgetTyped, Accounts, Limited, Over, Exceeds
    <2>5. QED
      BY <2>1, <2>2, <2>3, <2>4
  <1>5. CASE ~Exceeds(size)
    <2>1. /\ results' = [results EXCEPT ![Len(results)].rows = @ + 1]
          /\ query' = query /\ rowsLeft' = rowsLeft - 1 /\ bytesLeft' = bytesLeft - size
      BY <1>5 DEF Row, size
    <2>2. /\ results' \in Seq(ResultType) /\ Len(results') = Len(results)
          /\ \A i \in DOMAIN results' : ~results'[i].truncated
      BY <1>2, <1>3, <2>1 DEF BudgetTyped, ResultType, Limited
    <2>3. BudgetTyped'
      BY <1>1, <1>2, <1>5, <2>1, <2>2 DEF BudgetTyped, Limited, Exceeds
    <2>4. Accounts'
      <3>1. /\ produced'.rows = produced.rows + 1 /\ produced'.bytes = produced.bytes + size
            /\ produced.rows \in Nat /\ produced.bytes \in Nat
        BY <1>2 DEF BudgetTyped
      <3>2. /\ config.MaxRows \in Int /\ rowsLeft = config.MaxRows - produced.rows
            /\ config.MaxResultBytes \in Int /\ bytesLeft = config.MaxResultBytes - produced.bytes
        BY <1>2, MaxFields DEF BudgetTyped, Accounts
      <3>3. rowsLeft' = config.MaxRows - produced'.rows
        BY <2>1, <3>1, <3>2 DEF BudgetTyped
      <3>4. bytesLeft' = config.MaxResultBytes - produced'.bytes
        BY <1>1, <2>1, <3>1, <3>2 DEF BudgetTyped
      <3>5. QED
        BY <1>2, <2>1, <3>3, <3>4 DEF Accounts, Limited
    <2>5. QED
      BY <1>2, <2>1, <2>2, <2>3, <2>4
  <1>6. QED
    BY <1>4, <1>5

LEMMA RowsKeep ==
    ASSUME BudgetTyped, Accounts, Rows
    PROVE  BudgetTyped' /\ Accounts' /\ Len(results') = Len(results) /\ query' # "none"
  <1>1. CASE RowsFail
    BY <1>1 DEF RowsFail, BudgetTyped, Accounts, Limited
  <1>2. CASE RowsEnd
    <2>1. /\ query = "rows" /\ results # <<>> /\ UNCHANGED <<config, rowsLeft, bytesLeft, produced>>
      BY <1>2 DEF RowsEnd, BudgetTyped
    <2>2. CASE bytesLeft < 0
      <3>1. /\ results' = [results EXCEPT ![Len(results)].truncated = TRUE]
            /\ query' = "bareLimit"
        BY <1>2, <2>2 DEF RowsEnd, BudgetTyped
      <3>2. Len(results) \in DOMAIN results /\ results[Len(results)] \in ResultType
        BY <2>1 DEF BudgetTyped
      <3>3. /\ results' \in Seq(ResultType) /\ Len(results') = Len(results)
            /\ \A i \in DOMAIN results' : results'[i].truncated <=> i = Len(results')
        BY <2>1, <3>1, <3>2, TruncatedLast DEF BudgetTyped, Limited
      <3>4. BudgetTyped'
        BY <2>1, <3>1, <3>3 DEF BudgetTyped, Limited
      <3>5. Accounts'
        BY <2>1, <2>2, <3>1, MaxFields DEF BudgetTyped, Accounts, Limited, Over
      <3>6. QED
        BY <3>1, <3>3, <3>4, <3>5
    <2>3. CASE bytesLeft >= 0
      BY <1>2, <2>1, <2>3 DEF RowsEnd, BudgetTyped, Accounts, Limited
    <2>4. QED
      BY <2>2, <2>3 DEF BudgetTyped
  <1>3. ASSUME NEW names \in Headers, NEW values \in [DOMAIN names -> Values], Row(values)
        PROVE  BudgetTyped' /\ Accounts' /\ Len(results') = Len(results) /\ query' # "none"
    <2>1. values \in Seq(Nat)
      <3>1. names \in Seq(Nat)
        BY LengthsAssumption
      <3>2. Len(names) \in Nat /\ values \in [1 .. Len(names) -> Values]
        BY <3>1
      <3>3. values \in [1 .. Len(names) -> Nat]
        BY <3>2, LengthsAssumption
      <3>4. QED
        BY <3>2, <3>3
    <2>2. QED
      BY <1>3, <2>1, RowKeeps
  <1>4. QED
    BY <1>1, <1>2, <1>3 DEF Rows

(***************************************************************************)
(* The batch                                                               *)
(***************************************************************************)

Sizes(b) == [i \in DOMAIN b |-> Length[b[i]]]

Oversized(b) ==
    Len(b) > config.MaxBatchStatements \/ Total(Sizes(b)) > config.MaxSQLBytes

BatchTyped ==
    /\ step \in {"idle", "rejected", "loop", "policy", "query", "done"}
    /\ batch \in Seq(Texts)
    /\ committed \subseteq STRING /\ catalog \subseteq STRING
    /\ outcome \in [err : {"none", "nil", "SQLTooLarge", "Policy", "Query", "ResultLimit"},
                    stmt : Int]
    /\ sent = Len(results)
    /\ step # "rejected" => \A f \in Fields : config[f] > 0

\* The budget of a batch that was not too large is in order.
Begun == step \in {"loop", "policy", "query"} \/ (step = "done" /\ outcome.err # "SQLTooLarge")
Accounted == Begun => Accounts

\* What the place in the loop says: the statement in hand has all its roots
\* inspected or waiting, with the functions the transaction sees.
Stands ==
    /\ step \in {"idle", "rejected"} =>
          results = <<>> /\ query = "none" /\ produced = [rows |-> 0, bytes |-> 0]
    /\ step \in {"loop", "policy"} => query \in {"none", "ok"}
    /\ step = "loop" => Len(results) <= Len(batch)
    /\ step = "policy" =>
          /\ Len(results) < Len(batch)
          /\ verdict # "none"
          /\ known = catalog \ Reserved
          /\ verdict \in {"walking", "allowed"} =>
                Roots(batch[Len(results) + 1]) \subseteq seen \cup Waiting(work)
    /\ step = "query" =>
          /\ query # "none"
          /\ Len(results) <= Len(batch)
          /\ verdict = "allowed"
          /\ known = catalog \ Reserved
          /\ Roots(batch[Len(results)]) \subseteq seen

\* What the outcome says.
Located ==
    /\ step \in {"loop", "policy", "query"} => ~Oversized(batch)
    /\ step = "done" =>
          /\ outcome.err = "SQLTooLarge" <=> Oversized(batch)
          /\ outcome.err = "SQLTooLarge" => outcome.stmt = -1
          /\ outcome.err = "nil" => Len(results) = Len(batch) /\ query \in {"none", "ok"}
          /\ outcome.err = "Policy" => outcome.stmt = Len(results)
          /\ outcome.err # "Policy" /\ outcome.stmt # -1 => outcome.stmt = Len(results) - 1
          /\ outcome.err = "ResultLimit" <=> query \in Limited

ExecInv ==
    /\ WalkInv /\ BudgetTyped /\ BatchTyped
    /\ Accounted /\ Stands /\ Located

\* checkSize is exact, whatever the statements are.
LEMMA TooLargeExact ==
    ASSUME BudgetTyped, \A f \in Fields : config[f] > 0, NEW b \in Seq(Texts)
    PROVE  TooLarge(Sizes(b)) <=> Oversized(b)
  <1>1. Len(b) \in Nat /\ Sizes(b) \in [1 .. Len(b) -> Nat] /\ Len(Sizes(b)) = Len(b)
    <2>1. Len(b) \in Nat /\ DOMAIN b = 1 .. Len(b)
      OBVIOUS
    <2>2. \A i \in 1 .. Len(b) : Length[b[i]] \in Nat
      BY LengthAssumption
    <2>3. Sizes(b) \in [1 .. Len(b) -> Nat]
      BY <2>1, <2>2 DEF Sizes
    <2>4. QED
      BY <2>1, <2>3
  <1>2. config.MaxSQLBytes \in Nat
    BY FieldsAssumption DEF BudgetTyped
  <1>3. Left(Sizes(b)) < 0 <=> Total(Sizes(b)) > config.MaxSQLBytes
    BY <1>1, <1>2, LeftExact
  <1>4. QED
    BY <1>1, <1>3 DEF TooLarge, Oversized

\* The functions a statement leaves behind have names.
LEMMA AppliedIs ==
    ASSUME ExecInv, step = "query"
    PROVE  Applied(batch[Len(results)]) \subseteq STRING
  <1> DEFINE text == batch[Len(results)]
  <1>1. verdict = "allowed" /\ Roots(text) \subseteq seen /\ seen \subseteq Entries
    BY DEF ExecInv, Stands, WalkInv
  <1>2. ASSUME NEW e \in Roots(text), Defines(Node[e])
        PROVE  FunctionName(Node[e]) \in STRING
    <2>1. e \in Entries /\ ~Denied(Node[e], 0, local)
      BY <1>1 DEF ExecInv, WalkInv
    <2>2. QED
      BY <1>2, <2>1, RecordedIs DEF Recorded
  <1>3. ASSUME NEW x \in Applied(text), x \notin catalog PROVE x \in STRING
    <2>1. PICK e \in Roots(text) : Defines(Node[e]) /\ x = FunctionName(Node[e])
      BY <1>3 DEF Applied, Roots
    <2>2. QED
      BY <1>2, <2>1
  <1>4. QED
    BY <1>3 DEF ExecInv, BatchTyped

LEMMA ExecInit == Init => ExecInv
  <1> SUFFICES ASSUME NEW cfg \in Configs,
                      PolicyInit, BudgetInit(cfg),
                      step = IF Valid(cfg) THEN "idle" ELSE "rejected",
                      batch = <<>>, committed \in Catalogs, catalog = committed, sent = 0,
                      outcome = [err |-> "none", stmt |-> -1]
               PROVE  ExecInv
    BY DEF Init
  <1>1. WalkInv
    BY DEF PolicyInit, WalkInv, Frame
  <1>2. BudgetTyped
    BY ConfigsAssumption, LimitsAssumption DEF BudgetInit, BudgetTyped, Normalized, Limited
  <1>3. BatchTyped
    <2>1. step # "rejected" => \A f \in Fields : config[f] > 0
      BY ConfigsAssumption, LimitsAssumption DEF BudgetInit, Valid, Normalized
    <2>2. committed \subseteq STRING
      BY CatalogsAssumption
    <2>3. QED
      BY <2>1, <2>2 DEF BudgetInit, BatchTyped
  <1>4. Accounted /\ Stands /\ Located
    BY DEF BudgetInit, Accounted, Begun, Stands, Located
  <1>5. QED
    BY <1>1, <1>2, <1>3, <1>4 DEF ExecInv

\* Nothing of the batch is there before checkSize has let it pass.
LEMMA BeginKeeps ==
    ASSUME ExecInv, NEW b \in Batches, Begin(b)
    PROVE  ExecInv'
  <1>1. /\ step = "idle" /\ batch' = b /\ b \in Seq(Texts)
        /\ UNCHANGED <<policyVars, committed, catalog, sent>>
        /\ UNCHANGED <<config, query, results, produced>>
        /\ step' \in {"loop", "done"}
    BY BatchesAssumption DEF Begin, Ended, budgetVars, Allot
  <1>2. results = <<>> /\ query = "none" /\ \A f \in Fields : config[f] > 0
    BY <1>1 DEF ExecInv, Stands, BatchTyped
  <1>3. WalkInv'
    BY <1>1 DEF ExecInv, WalkInv, policyVars, Kids, TextKids, Defined
  <1>4. TooLarge(Sizes(b)) <=> Oversized(b)
    BY <1>1, <1>2, TooLargeExact DEF ExecInv
  <1>5. Oversized(b)' <=> Oversized(b)
    BY <1>1 DEF Oversized
  <1>6. CASE TooLarge(Sizes(b))
    <2>1. /\ step' = "done" /\ outcome' = [err |-> "SQLTooLarge", stmt |-> -1]
          /\ UNCHANGED <<rowsLeft, bytesLeft>>
      BY <1>6 DEF Begin, Ended, budgetVars, Sizes
    <2>2. BudgetTyped' /\ BatchTyped'
      BY <1>1, <1>2, <2>1 DEF ExecInv, BudgetTyped, BatchTyped
    <2>3. Accounted' /\ Stands' /\ Located'
      BY <1>1, <1>2, <1>4, <1>5, <1>6, <2>1 DEF Accounted, Begun, Stands, Located, Limited
    <2>4. QED
      BY <1>3, <2>2, <2>3 DEF ExecInv
  <1>7. CASE ~TooLarge(Sizes(b))
    <2>1. /\ step' = "loop" /\ outcome' = outcome
          /\ rowsLeft' = config.MaxRows /\ bytesLeft' = config.MaxResultBytes
      BY <1>7 DEF Begin, Allot, Sizes
    <2>2. config.MaxRows \in Nat /\ config.MaxResultBytes \in Nat
      BY <1>2, FieldsAssumption DEF ExecInv, BudgetTyped
    <2>3. BudgetTyped' /\ BatchTyped'
      BY <1>1, <1>2, <2>1, <2>2 DEF ExecInv, BudgetTyped, BatchTyped
    <2>4. Stands' /\ Located'
      BY <1>1, <1>2, <1>4, <1>5, <1>7, <2>1 DEF Stands, Located
    <2>5. produced = [rows |-> 0, bytes |-> 0]
      BY <1>1 DEF ExecInv, Stands
    <2>6. Accounted'
      BY <1>1, <1>2, <2>1, <2>2, <2>5 DEF Accounted, Accounts, Limited
    <2>7. QED
      BY <1>3, <2>3, <2>4, <2>6 DEF ExecInv
  <1>8. QED
    BY <1>6, <1>7

\* The policy and the budget depend on their own variables only.
LEMMA PolicyAside ==
    ASSUME WalkInv, UNCHANGED policyVars
    PROVE  WalkInv' /\ Waiting(work)' = Waiting(work)
  BY DEF WalkInv, policyVars, Kids, TextKids, Defined, Waiting

LEMMA BudgetAside ==
    ASSUME BudgetTyped, UNCHANGED budgetVars
    PROVE  /\ BudgetTyped' /\ (Accounts' <=> Accounts)
           /\ \A b : Oversized(b)' <=> Oversized(b)
  BY DEF BudgetTyped, Accounts, Over, Oversized, budgetVars

LEMMA InspectKeeps ==
    ASSUME ExecInv, Inspect
    PROVE  ExecInv'
  <1>1. /\ step = "loop" /\ step' = "policy" /\ Len(results) < Len(batch)
        /\ UNCHANGED <<budgetVars, batch, committed, catalog, sent, outcome>>
        /\ Check(Current, LocalFunctions)
    BY DEF Inspect
  <1>2. Current = batch[Len(results) + 1] /\ Current \in Texts
    <2>1. Len(results) + 1 \in DOMAIN batch
      BY <1>1 DEF ExecInv, BudgetTyped, BatchTyped
    <2>2. QED
      BY <2>1 DEF Current, ExecInv, BatchTyped
  <1>3. LocalFunctions = catalog \ Reserved /\ LocalFunctions \subseteq STRING
    BY DEF LocalFunctions, ExecInv, BatchTyped
  <1>4. /\ WalkInv' /\ known' = LocalFunctions /\ verdict' \notin {"none", "allowed"}
        /\ verdict' = "walking" => Roots(Current) \subseteq Waiting(work')
    BY <1>1, <1>2, <1>3, CheckStarts
  <1>5. BudgetTyped' /\ (Accounts' <=> Accounts) /\ (Oversized(batch)' <=> Oversized(batch))
    BY <1>1, BudgetAside DEF ExecInv, Oversized, budgetVars
  <1>6. BatchTyped'
    BY <1>1 DEF ExecInv, BatchTyped, budgetVars
  <1>7. Accounted' /\ Located'
    BY <1>1, <1>5 DEF ExecInv, Accounted, Begun, Located
  <1>8. Stands'
    <2>1. batch'[Len(results') + 1] = Current /\ Waiting(work)' = Waiting(work')
      BY <1>1, <1>2 DEF budgetVars, Waiting
    <2>2. QED
      BY <1>1, <1>2, <1>3, <1>4, <2>1 DEF ExecInv, Stands, budgetVars
  <1>9. QED
    BY <1>4, <1>5, <1>6, <1>7, <1>8 DEF ExecInv

LEMMA PolicyStepKeeps ==
    ASSUME ExecInv, PolicyStep
    PROVE  ExecInv'
  <1>1. step = "policy" /\ Walk /\ UNCHANGED <<budgetVars, execVars>>
    BY DEF PolicyStep
  <1>2. /\ WalkInv' /\ known' = known /\ verdict = "walking"
        /\ verdict' \in {"walking", "allowed", "refused"}
        /\ verdict' # "refused" => seen \cup Waiting(work) \subseteq seen' \cup Waiting(work')
    BY <1>1, WalkKeeps DEF ExecInv
  <1>3. BudgetTyped' /\ (Accounts' <=> Accounts) /\ (Oversized(batch)' <=> Oversized(batch))
    BY <1>1, BudgetAside DEF ExecInv, Oversized, budgetVars, execVars
  <1>4. BatchTyped' /\ Accounted' /\ Located'
    BY <1>1, <1>3 DEF ExecInv, BatchTyped, Accounted, Begun, Located, budgetVars, execVars
  <1>5. Stands'
    <2>1. Waiting(work)' = Waiting(work')
      BY DEF Waiting
    <2>2. QED
      BY <1>1, <1>2, <2>1 DEF ExecInv, Stands, budgetVars, execVars
  <1>6. QED
    BY <1>2, <1>3, <1>4, <1>5 DEF ExecInv

LEMMA SendKeeps ==
    ASSUME ExecInv, Send
    PROVE  ExecInv'
  <1>1. /\ step = "policy" /\ verdict = "allowed" /\ step' = "query" /\ sent' = sent + 1
        /\ UNCHANGED <<policyVars, batch, committed, catalog, outcome>>
        /\ config' = config
    BY DEF Send, Describe, DescribeFails
  <1>2. query \in {"none", "ok"} /\ Accounts /\ Len(results) < Len(batch)
    BY <1>1 DEF ExecInv, Stands, Accounted, Begun
  <1>3. BudgetTyped' /\ Accounts' /\ Len(results') = Len(results) + 1 /\ query' # "none"
    BY <1>2, DescribeKeeps, DescribeFailsKeeps DEF Send, ExecInv
  <1>4. WalkInv' /\ Roots(batch[Len(results) + 1]) \subseteq seen
    BY <1>1, PolicyAside, WalkPassed DEF ExecInv, Stands
  <1>5. BatchTyped'
    BY <1>1, <1>3 DEF ExecInv, BatchTyped
  <1>6. Accounted'
    BY <1>3 DEF Accounted
  <1>7. Oversized(batch)' <=> Oversized(batch)
    BY <1>1 DEF Oversized
  <1>8. Located'
    BY <1>1, <1>7 DEF ExecInv, Located
  <1>9. Stands'
    <2>1. Len(results) \in Nat /\ Len(batch) \in Nat
      BY DEF ExecInv, BudgetTyped, BatchTyped
    <2>2. QED
      BY <1>1, <1>2, <1>3, <1>4, <2>1 DEF ExecInv, Stands, policyVars
  <1>10. QED
    BY <1>3, <1>4, <1>5, <1>6, <1>8, <1>9 DEF ExecInv

LEMMA FetchKeeps ==
    ASSUME ExecInv, Fetch
    PROVE  ExecInv'
  <1>1. step = "query" /\ Rows /\ UNCHANGED <<policyVars, execVars>> /\ config' = config
    BY DEF Fetch, Rows, RowsFail, RowsEnd, Row
  <1>2. BudgetTyped' /\ Accounts' /\ Len(results') = Len(results) /\ query' # "none"
    BY <1>1, RowsKeep DEF ExecInv, Accounted, Begun
  <1>3. WalkInv'
    BY <1>1, PolicyAside DEF ExecInv
  <1>4. BatchTyped'
    BY <1>1, <1>2 DEF ExecInv, BatchTyped, execVars
  <1>5. Oversized(batch)' <=> Oversized(batch)
    BY <1>1 DEF Oversized, execVars
  <1>6. Accounted' /\ Located'
    BY <1>1, <1>2, <1>5 DEF ExecInv, Accounted, Located, execVars
  <1>7. Stands'
    BY <1>1, <1>2 DEF ExecInv, Stands, policyVars, execVars
  <1>8. QED
    BY <1>2, <1>3, <1>4, <1>6, <1>7 DEF ExecInv

LEMMA CompleteKeeps ==
    ASSUME ExecInv, Complete
    PROVE  ExecInv'
  <1>1. /\ step = "query" /\ query = "ok" /\ step' = "loop"
        /\ catalog' = Applied(batch[Len(results)])
        /\ UNCHANGED <<policyVars, budgetVars, batch, committed, sent, outcome>>
    BY DEF Complete
  <1>2. WalkInv'
    BY <1>1, PolicyAside DEF ExecInv
  <1>3. BudgetTyped' /\ (Accounts' <=> Accounts) /\ (Oversized(batch)' <=> Oversized(batch))
    BY <1>1, BudgetAside DEF ExecInv, Oversized, budgetVars
  <1>4. catalog' \subseteq STRING
    BY <1>1, AppliedIs
  <1>5. BatchTyped'
    BY <1>1, <1>4 DEF ExecInv, BatchTyped, budgetVars
  <1>6. Accounted' /\ Located' /\ Stands'
    BY <1>1, <1>3 DEF ExecInv, Accounted, Begun, Located, Stands, budgetVars
  <1>7. QED
    BY <1>2, <1>3, <1>5, <1>6 DEF ExecInv

\* The ways a batch ends once it is under way.
LEMMA EndKeeps ==
    ASSUME ExecInv, InspectFails \/ PolicyError \/ QueryError \/ Commit
    PROVE  ExecInv'
  <1>1. /\ step \in {"loop", "policy", "query"} /\ step' = "done"
        /\ UNCHANGED <<policyVars, budgetVars, batch, sent>>
        /\ committed' \in {committed, catalog} /\ catalog' \in {committed, catalog}
    BY DEF InspectFails, PolicyError, QueryError, Commit, RolledBack, Ended
  <1>2. WalkInv'
    BY <1>1, PolicyAside DEF ExecInv
  <1>3. BudgetTyped' /\ (Accounts' <=> Accounts) /\ (Oversized(batch)' <=> Oversized(batch))
    BY <1>1, BudgetAside DEF ExecInv, Oversized, budgetVars
  <1>4. /\ outcome' \in [err : {"nil", "Policy", "Query", "ResultLimit"}, stmt : Int]
        /\ outcome'.err = "nil" => Len(results) = Len(batch) /\ query \in {"none", "ok"}
        /\ outcome'.err = "Policy" => outcome'.stmt = Len(results)
        /\ outcome'.err # "Policy" /\ outcome'.stmt # -1 => outcome'.stmt = Len(results) - 1
        /\ outcome'.err = "ResultLimit" <=> query \in Limited
    <2>1. Len(results) \in Nat
      BY DEF ExecInv, BudgetTyped
    <2>2. CASE InspectFails \/ PolicyError \/ Commit
      BY <2>1, <2>2 DEF InspectFails, PolicyError, Commit, RolledBack, Ended, ExecInv, Stands, Limited
    <2>3. CASE QueryError
      BY <2>1, <2>3 DEF QueryError, RolledBack, Ended, NamedStatement, Limited
    <2>4. QED
      BY <2>2, <2>3
  <1>5. BatchTyped'
    BY <1>1, <1>4 DEF ExecInv, BatchTyped, budgetVars
  <1>6. Accounted'
    BY <1>1, <1>3 DEF ExecInv, Accounted, Begun
  <1>7. Located'
    BY <1>1, <1>3, <1>4 DEF ExecInv, Located, budgetVars
  <1>8. Stands'
    BY <1>1 DEF Stands
  <1>9. QED
    BY <1>2, <1>3, <1>5, <1>6, <1>7, <1>8 DEF ExecInv

\* ExecInv is an invariant of the specification.
LEMMA ExecInvariant == Spec => []ExecInv
  <1>1. ExecInv /\ [Next]_vars => ExecInv'
    <2> SUFFICES ASSUME ExecInv, [Next]_vars PROVE ExecInv'
      OBVIOUS
    <2>1. CASE UNCHANGED vars
      <3>1. WalkInv'
        BY <2>1, PolicyAside DEF ExecInv, vars
      <3>2. BudgetTyped' /\ (Accounts' <=> Accounts) /\ (Oversized(batch)' <=> Oversized(batch))
        BY <2>1, BudgetAside DEF ExecInv, Oversized, budgetVars, execVars, vars
      <3>3. BatchTyped' /\ Accounted' /\ Located' /\ Stands'
        BY <2>1, <3>2 DEF ExecInv, BatchTyped, Accounted, Begun, Located, Stands, Waiting,
               vars, policyVars, budgetVars, execVars
      <3>4. QED
        BY <3>1, <3>2, <3>3 DEF ExecInv
    <2>2. QED
      BY <2>1, BeginKeeps, InspectKeeps, PolicyStepKeeps, SendKeeps, FetchKeeps, CompleteKeeps,
         EndKeeps DEF Next, Quiet
  <1>2. QED
    BY <1>1, ExecInit, PTL DEF Spec

\* Type correctness: in particular the nesting depth of the walk stays within
\* its limit, no function without a name gets into the catalog and the rows that
\* are left never fall below zero.
THEOREM TypeCorrect == Spec => []TypeOK
  <1>1. ExecInv => TypeOK
    BY DEF ExecInv, WalkInv, BudgetTyped, BatchTyped, TypeOK, Frame, ResultType, Limited
  <1>2. QED
    BY <1>1, ExecInvariant, PTL

\* The policy is sound for every set of parse trees and every order in which
\* maps are visited: what it lets pass it has inspected as a whole, every body
\* of every function in it included, and nothing of it is forbidden.
THEOREM PolicyIsSound == Spec => []PolicySound
  <1>1. ExecInv => PolicySound
    BY WalkPassed DEF ExecInv, PolicySound
  <1>2. QED
    BY <1>1, ExecInvariant, PTL

\* Whatever the statements before it have made and dropped, a statement that
\* PostgreSQL is given was inspected from its root and calls nothing that is not
\* allowed at that moment.
THEOREM ExecutedIsAllowed == Spec => []ExecutedAllowed
  <1>1. ExecInv => ExecutedAllowed
    <2> SUFFICES ASSUME ExecInv, step = "query" PROVE ExecutedAllowed
      BY DEF ExecutedAllowed
    <2>1. verdict = "allowed" /\ known = catalog \ Reserved /\ Roots(batch[Len(results)]) \subseteq seen
      BY DEF ExecInv, Stands
    <2>2. \A e \in seen : Calls(Node[e]) => Callable(Node[e].parts, known \cup Defined(seen))
      BY <2>1 DEF ExecInv, WalkInv, Denied
    <2>3. QED
      BY <2>1, <2>2 DEF ExecutedAllowed, Roots
  <1>2. QED
    BY <1>1, ExecInvariant, PTL

\* The limits are exact for every batch, every configuration and every result:
\* subtracting statement by statement refuses exactly the batches whose sum is
\* too large, and a batch meets ErrResultLimit only when the server has sent more
\* than allowed, and never succeeds when it has.
THEOREM LimitsAreExact == Spec => []LimitsExact
  <1>1. ExecInv => LimitsExact
    <2> SUFFICES ASSUME ExecInv, step = "done" PROVE LimitsExact
      BY DEF LimitsExact
    <2>1. outcome.err = "SQLTooLarge" <=>
            \/ Len(batch) > config.MaxBatchStatements
            \/ Total([i \in DOMAIN batch |-> Length[batch[i]]]) > config.MaxSQLBytes
      BY DEF ExecInv, Located, Oversized, Sizes
    <2>2. outcome.err = "ResultLimit" => Over
      BY DEF ExecInv, Located, Accounted, Begun, Accounts
    <2>3. outcome.err = "nil" => ~Over
      <3> SUFFICES ASSUME outcome.err = "nil" PROVE ~Over
        OBVIOUS
      <3>1. query \in {"none", "ok"} /\ Accounts
        BY DEF ExecInv, Located, Accounted, Begun
      <3>2. rowsLeft = config.MaxRows - produced.rows /\ rowsLeft >= 0
        BY <3>1 DEF ExecInv, Accounts, BudgetTyped
      <3>3. bytesLeft = config.MaxResultBytes - produced.bytes /\ bytesLeft >= 0
        BY <3>1 DEF Accounts
      <3>4. config.MaxRows \in Int /\ config.MaxResultBytes \in Int
        BY MaxFields DEF ExecInv, BudgetTyped
      <3>5. produced.rows \in Nat /\ produced.bytes \in Nat
        BY DEF ExecInv, BudgetTyped
      <3>6. QED
        BY <3>2, <3>3, <3>4, <3>5 DEF Over
    <2>4. QED
      BY <2>1, <2>2, <2>3 DEF LimitsExact, Over
  <1>2. QED
    BY <1>1, ExecInvariant, PTL

\* The index in an error is the one of the statement that failed, every
\* statement before it has a complete result and none after it was sent.
THEOREM ErrorsAreLocated == Spec => []ErrorLocated
  <1>1. ExecInv => ErrorLocated
    BY DEF ExecInv, BudgetTyped, BatchTyped, Located, ErrorLocated
  <1>2. QED
    BY <1>1, ExecInvariant, PTL

(***************************************************************************)
(* Refusals                                                                *)
(***************************************************************************)

\* A set of entries with what is directly below them, and a set that has it.
Grown(es) == es \cup UNION {Kids(e) \cup TextKids(e) : e \in es}
Closed(es) == \A e \in es : Kids(e) \cup TextKids(e) \subseteq es

LEMMA BelowEntries ==
    ASSUME NEW e \in Entries
    PROVE  Kids(e) \subseteq Entries /\ TextKids(e) \subseteq Entries
  <1>1. ASSUME NEW s \in Seq(SUBSET Entries) PROVE UNION Range(s) \subseteq Entries
    BY DEF Range
  <1>2. Node[e].kids \in Seq(SUBSET Entries)
    BY NodeAssumption DEF EntryType
  <1>3. HasText(Node[e]) => Parse[Body(Node[e])] \in Seq(SUBSET Entries)
    BY ParseAssumption DEF HasText
  <1>4. QED
    BY <1>1, <1>2, <1>3 DEF Kids, TextKids

\* The recursion of Within has a solution.
LEMMA WithinDefined ==
    ASSUME NEW start, NEW n \in Nat
    PROVE  \E f : f = [k \in 0 .. n |-> IF k = 0 THEN start ELSE Grown(f[k - 1])]
  <1> DEFINE Solves(f, m) == f = [k \in 0 .. m |-> IF k = 0 THEN start ELSE Grown(f[k - 1])]
             T == {m \in Nat : \E f : Solves(f, m)}
  <1>1. 0 \in T
    <2>1. Solves([k \in 0 .. 0 |-> start], 0)
      OBVIOUS
    <2>2. QED
      BY <2>1
  <1>2. ASSUME NEW m \in T PROVE m + 1 \in T
    <2>1. PICK f : Solves(f, m)
      BY <1>2
    <2> DEFINE g == [k \in 0 .. m + 1 |-> IF k = m + 1 THEN Grown(f[m]) ELSE f[k]]
    <2>2. ASSUME NEW k \in 0 .. m + 1
          PROVE  g[k] = IF k = 0 THEN start ELSE Grown(g[k - 1])
      <3>1. CASE k = m + 1
        <4>1. g[k] = Grown(f[m]) /\ k # 0 /\ k - 1 = m /\ g[m] = f[m]
          BY <3>1
        <4>2. QED
          BY <4>1
      <3>2. CASE k # m + 1
        <4>1. k \in 0 .. m /\ g[k] = f[k]
          BY <3>2
        <4>2. k # 0 => g[k - 1] = f[k - 1]
          BY <4>1
        <4>3. f[k] = IF k = 0 THEN start ELSE Grown(f[k - 1])
          BY <2>1, <4>1
        <4>4. QED
          BY <4>1, <4>2, <4>3
      <3>3. QED
        BY <3>1, <3>2
    <2>3. Solves(g, m + 1)
      <3> HIDE DEF g
      <3>1. g = [k \in 0 .. m + 1 |-> g[k]]
        BY DEF g
      <3>2. QED
        BY <2>2, <3>1
    <2>4. \E h : Solves(h, m + 1)
      <3> HIDE DEF Solves, g
      <3>1. QED
        BY <2>3
    <2>5. m + 1 \in Nat
      OBVIOUS
    <2>6. QED
      <3> HIDE DEF Solves, g
      <3>1. QED
        BY <2>4, <2>5
  <1>3. n \in T
    <2> HIDE DEF T
    <2>1. T \subseteq Nat
      BY DEF T
    <2>2. QED
      BY <1>1, <1>2, <2>1, SetInduction
  <1>4. QED
    BY <1>3

\* Within is the last of as many rounds as there are entries.
LEMMA WithinRounds ==
    ASSUME NEW start
    PROVE  \E c : /\ c[0] = start
                  /\ \A k \in 0 .. Cardinality(Entries) : k # 0 => c[k] = Grown(c[k - 1])
                  /\ Within(start) = c[Cardinality(Entries)]
  <1> DEFINE N == Cardinality(Entries)
             Solves(f) == f = [k \in 0 .. N |-> IF k = 0 THEN start ELSE Grown(f[k - 1])]
             c == CHOOSE f : Solves(f)
  <1>1. N \in Nat
    BY EntriesAssumption, FS_CardinalityType
  <1>2. Solves(c)
    <2>1. \E f : Solves(f)
      BY <1>1, WithinDefined
    <2> HIDE DEF Solves
    <2>2. QED
      BY <2>1
  <1>3. Within(start) = c[N]
    BY DEF Within, Grown
  <1> HIDE DEF c
  <1>4. c[0] = start /\ \A k \in 0 .. N : k # 0 => c[k] = Grown(c[k - 1])
    BY <1>1, <1>2
  <1> HIDE DEF Solves
  <1>5. QED
    BY <1>3, <1>4

\* Within holds what it starts from and everything below what it holds: each
\* round adds an entry or finds nothing more, and there are not more entries
\* than rounds.
LEMMA WithinIs ==
    ASSUME NEW start \in SUBSET Entries
    PROVE  start \subseteq Within(start) /\ Within(start) \subseteq Entries /\ Closed(Within(start))
  <1> DEFINE N == Cardinality(Entries)
  <1>1. N \in Nat
    BY EntriesAssumption, FS_CardinalityType
  <1>2. PICK c : /\ c[0] = start
                 /\ \A k \in 0 .. N : k # 0 => c[k] = Grown(c[k - 1])
                 /\ Within(start) = c[N]
    BY WithinRounds
  <1>3. Within(start) = c[N]
    BY <1>2
  <1>4. c[0] = start /\ \A k \in 0 .. N : k # 0 => c[k] = Grown(c[k - 1])
    BY <1>2
  <1> HIDE DEF N
  <1> DEFINE Fine(k) == /\ c[k] \in SUBSET Entries /\ start \subseteq c[k]
                        /\ Closed(c[k]) \/ Cardinality(c[k]) >= k
             T == {k \in Nat : k \in 0 .. N => Fine(k)}
  <1>5. 0 \in T
    <2>1. IsFiniteSet(start)
      BY EntriesAssumption, FS_Subset
    <2>2. Cardinality(c[0]) >= 0
      BY <1>4, <2>1, FS_CardinalityType
    <2>3. QED
      BY <1>4, <2>2
  <1>6. ASSUME NEW k \in T PROVE k + 1 \in T
    <2> SUFFICES ASSUME k + 1 \in 0 .. N PROVE Fine(k + 1)
      OBVIOUS
    <2>1. k \in 0 .. N /\ c[k + 1] = Grown(c[k])
      BY <1>1, <1>4
    <2>2. Fine(k)
      BY <1>6, <2>1
    <2>3. c[k + 1] \in SUBSET Entries /\ c[k] \subseteq c[k + 1]
      BY <2>1, <2>2, BelowEntries DEF Grown
    <2>4. CASE Closed(c[k])
      <3>1. c[k + 1] = c[k]
        BY <2>1, <2>4 DEF Grown, Closed
      <3>2. QED
        BY <2>2, <2>4, <3>1
    <2>5. CASE ~Closed(c[k])
      <3>1. c[k + 1] # c[k]
        BY <2>1, <2>5 DEF Grown, Closed
      <3>2. IsFiniteSet(c[k + 1])
        BY <2>3, EntriesAssumption, FS_Subset
      <3>3. /\ IsFiniteSet(c[k]) /\ Cardinality(c[k]) <= Cardinality(c[k + 1])
            /\ Cardinality(c[k + 1]) # Cardinality(c[k])
        BY <2>3, <3>1, <3>2, FS_Subset
      <3>4. Cardinality(c[k]) \in Nat /\ Cardinality(c[k + 1]) \in Nat /\ Cardinality(c[k]) >= k
        BY <2>2, <2>5, <3>2, <3>3, FS_CardinalityType
      <3>5. Cardinality(c[k + 1]) >= k + 1
        BY <3>3, <3>4
      <3>6. QED
        BY <2>2, <2>3, <3>5
    <2>6. QED
      BY <2>4, <2>5
  <1>7. N \in T
    <2> HIDE DEF T
    <2>1. T \subseteq Nat
      BY DEF T
    <2>2. QED
      BY <1>1, <1>5, <1>6, <2>1, SetInduction
  <1>8. Fine(N)
    BY <1>1, <1>7
  <1>9. Closed(c[N])
    <2>1. CASE Cardinality(c[N]) >= N
      <3>1. Cardinality(c[N]) <= N /\ (N = Cardinality(c[N]) => Entries = c[N])
        BY <1>8, EntriesAssumption, FS_Subset DEF N
      <3>2. IsFiniteSet(c[N])
        BY <1>8, EntriesAssumption, FS_Subset
      <3>3. Cardinality(c[N]) \in Nat
        BY <3>2, FS_CardinalityType
      <3>4. Entries = c[N]
        BY <1>1, <2>1, <3>1, <3>3
      <3>5. QED
        BY <3>4, BelowEntries DEF Closed
    <2>2. QED
      BY <1>8, <2>1
  <1>10. QED
    BY <1>3, <1>8, <1>9

\* e lies in as many functions of es, each in the text of the one before, as
\* depth says.
Nested(e, depth, es) ==
    \E chain \in Nestings(depth, es) : depth > 0 => e \in InText[chain[depth]]

AllNested(w, es) == \A i \in DOMAIN w : \A e \in w[i].todo : Nested(e, w[i].depth, es)

\* The depth of what waits is not counted too high, and what was refused has a
\* reason.
DepthInv ==
    /\ verdict = "walking" => AllNested(work, seen)
    /\ RefusalGrounded

LEMMA NestedMore ==
    ASSUME NEW e, NEW depth, NEW es, NEW more, es \subseteq more, Nested(e, depth, es)
    PROVE  Nested(e, depth, more)
  <1>1. Nestings(depth, es) \subseteq Nestings(depth, more)
    BY DEF Nestings
  <1>2. QED
    BY <1>1 DEF Nested

\* A function with a text is one more than those it lies in.
LEMMA NestedOneMore ==
    ASSUME NEW es, NEW e, NEW depth \in Nat, Nested(e, depth, es), HasText(Node[e])
    PROVE  \E chain \in Nestings(depth + 1, es \cup {e}) : chain[depth + 1] = e
  <1>1. PICK chain \in Nestings(depth, es) : depth > 0 => e \in InText[chain[depth]]
    BY DEF Nested
  <1>2. /\ chain \in [1 .. depth -> {d \in es : HasText(Node[d])}]
        /\ \A i \in 1 .. depth - 1 : chain[i + 1] \in InText[chain[i]]
    BY <1>1 DEF Nestings
  <1> DEFINE longer == [i \in 1 .. depth + 1 |-> IF i <= depth THEN chain[i] ELSE e]
  <1>3. longer \in [1 .. depth + 1 -> {d \in es \cup {e} : HasText(Node[d])}]
    BY <1>2
  <1>4. ASSUME NEW i \in 1 .. depth PROVE longer[i + 1] \in InText[longer[i]]
    <2>1. longer[i] = chain[i]
      OBVIOUS
    <2>2. CASE i = depth
      <3>1. longer[i + 1] = e
        BY <2>2
      <3>2. QED
        BY <1>1, <2>1, <2>2, <3>1
    <2>3. CASE i # depth
      <3>1. longer[i + 1] = chain[i + 1] /\ i \in 1 .. depth - 1
        BY <2>3
      <3>2. QED
        BY <1>2, <2>1, <3>1
    <2>4. QED
      BY <2>2, <2>3
  <1>5. longer[depth + 1] = e
    OBVIOUS
  <1> HIDE DEF longer
  <1>6. (depth + 1) - 1 = depth
    OBVIOUS
  <1>7. longer \in Nestings(depth + 1, es \cup {e})
    BY <1>3, <1>4, <1>6 DEF Nestings
  <1>8. QED
    BY <1>5, <1>7

LEMMA AllNestedConcat ==
    ASSUME NEW a \in Seq(Frame), NEW b \in Seq(Frame), NEW es, AllNested(a, es), AllNested(b, es)
    PROVE  AllNested(a \o b, es)
  <1> SUFFICES ASSUME NEW i \in DOMAIN (a \o b), NEW e \in (a \o b)[i].todo
               PROVE  Nested(e, (a \o b)[i].depth, es)
    BY DEF AllNested
  <1>1. CASE i <= Len(a)
    <2>1. i \in DOMAIN a /\ (a \o b)[i] = a[i]
      BY <1>1
    <2>2. QED
      BY <2>1 DEF AllNested
  <1>2. CASE i > Len(a)
    <2>1. i - Len(a) \in DOMAIN b /\ (a \o b)[i] = b[i - Len(a)]
      BY <1>2
    <2>2. QED
      BY <2>1 DEF AllNested
  <1>3. QED
    BY <1>1, <1>2

LEMMA AllNestedTail ==
    ASSUME NEW w \in Seq(Frame), w # <<>>, NEW es, AllNested(w, es)
    PROVE  AllNested(Tail(w), es) /\ \A e \in Head(w).todo : Nested(e, Head(w).depth, es)
  <1>1. ASSUME NEW i \in DOMAIN Tail(w), NEW e \in Tail(w)[i].todo
        PROVE  Nested(e, Tail(w)[i].depth, es)
    <2>1. i + 1 \in DOMAIN w /\ Tail(w)[i] = w[i + 1]
      OBVIOUS
    <2>2. QED
      BY <1>1, <2>1 DEF AllNested
  <1>2. 1 \in DOMAIN w /\ Head(w) = w[1]
    OBVIOUS
  <1>3. QED
    BY <1>1, <1>2 DEF AllNested

LEMMA AllNestedGroups ==
    ASSUME NEW groups \in Seq(SUBSET Entries), NEW depth, NEW es,
           \A e \in UNION Range(groups) : Nested(e, depth, es)
    PROVE  AllNested(Groups(groups, depth), es)
  <1>1. \A i \in DOMAIN groups : /\ Groups(groups, depth)[i].todo = groups[i]
                                 /\ Groups(groups, depth)[i].depth = depth
    BY DEF Groups
  <1>2. DOMAIN Groups(groups, depth) = DOMAIN groups
    BY DEF Groups
  <1>3. \A i \in DOMAIN groups : groups[i] \subseteq UNION Range(groups)
    BY DEF Range
  <1>4. QED
    BY <1>1, <1>2, <1>3 DEF AllNested

\* What is in the text of a function is in it with everything below.
LEMMA InTextIs ==
    ASSUME NEW d \in Entries
    PROVE  TextKids(d) \subseteq InText[d] /\ Closed(InText[d])
  <1>1. InText[d] = Within(TextKids(d))
    BY DEF InText
  <1>2. QED
    BY <1>1, BelowEntries, WithinIs

\* The entries below e are at the depth of e, and those of its text one deeper.
LEMMA BelowNested ==
    ASSUME NEW es \in SUBSET Entries, NEW e \in Entries, NEW depth \in 0 .. MaxNesting,
           NEW names, Nested(e, depth, es), ~Denied(Node[e], depth, names)
    PROVE  AllNested(Below(Node[e], depth), es \cup {e})
  <1>1. PICK chain \in Nestings(depth, es) : depth > 0 => e \in InText[chain[depth]]
    BY DEF Nested
  <1>2. ASSUME depth > 0 PROVE Kids(e) \subseteq InText[chain[depth]]
    <2>1. chain[depth] \in Entries
      BY <1>1, <1>2 DEF Nestings
    <2>2. QED
      BY <1>1, <1>2, <2>1, InTextIs DEF Closed
  <1>3. ASSUME NEW x \in Kids(e) PROVE Nested(x, depth, es \cup {e})
    <2>1. Nested(x, depth, es)
      BY <1>1, <1>2, <1>3 DEF Nested
    <2>2. QED
      BY <2>1, NestedMore
  <1>4. ASSUME NEW x \in TextKids(e) PROVE Nested(x, depth + 1, es \cup {e})
    <2>1. HasText(Node[e]) /\ depth \in Nat
      BY <1>4 DEF TextKids
    <2>2. PICK longer \in Nestings(depth + 1, es \cup {e}) : longer[depth + 1] = e
      BY <2>1, NestedOneMore
    <2>3. x \in InText[e]
      BY <1>4, InTextIs
    <2>4. QED
      BY <2>2, <2>3 DEF Nested
  <1>5. Node[e].kids \in Seq(SUBSET Entries)
    BY NodeAssumption DEF EntryType
  <1>6. /\ Groups(Node[e].kids, depth) \in Seq(Frame)
        /\ AllNested(Groups(Node[e].kids, depth), es \cup {e})
    BY <1>3, <1>5, WaitingGroups, AllNestedGroups DEF Kids
  <1>7. CASE HasText(Node[e])
    <2>1. depth + 1 \in 0 .. MaxNesting
      <3>1. ~(depth + 1 > MaxNesting)
        BY <1>7 DEF Denied, Malformed
      <3>2. QED
        BY <3>1, NestingAssumption
    <2>2. Parse[Body(Node[e])] \in Seq(SUBSET Entries)
      BY <1>7, ParseAssumption DEF HasText
    <2>3. TextKids(e) = UNION Range(Parse[Body(Node[e])])
      BY <1>7 DEF TextKids
    <2>4. /\ Groups(Parse[Body(Node[e])], depth + 1) \in Seq(Frame)
          /\ AllNested(Groups(Parse[Body(Node[e])], depth + 1), es \cup {e})
      BY <1>4, <2>1, <2>2, <2>3, WaitingGroups, AllNestedGroups
    <2>5. Below(Node[e], depth) =
            Groups(Parse[Body(Node[e])], depth + 1) \o Groups(Node[e].kids, depth)
      BY <1>7 DEF Below
    <2>6. QED
      BY <1>6, <2>4, <2>5, AllNestedConcat
  <1>8. CASE ~HasText(Node[e])
    <2>1. Below(Node[e], depth) = <<>> \o Groups(Node[e].kids, depth)
      BY <1>8 DEF Below
    <2>2. <<>> \o Groups(Node[e].kids, depth) = Groups(Node[e].kids, depth)
      BY <1>6
    <2>3. QED
      BY <1>6, <2>1, <2>2
  <1>9. QED
    BY <1>7, <1>8

\* What is forbidden is so for one that knows less, and at any depth or because
\* it is a function in too many others.
LEMMA DeniedAnyDepth ==
    ASSUME NEW n, NEW depth \in 0 .. MaxNesting,
           NEW names, NEW fewer, Calls(n) => fewer \subseteq names, Denied(n, depth, names)
    PROVE  Denied(n, 0, fewer) \/ (HasText(n) /\ depth = MaxNesting)
  <1>1. CASE Refused(n) \/ (Defines(n) /\ ~Definable(n))
    BY <1>1 DEF Denied
  <1>2. CASE Calls(n) /\ ~Callable(n.parts, names)
    <2>1. ~Callable(n.parts, fewer)
      BY <1>2 DEF Callable
    <2>2. QED
      BY <1>2, <2>1 DEF Denied
  <1>3. CASE HasText(n) /\ Malformed(Body(n), FALSE, depth + 1)
    <2>1. depth + 1 > MaxNesting => depth = MaxNesting
      BY NestingAssumption
    <2>2. depth = MaxNesting \/ Malformed(Body(n), FALSE, 0 + 1)
      BY <1>3, <2>1 DEF Malformed
    <2>3. QED
      BY <1>3, <2>2 DEF Denied
  <1>4. QED
    BY <1>1, <1>2, <1>3 DEF Denied

\* The entry at which the walk stops is the reason.
LEMMA VisitDepth ==
    ASSUME WalkInv, DepthInv, NEW e \in Entries, Visit(e)
    PROVE  DepthInv'
  <1> DEFINE depth == Head(work).depth
             head == [Head(work) EXCEPT !.todo = @ \ {e}]
  <1>1. /\ verdict = "walking" /\ work # <<>> /\ e \in Head(work).todo
        /\ seen' = seen \cup {e} /\ known' = known
    BY DEF Visit
  <1>2. /\ work \in Seq(Frame) /\ Head(work) \in Frame /\ Tail(work) \in Seq(Frame)
        /\ depth \in 0 .. MaxNesting /\ depth \in Nat
    <2>1. work \in Seq(Frame)
      BY DEF WalkInv
    <2>2. Head(work) \in Frame /\ Tail(work) \in Seq(Frame)
      BY <1>1, <2>1, WaitingTail
    <2>3. depth \in 0 .. MaxNesting
      BY <2>2 DEF Frame
    <2>4. QED
      BY <2>1, <2>2, <2>3
  <1>3. AllNested(Tail(work), seen) /\ \A x \in Head(work).todo : Nested(x, depth, seen)
    BY <1>1, <1>2, AllNestedTail DEF DepthInv
  <1>4. CASE Denied(Node[e], depth, local)
    <2>1. verdict' = "refused"
      BY <1>4 DEF Visit
    <2> DEFINE around == {d \in seen' : e \in Inside[d]}
               names == known \cup Defined(around \cup {e})
    <2>2. Calls(Node[e]) => names \subseteq local
      <3>1. Calls(Node[e]) => ~Defines(Node[e])
        BY DEF Calls, Defines
      <3>2. around \cup {e} \subseteq seen \cup {e}
        BY <1>1
      <3>3. local = known \cup Defined(seen)
        BY <1>1 DEF WalkInv
      <3> HIDE DEF around
      <3>4. QED
        BY <3>1, <3>2, <3>3 DEF Defined
    <2>3. Denied(Node[e], 0, names) \/ (HasText(Node[e]) /\ depth = MaxNesting)
      <3> HIDE DEF depth, names
      <3>1. QED
        BY <1>2, <1>4, <2>2, DeniedAnyDepth
    <2>4. ASSUME HasText(Node[e]), depth = MaxNesting
          PROVE  \E chain \in Nestings(MaxNesting + 1, seen') : chain[MaxNesting + 1] = e
      <3>1. Nested(e, MaxNesting, seen)
        BY <1>1, <1>3, <2>4
      <3>2. QED
        BY <1>1, <2>4, <3>1, NestedOneMore, NestingAssumption
    <2>5. \/ Denied(Node[e], 0, names)
          \/ \E chain \in Nestings(MaxNesting + 1, seen') : chain[MaxNesting + 1] = e
      <3> HIDE DEF depth, names
      <3>1. QED
        BY <2>3, <2>4
    <2>6. RefusalGrounded'
      <3>1. Nestings(MaxNesting + 1, seen)' = Nestings(MaxNesting + 1, seen')
        BY DEF Nestings
      <3>2. e \in seen' /\ known' = known
        BY <1>1
      <3>3. QED
        BY <2>5, <3>1, <3>2 DEF RefusalGrounded
    <2>7. QED
      BY <2>1, <2>6 DEF DepthInv
  <1>5. CASE ~Denied(Node[e], depth, local)
    <2>1. verdict' = "walking" /\ work' = Below(Node[e], depth) \o (<<head>> \o Tail(work))
      BY <1>1, <1>5 DEF Visit
    <2>2. head \in Frame /\ head.todo = Head(work).todo \ {e} /\ head.depth = depth
      BY <1>2 DEF Frame
    <2> HIDE DEF head, depth
    <2>3. Below(Node[e], depth) \in Seq(Frame) /\ AllNested(Below(Node[e], depth), seen')
      <3>1. seen \in SUBSET Entries /\ Nested(e, depth, seen)
        BY <1>1, <1>3 DEF WalkInv
      <3>2. QED
        BY <1>1, <1>2, <1>5, <3>1, BelowIs, BelowNested
    <2>4. <<head>> \in Seq(Frame) /\ AllNested(<<head>>, seen')
      <3>1. \A x \in head.todo : Nested(x, head.depth, seen')
        BY <1>1, <1>3, <2>2, NestedMore
      <3>2. DOMAIN <<head>> = {1} /\ <<head>>[1] = head
        OBVIOUS
      <3>3. AllNested(<<head>>, seen')
        BY <3>1, <3>2 DEF AllNested
      <3>4. QED
        BY <2>2, <3>3, WaitingOne
    <2>5. AllNested(Tail(work), seen')
      BY <1>1, <1>3, NestedMore DEF AllNested
    <2>6. AllNested(work', seen')
      BY <1>2, <2>1, <2>3, <2>4, <2>5, AllNestedConcat, WaitingConcat
    <2>7. AllNested(work, seen)' = AllNested(work', seen')
      BY DEF AllNested, Nested, Nestings
    <2>8. QED
      BY <2>1, <2>6, <2>7 DEF DepthInv, RefusalGrounded
  <1>6. QED
    BY <1>4, <1>5

LEMMA CheckDepth ==
    ASSUME NEW text \in Texts, NEW names, Check(text, names)
    PROVE  DepthInv'
  <1>1. seen' = {}
    BY DEF Check
  <1>2. RefusalGrounded'
    BY <1>1 DEF RefusalGrounded
  <1>3. ASSUME verdict' = "walking" PROVE AllNested(work', seen')
    <2>1. work' = Groups(Parse[text], 0) /\ Parse[text] \in Seq(SUBSET Entries)
      BY <1>3, ParseAssumption DEF Check
    <2>2. \A e : Nested(e, 0, seen')
      <3> DEFINE none == [i \in 1 .. 0 |-> {}]
      <3>1. none \in Nestings(0, seen')
        BY DEF Nestings
      <3>2. QED
        BY <3>1 DEF Nested
    <2>3. QED
      BY <2>1, <2>2, AllNestedGroups
  <1>4. AllNested(work, seen)' = AllNested(work', seen')
    BY DEF AllNested, Nested, Nestings
  <1>5. QED
    BY <1>1, <1>2, <1>3, <1>4 DEF DepthInv

LEMMA WalkDepth ==
    ASSUME WalkInv, DepthInv, Walk
    PROVE  DepthInv'
  <1>1. CASE Accept
    BY <1>1 DEF Accept, DepthInv, RefusalGrounded
  <1>2. CASE Leave
    <2>1. /\ verdict' = "walking" /\ seen' = seen /\ work' = Tail(work)
          /\ work # <<>> /\ work \in Seq(Frame) /\ verdict = "walking"
      BY <1>2 DEF Leave, WalkInv
    <2>2. AllNested(work', seen')
      BY <2>1, AllNestedTail DEF DepthInv
    <2>3. AllNested(work, seen)' = AllNested(work', seen')
      BY DEF AllNested, Nested, Nestings
    <2>4. QED
      BY <2>1, <2>2, <2>3 DEF DepthInv, RefusalGrounded
  <1>3. CASE \E e \in Entries : Visit(e)
    BY <1>3, VisitDepth
  <1>4. QED
    BY <1>1, <1>2, <1>3 DEF Walk

LEMMA DepthAside ==
    ASSUME DepthInv, UNCHANGED policyVars
    PROVE  DepthInv'
  <1>1. work' = work /\ seen' = seen /\ known' = known /\ verdict' = verdict
    BY DEF policyVars
  <1>2. AllNested(work, seen)' = AllNested(work, seen)
    BY <1>1 DEF AllNested, Nested, Nestings
  <1>3. RefusalGrounded' = RefusalGrounded
    BY <1>1 DEF RefusalGrounded, Nestings, Defined
  <1>4. QED
    BY <1>1, <1>2, <1>3 DEF DepthInv

\* The ground of every refusal is in the statement, for every finite set of parse
\* trees and every order in which maps are visited: the entry at which the walk
\* stopped is forbidden although the functions known before and those around it
\* may be called, or is a function in more others than the limit allows.  That
\* every order refuses it is not claimed, and is not so.
THEOREM RefusalsAreGrounded == Spec => []RefusalGrounded
  <1>1. Init => DepthInv
    <2> SUFFICES ASSUME Init PROVE DepthInv
      OBVIOUS
    <2>1. seen = {} /\ verdict = "none"
      BY DEF Init, PolicyInit
    <2>2. QED
      BY <2>1 DEF DepthInv, RefusalGrounded
  <1>2. ExecInv /\ DepthInv /\ [Next]_vars => DepthInv'
    <2> SUFFICES ASSUME ExecInv, DepthInv, [Next]_vars PROVE DepthInv'
      OBVIOUS
    <2>1. CASE Inspect
      <3>1. Len(results) + 1 \in DOMAIN batch
        BY <2>1 DEF Inspect, ExecInv, BudgetTyped, BatchTyped
      <3>2. Current \in Texts
        BY <3>1 DEF Current, ExecInv, BatchTyped
      <3>3. QED
        BY <2>1, <3>2, CheckDepth DEF Inspect
    <2>2. CASE PolicyStep
      BY <2>2, WalkDepth DEF PolicyStep, ExecInv
    <2>3. CASE UNCHANGED policyVars
      BY <2>3, DepthAside
    <2>4. QED
      BY <2>1, <2>2, <2>3 DEF Next, Begin, InspectFails, PolicyError, Send, Fetch,
         Complete, QueryError, Commit, Quiet, vars
  <1>3. DepthInv => RefusalGrounded
    BY DEF DepthInv
  <1>4. QED
    BY <1>1, <1>2, <1>3, ExecInvariant, PTL DEF Spec

(***************************************************************************)
(* Nesting                                                                 *)
(***************************************************************************)

\* Within holds nothing else: it is part of every closed set it starts in.
LEMMA WithinLeast ==
    ASSUME NEW start \in SUBSET Entries, NEW es, start \subseteq es, Closed(es)
    PROVE  Within(start) \subseteq es
  <1> DEFINE N == Cardinality(Entries)
  <1>1. N \in Nat
    BY EntriesAssumption, FS_CardinalityType
  <1>2. PICK c : /\ c[0] = start
                 /\ \A k \in 0 .. N : k # 0 => c[k] = Grown(c[k - 1])
                 /\ Within(start) = c[N]
    BY WithinRounds
  <1> HIDE DEF N
  <1> DEFINE T == {k \in Nat : k \in 0 .. N => c[k] \subseteq es}
  <1>3. 0 \in T
    BY <1>2
  <1>4. ASSUME NEW k \in T PROVE k + 1 \in T
    <2> SUFFICES ASSUME k + 1 \in 0 .. N PROVE c[k + 1] \subseteq es
      OBVIOUS
    <2>1. c[k + 1] = Grown(c[k]) /\ k \in 0 .. N
      BY <1>1, <1>2
    <2>2. c[k] \subseteq es
      BY <1>4, <2>1
    <2>3. QED
      BY <2>1, <2>2 DEF Grown, Closed
  <1>5. N \in T
    <2> HIDE DEF T
    <2>1. T \subseteq Nat
      BY DEF T
    <2>2. QED
      BY <1>1, <1>3, <1>4, <2>1, SetInduction
  <1>6. QED
    BY <1>1, <1>2, <1>5

\* What lies within some entries lies within one of them.
LEMMA WithinOne ==
    ASSUME NEW start \in SUBSET Entries, NEW x \in Within(start)
    PROVE  \E y \in start : x \in Within({y})
  <1> DEFINE es == UNION {Within({y}) : y \in start}
  <1>1. \A y \in start : y \in Within({y}) /\ Closed(Within({y}))
    BY WithinIs
  <1>2. start \subseteq es /\ Closed(es)
    BY <1>1 DEF Closed
  <1>3. x \in es
    <2> HIDE DEF es
    <2>1. QED
      BY <1>2, WithinLeast
  <1>4. QED
    BY <1>3

\* What lies within an entry is the entry itself, or lies within one below it.
LEMMA WithinBelow ==
    ASSUME NEW e \in Entries, NEW x \in Within({e}), x # e
    PROVE  \E y \in Kids(e) \cup TextKids(e) : x \in Within({y})
  <1> DEFINE below == Kids(e) \cup TextKids(e)
  <1>1. below \in SUBSET Entries
    BY BelowEntries
  <1> HIDE DEF below
  <1>2. below \subseteq Within(below) /\ Closed(Within(below))
    BY <1>1, WithinIs
  <1>3. Closed({e} \cup Within(below))
    BY <1>2 DEF Closed, below
  <1>4. x \in Within(below)
    BY <1>3, WithinLeast
  <1>5. \E y \in below : x \in Within({y})
    BY <1>1, <1>4, WithinOne
  <1>6. QED
    BY <1>5 DEF below

\* An entry waits to be visited at a depth.
WaitsAt(w, e, depth) == \E i \in DOMAIN w : e \in w[i].todo /\ w[i].depth = depth

LEMMA WaitsConcat ==
    ASSUME NEW a \in Seq(Frame), NEW b \in Seq(Frame), NEW e, NEW depth,
           WaitsAt(a, e, depth) \/ WaitsAt(b, e, depth)
    PROVE  WaitsAt(a \o b, e, depth)
  <1>1. CASE WaitsAt(a, e, depth)
    <2>1. PICK i \in DOMAIN a : e \in a[i].todo /\ a[i].depth = depth
      BY <1>1 DEF WaitsAt
    <2>2. i \in DOMAIN (a \o b) /\ (a \o b)[i] = a[i]
      OBVIOUS
    <2>3. QED
      BY <2>1, <2>2 DEF WaitsAt
  <1>2. CASE WaitsAt(b, e, depth)
    <2>1. PICK i \in DOMAIN b : e \in b[i].todo /\ b[i].depth = depth
      BY <1>2 DEF WaitsAt
    <2>2. i + Len(a) \in DOMAIN (a \o b) /\ (a \o b)[i + Len(a)] = b[i]
      OBVIOUS
    <2>3. QED
      BY <2>1, <2>2 DEF WaitsAt
  <1>3. QED
    BY <1>1, <1>2

LEMMA WaitsTail ==
    ASSUME NEW w \in Seq(Frame), w # <<>>, NEW e, NEW depth, WaitsAt(w, e, depth)
    PROVE  \/ e \in Head(w).todo /\ Head(w).depth = depth
           \/ WaitsAt(Tail(w), e, depth)
  <1>1. PICK i \in DOMAIN w : e \in w[i].todo /\ w[i].depth = depth
    BY DEF WaitsAt
  <1>2. CASE i = 1
    BY <1>1, <1>2
  <1>3. CASE i # 1
    <2>1. i - 1 \in DOMAIN Tail(w) /\ Tail(w)[i - 1] = w[i]
      BY <1>3
    <2>2. QED
      BY <1>1, <2>1 DEF WaitsAt
  <1>4. QED
    BY <1>2, <1>3

LEMMA WaitsGroups ==
    ASSUME NEW groups \in Seq(SUBSET Entries), NEW depth, NEW e \in UNION Range(groups)
    PROVE  WaitsAt(Groups(groups, depth), e, depth)
  <1>1. PICK i \in DOMAIN groups : e \in groups[i]
    BY DEF Range
  <1>2. i \in DOMAIN Groups(groups, depth) /\ Groups(groups, depth)[i] = [todo |-> groups[i], depth |-> depth]
    BY DEF Groups
  <1>3. QED
    BY <1>1, <1>2 DEF WaitsAt

\* What an entry that passes puts on the work: its own entries at its depth,
\* those of its text one deeper, and that is not too deep.
LEMMA BelowWaits ==
    ASSUME NEW e \in Entries, NEW depth \in 0 .. MaxNesting, NEW names,
           ~Denied(Node[e], depth, names)
    PROVE  /\ \A y \in Kids(e) : WaitsAt(Below(Node[e], depth), y, depth)
           /\ \A y \in TextKids(e) : WaitsAt(Below(Node[e], depth), y, depth + 1)
           /\ HasText(Node[e]) => depth + 1 <= MaxNesting
  <1>1. Node[e].kids \in Seq(SUBSET Entries)
    BY NodeAssumption DEF EntryType
  <1>2. /\ Groups(Node[e].kids, depth) \in Seq(Frame)
        /\ \A y \in Kids(e) : WaitsAt(Groups(Node[e].kids, depth), y, depth)
    BY <1>1, WaitingGroups, WaitsGroups DEF Kids
  <1>3. CASE HasText(Node[e])
    <2>1. depth + 1 <= MaxNesting /\ depth + 1 \in 0 .. MaxNesting
      <3>1. ~(depth + 1 > MaxNesting)
        BY <1>3 DEF Denied, Malformed
      <3>2. QED
        BY <3>1, NestingAssumption
    <2>2. Parse[Body(Node[e])] \in Seq(SUBSET Entries)
      BY <1>3, ParseAssumption DEF HasText
    <2>3. TextKids(e) = UNION Range(Parse[Body(Node[e])])
      BY <1>3 DEF TextKids
    <2>4. /\ Groups(Parse[Body(Node[e])], depth + 1) \in Seq(Frame)
          /\ \A y \in TextKids(e) : WaitsAt(Groups(Parse[Body(Node[e])], depth + 1), y, depth + 1)
      BY <2>1, <2>2, <2>3, WaitingGroups, WaitsGroups
    <2>5. Below(Node[e], depth) =
            Groups(Parse[Body(Node[e])], depth + 1) \o Groups(Node[e].kids, depth)
      BY <1>3 DEF Below
    <2>6. QED
      BY <1>2, <2>1, <2>4, <2>5, WaitsConcat
  <1>4. CASE ~HasText(Node[e])
    <2>1. <<>> \in Seq(Frame) /\ TextKids(e) = {}
      BY <1>4 DEF TextKids
    <2>2. Below(Node[e], depth) = <<>> \o Groups(Node[e].kids, depth)
      BY <1>4 DEF Below
    <2>3. QED
      BY <1>2, <1>4, <2>1, <2>2, WaitsConcat
  <1>5. QED
    BY <1>3, <1>4

\* Functions nested deeper than allowed, each in the text of the one before.
TooDeep == Nestings(MaxNesting + 1, Entries)

LEMMA TooDeepIs ==
    ASSUME NEW chain \in TooDeep
    PROVE  /\ chain \in [1 .. MaxNesting + 1 -> {d \in Entries : HasText(Node[d])}]
           /\ \A i \in 1 .. MaxNesting : chain[i + 1] \in InText[chain[i]]
  <1>1. (MaxNesting + 1) - 1 = MaxNesting
    BY NestingAssumption
  <1>2. QED
    BY <1>1 DEF TooDeep, Nestings

\* Some entry that waits is deep enough for the functions of the chain that it
\* holds to be refused.
Ahead(w, chain) ==
    \E e \in Entries, depth \in 0 .. MaxNesting, j \in 1 .. MaxNesting + 1 :
       WaitsAt(w, e, depth) /\ chain[j] \in Within({e}) /\ j <= depth + 1

\* A walk that has come upon functions nested too deep will be refused.
NestInv ==
    /\ verdict = "walking" => \A chain \in TooDeep : chain[1] \in seen => Ahead(work, chain)
    /\ NestingBounded

\* What waits during a visit goes on waiting, or is visited.
LEMMA VisitWaits ==
    ASSUME WalkInv, NEW e \in Entries, Visit(e), ~Denied(Node[e], Head(work).depth, local)
    PROVE  /\ Head(work).depth \in 0 .. MaxNesting
           /\ \A x, depth : WaitsAt(work, x, depth) =>
                 \/ x = e /\ depth = Head(work).depth
                 \/ WaitsAt(work', x, depth)
           /\ \A y \in Kids(e) : WaitsAt(work', y, Head(work).depth)
           /\ \A y \in TextKids(e) : WaitsAt(work', y, Head(work).depth + 1)
           /\ HasText(Node[e]) => Head(work).depth + 1 <= MaxNesting
  <1> DEFINE here == Head(work).depth
             head == [Head(work) EXCEPT !.todo = @ \ {e}]
  <1>1. /\ work # <<>> /\ work \in Seq(Frame)
        /\ work' = Below(Node[e], here) \o (<<head>> \o Tail(work))
    BY DEF Visit, WalkInv
  <1>2. Head(work) \in Frame /\ Tail(work) \in Seq(Frame)
    BY <1>1, WaitingTail
  <1>3. here \in 0 .. MaxNesting /\ head \in Frame
    BY <1>2 DEF Frame
  <1>4. head.todo = Head(work).todo \ {e} /\ head.depth = here
    BY <1>2 DEF Frame
  <1>5. ~Denied(Node[e], here, local)
    OBVIOUS
  <1> HIDE DEF here, head
  <1>6. <<head>> \in Seq(Frame) /\ <<head>> \o Tail(work) \in Seq(Frame)
    BY <1>2, <1>3, WaitingOne, WaitingConcat
  <1>7. Below(Node[e], here) \in Seq(Frame)
    BY <1>3, <1>5, BelowIs
  <1>8. ASSUME NEW x, NEW depth, WaitsAt(work, x, depth), ~(x = e /\ depth = here)
        PROVE  WaitsAt(work', x, depth)
    <2>1. CASE x \in Head(work).todo /\ Head(work).depth = depth
      <3>1. x \in head.todo /\ head.depth = depth
        BY <1>4, <1>8, <2>1 DEF here
      <3>2. 1 \in DOMAIN <<head>> /\ <<head>>[1] = head
        OBVIOUS
      <3>3. WaitsAt(<<head>>, x, depth)
        BY <3>1, <3>2 DEF WaitsAt
      <3>4. QED
        BY <1>1, <1>2, <1>6, <1>7, <3>3, WaitsConcat
    <2>2. CASE WaitsAt(Tail(work), x, depth)
      BY <1>1, <1>2, <1>6, <1>7, <2>2, WaitsConcat
    <2>3. QED
      BY <1>1, <1>8, <2>1, <2>2, WaitsTail
  <1>9. /\ \A y \in Kids(e) : WaitsAt(Below(Node[e], here), y, here)
        /\ \A y \in TextKids(e) : WaitsAt(Below(Node[e], here), y, here + 1)
        /\ HasText(Node[e]) => here + 1 <= MaxNesting
    BY <1>3, <1>5, BelowWaits
  <1>10. /\ \A y \in Kids(e) : WaitsAt(work', y, here)
         /\ \A y \in TextKids(e) : WaitsAt(work', y, here + 1)
    BY <1>1, <1>6, <1>7, <1>9, WaitsConcat
  <1>11. QED
    BY <1>3, <1>8, <1>9, <1>10 DEF here

\* An entry that passes hands the chain on to what it puts on the work.
LEMMA ChainHandedOn ==
    ASSUME WalkInv, NEW e \in Entries, Visit(e), ~Denied(Node[e], Head(work).depth, local),
           NEW chain \in TooDeep, NEW j \in 1 .. MaxNesting + 1,
           chain[j] \in Within({e}), j <= Head(work).depth + 1
    PROVE  Ahead(work', chain)
  <1> DEFINE here == Head(work).depth
  <1>1. /\ here \in 0 .. MaxNesting
        /\ \A y \in Kids(e) : WaitsAt(work', y, here)
        /\ \A y \in TextKids(e) : WaitsAt(work', y, here + 1)
        /\ HasText(Node[e]) => here + 1 <= MaxNesting
    BY VisitWaits
  <1>2. Kids(e) \subseteq Entries /\ TextKids(e) \subseteq Entries
    BY BelowEntries
  <1>3. TextKids(e) # {} => HasText(Node[e])
    BY DEF TextKids
  <1>4. j <= here + 1 /\ MaxNesting \in Nat
    BY NestingAssumption
  <1> HIDE DEF here
  <1>5. CASE chain[j] = e
    <2>1. HasText(Node[e])
      BY <1>5, TooDeepIs
    <2>2. here + 1 <= MaxNesting /\ j \in 1 .. MaxNesting
      BY <1>1, <1>4, <2>1
    <2>3. chain[j + 1] \in Within(TextKids(e))
      BY <1>5, <2>2, TooDeepIs DEF InText
    <2>4. PICK y \in TextKids(e) : chain[j + 1] \in Within({y})
      BY <1>2, <2>3, WithinOne
    <2>5. /\ WaitsAt(work', y, here + 1) /\ here + 1 \in 0 .. MaxNesting
          /\ j + 1 \in 1 .. MaxNesting + 1 /\ j + 1 <= (here + 1) + 1
      BY <1>1, <1>4, <2>2
    <2>6. QED
      BY <1>2, <2>4, <2>5 DEF Ahead
  <1>6. CASE chain[j] # e
    <2>1. PICK y \in Kids(e) \cup TextKids(e) : chain[j] \in Within({y})
      BY <1>6, WithinBelow
    <2>2. CASE y \in Kids(e)
      BY <1>1, <1>2, <1>4, <2>1, <2>2 DEF Ahead
    <2>3. CASE y \in TextKids(e)
      <3>1. WaitsAt(work', y, here + 1) /\ here + 1 \in 0 .. MaxNesting /\ j <= (here + 1) + 1
        BY <1>1, <1>3, <1>4, <2>3
      <3>2. QED
        BY <1>2, <2>1, <2>3, <3>1 DEF Ahead
    <2>4. QED
      BY <2>1, <2>2, <2>3
  <1>7. QED
    BY <1>5, <1>6

\* A chain stays ahead of the walk, or the entry that is visited is refused.
LEMMA VisitNest ==
    ASSUME WalkInv, NestInv, NEW e \in Entries, Visit(e)
    PROVE  NestInv'
  <1>1. verdict = "walking" /\ seen' = seen \cup {e}
    BY DEF Visit
  <1>2. CASE Denied(Node[e], Head(work).depth, local)
    BY <1>2 DEF Visit, NestInv, NestingBounded
  <1>3. CASE ~Denied(Node[e], Head(work).depth, local)
    <2>1. verdict' = "walking"
      BY <1>1, <1>3 DEF Visit
    <2>2. Head(work).depth \in 0 .. MaxNesting
      BY <1>3, VisitWaits
    <2>3. ASSUME NEW chain \in TooDeep, chain[1] \in seen' PROVE Ahead(work', chain)
      <3>1. CASE chain[1] = e
        <4>1. e \in Within({e})
          BY WithinIs
        <4>2. 1 \in 1 .. MaxNesting + 1 /\ 1 <= Head(work).depth + 1
          BY <2>2, NestingAssumption
        <4>3. QED
          BY <1>3, <3>1, <4>1, <4>2, ChainHandedOn
      <3>2. CASE chain[1] \in seen
        <4>1. Ahead(work, chain)
          BY <1>1, <3>2 DEF NestInv
        <4>2. PICK x \in Entries, depth \in 0 .. MaxNesting, j \in 1 .. MaxNesting + 1 :
                 WaitsAt(work, x, depth) /\ chain[j] \in Within({x}) /\ j <= depth + 1
          BY <4>1 DEF Ahead
        <4>3. CASE x = e /\ depth = Head(work).depth
          BY <1>3, <4>2, <4>3, ChainHandedOn
        <4>4. CASE WaitsAt(work', x, depth)
          BY <4>2, <4>4 DEF Ahead
        <4>5. QED
          BY <1>3, <4>2, <4>3, <4>4, VisitWaits
      <3>3. QED
        BY <1>1, <2>3, <3>1, <3>2
    <2>4. \A chain : Ahead(work, chain)' = Ahead(work', chain)
      BY DEF Ahead, WaitsAt
    <2>5. QED
      BY <2>1, <2>3, <2>4 DEF NestInv, NestingBounded
  <1>4. QED
    BY <1>2, <1>3

LEMMA WalkNest ==
    ASSUME WalkInv, NestInv, Walk
    PROVE  NestInv'
  <1>1. CASE Accept
    <2>1. work = <<>> /\ verdict = "walking" /\ seen' = seen /\ verdict' = "allowed"
      BY <1>1 DEF Accept
    <2>2. \A chain : ~Ahead(work, chain)
      BY <2>1 DEF Ahead, WaitsAt
    <2>3. \A chain \in TooDeep : chain[1] \notin seen
      BY <2>1, <2>2 DEF NestInv
    <2>4. ASSUME NEW chain \in Nestings(MaxNesting + 1, seen) PROVE FALSE
      <3>1. chain \in TooDeep
        BY DEF TooDeep, Nestings, WalkInv
      <3>2. chain[1] \in seen
        BY NestingAssumption DEF Nestings
      <3>3. QED
        BY <2>3, <3>1, <3>2
    <2>5. Nestings(MaxNesting + 1, seen)' = Nestings(MaxNesting + 1, seen)
      BY <2>1 DEF Nestings
    <2>6. QED
      BY <2>1, <2>4, <2>5 DEF NestInv, NestingBounded
  <1>2. CASE Leave
    <2>1. /\ verdict' = verdict /\ seen' = seen /\ work' = Tail(work) /\ verdict = "walking"
          /\ work # <<>> /\ work \in Seq(Frame) /\ Head(work).todo = {}
      BY <1>2 DEF Leave, WalkInv
    <2>2. \A e, depth : WaitsAt(work, e, depth) => WaitsAt(work', e, depth)
      BY <2>1, WaitsTail
    <2>3. \A chain : Ahead(work, chain) => Ahead(work, chain)'
      BY <2>2 DEF Ahead, WaitsAt
    <2>4. QED
      BY <2>1, <2>3 DEF NestInv, NestingBounded
  <1>3. CASE \E e \in Entries : Visit(e)
    BY <1>3, VisitNest
  <1>4. QED
    BY <1>1, <1>2, <1>3 DEF Walk

\* No statement passes with functions nested deeper than the limit, for every
\* limit, every finite set of parse trees (shared between texts or not) and
\* every order in which maps are visited: the depth of the checker is that of
\* the text it walks.
THEOREM NestingIsBounded == Spec => []NestingBounded
  <1>1. Init => NestInv
    BY DEF Init, PolicyInit, NestInv, NestingBounded
  <1>2. ExecInv /\ NestInv /\ [Next]_vars => NestInv'
    <2> SUFFICES ASSUME ExecInv, NestInv, [Next]_vars PROVE NestInv'
      OBVIOUS
    <2>1. CASE Inspect
      <3>1. seen' = {} /\ verdict' # "allowed"
        BY <2>1 DEF Inspect, Check
      <3>2. QED
        BY <3>1 DEF NestInv, NestingBounded
    <2>2. CASE PolicyStep
      BY <2>2, WalkNest DEF PolicyStep, ExecInv
    <2>3. CASE UNCHANGED policyVars
      BY <2>3 DEF policyVars, NestInv, NestingBounded, Nestings, Ahead, WaitsAt
    <2>4. QED
      BY <2>1, <2>2, <2>3 DEF Next, Begin, InspectFails, PolicyError, Send, Fetch,
         Complete, QueryError, Commit, Quiet, vars
  <1>3. NestInv => NestingBounded
    BY DEF NestInv
  <1>4. QED
    BY <1>1, <1>2, <1>3, ExecInvariant, PTL DEF Spec

=============================================================================
