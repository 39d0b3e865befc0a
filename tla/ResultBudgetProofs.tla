------------------------- MODULE ResultBudgetProofs -------------------------
(***************************************************************************)
(* What the sums of ResultBudget are, for sequences of any length.  The    *)
(* folds are functions defined by recursion on sets of indices; that such  *)
(* a function exists is shown by induction, and so is what it computes.    *)
(***************************************************************************)
EXTENDS ResultBudget, WellFoundedInduction, TLAPS

\* Induction, for a set of natural numbers.
LEMMA SetInduction ==
    ASSUME NEW T, T \subseteq Nat, 0 \in T, \A n \in T : n + 1 \in T
    PROVE  \A n \in Nat : n \in T
  <1>1. ASSUME Nat \ T # {} PROVE FALSE
    <2>1. PICK x \in Nat \ T : \A y \in Nat \ T : ~ (<<y, x>> \in OpToRel(<, Nat))
      BY <1>1, WFMin, NatLessThanWellFounded
    <2>2. \A y \in Nat \ T : ~ (y < x)
      BY <2>1 DEF OpToRel
    <2>3. x - 1 \in Nat /\ x - 1 < x
      OBVIOUS
    <2>4. x - 1 \in T
      BY <2>2, <2>3
    <2>5. QED
      BY <2>4
  <1>2. QED
    BY <1>1

\* The greatest of the numbers up to n.
LEMMA MaxIs ==
    ASSUME NEW n \in Nat, NEW S \in SUBSET (1 .. n), n \in S
    PROVE  Max(S) = n
  <1>1. \A x \in S : (\A y \in S : x >= y) <=> x = n
    OBVIOUS
  <1>2. QED
    BY <1>1 DEF Max

\* The recursion of Total has a solution.
LEMMA TotalDefined ==
    ASSUME NEW s, NEW n \in Nat
    PROVE  \E f : f = [S \in SUBSET (1 .. n) |->
                          IF S = {} THEN 0 ELSE f[S \ {Max(S)}] + s[Max(S)]]
  <1> DEFINE Solves(f, k) ==
               f = [S \in SUBSET (1 .. k) |->
                      IF S = {} THEN 0 ELSE f[S \ {Max(S)}] + s[Max(S)]]
             T == {k \in Nat : \E f : Solves(f, k)}
  <1>1. 0 \in T
    <2>1. Solves([S \in SUBSET (1 .. 0) |-> 0], 0)
      OBVIOUS
    <2>2. QED
      BY <2>1
  <1>2. ASSUME NEW k \in T PROVE k + 1 \in T
    <2>1. PICK f : Solves(f, k)
      BY <1>2
    <2> DEFINE g == [S \in SUBSET (1 .. k + 1) |->
                       IF k + 1 \in S THEN f[S \ {k + 1}] + s[k + 1] ELSE f[S]]
    <2>2. ASSUME NEW S \in SUBSET (1 .. k + 1)
          PROVE  g[S] = IF S = {} THEN 0 ELSE g[S \ {Max(S)}] + s[Max(S)]
      <3>1. CASE k + 1 \in S
        <4>1. Max(S) = k + 1
          BY <3>1, MaxIs
        <4>2. g[S] = f[S \ {k + 1}] + s[k + 1]
          BY <3>1
        <4>3. g[S \ {k + 1}] = f[S \ {k + 1}]
          OBVIOUS
        <4>4. QED
          BY <3>1, <4>1, <4>2, <4>3
      <3>2. CASE k + 1 \notin S
        <4>1. S \in SUBSET (1 .. k)
          BY <3>2
        <4>2. g[S] = f[S]
          BY <3>2
        <4>3. ASSUME S # {} PROVE g[S \ {Max(S)}] = f[S \ {Max(S)}]
          <5>1. S \ {Max(S)} \in SUBSET (1 .. k + 1) /\ k + 1 \notin S \ {Max(S)}
            BY <3>2
          <5>2. QED
            BY <5>1
        <4>4. f[S] = IF S = {} THEN 0 ELSE f[S \ {Max(S)}] + s[Max(S)]
          BY <2>1, <4>1
        <4>5. QED
          BY <4>2, <4>3, <4>4
      <3>3. QED
        BY <3>1, <3>2
    <2>3. Solves(g, k + 1)
      <3> HIDE DEF g
      <3>1. g = [S \in SUBSET (1 .. k + 1) |-> g[S]]
        BY DEF g
      <3>2. QED
        BY <2>2, <3>1
    <2>4. \E h : Solves(h, k + 1)
      <3> HIDE DEF Solves, g
      <3>1. QED
        BY <2>3
    <2>5. k + 1 \in Nat
      OBVIOUS
    <2>6. QED
      <3> HIDE DEF Solves, g
      <3>1. QED
        BY <2>4, <2>5
  <1>3. n \in T
    <2> HIDE DEF T
    <2>1. T \subseteq Nat
      BY DEF T
    <2>2. QED
      BY <1>1, <1>2, <2>1, SetInduction
  <1>4. QED
    BY <1>3

\* Total adds up its argument from left to right.
LEMMA TotalIs ==
    ASSUME NEW n \in Nat, NEW s, DOMAIN s = 1 .. n
    PROVE  \E t : /\ t[0] = 0
                  /\ \A k \in 1 .. n : t[k] = t[k - 1] + s[k]
                  /\ Total(s) = t[n]
  <1> DEFINE Solves(f) ==
               f = [S \in SUBSET (1 .. n) |->
                      IF S = {} THEN 0 ELSE f[S \ {Max(S)}] + s[Max(S)]]
             c == CHOOSE f : Solves(f)
             t == [k \in 0 .. n |-> c[1 .. k]]
  <1>1. Solves(c)
    <2>1. \E f : Solves(f)
      BY TotalDefined
    <2> HIDE DEF Solves
    <2>2. QED
      BY <2>1
  <1>2. Total(s) = c[1 .. n]
    BY DEF Total, FoldLeft, MapThenFoldSet
  <1> HIDE DEF c
  <1>3. t[0] = 0
    <2>1. 1 .. 0 = {}
      OBVIOUS
    <2>2. QED
      BY <1>1, <2>1
  <1>4. ASSUME NEW k \in 1 .. n PROVE t[k] = t[k - 1] + s[k]
    <2>1. 1 .. k \in SUBSET (1 .. n) /\ 1 .. k # {}
      <3>1. k \in 1 .. k
        OBVIOUS
      <3>2. 1 .. k \subseteq 1 .. n
        OBVIOUS
      <3>3. QED
        BY <3>1, <3>2
    <2>2. Max(1 .. k) = k
      BY MaxIs
    <2>3. (1 .. k) \ {k} = 1 .. k - 1
      OBVIOUS
    <2>4. c[1 .. k] = c[1 .. k - 1] + s[k]
      BY <1>1, <2>1, <2>2, <2>3
    <2>5. QED
      BY <2>4
  <1>5. QED
    <2> HIDE DEF t
    <2>1. Total(s) = t[n]
      BY <1>2 DEF t
    <2>2. QED
      BY <1>3, <1>4, <2>1

\* What is left after a statement of length n.
Fit(left, n) == IF n > left THEN -1 ELSE left - n

\* The recursion of Left has a solution.
LEMMA LeftDefined ==
    ASSUME NEW s, NEW n \in Nat
    PROVE  \E f : f = [S \in SUBSET (1 .. n) |->
                          IF S = {} THEN config.MaxSQLBytes ELSE Fit(f[S \ {Max(S)}], s[Max(S)])]
  <1> DEFINE Solves(f, k) ==
               f = [S \in SUBSET (1 .. k) |->
                      IF S = {} THEN config.MaxSQLBytes ELSE Fit(f[S \ {Max(S)}], s[Max(S)])]
             T == {k \in Nat : \E f : Solves(f, k)}
  <1>1. 0 \in T
    <2>1. Solves([S \in SUBSET (1 .. 0) |-> config.MaxSQLBytes], 0)
      OBVIOUS
    <2>2. QED
      BY <2>1
  <1>2. ASSUME NEW k \in T PROVE k + 1 \in T
    <2>1. PICK f : Solves(f, k)
      BY <1>2
    <2> DEFINE g == [S \in SUBSET (1 .. k + 1) |->
                       IF k + 1 \in S THEN Fit(f[S \ {k + 1}], s[k + 1]) ELSE f[S]]
    <2>2. ASSUME NEW S \in SUBSET (1 .. k + 1)
          PROVE  g[S] = IF S = {} THEN config.MaxSQLBytes ELSE Fit(g[S \ {Max(S)}], s[Max(S)])
      <3>1. CASE k + 1 \in S
        <4>1. Max(S) = k + 1
          BY <3>1, MaxIs
        <4>2. g[S] = Fit(f[S \ {k + 1}], s[k + 1])
          BY <3>1
        <4>3. g[S \ {k + 1}] = f[S \ {k + 1}]
          OBVIOUS
        <4>4. QED
          BY <3>1, <4>1, <4>2, <4>3
      <3>2. CASE k + 1 \notin S
        <4>1. S \in SUBSET (1 .. k)
          BY <3>2
        <4>2. g[S] = f[S]
          BY <3>2
        <4>3. ASSUME S # {} PROVE g[S \ {Max(S)}] = f[S \ {Max(S)}]
          <5>1. S \ {Max(S)} \in SUBSET (1 .. k + 1) /\ k + 1 \notin S \ {Max(S)}
            BY <3>2
          <5>2. QED
            BY <5>1
        <4>4. f[S] = IF S = {} THEN config.MaxSQLBytes ELSE Fit(f[S \ {Max(S)}], s[Max(S)])
          BY <2>1, <4>1
        <4>5. QED
          BY <4>2, <4>3, <4>4
      <3>3. QED
        BY <3>1, <3>2
    <2>3. Solves(g, k + 1)
      <3> HIDE DEF g
      <3>1. g = [S \in SUBSET (1 .. k + 1) |-> g[S]]
        BY DEF g
      <3>2. QED
        BY <2>2, <3>1
    <2>4. \E h : Solves(h, k + 1)
      <3> HIDE DEF Solves, g
      <3>1. QED
        BY <2>3
    <2>5. k + 1 \in Nat
      OBVIOUS
    <2>6. QED
      <3> HIDE DEF Solves, g
      <3>1. QED
        BY <2>4, <2>5
  <1>3. n \in T
    <2> HIDE DEF T
    <2>1. T \subseteq Nat
      BY DEF T
    <2>2. QED
      BY <1>1, <1>2, <2>1, SetInduction
  <1>4. QED
    BY <1>3

\* Left takes the lengths away from left to right.
LEMMA LeftIs ==
    ASSUME NEW n \in Nat, NEW s, DOMAIN s = 1 .. n
    PROVE  \E t : /\ t[0] = config.MaxSQLBytes
                  /\ \A k \in 1 .. n : t[k] = Fit(t[k - 1], s[k])
                  /\ Left(s) = t[n]
  <1> DEFINE Solves(f) ==
               f = [S \in SUBSET (1 .. n) |->
                      IF S = {} THEN config.MaxSQLBytes ELSE Fit(f[S \ {Max(S)}], s[Max(S)])]
             c == CHOOSE f : Solves(f)
             t == [k \in 0 .. n |-> c[1 .. k]]
  <1>1. Solves(c)
    <2>1. \E f : Solves(f)
      BY LeftDefined
    <2> HIDE DEF Solves
    <2>2. QED
      BY <2>1
  <1>2. Left(s) = c[1 .. n]
    BY DEF Left, FoldLeft, MapThenFoldSet, Fit
  <1> HIDE DEF c
  <1>3. t[0] = config.MaxSQLBytes
    <2>1. 1 .. 0 = {}
      OBVIOUS
    <2>2. QED
      BY <1>1, <2>1
  <1>4. ASSUME NEW k \in 1 .. n PROVE t[k] = Fit(t[k - 1], s[k])
    <2>1. 1 .. k \in SUBSET (1 .. n) /\ 1 .. k # {}
      <3>1. k \in 1 .. k
        OBVIOUS
      <3>2. 1 .. k \subseteq 1 .. n
        OBVIOUS
      <3>3. QED
        BY <3>1, <3>2
    <2>2. Max(1 .. k) = k
      BY MaxIs
    <2>3. (1 .. k) \ {k} = 1 .. k - 1
      OBVIOUS
    <2>4. c[1 .. k] = Fit(c[1 .. k - 1], s[k])
      BY <1>1, <2>1, <2>2, <2>3
    <2>5. QED
      BY <2>4
  <1>5. QED
    <2> HIDE DEF t
    <2>1. Left(s) = t[n]
      BY <1>2 DEF t
    <2>2. QED
      BY <1>3, <1>4, <2>1

\* A sum of natural numbers is one.
LEMMA TotalNat ==
    ASSUME NEW n \in Nat, NEW s \in [1 .. n -> Nat]
    PROVE  Total(s) \in Nat
  <1>1. PICK t : /\ t[0] = 0
                 /\ \A k \in 1 .. n : t[k] = t[k - 1] + s[k]
                 /\ Total(s) = t[n]
    BY TotalIs
  <1> DEFINE T == {k \in Nat : k <= n => t[k] \in Nat}
  <1>2. 0 \in T
    BY <1>1
  <1>3. ASSUME NEW k \in T PROVE k + 1 \in T
    BY <1>1
  <1>4. n \in T
    <2> HIDE DEF T
    <2>1. T \subseteq Nat
      BY DEF T
    <2>2. QED
      BY <1>2, <1>3, <2>1, SetInduction
  <1>5. QED
    BY <1>1, <1>4

\* What names or values cost is a natural number.
LEMMA CostNat ==
    ASSUME NEW lengths \in Seq(Nat), NEW overhead \in Nat
    PROVE  Cost(lengths, overhead) \in Nat
  <1>1. [i \in DOMAIN lengths |-> lengths[i] + overhead] \in [1 .. Len(lengths) -> Nat]
    OBVIOUS
  <1>2. Len(lengths) \in Nat
    OBVIOUS
  <1>3. \A s \in [1 .. Len(lengths) -> Nat] : Total(s) \in Nat
    BY <1>2, TotalNat
  <1>4. QED
    BY <1>1, <1>3 DEF Cost

\* checkSize compares each statement with what the ones before it have left, and
\* finds what comparing the sum with the limit would: nothing is lost on the way.
LEMMA LeftExact ==
    ASSUME NEW n \in Nat, NEW s \in [1 .. n -> Nat], config.MaxSQLBytes \in Nat
    PROVE  Left(s) < 0 <=> Total(s) > config.MaxSQLBytes
  <1>1. PICK t : /\ t[0] = 0
                 /\ \A k \in 1 .. n : t[k] = t[k - 1] + s[k]
                 /\ Total(s) = t[n]
    BY TotalIs
  <1>2. PICK l : /\ l[0] = config.MaxSQLBytes
                 /\ \A k \in 1 .. n : l[k] = Fit(l[k - 1], s[k])
                 /\ Left(s) = l[n]
    BY LeftIs
  <1> DEFINE Agree(k) == /\ t[k] \in Nat
                         /\ l[k] = IF t[k] > config.MaxSQLBytes THEN -1
                                   ELSE config.MaxSQLBytes - t[k]
             T == {k \in Nat : k <= n => Agree(k)}
  <1>3. 0 \in T
    BY <1>1, <1>2
  <1>4. ASSUME NEW k \in T PROVE k + 1 \in T
    <2> SUFFICES ASSUME k + 1 <= n PROVE Agree(k + 1)
      OBVIOUS
    <2>1. Agree(k) /\ k + 1 \in 1 .. n /\ (k + 1) - 1 = k
      OBVIOUS
    <2>2. t[k + 1] = t[k] + s[k + 1] /\ l[k + 1] = Fit(l[k], s[k + 1]) /\ s[k + 1] \in Nat
      BY <1>1, <1>2, <2>1
    <2>3. QED
      BY <2>1, <2>2 DEF Fit
  <1>5. n \in T
    <2> HIDE DEF T
    <2>1. T \subseteq Nat
      BY DEF T
    <2>2. QED
      BY <1>3, <1>4, <2>1, SetInduction
  <1>6. QED
    BY <1>1, <1>2, <1>5

=============================================================================
