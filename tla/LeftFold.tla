------------------------------ MODULE LeftFold ------------------------------
(***************************************************************************)
(* What FoldLeft of the community modules computes, for the loops of the   *)
(* planner that are modelled with it.  FoldLeft takes its step as an       *)
(* operator and is defined by recursion over sets of positions; a module   *)
(* with such a loop instantiates this one with its step, shows that        *)
(* FoldLeft(Step, base, items) is Result(base, items), and gets from       *)
(* FoldRuns the sequence of values the loop goes through.                  *)
(*                                                                         *)
(* The induction rule is stated for a set of numbers: a caller names the   *)
(* set of the turns after which its loop invariant holds.                  *)
(***************************************************************************)
EXTENDS Integers, FiniteSetsExt, WellFoundedInduction, TLAPS

CONSTANT Step(_, _)

Less == {p \in Nat \X Nat : p[1] < p[2]}

\* The least-number principle, as the well-foundedness of <.
LEMMA LessWellFounded == IsWellFoundedOn(Less, Nat)
<1>1. OpToRel(<, Nat) = Less
  BY DEF OpToRel, Less
<1> QED
  BY <1>1, NatLessThanWellFounded

\* Induction: a set that holds 0 and is closed under +1 holds every number.
LEMMA Induction ==
  ASSUME NEW S, 0 \in S, \A n \in Nat : n \in S => n + 1 \in S
  PROVE  \A n \in Nat : n \in S
<1> DEFINE T == Nat \ S
<1> SUFFICES ASSUME T # {} PROVE FALSE
  OBVIOUS
<1>1. PICK x \in T : \A y \in T : ~(<<y, x>> \in Less)
  BY WFMin, LessWellFounded, T \subseteq Nat
<1>2. x # 0 /\ x \in Nat
  OBVIOUS
<1>3. x - 1 \in Nat /\ (x - 1) + 1 = x /\ x - 1 < x
  BY <1>2
<1>4. <<x - 1, x>> \in Less
  BY <1>2, <1>3 DEF Less
<1>5. x - 1 \in S
  BY <1>1, <1>3, <1>4
<1> QED
  BY <1>2, <1>3, <1>5

\* Max picks the last position of a set of positions.
LEMMA MaxIsLast ==
  ASSUME NEW m \in Nat, NEW s, m \in s, s \subseteq 0..m
  PROVE  Max(s) = m
<1>1. \A x \in s : x <= m /\ x \in Int
  OBVIOUS
<1>2. \A x \in s : (\A y \in s : x >= y) => x = m
  BY <1>1
<1>3. m \in s /\ \A y \in s : m >= y
  BY <1>1
<1> QED
  BY <1>2, <1>3 DEF Max

\* A non-empty set of positions has a last and a first one.
LEMMA LastExists ==
  ASSUME NEW n \in Nat, NEW s \in SUBSET (1..n), s # {}
  PROVE  \E x \in s : \A y \in s : y <= x
<1> DEFINE S == {k \in Nat : \A t \in SUBSET (1..k) : t # {} => \E x \in t : \A y \in t : y <= x}
<1>1. 0 \in S
  <2>1. \A t \in SUBSET (1..0) : t = {}
    OBVIOUS
  <2> QED
    BY <2>1
<1>2. ASSUME NEW k \in Nat, k \in S PROVE k + 1 \in S
  <2> SUFFICES ASSUME NEW t \in SUBSET (1..(k + 1)), t # {}
               PROVE  \E x \in t : \A y \in t : y <= x
    OBVIOUS
  <2>1. CASE k + 1 \in t
    <3>1. \A y \in t : y <= k + 1
      OBVIOUS
    <3> QED
      BY <2>1, <3>1
  <2>2. CASE k + 1 \notin t
    <3>1. t \in SUBSET (1..k)
      BY <2>2
    <3> QED
      BY <1>2, <3>1
  <2> QED
    BY <2>1, <2>2
<1> HIDE DEF S
<1>3. \A k \in Nat : k \in S
  BY <1>1, <1>2, Induction
<1> QED
  BY <1>3 DEF S

\* A set of turns has a first one
LEMMA FirstExists ==
  ASSUME NEW n \in Nat, NEW s \in SUBSET (1..n), s # {}
  PROVE  \E x \in s : \A y \in s : x <= y
<1> DEFINE r == {n + 1 - x : x \in s}
<1>1. r \in SUBSET (1..n) /\ r # {}
  <2>1. \A x \in s : n + 1 - x \in 1..n
    OBVIOUS
  <2>2. PICK x \in s : TRUE
    OBVIOUS
  <2> QED
    BY <2>1, <2>2
<1> HIDE DEF r
<1>2. PICK m \in r : \A y \in r : y <= m
  BY <1>1, LastExists
<1>3. PICK x \in s : m = n + 1 - x
  BY <1>2 DEF r
<1>4. ASSUME NEW y \in s PROVE x <= y
  <2>1. n + 1 - y \in r /\ x \in Int /\ y \in Int
    BY DEF r
  <2> QED
    BY <1>2, <1>3, <2>1
<1> QED
  BY <1>4

-----------------------------------------------------------------------------
\* The recursion FoldLeft is defined by, over the sets of positions in D
Unfolds(it, base, items, D) ==
  it = [s \in SUBSET D |->
          IF s = {} THEN base ELSE Step(it[s \ {Max(s)}], items[Max(s)])]

Result(base, items) ==
  (CHOOSE it : Unfolds(it, base, items, DOMAIN items))[DOMAIN items]

\* The recursion has a solution, by induction on the number of positions.
LEMMA Unfolding ==
  ASSUME NEW base, NEW items
  PROVE  \A n \in Nat : \E it : Unfolds(it, base, items, 1..n)
<1> DEFINE S == {n \in Nat : \E it : Unfolds(it, base, items, 1..n)}
<1>1. 0 \in S
  <2> DEFINE it == [s \in {{}} |-> base]
  <2>1. SUBSET (1..0) = {{}}
    OBVIOUS
  <2>2. Unfolds(it, base, items, 1..0)
    BY <2>1 DEF Unfolds
  <2> QED
    BY <2>2
<1>2. ASSUME NEW n \in Nat, n \in S PROVE n + 1 \in S
  <2>1. PICK it : Unfolds(it, base, items, 1..n)
    BY <1>2
  <2> DEFINE next == [s \in SUBSET (1..(n + 1)) |->
               IF n + 1 \in s THEN Step(it[s \ {n + 1}], items[n + 1]) ELSE it[s]]
  <2>2. ASSUME NEW s \in SUBSET (1..(n + 1))
        PROVE  next[s] = IF s = {} THEN base ELSE Step(next[s \ {Max(s)}], items[Max(s)])
    <3>1. CASE n + 1 \in s
      <4>1. n + 1 \in Nat /\ s \subseteq 0..(n + 1)
        OBVIOUS
      <4>2. Max(s) = n + 1
        BY <3>1, <4>1, MaxIsLast
      <4>3. s \ {n + 1} \in SUBSET (1..n) /\ s \ {n + 1} \in SUBSET (1..(n + 1))
        OBVIOUS
      <4>4. next[s \ {n + 1}] = it[s \ {n + 1}]
        BY <4>3
      <4> QED
        BY <3>1, <4>2, <4>4
    <3>2. CASE n + 1 \notin s
      <4>1. s \in SUBSET (1..n)
        BY <3>2
      <4>2. /\ s \ {Max(s)} \in SUBSET (1..n)
            /\ s \ {Max(s)} \in SUBSET (1..(n + 1))
            /\ n + 1 \notin s \ {Max(s)}
        BY <4>1, <3>2
      <4>3. next[s \ {Max(s)}] = it[s \ {Max(s)}] /\ next[s] = it[s]
        BY <4>2, <4>1, <3>2
      <4> QED
        BY <2>1, <4>1, <4>3 DEF Unfolds
    <3> QED
      BY <3>1, <3>2
  <2>3. \E f : Unfolds(f, base, items, 1..(n + 1))
    <3>1. next = [s \in SUBSET (1..(n + 1)) |-> next[s]]
      OBVIOUS
    <3> HIDE DEF next
    <3>2. Unfolds(next, base, items, 1..(n + 1))
      BY <2>2, <3>1 DEF Unfolds
    <3> QED
      BY <3>2
  <2> QED
    BY <2>3
<1> HIDE DEF S
<1>3. \A n \in Nat : n \in S
  BY <1>1, <1>2, Induction
<1> QED
  BY <1>3 DEF S

-----------------------------------------------------------------------------
\* f[k] is the value after k turns of the loop over n items
Runs(f, base, items, n) ==
  /\ f[0] = base
  /\ \A k \in 1..n : f[k] = Step(f[k - 1], items[k])
  /\ Result(base, items) = f[n]

\* A loop over n items goes through base, Step(base, items[1]), ..., its result.
THEOREM FoldRuns ==
  ASSUME NEW base, NEW items, NEW n \in Nat, DOMAIN items = 1..n
  PROVE  \E f : Runs(f, base, items, n)
<1> DEFINE it == CHOOSE it : Unfolds(it, base, items, DOMAIN items)
           f == [k \in 0..n |-> it[1..k]]
<1>1. Unfolds(it, base, items, 1..n)
  <2>1. \E u : Unfolds(u, base, items, 1..n)
    BY Unfolding
  <2> QED
    BY <2>1
<1>2. Result(base, items) = f[n]
  BY DEF Result
<1> HIDE DEF it
<1>3. f[0] = base
  <2>1. 1..0 = {} /\ 0 \in 0..n
    OBVIOUS
  <2> QED
    BY <1>1, <2>1 DEF Unfolds
<1>4. ASSUME NEW k \in 1..n PROVE f[k] = Step(f[k - 1], items[k])
  <2>1. Max(1..k) = k
    BY MaxIsLast, k \in Nat, k \in 1..k, 1..k \subseteq 0..k
  <2>2. (1..k) \ {k} = 1..(k - 1)
    OBVIOUS
  <2>3. 1..k \in SUBSET (1..n) /\ 1..k # {} /\ k \in 0..n /\ k - 1 \in 0..n
    <3>1. k \in 1..k /\ \A j \in 1..k : j \in 1..n
      OBVIOUS
    <3> QED
      BY <3>1
  <2>4. it[1..k] = Step(it[(1..k) \ {Max(1..k)}], items[Max(1..k)])
    BY <1>1, <2>3 DEF Unfolds
  <2> QED
    BY <2>1, <2>2, <2>3, <2>4
<1> HIDE DEF f
<1> QED
  BY <1>2, <1>3, <1>4 DEF Runs
=============================================================================
