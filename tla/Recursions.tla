------------------------------ MODULE Recursions ------------------------------
(***************************************************************************)
(* Facts about what is computed step by step: a set of numbers has a least *)
(* element, and a function defined by recursion on 0..N exists and stays   *)
(* in a set that each of its steps stays in.  The library's induction      *)
(* theorems take an operator; these take sets and functions.               *)
(***************************************************************************)
EXTENDS Naturals, TLAPS, WellFoundedInduction, NaturalsInduction

-----------------------------------------------------------------------------
(* Numbers.                                                                *)

\* The numbers in their order, as a relation.
LessThan == {p \in Nat \X Nat : p[1] < p[2]}

\* A descending sequence of numbers ends.
LEMMA LessThanIsWellFounded == IsWellFoundedOn(LessThan, Nat)
<1>1. LessThan = OpToRel(<, Nat)
  BY DEF LessThan, OpToRel
<1>. QED
  BY <1>1, NatLessThanWellFounded

\* A set of naturals has a least element: what the proofs use for induction.
LEMMA HasLeast ==
  ASSUME NEW T, T \subseteq Nat, T # {}
  PROVE  \E x \in T : \A y \in T : x <= y
<1>1. PICK x \in T : \A y \in T : <<y, x>> \notin LessThan
  BY LessThanIsWellFounded, WFMin
<1>2. \A y \in T : <<y, x>> \notin LessThan => x <= y
  BY DEF LessThan
<1>. QED
  BY <1>1, <1>2

\* One with a bound has a greatest.
LEMMA HasGreatest ==
  ASSUME NEW N \in Nat, NEW T, T \subseteq 0..N, T # {}
  PROVE  \E x \in T : \A y \in T : y <= x
<1>. DEFINE D == {N - y : y \in T}
<1>1. D \subseteq Nat /\ D # {}
  <2>1. \A y \in T : y \in Nat /\ N - y \in Nat
    OBVIOUS
  <2>2. PICK y \in T : TRUE
    OBVIOUS
  <2>3. N - y \in D
    OBVIOUS
  <2>. QED
    BY <2>1, <2>3
<1>2. PICK d \in D : \A x \in D : d <= x
  <2>. HIDE DEF D
  <2>. QED
    BY <1>1, HasLeast
<1>3. PICK x \in T : d = N - x
  OBVIOUS
<1>4. ASSUME NEW y \in T PROVE y <= x
  <2>1. N - y \in D
    OBVIOUS
  <2>2. N - x <= N - y
    BY <1>2, <1>3, <2>1
  <2>. QED
    BY <2>2
<1>. QED
  BY <1>4

-----------------------------------------------------------------------------
(* Recursion.                                                              *)

\* What starts in a set and leaves it at no step stays in it.
LEMMA StepByStep ==
  ASSUME NEW S, NEW N \in Nat, NEW f, f[0] \in S,
         \A n \in 1..N : f[n - 1] \in S => f[n] \in S
  PROVE  \A n \in 0..N : f[n] \in S
<1>. DEFINE T == {n \in 0..N : f[n] \notin S}
<1>. SUFFICES ASSUME T # {} PROVE FALSE
  OBVIOUS
<1>1. T \subseteq Nat
  OBVIOUS
<1>2. PICK n \in T : \A m \in T : n <= m
  <2>. HIDE DEF T
  <2>. QED
    BY <1>1, HasLeast
<1>3. n \in 1..N /\ n - 1 \in 0..N /\ n - 1 \notin T
  BY <1>2
<1>. QED
  BY <1>2, <1>3

\* The same, of a set that changes along the way.
LEMMA StepsAlong ==
  ASSUME NEW P, NEW N \in Nat, NEW f, f[0] \in P[0],
         \A n \in 1..N : f[n - 1] \in P[n - 1] => f[n] \in P[n]
  PROVE  \A n \in 0..N : f[n] \in P[n]
<1>. DEFINE T == {n \in 0..N : f[n] \notin P[n]}
<1>. SUFFICES ASSUME T # {} PROVE FALSE
  OBVIOUS
<1>1. T \subseteq Nat
  OBVIOUS
<1>2. PICK n \in T : \A m \in T : n <= m
  <2>. HIDE DEF T
  <2>. QED
    BY <1>1, HasLeast
<1>3. n \in 1..N /\ n - 1 \in 0..N /\ n - 1 \notin T
  BY <1>2
<1>. QED
  BY <1>2, <1>3

\* The values of b on 0..N start from s, with the step op[n] to n from those of g.
TakesSteps(b, g, N, s, op) == b[0] = s /\ \A n \in 1..N : b[n] = op[n][g[n - 1]]

\* What a recursive function does.
Iterates(g, N, s, op) == TakesSteps(g, g, N, s, op)

\* b is a function on 0..N.
FunctionTo(b, N) == b = [n \in 0..N |-> b[n]]

\* A function that iterates steps within a set exists.
LEMMA IterationExists ==
  ASSUME NEW S, NEW N \in Nat, NEW s \in S, NEW op \in [1..N -> [S -> S]]
  PROVE  \E g \in [0..N -> S] : Iterates(g, N, s, op)
<1>. USE DEF Iterates, TakesSteps
<1>. DEFINE Upto(k) == \E g \in [0..k -> S] : g[0] = s /\ \A n \in 1..k : g[n] = op[n][g[n - 1]]
            T == {k \in 0..N : ~Upto(k)}
<1>1. SUFFICES T = {}
  <2>1. T = {} => Upto(N)
    <3>1. N \in 0..N
      OBVIOUS
    <3>. HIDE DEF Upto
    <3>. QED
      BY <3>1
  <2>. QED
    BY <2>1
<1>. SUFFICES ASSUME T # {} PROVE FALSE
  OBVIOUS
<1>2. T \subseteq Nat
  OBVIOUS
<1>3. PICK k \in T : \A m \in T : k <= m
  <2>. HIDE DEF T
  <2>. QED
    BY <1>2, HasLeast
<1>4. Upto(0)
  <2>. DEFINE h == [n \in 0..0 |-> s]
  <2>1. h \in [0..0 -> S] /\ h[0] = s /\ \A n \in 1..0 : h[n] = op[n][h[n - 1]]
    OBVIOUS
  <2>. QED
    BY <2>1
<1>5. k \in 1..N /\ k - 1 \in 0..N /\ Upto(k - 1)
  <2>1. k # 0
    BY <1>3, <1>4
  <2>2. k \in 1..N /\ k - 1 \in 0..N
    BY <2>1
  <2>3. k - 1 \notin T
    <3>. HIDE DEF T
    <3>1. k - 1 < k
      BY <2>2
    <3>. QED
      BY <1>3, <2>2, <3>1
  <2>. QED
    BY <2>2, <2>3
<1>6. PICK g \in [0..k - 1 -> S] : g[0] = s /\ \A n \in 1..k - 1 : g[n] = op[n][g[n - 1]]
  BY <1>5
<1>. DEFINE h == [n \in 0..k |-> IF n = k THEN op[k][g[k - 1]] ELSE g[n]]
<1>7. h \in [0..k -> S]
  BY <1>5, <1>6
<1>8. h[0] = s
  BY <1>5, <1>6
<1>9. \A n \in 1..k : h[n] = op[n][h[n - 1]]
  <2>. SUFFICES ASSUME NEW n \in 1..k PROVE h[n] = op[n][h[n - 1]]
    OBVIOUS
  <2>1. h[n - 1] = g[n - 1]
    BY <1>5
  <2>. QED
    BY <1>5, <1>6, <2>1
<1>10. Upto(k)
  BY <1>7, <1>8, <1>9
<1>. QED
  BY <1>3, <1>10

\* A function that takes the same steps from the values of an iteration is it.
LEMMA SameIteration ==
  ASSUME NEW S, NEW N \in Nat, NEW s, NEW op, NEW g \in [0..N -> S], Iterates(g, N, s, op),
         NEW b, FunctionTo(b, N), TakesSteps(b, g, N, s, op)
  PROVE  b = g
<1>1. \A n \in 0..N : n = 0 \/ n \in 1..N
  OBVIOUS
<1>2. \A n \in 0..N : g[n] = b[n]
  BY <1>1 DEF Iterates, TakesSteps
<1>3. g = [n \in 0..N |-> g[n]]
  OBVIOUS
<1>. QED
  BY <1>2, <1>3 DEF FunctionTo
=============================================================================
