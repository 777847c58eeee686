--------------------------- MODULE HttpStepProofs ---------------------------
(***************************************************************************)
(* Proofs about HttpStep, for every size, every size announced, every set  *)
(* of servers and every number of subworkers: a step that is done has the  *)
(* whole file unless it was misled, and the invariants that say why.       *)
(*                                                                         *)
(* The inductive invariant describes the list of subworkers by what each   *)
(* of them and each two neighbours satisfy, so that a step that changes a  *)
(* part of the list is checked at that part and at its two edges.          *)
(***************************************************************************)
EXTENDS HttpStep, Recursions, SequenceTheorems

-----------------------------------------------------------------------------
(* The invariant.                                                          *)

\* A subworker: one that is over has its range, or got nothing.
Fine(w) ==
    /\ w.start <= w.end /\ Pos(w) <= w.end + 1
    /\ w.at = "over" /\ Rest(w) > 0 => w.got = 0

\* Two neighbours: one that is over with bytes has no neighbour left to take over.
Follows(a, b) ==
    /\ b.start = a.end + 1
    /\ a.at = "over" /\ b.got = 0 => a.got = 0

GoodList(L) ==
    /\ L \in Seq(Subworker) /\ L # <<>>
    /\ L[1].start = 0 /\ (L[1].got = 0 => L[1].at # "over")
    /\ \A k \in 1..Len(L) : Fine(L[k])
    /\ \A k \in 2..Len(L) : Follows(L[k - 1], L[k])

Good(c) ==
    /\ c \in Crews /\ GoodList(c.list)
    /\ \A w \in c.left : w.got = 0

LastEnd(L) == L[Len(L)].end
Touched(L) == \E k \in 1..Len(L) : L[k].got > 0
Streams(L) == \E k \in 1..Len(L) : L[k].at = "streaming"
Calm(L) == \A k \in 1..Len(L) : L[k].at # "confirming"
\* The request without Range is made by the only subworker, before the first byte.
Lone(L) == \A k \in 1..Len(L) : L[k].at = "confirming" => Len(L) = 1 /\ Pos(L[k]) = 0
\* The range of w begins where v has got to, or before.
Behind(w, v) == v.start < w.start /\ w.start <= Pos(v)
\* Everyone that left is behind one in the list.
Sure(c) == \A w \in c.left : \E k \in 1..Len(c.list) : Behind(w, c.list[k])
OnDisk(L, d) == \A k \in 1..Len(L) : L[k].start .. Pos(L[k]) - 1 \subseteq d

\* The subworkers of a run with ranges.
Ranged(c, size, is, d) ==
    /\ Good(c) /\ Lone(c.list) /\ OnDisk(c.list, d)
    /\ Streams(c.list) => size = Size
    /\ ~is /\ size = Size => LastEnd(c.list) = Size - 1
    /\ ~is /\ Touched(c.list) => LastEnd(c.list) >= Size - 1

\* A stream of the whole file: without Range, or with one that has no end.
Single(c, size, ranges, d) ==
    /\ c \in Crews /\ Len(c.list) = 1
    /\ LET w == c.list[1]
       IN /\ w.start = 0 /\ w.got <= Size
          /\ w.end \in {Whole, Endless}
          /\ w.at # "confirming"
          /\ w.at = "over" => w.got = Size
          /\ w.end = Whole => ranges = <<>>
          /\ w.end = Endless => size = Unknown /\ w.at \in {"streaming", "over"}
    /\ c.left = {}
    /\ OnDisk(c.list, d)

\* The ranges in the record.
Recorded(ranges, is, d) ==
    ranges # <<>> =>
        LET L == Loaded(ranges).list
        IN GoodList(L) /\ OnDisk(L, d) /\ (~is /\ Touched(L) => LastEnd(L) >= Size - 1)

CrewInv ==
    IF ~Running THEN crew.left = {}
    ELSE IF canRange THEN Ranged(crew, known, misled, disk) /\ Sure(crew)
    ELSE Single(crew, known, record, disk)

SizeInv == (canRange => known # Unknown) /\ (kept.canRange => kept.known # Unknown)
IdleInv == phase = "idle" /\ ~misled => ~Disagree(canRange, known, record)
DoneInv == phase = "done" => record = <<>>

Inv ==
    /\ TypeOK /\ CrewInv /\ Recorded(record, misled, disk)
    /\ SizeInv /\ IdleInv /\ DoneInv /\ DoneIsWholeUnlessMisled

-----------------------------------------------------------------------------
(* Numbers: a function on 1..n has a largest value, and a division leaves  *)
(* nothing.                                                                *)

\* The lengths of the functions that have no largest value.
Boundless == {n \in Nat : \E f \in [1..n -> Int] : n > 0 /\ \A k \in 1..n : \E j \in 1..n : f[j] > f[k]}

\* The values of a function on 1..n have a largest one.
LEMMA HasLargest ==
  ASSUME NEW n \in Nat \ {0}, NEW f \in [1..n -> Int]
  PROVE  \E k \in 1..n : \A j \in 1..n : f[j] <= f[k]
<1>1. Boundless = {}
  <2>. SUFFICES ASSUME Boundless # {} PROVE FALSE
    OBVIOUS
  <2>1. PICK m \in Boundless : \A i \in Boundless : m <= i
    BY HasLeast DEF Boundless
  <2>2. PICK g \in [1..m -> Int] : m > 0 /\ \A k \in 1..m : \E j \in 1..m : g[j] > g[k]
    BY DEF Boundless
  <2>3. m \in Nat
    BY DEF Boundless
  <2>4. CASE m = 1
    BY <2>2, <2>4
  <2>5. CASE m > 1
    <3>. DEFINE h == [i \in 1..m - 1 |-> g[i]]
    <3>1. m - 1 \in Nat /\ m - 1 > 0 /\ h \in [1..m - 1 -> Int]
      BY <2>3, <2>5
    <3>2. m - 1 \notin Boundless
      BY <2>1, <2>3, <3>1
    <3>3. PICK k \in 1..m - 1 : \A j \in 1..m - 1 : ~(h[j] > h[k])
      BY <3>1, <3>2 DEF Boundless
    <3>4. \A j \in 1..m - 1 : g[j] <= g[k]
      BY <2>3, <3>3
    <3>5. PICK a \in 1..m : g[a] > g[k]
      BY <2>2, <2>3
    <3>6. a = m
      BY <2>3, <3>4, <3>5
    <3>7. \A j \in 1..m : g[j] <= g[m]
      BY <2>3, <3>4, <3>5, <3>6
    <3>. QED
      BY <2>2, <2>3, <3>7
  <2>. QED
    BY <2>2, <2>3, <2>4, <2>5
<1>2. n \in Nat /\ n > 0 /\ n \notin Boundless
  BY <1>1
<1>3. PICK k \in 1..n : \A j \in 1..n : ~(f[j] > f[k])
  BY <1>2, Zenon DEF Boundless
<1>. QED
  BY <1>3, SMTT(30)

\* A division by n leaves less than n, and at least one for each if there is enough.
LEMMA Division ==
  ASSUME NEW a \in Nat, NEW n \in Nat \ {0}
  PROVE  /\ a \div n \in Nat /\ a % n \in Nat
         /\ a = n * (a \div n) + (a % n)
         /\ n <= a => a \div n >= 1
OBVIOUS

-----------------------------------------------------------------------------
(* Lists of which a part is replaced.                                      *)

LEMMA Joined ==
  ASSUME NEW S, NEW s \in Seq(S), NEW t \in Seq(S), NEW r, r = s \o t
  PROVE  /\ r \in Seq(S) /\ Len(r) = Len(s) + Len(t)
         /\ \A i \in 1..Len(s) : r[i] = s[i]
         /\ \A i \in 1..Len(t) : r[Len(s) + i] = t[i]
<1>1. Len(s) \in Nat /\ Len(t) \in Nat
  OBVIOUS
<1>2. \A i \in 1..Len(t) : /\ Len(s) + i \in 1..Len(s) + Len(t)
                           /\ ~(Len(s) + i <= Len(s)) /\ Len(s) + i - Len(s) = i
  BY <1>1
<1>. QED
  BY <1>1, <1>2, ConcatProperties

Cat(s, t) == s \o t
Joins(r, s, t) ==
    /\ Len(r) = Len(s) + Len(t)
    /\ \A i \in 1..Len(s) : r[i] = s[i]
    /\ \A i \in 1..Len(t) : r[Len(s) + i] = t[i]

\* The same, with the concatenation behind a name.
LEMMA CatFacts ==
  ASSUME NEW S, NEW s \in Seq(S), NEW t \in Seq(S)
  PROVE  Cat(s, t) \in Seq(S) /\ Joins(Cat(s, t), s, t)
BY Joined DEF Cat, Joins

IsSpliced(M, L, k, m, x, new) ==
    /\ Len(M) = Len(L) - m + Len(new)
    /\ \A i \in 1..k - 1 : M[i] = L[i]
    /\ M[k] = x
    /\ \A i \in 1..Len(new) : M[k + i] = new[i]
    /\ \A i \in k + 1..Len(L) - m : M[i + Len(new)] = L[i + m]

\* The elements of a list of which m + 1 were replaced.
LEMMA SplicedElements ==
  ASSUME NEW S, NEW L \in Seq(S), NEW k \in 1..Len(L), NEW m \in 0..Len(L) - k,
         NEW x \in S, NEW new \in Seq(S)
  PROVE  /\ Spliced(L, k, m, x, new) \in Seq(S)
         /\ IsSpliced(Spliced(L, k, m, x, new), L, k, m, x, new)
<1>. DEFINE A == SubSeq(L, 1, k - 1)
            B == <<x>>
            C == SubSeq(L, k + m + 1, Len(L))
            D == Cat(A, B)
            E == Cat(D, new)
            M == Cat(E, C)
            n == Len(new)
<1>0. Len(L) \in Nat /\ n \in Nat /\ k \in Nat \ {0} /\ m \in Nat /\ k + m <= Len(L)
  OBVIOUS
<1>1. A \in Seq(S) /\ Len(A) = k - 1 /\ \A i \in 1..k - 1 : A[i] = L[i]
  BY SubSeqProperties
<1>2. B \in Seq(S) /\ Len(B) = 1 /\ B[1] = x
  OBVIOUS
<1>3. C \in Seq(S) /\ Len(C) = Len(L) - k - m /\ \A i \in 1..Len(L) - k - m : C[i] = L[k + m + i]
  <2>1. \A i \in k + m + 1..Len(L) : L[i] \in S
    OBVIOUS
  <2>. QED
    BY <2>1, SubSeqProperties
<1>s. M = Spliced(L, k, m, x, new)
  BY DEF Spliced, Cat
<1>. HIDE DEF A, B, C, n
<1>t. A \in Seq(S) /\ B \in Seq(S) /\ C \in Seq(S)
  BY <1>1, <1>2, <1>3
<1>j4. D \in Seq(S) /\ Joins(D, A, B)
  BY <1>t, CatFacts
<1>4. /\ D \in Seq(S) /\ Len(D) = Len(A) + Len(B)
      /\ \A i \in 1..Len(A) : D[i] = A[i]
      /\ \A i \in 1..Len(B) : D[Len(A) + i] = B[i]
  BY <1>j4 DEF Joins
<1>. HIDE DEF D
<1>u. D \in Seq(S)
  BY <1>4
<1>j5. E \in Seq(S) /\ Joins(E, D, new)
  BY <1>u, CatFacts
<1>5. /\ E \in Seq(S) /\ Len(E) = Len(D) + Len(new)
      /\ \A i \in 1..Len(D) : E[i] = D[i]
      /\ \A i \in 1..Len(new) : E[Len(D) + i] = new[i]
  BY <1>j5 DEF Joins
<1>. HIDE DEF E
<1>v. E \in Seq(S)
  BY <1>5
<1>j6. M \in Seq(S) /\ Joins(M, E, C)
  BY <1>t, <1>v, CatFacts
<1>6. /\ M \in Seq(S) /\ Len(M) = Len(E) + Len(C)
      /\ \A i \in 1..Len(E) : M[i] = E[i]
      /\ \A i \in 1..Len(C) : M[Len(E) + i] = C[i]
  BY <1>j6 DEF Joins
<1>. HIDE DEF M
<1>l. /\ Len(A) = k - 1 /\ Len(B) = 1 /\ Len(C) = Len(L) - k - m
      /\ Len(D) = k /\ Len(E) = k + n /\ Len(M) = Len(L) - m + n
  <2>1. Len(A) = k - 1 /\ Len(B) = 1 /\ Len(C) = Len(L) - k - m
    BY <1>1, <1>2, <1>3
  <2>2. Len(D) = Len(A) + Len(B) /\ Len(E) = Len(D) + n /\ Len(M) = Len(E) + Len(C)
    BY <1>4, <1>5, <1>6 DEF n
  <2>. QED
    BY <1>0, <2>1, <2>2
<1>7. \A i \in 1..k - 1 : M[i] = L[i]
  <2>. SUFFICES ASSUME NEW i \in 1..k - 1 PROVE M[i] = L[i]
    OBVIOUS
  <2>1. i \in 1..Len(A) /\ i \in 1..Len(D) /\ i \in 1..Len(E)
    BY <1>0, <1>l
  <2>2. M[i] = E[i] /\ E[i] = D[i] /\ D[i] = A[i]
    BY <2>1, <1>4, <1>5, <1>6
  <2>. QED
    BY <1>1, <2>2
<1>8. M[k] = x
  <2>1. k = Len(A) + 1 /\ 1 \in 1..Len(B) /\ k \in 1..Len(D) /\ k \in 1..Len(E)
    BY <1>0, <1>l
  <2>2. M[k] = E[k] /\ E[k] = D[k] /\ D[k] = B[1]
    BY <2>1, <1>4, <1>5, <1>6
  <2>. QED
    BY <1>2, <2>2
<1>9. \A i \in 1..n : M[k + i] = new[i]
  <2>. SUFFICES ASSUME NEW i \in 1..n PROVE M[k + i] = new[i]
    OBVIOUS
  <2>1. k + i \in 1..Len(E) /\ i \in 1..Len(new) /\ Len(D) = k
    BY <1>0, <1>l DEF n
  <2>. QED
    BY <2>1, <1>5, <1>6
<1>10. \A i \in k + 1..Len(L) - m : M[i + n] = L[i + m]
  <2>. SUFFICES ASSUME NEW i \in k + 1..Len(L) - m PROVE M[i + n] = L[i + m]
    OBVIOUS
  <2>1. /\ i - k \in 1..Len(C) /\ i - k \in 1..Len(L) - k - m
        /\ Len(E) + (i - k) = i + n /\ k + m + (i - k) = i + m
    BY <1>0, <1>l
  <2>2. M[Len(E) + (i - k)] = C[i - k] 
    BY <1>6, <2>1
  <2>3. C[i - k] = L[k + m + (i - k)]
    BY <1>3, <2>1
  <2>. QED
    BY <2>1, <2>2, <2>3
<1>11. M \in Seq(S) /\ Len(M) = Len(L) - m + n
  BY <1>6, <1>l
<1>. QED
  BY <1>s, <1>11, <1>7, <1>8, <1>9, <1>10 DEF n, IsSpliced

-----------------------------------------------------------------------------
(* What the invariant says of a list.                                      *)

LEMMA Elements ==
  ASSUME NEW L, GoodList(L)
  PROVE  /\ Len(L) \in Nat /\ Len(L) >= 1 /\ DOMAIN L = 1..Len(L) /\ L \in Seq(Subworker)
         /\ \A k \in 1..Len(L) :
               /\ L[k] \in Subworker /\ L[k].start \in Nat /\ L[k].got \in Nat /\ L[k].end \in Nat
               /\ L[k].start <= L[k].end
               /\ Pos(L[k]) = L[k].start + L[k].got /\ Pos(L[k]) <= L[k].end + 1
               /\ Rest(L[k]) = L[k].end - Pos(L[k]) + 1
               /\ Pos(L[k]) \in Nat /\ Rest(L[k]) \in Nat
<1>1. L \in Seq(Subworker) /\ L # <<>>
  BY DEF GoodList
<1>2. Len(L) \in Nat /\ Len(L) >= 1 /\ DOMAIN L = 1..Len(L)
  BY <1>1
<1>. SUFFICES ASSUME NEW k \in 1..Len(L)
              PROVE  /\ L[k] \in Subworker /\ L[k].start \in Nat /\ L[k].got \in Nat /\ L[k].end \in Nat
                     /\ L[k].start <= L[k].end
                     /\ Pos(L[k]) = L[k].start + L[k].got /\ Pos(L[k]) <= L[k].end + 1
                     /\ Rest(L[k]) = L[k].end - Pos(L[k]) + 1
                     /\ Pos(L[k]) \in Nat /\ Rest(L[k]) \in Nat
  BY <1>1, <1>2
<1>3. L[k] \in Subworker
  BY <1>1
<1>4. L[k].start \in Nat /\ L[k].got \in Nat /\ L[k].end \in Nat \cup {-1}
  BY <1>3 DEF Subworker, Whole
<1>5. L[k].start <= L[k].end /\ Pos(L[k]) <= L[k].end + 1
  BY DEF GoodList, Fine
<1>6. L[k].end \in Nat
  BY <1>4, <1>5
<1>. QED
  BY <1>3, <1>4, <1>5, <1>6, SMTT(30) DEF Pos, Rest

\* Two neighbours of a good list.
LEMMA Neighbours ==
  ASSUME NEW L, GoodList(L), NEW j \in 1..Len(L) - 1
  PROVE  Follows(L[j], L[j + 1]) /\ L[j + 1].start = L[j].end + 1
<1>. DEFINE i == j + 1
<1>1. Len(L) \in Nat
  BY Elements
<1>2. i \in 2..Len(L) /\ i - 1 = j
  BY <1>1
<1>. HIDE DEF i
<1>3. Follows(L[i - 1], L[i])
  BY <1>2 DEF GoodList
<1>4. Follows(L[j], L[i])
  BY <1>2, <1>3
<1>. QED
  BY <1>4 DEF Follows, i

\* The ranges of a good list are in order.
LEMMA EndsGrow ==
  ASSUME NEW L, GoodList(L), NEW i \in 1..Len(L), NEW j \in 1..Len(L), i <= j
  PROVE  L[i].end <= L[j].end
<1>. DEFINE T == {p \in Nat : p \in i..Len(L) /\ L[p].end < L[i].end}
<1>1. Len(L) \in Nat /\ \A k \in 1..Len(L) : L[k].end \in Nat /\ L[k].start \in Nat /\ L[k].start <= L[k].end
  BY Elements
<1>2. \A k \in 2..Len(L) : L[k].start = L[k - 1].end + 1
  BY DEF GoodList, Follows
<1>3. T = {}
  <2>. SUFFICES ASSUME T # {} PROVE FALSE
    OBVIOUS
  <2>1. PICK p \in T : \A x \in T : p <= x
    BY HasLeast
  <2>2. p \in i + 1..Len(L) /\ L[p].end < L[i].end
    BY <1>1, <2>1
  <2>3. p - 1 \in i..Len(L) /\ p - 1 \in 1..Len(L) /\ p \in 2..Len(L) /\ p - 1 \notin T
    BY <1>1, <2>1, <2>2
  <2>4. L[p - 1].end >= L[i].end
    BY <1>1, <2>3
  <2>5. L[p].start = L[p - 1].end + 1
    BY <1>2, <2>3
  <2>6. /\ L[p].end \in Nat /\ L[p].start \in Nat /\ L[p].start <= L[p].end
        /\ L[p - 1].end \in Nat /\ L[i].end \in Nat
    <3>1. p \in 1..Len(L)
      BY <1>1, <2>3
    <3>. QED
      BY <1>1, <2>3, <3>1
  <2>. QED
    BY <2>2, <2>4, <2>5, <2>6, SMTT(30)
<1>4. j \in i..Len(L) /\ j \notin T
  BY <1>1, <1>3
<1>. QED
  BY <1>1, <1>4

\* The ranges cover the file from the first block to the end of the last one.
LEMMA Covered ==
  ASSUME NEW L, GoodList(L), NEW b \in Nat, b <= LastEnd(L)
  PROVE  \E k \in 1..Len(L) : L[k].start <= b /\ b <= L[k].end
<1>. DEFINE T == {n \in Nat : n \in 1..Len(L) /\ b <= L[n].end}
<1>1. Len(L) \in Nat /\ Len(L) >= 1 /\ \A k \in 1..Len(L) : L[k].end \in Nat /\ L[k].start \in Nat
  BY Elements
<1>2. L[1].start = 0 /\ \A k \in 2..Len(L) : L[k].start = L[k - 1].end + 1
  BY DEF GoodList, Follows
<1>3. Len(L) \in T
  BY <1>1 DEF LastEnd
<1>4. PICK k \in T : \A x \in T : k <= x
  BY <1>3, HasLeast
<1>5. CASE k = 1
  BY <1>1, <1>2, <1>4, <1>5
<1>6. CASE k # 1
  <2>1. k \in 2..Len(L) /\ k - 1 \in 1..Len(L) /\ k - 1 \notin T
    BY <1>1, <1>4, <1>6
  <2>2. b > L[k - 1].end
    BY <1>1, <2>1
  <2>3. b >= L[k].start
    BY <1>1, <1>2, <2>1, <2>2, SMTT(30)
  <2>. QED
    BY <1>4, <2>3
<1>. QED
  BY <1>5, <1>6

\* A range that was given up without a byte will be taken over.
LEMMA Guarded ==
  ASSUME NEW L, GoodList(L), NEW k \in 1..Len(L), L[k].at = "over", Rest(L[k]) > 0
  PROVE  \E j \in 1..k - 1 : L[j].at # "over" /\ \A m \in j + 1..k : L[m].got = 0
<1>. DEFINE Bare(n) == L[n].at = "over" /\ L[n].got = 0
            T == {n \in Nat : n < k /\ ~Bare(k - n)}
<1>1. Len(L) \in Nat /\ k \in Nat /\ 1 <= k /\ k <= Len(L)
  BY Elements
<1>2. Bare(k)
  BY DEF GoodList, Fine
<1>3. ~Bare(1)
  BY DEF GoodList
<1>4. k - 1 \in T
  BY <1>1, <1>3
<1>5. PICK n \in T : \A x \in T : n <= x
  BY <1>4, HasLeast
<1>6. n \in Nat /\ n < k /\ ~Bare(k - n)
  BY <1>5
<1>7. n # 0
  BY <1>1, <1>2, <1>6
<1>. DEFINE j == k - n
<1>8. j \in 1..k - 1 /\ j + 1 \in 2..Len(L) /\ j + 1 - 1 = j
  BY <1>1, <1>6, <1>7
<1>9. ASSUME NEW m \in j + 1..k
      PROVE  Bare(m)
  <2>1. k - m \in Nat /\ k - m < n /\ k - m < k /\ k - (k - m) = m
    BY <1>1, <1>6, <1>8
  <2>2. k - m \notin T
    BY <1>5, <1>6, <2>1
  <2>. QED
    BY <2>1, <2>2
<1>10. L[j].at # "over"
  <2>1. L[j + 1].got = 0
    BY <1>1, <1>6, <1>7, <1>8, <1>9
  <2>2. L[j].at = "over" => L[j].got = 0
    BY <1>8, <2>1 DEF GoodList, Follows
  <2>. QED
    BY <1>6, <2>2
<1>. QED
  BY <1>8, <1>9, <1>10

\* There is a slowest one, and a first of them: _splitSlowest finds it.
LEMMA SlowestExists ==
  ASSUME NEW L, GoodList(L)
  PROVE  Slowest(L) \in 1..Len(L)
<1>. DEFINE f == [k \in 1..Len(L) |-> Rest(L[k])]
            T == {k \in Nat : k \in 1..Len(L) /\ \A j \in 1..Len(L) : Rest(L[j]) <= Rest(L[k])}
<1>1. Len(L) \in Nat \ {0} /\ DOMAIN L = 1..Len(L) /\ \A k \in 1..Len(L) : Rest(L[k]) \in Nat
  BY Elements
<1>2. f \in [1..Len(L) -> Int]
  BY <1>1
<1>3. \E k \in 1..Len(L) : \A j \in 1..Len(L) : f[j] <= f[k]
  BY <1>1, <1>2, HasLargest
<1>4. T # {}
  BY <1>1, <1>3
<1>5. PICK k \in T : \A x \in T : k <= x
  BY <1>4, HasLeast
<1>6. ASSUME NEW j \in 1..k - 1
      PROVE  Rest(L[j]) < Rest(L[k])
  <2>1. j \in 1..Len(L) /\ j < k /\ k \in 1..Len(L)
    BY <1>1, <1>5
  <2>2. j \notin T
    BY <1>5, <2>1
  <2>3. PICK i \in 1..Len(L) : ~(Rest(L[i]) <= Rest(L[j]))
    BY <2>1, <2>2
  <2>4. Rest(L[i]) <= Rest(L[k])
    BY <1>5
  <2>. QED
    BY <1>1, <2>1, <2>3, <2>4
<1>7. k \in DOMAIN L /\ (\A j \in DOMAIN L : Rest(L[j]) <= Rest(L[k]))
      /\ (\A j \in 1..k - 1 : Rest(L[j]) < Rest(L[k]))
  BY <1>1, <1>5, <1>6
<1>. QED
  BY <1>1, <1>7 DEF Slowest

\* How far the k-th extends its range.
Reach(L, k, reach) == CHOOSE m \in 0..Len(L) - k :
    StopsAt(L, k, m, reach) /\ \A j \in 0..m - 1 : ~StopsAt(L, k, j, reach)

\* The loop over _emptyRightOf ends, inside the list.
LEMMA ReachExists ==
  ASSUME NEW L, GoodList(L), NEW k \in 1..Len(L), NEW reach
  PROVE  LET m == Reach(L, k, reach)
         IN /\ m \in 0..Len(L) - k /\ StopsAt(L, k, m, reach)
            /\ \A j \in 0..m - 1 : ~StopsAt(L, k, j, reach)
<1>. DEFINE T == {m \in Nat : m \in 0..Len(L) - k /\ StopsAt(L, k, m, reach)}
<1>1. Len(L) \in Nat
  BY Elements
<1>2. Len(L) - k \in Nat /\ k + (Len(L) - k) = Len(L)
  BY <1>1
<1>3. Len(L) - k \in T
  BY <1>2 DEF StopsAt
<1>4. PICK m \in T : \A x \in T : m <= x
  BY <1>3, HasLeast
<1>5. m \in 0..Len(L) - k /\ StopsAt(L, k, m, reach)
  BY <1>4
<1>6. ASSUME NEW j \in 0..m - 1
      PROVE  ~StopsAt(L, k, j, reach)
  <2>1. j \in Nat /\ j < m /\ j \in 0..Len(L) - k
    BY <1>1, <1>5
  <2>. QED
    BY <1>4, <1>5, <2>1
<1>. QED
  BY <1>5, <1>6 DEF Reach

-----------------------------------------------------------------------------
(* Operations that share the ranges out anew keep what was received.       *)

Like(w, v) == w.start = v.start /\ w.got = v.got /\ w.at = v.at
From(M, L) ==
    \A i \in 1..Len(M) : (M[i].got = 0 /\ M[i].at = "ready") \/ \E j \in 1..Len(L) : Like(M[i], L[j])
Kept(L, M) == \A i \in 1..Len(L) : L[i].got > 0 => \E j \in 1..Len(M) : Like(M[j], L[i])
Shared(d, c) ==
    /\ Good(d) /\ LastEnd(d.list) = LastEnd(c.list)
    /\ From(d.list, c.list) /\ Kept(c.list, d.list)

\* A list of copies and of new subworkers has no more bytes, streams or requests.
LEMMA FromKeeps ==
  ASSUME NEW M, NEW L, GoodList(M), GoodList(L), From(M, L)
  PROVE  /\ Touched(M) => Touched(L)
         /\ Streams(M) => Streams(L)
         /\ Calm(L) => Calm(M)
         /\ \A d : OnDisk(L, d) => OnDisk(M, d)
<1>1. Touched(M) => Touched(L)
  BY DEF From, Like, Touched
<1>2. Streams(M) => Streams(L)
  BY DEF From, Like, Streams
<1>3. Calm(L) => Calm(M)
  BY DEF From, Like, Calm
<1>4. ASSUME NEW d, OnDisk(L, d), NEW i \in 1..Len(M)
      PROVE  M[i].start .. Pos(M[i]) - 1 \subseteq d
  <2>1. M[i].start \in Nat /\ Pos(M[i]) = M[i].start + M[i].got
    BY Elements
  <2>2. CASE M[i].got = 0
    BY <2>1, <2>2
  <2>3. CASE \E j \in 1..Len(L) : Like(M[i], L[j])
    <3>1. PICK j \in 1..Len(L) : Like(M[i], L[j])
      BY <2>3
    <3>2. M[i].start = L[j].start /\ Pos(M[i]) = Pos(L[j])
      BY <3>1 DEF Like, Pos
    <3>. QED
      BY <1>4, <3>2 DEF OnDisk
  <2>. QED
    BY <2>2, <2>3 DEF From
<1>5. \A d : OnDisk(L, d) => OnDisk(M, d)
  BY <1>4 DEF OnDisk
<1>. QED
  BY <1>1, <1>2, <1>3, <1>5

\* Sharing twice is sharing.
LEMMA SharedTwice ==
  ASSUME NEW c, NEW d, NEW e, Shared(d, c), Shared(e, d)
  PROVE  Shared(e, c)
<1>1. From(e.list, c.list)
  <2>. SUFFICES ASSUME NEW i \in 1..Len(e.list), ~(e.list[i].got = 0 /\ e.list[i].at = "ready")
                PROVE  \E j \in 1..Len(c.list) : Like(e.list[i], c.list[j])
    BY DEF From
  <2>1. PICK m \in 1..Len(d.list) : Like(e.list[i], d.list[m])
    BY DEF Shared, From
  <2>2. PICK j \in 1..Len(c.list) : Like(d.list[m], c.list[j])
    BY <2>1 DEF Shared, From, Like
  <2>. QED
    BY <2>1, <2>2 DEF Like
<1>2. Kept(c.list, e.list)
  <2>. SUFFICES ASSUME NEW i \in 1..Len(c.list), c.list[i].got > 0
                PROVE  \E j \in 1..Len(e.list) : Like(e.list[j], c.list[i])
    BY DEF Kept
  <2>1. PICK m \in 1..Len(d.list) : Like(d.list[m], c.list[i])
    BY DEF Shared, Kept
  <2>2. PICK j \in 1..Len(e.list) : Like(e.list[j], d.list[m])
    BY <2>1 DEF Shared, Kept, Like
  <2>. QED
    BY <2>1, <2>2 DEF Like
<1>. QED
  BY <1>1, <1>2 DEF Shared

\* One behind a subworker that was kept stays behind.
LEMMA StaysBehind ==
  ASSUME NEW L, NEW M, GoodList(L), Kept(L, M), NEW w \in Subworker,
         NEW k \in 1..Len(L), Behind(w, L[k])
  PROVE  \E j \in 1..Len(M) : Behind(w, M[j])
<1>1. /\ L[k].start \in Nat /\ L[k].got \in Nat /\ Pos(L[k]) = L[k].start + L[k].got
      /\ w.start \in Nat
  BY Elements DEF Subworker
<1>2. L[k].got > 0
  BY <1>1 DEF Behind
<1>3. PICK j \in 1..Len(M) : Like(M[j], L[k])
  BY <1>2 DEF Kept
<1>. QED
  BY <1>3 DEF Like, Behind, Pos

\* So it is in a crew that shares its ranges out again.
LEMMA SureShared ==
  ASSUME NEW c, Good(c), Sure(c), NEW d, Shared(d, c), d.left = c.left
  PROVE  Sure(d)
<1>. SUFFICES ASSUME NEW w \in c.left PROVE \E j \in 1..Len(d.list) : Behind(w, d.list[j])
  BY DEF Sure
<1>1. w \in Subworker /\ GoodList(c.list) /\ Kept(c.list, d.list)
  BY DEF Good, Crews, Shared
<1>2. PICK k \in 1..Len(c.list) : Behind(w, c.list[k])
  BY DEF Sure
<1>. QED
  BY <1>1, <1>2, StaysBehind

\* A good crew is shared in itself.
LEMMA SharedItself ==
  ASSUME NEW c, Good(c)
  PROVE  Shared(c, c)
BY DEF Shared, From, Kept, Like

\* The smaller of two numbers.
LEMMA Smaller ==
  ASSUME NEW a \in Int, NEW b \in Int
  PROVE  SmallerOf(a, b) \in Int /\ SmallerOf(a, b) <= a /\ SmallerOf(a, b) <= b
BY DEF SmallerOf

\* The cuts of a split.
BaseOf(rest, n) == rest \div n
FirstCut(pos, rest, n) == pos + rest \div n + (rest % n)
CutsOf(pos, rest, n) == [j \in 1..n |-> FirstCut(pos, rest, n) + (j - 1) * BaseOf(rest, n)]
AreCuts(base, first, cut, pos, rest, n) ==
    /\ base \in Nat /\ base >= 1 /\ first \in Nat /\ first > pos
    /\ cut \in [1..n -> Nat] /\ cut[1] = first /\ cut[n] = pos + rest
    /\ \A j \in 1..n - 1 : cut[j] < cut[j + 1]
    /\ \A j \in 1..n : cut[j] = first + (j - 1) * base

\* The cuts of a split grow, from behind the position to the end of the range.
LEMMA Cuts ==
  ASSUME NEW pos \in Nat, NEW rest \in Nat, NEW n \in Nat, 2 <= n, n <= rest
  PROVE  AreCuts(BaseOf(rest, n), FirstCut(pos, rest, n), CutsOf(pos, rest, n), pos, rest, n)
<1>. DEFINE base == BaseOf(rest, n)
            rem == rest % n
            first == FirstCut(pos, rest, n)
            cut == CutsOf(pos, rest, n)
<1>1. base \in Nat /\ rem \in Nat /\ rest = n * base + rem /\ base >= 1
  BY Division DEF BaseOf
<1>2. first = pos + base + rem
  BY DEF FirstCut, BaseOf
<1>3. cut = [j \in 1..n |-> first + (j - 1) * base]
  BY DEF CutsOf
<1>. HIDE DEF base, rem, first, cut
<1>4. first \in Nat /\ first > pos
  BY <1>1, <1>2
<1>5. \A j \in 1..n : (j - 1) * base \in Nat /\ cut[j] = first + (j - 1) * base
  BY <1>1, <1>3
<1>6. cut[n] = pos + rest
  <2>1. (n - 1) * base + base = n * base
    BY <1>1
  <2>2. cut[n] = first + (n - 1) * base
    BY <1>5
  <2>. QED
    BY <1>1, <1>2, <2>1, <2>2
<1>7. cut[1] = first
  BY <1>1, <1>4, <1>5
<1>8. cut \in [1..n -> Nat]
  BY <1>3, <1>4, <1>5
<1>9. ASSUME NEW j \in 1..n - 1
      PROVE  cut[j] < cut[j + 1]
  <2>1. cut[j] = first + (j - 1) * base /\ cut[j + 1] = first + (j + 1 - 1) * base
    BY <1>5
  <2>2. (j + 1 - 1) * base = (j - 1) * base + base
    BY <1>1
  <2>3. (j - 1) * base \in Nat
    BY <1>5
  <2>. QED
    BY <1>1, <1>4, <2>1, <2>2, <2>3
<1>. QED
  BY <1>1, <1>4, <1>5, <1>6, <1>7, <1>8, <1>9 DEF AreCuts, base, first, cut

\* _splitSlowest shares one range in ranges that follow each other and lose no block.
LEMMA SplitKeeps ==
  ASSUME NEW c, Good(c), NEW count \in Int
  PROVE  Shared(Split(c, count), c) /\ Split(c, count).left = c.left
<1>. DEFINE L == c.list
            k == Slowest(L)
            w == L[k]
            n == SmallerOf(SmallerOf(count, MaxList - Len(L) + 1), Rest(w))
            base == BaseOf(Rest(w), n)
            first == FirstCut(Pos(w), Rest(w), n)
            cut == CutsOf(Pos(w), Rest(w), n)
            new == [j \in 1..n - 1 |-> NewSubworker(first + (j - 1) * base, first + j * base - 1, 0)]
            x == [w EXCEPT !.end = first - 1]
            M == Spliced(L, k, 0, x, new)
            d == [c EXCEPT !.list = M]
<1>1. c \in Crews /\ GoodList(L)
  BY DEF Good
<1>2. Split(c, count) = IF n < 2 THEN c ELSE d
  BY DEF Split, BaseOf, FirstCut
<1>3. k \in 1..Len(L) /\ Len(L) \in Nat
  BY <1>1, SlowestExists, Elements
<1>4. /\ w \in Subworker /\ w.start \in Nat /\ w.got \in Nat /\ w.end \in Nat /\ w.start <= w.end
      /\ Pos(w) = w.start + w.got /\ Pos(w) \in Nat /\ Rest(w) \in Nat /\ Rest(w) = w.end - Pos(w) + 1
  BY <1>1, <1>3, Elements
<1>. HIDE DEF k, w
<1>5. n \in Int /\ n <= Rest(w)
  <2>1. SmallerOf(count, MaxList - Len(L) + 1) \in Int
    <3>1. MaxList - Len(L) + 1 \in Int
      BY <1>3, HttpAssumption
    <3>. QED
      BY <3>1, Smaller
  <2>. QED
    BY <1>4, <2>1, Smaller
<1>. SUFFICES ASSUME ~(n < 2) PROVE Shared(d, c) /\ d.left = c.left
  BY <1>2, SharedItself
<1>. HIDE DEF n
<1>6. n \in Nat /\ 2 <= n
  BY <1>5
<1>7. /\ base \in Nat /\ base >= 1 /\ first \in Nat /\ first > Pos(w)
      /\ cut \in [1..n -> Nat] /\ cut[1] = first /\ cut[n] = Pos(w) + Rest(w)
      /\ \A j \in 1..n - 1 : cut[j] < cut[j + 1]
      /\ \A j \in 1..n : cut[j] = first + (j - 1) * base
  <2>1. AreCuts(base, first, cut, Pos(w), Rest(w), n)
    BY <1>4, <1>5, <1>6, Cuts
  <2>. QED
    BY <2>1 DEF AreCuts
<1>. HIDE DEF cut, first, base
<1>8. \A j \in 1..n - 1 : /\ j \in 1..n /\ j + 1 \in 1..n /\ cut[j] = first + (j - 1) * base
                          /\ cut[j + 1] = first + j * base
                          /\ cut[j] \in Nat /\ cut[j + 1] \in Nat /\ cut[j] < cut[j + 1]
  <2>. SUFFICES ASSUME NEW j \in 1..n - 1
                PROVE  /\ j \in 1..n /\ j + 1 \in 1..n /\ cut[j] = first + (j - 1) * base
                       /\ cut[j + 1] = first + j * base
                       /\ cut[j] \in Nat /\ cut[j + 1] \in Nat /\ cut[j] < cut[j + 1]
    OBVIOUS
  <2>1. j \in 1..n /\ j + 1 \in 1..n /\ j + 1 - 1 = j
    BY <1>6
  <2>2. cut[j] = first + (j - 1) * base /\ cut[j + 1] = first + (j + 1 - 1) * base
    BY <1>7, <2>1
  <2>. QED
    BY <1>7, <2>1, <2>2
<1>9. /\ new \in Seq(Subworker) /\ Len(new) = n - 1
      /\ \A j \in 1..n - 1 : new[j] = NewSubworker(cut[j], cut[j + 1] - 1, 0)
  <2>1. ASSUME NEW j \in 1..n - 1
        PROVE  new[j] = NewSubworker(cut[j], cut[j + 1] - 1, 0)
    <3>1. new[j] = NewSubworker(first + (j - 1) * base, first + j * base - 1, 0)
      OBVIOUS
    <3>2. cut[j] = first + (j - 1) * base /\ cut[j + 1] = first + j * base
      BY <1>8
    <3>3. cut[j + 1] - 1 = first + j * base - 1
      <4>1. j * base \in Nat /\ first \in Nat
        BY <1>7
      <4>. QED
        BY <3>2, <4>1
    <3>. QED
      BY <3>1, <3>2, <3>3, Zenon
  <2>2. ASSUME NEW j \in 1..n - 1
        PROVE  new[j] \in Subworker
    <3>1. cut[j] \in Nat /\ cut[j + 1] - 1 \in Nat
      BY <1>8
    <3>. QED
      BY <2>1, <3>1 DEF NewSubworker, Subworker, Places
  <2>3. new \in [1..n - 1 -> Subworker] /\ n - 1 \in Nat
    BY <1>6, <2>2
  <2>. QED
    BY <2>1, <2>3
<1>. HIDE DEF new
<1>10. /\ x \in Subworker /\ x.start = w.start /\ x.got = w.got /\ x.at = w.at /\ x.end = first - 1
  <2>1. first - 1 \in Nat
    BY <1>4, <1>7
  <2>. QED
    BY <1>4, <2>1 DEF Subworker
<1>. HIDE DEF x
<1>11. M \in Seq(Subworker) /\ IsSpliced(M, L, k, 0, x, new)
  <2>1. L \in Seq(Subworker) /\ 0 \in 0..Len(L) - k
    BY <1>1, <1>3, Elements
  <2>. QED
    BY <1>3, <1>9, <1>10, <2>1, SplicedElements
<1>. HIDE DEF M
<1>25. /\ Len(M) = Len(L) + (n - 1)
       /\ \A i \in 1..k - 1 : M[i] = L[i]
       /\ M[k] = x
       /\ \A i \in 1..n - 1 : M[k + i] = new[i]
       /\ \A i \in k + 1..Len(L) : M[i + (n - 1)] = L[i]
  BY <1>3, <1>9, <1>11 DEF IsSpliced
<1>12. Len(M) = Len(L) + (n - 1) /\ Len(M) \in Nat /\ M # <<>> /\ k + n - 1 <= Len(M)
  BY <1>3, <1>6, <1>9, <1>25
<1>13. \A i \in 1..k - 1 : M[i] = L[i] /\ i \in 1..Len(L)
  BY <1>3, <1>25
<1>14. ASSUME NEW i \in k + 1..k + n - 1
       PROVE  /\ i - k \in 1..n - 1 /\ M[i].start = cut[i - k] /\ M[i].end = cut[i - k + 1] - 1
              /\ M[i].got = 0 /\ M[i].at = "ready"
  <2>1. i - k \in 1..n - 1 /\ k + (i - k) = i
    BY <1>3, <1>6
  <2>2. M[i] = new[i - k]
    BY <1>9, <1>25, <2>1
  <2>. QED
    BY <1>9, <2>1, <2>2 DEF NewSubworker
<1>15. ASSUME NEW i \in k + n..Len(M)
       PROVE  i - (n - 1) \in k + 1..Len(L) /\ M[i] = L[i - (n - 1)]
  <2>1. i - (n - 1) \in k + 1..Len(L) /\ i - (n - 1) + (n - 1) = i
    BY <1>3, <1>6, <1>12
  <2>. QED
    BY <1>3, <1>9, <1>25, <2>1
<1>16. \A i \in 1..Len(M) : i \in 1..k - 1 \/ i = k \/ i \in k + 1..k + n - 1 \/ i \in k + n..Len(M)
  BY <1>3, <1>6, <1>12
<1>17. w.at = "over" => w.got = 0
  <2>1. Rest(w) > 0 /\ Fine(w)
    BY <1>1, <1>3, <1>5, <1>6, <1>4 DEF GoodList, w, k
  <2>. QED
    BY <2>1 DEF Fine
<1>18. ASSUME NEW i \in 1..Len(M)
       PROVE  Fine(M[i])
  <2>1. CASE i \in 1..k - 1
    BY <1>1, <1>13, <2>1 DEF GoodList
  <2>2. CASE i = k
    <3>1. Pos(x) = Pos(w) /\ x.end = first - 1 /\ x.start <= Pos(w)
      BY <1>4, <1>10 DEF Pos
    <3>2. x.start <= x.end /\ Pos(x) <= x.end + 1
      BY <1>4, <1>7, <1>10, <3>1, SMTT(30)
    <3>. QED
      BY <1>10, <1>17, <1>25, <2>2, <3>2 DEF Fine
  <2>3. CASE i \in k + 1..k + n - 1
    <3>1. cut[i - k] \in Nat /\ cut[i - k + 1] \in Nat /\ cut[i - k] < cut[i - k + 1]
      BY <1>8, <1>14, <2>3
    <3>. QED
      BY <1>14, <2>3, <3>1 DEF Fine, Pos
  <2>4. CASE i \in k + n..Len(M)
    <3>1. i - (n - 1) \in 1..Len(L)
      BY <1>3, <1>15, <2>4
    <3>. QED
      BY <1>1, <1>15, <2>4, <3>1 DEF GoodList
  <2>. QED
    BY <1>16, <2>1, <2>2, <2>3, <2>4
<1>19. ASSUME NEW i \in 2..Len(M)
       PROVE  Follows(M[i - 1], M[i])
  <2>1. CASE i \in 1..k - 1
    <3>1. i \in 2..Len(L) /\ M[i] = L[i] /\ M[i - 1] = L[i - 1]
      BY <1>13, <1>3, <2>1
    <3>. QED
      BY <1>1, <3>1 DEF GoodList
  <2>2. CASE i = k
    <3>1. i \in 2..Len(L) /\ M[i] = x /\ M[i - 1] = L[i - 1] /\ L[i] = w
      BY <1>3, <1>25, <1>13, <2>2 DEF w
    <3>2. Follows(L[i - 1], w)
      BY <1>1, <3>1 DEF GoodList
    <3>. QED
      BY <1>10, <3>1, <3>2 DEF Follows
  <2>3. CASE i = k + 1
    <3>1. i \in k + 1..k + n - 1 /\ i - k = 1 /\ i - 1 = k
      BY <1>3, <1>6, <2>3
    <3>2. M[i].start = first /\ M[i - 1] = x
      BY <1>7, <1>25, <1>14, <3>1
    <3>3. x.end + 1 = first
      BY <1>7, <1>10
    <3>. QED
      BY <1>10, <1>17, <3>2, <3>3 DEF Follows
  <2>4. CASE i \in k + 2..k + n - 1
    <3>1. i \in k + 1..k + n - 1 /\ i - 1 \in k + 1..k + n - 1 /\ i - 1 - k + 1 = i - k /\ i - k \in 1..n
      BY <1>3, <1>6, <2>4
    <3>2. M[i].start = cut[i - k] /\ M[i - 1].end = cut[i - k] - 1 /\ M[i - 1].at = "ready"
      BY <1>14, <3>1
    <3>3. cut[i - k] \in Nat
      BY <1>7, <3>1
    <3>. QED
      BY <3>2, <3>3 DEF Follows
  <2>5. CASE i = k + n
    <3>1. i \in k + n..Len(M) /\ i - (n - 1) = k + 1 /\ k + 1 \in 2..Len(L) /\ k + 1 - 1 = k
      BY <1>3, <1>6, <1>12, <1>15, <2>5
    <3>2. i - 1 \in k + 1..k + n - 1 /\ i - 1 - k + 1 = n
      BY <1>3, <1>6, <2>5
    <3>3. M[i - 1].end = cut[n] - 1 /\ M[i - 1].at = "ready" /\ M[i] = L[k + 1]
      BY <1>14, <1>15, <3>1, <3>2
    <3>4. L[k + 1].start = w.end + 1
      <4>1. k \in 1..Len(L) - 1
        BY <1>3, <3>1
      <4>. QED
        BY <1>1, <4>1, Neighbours DEF w
    <3>. QED
      BY <1>4, <1>7, <3>3, <3>4 DEF Follows
  <2>6. CASE i \in k + n + 1..Len(M)
    <3>1. /\ i \in k + n..Len(M) /\ i - 1 \in k + n..Len(M)
          /\ i - (n - 1) \in 2..Len(L) /\ i - 1 - (n - 1) = i - (n - 1) - 1
      BY <1>3, <1>6, <1>12, <2>6
    <3>2. M[i] = L[i - (n - 1)] /\ M[i - 1] = L[i - (n - 1) - 1]
      BY <1>15, <3>1
    <3>. QED
      BY <1>1, <3>1, <3>2 DEF GoodList
  <2>. QED
    BY <1>3, <1>6, <1>12, <1>16, <2>1, <2>2, <2>3, <2>4, <2>5, <2>6
<1>20. M[1].start = 0 /\ (M[1].got = 0 => M[1].at # "over")
  <2>1. L[1].start = 0 /\ (L[1].got = 0 => L[1].at # "over")
    BY <1>1 DEF GoodList
  <2>2. CASE k = 1
    BY <1>10, <1>25, <2>1, <2>2 DEF w
  <2>3. CASE k # 1
    <3>1. 1 \in 1..k - 1
      BY <1>3, <2>3
    <3>. QED
      BY <1>13, <2>1, <3>1
  <2>. QED
    BY <2>2, <2>3
<1>21. GoodList(M)
  BY <1>11, <1>12, <1>18, <1>19, <1>20 DEF GoodList
<1>22. LastEnd(M) = LastEnd(L)
  <2>1. CASE k = Len(L)
    <3>1. Len(M) \in k + 1..k + n - 1 /\ Len(M) - k + 1 = n
      BY <1>3, <1>6, <1>12, <2>1
    <3>2. M[Len(M)].end = cut[n] - 1
      BY <1>14, <3>1
    <3>3. cut[n] - 1 = w.end
      <4>1. cut[n] = Pos(w) + Rest(w) /\ Rest(w) = w.end - Pos(w) + 1
        BY <1>4, <1>7
      <4>2. Pos(w) \in Nat /\ w.end \in Nat
        BY <1>4
      <4>. QED
        BY <4>1, <4>2
    <3>4. w = L[Len(L)]
      BY <2>1 DEF w
    <3>. QED
      BY <3>2, <3>3, <3>4 DEF LastEnd
  <2>2. CASE k # Len(L)
    <3>1. Len(M) \in k + n..Len(M) /\ Len(M) - (n - 1) = Len(L)
      BY <1>3, <1>6, <1>12, <2>2
    <3>. QED
      BY <1>15, <3>1 DEF LastEnd
  <2>. QED
    BY <2>1, <2>2
<1>23. From(M, L)
  <2>. SUFFICES ASSUME NEW i \in 1..Len(M)
                PROVE  (M[i].got = 0 /\ M[i].at = "ready") \/ \E j \in 1..Len(L) : Like(M[i], L[j])
    BY DEF From
  <2>1. CASE i \in 1..k - 1
    BY <1>13, <2>1 DEF Like
  <2>2. CASE i = k
    BY <1>3, <1>10, <1>25, <2>2 DEF Like, w
  <2>3. CASE i \in k + 1..k + n - 1
    BY <1>14, <2>3
  <2>4. CASE i \in k + n..Len(M)
    <3>1. i - (n - 1) \in 1..Len(L) /\ M[i] = L[i - (n - 1)]
      BY <1>3, <1>15, <2>4
    <3>. QED
      BY <3>1 DEF Like
  <2>. QED
    BY <1>16, <2>1, <2>2, <2>3, <2>4
<1>24. d \in Crews /\ d.list = M /\ d.left = c.left
  BY <1>1, <1>11 DEF Crews
<1>26. Kept(L, M)
  <2>. SUFFICES ASSUME NEW i \in 1..Len(L)
                PROVE  \E j \in 1..Len(M) : Like(M[j], L[i])
    BY DEF Kept
  <2>1. CASE i \in 1..k - 1
    <3>1. i \in 1..Len(M) /\ M[i] = L[i]
      BY <1>3, <1>6, <1>12, <1>25, <2>1
    <3>. QED
      BY <3>1 DEF Like
  <2>2. CASE i = k
    <3>1. k \in 1..Len(M) /\ M[k] = x /\ L[i] = w
      BY <1>3, <1>6, <1>12, <1>25, <2>2 DEF w
    <3>. QED
      BY <1>10, <3>1 DEF Like
  <2>3. CASE i \in k + 1..Len(L)
    <3>1. i + (n - 1) \in 1..Len(M) /\ M[i + (n - 1)] = L[i]
      BY <1>3, <1>6, <1>12, <1>25, <2>3
    <3>. QED
      BY <3>1 DEF Like
  <2>. QED
    BY <1>3, <2>1, <2>2, <2>3
<1>. QED
  BY <1>21, <1>22, <1>23, <1>24, <1>26 DEF Shared, Good

\* So does _reassignSubworker.
LEMMA ReassignedKeeps ==
  ASSUME NEW c, Good(c), NEW size
  PROVE  Shared(Reassigned(c, size), c) /\ Reassigned(c, size).left = c.left
<1>1. Shared(c, c)
  BY SharedItself
<1>2. Shared(Split(c, 2), c) /\ Split(c, 2).left = c.left
  BY SplitKeeps
<1>. QED
  BY <1>1, <1>2 DEF Reassigned

\* So does a speed-up.
LEMMA BoostedKeeps ==
  ASSUME NEW c, Good(c)
  PROVE  Shared(Boosted(c), c) /\ Boosted(c).left = c.left
<1>. DEFINE Same(d) == Shared(d, c) /\ d.left = c.left
<1>1. ASSUME NEW d, NEW j, Same(d)
      PROVE  Same(Boost(d, j))
  <2>1. Good(d)
    BY <1>1 DEF Shared
  <2>2. Shared(Reassigned(d, known), d) /\ Reassigned(d, known).left = d.left
    BY <2>1, ReassignedKeeps
  <2>3. Same(Reassigned(d, known))
    BY <1>1, <2>2, SharedTwice
  <2>. QED
    BY <1>1, <2>3 DEF Boost
<1>2. Same(c)
  BY SharedItself
<1>. HIDE DEF Same
<1>3. Same(Boost(c, 1))
  BY <1>1, <1>2
<1>4. Same(Boost(Boost(c, 1), 2))
  BY <1>1, <1>3
<1>5. Same(Boost(Boost(Boost(c, 1), 2), 3))
  BY <1>1, <1>4
<1>6. Same(Boost(Boost(Boost(Boost(c, 1), 2), 3), 4))
  BY <1>1, <1>5
<1>. QED
  BY <1>6 DEF Boosted, Same

\* Places in a list of n of which the m after the k-th go.
LEMMA PlaceThatGoes ==
  ASSUME NEW k \in Nat, NEW m \in Nat, NEW i \in k + 1 .. k + m
  PROVE  i - k - 1 \in 0..m - 1 /\ k + (i - k - 1) + 1 = i
OBVIOUS

LEMMA PlaceAfterThem ==
  ASSUME NEW k \in Nat, NEW m \in Nat, NEW n \in Nat, k + m <= n, k + m # n
  PROVE  k + 1 \in k + 1 .. n - m /\ k + 1 + m = k + m + 1
OBVIOUS

\* One that is not over extends its range.
LEMMA ExtendedKeeps ==
  ASSUME NEW c, Good(c), NEW k \in 1..Len(c.list), c.list[k].at # "over", NEW reach \in Int
  PROVE  LET d == Extended(c, k, reach)
         IN /\ Shared(d, c)
            /\ k \in 1..Len(d.list) /\ Like(d.list[k], c.list[k])
            /\ d.list[k].end >= c.list[k].end
            /\ d.list[k].end >= reach \/ k = Len(d.list) \/ d.list[k + 1].got > 0
            /\ Len(c.list) = 1 => d.list = c.list /\ d.left = c.left
            /\ \A w \in d.left : w \notin c.left =>
                  c.list[k].start < w.start /\ w.start <= reach /\ w.start <= d.list[k].end
<1>. DEFINE L == c.list
            m == Reach(L, k, reach)
            x == [L[k] EXCEPT !.end = L[k + m].end]
            M == Spliced(L, k, m, x, <<>>)
            gone == {w \in {L[j] : j \in k + 1 .. k + m} : w.at # "over"}
            d == Extended(c, k, reach)
<1>1. c \in Crews /\ GoodList(L) /\ L \in Seq(Subworker) /\ Len(L) \in Nat
  BY Elements DEF Good
<1>2. d = [list |-> M, left |-> c.left \cup gone]
  BY DEF Extended, Reach
<1>. HIDE DEF d
<1>3. m \in 0..Len(L) - k /\ StopsAt(L, k, m, reach) /\ \A j \in 0..m - 1 : ~StopsAt(L, k, j, reach)
  BY <1>1, ReachExists
<1>. HIDE DEF m
<1>4. /\ L[k] \in Subworker /\ L[k].end \in Nat /\ k + m \in 1..Len(L) /\ L[k + m].end \in Nat
      /\ L[k].end <= L[k + m].end
  <2>1. k + m \in 1..Len(L) /\ k <= k + m
    BY <1>1, <1>3
  <2>. QED
    BY <1>1, <2>1, Elements, EndsGrow
<1>5. /\ x \in Subworker /\ x.start = L[k].start /\ x.got = L[k].got /\ x.at = L[k].at
      /\ x.end = L[k + m].end
  BY <1>4 DEF Subworker
<1>. HIDE DEF x
<1>6. M \in Seq(Subworker) /\ IsSpliced(M, L, k, m, x, <<>>)
  <2>. DEFINE none == <<>>
  <2>1. none \in Seq(Subworker)
    OBVIOUS
  <2>2. M = Spliced(L, k, m, x, none)
    OBVIOUS
  <2>. HIDE DEF none, M
  <2>3. M \in Seq(Subworker) /\ IsSpliced(M, L, k, m, x, none)
    BY <1>1, <1>3, <1>5, <2>1, <2>2, SplicedElements
  <2>. QED
    BY <2>3 DEF none
<1>. HIDE DEF M
<1>7. /\ Len(M) = Len(L) - m /\ Len(M) \in Nat /\ k <= Len(M) /\ M # <<>>
      /\ \A i \in 1..k - 1 : M[i] = L[i]
      /\ M[k] = x
      /\ \A i \in k + 1..Len(M) : M[i] = L[i + m] /\ i + m \in k + 1..Len(L)
  <2>1. Len(<<>>) = 0
    OBVIOUS
  <2>2. Len(M) = Len(L) - m /\ Len(M) \in Nat /\ k <= Len(M) /\ M # <<>>
    BY <1>1, <1>3, <1>6, <2>1 DEF IsSpliced
  <2>3. ASSUME NEW i \in k + 1..Len(M)
        PROVE  M[i] = L[i + m] /\ i + m \in k + 1..Len(L)
    <3>1. i \in k + 1..Len(L) - m /\ i + Len(<<>>) = i /\ i + m \in k + 1..Len(L)
      BY <1>1, <1>3, <2>1, <2>2
    <3>. QED
      BY <1>6, <3>1 DEF IsSpliced
  <2>. QED
    BY <1>6, <2>2, <2>3 DEF IsSpliced
<1>8. \A i \in 1..Len(M) : i \in 1..k - 1 \/ i = k \/ i \in k + 1..Len(M)
  BY <1>7
<1>21. Len(M) = Len(L) - m /\ Len(M) \in Nat /\ k \in 1..Len(M) /\ m \in Nat /\ Len(L) \in Nat
  BY <1>1, <1>3, <1>7
<1>9. Fine(x)
  <2>1. Fine(L[k])
    BY <1>1 DEF GoodList
  <2>2. /\ L[k].start \in Nat /\ L[k].got \in Nat /\ Pos(x) = Pos(L[k]) /\ Pos(L[k]) \in Nat
        /\ L[k].start <= L[k].end /\ Pos(L[k]) <= L[k].end + 1
    BY <1>1, <1>5, Elements DEF Pos
  <2>3. x.start <= x.end /\ Pos(x) <= x.end + 1
    BY <1>4, <1>5, <2>2, SMTT(30)
  <2>. QED
    BY <1>5, <2>3 DEF Fine
<1>10. ASSUME NEW i \in 1..Len(M)
       PROVE  Fine(M[i])
  <2>1. CASE i \in 1..k - 1
    BY <1>1, <1>7, <2>1 DEF GoodList
  <2>2. CASE i = k
    BY <1>7, <1>9, <2>2
  <2>3. CASE i \in k + 1..Len(M)
    <3>1. M[i] = L[i + m] /\ i + m \in 1..Len(L)
      BY <1>7, <2>3
    <3>. QED
      BY <1>1, <3>1 DEF GoodList
  <2>. QED
    BY <1>8, <2>1, <2>2, <2>3
<1>11. ASSUME NEW i \in 2..Len(M)
       PROVE  Follows(M[i - 1], M[i])
  <2>1. CASE i \in 1..k - 1
    <3>1. i \in 2..Len(L) /\ M[i] = L[i] /\ M[i - 1] = L[i - 1]
      BY <1>1, <1>7, <2>1
    <3>. QED
      BY <1>1, <3>1 DEF GoodList
  <2>2. CASE i = k
    <3>1. i \in 2..Len(L) /\ M[i] = x /\ M[i - 1] = L[i - 1]
      BY <1>1, <1>7, <2>2
    <3>2. Follows(L[i - 1], L[i])
      BY <1>1, <3>1 DEF GoodList
    <3>. QED
      BY <1>5, <2>2, <3>1, <3>2 DEF Follows
  <2>3. CASE i = k + 1
    <3>1. i \in k + 1..Len(M) /\ i - 1 = k /\ k + m \in 1..Len(L) - 1 /\ i + m = k + m + 1
      BY <1>1, <1>3, <1>7, <2>3
    <3>2. M[i] = L[k + m + 1] /\ M[i - 1] = x
      BY <1>7, <3>1
    <3>3. L[k + m + 1].start = L[k + m].end + 1
      BY <1>1, <3>1, Neighbours
    <3>. QED
      BY <1>5, <3>2, <3>3 DEF Follows
  <2>4. CASE i \in k + 2..Len(M)
    <3>1. /\ i \in k + 1..Len(M) /\ i - 1 \in k + 1..Len(M)
          /\ i - 1 + m \in 1..Len(L) - 1 /\ i - 1 + m + 1 = i + m
      BY <1>21, <2>4
    <3>2. M[i] = L[i + m] /\ M[i - 1] = L[i - 1 + m]
      BY <1>7, <3>1
    <3>3. Follows(L[i - 1 + m], L[i - 1 + m + 1])
      BY <1>1, <3>1, Neighbours
    <3>. QED
      BY <3>1, <3>2, <3>3
  <2>. QED
    BY <1>7, <1>8, <2>1, <2>2, <2>3, <2>4
<1>12. M[1].start = 0 /\ (M[1].got = 0 => M[1].at # "over")
  <2>1. L[1].start = 0 /\ (L[1].got = 0 => L[1].at # "over")
    BY <1>1 DEF GoodList
  <2>2. CASE k = 1
    BY <1>5, <1>7, <2>1, <2>2
  <2>3. CASE k # 1
    <3>1. 1 \in 1..k - 1
      BY <1>1, <2>3
    <3>. QED
      BY <1>7, <2>1, <3>1
  <2>. QED
    BY <2>2, <2>3
<1>13. GoodList(M)
  BY <1>6, <1>7, <1>10, <1>11, <1>12 DEF GoodList
<1>14. LastEnd(M) = LastEnd(L)
  <2>1. CASE k = Len(M)
    <3>1. k + m = Len(L)
      BY <1>1, <1>3, <1>7, <2>1
    <3>. QED
      BY <1>5, <1>7, <2>1, <3>1 DEF LastEnd
  <2>2. CASE k # Len(M)
    <3>1. Len(M) \in k + 1..Len(M) /\ Len(M) + m = Len(L)
      BY <1>21, <2>2
    <3>. QED
      BY <1>7, <3>1 DEF LastEnd
  <2>. QED
    BY <2>1, <2>2
<1>15. From(M, L)
  <2>. SUFFICES ASSUME NEW i \in 1..Len(M)
                PROVE  \E j \in 1..Len(L) : Like(M[i], L[j])
    BY DEF From
  <2>1. CASE i \in 1..k - 1
    <3>1. i \in 1..Len(L) /\ M[i] = L[i]
      BY <1>1, <1>7, <2>1
    <3>. QED
      BY <3>1 DEF Like
  <2>2. CASE i = k
    BY <1>5, <1>7, <2>2 DEF Like
  <2>3. CASE i \in k + 1..Len(M)
    <3>1. M[i] = L[i + m] /\ i + m \in 1..Len(L)
      BY <1>7, <2>3
    <3>. QED
      BY <3>1 DEF Like
  <2>. QED
    BY <1>8, <2>1, <2>2, <2>3
<1>16. \A w \in gone : w \in Subworker /\ w.got = 0
  <2>. SUFFICES ASSUME NEW j \in k + 1 .. k + m
                PROVE  L[j] \in Subworker /\ L[j].got = 0
    OBVIOUS
  <2>1. j \in 1..Len(L) /\ j - k - 1 \in 0..m - 1 /\ k + (j - k - 1) + 1 = j
    BY <1>1, <1>3
  <2>2. ~(L[j].got > 0)
    BY <1>3, <2>1 DEF StopsAt
  <2>3. L[j] \in Subworker /\ L[j].got \in Nat
    BY <1>1, <2>1, Elements
  <2>. QED
    BY <2>2, <2>3
<1>17. d \in Crews /\ d.list = M /\ d.left = c.left \cup gone
  BY <1>1, <1>2, <1>6, <1>16 DEF Crews
<1>22. Kept(L, M)
  <2>. SUFFICES ASSUME NEW i \in 1..Len(L), L[i].got > 0
                PROVE  \E j \in 1..Len(M) : Like(M[j], L[i])
    BY DEF Kept
  <2>1. CASE i \in 1..k - 1
    <3>1. i \in 1..Len(M) /\ M[i] = L[i]
      BY <1>7, <1>21, <2>1
    <3>. QED
      BY <3>1 DEF Like
  <2>2. CASE i = k
    BY <1>5, <1>7, <1>21, <2>2 DEF Like
  <2>3. CASE i \in k + 1..k + m
    <3>0. k \in Nat
      BY <1>21
    <3>1. i - k - 1 \in 0..m - 1 /\ k + (i - k - 1) + 1 = i
      BY <3>0, <1>21, <2>3, PlaceThatGoes
    <3>. QED
      BY <1>3, <3>1 DEF StopsAt
  <2>4. CASE i \in k + m + 1..Len(L)
    <3>1. i - m \in k + 1..Len(M) /\ i - m + m = i
      BY <1>21, <2>4
    <3>2. M[i - m] = L[i] /\ i - m \in 1..Len(M)
      BY <1>7, <1>21, <3>1
    <3>. QED
      BY <3>2 DEF Like
  <2>5. i \in 1..k - 1 \/ i = k \/ i \in k + 1..k + m \/ i \in k + m + 1..Len(L)
    BY <1>21
  <2>. QED
    BY <2>1, <2>2, <2>3, <2>4, <2>5
<1>23. \A w \in gone : L[k].start < w.start /\ w.start <= reach /\ w.start <= x.end
  <2>. SUFFICES ASSUME NEW j \in k + 1 .. k + m
                PROVE  L[k].start < L[j].start /\ L[j].start <= reach /\ L[j].start <= x.end
    OBVIOUS
  <2>1. /\ j - k - 1 \in 0..m - 1 /\ k + (j - k - 1) = j - 1 /\ j - 1 + 1 = j
        /\ k \in 1..Len(L) /\ k <= j - 1 /\ j <= k + m /\ k + m \in 1..Len(L)
    BY <1>4, <1>21
  <2>6. j \in 1..Len(L) /\ j - 1 \in 1..Len(L) - 1 /\ j - 1 \in 1..Len(L)
    BY <1>21, <2>1
  <2>2. ~(L[j - 1].end >= reach)
    BY <1>3, <2>1 DEF StopsAt
  <2>3. L[j].start = L[j - 1].end + 1
    BY <1>1, <2>1, <2>6, Neighbours
  <2>4. L[k].end <= L[j - 1].end /\ L[j].end <= L[k + m].end
    BY <1>1, <2>1, <2>6, EndsGrow
  <2>5. /\ L[k].start \in Nat /\ L[k].end \in Nat /\ L[k].start <= L[k].end
        /\ L[j].start \in Nat /\ L[j].end \in Nat /\ L[j].start <= L[j].end
        /\ L[j - 1].end \in Nat /\ L[k + m].end \in Nat
    <3>1. \A i \in 1..Len(L) : L[i].start \in Nat /\ L[i].end \in Nat /\ L[i].start <= L[i].end
      BY <1>1, Elements
    <3>. QED
      BY <2>1, <2>6, <3>1
  <2>. DEFINE a == L[k].start  b == L[k].end  e == L[j - 1].end
              s == L[j].start  f == L[j].end  g == L[k + m].end
  <2>9. /\ a \in Nat /\ b \in Nat /\ a <= b /\ s \in Nat /\ f \in Nat /\ s <= f
        /\ e \in Nat /\ g \in Nat /\ reach \in Int
        /\ ~(e >= reach) /\ s = e + 1 /\ b <= e /\ f <= g
    BY <2>2, <2>3, <2>4, <2>5
  <2>10. x.end = g
    BY <1>5
  <2>. HIDE DEF a, b, e, s, f, g
  <2>7. a < s /\ s <= reach
    BY <2>9
  <2>8. s <= x.end
    BY <2>9, <2>10
  <2>. QED
    BY <2>7, <2>8 DEF a, s
<1>18. Shared(d, c)
  BY <1>13, <1>14, <1>15, <1>16, <1>17, <1>22 DEF Shared, Good
<1>19. M[k].end >= reach \/ k = Len(M) \/ M[k + 1].got > 0
  <2>0. L[k + m].end >= reach \/ k + m = Len(L) \/ L[k + m + 1].got > 0
    <3>1. StopsAt(L, k, m, reach)
      BY <1>3
    <3>. QED
      BY <3>1 DEF StopsAt
  <2>1. CASE L[k + m].end >= reach
    BY <1>5, <1>7, <2>1
  <2>2. CASE k + m = Len(L)
    BY <1>1, <1>3, <1>7, <2>2
  <2>3. CASE k + m # Len(L) /\ L[k + m + 1].got > 0
    <3>0. k \in Nat /\ k + m <= Len(L)
      BY <1>4, <1>21
    <3>1. k + 1 \in k + 1..Len(M) /\ k + 1 + m = k + m + 1
      BY <3>0, <1>21, <2>3, PlaceAfterThem
    <3>. QED
      BY <1>7, <2>3, <3>1
  <2>. QED
    BY <2>0, <2>1, <2>2, <2>3
<1>20. Len(L) = 1 => M = L /\ gone = {}
  <2>. SUFFICES ASSUME Len(L) = 1 PROVE M = L /\ gone = {}
    OBVIOUS
  <2>1. m = 0 /\ k = 1 /\ Len(M) = 1
    BY <1>1, <1>3, <1>7
  <2>2. x = L[1]
    BY <1>4, <2>1 DEF x, Subworker
  <2>3. M[1] = L[1]
    BY <1>7, <2>1, <2>2
  <2>. QED
    BY <1>1, <1>6, <2>1, <2>3
<1>. QED
  BY <1>4, <1>5, <1>7, <1>17, <1>18, <1>19, <1>20, <1>23 DEF Like, d

-----------------------------------------------------------------------------
(* Steps of a subworker with a range.                                      *)

\* The k-th is replaced by x, of the same range.
Changed(d, c, k, x) ==
    /\ d \in Crews /\ d.left = c.left /\ Len(d.list) = Len(c.list)
    /\ d.list[k] = x
    /\ \A i \in 1..Len(c.list) : i # k => d.list[i] = c.list[i]

\* A move changes nothing but the place.
LEMMA Moved ==
  ASSUME NEW c \in Crews, NEW k \in 1..Len(c.list), NEW place \in Places
  PROVE  \E x \in Subworker :
            /\ Changed(Move(c, k, place), c, k, x)
            /\ x.start = c.list[k].start /\ x.end = c.list[k].end /\ x.got = c.list[k].got
            /\ x.at = place
<1>. DEFINE x == [c.list[k] EXCEPT !.at = place]
            L == [c.list EXCEPT ![k] = x]
            d == Move(c, k, place)
<1>1. c.list \in Seq(Subworker) /\ c.left \in SUBSET Subworker /\ c.list[k] \in Subworker
  BY DEF Crews
<1>2. x \in Subworker /\ x.start = c.list[k].start /\ x.end = c.list[k].end
      /\ x.got = c.list[k].got /\ x.at = place
  BY <1>1 DEF Subworker
<1>3. d = [c EXCEPT !.list = L]
  BY DEF Move
<1>4. d.list = L /\ d.left = c.left
  BY <1>3 DEF Crews
<1>. HIDE DEF x, d
<1>5. L \in Seq(Subworker) /\ Len(L) = Len(c.list) /\ L[k] = x
      /\ \A i \in 1..Len(c.list) : i # k => L[i] = c.list[i]
  BY <1>1, <1>2
<1>6. d = [list |-> L, left |-> c.left]
  BY <1>3 DEF Crews
<1>7. d \in Crews
  BY <1>1, <1>5, <1>6 DEF Crews
<1>. QED
  BY <1>2, <1>4, <1>5, <1>7 DEF Changed, d

\* The k-th of a good crew changes: it is as good as before if the k-th is fine, and
\* its neighbours may follow it.
LEMMA ChangedKeeps ==
  ASSUME NEW c, Good(c), NEW d, NEW k \in 1..Len(c.list), NEW x \in Subworker,
         Changed(d, c, k, x), Fine(x),
         x.start = c.list[k].start, x.end = c.list[k].end,
         x.got = 0 => c.list[k].got = 0,
         k = 1 /\ x.got = 0 => x.at # "over",
         x.at = "over" => x.got = 0 \/ k = Len(c.list) \/ c.list[k + 1].got > 0
  PROVE  Good(d) /\ LastEnd(d.list) = LastEnd(c.list)
<1>. DEFINE L == c.list
            M == d.list
<1>1. c \in Crews /\ GoodList(L) /\ L \in Seq(Subworker) /\ Len(L) \in Nat /\ Len(L) >= 1
  BY Elements DEF Good
<1>2. /\ d \in Crews /\ d.left = c.left /\ Len(M) = Len(L) /\ M[k] = x
      /\ \A i \in 1..Len(L) : i # k => M[i] = L[i]
  BY DEF Changed
<1>3. M \in Seq(Subworker) /\ M # <<>>
  BY <1>1, <1>2 DEF Crews
<1>. HIDE DEF M, L
<1>4. \A i \in 1..Len(M) : Fine(M[i])
  BY <1>1, <1>2 DEF GoodList
<1>5. ASSUME NEW i \in 2..Len(M)
      PROVE  Follows(M[i - 1], M[i])
  <2>1. i - 1 \in 1..Len(L) - 1 /\ i - 1 + 1 = i /\ i \in 1..Len(L) /\ i - 1 \in 1..Len(L) /\ i - 1 # i
    BY <1>1, <1>2
  <2>2. Follows(L[i - 1], L[i])
    BY <1>1, <1>2 DEF GoodList
  <2>3. CASE i = k
    <3>1. M[i - 1] = L[i - 1] /\ M[i] = x
      BY <1>2, <2>1, <2>3
    <3>. QED
      BY <2>2, <2>3, <3>1 DEF Follows, L
  <2>4. CASE i - 1 = k
    <3>1. M[i - 1] = x /\ M[i] = L[i]
      BY <1>2, <2>1, <2>4
    <3>2. x.at = "over" /\ L[i].got = 0 => x.got = 0
      <4>1. k # Len(L) /\ k + 1 = i
        BY <1>1, <2>1, <2>4
      <4>. QED
        BY <4>1 DEF L
    <3>. QED
      BY <2>2, <2>4, <3>1, <3>2 DEF Follows, L
  <2>5. CASE i # k /\ i - 1 # k
    BY <1>2, <2>1, <2>2, <2>5
  <2>. QED
    BY <2>3, <2>4, <2>5
<1>6. M[1].start = 0 /\ (M[1].got = 0 => M[1].at # "over")
  <2>1. L[1].start = 0 /\ (L[1].got = 0 => L[1].at # "over") /\ 1 \in 1..Len(L)
    BY <1>1 DEF GoodList
  <2>2. CASE k = 1
    BY <1>2, <2>1, <2>2 DEF L
  <2>3. CASE k # 1
    BY <1>2, <2>1, <2>3
  <2>. QED
    BY <2>2, <2>3
<1>7. GoodList(M)
  BY <1>3, <1>4, <1>5, <1>6 DEF GoodList
<1>8. LastEnd(M) = LastEnd(L)
  <2>1. Len(L) \in 1..Len(L)
    BY <1>1
  <2>2. CASE Len(L) = k
    BY <1>2, <2>2 DEF LastEnd, L
  <2>3. CASE Len(L) # k
    BY <1>2, <2>1, <2>3 DEF LastEnd
  <2>. QED
    BY <2>2, <2>3
<1>. QED
  BY <1>2, <1>7, <1>8 DEF Good, M, L

\* A crew that shares its ranges out again stays what it is.
LEMMA RangedShared ==
  ASSUME NEW c, NEW size, NEW is, NEW disc, Ranged(c, size, is, disc), Calm(c.list),
         NEW e, Shared(e, c)
  PROVE  Ranged(e, size, is, disc) /\ Calm(e.list)
<1>1. GoodList(c.list) /\ GoodList(e.list) /\ From(e.list, c.list) /\ Good(e)
      /\ LastEnd(e.list) = LastEnd(c.list)
  BY DEF Ranged, Shared, Good
<1>2. /\ Touched(e.list) => Touched(c.list)
      /\ Streams(e.list) => Streams(c.list)
      /\ Calm(c.list) => Calm(e.list)
      /\ \A d : OnDisk(c.list, d) => OnDisk(e.list, d)
  BY <1>1, FromKeeps
<1>3. Lone(e.list)
  BY <1>2 DEF Calm, Lone
<1>. QED
  BY <1>1, <1>2, <1>3 DEF Ranged

\* The k-th goes to another place.
LEMMA RangedMove ==
  ASSUME NEW c, NEW size, NEW is, NEW disc, Ranged(c, size, is, disc),
         NEW k \in 1..Len(c.list), NEW place \in Places,
         place = "streaming" => size = Size,
         place = "confirming" => Len(c.list) = 1 /\ Pos(c.list[k]) = 0,
         place = "over" =>
            /\ Rest(c.list[k]) <= 0 \/ c.list[k].got = 0
            /\ k = 1 => c.list[k].got # 0
            /\ c.list[k].got = 0 \/ k = Len(c.list) \/ c.list[k + 1].got > 0
  PROVE  /\ Ranged(Move(c, k, place), size, is, disc)
         /\ k \in 1..Len(Move(c, k, place).list) /\ Move(c, k, place).list[k].at = place
         /\ Len(Move(c, k, place).list) = Len(c.list)
         /\ Sure(c) => Sure(Move(c, k, place))
         /\ place # "confirming" /\ Calm(c.list) => Calm(Move(c, k, place).list)
<1>. DEFINE d == Move(c, k, place)
            w == c.list[k]
<1>1. Good(c) /\ c \in Crews /\ GoodList(c.list)
  BY DEF Ranged, Good
<1>2. PICK x \in Subworker :
         /\ Changed(d, c, k, x)
         /\ x.start = w.start /\ x.end = w.end /\ x.got = w.got
         /\ x.at = place
  BY <1>1, Moved
<1>. HIDE DEF d
<1>3. Pos(x) = Pos(w) /\ Rest(x) = Rest(w)
  BY <1>2 DEF Pos, Rest
<1>4. Fine(x)
  <2>1. w.start <= w.end /\ Pos(w) <= w.end + 1 /\ Rest(w) \in Nat
    BY <1>1, Elements
  <2>2. x.at = "over" /\ Rest(x) > 0 => x.got = 0
    BY <1>2, <1>3, <2>1
  <2>. QED
    BY <1>2, <1>3, <2>1, <2>2 DEF Fine
<1>5. Good(d) /\ LastEnd(d.list) = LastEnd(c.list)
  BY <1>1, <1>2, <1>4, ChangedKeeps
<1>6. /\ Len(d.list) = Len(c.list) /\ d.list[k] = x /\ d.left = c.left
      /\ \A i \in 1..Len(c.list) : i # k => d.list[i] = c.list[i]
  BY <1>2 DEF Changed
<1>7. Lone(d.list)
  <2>. SUFFICES ASSUME NEW i \in 1..Len(d.list), d.list[i].at = "confirming"
                PROVE  Len(d.list) = 1 /\ Pos(d.list[i]) = 0
    BY DEF Lone
  <2>1. CASE i = k
    BY <1>2, <1>3, <1>6, <2>1
  <2>2. CASE i # k
    BY <1>6, <2>2 DEF Ranged, Lone
  <2>. QED
    BY <2>1, <2>2
<1>8. OnDisk(d.list, disc)
  <2>. SUFFICES ASSUME NEW i \in 1..Len(d.list)
                PROVE  d.list[i].start .. Pos(d.list[i]) - 1 \subseteq disc
    BY DEF OnDisk
  <2>1. d.list[i].start = c.list[i].start /\ Pos(d.list[i]) = Pos(c.list[i])
    BY <1>2, <1>3, <1>6
  <2>2. c.list[i].start .. Pos(c.list[i]) - 1 \subseteq disc
    BY <1>6 DEF Ranged, OnDisk
  <2>. QED
    BY <2>1, <2>2
<1>9. Touched(d.list) => Touched(c.list)
  BY <1>2, <1>6 DEF Touched
<1>12. Sure(c) => Sure(d)
  <2>1. \A i \in 1..Len(c.list) : /\ d.list[i].start = c.list[i].start
                                  /\ Pos(d.list[i]) = Pos(c.list[i])
    BY <1>2, <1>3, <1>6
  <2>. QED
    BY <1>6, <2>1 DEF Sure, Behind
<1>10. Streams(d.list) => size = Size
  BY <1>2, <1>6 DEF Streams, Ranged
<1>11. place # "confirming" /\ Calm(c.list) => Calm(d.list)
  BY <1>2, <1>6 DEF Calm
<1>. QED
  BY <1>2, <1>5, <1>6, <1>7, <1>8, <1>9, <1>10, <1>11, <1>12 DEF Ranged, d

\* The head of the loop: the range is extended, then it is requested or over.
LEMMA LoopsKeep ==
  ASSUME NEW c, NEW size, NEW is, NEW disc, Ranged(c, size, is, disc),
         NEW k \in 1..Len(c.list), c.list[k].at \in {"ready", "streaming"}, NEW known0
  PROVE  /\ Ranged(Requested(Adjoined(c, k), k, known0), size, is, disc)
         /\ Sure(c) => Sure(Requested(Adjoined(c, k), k, known0))
<1>. DEFINE w == c.list[k]
            a == Adjoined(c, k)
            L == a.list
<1>1. Good(c) /\ GoodList(c.list) /\ Pos(w) \in Nat /\ Len(c.list) \in Nat
  BY Elements DEF Ranged, Good
<1>2. Calm(c.list)
  <2>. SUFFICES ASSUME NEW i \in 1..Len(c.list), c.list[i].at = "confirming" PROVE FALSE
    BY DEF Calm
  <2>1. Len(c.list) = 1
    BY DEF Ranged, Lone
  <2>2. i = k
    BY <2>1
  <2>. QED
    BY <2>2
<1>3. /\ Shared(a, c) /\ k \in 1..Len(L) /\ Like(L[k], w)
      /\ L[k].end >= Pos(w) \/ k = Len(L) \/ L[k + 1].got > 0
      /\ \A v \in a.left : v \notin c.left => w.start < v.start /\ v.start <= Pos(w)
  BY <1>1, ExtendedKeeps DEF Adjoined
<1>. HIDE DEF a
<1>4. Ranged(a, size, is, disc) /\ Calm(L) /\ GoodList(L)
  BY <1>2, <1>3, RangedShared DEF Shared, Good
<1>8. Sure(c) => Sure(a)
  <2>. SUFFICES ASSUME Sure(c), NEW v \in a.left
                PROVE  \E j \in 1..Len(L) : Behind(v, L[j])
    BY DEF Sure
  <2>1. CASE v \in c.left
    <3>1. PICK j \in 1..Len(c.list) : Behind(v, c.list[j])
      BY <2>1 DEF Sure
    <3>2. v \in Subworker /\ Kept(c.list, L)
      BY <1>1, <1>3, <2>1 DEF Good, Crews, Shared
    <3>. QED
      BY <1>1, <3>1, <3>2, StaysBehind
  <2>2. CASE v \notin c.left
    BY <1>3, <2>2 DEF Behind, Like, Pos
  <2>. QED
    BY <2>1, <2>2
<1>5. /\ Pos(L[k]) = Pos(w) /\ Rest(L[k]) = L[k].end - Pos(w) + 1 /\ Rest(L[k]) \in Nat
      /\ L[k].end \in Nat /\ L[k].start <= L[k].end /\ Pos(L[k]) = L[k].start + L[k].got
      /\ L[k].start \in Nat /\ L[k].got \in Nat
  BY <1>3, <1>4, Elements DEF Like, Pos
<1>6. CASE Rest(L[k]) <= 0
  <2>. DEFINE m == Move(a, k, "over")
  <2>1. L[k].got # 0 /\ ~(L[k].end >= Pos(w))
    BY <1>1, <1>5, <1>6, SMTT(30)
  <2>2. /\ Ranged(m, size, is, disc) /\ Calm(m.list)
        /\ Sure(a) => Sure(m)
    <3>. DEFINE place == "over"
    <3>1. place \in Places /\ place # "streaming" /\ place # "confirming" /\ m = Move(a, k, place)
      BY DEF Places
    <3>2. /\ Rest(L[k]) <= 0 \/ L[k].got = 0
          /\ k = 1 => L[k].got # 0
          /\ L[k].got = 0 \/ k = Len(L) \/ L[k + 1].got > 0
      BY <1>3, <1>6, <2>1
    <3>. HIDE DEF place, m
    <3>3. /\ Ranged(Move(a, k, place), size, is, disc) /\ Calm(Move(a, k, place).list)
          /\ Sure(a) => Sure(Move(a, k, place))
      BY <1>3, <1>4, <3>1, <3>2, RangedMove
    <3>. QED
      BY <3>1, <3>3
  <2>. HIDE DEF m
  <2>3. Shared(Reassigned(m, known0), m) /\ Reassigned(m, known0).left = m.left
    BY <2>2, ReassignedKeeps DEF Ranged
  <2>4. Ranged(Reassigned(m, known0), size, is, disc)
    BY <2>2, <2>3, RangedShared
  <2>5. Requested(a, k, known0) = Reassigned(m, known0)
    BY <1>6 DEF Requested, Ended, m
  <2>6. Sure(a) => Sure(Reassigned(m, known0))
    BY <2>2, <2>3, SureShared DEF Ranged
  <2>. QED
    BY <1>8, <2>4, <2>5, <2>6 DEF a
<1>7. CASE ~(Rest(L[k]) <= 0)
  <2>. DEFINE place == IF Len(L) = 1 /\ Pos(L[1]) = 0 THEN "confirming" ELSE "asked"
  <2>1. place \in Places /\ place # "streaming" /\ place # "over"
    BY DEF Places
  <2>2. place = "confirming" => Len(L) = 1 /\ Pos(L[k]) = 0
    BY <1>3
  <2>3. Requested(a, k, known0) = Move(a, k, place)
    BY <1>7 DEF Requested
  <2>. HIDE DEF place
  <2>4. /\ Ranged(Move(a, k, place), size, is, disc)
        /\ Sure(a) => Sure(Move(a, k, place))
    BY <1>3, <1>4, <2>1, <2>2, RangedMove
  <2>. QED
    BY <1>8, <2>3, <2>4 DEF a
<1>. QED
  BY <1>6, <1>7 DEF a

\* A subworker receives more.
LEMMA GotMore ==
  ASSUME NEW w \in Subworker, NEW more \in Nat
  PROVE  LET x == [w EXCEPT !.got = @ + more]
         IN /\ x \in Subworker /\ x.start = w.start /\ x.end = w.end /\ x.at = w.at
            /\ x.got = w.got + more /\ Pos(x) = Pos(w) + more
<1>1. w.got + more \in Nat /\ w.got \in Nat /\ w.start \in Nat
  BY DEF Subworker
<1>. QED
  BY <1>1 DEF Subworker, Pos

\* A chunk of n.
LEMMA ReceivedKeeps ==
  ASSUME NEW c, NEW size, NEW is, NEW disc, Ranged(c, size, is, disc),
         NEW k \in 1..Len(c.list), c.list[k].at = "streaming", NEW n \in Nat \ {0},
         NEW e, e = Received(c, k, n)
  PROVE  /\ Ranged(e, size, is, disc \cup Pos(c.list[k]) .. Pos(e.list[k]) - 1)
         /\ k \in 1..Len(e.list) /\ e.list[k].at = "streaming"
         /\ Pos(e.list[k]) <= Pos(c.list[k]) + n
<1>. DEFINE w == c.list[k]
            a == Extended(c, k, Pos(w) + n)
            L == a.list
            more == SmallerOf(n, Rest(L[k]))
            x == [L[k] EXCEPT !.got = @ + more]
            both == disc \cup Pos(w) .. Pos(e.list[k]) - 1
<1>1. Good(c) /\ GoodList(c.list) /\ Pos(w) \in Nat /\ Len(c.list) \in Nat
  BY Elements DEF Ranged, Good
<1>2. size = Size
  BY DEF Ranged, Streams
<1>3. Calm(c.list)
  <2>. SUFFICES ASSUME NEW i \in 1..Len(c.list), c.list[i].at = "confirming" PROVE FALSE
    BY DEF Calm
  <2>1. Len(c.list) = 1
    BY DEF Ranged, Lone
  <2>2. i = k
    BY <2>1
  <2>. QED
    BY <2>2
<1>4. Shared(a, c) /\ k \in 1..Len(L) /\ Like(L[k], w)
  <2>1. Pos(w) + n \in Int
    BY <1>1
  <2>. QED
    BY <1>1, <2>1, ExtendedKeeps
<1>5. e = [a EXCEPT !.list = [L EXCEPT ![k] = x]]
  BY DEF Received
<1>. HIDE DEF a
<1>6. Ranged(a, size, is, disc) /\ Calm(L) /\ GoodList(L) /\ Good(a) /\ a \in Crews
  BY <1>3, <1>4, RangedShared DEF Shared, Good
<1>7. /\ L[k] \in Subworker /\ Pos(L[k]) = Pos(w) /\ Rest(L[k]) \in Nat
      /\ Rest(L[k]) = L[k].end - Pos(L[k]) + 1
      /\ L[k].start <= L[k].end /\ Pos(L[k]) = L[k].start + L[k].got
      /\ L[k].start \in Nat /\ L[k].got \in Nat /\ L[k].end \in Nat /\ L[k].at = "streaming"
  BY <1>4, <1>6, Elements DEF Like, Pos
<1>8. more \in Nat /\ more <= n /\ more <= Rest(L[k])
  BY <1>7 DEF SmallerOf
<1>. HIDE DEF more
<1>9. /\ x \in Subworker /\ x.start = L[k].start /\ x.end = L[k].end /\ x.at = "streaming"
      /\ x.got = L[k].got + more /\ Pos(x) = Pos(L[k]) + more
  BY <1>7, <1>8, GotMore
<1>. HIDE DEF x
<1>10. Changed(e, a, k, x)
  <2>. DEFINE M == [L EXCEPT ![k] = x]
  <2>1. L \in Seq(Subworker) /\ a.left \in SUBSET Subworker
    BY <1>6 DEF Crews
  <2>2. M \in Seq(Subworker) /\ Len(M) = Len(L) /\ M[k] = x
        /\ \A i \in 1..Len(L) : i # k => M[i] = L[i]
    BY <1>4, <1>9, <2>1
  <2>. HIDE DEF M
  <2>3. e = [list |-> M, left |-> a.left]
    BY <1>5, <1>6 DEF Crews, M
  <2>. QED
    BY <2>1, <2>2, <2>3 DEF Changed, Crews
<1>11. Pos(x) = Pos(w) + more /\ Pos(x) \in Nat
  <2>1. Pos(x) = Pos(L[k]) + more /\ Pos(L[k]) = Pos(w)
    BY <1>7, <1>9, Zenon
  <2>2. Pos(w) \in Nat /\ more \in Nat
    BY <1>1, <1>8
  <2>. QED
    BY <2>1, <2>2
<1>12. Fine(x)
  <2>1. Rest(L[k]) = L[k].end - Pos(w) + 1 /\ L[k].end \in Nat
    BY <1>7, Zenon
  <2>2. Pos(w) + more <= L[k].end + 1
    BY <1>1, <1>8, <2>1
  <2>3. x.start <= x.end /\ Pos(x) <= x.end + 1
    BY <1>7, <1>9, <1>11, <2>2, Zenon
  <2>. QED
    BY <1>9, <2>3 DEF Fine
<1>13. Good(e) /\ LastEnd(e.list) = LastEnd(L)
  <2>1. x.got = 0 => L[k].got = 0
    BY <1>7, <1>8, <1>9
  <2>. QED
    BY <1>4, <1>6, <1>9, <1>10, <1>12, <2>1, ChangedKeeps
<1>14. /\ Len(e.list) = Len(L) /\ e.list[k] = x
       /\ \A i \in 1..Len(L) : i # k => e.list[i] = L[i]
  BY <1>10 DEF Changed
<1>15. Lone(e.list)
  <2>1. \A i \in 1..Len(e.list) : e.list[i].at # "confirming"
    BY <1>6, <1>9, <1>14 DEF Calm
  <2>. QED
    BY <2>1 DEF Lone
<1>16. OnDisk(e.list, both)
  <2>. SUFFICES ASSUME NEW i \in 1..Len(e.list)
                PROVE  e.list[i].start .. Pos(e.list[i]) - 1 \subseteq both
    BY DEF OnDisk
  <2>1. L[i].start .. Pos(L[i]) - 1 \subseteq disc
    BY <1>6, <1>14 DEF Ranged, OnDisk
  <2>2. CASE i = k
    <3>1. e.list[i].start = L[i].start /\ L[i].start \in Nat /\ Pos(L[i]) = Pos(w)
      BY <1>7, <1>9, <1>14, <2>2
    <3>2. e.list[i].start .. Pos(e.list[i]) - 1
            \subseteq (L[i].start .. Pos(L[i]) - 1) \cup Pos(w) .. Pos(e.list[k]) - 1
      BY <1>1, <1>11, <1>14, <2>2, <3>1
    <3>. QED
      BY <2>1, <3>2
  <2>3. CASE i # k
    BY <1>14, <2>1, <2>3
  <2>. QED
    BY <2>2, <2>3
<1>17. ~is => LastEnd(e.list) = Size - 1
  BY <1>2, <1>6, <1>13 DEF Ranged
<1>18. Size - 1 >= Size - 1
  BY HttpAssumption
<1>. QED
  BY <1>2, <1>4, <1>8, <1>9, <1>11, <1>13, <1>14, <1>15, <1>16, <1>17, <1>18, <1>1 DEF Ranged

\* Those that leave because of a chunk are behind its subworker then.
LEMMA ReceivedSure ==
  ASSUME NEW c, Good(c), Sure(c), NEW k \in 1..Len(c.list), c.list[k].at = "streaming", NEW n \in Nat \ {0}
  PROVE  Sure(Received(c, k, n))
<1>. DEFINE w == c.list[k]
            a == Extended(c, k, Pos(w) + n)
            L == a.list
            more == SmallerOf(n, Rest(L[k]))
            x == [L[k] EXCEPT !.got = @ + more]
            M == [L EXCEPT ![k] = x]
<1>1. GoodList(c.list) /\ Pos(w) + n \in Int
  BY Elements DEF Good
<1>2. /\ Good(a) /\ k \in 1..Len(L) /\ Like(L[k], w) /\ Kept(c.list, L)
      /\ \A v \in a.left : v \notin c.left =>
            w.start < v.start /\ v.start <= Pos(w) + n /\ v.start <= L[k].end
  BY <1>1, ExtendedKeeps DEF Shared
<1>3. Received(c, k, n) = [a EXCEPT !.list = M]
  BY DEF Received
<1>. HIDE DEF a
<1>4. /\ L \in Seq(Subworker) /\ a \in Crews /\ L[k] \in Subworker /\ L[k].got \in Nat
      /\ L[k].start \in Nat /\ L[k].end \in Nat /\ L[k].start <= L[k].end
      /\ Pos(L[k]) = L[k].start + L[k].got /\ Pos(L[k]) <= L[k].end + 1
      /\ Rest(L[k]) = L[k].end - Pos(L[k]) + 1
  BY <1>2, Elements DEF Good, GoodList, Fine
<1>5. \A p \in Nat : p <= Pos(L[k]) + n /\ p <= L[k].end => p <= Pos(L[k]) + more
  <2>. DEFINE pos == Pos(L[k])
              end == L[k].end
              rest == Rest(L[k])
  <2>1. pos \in Nat /\ end \in Nat /\ rest = end - pos + 1
    BY <1>4
  <2>2. more = n \/ more = rest
    BY DEF SmallerOf, rest
  <2>. HIDE DEF pos, end, rest, more
  <2>3. \A p \in Nat : p <= pos + n /\ p <= end => p <= pos + more
    BY <2>1, <2>2
  <2>. QED
    BY <2>3 DEF pos, end
<1>6. more \in Nat
  <2>1. Rest(L[k]) \in Nat
    BY <1>2, Elements DEF Good
  <2>. QED
    BY <2>1 DEF SmallerOf
<1>. HIDE DEF more
<1>7. x.start = L[k].start /\ Pos(x) = Pos(L[k]) + more
  BY <1>4, <1>6, GotMore
<1>8. M[k] = x /\ Len(M) = Len(L) /\ \A i \in 1..Len(L) : i # k => M[i] = L[i]
  BY <1>2, <1>4
<1>. HIDE DEF x, M
<1>9. Received(c, k, n).list = M /\ Received(c, k, n).left = a.left
  BY <1>3, <1>4 DEF Crews
<1>10. ASSUME NEW v \in a.left
       PROVE  \E j \in 1..Len(L) : Behind(v, M[j])
  <2>1. v \in Subworker /\ v.start \in Nat
    BY <1>4 DEF Crews, Subworker
  <2>2. CASE v \in c.left
    <3>1. PICK j \in 1..Len(c.list) : Behind(v, c.list[j])
      BY <2>2 DEF Sure
    <3>2. PICK i \in 1..Len(L) : Behind(v, L[i])
      BY <1>1, <1>2, <2>1, <3>1, StaysBehind
    <3>3. CASE i = k
      <4>. DEFINE pos == Pos(L[k])
      <4>1. L[k].start < v.start /\ v.start <= pos
        BY <3>2, <3>3 DEF Behind
      <4>3. pos \in Nat
        BY <1>2, Elements DEF Good
      <4>5. Pos(x) = pos + more
        BY <1>7
      <4>. HIDE DEF pos
      <4>4. v.start <= pos + more
        BY <1>6, <2>1, <4>1, <4>3
      <4>6. x.start < v.start
        BY <1>7, <4>1
      <4>7. v.start <= Pos(x)
        BY <4>4, <4>5
      <4>2. Behind(v, x)
        BY <4>6, <4>7 DEF Behind
      <4>. QED
        BY <1>2, <1>8, <4>2
    <3>4. CASE i # k
      BY <1>8, <3>2, <3>4
    <3>. QED
      BY <3>3, <3>4
  <2>3. CASE v \notin c.left
    <3>1. Pos(L[k]) = Pos(w) /\ L[k].start = w.start
      BY <1>2 DEF Like, Pos
    <3>2. w.start < v.start /\ v.start <= Pos(L[k]) + more
      BY <1>2, <1>5, <2>1, <2>3, <3>1
    <3>3. Behind(v, x)
      BY <1>7, <3>1, <3>2 DEF Behind
    <3>. QED
      BY <1>2, <1>8, <3>3
  <2>. QED
    BY <2>2, <2>3
<1>. QED
  BY <1>8, <1>9, <1>10 DEF Sure

\* When a response is accepted, the only subworker shares its range.
LEMMA SharedIfAloneKeeps ==
  ASSUME NEW c, NEW is, NEW disc, Ranged(c, Size, is, disc), Sure(c),
         Len(c.list) = 1 => Calm(c.list)
  PROVE  Ranged(SharedIfAlone(c, TRUE), Size, is, disc) /\ Sure(SharedIfAlone(c, TRUE))
<1>1. SharedIfAlone(c, TRUE) = IF Len(c.list) = 1 THEN Split(c, Count) ELSE c
  BY DEF SharedIfAlone
<1>2. CASE Len(c.list) = 1
  <2>1. Shared(Split(c, Count), c) /\ Split(c, Count).left = c.left
    BY SplitKeeps, HttpAssumption DEF Ranged
  <2>2. Ranged(Split(c, Count), Size, is, disc)
    BY <1>2, <2>1, RangedShared
  <2>3. Sure(Split(c, Count))
    BY <2>1, SureShared DEF Ranged
  <2>. QED
    BY <1>1, <1>2, <2>2, <2>3
<1>. QED
  BY <1>1, <1>2

\* A response to one in the list is accepted.
LEMMA OpenedKeeps ==
  ASSUME NEW c, NEW is, NEW disc, Ranged(c, Size, is, disc), Sure(c), NEW k \in 1..Len(c.list),
         Len(c.list) = 1 \/ Calm(c.list)
  PROVE  Ranged(Opened(c, k, TRUE), Size, is, disc) /\ Sure(Opened(c, k, TRUE))
<1>. DEFINE d == Move(c, k, "streaming")
<1>1. /\ Ranged(d, Size, is, disc) /\ Len(d.list) = Len(c.list) /\ k \in 1..Len(d.list)
      /\ d.list[k].at = "streaming" /\ Sure(d)
  BY RangedMove DEF Places
<1>. HIDE DEF d
<1>2. Opened(c, k, TRUE) = SharedIfAlone(d, TRUE)
  BY DEF Opened, d
<1>3. Len(d.list) = 1 => Calm(d.list)
  BY <1>1 DEF Calm
<1>. QED
  BY <1>1, <1>2, <1>3, SharedIfAloneKeeps

-----------------------------------------------------------------------------
(* What the steps of a run have in common.                                 *)

LEMMA RunsOn ==
  ASSUME Inv, phase' = "running", UNCHANGED <<server, kept, misled>>,
         trouble' \in 0..MaxTrouble, canRange' \in BOOLEAN, isResuming' \in BOOLEAN,
         known' \in Nat, record' \in Seq(Int \X Int \X Int), disk' \subseteq Blocks,
         canRange' => known' # Unknown,
         Recorded(record', misled, disk'),
         canRange' => Ranged(crew', known', misled, disk') /\ Sure(crew'),
         ~canRange' => Single(crew', known', record', disk')
  PROVE  Inv'
<1>1. crew' \in Crews
  BY DEF Ranged, Single, Good
<1>2. TypeOK'
  BY <1>1 DEF Inv, TypeOK
<1>3. CrewInv' /\ Recorded(record, misled, disk)' /\ SizeInv'
  BY DEF Inv, CrewInv, SizeInv, Running, Sure
<1>4. IdleInv' /\ DoneInv' /\ DoneIsWholeUnlessMisled'
  BY DEF IdleInv, DoneInv, DoneIsWholeUnlessMisled, DoneIsWhole
<1>. QED
  BY <1>2, <1>3, <1>4 DEF Inv

\* The same, for a step of a run.
LEMMA StillRunning ==
  ASSUME Inv, Running, UNCHANGED <<server, phase, kept, misled>>,
         trouble' \in 0..MaxTrouble, canRange' \in BOOLEAN, isResuming' \in BOOLEAN,
         known' \in Nat, record' \in Seq(Int \X Int \X Int), disk' \subseteq Blocks,
         canRange' => known' # Unknown,
         Recorded(record', misled, disk'),
         canRange' => Ranged(crew', known', misled, disk') /\ Sure(crew'),
         ~canRange' => Single(crew', known', record', disk')
  PROVE  Inv'
<1>1. phase' = "running"
  BY DEF Running
<1>. QED
  BY <1>1, RunsOn

\* A record stays true when the disk has more.
LEMMA RecordedGrows ==
  ASSUME NEW ranges, NEW is, NEW d, NEW e, Recorded(ranges, is, d), d \subseteq e
  PROVE  Recorded(ranges, is, e)
BY DEF Recorded, OnDisk

\* An empty record is true of every disk.
LEMMA NothingRecorded ==
  ASSUME NEW is, NEW d
  PROVE  Recorded(<<>>, is, d) /\ <<>> \in Seq(Int \X Int \X Int)
BY DEF Recorded

\* _buildSubworkers: one range, or one stream.
LEMMA BuiltKeeps ==
  ASSUME NEW size \in Nat, NEW is, NEW d
  PROVE  /\ size # 0 => Ranged(Built(TRUE, size), size, is, d) /\ Sure(Built(TRUE, size))
         /\ Single(Built(FALSE, size), size, <<>>, d)
<1>1. ASSUME size # 0
      PROVE  Ranged(Built(TRUE, size), size, is, d) /\ Sure(Built(TRUE, size))
  <2>. DEFINE w == NewSubworker(0, size - 1, 0)
              L == <<w>>
              c == Built(TRUE, size)
  <2>1. /\ w \in Subworker /\ w.start = 0 /\ w.end = size - 1 /\ w.got = 0 /\ w.at = "ready"
        /\ size - 1 \in Nat
    BY <1>1 DEF NewSubworker, Subworker, Places
  <2>2. c = [list |-> L, left |-> {}]
    BY DEF Built
  <2>. HIDE DEF w, c
  <2>3. L \in Seq(Subworker) /\ Len(L) = 1 /\ L[1] = w /\ L # <<>>
    BY <2>1
  <2>. HIDE DEF L
  <2>4. Fine(w) /\ Pos(w) = 0
    BY <2>1 DEF Fine, Pos
  <2>5. GoodList(L)
    BY <2>1, <2>3, <2>4 DEF GoodList
  <2>6. Good(c) /\ c.list = L
    BY <2>2, <2>3, <2>5 DEF Good, Crews
  <2>7. Lone(L) /\ OnDisk(L, d) /\ ~Streams(L) /\ ~Touched(L) /\ LastEnd(L) = size - 1
    BY <2>1, <2>3, <2>4 DEF Lone, OnDisk, Streams, Touched, LastEnd
  <2>8. c.left = {}
    BY <2>2
  <2>. QED
    BY <2>6, <2>7, <2>8 DEF Ranged, Sure, c
<1>2. Single(Built(FALSE, size), size, <<>>, d)
  <2>. DEFINE w == NewSubworker(0, Whole, 0)
              L == <<w>>
              c == Built(FALSE, size)
  <2>1. /\ w \in Subworker /\ w.start = 0 /\ w.end = Whole /\ w.got = 0 /\ w.at = "ready"
    BY DEF NewSubworker, Subworker, Places
  <2>2. c = [list |-> L, left |-> {}]
    BY DEF Built
  <2>. HIDE DEF w, c
  <2>3. L \in Seq(Subworker) /\ Len(L) = 1 /\ L[1] = w
    BY <2>1
  <2>. HIDE DEF L
  <2>4. c \in Crews /\ c.list = L /\ c.left = {}
    BY <2>2, <2>3 DEF Crews
  <2>5. OnDisk(L, d)
    BY <2>1, <2>3 DEF OnDisk, Pos
  <2>6. Whole # Endless /\ 0 <= Size
    BY HttpAssumption DEF Whole, Endless
  <2>. QED
    BY <2>1, <2>3, <2>4, <2>5, <2>6 DEF Single, c
<1>. QED
  BY <1>1, <1>2

\* A run starts over.
LEMMA StartsOverKeeps ==
  ASSUME Inv, Running, StartsOver, known' = known, UNCHANGED <<server, phase, kept, misled>>,
         trouble' \in 0..MaxTrouble
  PROVE  Inv'
<1>1. /\ canRange' = (canRange /\ isResuming) /\ isResuming' = FALSE
      /\ crew' = Built(canRange', known') /\ disk' = {} /\ record' = <<>>
  BY DEF StartsOver
<1>2. canRange \in BOOLEAN /\ isResuming \in BOOLEAN /\ known \in Nat /\ (canRange => known # 0)
  BY DEF Inv, TypeOK, SizeInv, Unknown
<1>3. canRange' \in BOOLEAN /\ known' \in Nat /\ (canRange' => known' # 0)
  BY <1>1, <1>2
<1>4. canRange' => Ranged(crew', known', misled, disk') /\ Sure(crew')
  <2>. SUFFICES ASSUME canRange' PROVE Ranged(crew', known', misled, disk') /\ Sure(crew')
    OBVIOUS
  <2>1. crew' = Built(TRUE, known')
    BY <1>1, <1>3
  <2>. QED
    BY <1>3, <2>1, BuiltKeeps
<1>5. ~canRange' => Single(crew', known', record', disk')
  <2>. SUFFICES ASSUME ~canRange' PROVE Single(crew', known', record', disk')
    OBVIOUS
  <2>1. crew' = Built(FALSE, known')
    BY <1>1, <1>3
  <2>. QED
    BY <1>1, <1>3, <2>1, BuiltKeeps
<1>6. Recorded(record', misled, disk') /\ record' \in Seq(Int \X Int \X Int)
  BY <1>1, NothingRecorded
<1>. QED
  BY <1>1, <1>3, <1>4, <1>5, <1>6, StillRunning DEF Unknown

\* A step of the subworkers with ranges.
LEMMA RangedStep ==
  ASSUME Inv, Running, canRange,
         UNCHANGED <<server, phase, canRange, known, isResuming, record, kept, misled>>,
         trouble' \in 0..MaxTrouble, disk \subseteq disk', disk' \subseteq Blocks,
         Ranged(crew', known, misled, disk'), Sure(crew')
  PROVE  Inv'
<1>1. /\ isResuming \in BOOLEAN /\ known \in Nat /\ record \in Seq(Int \X Int \X Int)
      /\ known # Unknown /\ Recorded(record, misled, disk)
  BY DEF Inv, TypeOK, SizeInv
<1>2. Recorded(record', misled, disk')
  BY <1>1, RecordedGrows
<1>. QED
  BY <1>1, <1>2, StillRunning

\* A step of the only subworker, with its stream of the whole file.
LEMMA SingleStep ==
  ASSUME Inv, Running, ~canRange,
         UNCHANGED <<server, phase, canRange, known, isResuming, record, kept, misled>>,
         trouble' \in 0..MaxTrouble, disk' \subseteq Blocks,
         record = <<>> \/ disk \subseteq disk',
         Single(crew', known, record, disk')
  PROVE  Inv'
<1>1. /\ isResuming \in BOOLEAN /\ known \in Nat /\ record \in Seq(Int \X Int \X Int)
      /\ Recorded(record, misled, disk) /\ canRange \in BOOLEAN
  BY DEF Inv, TypeOK, SizeInv
<1>2. Recorded(record', misled, disk')
  BY <1>1, RecordedGrows, NothingRecorded
<1>. QED
  BY <1>1, <1>2, StillRunning

\* What the invariant says while ranges are used.
LEMMA RangedRun ==
  ASSUME Inv, Running, canRange
  PROVE  /\ Ranged(crew, known, misled, disk) /\ Good(crew) /\ GoodList(crew.list)
         /\ Sure(crew) /\ crew \in Crews /\ DOMAIN crew.list = 1..Len(crew.list)
         /\ \A k \in 1..Len(crew.list) : IsRanged(crew.list[k])
<1>1. /\ Ranged(crew, known, misled, disk) /\ Good(crew) /\ GoodList(crew.list)
      /\ Sure(crew) /\ crew \in Crews
  BY DEF Inv, CrewInv, Ranged, Good
<1>2. /\ DOMAIN crew.list = 1..Len(crew.list)
      /\ \A k \in 1..Len(crew.list) : crew.list[k].end \in Nat
  BY <1>1, Elements
<1>. QED
  BY <1>1, <1>2 DEF IsRanged, Whole

\* What the invariant says of a stream of the whole file.
LEMMA SingleRun ==
  ASSUME Inv, Running, ~canRange
  PROVE  LET w == crew.list[1]
         IN /\ Single(crew, known, record, disk) /\ crew \in Crews /\ Len(crew.list) = 1
            /\ DOMAIN crew.list = {1} /\ w \in Subworker
            /\ w.start = 0 /\ w.got \in Nat /\ w.got <= Size /\ Pos(w) = w.got
            /\ w.end \in {Whole, Endless} /\ Whole # Endless /\ (IsRanged(w) <=> w.end = Endless)
            /\ w.at # "confirming" /\ (w.at = "over" => w.got = Size)
            /\ w.end = Endless => w.at \in {"streaming", "over"} /\ known = Unknown
            /\ w.end = Whole => record = <<>>
<1>1. Single(crew, known, record, disk)
  BY DEF Inv, CrewInv
<1>2. crew \in Crews /\ Len(crew.list) = 1
  BY <1>1 DEF Single
<1>3. DOMAIN crew.list = {1} /\ crew.list[1] \in Subworker
  BY <1>2 DEF Crews
<1>4. crew.list[1].got \in Nat
  BY <1>3 DEF Subworker
<1>5. Whole # Endless
  BY HttpAssumption DEF Whole, Endless
<1>. QED
  BY <1>1, <1>2, <1>3, <1>4, <1>5 DEF Single, IsRanged, Pos

\* The only subworker changes.
LEMMA SingleChanged ==
  ASSUME Inv, Running, ~canRange, NEW e, NEW x \in Subworker, Changed(e, crew, 1, x), NEW d,
         x.start = 0, x.end = crew.list[1].end, x.got <= Size, x.at # "confirming",
         x.at = "over" => x.got = Size,
         x.end = Endless => x.at \in {"streaming", "over"},
         0 .. x.got - 1 \subseteq d
  PROVE  Single(e, known, record, d)
<1>1. /\ Single(crew, known, record, disk) /\ Len(crew.list) = 1
      /\ crew.list[1].end \in {Whole, Endless}
      /\ crew.list[1].end = Endless => known = Unknown
      /\ crew.list[1].end = Whole => record = <<>>
  BY SingleRun
<1>2. e \in Crews /\ e.left = crew.left /\ Len(e.list) = 1 /\ e.list[1] = x
  BY <1>1 DEF Changed
<1>3. e.left = {}
  BY <1>1, <1>2 DEF Single
<1>4. x.got \in Nat
  BY DEF Subworker
<1>5. Pos(x) = x.got
  BY <1>4 DEF Pos
<1>6. OnDisk(e.list, d)
  BY <1>2, <1>5 DEF OnDisk
<1>. QED
  BY <1>1, <1>2, <1>3, <1>6 DEF Single

\* The k-th is replaced.
LEMMA Replaced ==
  ASSUME NEW c \in Crews, NEW k \in 1..Len(c.list), NEW x \in Subworker
  PROVE  Changed([c EXCEPT !.list[k] = x], c, k, x)
<1>. DEFINE L == [c.list EXCEPT ![k] = x]
            d == [c EXCEPT !.list[k] = x]
<1>1. c.list \in Seq(Subworker) /\ c.left \in SUBSET Subworker
  BY DEF Crews
<1>2. L \in Seq(Subworker) /\ Len(L) = Len(c.list) /\ L[k] = x
      /\ \A i \in 1..Len(c.list) : i # k => L[i] = c.list[i]
  BY <1>1
<1>3. d = [list |-> L, left |-> c.left]
  BY DEF Crews
<1>. HIDE DEF L, d
<1>. QED
  BY <1>1, <1>2, <1>3 DEF Changed, Crews, d

-----------------------------------------------------------------------------
(* Each step keeps the invariant.                                          *)

LEMMA BeginKeeps ==
  ASSUME Inv, NEW k \in 1..MaxList, Begin(k)
  PROVE  Inv'
<1>1. /\ Running /\ k \in DOMAIN crew.list /\ crew.list[k].at = "ready"
      /\ UNCHANGED <<server, phase, canRange, known, isResuming, record, kept, misled>>
      /\ trouble' = trouble
  BY DEF Begin, At, Fixed, NoTrouble
<1>2. trouble \in 0..MaxTrouble /\ disk \subseteq Blocks
  BY DEF Inv, TypeOK
<1>3. CASE canRange
  <2>1. /\ k \in 1..Len(crew.list) /\ IsRanged(crew.list[k])
        /\ Ranged(crew, known, misled, disk) /\ Sure(crew)
    BY <1>1, <1>3, RangedRun
  <2>2. disk' = disk /\ crew' = Requested(Adjoined(crew, k), k, known)
    BY <2>1 DEF Begin, Loops
  <2>3. Ranged(crew', known, misled, disk') /\ Sure(crew')
    BY <1>1, <2>1, <2>2, LoopsKeep
  <2>. QED
    BY <1>1, <1>2, <1>3, <2>2, <2>3, RangedStep
<1>4. CASE ~canRange
  <2>. DEFINE w == crew.list[1]
              m == Move(crew, 1, "asked")
              x == [m.list[1] EXCEPT !.got = 0]
  <2>1. /\ k = 1 /\ crew \in Crews /\ Len(crew.list) = 1 /\ w \in Subworker /\ w.start = 0
        /\ w.end = Whole /\ ~IsRanged(w) /\ record = <<>> /\ Whole # Endless
    BY <1>1, <1>4, SingleRun
  <2>2. disk' = {} /\ crew' = [m EXCEPT !.list[1] = x]
    BY <2>1 DEF Begin
  <2>3. PICK y \in Subworker :
           /\ Changed(m, crew, 1, y)
           /\ y.start = w.start /\ y.end = w.end /\ y.got = w.got /\ y.at = "asked"
    BY <2>1, Moved DEF Places
  <2>. HIDE DEF m
  <2>4. m \in Crews /\ Len(m.list) = 1 /\ m.list[1] = y /\ m.left = crew.left
    BY <2>1, <2>3 DEF Changed
  <2>5. x \in Subworker /\ x.start = 0 /\ x.end = w.end /\ x.got = 0 /\ x.at = "asked"
    BY <2>1, <2>3, <2>4 DEF Subworker
  <2>. HIDE DEF x
  <2>8. Changed(crew', m, 1, x)
    BY <2>2, <2>4, <2>5, Replaced
  <2>9. Changed(crew', crew, 1, x)
    BY <2>1, <2>4, <2>8 DEF Changed
  <2>6. x.got <= Size /\ 0 .. x.got - 1 \subseteq {}
    BY <2>5, HttpAssumption
  <2>7. Single(crew', known, record, disk')
    BY <1>1, <1>4, <2>1, <2>2, <2>5, <2>6, <2>9, SingleChanged
  <2>. QED
    BY <1>1, <1>2, <1>4, <2>1, <2>2, <2>7, SingleStep
<1>. QED
  BY <1>3, <1>4

\* The confirmed size becomes the end of the only range, or the range loses its end.
LEMMA ConfirmKeeps ==
  ASSUME Inv, NEW k \in 1..MaxList, Confirm(k)
  PROVE  Inv'
<1>1. /\ Running /\ k \in DOMAIN crew.list /\ crew.list[k].at = "confirming"
      /\ UNCHANGED <<server, phase, isResuming, record, kept, misled>> /\ trouble' = trouble
  BY DEF Confirm, At, Fixed, NoTrouble
<1>2. canRange
  <2>. SUFFICES ASSUME ~canRange PROVE FALSE
    OBVIOUS
  <2>. QED
    BY <1>1, SingleRun
<1>3. /\ trouble \in 0..MaxTrouble /\ isResuming \in BOOLEAN /\ disk \subseteq Blocks
      /\ record \in Seq(Int \X Int \X Int) /\ Recorded(record, misled, disk)
      /\ server \in Server
  BY HttpAssumption DEF Inv, TypeOK
<1>4. /\ Ranged(crew, known, misled, disk) /\ GoodList(crew.list) /\ crew \in Crews
      /\ Sure(crew) /\ k \in 1..Len(crew.list)
  BY <1>1, <1>2, RangedRun
<1>5. Len(crew.list) = 1 /\ Pos(crew.list[k]) = 0
  BY <1>1, <1>4 DEF Ranged, Lone
<1>. DEFINE w == crew.list[1]
            end == IF server.length THEN Size - 1 ELSE Endless
            x == [w EXCEPT !.end = end]
            e == [crew EXCEPT !.list[1] = x]
<1>6. k = 1 /\ Pos(w) = 0 /\ w.at = "confirming"
  BY <1>1, <1>4, <1>5
<1>7. w \in Subworker /\ w.start = 0 /\ w.got = 0
  BY <1>4, <1>5, <1>6, Elements
<1>8. end \in Nat /\ Endless \in Nat /\ Endless >= Size /\ Size - 1 \in Nat
  BY HttpAssumption DEF Endless
<1>9. /\ x \in Subworker /\ x.start = 0 /\ x.got = 0 /\ x.end = end /\ x.at = "confirming"
  BY <1>6, <1>7, <1>8 DEF Subworker
<1>10. /\ crew' = Opened(e, 1, canRange') /\ disk' = disk
       /\ known' = (IF server.length THEN Size ELSE Unknown)
       /\ canRange' = server.length
  <2>1. server.length \in BOOLEAN
    BY <1>3 DEF Server
  <2>2. /\ known' = (IF server.length THEN Size ELSE Unknown)
        /\ canRange' = (canRange /\ server.length)
        /\ disk' = (IF server.length THEN disk \cap Blocks ELSE disk)
    BY DEF Confirm
  <2>3. crew' = Opened([crew EXCEPT !.list[k].end = end], k, canRange')
    BY DEF Confirm
  <2>4. disk' = disk
    BY <1>3, <2>2
  <2>5. crew' = Opened([crew EXCEPT !.list[1].end = end], 1, canRange')
    BY <1>6, <2>3, Zenon
  <2>6. canRange' = server.length
    BY <1>2, <2>1, <2>2
  <2>. QED
    BY <2>2, <2>4, <2>5, <2>6
<1>. HIDE DEF x
<1>11. Changed(e, crew, 1, x)
  BY <1>4, <1>5, <1>9, Replaced
<1>. HIDE DEF e, end
<1>12. e \in Crews /\ e.left = crew.left /\ Len(e.list) = 1 /\ e.list[1] = x
  BY <1>5, <1>11 DEF Changed
<1>13. crew.left = {}
  <2>. SUFFICES ASSUME NEW v \in crew.left PROVE FALSE
    OBVIOUS
  <2>1. PICK j \in 1..Len(crew.list) : Behind(v, crew.list[j])
    BY <1>4 DEF Sure
  <2>2. j = 1 /\ v.start \in Nat
    BY <1>4, <1>5, <2>1 DEF Crews, Subworker
  <2>. QED
    BY <1>6, <1>7, <2>1, <2>2 DEF Behind
<1>14. Pos(x) = 0
  BY <1>9 DEF Pos
<1>15. OnDisk(e.list, disk)
  BY <1>9, <1>12, <1>14 DEF OnDisk
<1>16. CASE server.length
  <2>1. end = Size - 1
    BY <1>16 DEF end
  <2>2. Fine(x)
    BY <1>8, <1>9, <1>14, <2>1 DEF Fine
  <2>3. e.list \in Seq(Subworker) /\ e.list # <<>>
    BY <1>12 DEF Crews
  <2>4. GoodList(e.list)
    BY <1>9, <1>12, <2>2, <2>3 DEF GoodList
  <2>5. Good(e)
    BY <1>12, <1>13, <2>4 DEF Good
  <2>6. LastEnd(e.list) = Size - 1 /\ ~Touched(e.list) /\ ~Streams(e.list)
    BY <1>9, <1>12, <2>1 DEF LastEnd, Touched, Streams
  <2>7. Lone(e.list)
    BY <1>12, <1>14 DEF Lone
  <2>8. Ranged(e, Size, misled, disk)
    BY <1>15, <2>5, <2>6, <2>7 DEF Ranged
  <2>9. Ranged(Opened(e, 1, TRUE), Size, misled, disk) /\ Sure(Opened(e, 1, TRUE))
    <3>1. 1 \in 1..Len(e.list) /\ Len(e.list) = 1 /\ Sure(e)
      BY <1>12, <1>13 DEF Sure
    <3>. QED
      BY <2>8, <3>1, OpenedKeeps
  <2>10. canRange' = TRUE /\ known' = Size /\ Size # Unknown /\ Size \in Nat
    BY <1>10, <1>16, HttpAssumption DEF Unknown
  <2>. QED
    BY <1>1, <1>3, <1>10, <2>9, <2>10, StillRunning
<1>17. CASE ~server.length
  <2>1. canRange' = FALSE /\ known' = Unknown /\ Unknown \in Nat
    BY <1>3, <1>10, <1>17 DEF Server, Unknown
  <2>2. crew' = Move(e, 1, "streaming")
    BY <1>10, <2>1 DEF Opened, SharedIfAlone
  <2>3. PICK y \in Subworker :
           /\ Changed(crew', e, 1, y)
           /\ y.start = x.start /\ y.end = x.end /\ y.got = x.got /\ y.at = "streaming"
    BY <1>12, <2>2, Moved DEF Places
  <2>4. /\ crew' \in Crews /\ crew'.left = crew.left /\ Len(crew'.list) = 1 /\ crew'.list[1] = y
    BY <1>12, <2>3 DEF Changed
  <2>5. y.end = Endless /\ Endless # Whole /\ y.got <= Size
    BY <1>8, <1>9, <1>17, <2>3, HttpAssumption DEF end, Whole
  <2>6. OnDisk(crew'.list, disk')
    BY <1>9, <2>3, <2>4 DEF OnDisk, Pos
  <2>7. Single(crew', known', record', disk')
    BY <1>9, <1>13, <2>1, <2>3, <2>4, <2>5, <2>6 DEF Single
  <2>. QED
    BY <1>1, <1>3, <1>10, <2>1, <2>7, StillRunning
<1>. QED
  BY <1>16, <1>17

\* A response is accepted.
LEMMA AcceptKeeps ==
  ASSUME Inv, NEW k \in 1..MaxList, Accept(k)
  PROVE  Inv'
<1>1. /\ Running /\ k \in DOMAIN crew.list /\ crew.list[k].at = "asked"
      /\ UNCHANGED <<server, phase, canRange, known, isResuming, disk, record, kept, misled>>
      /\ trouble' = trouble
  BY DEF Accept, At, Fixed, NoTrouble
<1>2. trouble \in 0..MaxTrouble /\ disk \subseteq Blocks
  BY DEF Inv, TypeOK
<1>3. CASE canRange
  <2>1. /\ k \in 1..Len(crew.list) /\ IsRanged(crew.list[k])
        /\ Ranged(crew, known, misled, disk) /\ Sure(crew)
    BY <1>1, <1>3, RangedRun
  <2>2. known = Size /\ crew' = Opened(crew, k, TRUE)
    BY <1>3, <2>1 DEF Accept, RangeMatches
  <2>3. Len(crew.list) = 1 \/ Calm(crew.list)
    BY <2>1 DEF Ranged, Lone, Calm
  <2>4. Ranged(crew', known, misled, disk') /\ Sure(crew')
    BY <1>1, <2>1, <2>2, <2>3, OpenedKeeps
  <2>. QED
    BY <1>1, <1>2, <1>3, <2>4, RangedStep
<1>4. CASE ~canRange
  <2>. DEFINE w == crew.list[1]
  <2>1. /\ k = 1 /\ crew \in Crews /\ Len(crew.list) = 1 /\ w.start = 0 /\ w.got <= Size
        /\ w.end = Whole /\ ~IsRanged(w) /\ Whole # Endless /\ Pos(w) = w.got
        /\ OnDisk(crew.list, disk)
    BY <1>1, <1>4, SingleRun DEF Single
  <2>2. crew' = Move(crew, 1, "streaming")
    BY <2>1 DEF Accept
  <2>3. PICK x \in Subworker :
           /\ Changed(crew', crew, 1, x)
           /\ x.start = w.start /\ x.end = w.end /\ x.got = w.got /\ x.at = "streaming"
    BY <2>1, <2>2, Moved DEF Places
  <2>4. 0 .. x.got - 1 \subseteq disk'
    BY <1>1, <2>1, <2>3 DEF OnDisk
  <2>5. Single(crew', known, record, disk')
    BY <1>1, <1>4, <2>1, <2>3, <2>4, SingleChanged
  <2>. QED
    BY <1>1, <1>2, <1>4, <2>5, SingleStep
<1>. QED
  BY <1>3, <1>4

\* A response is no range.
LEMMA MismatchKeeps ==
  ASSUME Inv, NEW k \in 1..MaxList, Mismatch(k)
  PROVE  Inv'
<1>1. /\ Running /\ known' = known /\ StartsOver
      /\ UNCHANGED <<server, phase, kept, misled>> /\ trouble' = trouble
  BY DEF Mismatch, At, Fixed, NoTrouble
<1>2. trouble \in 0..MaxTrouble
  BY DEF Inv, TypeOK
<1>. QED
  BY <1>1, <1>2, StartsOverKeeps

\* A chunk arrives, and the range may grow or be over.
LEMMA ChunkKeeps ==
  ASSUME Inv, NEW k \in 1..MaxList, NEW n \in 1..Size, Chunk(k, n)
  PROVE  Inv'
<1>1. /\ Running /\ k \in DOMAIN crew.list /\ crew.list[k].at = "streaming"
      /\ Pos(crew.list[k]) + n <= Size
      /\ UNCHANGED <<server, phase, canRange, known, isResuming, record, kept, misled>>
      /\ trouble' = trouble
  BY DEF Chunk, At, Fixed, NoTrouble
<1>2. trouble \in 0..MaxTrouble /\ disk \subseteq Blocks /\ n \in Nat \ {0} /\ Size \in Nat
  BY HttpAssumption DEF Inv, TypeOK
<1>. DEFINE w == crew.list[k]
            c == IF IsRanged(w) THEN Received(crew, k, n)
                 ELSE [crew EXCEPT !.list[k].got = @ + n]
<1>3. /\ disk' = disk \cup Pos(w) .. Pos(c.list[k]) - 1
      /\ IF IsRanged(w) /\ Rest(c.list[k]) <= 0 THEN Loops(c, k) ELSE crew' = c
  BY DEF Chunk
<1>4. CASE canRange
  <2>1. /\ k \in 1..Len(crew.list) /\ IsRanged(w) /\ Ranged(crew, known, misled, disk)
        /\ Pos(w) \in Nat
    BY <1>1, <1>4, RangedRun, Elements
  <2>2. c = Received(crew, k, n)
    BY <2>1
  <2>. HIDE DEF c
  <2>3. /\ Ranged(c, known, misled, disk') /\ k \in 1..Len(c.list)
        /\ c.list[k].at = "streaming" /\ Pos(c.list[k]) <= Pos(w) + n /\ Sure(c)
    <3>. DEFINE both == disk \cup Pos(w) .. Pos(c.list[k]) - 1
    <3>1. /\ Ranged(c, known, misled, both) /\ k \in 1..Len(c.list)
          /\ c.list[k].at = "streaming" /\ Pos(c.list[k]) <= Pos(w) + n
      <4>1. n \in Nat \ {0}
        BY <1>2
      <4>. QED
        BY <1>1, <2>1, <2>2, <4>1, ReceivedKeeps, SMTT(30)
    <3>3. Sure(c)
      <4>1. /\ n \in Nat \ {0} /\ k \in 1..Len(crew.list) /\ crew.list[k].at = "streaming"
            /\ Good(crew) /\ Sure(crew)
        BY <1>1, <1>2, <1>4, <2>1, RangedRun
      <4>. QED
        BY <2>2, <4>1, ReceivedSure
    <3>2. disk' = both
      BY <1>3
    <3>. QED
      BY <3>1, <3>2, <3>3
  <2>4. Ranged(crew', known, misled, disk') /\ Sure(crew')
    <3>1. CASE Rest(c.list[k]) <= 0
      <4>1. crew' = Requested(Adjoined(c, k), k, known)
        BY <1>3, <2>1, <3>1 DEF Loops
      <4>. QED
        BY <2>3, <4>1, LoopsKeep
    <3>2. CASE ~(Rest(c.list[k]) <= 0)
      BY <1>3, <2>3, <3>2
    <3>. QED
      BY <3>1, <3>2
  <2>5. disk \subseteq disk' /\ disk' \subseteq Blocks
    <3>1. Pos(c.list[k]) \in Nat
      BY <2>3, Elements DEF Ranged, Good
    <3>2. Pos(w) .. Pos(c.list[k]) - 1 \subseteq Blocks
      BY <1>1, <1>2, <2>1, <2>3, <3>1 DEF Blocks
    <3>. QED
      BY <1>2, <1>3, <3>2
  <2>. QED
    BY <1>1, <1>2, <1>4, <2>4, <2>5, RangedStep
<1>5. CASE ~canRange
  <2>1. /\ k = 1 /\ Single(crew, known, record, disk) /\ crew \in Crews /\ Len(crew.list) = 1
        /\ w \in Subworker /\ w.start = 0 /\ w.got \in Nat /\ w.got <= Size /\ Pos(w) = w.got
        /\ w.end \in {Whole, Endless} /\ (IsRanged(w) <=> w.end = Endless)
        /\ w.end = Endless => known = Unknown
        /\ w.end = Whole => record = <<>>
    BY <1>1, <1>5, SingleRun
  <2>2. w.got + n <= Size
    BY <1>1, <2>1
  <2>. DEFINE x == [w EXCEPT !.got = @ + n]
              e == [crew EXCEPT !.list[k] = x]
  <2>3. /\ x \in Subworker /\ x.start = 0 /\ x.end = w.end /\ x.at = "streaming"
        /\ x.got = w.got + n /\ Pos(x) = w.got + n
    BY <1>1, <1>2, <2>1, GotMore
  <2>4. c = e
    <3>1. CASE w.end = Whole
      BY <2>1, <3>1, HttpAssumption DEF IsRanged
    <3>2. CASE w.end = Endless
      <4>. DEFINE d == Extended(crew, k, Pos(w) + n)
      <4>1. Good(crew)
        <5>1. Fine(w)
          BY <1>1, <1>2, <2>1, <3>2, HttpAssumption DEF Fine, Endless
        <5>2. crew.list \in Seq(Subworker) /\ crew.list # <<>>
          BY <2>1 DEF Crews
        <5>3. GoodList(crew.list)
          BY <1>1, <2>1, <5>1, <5>2 DEF GoodList
        <5>. QED
          BY <2>1, <5>3 DEF Good, Single
      <4>2. d.list = crew.list /\ d.left = crew.left /\ d \in Crews
        <5>1. k \in 1..Len(crew.list) /\ Pos(w) + n \in Int /\ w.at # "over"
          BY <1>1, <1>2, <2>1
        <5>. QED
          BY <2>1, <4>1, <5>1, ExtendedKeeps DEF Shared, Good
      <4>3. d = crew
        BY <2>1, <4>2 DEF Crews
      <4>4. c = [d EXCEPT !.list[k].got = @ + SmallerOf(n, Rest(d.list[k]))]
        BY <2>1, <3>2 DEF Received
      <4>5. c = [crew EXCEPT !.list[k].got = @ + SmallerOf(n, Rest(w))]
        BY <4>3, <4>4, Zenon
      <4>6. SmallerOf(n, Rest(w)) = n
        BY <1>2, <2>1, <2>2, <3>2, HttpAssumption DEF SmallerOf, Rest, Endless
      <4>. QED
        BY <4>5, <4>6, Zenon
    <3>. QED
      BY <2>1, <3>1, <3>2
  <2>. HIDE DEF c, x
  <2>5. Changed(e, crew, 1, x)
    BY <2>1, <2>3, Replaced
  <2>. HIDE DEF e
  <2>6. e.list[k] = x
    BY <2>1, <2>5 DEF Changed
  <2>7. disk' = disk \cup w.got .. ((w.got + n) - 1)
    <3>1. Pos(c.list[k]) = w.got + n /\ Pos(w) = w.got
      BY <2>1, <2>3, <2>4, <2>6
    <3>. QED
      BY <1>3, <3>1, Zenon
  <2>8. crew' = e
    <3>1. CASE IsRanged(w)
      <4>1. Rest(c.list[k]) = Endless - (w.got + n) + 1
        BY <2>1, <2>3, <2>4, <2>6, <3>1 DEF Rest
      <4>2. ~(Rest(c.list[k]) <= 0)
        BY <1>2, <2>1, <2>2, <4>1, HttpAssumption DEF Endless
      <4>. QED
        BY <1>3, <2>4, <4>2
    <3>2. CASE ~IsRanged(w)
      BY <1>3, <2>4, <3>2
    <3>. QED
      BY <3>1, <3>2
  <2>9. 0 .. w.got - 1 \subseteq disk
    BY <2>1 DEF Single, OnDisk
  <2>10. 0 .. x.got - 1 \subseteq disk' /\ disk' \subseteq Blocks /\ disk \subseteq disk'
    <3>. DEFINE g == w.got
    <3>1. g \in Nat /\ g + n <= Size /\ x.got = g + n /\ 0 .. g - 1 \subseteq disk
          /\ disk' = disk \cup g .. ((g + n) - 1)
      BY <2>1, <2>2, <2>3, <2>7, <2>9
    <3>. HIDE DEF g
    <3>2. 0 .. (g + n) - 1 \subseteq (0 .. g - 1) \cup (g .. ((g + n) - 1))
      BY <1>2, <3>1
    <3>3. g .. ((g + n) - 1) \subseteq 0 .. Size - 1
      BY <1>2, <3>1
    <3>4. 0 .. x.got - 1 = 0 .. (g + n) - 1
      BY <3>1
    <3>5. 0 .. (g + n) - 1 \subseteq disk'
      BY <3>1, <3>2
    <3>. QED
      BY <1>2, <3>1, <3>3, <3>4, <3>5 DEF Blocks
  <2>11. Single(e, known, record, disk')
    BY <1>1, <1>5, <2>1, <2>2, <2>3, <2>5, <2>10, SingleChanged
  <2>. QED
    BY <1>1, <1>2, <1>5, <2>8, <2>10, <2>11, SingleStep
<1>. QED
  BY <1>4, <1>5

\* The server has sent all there is.
LEMMA StreamEndsKeeps ==
  ASSUME Inv, NEW k \in 1..MaxList, StreamEnds(k)
  PROVE  Inv'
<1>1. /\ Running /\ k \in DOMAIN crew.list /\ crew.list[k].at = "streaming"
      /\ Pos(crew.list[k]) = Size
      /\ UNCHANGED <<server, phase, canRange, known, isResuming, disk, record, kept, misled>>
      /\ trouble' = trouble
  BY DEF StreamEnds, At, Fixed, NoTrouble
<1>2. trouble \in 0..MaxTrouble /\ disk \subseteq Blocks /\ Size \in Nat
  BY HttpAssumption DEF Inv, TypeOK
<1>3. CASE canRange
  <2>1. k \in 1..Len(crew.list) /\ Ranged(crew, known, misled, disk) /\ Sure(crew)
    BY <1>1, <1>3, RangedRun
  <2>2. crew' = Requested(Adjoined(crew, k), k, known)
    BY <1>3 DEF StreamEnds, Loops
  <2>3. Ranged(crew', known, misled, disk') /\ Sure(crew')
    BY <1>1, <2>1, <2>2, LoopsKeep
  <2>. QED
    BY <1>1, <1>2, <1>3, <2>3, RangedStep
<1>4. CASE ~canRange
  <2>. DEFINE w == crew.list[1]
  <2>1. /\ k = 1 /\ crew \in Crews /\ Len(crew.list) = 1 /\ w.start = 0 /\ w.got = Size
        /\ OnDisk(crew.list, disk) /\ Pos(w) = w.got
    BY <1>1, <1>4, SingleRun DEF Single
  <2>2. crew' = Move(crew, 1, "over")
    BY <1>4, <2>1 DEF StreamEnds
  <2>3. PICK x \in Subworker :
           /\ Changed(crew', crew, 1, x)
           /\ x.start = w.start /\ x.end = w.end /\ x.got = w.got /\ x.at = "over"
    BY <2>1, <2>2, Moved DEF Places
  <2>4. 0 .. x.got - 1 \subseteq disk'
    BY <1>1, <2>1, <2>3 DEF OnDisk
  <2>5. Single(crew', known, record, disk')
    BY <1>1, <1>2, <1>4, <2>1, <2>3, <2>4, SingleChanged
  <2>. QED
    BY <1>1, <1>2, <1>4, <2>5, SingleStep
<1>. QED
  BY <1>3, <1>4

\* An exception of the request or of the stream.
LEMMA FailsKeeps ==
  ASSUME Inv, Running, NEW k \in DOMAIN crew.list, crew.list[k].at # "over", Fails(k),
         UNCHANGED <<server, phase, kept, misled>>, trouble' \in 0..MaxTrouble
  PROVE  Inv'
<1>1. disk \subseteq Blocks /\ canRange \in BOOLEAN
  BY DEF Inv, TypeOK
<1>2. CASE IsRanged(crew.list[k]) /\ ~canRange
  <2>1. known' = known /\ StartsOver
    BY <1>2 DEF Fails
  <2>. QED
    BY <2>1, StartsOverKeeps
<1>3. CASE canRange
  <2>. DEFINE place == IF LeavesToNeighbour(k) THEN "over" ELSE "ready"
  <2>1. /\ k \in 1..Len(crew.list) /\ IsRanged(crew.list[k])
        /\ Ranged(crew, known, misled, disk) /\ Sure(crew)
    BY <1>3, RangedRun
  <2>2. /\ crew' = Move(crew, k, place)
        /\ UNCHANGED <<canRange, known, isResuming, disk, record>>
    BY <1>3, <2>1 DEF Fails
  <2>3. place \in Places /\ place # "streaming" /\ place # "confirming"
        /\ (place = "over" => crew.list[k].got = 0 /\ k # 1)
    BY DEF LeavesToNeighbour, Places
  <2>. HIDE DEF place
  <2>4. Ranged(crew', known, misled, disk') /\ Sure(crew')
    BY <2>1, <2>2, <2>3, RangedMove
  <2>. QED
    BY <1>1, <1>3, <2>2, <2>4, RangedStep
<1>4. CASE ~IsRanged(crew.list[k]) /\ ~canRange
  <2>. DEFINE w == crew.list[1]
  <2>1. /\ k = 1 /\ crew \in Crews /\ Len(crew.list) = 1 /\ w.start = 0 /\ w.got <= Size
        /\ w.end = Whole /\ Whole # Endless /\ OnDisk(crew.list, disk) /\ Pos(w) = w.got
    BY <1>4, SingleRun DEF Single
  <2>2. /\ crew' = Move(crew, 1, "ready")
        /\ UNCHANGED <<canRange, known, isResuming, disk, record>>
    BY <1>4, <2>1 DEF Fails
  <2>3. PICK x \in Subworker :
           /\ Changed(crew', crew, 1, x)
           /\ x.start = w.start /\ x.end = w.end /\ x.got = w.got /\ x.at = "ready"
    BY <2>1, <2>2, Moved DEF Places
  <2>4. 0 .. x.got - 1 \subseteq disk'
    BY <2>1, <2>2, <2>3 DEF OnDisk
  <2>5. Single(crew', known, record, disk')
    BY <1>4, <2>1, <2>3, <2>4, SingleChanged
  <2>. QED
    BY <1>1, <1>4, <2>2, <2>5, SingleStep
<1>. QED
  BY <1>1, <1>2, <1>3, <1>4

\* A request or a stream fails.
LEMMA FailKeeps ==
  ASSUME Inv, NEW k \in 1..MaxList, Fail(k)
  PROVE  Inv'
<1>1. /\ Running /\ k \in DOMAIN crew.list /\ crew.list[k].at # "over" /\ Fails(k)
      /\ UNCHANGED <<server, phase, kept, misled>>
      /\ trouble < MaxTrouble /\ trouble' = trouble + 1
  BY DEF Fail, At, Fixed
<1>2. trouble' \in 0..MaxTrouble
  BY <1>1, HttpAssumption DEF Inv, TypeOK
<1>. QED
  BY <1>1, <1>2, FailsKeeps

\* A range behind the end of the file is refused.
LEMMA RefuseKeeps ==
  ASSUME Inv, NEW k \in 1..MaxList, Refuse(k)
  PROVE  Inv'
<1>1. /\ Running /\ k \in DOMAIN crew.list /\ crew.list[k].at # "over" /\ Fails(k)
      /\ UNCHANGED <<server, phase, kept, misled>> /\ trouble' = trouble
  BY DEF Refuse, At, Fixed, NoTrouble
<1>2. trouble' \in 0..MaxTrouble
  BY <1>1 DEF Inv, TypeOK
<1>. QED
  BY <1>1, <1>2, FailsKeeps

\* Subworkers that have left come and go: there are some only while ranges are used.
LEMMA LeftKeeps ==
  ASSUME Inv, Running, crew.left # {}, NEW S \in SUBSET Subworker,
         \A v \in S : v.got = 0 /\ \E u \in crew.left : v.start = u.start
  PROVE  LET c == [crew EXCEPT !.left = S]
         IN /\ canRange /\ c.list = crew.list
            /\ Ranged(c, known, misled, disk) /\ Sure(c)
<1>1. crew \in Crews /\ canRange \in BOOLEAN
  BY DEF Inv, TypeOK
<1>. DEFINE c == [crew EXCEPT !.left = S]
<1>2. c \in Crews /\ c.list = crew.list /\ c.left = S
  BY <1>1 DEF Crews
<1>. HIDE DEF c
<1>3. canRange
  <2>. SUFFICES ASSUME ~canRange PROVE FALSE
    BY <1>1
  <2>. QED
    BY SingleRun DEF Single
<1>4. Ranged(crew, known, misled, disk) /\ Sure(crew)
  BY <1>3, RangedRun
<1>5. Sure(c)
  BY <1>2, <1>4 DEF Sure, Behind
<1>6. Ranged(c, known, misled, disk)
  BY <1>2, <1>4 DEF Ranged, Good
<1>. QED
  BY <1>2, <1>3, <1>5, <1>6 DEF c

\* A subworker that has left goes on until it notices, and may share a range when it is
\* answered.
LEMMA LeaverKeeps ==
  ASSUME Inv, NEW w \in crew.left, Leaver(w)
  PROVE  Inv'
<1>. DEFINE others == crew.left \ {w}
<1>1. /\ Running /\ UNCHANGED <<server, phase, kept, misled>> /\ trouble' = trouble
  BY DEF Leaver, Fixed, NoTrouble
<1>2. /\ trouble \in 0..MaxTrouble /\ disk \subseteq Blocks
      /\ crew.left \in SUBSET Subworker /\ w \in Subworker
  BY DEF Inv, TypeOK, Crews
<1>3. \A v \in crew.left : v.got = 0
  BY <1>1, RangedRun, SingleRun DEF Single, Good
<1>4. CASE known' = known /\ StartsOver
  BY <1>1, <1>2, <1>4, StartsOverKeeps
<1>5. ASSUME UNCHANGED <<canRange, known, isResuming, disk, record>>, LeaverGoesOn(w, others)
      PROVE  Inv'
  <2>1. GoneOnChunk(w) = {}
    BY <1>3 DEF GoneOnChunk
  <2>2. crew' = [crew EXCEPT !.left = others]
    BY <1>5, <2>1 DEF LeaverGoesOn
  <2>3. /\ others \in SUBSET Subworker
        /\ \A v \in others : v.got = 0 /\ \E u \in crew.left : v.start = u.start
    BY <1>2, <1>3
  <2>. HIDE DEF others
  <2>4. canRange /\ Ranged(crew', known, misled, disk) /\ Sure(crew')
    BY <1>1, <2>2, <2>3, LeftKeeps
  <2>. QED
    BY <1>1, <1>2, <1>5, <2>4, RangedStep
<1>6. ASSUME UNCHANGED <<canRange, known, isResuming, disk, record>>, LeaverIsAnswered(w, others)
      PROVE  Inv'
  <2>. DEFINE x == [w EXCEPT !.at = "streaming"]
              S == others \cup {x}
              c == [crew EXCEPT !.left = S]
  <2>1. x \in Subworker /\ x.got = 0 /\ x.start = w.start
    BY <1>2, <1>3 DEF Subworker, Places
  <2>2. known = Size /\ crew' = SharedIfAlone(c, canRange)
    BY <1>6 DEF LeaverIsAnswered, RangeMatches
  <2>. HIDE DEF x
  <2>3. /\ S \in SUBSET Subworker
        /\ \A v \in S : v.got = 0 /\ \E u \in crew.left : v.start = u.start
    BY <1>2, <1>3, <2>1
  <2>. HIDE DEF S
  <2>4. /\ canRange /\ Ranged(c, known, misled, disk) /\ Sure(c) /\ c.list = crew.list
    BY <1>1, <2>3, LeftKeeps
  <2>5. canRange = TRUE
    BY <2>4 DEF Inv, TypeOK
  <2>. HIDE DEF c
  <2>6. Len(c.list) = 1 => Calm(c.list)
    <3>. SUFFICES ASSUME Len(c.list) = 1, NEW k \in 1..Len(c.list), c.list[k].at = "confirming"
                  PROVE  FALSE
      BY DEF Calm
    <3>1. Pos(c.list[k]) = 0 /\ GoodList(c.list)
      BY <2>4 DEF Ranged, Lone, Good
    <3>2. PICK j \in 1..Len(c.list) : Behind(w, c.list[j])
      BY <1>1, <2>4, RangedRun DEF Sure
    <3>3. j = k /\ w.start \in Nat /\ c.list[k].start \in Nat
      BY <1>2, <3>1, Elements DEF Subworker
    <3>. QED
      BY <3>1, <3>2, <3>3 DEF Behind
  <2>7. Ranged(crew', known, misled, disk) /\ Sure(crew')
    BY <2>2, <2>4, <2>5, <2>6, SharedIfAloneKeeps
  <2>. QED
    BY <1>1, <1>2, <1>6, <2>4, <2>7, RangedStep
<1>. QED
  BY <1>4, <1>5, <1>6 DEF Leaver

\* A run ends before it is done.
LEMMA StopsKeeps ==
  ASSUME Inv, Stops, UNCHANGED <<server, isResuming, disk, kept>>,
         canRange' \in BOOLEAN, known' \in Nat, canRange' => known' # Unknown,
         record' \in {record, <<>>}
  PROVE  Inv'
<1>1. /\ phase' = "idle" /\ crew' = NoCrew /\ trouble < MaxTrouble /\ trouble' = trouble + 1
      /\ misled' = (misled \/ Disagree(canRange', known', record'))
  BY DEF Stops
<1>2. TypeOK
  BY DEF Inv
<1>3. NoCrew \in Crews /\ NoCrew.left = {}
  BY DEF NoCrew, Crews
<1>4. misled' \in BOOLEAN /\ trouble' \in 0..MaxTrouble
  BY <1>1, <1>2, HttpAssumption DEF TypeOK, Disagree
<1>5. record' \in Seq(Int \X Int \X Int)
  <2>1. record \in Seq(Int \X Int \X Int)
    BY <1>2 DEF TypeOK
  <2>2. <<>> \in Seq(Int \X Int \X Int)
    OBVIOUS
  <2>. QED
    BY <2>1, <2>2
<1>6. TypeOK'
  BY <1>1, <1>2, <1>3, <1>4, <1>5 DEF TypeOK
<1>7. CrewInv' /\ SizeInv' /\ DoneInv' /\ DoneIsWholeUnlessMisled'
  BY <1>1, <1>3 DEF Inv, CrewInv, Running, SizeInv, DoneInv, DoneIsWholeUnlessMisled, DoneIsWhole
<1>8. IdleInv'
  BY <1>1, <1>2 DEF IdleInv, TypeOK
<1>9. Recorded(record', misled', disk')
  <2>1. Recorded(record, misled, disk) /\ (misled => misled')
    BY <1>1 DEF Inv
  <2>2. Recorded(record, misled', disk)
    BY <2>1 DEF Recorded
  <2>. QED
    BY <2>2, NothingRecorded
<1>. QED
  BY <1>6, <1>7, <1>8, <1>9 DEF Inv

\* A pause or a permanent error.
LEMMA AbortKeeps ==
  ASSUME Inv, Abort
  PROVE  Inv'
<1>1. Stops /\ UNCHANGED <<server, canRange, known, isResuming, disk, record, kept>>
  BY DEF Abort, Fixed
<1>2. canRange \in BOOLEAN /\ known \in Nat /\ (canRange => known # Unknown)
  BY DEF Inv, TypeOK, SizeInv
<1>. QED
  BY <1>1, <1>2, StopsKeeps

\* The end of the program.
LEMMA CrashKeeps ==
  ASSUME Inv, Crash
  PROVE  Inv'
<1>1. /\ Stops /\ UNCHANGED <<server, isResuming, disk, kept>> /\ record' \in {record, <<>>}
      /\ canRange' = kept.canRange /\ known' = kept.known
  BY DEF Crash, Fixed
<1>2. kept.canRange \in BOOLEAN /\ kept.known \in Nat /\ (kept.canRange => kept.known # Unknown)
  BY DEF Inv, TypeOK, SizeInv
<1>. QED
  BY <1>1, <1>2, StopsKeeps

\* The Task Record is written.
LEMMA FlushKeeps ==
  ASSUME Inv, Flush
  PROVE  Inv'
<1>1. /\ UNCHANGED <<server, phase, canRange, known, isResuming, crew, disk, record, trouble, misled>>
      /\ kept' = [canRange |-> canRange, known |-> known]
  BY DEF Flush, Fixed, NoTrouble
<1>2. TypeOK' /\ SizeInv'
  BY <1>1 DEF Inv, TypeOK, SizeInv
<1>3. CrewInv' /\ Recorded(record, misled, disk)' /\ IdleInv' /\ DoneInv' /\ DoneIsWholeUnlessMisled'
  BY <1>1 DEF Inv, CrewInv, Running, IdleInv, DoneInv, DoneIsWholeUnlessMisled, DoneIsWhole
<1>. QED
  BY <1>2, <1>3 DEF Inv

\* What the supervisor writes of a list whose ranges follow each other.
LEMMA WrittenKeeps ==
  ASSUME NEW L \in Seq(Subworker), Len(L) >= 1, L[1].start = 0,
         \A k \in 1..Len(L) : L[k].end \in Nat /\ L[k].start <= L[k].end /\ Pos(L[k]) <= L[k].end + 1,
         \A k \in 2..Len(L) : L[k].start = L[k - 1].end + 1,
         NEW d, OnDisk(L, d), NEW is, ~is /\ Touched(L) => LastEnd(L) >= Size - 1
  PROVE  Written(L) \in Seq(Int \X Int \X Int) /\ Recorded(Written(L), is, d)
<1>. DEFINE R == Written(L)
            M == Loaded(R).list
<1>1. Len(L) \in Nat /\ DOMAIN L = 1..Len(L)
  OBVIOUS
<1>2. \A k \in 1..Len(L) : L[k] \in Subworker /\ L[k].start \in Nat /\ L[k].got \in Nat
  <2>. SUFFICES ASSUME NEW k \in 1..Len(L)
                PROVE  L[k] \in Subworker /\ L[k].start \in Nat /\ L[k].got \in Nat
    OBVIOUS
  <2>1. L[k] \in Subworker
    OBVIOUS
  <2>. QED
    BY <2>1 DEF Subworker
<1>3. R = [k \in 1..Len(L) |-> <<L[k].start, Pos(L[k]), L[k].end>>]
  BY <1>1 DEF Written
<1>4. \A k \in 1..Len(L) : Pos(L[k]) = L[k].start + L[k].got /\ Pos(L[k]) \in Nat
  BY <1>2 DEF Pos
<1>5. \A k \in 1..Len(L) : <<L[k].start, Pos(L[k]), L[k].end>> \in Int \X Int \X Int
  BY <1>2, <1>4
<1>6. R \in Seq(Int \X Int \X Int)
  BY <1>1, <1>3, <1>5
<1>7. M = [k \in 1..Len(L) |-> NewSubworker(R[k][1], R[k][3], R[k][2] - R[k][1])]
  BY <1>3 DEF Loaded
<1>. HIDE DEF R
<1>8. \A k \in 1..Len(L) : R[k] = <<L[k].start, Pos(L[k]), L[k].end>>
  BY <1>3
<1>9. \A k \in 1..Len(L) : R[k][1] = L[k].start /\ R[k][2] = Pos(L[k]) /\ R[k][3] = L[k].end
  BY <1>8
<1>. HIDE DEF M
<1>10. ASSUME NEW k \in 1..Len(L)
       PROVE  M[k] = NewSubworker(L[k].start, L[k].end, L[k].got)
  <2>1. M[k] = NewSubworker(R[k][1], R[k][3], R[k][2] - R[k][1])
    BY <1>7
  <2>2. R[k][2] - R[k][1] = L[k].got
    BY <1>2, <1>4, <1>9
  <2>. QED
    BY <1>9, <2>1, <2>2
<1>11. \A k \in 1..Len(L) : /\ M[k] \in Subworker /\ M[k].start = L[k].start /\ M[k].end = L[k].end
                            /\ M[k].got = L[k].got /\ M[k].at = "ready"
  <2>. SUFFICES ASSUME NEW k \in 1..Len(L)
                PROVE  /\ M[k] \in Subworker /\ M[k].start = L[k].start /\ M[k].end = L[k].end
                       /\ M[k].got = L[k].got /\ M[k].at = "ready"
    OBVIOUS
  <2>1. M[k] = [start |-> L[k].start, end |-> L[k].end, got |-> L[k].got, at |-> "ready"]
    BY <1>10 DEF NewSubworker
  <2>2. L[k].start \in Nat /\ L[k].end \in Nat /\ L[k].got \in Nat
    BY <1>2
  <2>. QED
    BY <2>1, <2>2 DEF Subworker, Places
<1>12. M \in Seq(Subworker) /\ Len(M) = Len(L)
  <2>1. M = [k \in 1..Len(L) |-> M[k]]
    BY <1>7
  <2>2. M \in [1..Len(L) -> Subworker]
    BY <1>11, <2>1
  <2>. QED
    BY <1>1, <2>2
<1>13. GoodList(M)
  <2>1. M # <<>> /\ M[1].start = 0 /\ M[1].at # "over"
    BY <1>1, <1>11, <1>12
  <2>2. ASSUME NEW k \in 1..Len(M)
        PROVE  Fine(M[k])
    BY <1>11, <1>12 DEF Fine, Pos
  <2>3. ASSUME NEW k \in 2..Len(M)
        PROVE  Follows(M[k - 1], M[k])
    <3>1. k \in 1..Len(L) /\ k - 1 \in 1..Len(L) /\ L[k].start = L[k - 1].end + 1
      BY <1>1, <1>12
    <3>. QED
      BY <1>11, <3>1 DEF Follows
  <2>. QED
    BY <1>12, <2>1, <2>2, <2>3 DEF GoodList
<1>14. OnDisk(M, d)
  BY <1>11, <1>12 DEF OnDisk, Pos
<1>15. ~is /\ Touched(M) => LastEnd(M) >= Size - 1
  <2>1. Touched(M) => Touched(L)
    BY <1>11, <1>12 DEF Touched
  <2>2. LastEnd(M) = LastEnd(L)
    BY <1>1, <1>11, <1>12 DEF LastEnd
  <2>. QED
    BY <2>1, <2>2
<1>. QED
  BY <1>6, <1>13, <1>14, <1>15 DEF Recorded, R, M

\* A stream of the whole file has no range to share.
LEMMA SingleBoosted ==
  ASSUME Inv, Running, ~canRange
  PROVE  Boosted(crew) = crew
<1>. DEFINE w == crew.list[1]
<1>1. /\ DOMAIN crew.list = {1} /\ w.start = 0 /\ w.got \in Nat /\ Pos(w) = w.got
      /\ w.end \in {Whole, Endless} /\ (w.end = Endless => known = Unknown)
  BY SingleRun
<1>2. CASE w.end = Endless
  <2>1. known <= 0
    BY <1>1, <1>2 DEF Unknown
  <2>. QED
    BY <2>1 DEF Boosted, Boost, Reassigned
<1>3. CASE w.end = Whole
  <2>1. Rest(w) = -w.got
    BY <1>1, <1>3 DEF Rest, Whole
  <2>2. Rest(w) < MinSplit
    BY <1>1, <2>1, HttpAssumption
  <2>3. Slowest(crew.list) = 1
    <3>1. \A j \in DOMAIN crew.list : Rest(crew.list[j]) <= Rest(w)
      BY <1>1, <2>1
    <3>2. \A j \in 1..1 - 1 : Rest(crew.list[j]) < Rest(w)
      OBVIOUS
    <3>. QED
      BY <1>1, <3>1, <3>2 DEF Slowest
  <2>4. \A size : Reassigned(crew, size) = crew
    BY <2>2, <2>3 DEF Reassigned
  <2>. QED
    BY <2>4 DEF Boosted, Boost
<1>. QED
  BY <1>1, <1>2, <1>3

\* The supervisor writes the record and may speed up.
LEMMA SuperviseKeeps ==
  ASSUME Inv, NEW isBoosting \in BOOLEAN, Supervise(isBoosting)
  PROVE  Inv'
<1>. DEFINE L == crew.list
<1>1. /\ Running
      /\ UNCHANGED <<server, phase, canRange, known, isResuming, disk, kept, misled>>
      /\ trouble' = trouble
      /\ record' = IF IsRanged(L[1]) THEN Written(L) ELSE record
      /\ isBoosting => \E k \in DOMAIN L : L[k].got > 0
      /\ crew' = IF isBoosting THEN Boosted(crew) ELSE crew
  BY DEF Supervise, At, Fixed, NoTrouble
<1>2. /\ trouble \in 0..MaxTrouble /\ disk \subseteq Blocks /\ isResuming \in BOOLEAN
      /\ known \in Nat /\ canRange \in BOOLEAN /\ (canRange => known # Unknown)
      /\ record \in Seq(Int \X Int \X Int) /\ Recorded(record, misled, disk)
  BY DEF Inv, TypeOK, SizeInv
<1>3. CASE canRange
  <2>1. /\ Ranged(crew, known, misled, disk) /\ Good(crew) /\ GoodList(L) /\ crew \in Crews
        /\ Sure(crew) /\ DOMAIN L = 1..Len(L) /\ \A k \in 1..Len(L) : IsRanged(L[k])
    BY <1>1, <1>3, RangedRun
  <2>2. L \in Seq(Subworker) /\ Len(L) >= 1 /\ L[1].start = 0 /\ Len(L) \in Nat
    BY <2>1, Elements DEF GoodList
  <2>3. Written(L) \in Seq(Int \X Int \X Int) /\ Recorded(Written(L), misled, disk)
    <3>1. \A k \in 1..Len(L) : L[k].end \in Nat /\ L[k].start <= L[k].end /\ Pos(L[k]) <= L[k].end + 1
      BY <2>1, Elements DEF GoodList, Fine
    <3>2. \A k \in 2..Len(L) : L[k].start = L[k - 1].end + 1
      BY <2>1 DEF GoodList, Follows
    <3>3. OnDisk(L, disk) /\ (~misled /\ Touched(L) => LastEnd(L) >= Size - 1)
      BY <2>1 DEF Ranged
    <3>. HIDE DEF L
    <3>. QED
      BY <2>2, <3>1, <3>2, <3>3, WrittenKeeps
  <2>4. record' = Written(L)
    BY <1>1, <2>1, <2>2
  <2>5. Ranged(crew', known, misled, disk) /\ Sure(crew')
    <3>1. CASE isBoosting
      <4>1. Calm(L)
        <5>. SUFFICES ASSUME NEW k \in 1..Len(L), L[k].at = "confirming" PROVE FALSE
          BY DEF Calm
        <5>1. Len(L) = 1 /\ Pos(L[k]) = 0 /\ L[k].got > 0
          BY <1>1, <2>1, <3>1 DEF Ranged, Lone
        <5>2. L[k].start \in Nat /\ L[k].got \in Nat /\ Pos(L[k]) = L[k].start + L[k].got
          BY <2>1, Elements
        <5>. QED
          BY <5>1, <5>2
      <4>2. Shared(crew', crew) /\ crew'.left = crew.left
        BY <1>1, <2>1, <3>1, BoostedKeeps
      <4>3. Sure(crew')
        BY <2>1, <4>2, SureShared
      <4>. QED
        BY <2>1, <4>1, <4>2, <4>3, RangedShared
    <3>2. CASE ~isBoosting
      BY <1>1, <2>1, <3>2
    <3>. QED
      BY <3>1, <3>2
  <2>. QED
    BY <1>1, <1>2, <1>3, <2>3, <2>4, <2>5, StillRunning
<1>4. CASE ~canRange
  <2>. DEFINE w == L[1]
  <2>1. /\ Single(crew, known, record, disk) /\ crew \in Crews /\ Len(L) = 1 /\ w \in Subworker
        /\ w.start = 0 /\ w.got \in Nat /\ w.got <= Size /\ Pos(w) = w.got
        /\ w.end \in {Whole, Endless} /\ Whole # Endless /\ (IsRanged(w) <=> w.end = Endless)
        /\ (w.end = Whole => record = <<>>)
    BY <1>1, <1>4, SingleRun
  <2>2. crew' = crew
    BY <1>1, <1>4, SingleBoosted
  <2>3. CASE w.end = Whole
    <3>1. record' = record
      BY <1>1, <2>1, <2>3
    <3>. QED
      BY <1>1, <1>2, <1>4, <2>1, <2>2, <3>1, StillRunning
  <2>4. CASE w.end = Endless
    <3>1. record' = Written(L)
      BY <1>1, <2>1, <2>4
    <3>2. Written(L) \in Seq(Int \X Int \X Int) /\ Recorded(Written(L), misled, disk)
      <4>1. Endless \in Nat /\ Endless >= Size /\ Size \in Nat
        BY HttpAssumption DEF Endless
      <4>2. \A k \in 1..Len(L) : L[k].end \in Nat /\ L[k].start <= L[k].end /\ Pos(L[k]) <= L[k].end + 1
        BY <2>1, <2>4, <4>1
      <4>3. LastEnd(L) >= Size - 1
        BY <2>1, <2>4, <4>1 DEF LastEnd
      <4>4. L \in Seq(Subworker) /\ OnDisk(L, disk)
        BY <2>1 DEF Crews, Single
      <4>5. \A k \in 2..Len(L) : L[k].start = L[k - 1].end + 1
        BY <2>1
      <4>6. Len(L) >= 1 /\ L[1].start = 0
        BY <2>1
      <4>. HIDE DEF L
      <4>. QED
        BY <4>2, <4>3, <4>4, <4>5, <4>6, WrittenKeeps
    <3>3. Single(crew', known, record', disk)
      BY <2>1, <2>2, <2>4 DEF Single
    <3>. QED
      BY <1>1, <1>2, <1>4, <3>1, <3>2, <3>3, StillRunning
  <2>. QED
    BY <2>1, <2>3, <2>4
<1>. QED
  BY <1>2, <1>3, <1>4

\* When every subworker is over, the file is whole.
LEMMA FinishKeeps ==
  ASSUME Inv, Finish
  PROVE  Inv'
<1>. DEFINE L == crew.list
<1>1. /\ Running /\ crew.left = {} /\ \A k \in DOMAIN L : L[k].at = "over"
      /\ phase' = "done" /\ record' = <<>>
      /\ UNCHANGED <<server, canRange, known, isResuming, crew, disk, kept, trouble, misled>>
  BY DEF Finish, At, Fixed, NoTrouble
<1>2. ASSUME ~misled, NEW b \in Blocks
      PROVE  b \in disk
  <2>1. b \in Nat /\ b <= Size - 1 /\ Size \in Nat
    BY HttpAssumption DEF Blocks
  <2>2. CASE canRange
    <3>1. Ranged(crew, known, misled, disk) /\ GoodList(L) /\ DOMAIN L = 1..Len(L)
      BY <1>1, <2>2, RangedRun
    <3>2. 1 \in 1..Len(L) /\ L[1].got \in Nat
      BY <3>1, Elements
    <3>3. L[1].got > 0
      BY <1>1, <3>1, <3>2 DEF GoodList
    <3>4. LastEnd(L) >= Size - 1 /\ LastEnd(L) \in Nat
      BY <1>2, <3>1, <3>2, <3>3, Elements DEF Ranged, Touched, LastEnd
    <3>5. PICK k \in 1..Len(L) : L[k].start <= b /\ b <= L[k].end
      <4>1. b <= LastEnd(L)
        BY <2>1, <3>4
      <4>. QED
        BY <2>1, <3>1, <4>1, Covered
    <3>6. ~(Rest(L[k]) > 0)
      <4>. SUFFICES ASSUME Rest(L[k]) > 0 PROVE FALSE
        OBVIOUS
      <4>1. PICK j \in 1..k - 1 : L[j].at # "over"
        BY <1>1, <3>1, Guarded
      <4>2. j \in 1..Len(L)
        BY <3>5
      <4>. QED
        BY <1>1, <3>1, <4>1, <4>2
    <3>7. /\ L[k].start \in Nat /\ L[k].end \in Nat /\ Pos(L[k]) \in Nat
          /\ Rest(L[k]) = L[k].end - Pos(L[k]) + 1
      BY <3>1, Elements
    <3>8. b \in L[k].start .. Pos(L[k]) - 1
      BY <2>1, <3>5, <3>6, <3>7
    <3>. QED
      BY <3>1, <3>8 DEF Ranged, OnDisk
  <2>3. CASE ~canRange
    <3>1. /\ OnDisk(L, disk) /\ DOMAIN L = {1} /\ Len(L) = 1 /\ L[1].start = 0
          /\ Pos(L[1]) = L[1].got /\ (L[1].at = "over" => L[1].got = Size)
      BY <1>1, <2>3, SingleRun DEF Single
    <3>2. Pos(L[1]) = Size
      BY <1>1, <3>1
    <3>3. b \in L[1].start .. Pos(L[1]) - 1
      BY <2>1, <3>1, <3>2
    <3>. QED
      BY <3>1, <3>3 DEF OnDisk
  <2>. QED
    BY <2>2, <2>3
<1>3. TypeOK'
  BY <1>1, NothingRecorded DEF Inv, TypeOK
<1>4. DoneIsWholeUnlessMisled'
  BY <1>1, <1>2 DEF DoneIsWholeUnlessMisled, DoneIsWhole, Blocks
<1>5. CrewInv' /\ SizeInv' /\ IdleInv' /\ DoneInv'
  BY <1>1 DEF Inv, CrewInv, Running, SizeInv, IdleInv, DoneInv
<1>6. Recorded(record', misled', disk')
  BY <1>1, NothingRecorded
<1>. QED
  BY <1>3, <1>4, <1>5, <1>6 DEF Inv

\* A run starts, from the record or afresh.
LEMMA StartKeeps ==
  ASSUME Inv, Start
  PROVE  Inv'
<1>. DEFINE loaded == IF canRange THEN record ELSE <<>>
<1>1. /\ phase = "idle" /\ phase' = "running" /\ record' = loaded /\ isResuming' = (loaded # <<>>)
      /\ crew' = IF loaded = <<>> THEN Built(canRange, known)
                 ELSE Split(Loaded(loaded), Count - Len(loaded) + 1)
      /\ disk' = IF ~canRange THEN {}
                 ELSE IF loaded = <<>> THEN disk \cap 0..known - 1 ELSE disk
      /\ UNCHANGED <<server, canRange, known, kept, misled>> /\ trouble' = trouble
  BY DEF Start, Fixed, NoTrouble
<1>2. /\ trouble \in 0..MaxTrouble /\ disk \subseteq Blocks /\ known \in Nat /\ canRange \in BOOLEAN
      /\ (canRange => known # Unknown) /\ Recorded(record, misled, disk)
      /\ record \in Seq(Int \X Int \X Int)
      /\ ~misled => ~Disagree(canRange, known, record)
  BY <1>1 DEF Inv, TypeOK, SizeInv, IdleInv
<1>3. isResuming' \in BOOLEAN /\ disk' \subseteq Blocks
  BY <1>1, <1>2
<1>4. CASE ~canRange
  <2>1. record' = <<>> /\ crew' = Built(FALSE, known)
    BY <1>1, <1>2, <1>4
  <2>2. Single(crew', known, record', disk')
    BY <1>2, <2>1, BuiltKeeps
  <2>3. Recorded(record', misled, disk') /\ record' \in Seq(Int \X Int \X Int)
    BY <2>1, NothingRecorded
  <2>. QED
    BY <1>1, <1>2, <1>3, <1>4, <2>2, <2>3, RunsOn
<1>5. CASE canRange /\ record = <<>>
  <2>1. record' = <<>> /\ crew' = Built(TRUE, known)
    BY <1>1, <1>2, <1>5
  <2>2. Ranged(crew', known, misled, disk') /\ Sure(crew')
    BY <1>2, <1>5, <2>1, BuiltKeeps DEF Unknown
  <2>3. Recorded(record', misled, disk') /\ record' \in Seq(Int \X Int \X Int)
    BY <2>1, NothingRecorded
  <2>. QED
    BY <1>1, <1>2, <1>3, <1>5, <2>2, <2>3, RunsOn
<1>6. CASE canRange /\ record # <<>>
  <2>. DEFINE c == Loaded(record)
              L == c.list
  <2>1. record' = record /\ disk' = disk /\ crew' = Split(c, Count - Len(record) + 1)
    BY <1>1, <1>6
  <2>2. GoodList(L) /\ OnDisk(L, disk) /\ (~misled /\ Touched(L) => LastEnd(L) >= Size - 1)
    BY <1>2, <1>6 DEF Recorded
  <2>3. L = [k \in DOMAIN record |-> NewSubworker(record[k][1], record[k][3], record[k][2] - record[k][1])]
        /\ c.left = {} /\ c = [list |-> L, left |-> {}]
    BY DEF Loaded
  <2>4. Len(record) \in Nat /\ DOMAIN record = 1..Len(record) /\ Len(record) >= 1
    BY <1>2, <1>6
  <2>. HIDE DEF c
  <2>5. \A k \in 1..Len(L) : L[k].at = "ready" /\ L[k].end = record[k][3]
    BY <2>3, <2>4 DEF NewSubworker
  <2>6. Len(L) = Len(record) /\ L \in Seq(Subworker)
    BY <2>2, <2>3, <2>4, Elements
  <2>7. Good(c)
    BY <2>2, <2>3, <2>6 DEF Good, Crews
  <2>8. Lone(L) /\ Calm(L) /\ ~Streams(L)
    BY <2>5 DEF Lone, Calm, Streams
  <2>9. LastEnd(L) = record[Len(record)][3]
    BY <2>4, <2>5, <2>6 DEF LastEnd
  <2>10. ~misled /\ known = Size => LastEnd(L) = Size - 1
    BY <1>2, <1>6, <2>9 DEF Disagree
  <2>11. Ranged(c, known, misled, disk)
    BY <2>2, <2>7, <2>8, <2>10 DEF Ranged
  <2>12. Count - Len(record) + 1 \in Int
    BY <2>4, HttpAssumption
  <2>13. Shared(crew', c) /\ crew'.left = {}
    BY <2>1, <2>3, <2>7, <2>12, SplitKeeps
  <2>14. Ranged(crew', known, misled, disk') /\ Sure(crew')
    BY <2>1, <2>8, <2>11, <2>13, RangedShared DEF Sure
  <2>. QED
    BY <1>1, <1>2, <1>3, <1>6, <2>1, <2>14, RunsOn
<1>. QED
  BY <1>4, <1>5, <1>6

-----------------------------------------------------------------------------
(* The invariant, and what follows from it.                                *)

LEMMA Initially ==
  ASSUME Init
  PROVE  Inv
<1>1. /\ server \in Servers /\ phase = "idle" /\ canRange = TRUE /\ known \in Announced
      /\ isResuming = FALSE /\ crew = NoCrew /\ disk = {} /\ record = <<>>
      /\ kept = [canRange |-> TRUE, known |-> known] /\ trouble = 0 /\ misled = FALSE
  BY DEF Init
<1>2. known \in Nat /\ known # 0
  BY <1>1, HttpAssumption
<1>3. NoCrew \in Crews /\ NoCrew.left = {}
  BY DEF NoCrew, Crews
<1>4. Recorded(record, misled, disk) /\ record \in Seq(Int \X Int \X Int)
  BY <1>1, NothingRecorded
<1>5. TypeOK
  <2>1. kept \in [canRange : BOOLEAN, known : Nat]
    BY <1>1, <1>2
  <2>2. trouble \in 0..MaxTrouble /\ crew \in Crews
    BY <1>1, <1>3, HttpAssumption
  <2>3. server \in Servers /\ disk \subseteq Blocks /\ record \in Seq(Int \X Int \X Int)
    BY <1>1, <1>4
  <2>4. phase \in {"idle", "running", "done"} /\ canRange \in BOOLEAN /\ isResuming \in BOOLEAN
        /\ known \in Nat /\ misled \in BOOLEAN
    BY <1>1, <1>2
  <2>. QED
    BY <2>1, <2>2, <2>3, <2>4 DEF TypeOK
<1>6. CrewInv /\ SizeInv /\ IdleInv /\ DoneInv /\ DoneIsWholeUnlessMisled
  BY <1>1, <1>2, <1>3
     DEF CrewInv, Running, SizeInv, Unknown, IdleInv, Disagree, DoneInv, DoneIsWholeUnlessMisled, DoneIsWhole
<1>. QED
  BY <1>4, <1>5, <1>6 DEF Inv

\* Every step keeps the invariant.
LEMMA NextKeeps ==
  ASSUME Inv, Next
  PROVE  Inv'
<1>1. ASSUME NEW k \in 1..MaxList,
             Begin(k) \/ Confirm(k) \/ Accept(k) \/ Mismatch(k) \/ Refuse(k) \/ StreamEnds(k)
      PROVE  Inv'
  BY <1>1, BeginKeeps, ConfirmKeeps, AcceptKeeps, MismatchKeeps, RefuseKeeps, StreamEndsKeeps
<1>2. ASSUME NEW k \in 1..MaxList, NEW n \in 1..Size, Chunk(k, n)
      PROVE  Inv'
  BY <1>2, ChunkKeeps
<1>3. ASSUME NEW w \in crew.left, Leaver(w)
      PROVE  Inv'
  BY <1>3, LeaverKeeps
<1>4. ASSUME NEW k \in 1..MaxList, Fail(k)
      PROVE  Inv'
  BY <1>4, FailKeeps
<1>5. ASSUME NEW isBoosting \in BOOLEAN, Supervise(isBoosting)
      PROVE  Inv'
  BY <1>5, SuperviseKeeps
<1>6. Start \/ Finish \/ Abort \/ Crash \/ Flush => Inv'
  BY StartKeeps, FinishKeeps, AbortKeeps, CrashKeeps, FlushKeeps
<1>. QED
  BY <1>1, <1>2, <1>3, <1>4, <1>5, <1>6 DEF Next, Progress

\* So does a step that changes nothing.
LEMMA StutterKeeps ==
  ASSUME Inv, UNCHANGED vars
  PROVE  Inv'
<1>1. UNCHANGED <<server, phase, canRange, known, isResuming, crew, disk, record, kept, trouble, misled>>
  BY DEF vars
<1>2. TypeOK'
  BY <1>1 DEF Inv, TypeOK
<1>3. CrewInv' /\ Recorded(record, misled, disk)' /\ SizeInv' /\ IdleInv'
  BY <1>1 DEF Inv, CrewInv, Running, SizeInv, IdleInv
<1>4. DoneInv' /\ DoneIsWholeUnlessMisled'
  BY <1>1 DEF Inv, DoneInv, DoneIsWholeUnlessMisled, DoneIsWhole
<1>. QED
  BY <1>2, <1>3, <1>4 DEF Inv

\* In every behaviour the list, the disk and the record agree in the way Inv says,
\* from which the theorems below follow.
THEOREM InvHolds == Spec => []Inv
<1>1. Init => Inv
  BY Initially
<1>2. Inv /\ [Next]_vars => Inv'
  BY NextKeeps, StutterKeeps
<1>. QED
  BY <1>1, <1>2, PTL DEF Spec

\* Type correctness: among others, no step removes the last subworker from the list, and
\* nothing is written to the file behind its end.
THEOREM TypeHolds == Spec => []TypeOK
<1>1. Inv => TypeOK
  BY DEF Inv
<1>. QED
  BY <1>1, InvHolds, PTL

\* A step that is done has the whole file, unless a run ended before the record knew the
\* size the server had confirmed: whatever the server honours, however the ranges were
\* shared, given up and taken over, and after any failures, pauses and crashes.
THEOREM FileIsWhole == Spec => []DoneIsWholeUnlessMisled
<1>1. Inv => DoneIsWholeUnlessMisled
  BY DEF Inv
<1>. QED
  BY <1>1, InvHolds, PTL

\* The ranges of the list follow each other over the whole file, and what they count as
\* received is on disk, after any _splitSlowest, _reassignSubworker and _emptyRightOf.
THEOREM RangesStayWhole == Spec => []RangesAreWhole
<1>1. ASSUME Inv, Running, ~misled, IsRanged(crew.list[1])
      PROVE  LET L == crew.list
             IN /\ L[1].start = 0
                /\ \A k \in 2..Len(L) : L[k].start = L[k - 1].end + 1
                /\ known = Size => L[Len(L)].end = Size - 1
                /\ \A k \in DOMAIN L :
                    /\ Pos(L[k]) <= L[k].end + 1
                    /\ L[k].start .. Pos(L[k]) - 1 \subseteq disk
  <2>. DEFINE L == crew.list
  <2>1. CASE canRange
    <3>1. Ranged(crew, known, misled, disk) /\ GoodList(L) /\ DOMAIN L = 1..Len(L)
      BY <1>1, <2>1, RangedRun
    <3>2. L[1].start = 0 /\ \A k \in 2..Len(L) : L[k].start = L[k - 1].end + 1
      BY <3>1 DEF GoodList, Follows
    <3>3. known = Size => L[Len(L)].end = Size - 1
      BY <1>1, <3>1 DEF Ranged, LastEnd
    <3>4. \A k \in 1..Len(L) : Pos(L[k]) <= L[k].end + 1 /\ L[k].start .. Pos(L[k]) - 1 \subseteq disk
      BY <3>1 DEF GoodList, Fine, Ranged, OnDisk
    <3>. QED
      BY <3>1, <3>2, <3>3, <3>4
  <2>2. CASE ~canRange
    <3>1. /\ OnDisk(L, disk) /\ DOMAIN L = {1} /\ Len(L) = 1 /\ L[1].start = 0
          /\ Pos(L[1]) = L[1].got /\ L[1].got <= Size /\ L[1].got \in Nat
          /\ L[1].end = Endless /\ known = Unknown
      BY <1>1, <2>2, SingleRun DEF Single
    <3>2. known # Size /\ Pos(L[1]) <= L[1].end + 1
      BY <3>1, HttpAssumption DEF Unknown, Endless
    <3>. QED
      BY <3>1, <3>2 DEF OnDisk
  <2>3. canRange \in BOOLEAN
    BY <1>1 DEF Inv, TypeOK
  <2>. QED
    BY <2>1, <2>2, <2>3
<1>2. Inv => RangesAreWhole
  BY <1>1 DEF RangesAreWhole
<1>. QED
  BY <1>2, InvHolds, PTL

\* The record from which an interrupted run will resume lists every missing block: no
\* pause, crash or failure leaves a hole that the next run does not know of.
THEOREM RecordStaysComplete == Spec => []RecordListsMissing
<1>1. ASSUME Inv, phase = "idle", ~misled, canRange, known = Size, record # <<>>, NEW b \in Blocks \ disk
      PROVE  \E k \in 1..Len(record) : b \in record[k][2] .. record[k][3]
  <2>. DEFINE L == Loaded(record).list
  <2>1. GoodList(L) /\ OnDisk(L, disk) /\ record \in Seq(Int \X Int \X Int)
    BY <1>1 DEF Inv, Recorded, TypeOK
  <2>2. Len(record) \in Nat /\ DOMAIN record = 1..Len(record) /\ Len(record) >= 1
    BY <1>1, <2>1
  <2>3. L = [k \in DOMAIN record |-> NewSubworker(record[k][1], record[k][3], record[k][2] - record[k][1])]
    BY DEF Loaded
  <2>. HIDE DEF L
  <2>4. Len(L) = Len(record)
    BY <2>1, <2>2, <2>3, Elements
  <2>5. ASSUME NEW k \in 1..Len(record)
        PROVE  /\ record[k][1] \in Int /\ record[k][2] \in Int /\ record[k][3] \in Int
               /\ L[k].start = record[k][1] /\ L[k].end = record[k][3] /\ Pos(L[k]) = record[k][2]
    <3>1. record[k] \in Int \X Int \X Int
      BY <2>1
    <3>2. record[k][1] \in Int /\ record[k][2] \in Int /\ record[k][3] \in Int
      BY <3>1
    <3>3. L[k] = NewSubworker(record[k][1], record[k][3], record[k][2] - record[k][1])
      BY <2>2, <2>3
    <3>4. L[k].start = record[k][1] /\ L[k].end = record[k][3] /\ L[k].got = record[k][2] - record[k][1]
      BY <3>3 DEF NewSubworker
    <3>5. Pos(L[k]) = record[k][2]
      BY <3>2, <3>4 DEF Pos
    <3>. QED
      BY <3>2, <3>4, <3>5
  <2>6. record[Len(record)][3] = Size - 1
    BY <1>1 DEF Inv, IdleInv, Disagree
  <2>7. LastEnd(L) = Size - 1
    BY <2>2, <2>4, <2>5, <2>6 DEF LastEnd
  <2>8. b \in Nat /\ b <= Size - 1
    BY HttpAssumption DEF Blocks
  <2>9. PICK k \in 1..Len(L) : L[k].start <= b /\ b <= L[k].end
    BY <2>1, <2>7, <2>8, Covered
  <2>10. b \notin L[k].start .. Pos(L[k]) - 1
    BY <2>1 DEF OnDisk
  <2>11. b \in record[k][2] .. record[k][3]
    BY <2>4, <2>5, <2>8, <2>9, <2>10
  <2>. QED
    BY <2>4, <2>11
<1>2. Inv => RecordListsMissing
  BY <1>1 DEF RecordListsMissing
<1>. QED
  BY <1>2, InvHolds, PTL

\* A range that a failed subworker gave up without a byte always has, on its left, a
\* subworker that is not over and will take it over.
THEOREM NoRangeIsAbandoned == Spec => []GivenUpIsTakenOver
<1>1. ASSUME Inv, Running, canRange, NEW k \in DOMAIN crew.list,
             crew.list[k].at = "over", Rest(crew.list[k]) > 0
      PROVE  \E j \in 1..k - 1 : crew.list[j].at # "over" /\ \A m \in j + 1..k : crew.list[m].got = 0
  <2>1. GoodList(crew.list) /\ k \in 1..Len(crew.list)
    BY <1>1, RangedRun
  <2>. QED
    BY <1>1, <2>1, Guarded
<1>2. Inv => GivenUpIsTakenOver
  BY <1>1 DEF GivenUpIsTakenOver
<1>. QED
  BY <1>2, InvHolds, PTL

\* A subworker whose range was taken over while it ran has downloaded nothing of it, and
\* one of the list has got to where it began: so no block is written by two, and no two
\* subworkers that left began at the same place.
THEOREM LeftWithNothing == Spec => []TakenOverIsLeft
<1>1. ASSUME Inv, NEW w \in crew.left
      PROVE  /\ w.got = 0
             /\ \E k \in DOMAIN crew.list :
                   crew.list[k].start < w.start /\ w.start <= Pos(crew.list[k])
  <2>1. canRange \in BOOLEAN /\ Running
    BY <1>1 DEF Inv, TypeOK, CrewInv
  <2>2. canRange
    BY <1>1, <2>1, SingleRun DEF Single
  <2>. QED
    BY <1>1, <2>1, <2>2, RangedRun DEF Good, Sure, Behind
<1>2. Inv => TakenOverIsLeft
  BY <1>1 DEF TakenOverIsLeft
<1>. QED
  BY <1>2, InvHolds, PTL
=============================================================================
