--------------------------- MODULE TaskIntakeProofs ---------------------------
(***************************************************************************)
(* Theorems about TaskIntake, for any links, items, tasks, paths and       *)
(* events.  A handler is a function on the intake; its lemma says which    *)
(* tasks it takes from where to where.                                     *)
(***************************************************************************)
EXTENDS TaskIntake, Recursions, FiniteSetTheorems, FunctionTheorems, SequenceTheorems

\* What a task that is stored has written down about its path.
Claims(n) ==
    /\ \A t \in n.stored : n.holds[t] = n.name[t] /\ n.name[t] \in Path
    /\ \A p \in Path : n.owner[p] # NoTask => n.owner[p] \in n.stored /\ n.holds[n.owner[p]] = p

\* Its path is its own and has a file.
Kept(n, loose) ==
    \A t \in n.stored \ loose : n.owner[n.name[t]] = t /\ n.file[n.name[t]] # "none"

\* Tasks whose record is gone and whose files are still to be deleted.
Dying(s) == {t \in Task : s.deleted[t] # "no"}

\* Of the tasks X those from the link u; the items whose parse was confirmed.
From(s, X, u) == {t \in X : s.url[t] = u}
Awaited(s, u) ==
    {i \in Item : s.item[i].url = u /\ s.item[i].confirmed /\ s.item[i].work # "none"}

Balanced(s, X) ==
    \A u \in Url : s.open[u] = Cardinality(Awaited(s, u)) + Cardinality(From(s, X, u))

\* The store is in order, and the tasks X, which are to be added, and D, which are in
\* the draft, are no place else.
Core(s, X, D) ==
    /\ s \in Intakes /\ Claims(s.names) /\ Kept(s.names, s.loose)
    /\ X \cup D \subseteq Task /\ X \cap D = {}
    /\ s.names.stored \cap Dying(s) = {}
    /\ (X \cup D) \cap (s.names.stored \cup Dying(s)) = {}
    /\ \A t \in X \cup D : s.names.name[t] \in Path
    /\ Balanced(s, X)

InDraft(s) == {s.item[i].task : i \in s.draft} \ {NoTask}
InQueue(s) == (Range(s.queue) \cup {s.asked}) \ {NoTask}

\* An item of the draft, as DraftIsWhole has it.
Whole(it) ==
    /\ ~it.confirmed
    /\ it.parse => it.work # "none"
    /\ \/ it.parse /\ it.task = NoTask /\ ~it.failed
       \/ ~it.parse /\ it.task # NoTask /\ ~it.failed
       \/ ~it.parse /\ it.task = NoTask /\ it.failed /\ it.work = "none"

DraftInOrder(s) ==
    /\ \A i, j \in s.draft : s.item[i].url = s.item[j].url => i = j
    /\ \A i, j \in s.draft : s.item[i].task = s.item[j].task /\ s.item[i].task # NoTask => i = j
    /\ \A i \in s.draft : /\ Whole(s.item[i])
                          /\ s.item[i].task # NoTask => s.url[s.item[i].task] = s.item[i].url
    /\ \A i \in Item \ s.draft : s.item[i].confirmed => s.item[i].task = NoTask

\* The queue of conflicts has no task twice.
Distinct(seq) == \A i, j \in 1..Len(seq) : seq[i] = seq[j] => i = j

QueueInOrder(s) ==
    /\ Distinct(s.queue) /\ s.asked \notin Range(s.queue) /\ s.rest <= Len(s.queue)
    /\ s.queue # <<>> => s.asked # NoTask \/ s.posted \/ s.stuck
    /\ s.posted => s.asked = NoTask

Sane(s) == Core(s, InQueue(s), InDraft(s)) /\ DraftInOrder(s) /\ QueueInOrder(s)

Inv == Sane(intake)

-----------------------------------------------------------------------------
(* Paths.                                                                  *)

LEMMA MinIsLeast ==
    ASSUME NEW S, S \subseteq Nat, S # {}
    PROVE  Min(S) \in S /\ \A y \in S : Min(S) <= y
BY HasLeast DEF Min

\* The paths that HasNames counts.
FreePaths(s) ==
    {p \in Path : /\ s.names.file[p] = "none"
                  /\ \A t \in Task \ s.names.stored : s.names.name[t] <= p}

LEMMA FreePathsAreFinite ==
    ASSUME NEW s
    PROVE  IsFiniteSet(FreePaths(s)) /\ Cardinality(FreePaths(s)) \in Nat
<1>1. IsFiniteSet(Path)
    BY NamesAssumption, FS_Interval DEF Path
<1>2. FreePaths(s) \in SUBSET Path
    BY DEF FreePaths
<1>. QED
    BY <1>1, <1>2, FS_Subset, FS_CardinalityType

LEMMA NamesAreThere ==
    ASSUME NEW s, NEW k \in Nat, k >= 1, HasNames(s, k)
    PROVE  FreePaths(s) # {}
<1>1. k <= Cardinality(FreePaths(s))
    BY DEF HasNames, FreePaths
<1>. QED
    BY <1>1, FreePathsAreFinite, FS_EmptySet

LEMMA TakesOneName ==
    ASSUME NEW s, NEW q, NEW p, FreePaths(s) \ {p} \subseteq FreePaths(q),
           NEW k \in Nat, k >= 1, HasNames(s, k)
    PROVE  HasNames(q, k - 1)
<1>1. k <= Cardinality(FreePaths(s))
    BY DEF HasNames, FreePaths
<1>2. /\ IsFiniteSet(FreePaths(s) \ {p})
      /\ Cardinality(FreePaths(s) \ {p}) \in {Cardinality(FreePaths(s)), Cardinality(FreePaths(s)) - 1}
    BY FreePathsAreFinite, FS_RemoveElement
<1>3. Cardinality(FreePaths(s) \ {p}) <= Cardinality(FreePaths(q))
    BY FreePathsAreFinite, FS_Subset
<1>4. k - 1 <= Cardinality(FreePaths(q))
    BY <1>1, <1>2, <1>3, FreePathsAreFinite
<1>. QED
    BY <1>4 DEF HasNames, FreePaths

LEMMA LeavesNames ==
    ASSUME NEW s, NEW q, NEW p, FreePaths(s) \ {p} \subseteq FreePaths(q),
           NEW k \in Nat, HasNames(s, k + 1)
    PROVE  HasNames(q, k)
<1>. DEFINE j == k + 1
<1>1. j \in Nat /\ j >= 1 /\ j - 1 = k /\ HasNames(s, j)
    OBVIOUS
<1>. HIDE DEF j
<1>2. HasNames(q, j - 1)
    BY <1>1, TakesOneName
<1>. QED
    BY <1>1, <1>2

LEMMA KeepsNames ==
    ASSUME NEW s, NEW q, FreePaths(s) \subseteq FreePaths(q), NEW k \in Nat, HasNames(s, k)
    PROVE  HasNames(q, k)
<1>1. k <= Cardinality(FreePaths(s))
    BY DEF HasNames, FreePaths
<1>2. Cardinality(FreePaths(s)) <= Cardinality(FreePaths(q))
    BY FreePathsAreFinite, FS_Subset
<1>3. k <= Cardinality(FreePaths(q))
    BY <1>1, <1>2, FreePathsAreFinite
<1>. QED
    BY <1>3 DEF HasNames, FreePaths

\* While a path is free, the search for one ends, at none that lies beyond.
LEMMA SearchEnds ==
    ASSUME NEW s, s \in Intakes, NEW t \in Task \ s.names.stored, s.names.name[t] \in Path,
           FreePaths(s) # {}, NEW choice
    PROVE  /\ PathFor(s.names, t, choice) \in Path
           /\ \A f \in FreePaths(s) : PathFor(s.names, t, choice) <= f
           /\ FirstOpen(s.names, s.names.name[t]) \in Path
           /\ \A f \in FreePaths(s) : FirstOpen(s.names, s.names.name[t]) <= f
<1>. DEFINE n == s.names
            first == n.name[t]
            F == {p \in first..PathCount : ~IsExisting(n, p) \/ p = n.holds[t]}
            O == {p \in first..PathCount : ~IsExisting(n, p) \/ ~IsUnfinished(n, p)}
<1>1. first \in Nat /\ first >= 1
    BY DEF Path
<1>2. \A f \in FreePaths(s) : f \in F /\ f \in O
    BY <1>1, NamesAssumption DEF FreePaths, IsExisting, Path
<1>3. F \subseteq Path /\ O \subseteq Path /\ Path \subseteq Nat
    BY <1>1, NamesAssumption DEF Path
<1>4. Min(F) \in Path /\ Min(O) \in Path /\ \A f \in FreePaths(s) : Min(F) <= f /\ Min(O) <= f
    <2>. HIDE DEF F, O
    <2>. QED
        BY <1>2, <1>3, MinIsLeast
<1>. QED
    BY <1>4 DEF PathFor, FirstFree, FirstOpen

-----------------------------------------------------------------------------
(* The store.                                                              *)

\* Who owns the paths when t gives up its own.
OwnerWithout(n, t) ==
    [x \in Path |-> IF x = n.holds[t] /\ n.owner[x] = t THEN NoTask ELSE n.owner[x]]

LEMMA ReleasedGives ==
    ASSUME NEW n \in Names, NEW t
    PROVE  LET r == Released(n, t)
           IN  /\ r \in Names /\ r.stored = n.stored /\ r.name = n.name /\ r.file = n.file
               /\ r.completed = n.completed /\ r.gone = n.gone
               /\ r.holds = [n.holds EXCEPT ![t] = NoPath]
               /\ r.owner = OwnerWithout(n, t)
<1>. DEFINE h == [n.holds EXCEPT ![t] = NoPath]
            o == OwnerWithout(n, t)
            r == Released(n, t)
<1>1. h \in [Task -> Path \cup {NoPath}] /\ o \in [Path -> Task \cup {NoTask}]
    BY DEF Names, OwnerWithout
<1>2. r = [n EXCEPT !.holds = h, !.owner = o]
    BY DEF Released, Names, OwnerWithout
<1>. HIDE DEF h, o, r
<1>3. /\ r \in Names /\ r.stored = n.stored /\ r.name = n.name /\ r.file = n.file
      /\ r.completed = n.completed /\ r.gone = n.gone /\ r.holds = h /\ r.owner = o
    BY <1>1, <1>2 DEF Names
<1>. QED
    BY <1>3 DEF h, o, r

\* n after the task t was stored at p in the place of the task that had p.
IsStoredAt(n, q, t, p) ==
    LET u == n.owner[p]
    IN  /\ q \in Names
        /\ q.stored = (n.stored \ {u}) \cup {t}
        /\ q.name = [n.name EXCEPT ![t] = p]
        /\ q.holds = [v \in Task |-> IF v = t THEN p ELSE IF v = u THEN NoPath ELSE n.holds[v]]
        /\ q.owner = [n.owner EXCEPT ![p] = t]
        /\ q.file = [n.file EXCEPT ![p] = "empty"]
        /\ q.completed = n.completed /\ q.gone = n.gone

LEMMA StoredAtGives ==
    ASSUME NEW n \in Names, Claims(n), NEW t \in Task \ n.stored, NEW p \in Path
    PROVE  IsStoredAt(n, StoredAt(n, t, p), t, p)
<1>. DEFINE u == n.owner[p]
            before == IF u \in n.stored \ {t} THEN Removed(n, u) ELSE n
            added == [before EXCEPT !.file[p] = "empty", !.name[t] = p, !.stored = @ \cup {t}]
            q == Holding(added, t, p)
<1>1. StoredAt(n, t, p) = q
    BY DEF StoredAt, Replaced
<1>2. u # t /\ (u = NoTask \/ u \in n.stored) /\ n.stored \subseteq Task /\ NoTask \notin Task
    BY DEF Claims, Names, Task, NoTask
<1>3. /\ before \in Names /\ before.stored = n.stored \ {u} /\ before.name = n.name
      /\ before.holds = [v \in Task |-> IF v = u THEN NoPath ELSE n.holds[v]]
      /\ before.owner = [x \in Path |-> IF x = p /\ u # NoTask THEN NoTask ELSE n.owner[x]]
      /\ before.file = n.file /\ before.completed = n.completed /\ before.gone = n.gone
    <2>1. CASE u = NoTask
        <3>1. before = n
            BY <1>2, <2>1
        <3>. QED
            BY <1>2, <2>1, <3>1 DEF Names
    <2>2. CASE u # NoTask
        <3>1. before = Removed(n, u) /\ u \in n.stored
            BY <1>2, <2>2
        <3>2. n.holds[u] = p
            BY <2>2 DEF Claims
        <3>3. \A x \in Path : x # p => n.owner[x] # u
            BY <2>2, <3>2 DEF Claims
        <3>. HIDE DEF u, before
        <3>4. [n.holds EXCEPT ![u] = NoPath] = [v \in Task |-> IF v = u THEN NoPath ELSE n.holds[v]]
            BY <1>2, <3>1 DEF Names
        <3>6. /\ Removed(n, u) \in Names /\ Removed(n, u).stored = n.stored \ {u}
              /\ Removed(n, u).name = n.name /\ Removed(n, u).file = n.file
              /\ Removed(n, u).completed = n.completed /\ Removed(n, u).gone = n.gone
              /\ Removed(n, u).holds = [n.holds EXCEPT ![u] = NoPath]
              /\ Removed(n, u).owner = [x \in Path |-> IF x = p /\ n.owner[x] = u THEN NoTask ELSE n.owner[x]]
            <4>1. OwnerWithout(n, u)
                  = [x \in Path |-> IF x = p /\ n.owner[x] = u THEN NoTask ELSE n.owner[x]]
                BY <3>2 DEF OwnerWithout
            <4>. DEFINE r == Released(n, u)
            <4>2. /\ r \in Names /\ r.stored = n.stored /\ r.name = n.name /\ r.file = n.file
                  /\ r.completed = n.completed /\ r.gone = n.gone
                  /\ r.holds = [n.holds EXCEPT ![u] = NoPath]
                  /\ r.owner = OwnerWithout(n, u)
                BY ReleasedGives
            <4>3. Removed(n, u) = [r EXCEPT !.stored = n.stored \ {u}]
                BY <4>2 DEF Removed
            <4>. HIDE DEF r
            <4>. QED
                BY <4>1, <4>2, <4>3 DEF Names
        <3>7. [x \in Path |-> IF x = p /\ n.owner[x] = u THEN NoTask ELSE n.owner[x]]
              = [x \in Path |-> IF x = p /\ u # NoTask THEN NoTask ELSE n.owner[x]]
            BY <2>2 DEF u
        <3>. QED
            BY <3>1, <3>4, <3>6, <3>7
    <2>. QED
        BY <2>1, <2>2
<1>. HIDE DEF u, before
<1>4. /\ added \in Names /\ added.stored = (n.stored \ {u}) \cup {t}
      /\ added.name = [n.name EXCEPT ![t] = p] /\ added.holds = before.holds
      /\ added.owner = before.owner
      /\ added.file = [n.file EXCEPT ![p] = "empty"] /\ added.completed = n.completed
      /\ added.gone = n.gone
    BY <1>2, <1>3 DEF Names
<1>. HIDE DEF added
<1>5. \A x \in Path : added.owner[x] # t
    BY <1>2, <1>3, <1>4 DEF Claims
<1>6. Released(added, t) = [added EXCEPT !.holds = [added.holds EXCEPT ![t] = NoPath]]
    <2>1. [x \in Path |-> IF x = added.holds[t] /\ added.owner[x] = t THEN NoTask ELSE added.owner[x]]
          = added.owner
        BY <1>4, <1>5 DEF Names
    <2>. QED
        BY <1>4, <2>1 DEF Released, Names
<1>7. /\ q \in Names /\ q.stored = added.stored /\ q.name = added.name
      /\ q.holds = [added.holds EXCEPT ![t] = p] /\ q.owner = [added.owner EXCEPT ![p] = t]
      /\ q.file = added.file /\ q.completed = added.completed /\ q.gone = added.gone
    <2>. DEFINE r == Released(added, t)
    <2>1. /\ r \in Names /\ r.stored = added.stored /\ r.name = added.name
          /\ r.holds = [added.holds EXCEPT ![t] = NoPath] /\ r.owner = added.owner
          /\ r.file = added.file /\ r.completed = added.completed /\ r.gone = added.gone
        BY <1>4, <1>6 DEF Names
    <2>. HIDE DEF r
    <2>2. q = [r EXCEPT !.holds = [r.holds EXCEPT ![t] = p], !.owner = [r.owner EXCEPT ![p] = t]]
        BY <2>1 DEF Holding, r, Names
    <2>3. /\ [r.holds EXCEPT ![t] = p] \in [Task -> Path \cup {NoPath}]
          /\ [r.owner EXCEPT ![p] = t] \in [Path -> Task \cup {NoTask}]
        BY <2>1 DEF Names
    <2>4. [r.holds EXCEPT ![t] = p] = [added.holds EXCEPT ![t] = p]
        BY <1>4, <2>1 DEF Names
    <2>. HIDE DEF q
    <2>. QED
        BY <2>1, <2>2, <2>3, <2>4 DEF Names
<1>8. q.holds = [v \in Task |-> IF v = t THEN p ELSE IF v = u THEN NoPath ELSE n.holds[v]]
    BY <1>3, <1>4, <1>7
<1>9. q.owner = [n.owner EXCEPT ![p] = t]
    BY <1>3, <1>4, <1>7 DEF Names
<1>. HIDE DEF q
<1>. QED
    BY <1>1, <1>4, <1>7, <1>8, <1>9 DEF IsStoredAt, u

LEMMA StoredAtKeeps ==
    ASSUME NEW n \in Names, NEW q, NEW loose, NEW t \in Task \ n.stored, NEW p \in Path,
           Claims(n), Kept(n, loose), IsStoredAt(n, q, t, p)
    PROVE  Claims(q) /\ Kept(q, loose)
<1>. USE DEF IsStoredAt
<1>1. t # NoTask /\ n.owner[p] # t
    BY DEF Claims, Task, NoTask
<1>2. \A v \in n.stored \ {n.owner[p]} : v # t /\ v \in Task
    BY DEF Names
<1>3. ASSUME NEW v \in q.stored PROVE q.holds[v] = q.name[v] /\ q.name[v] \in Path
    BY <1>1, <1>2 DEF Claims, Names
<1>4. ASSUME NEW x \in Path, q.owner[x] # NoTask
      PROVE  q.owner[x] \in q.stored /\ q.holds[q.owner[x]] = x
    <2>1. CASE x = p
        BY <2>1 DEF Names
    <2>2. CASE x # p
        <3>1. q.owner[x] = n.owner[x]
            BY <2>2 DEF Names
        <3>2. n.owner[x] \in n.stored /\ n.holds[n.owner[x]] = x
            BY <1>4, <3>1 DEF Claims
        <3>3. n.owner[x] # n.owner[p]
            BY <2>2, <3>2 DEF Claims, Names, Task, NoTask
        <3>. QED
            BY <1>2, <3>1, <3>2, <3>3
    <2>. QED
        BY <2>1, <2>2
<1>5. ASSUME NEW v \in q.stored \ loose PROVE q.owner[q.name[v]] = v /\ q.file[q.name[v]] # "none"
    <2>1. CASE v = t
        BY <2>1 DEF Names
    <2>2. CASE v # t
        <3>1. v \in n.stored \ loose /\ v # n.owner[p] /\ v \in Task
            BY <2>2, <1>2
        <3>2. n.owner[n.name[v]] = v /\ n.file[n.name[v]] # "none" /\ n.name[v] \in Path
            BY <3>1 DEF Kept, Claims
        <3>3. n.name[v] # p /\ q.name[v] = n.name[v]
            BY <2>2, <3>1, <3>2 DEF Names
        <3>. QED
            BY <3>2, <3>3 DEF Names
    <2>. QED
        BY <2>1, <2>2
<1>. QED
    BY <1>3, <1>4, <1>5 DEF Claims, Kept

-----------------------------------------------------------------------------
(* The account of what was confirmed.                                      *)

LEMMA CountsAreNumbers ==
    ASSUME NEW s, NEW X, X \subseteq Task, NEW u
    PROVE  /\ IsFiniteSet(Awaited(s, u)) /\ Cardinality(Awaited(s, u)) \in Nat
           /\ IsFiniteSet(From(s, X, u)) /\ Cardinality(From(s, X, u)) \in Nat
<1>1. IsFiniteSet(Item) /\ IsFiniteSet(Task)
    BY NamesAssumption, IntakeAssumption, FS_Interval DEF Item, Task
<1>2. Awaited(s, u) \in SUBSET Item /\ From(s, X, u) \in SUBSET Task
    BY DEF Awaited, From
<1>. QED
    BY <1>1, <1>2, FS_Subset, FS_CardinalityType

\* What the account depends on.
LEMMA SameAccount ==
    ASSUME NEW s, NEW q, NEW X, Balanced(s, X), q.open = s.open,
           \A t \in X : q.url[t] = s.url[t],
           \A u \in Url : Awaited(q, u) = Awaited(s, u)
    PROVE  Balanced(q, X)
<1>1. \A u : From(q, X, u) = From(s, X, u)
    BY DEF From
<1>. QED
    BY <1>1 DEF Balanced

LEMMA AccountIsTyped ==
    ASSUME NEW o \in [Url -> Int], NEW x
    PROVE  [o EXCEPT ![x] = o[x] - 1] \in [Url -> Int] /\ [o EXCEPT ![x] = o[x] + 1] \in [Url -> Int]
<1>1. CASE x \in Url
    <2>1. o[x] - 1 \in Int /\ o[x] + 1 \in Int
        BY <1>1
    <2>2. ASSUME NEW v \in Int PROVE [o EXCEPT ![x] = v] \in [Url -> Int]
        OBVIOUS
    <2>. QED
        BY <2>1, <2>2
<1>2. CASE x \notin Url
    <2>1. [o EXCEPT ![x] = o[x] - 1] = o /\ [o EXCEPT ![x] = o[x] + 1] = o
        BY <1>2
    <2>. QED
        BY <2>1
<1>. QED
    BY <1>1, <1>2

\* One task less to account for.
LEMMA OneIsSettled ==
    ASSUME NEW s, s \in Intakes, NEW q, NEW X, X \subseteq Task, Balanced(s, X), NEW t \in X,
           q.open = [s.open EXCEPT ![s.url[t]] = s.open[s.url[t]] - 1],
           \A v \in X : q.url[v] = s.url[v],
           \A u \in Url : Awaited(q, u) = Awaited(s, u)
    PROVE  Balanced(q, X \ {t})
<1>. SUFFICES ASSUME NEW u \in Url
              PROVE  q.open[u] = Cardinality(Awaited(q, u)) + Cardinality(From(q, X \ {t}, u))
    BY DEF Balanced
<1>1. s.open[u] = Cardinality(Awaited(s, u)) + Cardinality(From(s, X, u))
    BY DEF Balanced
<1>2. From(q, X \ {t}, u) = From(s, X, u) \ {t}
    BY DEF From
<1>3. Cardinality(From(q, X \ {t}, u))
      = IF t \in From(s, X, u) THEN Cardinality(From(s, X, u)) - 1 ELSE Cardinality(From(s, X, u))
    BY <1>2, CountsAreNumbers, FS_RemoveElement
<1>4. t \in From(s, X, u) <=> s.url[t] = u
    BY DEF From
<1>5. q.open[u] = IF s.url[t] = u THEN s.open[u] - 1 ELSE s.open[u]
    BY DEF Intakes
<1>6. Cardinality(Awaited(q, u)) = Cardinality(Awaited(s, u))
    OBVIOUS
<1>. QED
    BY <1>1, <1>3, <1>4, <1>5, <1>6, CountsAreNumbers

-----------------------------------------------------------------------------
(* Adding a task.                                                          *)

SameDraft(s, q) == q.draft = s.draft /\ q.item = s.item /\ q.url = s.url
SameQueue(s, q) ==
    q.queue = s.queue /\ q.asked = s.asked /\ q.rest = s.rest /\ q.posted = s.posted /\ q.stuck = s.stuck

\* q is s with the task t settled: one of X less.
Takes(s, q, X, D, t) ==
    /\ Core(q, X \ {t}, D) /\ q.names.gone = s.names.gone /\ q.deleted = s.deleted
    /\ \E p : FreePaths(s) \ {p} \subseteq FreePaths(q)

LEMMA StoredTakes ==
    ASSUME NEW s, NEW X, NEW D, Core(s, X, D), NEW t \in X, FreePaths(s) # {}, NEW choice
    PROVE  LET q == Stored(s, t, choice)
           IN  Takes(s, q, X, D, t) /\ SameDraft(s, q) /\ SameQueue(s, q)
<1>. DEFINE n == s.names
            p == PathFor(n, t, choice)
            m == StoredAt(n, t, p)
            q == Stored(s, t, choice)
<1>1. /\ s \in Intakes /\ n \in Names /\ Claims(n) /\ Kept(n, s.loose) /\ Balanced(s, X)
      /\ t \in Task \ n.stored /\ n.name[t] \in Path
    BY DEF Core, Intakes
<1>2. p \in Path /\ \A f \in FreePaths(s) : p <= f
    BY <1>1, SearchEnds
<1>. HIDE DEF p
<1>3. IsStoredAt(n, m, t, p)
    BY <1>1, <1>2, StoredAtGives
<1>4. Claims(m) /\ Kept(m, s.loose)
    <2>. HIDE DEF m, n
    <2>. QED
        BY <1>1, <1>2, <1>3, StoredAtKeeps
<1>5. q = [s EXCEPT !.names = m, !.running = s.running \ {n.owner[p]},
                    !.open = [s.open EXCEPT ![s.url[t]] = s.open[s.url[t]] - 1]]
    BY <1>1 DEF Stored, Settled, Replaced, p, Intakes
<1>6. [s.open EXCEPT ![s.url[t]] = s.open[s.url[t]] - 1] \in [Url -> Int]
    BY <1>1, AccountIsTyped DEF Intakes
<1>. HIDE DEF m, q
<1>7. /\ q \in Intakes /\ q.names = m /\ q.loose = s.loose /\ q.deleted = s.deleted
      /\ q.open = [s.open EXCEPT ![s.url[t]] = s.open[s.url[t]] - 1]
      /\ SameDraft(s, q) /\ SameQueue(s, q)
    BY <1>1, <1>3, <1>5, <1>6 DEF Intakes, SameDraft, SameQueue, IsStoredAt
<1>8. Balanced(q, X \ {t})
    <2>1. \A u \in Url : Awaited(q, u) = Awaited(s, u)
        BY <1>7 DEF Awaited, SameDraft
    <2>. QED
        BY <1>1, <1>7, <2>1, OneIsSettled DEF SameDraft, Core
<1>9. Core(q, X \ {t}, D)
    <2>1. \A v \in ((X \ {t}) \cup D) : v # t
        BY DEF Core
    <2>2. Dying(q) = Dying(s)
        BY <1>7 DEF Dying
    <2>3. q.names.stored \subseteq n.stored \cup {t} /\ t \notin Dying(s)
        BY <1>3, <1>7 DEF IsStoredAt, Core
    <2>4. \A v \in (X \ {t}) \cup D : q.names.name[v] \in Path
        BY <1>1, <1>3, <1>7, <2>1 DEF IsStoredAt, Core, Names
    <2>. QED
        BY <1>4, <1>7, <1>8, <2>1, <2>2, <2>3, <2>4 DEF Core
<1>10. FreePaths(s) \ {p} \subseteq FreePaths(q)
    <2>. SUFFICES ASSUME NEW f \in FreePaths(s), f # p PROVE f \in FreePaths(q)
        OBVIOUS
    <2>1. f \in Path /\ m.file[f] = "none" /\ p <= f
        BY <1>1, <1>2, <1>3 DEF FreePaths, IsStoredAt, Names
    <2>2. ASSUME NEW v \in Task \ m.stored PROVE m.name[v] <= f
        <3>1. v # t /\ m.name[v] = n.name[v]
            BY <1>1, <1>3, <2>2 DEF IsStoredAt, Names
        <3>2. CASE v \in n.stored
            <4>1. v = n.owner[p] /\ v # NoTask
                BY <1>3, <2>2, <3>1, <3>2 DEF IsStoredAt, Task, NoTask
            <4>2. n.name[v] = p
                BY <1>1, <1>2, <3>2, <4>1 DEF Claims
            <4>. QED
                BY <2>1, <3>1, <4>2
        <3>3. CASE v \notin n.stored
            BY <3>1, <3>3 DEF FreePaths
        <3>. QED
            BY <3>2, <3>3
    <2>. QED
        BY <1>7, <2>1, <2>2 DEF FreePaths
<1>11. q.names.gone = s.names.gone
    BY <1>3, <1>7 DEF IsStoredAt
<1>. QED
    BY <1>7, <1>9, <1>10, <1>11 DEF Takes, q

LEMMA FromQueueTakes ==
    ASSUME NEW s, NEW X, NEW D, Core(s, X, D), NEW t \in X, NEW choice,
           ~AddFails(s.names) => FreePaths(s) # {}
    PROVE  LET q == AddFromQueue(s, t, choice)
           IN  Takes(s, q, X, D, t) /\ SameDraft(s, q) /\ SameQueue(s, q)
<1>. DEFINE q == AddFromQueue(s, t, choice)
<1>1. CASE AddFails(s.names)
    <2>1. q = [s EXCEPT !.open = [s.open EXCEPT ![s.url[t]] = s.open[s.url[t]] - 1]]
        BY <1>1 DEF AddFromQueue, Settled, Core, Intakes
    <2>a. s \in Intakes /\ [s.open EXCEPT ![s.url[t]] = s.open[s.url[t]] - 1] \in [Url -> Int]
        BY AccountIsTyped DEF Core, Intakes
    <2>2. /\ q \in Intakes /\ q.names = s.names /\ q.loose = s.loose /\ q.deleted = s.deleted
          /\ q.open = [s.open EXCEPT ![s.url[t]] = s.open[s.url[t]] - 1]
          /\ SameDraft(s, q) /\ SameQueue(s, q)
        BY <2>1, <2>a DEF Intakes, SameDraft, SameQueue
    <2>. HIDE DEF q
    <2>3. Balanced(q, X \ {t})
        <3>1. \A u \in Url : Awaited(q, u) = Awaited(s, u)
            BY <2>2 DEF Awaited, SameDraft
        <3>. QED
            BY <2>2, <3>1, OneIsSettled DEF SameDraft, Core
    <2>4. Core(q, X \ {t}, D) /\ FreePaths(q) = FreePaths(s)
        BY <2>2, <2>3 DEF Core, Dying, FreePaths
    <2>. QED
        BY <2>2, <2>4 DEF Takes, q
<1>2. CASE ~AddFails(s.names)
    BY <1>2, StoredTakes DEF AddFromQueue
<1>. QED
    BY <1>1, <1>2

\* A task of the queue as it is put there: its name changes at most.
Queues(s, q, X, D, t) ==
    /\ Core(q, X, D) /\ q.names.gone = s.names.gone /\ q.deleted = s.deleted
    /\ FreePaths(s) \subseteq FreePaths(q)
    /\ q.queue = Append(s.queue, t) /\ q.posted = (s.posted \/ s.asked = NoTask)
    /\ q.asked = s.asked /\ q.rest = s.rest /\ q.stuck = s.stuck

LEMMA ConflictedQueues ==
    ASSUME NEW s, NEW X, NEW D, Core(s, X, D), NEW t \in X, FreePaths(s) # {}
    PROVE  LET q == Conflicted([s EXCEPT !.names = AskedAbout(s.names, t)], t)
           IN  Queues(s, q, X, D, t) /\ SameDraft(s, q)
<1>. DEFINE n == s.names
            p == FirstOpen(n, n.name[t])
            m == AskedAbout(n, t)
            q == Conflicted([s EXCEPT !.names = m], t)
<1>1. /\ s \in Intakes /\ n \in Names /\ Claims(n) /\ Kept(n, s.loose) /\ Balanced(s, X)
      /\ t \in Task \ n.stored /\ n.name[t] \in Path
    BY DEF Core, Intakes
<1>2. p \in Path /\ \A f \in FreePaths(s) : p <= f
    BY <1>1, SearchEnds
<1>3. m = [n EXCEPT !.name = [n.name EXCEPT ![t] = p]]
    BY <1>1 DEF AskedAbout, Names
<1>. HIDE DEF p
<1>4. /\ m \in Names /\ m.stored = n.stored /\ m.holds = n.holds /\ m.owner = n.owner
      /\ m.file = n.file /\ m.gone = n.gone
      /\ \A v \in Task : m.name[v] = IF v = t THEN p ELSE n.name[v]
    <2>1. [n.name EXCEPT ![t] = p] \in [Task -> Path \cup {NoPath}]
        BY <1>1, <1>2 DEF Names
    <2>. QED
        BY <1>1, <1>3, <2>1 DEF Names
<1>. HIDE DEF m
<1>5. /\ q \in Intakes /\ q.names = m /\ q.deleted = s.deleted /\ q.open = s.open
      /\ q.loose = s.loose /\ SameDraft(s, q)
      /\ q.queue = Append(s.queue, t) /\ q.posted = (s.posted \/ s.asked = NoTask)
      /\ q.asked = s.asked /\ q.rest = s.rest /\ q.stuck = s.stuck
    <2>1. q = [s EXCEPT !.names = m, !.queue = Append(s.queue, t), !.posted = (s.posted \/ s.asked = NoTask)]
        BY <1>1 DEF Conflicted, Intakes
    <2>2. Append(s.queue, t) \in Seq(Task) /\ (s.posted \/ s.asked = NoTask) \in BOOLEAN
        BY <1>1 DEF Intakes
    <2>. HIDE DEF q
    <2>. QED
        BY <1>1, <1>4, <2>1, <2>2 DEF Intakes, SameDraft
<1>. HIDE DEF q
<1>6. n.stored \subseteq Task /\ X \cup D \subseteq Task
    BY <1>1 DEF Names, Core
<1>7. Claims(m) /\ Kept(m, s.loose)
    BY <1>1, <1>4, <1>6 DEF Claims, Kept
<1>8. Balanced(q, X)
    <2>1. \A u \in Url : Awaited(q, u) = Awaited(s, u)
        BY <1>5 DEF Awaited, SameDraft
    <2>. QED
        BY <1>1, <1>5, <2>1, SameAccount DEF SameDraft
<1>9. Core(q, X, D)
    <2>1. Dying(q) = Dying(s)
        BY <1>5 DEF Dying
    <2>2. \A v \in X \cup D : q.names.name[v] \in Path
        BY <1>2, <1>4, <1>5, <1>6 DEF Core
    <2>. QED
        BY <1>4, <1>5, <1>7, <1>8, <2>1, <2>2 DEF Core
<1>10. FreePaths(s) \subseteq FreePaths(q)
    BY <1>2, <1>4, <1>5 DEF FreePaths
<1>. QED
    BY <1>4, <1>5, <1>9, <1>10 DEF Queues, q, m

-----------------------------------------------------------------------------
(* The draft.                                                              *)

SameStore(s, q) == q.names = s.names /\ q.loose = s.loose /\ q.deleted = s.deleted

\* The draft d with the items f, and the account o.
Redrafted(s, d, f, o) == [s EXCEPT !.draft = d, !.item = f, !.open = o]

LEMMA DraftIsTyped ==
    ASSUME NEW s, s \in Intakes, NEW d \in SUBSET Item, NEW f \in [Item -> Items],
           NEW o \in [Url -> Int], NEW q, q = Redrafted(s, d, f, o)
    PROVE  /\ q \in Intakes /\ q.draft = d /\ q.item = f /\ q.open = o /\ q.url = s.url
           /\ SameStore(s, q) /\ SameQueue(s, q)
BY DEF Redrafted, Intakes, SameStore, SameQueue

\* Tasks that are settled, or change from those to add to those of the draft.
LEMMA CoreMoves ==
    ASSUME NEW s, NEW X, NEW D, Core(s, X, D), NEW q, q \in Intakes, SameStore(s, q),
           NEW Y, NEW E, Y \cup E \subseteq X \cup D, Y \cap E = {}, Balanced(q, Y)
    PROVE  Core(q, Y, E)
<1>1. Dying(q) = Dying(s)
    BY DEF SameStore, Dying
<1>. QED
    BY <1>1 DEF Core, SameStore

LEMMA SubmittedIsItem ==
    ASSUME NEW u \in Url \cup {NoUrl}
    PROVE  /\ Submitted(u) \in Items /\ Whole(Submitted(u)) /\ Submitted(u).url = u
           /\ Submitted(u).task = NoTask /\ ~Submitted(u).confirmed
BY DEF Submitted, Blank, Items, Whole, NoTask, Task

\* q is s after the task t came to the draft, or found its link there with a task.
Drafts(s, q, t) ==
    /\ DraftInOrder(q) /\ InDraft(q) \subseteq InDraft(s) \cup {t} /\ q.url = s.url
    /\ \A u \in Url : Awaited(q, u) = Awaited(s, u)
    /\ \E i : NewItems(s) \ {i} \subseteq NewItems(q)

LEMMA AddParsedDrafts ==
    ASSUME NEW s, s \in Intakes, DraftInOrder(s), NEW t \in Task \ InDraft(s), NewItems(s) # {}
    PROVE  LET q == AddParsed(s, t)
           IN  /\ q \in Intakes /\ SameStore(s, q) /\ SameQueue(s, q) /\ q.open = s.open
               /\ Drafts(s, q, t)
<1>. DEFINE u == s.url[t]
            i == ItemFor(s, u)
            old == IF i \in s.draft THEN Withdrawn(s.item[i]) ELSE [Blank EXCEPT !.url = u]
            it == [old EXCEPT !.task = t, !.failed = FALSE]
            q == AddParsed(s, t)
<1>1. NewItems(s) \subseteq Nat /\ NewItems(s) \subseteq Item
    BY DEF NewItems, Item
<1>2. Min(NewItems(s)) \in NewItems(s)
    BY <1>1, MinIsLeast
<1>3. u \in Url \cup {NoUrl} /\ s.item \in [Item -> Items] /\ s.draft \subseteq Item /\ t # NoTask
    <2>1. t # NoTask
        BY DEF Task, NoTask
    <2>. QED
        BY <2>1 DEF Intakes
<1>4. \/ i \in ItemsOf(s, u)
      \/ ItemsOf(s, u) = {} /\ i \in NewItems(s)
    BY <1>2 DEF ItemFor
<1>5. i \in Item /\ (i \in s.draft => s.item[i].url = u)
    BY <1>1, <1>3, <1>4 DEF ItemsOf, NewItems, IsKnownItem
<1>6. CASE i \in s.draft /\ s.item[i].task # NoTask
    <2>1. q = s
        BY <1>6 DEF AddParsed
    <2>. QED
        BY <2>1 DEF SameStore, SameQueue, Drafts
<1>7. CASE ~(i \in s.draft /\ s.item[i].task # NoTask)
    <2>1. q = [s EXCEPT !.draft = s.draft \cup {i}, !.item = [s.item EXCEPT ![i] = it]]
        BY <1>7 DEF AddParsed
    <2>2. /\ old \in Items /\ old.url = u /\ ~old.confirmed /\ ~old.parse
        <3>1. CASE i \in s.draft
            <4>1. s.item[i] \in Items /\ ~s.item[i].confirmed /\ s.item[i].url = u
                BY <1>3, <1>5, <3>1 DEF DraftInOrder, Whole
            <4>2. old = Withdrawn(s.item[i])
                BY <3>1
            <4>. HIDE DEF i, u, old
            <4>. QED
                BY <4>1, <4>2 DEF Withdrawn, Items
        <3>2. CASE i \notin s.draft
            <4>1. old = [Blank EXCEPT !.url = u]
                BY <3>2
            <4>. HIDE DEF i, u, old
            <4>. QED
                BY <1>3, <4>1 DEF Blank, Items, NoTask
        <3>. QED
            BY <3>1, <3>2
    <2>. HIDE DEF old
    <2>3. /\ it \in Items /\ it.url = u /\ ~it.confirmed /\ ~it.parse /\ it.task = t /\ ~it.failed
        BY <2>2 DEF Items
    <2>. HIDE DEF i, it
    <2>4. [s.item EXCEPT ![i] = it] \in [Item -> Items] /\ s.draft \cup {i} \in SUBSET Item
        BY <1>3, <1>5, <2>3
    <2>5. /\ q \in Intakes /\ SameStore(s, q) /\ SameQueue(s, q) /\ q.open = s.open /\ q.url = s.url
          /\ q.draft = s.draft \cup {i} /\ q.item = [s.item EXCEPT ![i] = it]
        <3>1. q = Redrafted(s, s.draft \cup {i}, [s.item EXCEPT ![i] = it], s.open)
            BY <2>1 DEF Redrafted, Intakes
        <3>2. s.open \in [Url -> Int]
            BY DEF Intakes
        <3>. HIDE DEF q
        <3>. QED
            BY <2>4, <3>1, <3>2, DraftIsTyped
    <2>. HIDE DEF q
    <2>6. \A j \in Item : q.item[j] = IF j = i THEN it ELSE s.item[j]
        BY <1>3, <1>5, <2>5
    <2>7. \A j \in s.draft : j \in Item /\ (j # i => s.item[j].url # u /\ s.item[j].task # t)
        <3>1. ASSUME NEW j \in s.draft, j # i PROVE s.item[j].url # u
            BY <1>4, <1>5, <3>1 DEF ItemsOf, DraftInOrder
        <3>2. ASSUME NEW j \in s.draft PROVE s.item[j].task # t
            BY <1>3 DEF InDraft
        <3>. QED
            BY <1>3, <3>1, <3>2
    <2>8. DraftInOrder(q)
        <3>1. ASSUME NEW j \in q.draft, NEW k \in q.draft, q.item[j].url = q.item[k].url PROVE j = k
            BY <1>5, <2>3, <2>5, <2>6, <2>7, <3>1 DEF DraftInOrder
        <3>2. ASSUME NEW j \in q.draft, NEW k \in q.draft, q.item[j].task = q.item[k].task,
                     q.item[j].task # NoTask
              PROVE  j = k
            BY <1>5, <2>3, <2>5, <2>6, <2>7, <3>2 DEF DraftInOrder
        <3>3. ASSUME NEW j \in q.draft
              PROVE  /\ Whole(q.item[j])
                     /\ q.item[j].task # NoTask => q.url[q.item[j].task] = q.item[j].url
            <4>1. CASE j = i
                BY <1>3, <1>5, <2>3, <2>5, <2>6, <4>1 DEF Whole
            <4>2. CASE j # i
                BY <1>3, <2>5, <2>6, <2>7, <4>2 DEF DraftInOrder
            <4>. QED
                BY <4>1, <4>2
        <3>4. ASSUME NEW j \in Item \ q.draft, q.item[j].confirmed PROVE q.item[j].task = NoTask
            BY <2>5, <2>6, <3>4 DEF DraftInOrder
        <3>. QED
            BY <3>1, <3>2, <3>3, <3>4 DEF DraftInOrder
    <2>9. InDraft(q) \subseteq InDraft(s) \cup {t}
        BY <1>5, <2>3, <2>5, <2>6, <2>7 DEF InDraft
    <2>10. ASSUME NEW v \in Url PROVE Awaited(q, v) = Awaited(s, v)
        <3>1. i \notin Awaited(q, v)
            BY <1>5, <2>3, <2>6 DEF Awaited
        <3>2. i \notin Awaited(s, v)
            BY <1>4 DEF Awaited, NewItems, IsKnownItem, ItemsOf, DraftInOrder, Whole
        <3>. QED
            BY <2>6, <3>1, <3>2 DEF Awaited
    <2>11. NewItems(s) \ {i} \subseteq NewItems(q)
        BY <2>5, <2>6 DEF NewItems, IsKnownItem
    <2>. QED
        BY <2>5, <2>8, <2>9, <2>10, <2>11 DEF Drafts, q
<1>. QED
    BY <1>6, <1>7

\* A task that comes back: one less to add.
LEMMA ReturnedDrafts ==
    ASSUME NEW s, NEW X, Core(s, X, InDraft(s)), DraftInOrder(s), NEW t \in X, NewItems(s) # {}
    PROVE  LET q == Returned(s, t)
           IN  /\ Core(q, X \ {t}, InDraft(q)) /\ SameStore(s, q) /\ SameQueue(s, q)
               /\ Drafts(s, q, t)
<1>. DEFINE r == AddParsed(s, t)
            q == Returned(s, t)
            o == [r.open EXCEPT ![s.url[t]] = r.open[s.url[t]] - 1]
<1>1. s \in Intakes /\ t \in Task \ InDraft(s) /\ X \subseteq Task /\ Balanced(s, X)
    BY DEF Core
<1>2. /\ r \in Intakes /\ SameStore(s, r) /\ SameQueue(s, r) /\ r.open = s.open
      /\ Drafts(s, r, t)
    BY <1>1, AddParsedDrafts
<1>3. r.open \in [Url -> Int] /\ r.draft \in SUBSET Item /\ r.item \in [Item -> Items]
    <2>. HIDE DEF r
    <2>. QED
        BY <1>2 DEF Intakes
<1>4. o \in [Url -> Int]
    <2>. HIDE DEF r
    <2>. QED
        BY <1>3, AccountIsTyped
<1>5. q = Redrafted(r, r.draft, r.item, o)
    <2>1. q = [r EXCEPT !.open = o]
        BY DEF Returned, Settled
    <2>. HIDE DEF q, r, o
    <2>. QED
        BY <1>2, <2>1 DEF Redrafted, Intakes
<1>. HIDE DEF r, o, q
<1>6. /\ q \in Intakes /\ q.draft = r.draft /\ q.item = r.item /\ q.open = o /\ q.url = r.url
      /\ SameStore(r, q) /\ SameQueue(r, q)
    BY <1>2, <1>3, <1>4, <1>5, DraftIsTyped
<1>7. SameStore(s, q) /\ SameQueue(s, q)
    BY <1>2, <1>6 DEF SameStore, SameQueue
<1>8. Drafts(s, q, t)
    <2>1. /\ InDraft(q) = InDraft(r) /\ NewItems(q) = NewItems(r) /\ DraftInOrder(q)
          /\ \A u : Awaited(q, u) = Awaited(r, u)
        BY <1>2, <1>6 DEF InDraft, NewItems, IsKnownItem, Awaited, DraftInOrder, Drafts
    <2>. QED
        BY <1>2, <1>6, <2>1 DEF Drafts
<1>9. Balanced(q, X \ {t})
    <2>1. \A u \in Url : Awaited(q, u) = Awaited(s, u)
        BY <1>8 DEF Drafts
    <2>2. q.open = [s.open EXCEPT ![s.url[t]] = s.open[s.url[t]] - 1]
        BY <1>2, <1>6 DEF o
    <2>3. \A v \in X : q.url[v] = s.url[v]
        BY <1>8 DEF Drafts
    <2>. QED
        BY <1>1, <2>1, <2>2, <2>3, OneIsSettled
<1>10. Core(q, X \ {t}, InDraft(q))
    <2>1. (X \ {t}) \cup InDraft(q) \subseteq X \cup InDraft(s) /\ (X \ {t}) \cap InDraft(q) = {}
        BY <1>8 DEF Drafts, Core
    <2>. QED
        BY <1>6, <1>7, <1>9, <2>1, CoreMoves
<1>. QED
    BY <1>7, <1>8, <1>10 DEF q

-----------------------------------------------------------------------------
(* Room for more items.                                                    *)

LEMMA NewItemsAreFinite ==
    ASSUME NEW s
    PROVE  IsFiniteSet(NewItems(s)) /\ Cardinality(NewItems(s)) \in Nat
<1>1. IsFiniteSet(Item)
    BY IntakeAssumption, FS_Interval DEF Item
<1>2. NewItems(s) \in SUBSET Item
    BY DEF NewItems
<1>. QED
    BY <1>1, <1>2, FS_Subset, FS_CardinalityType

LEMMA ItemsAreThere ==
    ASSUME NEW s, NEW k \in Nat, k >= 1, HasItems(s, k)
    PROVE  NewItems(s) # {}
BY NewItemsAreFinite, FS_EmptySet DEF HasItems

LEMMA TakesOneItem ==
    ASSUME NEW s, NEW q, NEW i, NewItems(s) \ {i} \subseteq NewItems(q),
           NEW k \in Nat, k >= 1, HasItems(s, k)
    PROVE  HasItems(q, k - 1)
<1>1. k <= Cardinality(NewItems(s))
    BY NewItemsAreFinite DEF HasItems
<1>2. /\ IsFiniteSet(NewItems(s) \ {i})
      /\ Cardinality(NewItems(s) \ {i}) \in {Cardinality(NewItems(s)), Cardinality(NewItems(s)) - 1}
    BY NewItemsAreFinite, FS_RemoveElement
<1>3. Cardinality(NewItems(s) \ {i}) <= Cardinality(NewItems(q))
    BY NewItemsAreFinite, FS_Subset
<1>. QED
    BY <1>1, <1>2, <1>3, NewItemsAreFinite DEF HasItems

-----------------------------------------------------------------------------
(* The conflict queue.                                                     *)

LEMMA AppendedTask ==
    ASSUME NEW seq \in Seq(Task), NEW t \in Task
    PROVE  /\ Range(Append(seq, t)) = Range(seq) \cup {t} /\ Range(seq) \subseteq Task
           /\ Append(seq, t) \in Seq(Task) /\ Len(Append(seq, t)) = Len(seq) + 1
           /\ Len(seq) \in Nat
           /\ t \notin Range(seq) /\ Distinct(seq) => Distinct(Append(seq, t))
<1>. DEFINE a == Append(seq, t)
            N == Len(seq)
<1>1. /\ a \in Seq(Task) /\ Len(a) = N + 1 /\ N \in Nat
      /\ \A i \in 1..N : a[i] = seq[i]
      /\ a[N + 1] = t
    BY AppendProperties, LenProperties
<1>2. /\ Range(a) = {a[i] : i \in 1..(N + 1)} /\ Range(seq) = {seq[i] : i \in 1..N}
      /\ Range(seq) \subseteq Task
    BY <1>1, RangeEquality, RangeOfSeq
<1>. HIDE DEF a, N
<1>3. \A i \in 1..(N + 1) : i \in 1..N \/ i = N + 1
    BY <1>1
<1>4. N + 1 \in 1..(N + 1) /\ \A i \in 1..N : i \in 1..(N + 1)
    BY <1>1
<1>5. Range(a) = Range(seq) \cup {t}
    BY <1>1, <1>2, <1>3, <1>4
<1>6. ASSUME t \notin Range(seq), Distinct(seq) PROVE Distinct(a)
    <2>1. \A i \in 1..N : seq[i] # t
        BY <1>2, <1>6
    <2>2. \A i, j \in 1..N : seq[i] = seq[j] => i = j
        BY <1>6 DEF Distinct, N
    <2>. QED
        BY <1>1, <1>3, <2>1, <2>2 DEF Distinct
<1>. QED
    BY <1>1, <1>2, <1>5, <1>6 DEF a, N

\* One more task in the queue, which is asked about or will be.
LEMMA QueuedInOrder ==
    ASSUME NEW s, s \in Intakes, QueueInOrder(s), NEW t \in Task \ InQueue(s), NEW q,
           q.queue = Append(s.queue, t), q.posted = (s.posted \/ s.asked = NoTask),
           q.asked = s.asked, q.rest = s.rest
    PROVE  QueueInOrder(q) /\ InQueue(q) = InQueue(s) \cup {t}
<1>1. s.queue \in Seq(Task) /\ s.rest \in Nat /\ t # NoTask
    BY DEF Intakes, Task, NoTask
<1>2. t \notin Range(s.queue) /\ t # s.asked
    BY <1>1 DEF InQueue
<1>3. /\ Range(q.queue) = Range(s.queue) \cup {t} /\ Distinct(q.queue)
      /\ Len(q.queue) = Len(s.queue) + 1 /\ Len(s.queue) \in Nat
    BY <1>1, <1>2, AppendedTask DEF QueueInOrder
<1>4. InQueue(q) = InQueue(s) \cup {t}
    BY <1>1, <1>3 DEF InQueue
<1>5. q.rest <= Len(q.queue) /\ q.asked \notin Range(q.queue)
    BY <1>1, <1>2, <1>3 DEF QueueInOrder
<1>6. q.asked # NoTask \/ q.posted
    OBVIOUS
<1>7. q.posted => q.asked = NoTask
    BY DEF QueueInOrder
<1>. QED
    BY <1>3, <1>4, <1>5, <1>6, <1>7 DEF QueueInOrder

LEMMA SameQueueInOrder ==
    ASSUME NEW s, NEW q, SameQueue(s, q), QueueInOrder(s)
    PROVE  QueueInOrder(q) /\ InQueue(q) = InQueue(s)
BY DEF SameQueue, QueueInOrder, InQueue

LEMMA SameDraftInOrder ==
    ASSUME NEW s, NEW q, SameDraft(s, q)
    PROVE  /\ InDraft(q) = InDraft(s) /\ NewItems(q) = NewItems(s)
           /\ DraftInOrder(s) => DraftInOrder(q)
BY DEF SameDraft, DraftInOrder, InDraft, NewItems, IsKnownItem

\* The names a task is asked about, as AddOrDraft has them.
LEMMA AskedAboutNames ==
    ASSUME NEW s, s \in Intakes, NEW t
    PROVE  [s EXCEPT !.names = AskedAbout(@, t)] = [s EXCEPT !.names = AskedAbout(s.names, t)]
BY DEF Intakes

\* A new task that is added is stored, in the queue, or in the draft.
LEMMA AddOrDraftIsSane ==
    ASSUME NEW s, NEW t \in Task \ InQueue(s), Core(s, InQueue(s) \cup {t}, InDraft(s)),
           DraftInOrder(s), QueueInOrder(s), NewItems(s) # {}, FreePaths(s) # {}, NEW choice
    PROVE  Sane(AddOrDraft(s, t, choice))
<1>. DEFINE X == InQueue(s) \cup {t}
            q == AddOrDraft(s, t, choice)
<1>1. s \in Intakes /\ X \ {t} = InQueue(s)
    BY DEF Core
<1>2. CASE AddFails(s.names)
    <2>1. q = Returned(s, t)
        BY <1>2 DEF AddOrDraft
    <2>. HIDE DEF q
    <2>2. Core(q, X \ {t}, InDraft(q)) /\ SameQueue(s, q) /\ Drafts(s, q, t)
        BY <2>1, ReturnedDrafts
    <2>. QED
        BY <1>1, <2>2, SameQueueInOrder DEF Sane, Drafts, q
<1>3. CASE ~AddFails(s.names) /\ Asks(s.names, t, choice)
    <2>1. q = Conflicted([s EXCEPT !.names = AskedAbout(s.names, t)], t)
        BY <1>1, <1>3, AskedAboutNames DEF AddOrDraft
    <2>. HIDE DEF q
    <2>2. Queues(s, q, X, InDraft(s), t) /\ SameDraft(s, q)
        BY <2>1, ConflictedQueues
    <2>3. QueueInOrder(q) /\ InQueue(q) = X
        BY <1>1, <2>2, QueuedInOrder DEF Queues
    <2>. QED
        BY <2>2, <2>3, SameDraftInOrder DEF Sane, Queues, q
<1>4. CASE ~AddFails(s.names) /\ ~Asks(s.names, t, choice)
    <2>1. q = Stored(s, t, choice)
        BY <1>4 DEF AddOrDraft
    <2>. HIDE DEF q
    <2>2. Takes(s, q, X, InDraft(s), t) /\ SameDraft(s, q) /\ SameQueue(s, q)
        BY <2>1, StoredTakes
    <2>. QED
        BY <1>1, <2>2, SameQueueInOrder, SameDraftInOrder DEF Sane, Takes, q
<1>. QED
    BY <1>2, <1>3, <1>4

-----------------------------------------------------------------------------
(* The tasks of a draft that is confirmed, in their order.                 *)

RestOf(T, n) == {t \in T : t > n}

LEMMA RestShrinks ==
    ASSUME NEW T, T \subseteq Task, NEW n \in 1..TaskCount
    PROVE  /\ Cardinality(RestOf(T, n)) \in Nat /\ Cardinality(RestOf(T, n - 1)) \in Nat
           /\ n \in T => /\ n \in RestOf(T, n - 1) /\ RestOf(T, n) = RestOf(T, n - 1) \ {n}
                         /\ Cardinality(RestOf(T, n)) = Cardinality(RestOf(T, n - 1)) - 1
                         /\ Cardinality(RestOf(T, n - 1)) >= 1
           /\ n \notin T => RestOf(T, n) = RestOf(T, n - 1)
<1>1. IsFiniteSet(Task) /\ T \subseteq Nat
    BY NamesAssumption, FS_Interval DEF Task
<1>2. RestOf(T, n) \in SUBSET Task /\ RestOf(T, n - 1) \in SUBSET Task
    BY DEF RestOf
<1>3. /\ IsFiniteSet(RestOf(T, n)) /\ Cardinality(RestOf(T, n)) \in Nat
      /\ IsFiniteSet(RestOf(T, n - 1)) /\ Cardinality(RestOf(T, n - 1)) \in Nat
    BY <1>1, <1>2, FS_Subset, FS_CardinalityType
<1>4. /\ n \in T => n \in RestOf(T, n - 1) /\ RestOf(T, n) = RestOf(T, n - 1) \ {n}
      /\ n \notin T => RestOf(T, n) = RestOf(T, n - 1)
    <2>1. n \in Nat /\ \A t \in T : t \in Nat /\ (t > n - 1 <=> t > n \/ t = n)
        BY <1>1, NamesAssumption
    <2>2. n > n - 1 /\ ~(n > n)
        BY <2>1
    <2>. QED
        BY <2>1, <2>2 DEF RestOf
<1>5. n \in T => Cardinality(RestOf(T, n)) = Cardinality(RestOf(T, n - 1)) - 1
    BY <1>3, <1>4, FS_RemoveElement
<1>. QED
    BY <1>3, <1>4, <1>5

LEMMA RestEnds ==
    ASSUME NEW T, T \subseteq Task
    PROVE  RestOf(T, 0) = T /\ RestOf(T, TaskCount) = {}
<1>1. \A t \in T : t > 0 /\ ~(t > TaskCount)
    BY NamesAssumption DEF Task
<1>. QED
    BY <1>1 DEF RestOf

\* After the tasks up to n have been added.
Adding(s, T, n) ==
    {q \in Intakes : /\ Core(q, InQueue(q) \cup RestOf(T, n), {}) /\ InQueue(q) \cap RestOf(T, n) = {}
                     /\ QueueInOrder(q) /\ SameDraft(s, q) /\ ~AddFails(q.names)
                     /\ HasNames(q, Cardinality(RestOf(T, n)))}

LEMMA AddingGoesOn ==
    ASSUME NEW s, NEW T, T \subseteq Task, NEW n \in 1..TaskCount, NEW q \in Adding(s, T, n - 1),
           NEW choice
    PROVE  (IF n \in T THEN AddOrDraft(q, n, choice) ELSE q) \in Adding(s, T, n)
<1>. DEFINE R == RestOf(T, n - 1)
            X == InQueue(q) \cup R
            r == AddOrDraft(q, n, choice)
<1>1. CASE n \notin T
    BY <1>1, RestShrinks DEF Adding
<1>2. CASE n \in T
    <2>1. /\ q \in Intakes /\ Core(q, X, {}) /\ InQueue(q) \cap R = {} /\ QueueInOrder(q)
          /\ SameDraft(s, q) /\ ~AddFails(q.names) /\ HasNames(q, Cardinality(R))
        BY DEF Adding
    <2>2. /\ n \in R /\ RestOf(T, n) = R \ {n} /\ Cardinality(RestOf(T, n)) = Cardinality(R) - 1
          /\ Cardinality(R) >= 1 /\ Cardinality(R) \in Nat /\ Cardinality(RestOf(T, n)) \in Nat
        BY <1>2, RestShrinks
    <2>3. n \in X /\ n \in Task \ InQueue(q) /\ X \ {n} = InQueue(q) \cup RestOf(T, n)
        BY <1>2, <2>1, <2>2
    <2>4. FreePaths(q) # {}
        BY <2>1, <2>2, NamesAreThere
    <2>. HIDE DEF X, R
    <2>5. CASE Asks(q.names, n, choice)
        <3>1. r = Conflicted([q EXCEPT !.names = AskedAbout(q.names, n)], n)
            BY <2>1, <2>5, AskedAboutNames DEF AddOrDraft
        <3>. HIDE DEF r
        <3>2. Queues(q, r, X, {}, n) /\ SameDraft(q, r)
            BY <2>1, <2>3, <2>4, <3>1, ConflictedQueues
        <3>3. QueueInOrder(r) /\ InQueue(r) = InQueue(q) \cup {n}
            BY <2>1, <2>3, <3>2, QueuedInOrder DEF Queues
        <3>4. X = InQueue(r) \cup RestOf(T, n) /\ InQueue(r) \cap RestOf(T, n) = {}
            BY <2>1, <2>2, <3>3 DEF X
        <3>5. HasNames(r, Cardinality(R))
            BY <2>1, <2>2, <3>2, KeepsNames DEF Queues
        <3>6. HasNames(r, Cardinality(RestOf(T, n)))
            <4>1. FreePaths(r) \ {n} \subseteq FreePaths(r)
                OBVIOUS
            <4>. QED
                BY <2>2, <3>5, <4>1, TakesOneName
        <3>7. SameDraft(s, r)
            BY <2>1, <3>2 DEF SameDraft
        <3>8. r \in Intakes /\ ~AddFails(r.names)
            BY <2>1, <3>2 DEF Queues, Core, AddFails
        <3>9. r \in Adding(s, T, n)
            BY <3>2, <3>3, <3>4, <3>6, <3>7, <3>8 DEF Adding, Queues
        <3>. QED
            BY <1>2, <3>9 DEF r
    <2>6. CASE ~Asks(q.names, n, choice)
        <3>1. r = Stored(q, n, choice)
            BY <2>1, <2>6 DEF AddOrDraft
        <3>. HIDE DEF r
        <3>2. Takes(q, r, X, {}, n) /\ SameDraft(q, r) /\ SameQueue(q, r)
            BY <2>1, <2>3, <2>4, <3>1, StoredTakes
        <3>3. QueueInOrder(r) /\ InQueue(r) = InQueue(q)
            BY <2>1, <3>2, SameQueueInOrder
        <3>4. HasNames(r, Cardinality(RestOf(T, n)))
            BY <2>1, <2>2, <3>2, TakesOneName DEF Takes
        <3>5. SameDraft(s, r)
            BY <2>1, <3>2 DEF SameDraft
        <3>6. r \in Intakes /\ ~AddFails(r.names)
            BY <2>1, <3>2 DEF Takes, Core, AddFails
        <3>7. InQueue(r) \cap RestOf(T, n) = {}
            BY <2>1, <2>2, <3>3
        <3>8. r \in Adding(s, T, n)
            BY <2>3, <3>2, <3>3, <3>4, <3>5, <3>6, <3>7 DEF Adding, Takes
        <3>. QED
            BY <1>2, <3>8 DEF r
    <2>. QED
        BY <2>5, <2>6
<1>. QED
    BY <1>1, <1>2

LEMMA AllAreAdded ==
    ASSUME NEW s, NEW T, T \subseteq Task, s \in Adding(s, T, 0), NEW choice
    PROVE  AddedAll(s, T, choice) \in Adding(s, T, TaskCount)
<1>. DEFINE N == TaskCount
            body(f) == [n \in 0..N |-> IF n = 0 THEN s
                                       ELSE IF n \in T THEN AddOrDraft(f[n - 1], n, choice) ELSE f[n - 1]]
            added == CHOOSE f : f = body(f)
            next(q, n) == IF n \in T THEN AddOrDraft(q, n, choice) ELSE q
            P == [n \in 0..N |-> Adding(s, T, n)]
            op == [n \in 1..N |-> [q \in Intakes |-> IF q \in P[n - 1] THEN next(q, n) ELSE q]]
<1>1. AddedAll(s, T, choice) = added[N]
    BY DEF AddedAll
<1>2. s \in Intakes /\ N \in Nat /\ s \in P[0] /\ \A n \in 0..N : P[n] \subseteq Intakes
    BY NamesAssumption DEF Adding
<1>3. ASSUME NEW n \in 1..N, NEW q \in P[n - 1] PROVE next(q, n) \in P[n]
    <2>1. n \in 0..N /\ n - 1 \in 0..N
        BY <1>2
    <2>. QED
        BY <1>3, <2>1, AddingGoesOn
<1>. HIDE DEF N, P, next
<1>4. op \in [1..N -> [Intakes -> Intakes]]
    BY <1>2, <1>3
<1>5. PICK g \in [0..N -> Intakes] : Iterates(g, N, s, op)
    <2>. HIDE DEF op
    <2>. QED
        BY <1>2, <1>4, IterationExists
<1>6. \A n \in 0..N : g[n] \in P[n]
    <2>1. g[0] \in P[0]
        BY <1>2, <1>5 DEF Iterates, TakesSteps
    <2>2. ASSUME NEW n \in 1..N, g[n - 1] \in P[n - 1] PROVE g[n] \in P[n]
        <3>1. n - 1 \in 0..N /\ g[n - 1] \in Intakes /\ g[n] = op[n][g[n - 1]]
            BY <1>2, <1>5 DEF Iterates, TakesSteps
        <3>2. g[n] = next(g[n - 1], n)
            BY <2>2, <3>1
        <3>. QED
            BY <1>3, <2>2, <3>2
    <2>. HIDE DEF op
    <2>. QED
        BY <1>2, <2>1, <2>2, StepsAlong
<1>7. body(g) = g
    <2>. DEFINE b == body(g)
    <2>1. \A n \in 1..N : n - 1 \in 0..N /\ n \in 0..N /\ n # 0 /\ g[n - 1] \in P[n - 1] /\ g[n - 1] \in Intakes
        BY <1>2, <1>5, <1>6
    <2>2. FunctionTo(b, N)
        BY <1>2 DEF FunctionTo
    <2>3. b[0] = s /\ \A n \in 1..N : b[n] = next(g[n - 1], n)
        BY <1>2, <2>1 DEF next
    <2>4. \A n \in 1..N : op[n][g[n - 1]] = next(g[n - 1], n)
        BY <2>1
    <2>. HIDE DEF b, op
    <2>5. TakesSteps(b, g, N, s, op)
        BY <2>3, <2>4 DEF TakesSteps
    <2>6. b = g
        BY <1>2, <1>5, <2>2, <2>5, SameIteration
    <2>. QED
        BY <2>6 DEF b
<1>8. added = body(added)
    <2>. HIDE DEF body
    <2>. QED
        BY <1>7, Zenon
<1>. HIDE DEF added
<1>9. added[0] \in P[0]
    BY <1>2, <1>8
<1>10. ASSUME NEW n \in 1..N, added[n - 1] \in P[n - 1] PROVE added[n] \in P[n]
    <2>1. n \in 0..N /\ n # 0
        BY <1>2
    <2>2. added[n] = next(added[n - 1], n)
        BY <1>8, <2>1 DEF next
    <2>. QED
        BY <1>3, <1>10, <2>2
<1>11. \A n \in 0..N : added[n] \in P[n]
    <2>. HIDE DEF body
    <2>. QED
        BY <1>2, <1>9, <1>10, StepsAlong
<1>12. N \in 0..N
    BY <1>2
<1>. QED
    BY <1>1, <1>11, <1>12 DEF P, N

\* After the tasks up to n have come back.
Returning(T, n) ==
    {q \in Intakes : /\ Core(q, InQueue(q) \cup RestOf(T, n), InDraft(q)) /\ InQueue(q) \cap RestOf(T, n) = {}
                     /\ QueueInOrder(q) /\ DraftInOrder(q) /\ HasItems(q, Cardinality(RestOf(T, n)))}

LEMMA ReturningGoesOn ==
    ASSUME NEW T, T \subseteq Task, NEW n \in 1..TaskCount, NEW q \in Returning(T, n - 1)
    PROVE  (IF n \in T THEN Returned(q, n) ELSE q) \in Returning(T, n)
<1>. DEFINE R == RestOf(T, n - 1)
            X == InQueue(q) \cup R
            r == Returned(q, n)
<1>1. CASE n \notin T
    BY <1>1, RestShrinks DEF Returning
<1>2. CASE n \in T
    <2>1. /\ q \in Intakes /\ Core(q, X, InDraft(q)) /\ InQueue(q) \cap R = {} /\ QueueInOrder(q)
          /\ DraftInOrder(q) /\ HasItems(q, Cardinality(R))
        BY DEF Returning
    <2>2. /\ n \in R /\ RestOf(T, n) = R \ {n} /\ Cardinality(RestOf(T, n)) = Cardinality(R) - 1
          /\ Cardinality(R) >= 1 /\ Cardinality(R) \in Nat
        BY <1>2, RestShrinks
    <2>3. n \in X /\ X \ {n} = InQueue(q) \cup RestOf(T, n)
        BY <1>2, <2>1, <2>2
    <2>4. NewItems(q) # {}
        BY <2>1, <2>2, ItemsAreThere
    <2>. HIDE DEF X, R, r
    <2>5. /\ Core(r, X \ {n}, InDraft(r)) /\ SameStore(q, r) /\ SameQueue(q, r)
          /\ Drafts(q, r, n)
        BY <2>1, <2>3, <2>4, ReturnedDrafts DEF r
    <2>6. QueueInOrder(r) /\ InQueue(r) = InQueue(q)
        BY <2>1, <2>5, SameQueueInOrder
    <2>7. HasItems(r, Cardinality(RestOf(T, n)))
        <3>1. PICK i : NewItems(q) \ {i} \subseteq NewItems(r)
            BY <2>5 DEF Drafts
        <3>2. HasItems(r, Cardinality(R) - 1)
            BY <2>1, <2>2, <3>1, TakesOneItem
        <3>. QED
            BY <2>2, <3>2
    <2>8. InQueue(r) \cap RestOf(T, n) = {}
        BY <2>1, <2>2, <2>6
    <2>9. r \in Returning(T, n)
        BY <2>3, <2>5, <2>6, <2>7, <2>8 DEF Returning, Drafts, Core
    <2>. QED
        BY <1>2, <2>9 DEF r
<1>. QED
    BY <1>1, <1>2

LEMMA AllAreReturned ==
    ASSUME NEW T, T \subseteq Task, NEW s \in Returning(T, 0)
    PROVE  ReturnedAll(s, T) \in Returning(T, TaskCount)
<1>. DEFINE N == TaskCount
            body(f) == [n \in 0..N |-> IF n = 0 THEN s
                                       ELSE IF n \in T THEN Returned(f[n - 1], n) ELSE f[n - 1]]
            returned == CHOOSE f : f = body(f)
            next(q, n) == IF n \in T THEN Returned(q, n) ELSE q
            P == [n \in 0..N |-> Returning(T, n)]
            op == [n \in 1..N |-> [q \in Intakes |-> IF q \in P[n - 1] THEN next(q, n) ELSE q]]
<1>1. ReturnedAll(s, T) = returned[N]
    BY DEF ReturnedAll
<1>2. s \in Intakes /\ N \in Nat /\ s \in P[0] /\ \A n \in 0..N : P[n] \subseteq Intakes
    BY NamesAssumption DEF Returning
<1>3. ASSUME NEW n \in 1..N, NEW q \in P[n - 1] PROVE next(q, n) \in P[n]
    <2>1. n \in 0..N /\ n - 1 \in 0..N
        BY <1>2
    <2>. QED
        BY <1>3, <2>1, ReturningGoesOn
<1>. HIDE DEF N, P, next
<1>4. op \in [1..N -> [Intakes -> Intakes]]
    BY <1>2, <1>3
<1>5. PICK g \in [0..N -> Intakes] : Iterates(g, N, s, op)
    <2>. HIDE DEF op
    <2>. QED
        BY <1>2, <1>4, IterationExists
<1>6. \A n \in 0..N : g[n] \in P[n]
    <2>1. g[0] \in P[0]
        BY <1>2, <1>5 DEF Iterates, TakesSteps
    <2>2. ASSUME NEW n \in 1..N, g[n - 1] \in P[n - 1] PROVE g[n] \in P[n]
        <3>1. n - 1 \in 0..N /\ g[n - 1] \in Intakes /\ g[n] = op[n][g[n - 1]]
            BY <1>2, <1>5 DEF Iterates, TakesSteps
        <3>2. g[n] = next(g[n - 1], n)
            BY <2>2, <3>1
        <3>. QED
            BY <1>3, <2>2, <3>2
    <2>. HIDE DEF op
    <2>. QED
        BY <1>2, <2>1, <2>2, StepsAlong
<1>7. body(g) = g
    <2>. DEFINE b == body(g)
    <2>1. \A n \in 1..N : n - 1 \in 0..N /\ n \in 0..N /\ n # 0 /\ g[n - 1] \in P[n - 1] /\ g[n - 1] \in Intakes
        BY <1>2, <1>5, <1>6
    <2>2. FunctionTo(b, N)
        BY <1>2 DEF FunctionTo
    <2>3. b[0] = s /\ \A n \in 1..N : b[n] = next(g[n - 1], n)
        BY <1>2, <2>1 DEF next
    <2>4. \A n \in 1..N : op[n][g[n - 1]] = next(g[n - 1], n)
        BY <2>1
    <2>. HIDE DEF b, op
    <2>5. TakesSteps(b, g, N, s, op)
        BY <2>3, <2>4 DEF TakesSteps
    <2>6. b = g
        BY <1>2, <1>5, <2>2, <2>5, SameIteration
    <2>. QED
        BY <2>6 DEF b
<1>8. returned = body(returned)
    <2>. HIDE DEF body
    <2>. QED
        BY <1>7, Zenon
<1>. HIDE DEF returned
<1>9. returned[0] \in P[0]
    BY <1>2, <1>8
<1>10. ASSUME NEW n \in 1..N, returned[n - 1] \in P[n - 1] PROVE returned[n] \in P[n]
    <2>1. n \in 0..N /\ n # 0
        BY <1>2
    <2>2. returned[n] = next(returned[n - 1], n)
        BY <1>8, <2>1 DEF next
    <2>. QED
        BY <1>3, <1>10, <2>2
<1>11. \A n \in 0..N : returned[n] \in P[n]
    <2>. HIDE DEF body
    <2>. QED
        BY <1>2, <1>9, <1>10, StepsAlong
<1>12. N \in 0..N
    BY <1>2
<1>. QED
    BY <1>1, <1>11, <1>12 DEF P, N

-----------------------------------------------------------------------------
(* The tasks of the queue, in their order.                                 *)

\* The elements of seq after the first n.
After(seq, n) == {seq[k] : k \in (n + 1)..Len(seq)}

LEMMA AfterShrinks ==
    ASSUME NEW seq \in Seq(Task), Distinct(seq), NEW n \in 1..Len(seq)
    PROVE  seq[n] \in Task /\ seq[n] \in After(seq, n - 1) /\ After(seq, n) = After(seq, n - 1) \ {seq[n]}
<1>1. Len(seq) \in Nat /\ seq[n] \in Task
    BY LenProperties, ElementOfSeq
<1>. DEFINE N == Len(seq)
<1>2. \A i, j \in 1..N : seq[i] = seq[j] => i = j
    BY DEF Distinct
<1>. HIDE DEF N
<1>3. (n - 1 + 1)..N = n..N /\ n \in n..N /\ N \in Nat
    BY <1>1 DEF N
<1>4. \A k \in n..N : k \in 1..N /\ (k = n \/ k \in (n + 1)..N)
    BY <1>3
<1>5. \A k \in (n + 1)..N : k \in n..N /\ k # n /\ k \in 1..N
    BY <1>3
<1>6. After(seq, n - 1) = {seq[k] : k \in n..N} /\ After(seq, n) = {seq[k] : k \in (n + 1)..N}
    BY <1>3 DEF After, N
<1>7. n \in 1..N
    BY DEF N
<1>. QED
    BY <1>1, <1>2, <1>3, <1>4, <1>5, <1>6, <1>7

LEMMA AfterStartsAndEnds ==
    ASSUME NEW seq \in Seq(Task)
    PROVE  After(seq, 0) = Range(seq) /\ After(seq, Len(seq)) = {}
<1>1. Len(seq) \in Nat /\ Range(seq) = {seq[k] : k \in 1..Len(seq)}
    BY LenProperties, RangeEquality
<1>. QED
    BY <1>1 DEF After

\* The queue and the question about it.
Requeued(s, queue, asked, rest, posted, stuck) ==
    [s EXCEPT !.queue = queue, !.asked = asked, !.rest = rest, !.posted = posted, !.stuck = stuck]

LEMMA OnlyTheQueue ==
    ASSUME NEW s, NEW X, NEW D, Core(s, X, D), NEW q, q \in Intakes, SameStore(s, q),
           SameDraft(s, q), q.open = s.open
    PROVE  Core(q, X, D) /\ FreePaths(q) = FreePaths(s)
<1>1. Dying(q) = Dying(s) /\ FreePaths(q) = FreePaths(s)
    BY DEF SameStore, Dying, FreePaths
<1>2. \A u : Awaited(q, u) = Awaited(s, u) /\ From(q, X, u) = From(s, X, u)
    BY DEF SameDraft, Awaited, From
<1>3. Balanced(q, X)
    BY <1>2 DEF Core, Balanced
<1>. QED
    BY <1>1, <1>3 DEF Core, SameStore

\* After the first n tasks of the list were added by the queue, with room for more.
InTurn(s, tasks, D, room, n) ==
    {q \in Intakes : /\ Core(q, Range(q.queue) \cup After(tasks, n), D)
                     /\ SameQueue(s, q) /\ SameDraft(s, q) /\ q.deleted = s.deleted
                     /\ HasNames(q, room + Len(tasks) - n)}

LEMMA InTurnGoesOn ==
    ASSUME NEW s, NEW tasks \in Seq(Task), Distinct(tasks), Range(tasks) \cap Range(s.queue) = {},
           NEW D, NEW room \in Nat, NEW n \in 1..Len(tasks), NEW q \in InTurn(s, tasks, D, room, n - 1),
           NEW choice
    PROVE  AddFromQueue(q, tasks[n], choice) \in InTurn(s, tasks, D, room, n)
<1>. DEFINE t == tasks[n]
            X == Range(q.queue) \cup After(tasks, n - 1)
            r == AddFromQueue(q, t, choice)
            k == room + Len(tasks) - n
<1>1. /\ q \in Intakes /\ Core(q, X, D) /\ SameQueue(s, q) /\ SameDraft(s, q) /\ q.deleted = s.deleted
      /\ HasNames(q, room + Len(tasks) - (n - 1))
    BY DEF InTurn
<1>2. t \in X /\ After(tasks, n) = After(tasks, n - 1) \ {t} /\ t \in After(tasks, n - 1)
    BY AfterShrinks
<1>3. Len(tasks) \in Nat /\ k \in Nat /\ k + 1 \in Nat /\ k + 1 >= 1 /\ room + Len(tasks) - (n - 1) = k + 1
    BY LenProperties
<1>4. FreePaths(q) # {} /\ HasNames(q, k + 1)
    BY <1>1, <1>3, NamesAreThere
<1>5. t \in Range(tasks)
    BY RangeEquality
<1>. HIDE DEF X, t, r, k
<1>6. Takes(q, r, X, D, t) /\ SameDraft(q, r) /\ SameQueue(q, r)
    BY <1>1, <1>2, <1>4, FromQueueTakes DEF r
<1>7. X \ {t} = Range(r.queue) \cup After(tasks, n)
    <2>1. Range(q.queue) = Range(s.queue) /\ Range(r.queue) = Range(s.queue)
        BY <1>1, <1>6 DEF SameQueue
    <2>. QED
        BY <1>2, <1>5, <2>1 DEF X
<1>8. HasNames(r, k)
    <2>1. PICK p : FreePaths(q) \ {p} \subseteq FreePaths(r)
        BY <1>6 DEF Takes
    <2>. QED
        BY <1>3, <1>4, <2>1, LeavesNames
<1>9. SameQueue(s, r) /\ SameDraft(s, r) /\ r.deleted = s.deleted
    BY <1>1, <1>6 DEF SameQueue, SameDraft, Takes
<1>10. r \in InTurn(s, tasks, D, room, n)
    BY <1>6, <1>7, <1>8, <1>9 DEF InTurn, Takes, Core, k
<1>. QED
    BY <1>10 DEF r, t

LEMMA AllTakeTheirTurn ==
    ASSUME NEW s, NEW tasks \in Seq(Task), Distinct(tasks), Range(tasks) \cap Range(s.queue) = {},
           NEW D, NEW room \in Nat, s \in InTurn(s, tasks, D, room, 0), NEW choice
    PROVE  AddedInTurn(s, tasks, choice) \in InTurn(s, tasks, D, room, Len(tasks))
<1>. DEFINE N == Len(tasks)
            body(f) == [n \in 0..N |-> IF n = 0 THEN s ELSE AddFromQueue(f[n - 1], tasks[n], choice)]
            added == CHOOSE f : f = body(f)
            next(q, n) == AddFromQueue(q, tasks[n], choice)
            P == [n \in 0..N |-> InTurn(s, tasks, D, room, n)]
            op == [n \in 1..N |-> [q \in Intakes |-> IF q \in P[n - 1] THEN next(q, n) ELSE q]]
<1>1. AddedInTurn(s, tasks, choice) = added[N]
    BY DEF AddedInTurn
<1>2. s \in Intakes /\ N \in Nat /\ s \in P[0] /\ \A n \in 0..N : P[n] \subseteq Intakes
    BY LenProperties DEF InTurn
<1>3. ASSUME NEW n \in 1..N, NEW q \in P[n - 1] PROVE next(q, n) \in P[n]
    <2>1. n \in 0..N /\ n - 1 \in 0..N
        BY <1>2
    <2>. QED
        BY <1>3, <2>1, InTurnGoesOn
<1>. HIDE DEF N, P, next
<1>4. op \in [1..N -> [Intakes -> Intakes]]
    BY <1>2, <1>3
<1>5. PICK g \in [0..N -> Intakes] : Iterates(g, N, s, op)
    <2>. HIDE DEF op
    <2>. QED
        BY <1>2, <1>4, IterationExists
<1>6. \A n \in 0..N : g[n] \in P[n]
    <2>1. g[0] \in P[0]
        BY <1>2, <1>5 DEF Iterates, TakesSteps
    <2>2. ASSUME NEW n \in 1..N, g[n - 1] \in P[n - 1] PROVE g[n] \in P[n]
        <3>1. n - 1 \in 0..N /\ g[n - 1] \in Intakes /\ g[n] = op[n][g[n - 1]]
            BY <1>2, <1>5 DEF Iterates, TakesSteps
        <3>2. g[n] = next(g[n - 1], n)
            BY <2>2, <3>1
        <3>. QED
            BY <1>3, <2>2, <3>2
    <2>. HIDE DEF op
    <2>. QED
        BY <1>2, <2>1, <2>2, StepsAlong
<1>7. body(g) = g
    <2>. DEFINE b == body(g)
    <2>1. \A n \in 1..N : n - 1 \in 0..N /\ n \in 0..N /\ n # 0 /\ g[n - 1] \in P[n - 1] /\ g[n - 1] \in Intakes
        BY <1>2, <1>5, <1>6
    <2>2. FunctionTo(b, N)
        BY <1>2 DEF FunctionTo
    <2>3. b[0] = s /\ \A n \in 1..N : b[n] = next(g[n - 1], n)
        BY <1>2, <2>1 DEF next
    <2>4. \A n \in 1..N : op[n][g[n - 1]] = next(g[n - 1], n)
        BY <2>1
    <2>. HIDE DEF b, op
    <2>5. TakesSteps(b, g, N, s, op)
        BY <2>3, <2>4 DEF TakesSteps
    <2>6. b = g
        BY <1>2, <1>5, <2>2, <2>5, SameIteration
    <2>. QED
        BY <2>6 DEF b
<1>8. added = body(added)
    <2>. HIDE DEF body
    <2>. QED
        BY <1>7, Zenon
<1>. HIDE DEF added
<1>9. added[0] \in P[0]
    BY <1>2, <1>8
<1>10. ASSUME NEW n \in 1..N, added[n - 1] \in P[n - 1] PROVE added[n] \in P[n]
    <2>1. n \in 0..N /\ n # 0
        BY <1>2
    <2>2. added[n] = next(added[n - 1], n)
        BY <1>8, <2>1 DEF next
    <2>. QED
        BY <1>3, <1>10, <2>2
<1>11. \A n \in 0..N : added[n] \in P[n]
    <2>. HIDE DEF body
    <2>. QED
        BY <1>2, <1>9, <1>10, StepsAlong
<1>12. N \in 0..N
    BY <1>2
<1>. QED
    BY <1>1, <1>11, <1>12 DEF P, N

-----------------------------------------------------------------------------
(* _refresh.                                                               *)

\* After n turns of its loop over the tasks of the list.
Turning(s, tasks, D, n) ==
    {q \in Intakes :
        /\ Core(q, InQueue(q) \cup After(tasks, n), D) /\ InQueue(q) \cap After(tasks, n) = {}
        /\ SameDraft(s, q) /\ q.deleted = s.deleted /\ HasNames(q, Len(tasks) - n)
        /\ Distinct(q.queue) /\ q.asked \notin Range(q.queue) /\ ~q.posted
        /\ q.queue # <<>> => q.asked # NoTask \/ q.stuck}

LEMMA TurningGoesOn ==
    ASSUME NEW s, NEW tasks \in Seq(Task), Distinct(tasks), NEW D, NEW n \in 1..Len(tasks),
           NEW q \in Turning(s, tasks, D, n - 1)
    PROVE  NextConflict(q, tasks[n]) \in Turning(s, tasks, D, n)
<1>. DEFINE t == tasks[n]
            A == After(tasks, n - 1)
            X == InQueue(q) \cup A
            r == NextConflict(q, t)
            k == Len(tasks) - n
<1>1. /\ q \in Intakes /\ Core(q, X, D) /\ InQueue(q) \cap A = {}
      /\ SameDraft(s, q) /\ q.deleted = s.deleted /\ HasNames(q, Len(tasks) - (n - 1))
      /\ Distinct(q.queue) /\ q.asked \notin Range(q.queue) /\ ~q.posted
      /\ q.queue # <<>> => q.asked # NoTask \/ q.stuck
    BY DEF Turning
<1>2. t \in Task /\ t \in A /\ After(tasks, n) = A \ {t} /\ t # NoTask
    BY AfterShrinks DEF Task, NoTask
<1>3. Len(tasks) \in Nat /\ k \in Nat /\ k + 1 \in Nat /\ k + 1 >= 1 /\ Len(tasks) - (n - 1) = k + 1
    BY LenProperties
<1>4. FreePaths(q) # {} /\ HasNames(q, k + 1)
    BY <1>1, <1>3, NamesAreThere
<1>5. /\ q.queue \in Seq(Task) /\ q.asked \in Task \cup {NoTask} /\ q.rest \in Nat
      /\ q.posted \in BOOLEAN /\ q.stuck \in BOOLEAN
    BY <1>1 DEF Intakes
<1>6. t \notin Range(q.queue) /\ t # q.asked
    BY <1>1, <1>2 DEF InQueue
<1>. HIDE DEF t, A, X, r, k
<1>7. HasNames(q, k)
    <2>1. FreePaths(q) \ {t} \subseteq FreePaths(q)
        OBVIOUS
    <2>. QED
        BY <1>3, <1>4, <2>1, LeavesNames
<1>8. CASE q.asked # NoTask \/ q.stuck
    <2>1. r = Requeued(q, Append(q.queue, t), q.asked, q.rest, q.posted, q.stuck)
        BY <1>1, <1>8 DEF r, NextConflict, Requeued, Intakes
    <2>2. /\ Range(Append(q.queue, t)) = Range(q.queue) \cup {t} /\ Append(q.queue, t) \in Seq(Task)
          /\ Distinct(Append(q.queue, t))
        BY <1>1, <1>2, <1>5, <1>6, AppendedTask
    <2>3. /\ r \in Intakes /\ r.queue = Append(q.queue, t) /\ r.asked = q.asked
          /\ r.posted = q.posted /\ r.stuck = q.stuck
          /\ SameStore(q, r) /\ SameDraft(q, r) /\ r.open = q.open
        <3>. DEFINE a == Append(q.queue, t)
        <3>1. a \in Seq(Task) /\ r = Requeued(q, a, q.asked, q.rest, q.posted, q.stuck)
            BY <2>1, <2>2
        <3>. HIDE DEF a
        <3>2. /\ r \in Intakes /\ r.queue = a /\ r.asked = q.asked
              /\ r.posted = q.posted /\ r.stuck = q.stuck
              /\ SameStore(q, r) /\ SameDraft(q, r) /\ r.open = q.open
            BY <1>1, <1>5, <3>1 DEF Requeued, Intakes, SameStore, SameDraft
        <3>. QED
            BY <3>2 DEF a
    <2>4. Core(r, X, D) /\ FreePaths(r) = FreePaths(q)
        BY <1>1, <2>3, OnlyTheQueue
    <2>5. InQueue(r) = InQueue(q) \cup {t}
        BY <1>2, <2>2, <2>3 DEF InQueue
    <2>6. X = InQueue(r) \cup After(tasks, n) /\ InQueue(r) \cap After(tasks, n) = {}
        BY <1>1, <1>2, <2>5 DEF X
    <2>7. HasNames(r, k)
        BY <1>3, <1>7, <2>4, KeepsNames
    <2>8. SameDraft(s, r) /\ r.deleted = s.deleted
        BY <1>1, <2>3 DEF SameDraft, SameStore
    <2>. QED
        BY <1>1, <1>6, <1>8, <2>2, <2>3, <2>4, <2>6, <2>7, <2>8 DEF Turning, r, t, k
<1>9. CASE q.asked = NoTask /\ ~q.stuck /\ IsTaken(q.names, q.names.name[t])
    <2>1. r = Requeued(q, q.queue, t, q.rest, q.posted, q.stuck)
        BY <1>1, <1>9 DEF r, NextConflict, Requeued, Intakes
    <2>3. /\ r \in Intakes /\ r.queue = q.queue /\ r.asked = t
          /\ r.posted = q.posted /\ r.stuck = q.stuck
          /\ SameStore(q, r) /\ SameDraft(q, r) /\ r.open = q.open
        BY <1>1, <1>2, <1>5, <2>1 DEF Requeued, Intakes, SameStore, SameDraft
    <2>4. Core(r, X, D) /\ FreePaths(r) = FreePaths(q)
        BY <1>1, <2>3, OnlyTheQueue
    <2>5. InQueue(r) = InQueue(q) \cup {t}
        BY <1>2, <1>9, <2>3 DEF InQueue
    <2>6. X = InQueue(r) \cup After(tasks, n) /\ InQueue(r) \cap After(tasks, n) = {}
        BY <1>1, <1>2, <2>5 DEF X
    <2>7. HasNames(r, k)
        BY <1>3, <1>7, <2>4, KeepsNames
    <2>8. SameDraft(s, r) /\ r.deleted = s.deleted
        BY <1>1, <2>3 DEF SameDraft, SameStore
    <2>. QED
        BY <1>1, <1>2, <1>6, <1>9, <2>3, <2>4, <2>6, <2>7, <2>8 DEF Turning, r, t, k
<1>10. CASE q.asked = NoTask /\ ~q.stuck /\ ~IsTaken(q.names, q.names.name[t])
    <2>. DEFINE m == AddFromQueue(q, t, "keepBoth")
    <2>0. t \in X
        BY <1>2 DEF X
    <2>1. Takes(q, m, X, D, t) /\ SameDraft(q, m) /\ SameQueue(q, m)
        BY <1>1, <1>4, <2>0, FromQueueTakes
    <2>. HIDE DEF m
    <2>2. Core(m, X \ {t}, D) /\ m \in Intakes
        BY <2>1 DEF Takes, Core
    <2>3. r = Requeued(m, m.queue, m.asked, m.rest, m.posted, AddFails(q.names))
        BY <1>10, <2>2 DEF r, m, NextConflict, Requeued, Intakes
    <2>4. /\ m.queue \in Seq(Task) /\ m.asked \in Task \cup {NoTask} /\ m.rest \in Nat
          /\ m.posted \in BOOLEAN /\ AddFails(q.names) \in BOOLEAN
        BY <1>1, <2>2 DEF Intakes, AddFails, Names
    <2>5. /\ r \in Intakes /\ r.queue = m.queue /\ r.asked = m.asked /\ r.posted = m.posted
          /\ SameStore(m, r) /\ SameDraft(m, r) /\ r.open = m.open
        <3>. DEFINE fails == AddFails(q.names)
        <3>1. fails \in BOOLEAN /\ r = Requeued(m, m.queue, m.asked, m.rest, m.posted, fails)
            BY <2>3, <2>4
        <3>. HIDE DEF fails
        <3>. QED
            BY <2>2, <2>4, <3>1 DEF Requeued, Intakes, SameStore, SameDraft
    <2>6. Core(r, X \ {t}, D) /\ FreePaths(r) = FreePaths(m)
        BY <2>2, <2>5, OnlyTheQueue
    <2>7. r.queue = q.queue /\ r.asked = q.asked /\ r.posted = q.posted /\ q.queue = <<>>
        BY <1>1, <1>10, <2>1, <2>5 DEF SameQueue
    <2>8. InQueue(r) = InQueue(q) /\ X \ {t} = InQueue(r) \cup After(tasks, n)
          /\ InQueue(r) \cap After(tasks, n) = {}
        BY <1>1, <1>2, <2>7 DEF InQueue, X
    <2>9. HasNames(r, k)
        <3>1. PICK p : FreePaths(q) \ {p} \subseteq FreePaths(r)
            BY <2>1, <2>6 DEF Takes
        <3>. QED
            BY <1>3, <1>4, <3>1, LeavesNames
    <2>10. SameDraft(s, r) /\ r.deleted = s.deleted
        BY <1>1, <2>1, <2>5 DEF SameDraft, SameStore, Takes
    <2>. QED
        BY <1>1, <2>5, <2>6, <2>7, <2>8, <2>9, <2>10 DEF Turning, r, t, k
<1>. QED
    BY <1>8, <1>9, <1>10 DEF r, t

LEMMA RefreshedKeeps ==
    ASSUME NEW s, NEW D, Core(s, Range(s.queue), D), Distinct(s.queue),
           HasNames(s, Len(s.queue))
    PROVE  LET q == Refreshed(s)
           IN  Core(q, InQueue(q), D) /\ QueueInOrder(q) /\ SameDraft(s, q)
<1>. DEFINE tasks == s.queue
            N == Len(tasks)
            s0 == [s EXCEPT !.posted = FALSE, !.asked = NoTask, !.stuck = FALSE, !.queue = <<>>]
            body(f) == [n \in 0..N |-> IF n = 0 THEN s0 ELSE NextConflict(f[n - 1], tasks[n])]
            turn == CHOOSE f : f = body(f)
            over == turn[N]
            next(q, n) == NextConflict(q, tasks[n])
            P == [n \in 0..N |-> Turning(s, tasks, D, n)]
            op == [n \in 1..N |-> [q \in Intakes |-> IF q \in P[n - 1] THEN next(q, n) ELSE q]]
<1>1. Refreshed(s) = [over EXCEPT !.rest = IF over.asked = NoTask THEN 0 ELSE Len(over.queue)]
    BY DEF Refreshed
<1>a. s \in Intakes /\ tasks \in Seq(Task) /\ N \in Nat
    BY LenProperties DEF Core, Intakes
<1>b. s0 \in Turning(s, tasks, D, 0)
    <2>1. s0 = Requeued(s, <<>>, NoTask, s.rest, FALSE, FALSE)
        BY <1>a DEF Requeued, Intakes
    <2>2. <<>> \in Seq(Task) /\ Len(<<>>) = 0 /\ Range(<<>>) = {} /\ Distinct(<<>>)
        <3>1. <<>> \in Seq(Task) /\ Len(<<>>) = 0
            BY EmptySeq
        <3>2. Range(<<>>) = {<<>>[i] : i \in 1..0}
            BY <3>1, RangeEquality
        <3>. QED
            BY <3>1, <3>2 DEF Distinct
    <2>. HIDE DEF s0, tasks, N
    <2>3. /\ s0 \in Intakes /\ s0.queue = <<>> /\ s0.asked = NoTask /\ s0.posted = FALSE
          /\ SameStore(s, s0) /\ SameDraft(s, s0) /\ s0.open = s.open
        BY <1>a, <2>1, <2>2 DEF Requeued, Intakes, SameStore, SameDraft
    <2>4. Core(s0, Range(s.queue), D) /\ FreePaths(s0) = FreePaths(s)
        BY <2>3, OnlyTheQueue
    <2>5. InQueue(s0) = {} /\ After(tasks, 0) = Range(s.queue)
        BY <1>a, <2>2, <2>3, AfterStartsAndEnds DEF InQueue, tasks
    <2>6. HasNames(s0, N - 0)
        <3>1. N - 0 = N /\ HasNames(s, N)
            BY <1>a DEF N, tasks
        <3>2. HasNames(s0, N)
            BY <1>a, <2>4, <3>1, KeepsNames
        <3>. QED
            BY <3>1, <3>2
    <2>. QED
        BY <2>2, <2>3, <2>4, <2>5, <2>6 DEF Turning, SameStore, N
<1>2. s0 \in Intakes /\ s0 \in P[0] /\ \A n \in 0..N : P[n] \subseteq Intakes
    <2>. HIDE DEF s0, tasks
    <2>. QED
        BY <1>a, <1>b DEF Turning
<1>3. ASSUME NEW n \in 1..N, NEW q \in P[n - 1] PROVE next(q, n) \in P[n]
    <2>1. n \in 0..N /\ n - 1 \in 0..N
        BY <1>a
    <2>. QED
        BY <1>a, <1>3, <2>1, TurningGoesOn
<1>. HIDE DEF N, P, next, s0, tasks
<1>4. op \in [1..N -> [Intakes -> Intakes]]
    BY <1>2, <1>3, <1>a
<1>5. PICK g \in [0..N -> Intakes] : Iterates(g, N, s0, op)
    <2>. HIDE DEF op
    <2>. QED
        BY <1>2, <1>4, <1>a, IterationExists
<1>6. \A n \in 0..N : g[n] \in P[n]
    <2>1. g[0] \in P[0]
        BY <1>2, <1>5 DEF Iterates, TakesSteps
    <2>2. ASSUME NEW n \in 1..N, g[n - 1] \in P[n - 1] PROVE g[n] \in P[n]
        <3>1. n - 1 \in 0..N /\ g[n - 1] \in Intakes /\ g[n] = op[n][g[n - 1]]
            BY <1>a, <1>5 DEF Iterates, TakesSteps
        <3>2. g[n] = next(g[n - 1], n)
            BY <2>2, <3>1
        <3>. QED
            BY <1>3, <2>2, <3>2
    <2>. HIDE DEF op
    <2>. QED
        BY <1>a, <2>1, <2>2, StepsAlong
<1>7. body(g) = g
    <2>. DEFINE b == body(g)
    <2>1. \A n \in 1..N : n - 1 \in 0..N /\ n \in 0..N /\ n # 0 /\ g[n - 1] \in P[n - 1] /\ g[n - 1] \in Intakes
        BY <1>a, <1>5, <1>6
    <2>2. FunctionTo(b, N)
        BY <1>a DEF FunctionTo
    <2>3. b[0] = s0 /\ \A n \in 1..N : b[n] = next(g[n - 1], n)
        BY <1>a, <2>1 DEF next
    <2>4. \A n \in 1..N : op[n][g[n - 1]] = next(g[n - 1], n)
        BY <2>1
    <2>. HIDE DEF b, op
    <2>5. TakesSteps(b, g, N, s0, op)
        BY <2>3, <2>4 DEF TakesSteps
    <2>6. b = g
        BY <1>a, <1>5, <2>2, <2>5, SameIteration
    <2>. QED
        BY <2>6 DEF b
<1>8. turn = body(turn)
    <2>. HIDE DEF body
    <2>. QED
        BY <1>7, Zenon
<1>. HIDE DEF turn
<1>9. turn[0] \in P[0]
    BY <1>2, <1>8, <1>a
<1>10. ASSUME NEW n \in 1..N, turn[n - 1] \in P[n - 1] PROVE turn[n] \in P[n]
    <2>1. n \in 0..N /\ n # 0
        BY <1>a
    <2>2. turn[n] = next(turn[n - 1], n)
        BY <1>8, <2>1 DEF next
    <2>. QED
        BY <1>3, <1>10, <2>2
<1>11. \A n \in 0..N : turn[n] \in P[n]
    <2>. HIDE DEF body
    <2>. QED
        BY <1>a, <1>9, <1>10, StepsAlong
<1>12. over \in Turning(s, tasks, D, N)
    <2>1. N \in 0..N
        BY <1>a
    <2>. QED
        BY <1>11, <2>1 DEF P
<1>13. /\ over \in Intakes /\ Core(over, InQueue(over) \cup After(tasks, N), D) /\ SameDraft(s, over)
       /\ Distinct(over.queue) /\ over.asked \notin Range(over.queue) /\ ~over.posted
       /\ over.queue # <<>> => over.asked # NoTask \/ over.stuck
    BY <1>12 DEF Turning
<1>14. After(tasks, N) = {}
    BY <1>a, AfterStartsAndEnds DEF N
<1>. HIDE DEF over
<1>. DEFINE rest == IF over.asked = NoTask THEN 0 ELSE Len(over.queue)
            q == [over EXCEPT !.rest = rest]
<1>15. over.queue \in Seq(Task) /\ Len(over.queue) \in Nat /\ rest \in Nat /\ rest <= Len(over.queue)
    <2>1. over.queue \in Seq(Task)
        BY <1>13 DEF Intakes
    <2>. QED
        BY <2>1, LenProperties
<1>. HIDE DEF rest
<1>16. /\ q \in Intakes /\ q.rest = rest /\ q.queue = over.queue /\ q.asked = over.asked
       /\ q.posted = over.posted /\ q.stuck = over.stuck /\ SameStore(over, q) /\ SameDraft(over, q)
       /\ q.open = over.open
    BY <1>13, <1>15 DEF Intakes, SameStore, SameDraft
<1>17. Refreshed(s) = q
    BY <1>1 DEF rest
<1>. HIDE DEF q
<1>18. Core(q, InQueue(q), D)
    <2>1. InQueue(q) = InQueue(over) \cup After(tasks, N)
        BY <1>14, <1>16 DEF InQueue
    <2>. QED
        BY <1>13, <1>16, <2>1, OnlyTheQueue
<1>19. QueueInOrder(q)
    BY <1>13, <1>15, <1>16 DEF QueueInOrder
<1>20. SameDraft(s, q)
    BY <1>13, <1>16 DEF SameDraft
<1>. QED
    BY <1>17, <1>18, <1>19, <1>20

\* Fewer tasks to add or in the draft, and the same account.
LEMMA RefreshedIsSane ==
    ASSUME NEW s, Core(s, Range(s.queue), InDraft(s)), Distinct(s.queue), DraftInOrder(s),
           HasNames(s, Len(s.queue))
    PROVE  Sane(Refreshed(s))
<1>. DEFINE q == Refreshed(s)
<1>1. Core(q, InQueue(q), InDraft(s)) /\ QueueInOrder(q) /\ SameDraft(s, q)
    BY RefreshedKeeps
<1>. HIDE DEF q
<1>2. InDraft(q) = InDraft(s) /\ DraftInOrder(q)
    BY <1>1, SameDraftInOrder
<1>. QED
    BY <1>1, <1>2 DEF Sane, q

LEMMA OnRefreshIsSane ==
    ASSUME NEW s, Sane(s), s.posted, HasNames(s, Len(s.queue))
    PROVE  Sane(Refreshed(s))
<1>1. s.asked = NoTask
    BY DEF Sane, QueueInOrder
<1>2. s.queue \in Seq(Task)
    BY DEF Sane, Core, Intakes
<1>3. InQueue(s) = Range(s.queue)
    <2>1. Range(s.queue) \subseteq Task
        BY <1>2, RangeOfSeq
    <2>. QED
        BY <1>1, <2>1 DEF InQueue, Task, NoTask
<1>. QED
    BY <1>3, RefreshedIsSane DEF Sane, QueueInOrder

LEMMA CancelIsSane ==
    ASSUME NEW s, Sane(s), s.asked # NoTask, HasNames(s, Len(s.queue))
    PROVE  Sane(Refreshed(Settled(s, s.url[s.asked])))
<1>. DEFINE t == s.asked
            q == Settled(s, s.url[t])
            o == [s.open EXCEPT ![s.url[t]] = s.open[s.url[t]] - 1]
<1>1. s \in Intakes /\ s.queue \in Seq(Task) /\ s.open \in [Url -> Int]
    BY DEF Sane, Core, Intakes
<1>2. Range(s.queue) \subseteq Task
    BY <1>1, RangeOfSeq
<1>3. t \in InQueue(s) /\ InQueue(s) \ {t} = Range(s.queue)
    BY <1>2 DEF InQueue, Sane, QueueInOrder, Task, NoTask
<1>4. o \in [Url -> Int]
    BY <1>1, AccountIsTyped
<1>5. q = [s EXCEPT !.open = o]
    BY DEF Settled
<1>. HIDE DEF o, q
<1>6. /\ q \in Intakes /\ SameStore(s, q) /\ SameDraft(s, q) /\ SameQueue(s, q) /\ q.open = o
    BY <1>1, <1>4, <1>5 DEF Intakes, SameStore, SameDraft, SameQueue
<1>7. Balanced(q, InQueue(s) \ {t})
    <2>1. \A u \in Url : Awaited(q, u) = Awaited(s, u)
        BY <1>6 DEF SameDraft, Awaited
    <2>2. q.open = [s.open EXCEPT ![s.url[t]] = s.open[s.url[t]] - 1]
        BY <1>6 DEF o
    <2>3. InQueue(s) \subseteq Task /\ Balanced(s, InQueue(s)) /\ \A v \in InQueue(s) : q.url[v] = s.url[v]
        BY <1>6 DEF Sane, Core, SameDraft
    <2>. HIDE DEF t
    <2>. QED
        BY <1>1, <1>3, <2>1, <2>2, <2>3, OneIsSettled
<1>8. Core(q, InQueue(s) \ {t}, InDraft(s))
    <2>1. (InQueue(s) \ {t}) \cup InDraft(s) \subseteq InQueue(s) \cup InDraft(s)
          /\ (InQueue(s) \ {t}) \cap InDraft(s) = {}
        BY DEF Sane, Core
    <2>. QED
        BY <1>6, <1>7, <2>1, CoreMoves DEF Sane
<1>9. q.queue = s.queue /\ InDraft(q) = InDraft(s) /\ DraftInOrder(q) /\ FreePaths(q) = FreePaths(s)
    BY <1>6, SameDraftInOrder DEF SameQueue, Sane, SameStore, FreePaths
<1>10. HasNames(q, Len(q.queue))
    <2>1. Len(s.queue) \in Nat
        BY <1>1, LenProperties
    <2>. QED
        BY <1>9, <2>1, KeepsNames
<1>11. Sane(Refreshed(q))
    BY <1>3, <1>8, <1>9, <1>10, RefreshedIsSane DEF Sane, QueueInOrder
<1>. QED
    BY <1>11 DEF q, t

\* The queue as an answer divides it.
LEMMA QueueDivides ==
    ASSUME NEW seq \in Seq(Task), Distinct(seq), NEW a \in Task, a \notin Range(seq),
           NEW k \in 0..Len(seq)
    PROVE  LET tasks == <<a>> \o SubSeq(seq, 1, k)
               others == SubSeq(seq, k + 1, Len(seq))
           IN  /\ tasks \in Seq(Task) /\ others \in Seq(Task) /\ Distinct(tasks) /\ Distinct(others)
               /\ Range(tasks) \cap Range(others) = {}
               /\ Range(tasks) \cup Range(others) = Range(seq) \cup {a}
               /\ Len(tasks) \in Nat /\ Len(others) \in Nat
               /\ Len(others) + Len(tasks) = Len(seq) + 1
<1>. DEFINE N == Len(seq)
            first == SubSeq(seq, 1, k)
            tasks == <<a>> \o first
            others == SubSeq(seq, k + 1, N)
<1>1. N \in Nat /\ k \in Nat /\ k <= N /\ \A i \in 1..N : seq[i] \in Task
    BY LenProperties, ElementOfSeq
<1>2. first \in Seq(Task) /\ Len(first) = k /\ \A i \in 1..k : first[i] = seq[i]
    <2>1. \A i \in 1..k : seq[i] \in Task
        BY <1>1
    <2>2. /\ first \in Seq(Task) /\ Len(first) = IF 1 <= k THEN k - 1 + 1 ELSE 0
          /\ \A i \in 1..(k - 1 + 1) : first[i] = seq[1 + i - 1]
        BY <1>1, <2>1, SubSeqProperties
    <2>3. k - 1 + 1 = k /\ \A i \in 1..k : 1 + i - 1 = i
        BY <1>1
    <2>. HIDE DEF first
    <2>. QED
        BY <1>1, <2>2, <2>3
<1>3. others \in Seq(Task) /\ Len(others) = N - k /\ \A j \in 1..(N - k) : others[j] = seq[k + j]
    <2>1. \A i \in (k + 1)..N : seq[i] \in Task
        BY <1>1
    <2>2. /\ others \in Seq(Task) /\ Len(others) = IF k + 1 <= N THEN N - (k + 1) + 1 ELSE 0
          /\ \A i \in 1..(N - (k + 1) + 1) : others[i] = seq[k + 1 + i - 1]
        <3>. HIDE DEF N
        <3>. QED
            BY <1>1, <2>1, SubSeqProperties
    <2>3. N - (k + 1) + 1 = N - k /\ \A i \in 1..(N - k) : k + 1 + i - 1 = k + i
        BY <1>1
    <2>. HIDE DEF others, N
    <2>. QED
        BY <1>1, <2>2, <2>3
<1>4. tasks \in Seq(Task) /\ Len(tasks) = k + 1 /\ \A i \in 1..(k + 1) : tasks[i] = IF i = 1 THEN a ELSE seq[i - 1]
    <2>1. <<a>> \in Seq(Task) /\ Len(<<a>>) = 1 /\ <<a>>[1] = a
        OBVIOUS
    <2>. HIDE DEF first
    <2>2. /\ tasks \in Seq(Task) /\ Len(tasks) = 1 + k
          /\ \A i \in 1..(1 + k) : tasks[i] = IF i <= 1 THEN <<a>>[i] ELSE first[i - 1]
        BY <1>2, <2>1, ConcatProperties
    <2>. HIDE DEF tasks
    <2>3. ASSUME NEW i \in 1..(k + 1) PROVE tasks[i] = IF i = 1 THEN a ELSE seq[i - 1]
        <3>1. CASE i = 1
            BY <1>1, <2>1, <2>2, <3>1
        <3>2. CASE i # 1
            <4>1. i - 1 \in 1..k /\ i \in 1..(1 + k) /\ ~(i <= 1)
                BY <1>1, <3>2
            <4>. QED
                BY <1>2, <2>2, <3>2, <4>1
        <3>. QED
            BY <3>1, <3>2
    <2>. QED
        BY <1>1, <2>2, <2>3
<1>5. \A i, j \in 1..N : seq[i] = seq[j] => i = j
    BY DEF Distinct
<1>. HIDE DEF first, tasks, others
<1>6. /\ Range(tasks) = {tasks[i] : i \in 1..(k + 1)} /\ Range(others) = {others[j] : j \in 1..(N - k)}
      /\ Range(seq) = {seq[i] : i \in 1..N}
    <2>1. Range(tasks) = {tasks[i] : i \in 1..Len(tasks)}
        <3>1. tasks \in Seq(Task)
            BY <1>4
        <3>. QED
            BY <3>1, RangeEquality
    <2>2. Range(others) = {others[i] : i \in 1..Len(others)}
        BY <1>3, RangeEquality
    <2>3. Range(seq) = {seq[i] : i \in 1..N}
        BY RangeEquality
    <2>. QED
        BY <1>3, <1>4, <2>1, <2>2, <2>3
<1>. HIDE DEF N
<1>7. \A i \in 1..N : seq[i] # a
    BY <1>6
<1>8. \A i \in 1..(k + 1) : i = 1 \/ (i - 1 \in 1..N /\ i - 1 <= k)
    BY <1>1
<1>9. \A j \in 1..(N - k) : k + j \in 1..N /\ k + j > k
    BY <1>1
<1>10. \A i \in 1..N : \/ i + 1 \in 1..(k + 1) /\ i + 1 # 1 /\ i + 1 - 1 = i
                       \/ i - k \in 1..(N - k) /\ k + (i - k) = i
    BY <1>1
<1>11. Distinct(tasks)
    <2>. SUFFICES ASSUME NEW i \in 1..(k + 1), NEW j \in 1..(k + 1), tasks[i] = tasks[j] PROVE i = j
        BY <1>4 DEF Distinct
    <2>. QED
        BY <1>1, <1>4, <1>5, <1>7, <1>8
<1>12. Distinct(others)
    <2>. SUFFICES ASSUME NEW i \in 1..(N - k), NEW j \in 1..(N - k), others[i] = others[j] PROVE i = j
        BY <1>3 DEF Distinct
    <2>1. k + i = k + j
        BY <1>3, <1>5, <1>9
    <2>. QED
        BY <1>1, <2>1
<1>13. Range(tasks) \cap Range(others) = {}
    <2>. SUFFICES ASSUME NEW i \in 1..(k + 1), NEW j \in 1..(N - k), tasks[i] = others[j] PROVE FALSE
        BY <1>6
    <2>1. others[j] = seq[k + j] /\ k + j \in 1..N
        BY <1>3, <1>9
    <2>2. i # 1 /\ tasks[i] = seq[i - 1] /\ i - 1 \in 1..N /\ i - 1 <= k
        BY <1>4, <1>7, <1>8, <2>1
    <2>3. i - 1 = k + j
        BY <1>5, <2>1, <2>2
    <2>. QED
        BY <1>1, <1>9, <2>2, <2>3
<1>14. Range(tasks) \cup Range(others) = Range(seq) \cup {a}
    <2>1. ASSUME NEW x \in Range(tasks) PROVE x \in Range(seq) \cup {a}
        <3>1. PICK i \in 1..(k + 1) : x = tasks[i]
            BY <1>6
        <3>2. CASE i = 1
            BY <1>4, <3>1, <3>2
        <3>3. CASE i # 1
            <4>1. x = seq[i - 1] /\ i - 1 \in 1..N
                BY <1>4, <1>8, <3>1, <3>3
            <4>. QED
                BY <1>6, <4>1
        <3>. QED
            BY <3>2, <3>3
    <2>2. ASSUME NEW x \in Range(others) PROVE x \in Range(seq)
        BY <1>3, <1>6, <1>9
    <2>3. ASSUME NEW x \in Range(seq) PROVE x \in Range(tasks) \cup Range(others)
        <3>1. PICK i \in 1..N : x = seq[i]
            BY <1>6
        <3>2. CASE i + 1 \in 1..(k + 1) /\ i + 1 # 1 /\ i + 1 - 1 = i
            <4>1. tasks[i + 1] = seq[i]
                BY <1>4, <3>2
            <4>2. tasks[i + 1] \in Range(tasks)
                BY <1>6, <3>2
            <4>. QED
                BY <3>1, <4>1, <4>2
        <3>3. CASE i - k \in 1..(N - k) /\ k + (i - k) = i
            <4>1. others[i - k] = seq[i]
                BY <1>3, <3>3
            <4>2. others[i - k] \in Range(others)
                BY <1>6, <3>3
            <4>. QED
                BY <3>1, <4>1, <4>2
        <3>. QED
            BY <1>10, <3>2, <3>3
    <2>4. a \in Range(tasks)
        <3>1. 1 \in 1..(k + 1)
            BY <1>1
        <3>. QED
            BY <1>4, <1>6, <3>1
    <2>. QED
        BY <2>1, <2>2, <2>3, <2>4
<1>15. Len(tasks) \in Nat /\ Len(others) \in Nat /\ Len(others) + Len(tasks) = N + 1
    BY <1>1, <1>3, <1>4
<1>. QED
    BY <1>3, <1>4, <1>11, <1>12, <1>13, <1>14, <1>15 DEF tasks, others, first, N

LEMMA ChosenIsSane ==
    ASSUME NEW s, Sane(s), s.asked # NoTask, HasNames(s, Len(s.queue) + 1), NEW choice, NEW toRest
    PROVE  Sane(Chosen(s, choice, toRest))
<1>. DEFINE count == IF toRest THEN s.rest ELSE 0
            rest == SubSeq(s.queue, count + 1, Len(s.queue))
            tasks == <<s.asked>> \o SubSeq(s.queue, 1, count)
            others == [s EXCEPT !.queue = rest]
            q == AddedInTurn(others, tasks, choice)
            D == InDraft(s)
<1>1. /\ s \in Intakes /\ s.queue \in Seq(Task) /\ s.asked \in Task /\ s.rest \in Nat
      /\ Distinct(s.queue) /\ s.asked \notin Range(s.queue) /\ s.rest <= Len(s.queue)
    BY DEF Sane, Core, Intakes, QueueInOrder
<1>2. count \in 0..Len(s.queue) /\ Len(s.queue) \in Nat
    BY <1>1, LenProperties
<1>. HIDE DEF count
<1>3. /\ tasks \in Seq(Task) /\ rest \in Seq(Task) /\ Distinct(tasks) /\ Distinct(rest)
      /\ Range(tasks) \cap Range(rest) = {}
      /\ Range(tasks) \cup Range(rest) = Range(s.queue) \cup {s.asked}
      /\ Len(tasks) \in Nat /\ Len(rest) \in Nat
      /\ Len(rest) + Len(tasks) = Len(s.queue) + 1
    BY <1>1, <1>2, QueueDivides
<1>. HIDE DEF rest, tasks
<1>4. /\ others \in Intakes /\ others.queue = rest /\ SameStore(s, others) /\ SameDraft(s, others)
      /\ others.open = s.open
    BY <1>1, <1>3 DEF Intakes, SameStore, SameDraft
<1>5. Chosen(s, choice, toRest) = Refreshed(q)
    BY DEF Chosen, tasks, rest, count
<1>. HIDE DEF others
<1>6. Core(others, InQueue(s), D) /\ FreePaths(others) = FreePaths(s)
    BY <1>4, OnlyTheQueue DEF Sane
<1>7. others \in InTurn(others, tasks, D, Len(rest), 0)
    <2>1. After(tasks, 0) = Range(tasks)
        BY <1>3, AfterStartsAndEnds
    <2>2. InQueue(s) = Range(others.queue) \cup After(tasks, 0)
        <3>1. Range(s.queue) \subseteq Task /\ NoTask \notin Task
            <4>1. Range(s.queue) \subseteq Task
                BY <1>1, RangeOfSeq
            <4>. QED
                BY <4>1 DEF Task, NoTask
        <3>. QED
            BY <1>1, <1>3, <1>4, <2>1, <3>1 DEF InQueue
    <2>3. HasNames(others, Len(s.queue) + 1)
        <3>1. Len(s.queue) + 1 \in Nat /\ FreePaths(s) \subseteq FreePaths(others)
            BY <1>2, <1>6
        <3>. QED
            BY <3>1, KeepsNames
    <2>4. Len(rest) + Len(tasks) - 0 = Len(s.queue) + 1
        BY <1>2, <1>3
    <2>. QED
        BY <1>4, <1>6, <2>2, <2>3, <2>4 DEF InTurn, SameQueue, SameDraft
<1>8. q \in InTurn(others, tasks, D, Len(rest), Len(tasks))
    BY <1>3, <1>4, <1>7, AllTakeTheirTurn
<1>. HIDE DEF q
<1>9. After(tasks, Len(tasks)) = {} /\ Len(rest) + Len(tasks) - Len(tasks) = Len(rest)
    BY <1>3, AfterStartsAndEnds
<1>10. Core(q, Range(q.queue), D) /\ q.queue = rest /\ SameDraft(s, q) /\ HasNames(q, Len(rest))
    BY <1>4, <1>8, <1>9 DEF InTurn, SameQueue, SameDraft
<1>11. InDraft(q) = D /\ DraftInOrder(q)
    BY <1>10, SameDraftInOrder DEF Sane
<1>12. Sane(Refreshed(q))
    BY <1>3, <1>10, <1>11, RefreshedIsSane
<1>. QED
    BY <1>5, <1>12

-----------------------------------------------------------------------------
(* What is forgotten.                                                      *)

LEMMA TidyIsSane ==
    ASSUME NEW s, Sane(s)
    PROVE  Sane(Tidy(s)) /\ Tidy(s).events = s.events
<1>. DEFINE known == {t \in Task : IsKnownTask(s, t)}
            f == [i \in Item |-> IF IsKnownItem(s, i) THEN s.item[i] ELSE Blank]
            url == [t \in Task |-> IF t \in known \ s.names.stored THEN s.url[t] ELSE NoUrl]
            name == [t \in Task |-> IF t \in known THEN s.names.name[t] ELSE NoPath]
            names == [s.names EXCEPT !.name = name, !.completed = s.names.completed \cap known]
            q == [s EXCEPT !.item = f, !.url = url, !.names = names, !.loose = s.loose \cap s.names.stored]
            X == InQueue(s)
            D == InDraft(s)
<1>1. Tidy(s) = q
    BY DEF Tidy
<1>2. /\ s \in Intakes /\ s.names \in Names /\ Core(s, X, D) /\ DraftInOrder(s) /\ QueueInOrder(s)
      /\ s.item \in [Item -> Items] /\ s.draft \subseteq Item
      /\ s.url \in [Task -> Url \cup {NoUrl}] /\ s.loose \subseteq Task
      /\ s.names.name \in [Task -> Path \cup {NoPath}] /\ s.names.completed \subseteq Task
      /\ s.names.stored \subseteq Task
    BY DEF Sane, Core, Intakes, Names
<1>3. s.names.stored \subseteq known /\ X \subseteq known /\ D \subseteq known /\ Dying(s) \subseteq known
    <2>1. X \subseteq Task /\ D \subseteq Task /\ Dying(s) \subseteq Task
        BY <1>2 DEF Core, Dying
    <2>. QED
        BY <1>2, <2>1 DEF IsKnownTask, InQueue, InDraft, Dying
<1>4. known \subseteq Task /\ \A i \in s.draft : IsKnownItem(s, i)
    BY DEF IsKnownItem
<1>. HIDE DEF known
<1>5. /\ f \in [Item -> Items] /\ url \in [Task -> Url \cup {NoUrl}]
      /\ name \in [Task -> Path \cup {NoPath}]
    <2>1. Blank \in Items
        BY DEF Blank, Items
    <2>. QED
        BY <1>2, <2>1
<1>6. /\ \A i \in Item : f[i] = s.item[i] \/ (f[i] = Blank /\ s.item[i].work = "none")
      /\ \A i \in s.draft : f[i] = s.item[i]
      /\ \A t \in known : name[t] = s.names.name[t]
      /\ \A t \in known \ s.names.stored : url[t] = s.url[t]
    <2>1. \A i \in Item : IsKnownItem(s, i) \/ s.item[i].work = "none"
        BY DEF IsKnownItem
    <2>2. \A i \in Item : f[i] = IF IsKnownItem(s, i) THEN s.item[i] ELSE Blank
        OBVIOUS
    <2>3. \A i \in s.draft : f[i] = s.item[i]
        BY <1>2, <1>4, <2>2
    <2>4. /\ \A t \in known : name[t] = s.names.name[t]
          /\ \A t \in known \ s.names.stored : url[t] = s.url[t]
        BY <1>4
    <2>. HIDE DEF f, url, name
    <2>. QED
        BY <2>1, <2>2, <2>3, <2>4
<1>. HIDE DEF f, url, name
<1>7. /\ names \in Names /\ names.name = name /\ names.stored = s.names.stored
      /\ names.holds = s.names.holds /\ names.owner = s.names.owner /\ names.file = s.names.file
    BY <1>2, <1>5 DEF Names
<1>. HIDE DEF names
<1>8. /\ q \in Intakes /\ q.draft = s.draft /\ q.item = f /\ q.url = url /\ q.names = names
      /\ q.loose = s.loose \cap s.names.stored /\ q.deleted = s.deleted /\ q.open = s.open
      /\ q.events = s.events /\ SameQueue(s, q)
    BY <1>2, <1>5, <1>7 DEF Intakes, SameQueue
<1>. HIDE DEF q
<1>9. QueueInOrder(q) /\ InQueue(q) = X
    BY <1>2, <1>8, SameQueueInOrder
<1>10. InDraft(q) = D
    BY <1>6, <1>8 DEF InDraft
<1>11. X \cap s.names.stored = {} /\ D \cap s.names.stored = {}
    BY <1>2 DEF Core
<1>12. DraftInOrder(q)
    <2>1. \A i \in q.draft : q.item[i] = s.item[i] /\ i \in s.draft
        BY <1>6, <1>8
    <2>2. ASSUME NEW i \in q.draft, q.item[i].task # NoTask
          PROVE  q.url[q.item[i].task] = q.item[i].url
        <3>1. s.item[i].task \in D /\ s.url[s.item[i].task] = s.item[i].url
            BY <1>2, <2>1, <2>2 DEF InDraft, DraftInOrder
        <3>. QED
            BY <1>3, <1>6, <1>8, <1>11, <2>1, <3>1
    <2>3. ASSUME NEW i \in Item \ q.draft, q.item[i].confirmed PROVE q.item[i].task = NoTask
        BY <1>2, <1>6, <1>8, <2>3 DEF DraftInOrder, Blank
    <2>. QED
        BY <1>2, <2>1, <2>2, <2>3 DEF DraftInOrder
<1>13. Balanced(q, X)
    <2>1. ASSUME NEW u \in Url PROVE Awaited(q, u) = Awaited(s, u)
        BY <1>6, <1>8 DEF Awaited, Blank
    <2>2. \A t \in X : q.url[t] = s.url[t]
        BY <1>3, <1>6, <1>8, <1>11
    <2>. QED
        BY <1>2, <1>8, <2>1, <2>2, SameAccount DEF Core
<1>14. Core(q, X, D)
    <2>1. Claims(names)
        <3>1. Claims(s.names)
            BY <1>2 DEF Core
        <3>2. \A t \in s.names.stored : names.name[t] = s.names.name[t]
            BY <1>3, <1>6, <1>7
        <3>. QED
            BY <1>7, <3>1, <3>2 DEF Claims
    <2>2. Kept(names, q.loose)
        <3>1. Kept(s.names, s.loose)
            BY <1>2 DEF Core
        <3>2. \A t \in s.names.stored : names.name[t] = s.names.name[t]
            BY <1>3, <1>6, <1>7
        <3>. QED
            BY <1>7, <1>8, <3>1, <3>2 DEF Kept
    <2>3. \A t \in X \cup D : q.names.name[t] \in Path
        BY <1>2, <1>3, <1>6, <1>7, <1>8 DEF Core
    <2>4. Dying(q) = Dying(s)
        BY <1>8 DEF Dying
    <2>. QED
        BY <1>2, <1>7, <1>8, <1>13, <2>1, <2>2, <2>3, <2>4 DEF Core
<1>. QED
    BY <1>1, <1>8, <1>9, <1>10, <1>12, <1>14 DEF Sane

-----------------------------------------------------------------------------
(* Steps of the draft.                                                     *)

\* The draft changes, and the tasks it has are among D.
LEMMA DraftChanges ==
    ASSUME NEW s, NEW D, Core(s, InQueue(s), D), QueueInOrder(s),
           NEW q, q \in Intakes, SameStore(s, q), SameQueue(s, q),
           InDraft(q) \subseteq D, DraftInOrder(q), Balanced(q, InQueue(s))
    PROVE  Sane(q)
<1>1. QueueInOrder(q) /\ InQueue(q) = InQueue(s)
    BY SameQueueInOrder
<1>2. InQueue(q) \cup InDraft(q) \subseteq InQueue(s) \cup D /\ InQueue(q) \cap InDraft(q) = {}
    BY <1>1 DEF Core
<1>. QED
    BY <1>1, <1>2, CoreMoves DEF Sane

LEMMA WithdrawnIsItem ==
    ASSUME NEW it \in Items
    PROVE  /\ Withdrawn(it) \in Items /\ Withdrawn(it).url = it.url
           /\ Withdrawn(it).confirmed = it.confirmed /\ Withdrawn(it).task = it.task
BY DEF Withdrawn, Items

LEMMA DroppedIsSane ==
    ASSUME NEW s, Sane(s), NEW I, I \subseteq s.draft
    PROVE  LET q == Dropped(s, I)
           IN  Sane(q) /\ q.draft = s.draft \ I /\ \A i \in q.draft : q.item[i] = s.item[i]
<1>. DEFINE f == [i \in Item |-> IF i \in I THEN Withdrawn(s.item[i]) ELSE s.item[i]]
            q == Dropped(s, I)
<1>1. /\ s \in Intakes /\ s.item \in [Item -> Items] /\ s.draft \subseteq Item /\ s.open \in [Url -> Int]
      /\ Balanced(s, InQueue(s)) /\ DraftInOrder(s)
    BY DEF Sane, Core, Intakes
<1>2. f \in [Item -> Items]
    BY <1>1, WithdrawnIsItem
<1>3. \A i \in Item : /\ i \notin I => f[i] = s.item[i]
                      /\ f[i].url = s.item[i].url /\ f[i].confirmed = s.item[i].confirmed
                      /\ i \in I => f[i] = Withdrawn(s.item[i])
    BY <1>1, WithdrawnIsItem
<1>4. q = Redrafted(s, s.draft \ I, f, s.open)
    BY <1>1 DEF Dropped, Redrafted, Intakes
<1>. HIDE DEF f, q
<1>5. /\ q \in Intakes /\ q.draft = s.draft \ I /\ q.item = f /\ q.open = s.open /\ q.url = s.url
      /\ SameStore(s, q) /\ SameQueue(s, q)
    BY <1>1, <1>2, <1>4, DraftIsTyped
<1>6. \A i \in q.draft : q.item[i] = s.item[i] /\ i \in s.draft
    BY <1>1, <1>3, <1>5
<1>7. DraftInOrder(q)
    <2>1. ASSUME NEW i \in Item \ q.draft, q.item[i].confirmed PROVE q.item[i].task = NoTask
        <3>1. s.item[i].confirmed
            BY <1>3, <1>5, <2>1
        <3>2. i \notin s.draft
            BY <1>1, <3>1 DEF DraftInOrder, Whole
        <3>. QED
            BY <1>1, <1>3, <1>5, <3>1, <3>2 DEF DraftInOrder
    <2>. QED
        BY <1>1, <1>5, <1>6, <2>1 DEF DraftInOrder
<1>8. InDraft(q) \subseteq InDraft(s)
    BY <1>6 DEF InDraft
<1>9. Balanced(q, InQueue(s))
    <2>1. ASSUME NEW u \in Url PROVE Awaited(q, u) = Awaited(s, u)
        <3>1. ASSUME NEW i \in Item PROVE i \in Awaited(q, u) <=> i \in Awaited(s, u)
            <4>1. CASE i \in I
                <5>1. ~s.item[i].confirmed /\ ~f[i].confirmed
                    BY <1>1, <1>3, <4>1 DEF DraftInOrder, Whole
                <5>. QED
                    BY <1>5, <5>1 DEF Awaited
            <4>2. CASE i \notin I
                BY <1>3, <1>5, <4>2 DEF Awaited
            <4>. QED
                BY <4>1, <4>2
        <3>. QED
            BY <3>1 DEF Awaited
    <2>. QED
        BY <1>1, <1>5, <2>1, SameAccount
<1>10. Sane(q)
    BY <1>5, <1>7, <1>8, <1>9, DraftChanges DEF Sane
<1>. QED
    BY <1>5, <1>6, <1>10 DEF q

\* One item changes.
LEMMA OneItemInOrder ==
    ASSUME NEW s, s \in Intakes, DraftInOrder(s), NEW i \in Item, NEW it \in Items,
           it.url = s.item[i].url, i \in s.draft => Whole(it),
           it.task # NoTask /\ it.task # s.item[i].task
               => it.task \notin InDraft(s) /\ s.url[it.task] = it.url,
           i \notin s.draft /\ it.confirmed => it.task = NoTask,
           NEW q, q.draft = s.draft, q.item = [s.item EXCEPT ![i] = it], q.url = s.url
    PROVE  DraftInOrder(q) /\ InDraft(q) \subseteq InDraft(s) \cup {it.task}
<1>1. s.item \in [Item -> Items] /\ s.draft \subseteq Item
    BY DEF Intakes
<1>2. q.item[i] = it /\ \A j \in Item : j # i => q.item[j] = s.item[j]
    BY <1>1
<1>3. \A j \in s.draft : s.item[j].task # NoTask => s.item[j].task \in InDraft(s)
    BY DEF InDraft
<1>4. InDraft(q) \subseteq InDraft(s) \cup {it.task}
    BY <1>1, <1>2 DEF InDraft
<1>5. \A j \in Item : q.item[j].url = s.item[j].url
    BY <1>2
<1>6. ASSUME NEW j \in s.draft, NEW k \in s.draft, q.item[j].task = q.item[k].task,
             q.item[j].task # NoTask
      PROVE  j = k
    <2>1. CASE j # i /\ k # i
        BY <1>1, <1>2, <1>6, <2>1 DEF DraftInOrder
    <2>2. CASE it.task = s.item[i].task
        BY <1>1, <1>2, <1>6, <2>2 DEF DraftInOrder
    <2>3. CASE it.task # s.item[i].task /\ (j = i \/ k = i)
        BY <1>1, <1>2, <1>3, <1>6, <2>3
    <2>. QED
        BY <2>1, <2>2, <2>3
<1>7. ASSUME NEW j \in s.draft
      PROVE  /\ Whole(q.item[j])
             /\ q.item[j].task # NoTask => q.url[q.item[j].task] = q.item[j].url
    BY <1>1, <1>2 DEF DraftInOrder
<1>8. ASSUME NEW j \in Item \ s.draft, q.item[j].confirmed PROVE q.item[j].task = NoTask
    BY <1>2, <1>8 DEF DraftInOrder
<1>9. \A j, k \in s.draft : q.item[j].url = q.item[k].url => j = k
    BY <1>1, <1>5 DEF DraftInOrder
<1>. QED
    BY <1>4, <1>6, <1>7, <1>8, <1>9 DEF DraftInOrder

LEMMA ParseEndsIsSane ==
    ASSUME NEW s, Sane(s), NEW i \in Item, s.item[i].work = "running", NEW how \in {"done", "failed"}
    PROVE  Sane([s EXCEPT !.item[i].work = how])
<1>. DEFINE it == [s.item[i] EXCEPT !.work = how]
            f == [s.item EXCEPT ![i] = it]
            q == [s EXCEPT !.item[i].work = how]
<1>1. /\ s \in Intakes /\ s.item \in [Item -> Items] /\ s.draft \in SUBSET Item
      /\ s.open \in [Url -> Int] /\ DraftInOrder(s) /\ QueueInOrder(s)
      /\ Core(s, InQueue(s), InDraft(s)) /\ Balanced(s, InQueue(s))
    BY DEF Sane, Core, Intakes
<1>2. /\ it \in Items /\ it.url = s.item[i].url /\ it.task = s.item[i].task /\ it.work = how
      /\ it.confirmed = s.item[i].confirmed /\ it.parse = s.item[i].parse /\ it.failed = s.item[i].failed
    BY <1>1 DEF Items
<1>3. q = Redrafted(s, s.draft, f, s.open)
    BY <1>1 DEF Redrafted, Intakes
<1>4. f \in [Item -> Items] /\ f[i] = it /\ \A j \in Item : j # i => f[j] = s.item[j]
    BY <1>1, <1>2
<1>5. i \in s.draft => Whole(it)
    BY <1>1, <1>2 DEF DraftInOrder, Whole
<1>6. i \notin s.draft /\ it.confirmed => it.task = NoTask
    BY <1>1, <1>2 DEF DraftInOrder
<1>. HIDE DEF it, q
<1>7. /\ q \in Intakes /\ q.draft = s.draft /\ q.item = f /\ q.open = s.open /\ q.url = s.url
      /\ SameStore(s, q) /\ SameQueue(s, q)
    <2>. HIDE DEF f
    <2>. QED
        BY <1>1, <1>3, <1>4, DraftIsTyped
<1>8. DraftInOrder(q) /\ InDraft(q) \subseteq InDraft(s) \cup {it.task}
    BY <1>1, <1>2, <1>5, <1>6, <1>7, OneItemInOrder
<1>9. InDraft(q) \subseteq InDraft(s)
    BY <1>1, <1>2, <1>4, <1>7 DEF InDraft
<1>10. Balanced(q, InQueue(s))
    <2>. HIDE DEF f
    <2>1. ASSUME NEW u \in Url PROVE Awaited(q, u) = Awaited(s, u)
        BY <1>2, <1>4, <1>7 DEF Awaited
    <2>. QED
        BY <1>1, <1>7, <2>1, SameAccount
<1>. HIDE DEF f
<1>11. Sane(q)
    BY <1>1, <1>7, <1>8, <1>9, <1>10, DraftChanges
<1>. QED
    BY <1>11 DEF q

LEMMA RetryIsSane ==
    ASSUME NEW s, Sane(s), NEW I, I \subseteq s.draft, \A i \in I : s.item[i].failed
    PROVE  Sane([s EXCEPT !.item = [i \in Item |-> IF i \in I THEN Submitted(s.item[i].url)
                                                   ELSE s.item[i]]])
<1>. DEFINE f == [i \in Item |-> IF i \in I THEN Submitted(s.item[i].url) ELSE s.item[i]]
            q == [s EXCEPT !.item = f]
<1>1. /\ s \in Intakes /\ s.item \in [Item -> Items] /\ s.draft \in SUBSET Item
      /\ s.open \in [Url -> Int] /\ DraftInOrder(s) /\ QueueInOrder(s)
      /\ Core(s, InQueue(s), InDraft(s)) /\ Balanced(s, InQueue(s))
    BY DEF Sane, Core, Intakes
<1>2. \A i \in Item : s.item[i].url \in Url \cup {NoUrl}
    BY <1>1 DEF Items
<1>3. \A i \in I : /\ f[i] \in Items /\ Whole(f[i]) /\ f[i].url = s.item[i].url /\ f[i].task = NoTask
                   /\ ~f[i].confirmed /\ i \in Item
    <2>1. ASSUME NEW i \in I PROVE i \in Item /\ f[i] = Submitted(s.item[i].url)
        BY <1>1
    <2>. HIDE DEF f
    <2>2. ASSUME NEW u \in Url \cup {NoUrl}
          PROVE  /\ Submitted(u) \in Items /\ Whole(Submitted(u)) /\ Submitted(u).url = u
                 /\ Submitted(u).task = NoTask /\ ~Submitted(u).confirmed
        BY SubmittedIsItem
    <2>. QED
        BY <1>2, <2>1, <2>2
<1>4. \A i \in Item \ I : f[i] = s.item[i]
    OBVIOUS
<1>5. f \in [Item -> Items]
    BY <1>1, <1>3
<1>6. q = Redrafted(s, s.draft, f, s.open)
    BY <1>1 DEF Redrafted, Intakes
<1>. HIDE DEF f, q
<1>7. /\ q \in Intakes /\ q.draft = s.draft /\ q.item = f /\ q.open = s.open /\ q.url = s.url
      /\ SameStore(s, q) /\ SameQueue(s, q)
    BY <1>1, <1>5, <1>6, DraftIsTyped
<1>8. InDraft(q) \subseteq InDraft(s)
    BY <1>1, <1>3, <1>4, <1>7 DEF InDraft
<1>9. DraftInOrder(q)
    <2>1. \A i \in Item : f[i].url = s.item[i].url
        BY <1>3, <1>4
    <2>2. \A i \in Item : f[i].task # NoTask => f[i] = s.item[i]
        BY <1>3, <1>4
    <2>3. \A i \in s.draft : Whole(f[i])
        BY <1>1, <1>3, <1>4 DEF DraftInOrder
    <2>4. \A i \in Item \ s.draft : f[i] = s.item[i]
        BY <1>4
    <2>5. \A i, j \in s.draft : f[i].url = f[j].url => i = j
        BY <1>1, <2>1 DEF DraftInOrder
    <2>6. \A i, j \in s.draft : f[i].task = f[j].task /\ f[i].task # NoTask => i = j
        BY <1>1, <2>2 DEF DraftInOrder
    <2>7. \A i \in s.draft : f[i].task # NoTask => s.url[f[i].task] = f[i].url
        BY <1>1, <2>2 DEF DraftInOrder
    <2>8. \A i \in Item \ s.draft : f[i].confirmed => f[i].task = NoTask
        BY <1>1, <2>4 DEF DraftInOrder
    <2>. QED
        BY <1>7, <2>3, <2>5, <2>6, <2>7, <2>8 DEF DraftInOrder
<1>10. Balanced(q, InQueue(s))
    <2>1. \A i \in I : ~s.item[i].confirmed
        BY <1>1 DEF DraftInOrder, Whole
    <2>2. ASSUME NEW u \in Url PROVE Awaited(q, u) = Awaited(s, u)
        BY <1>3, <1>4, <1>7, <2>1 DEF Awaited
    <2>. QED
        BY <1>1, <1>7, <2>2, SameAccount
<1>11. Sane(q)
    BY <1>1, <1>7, <1>8, <1>9, <1>10, DraftChanges
<1>. QED
    BY <1>11 DEF q, f

LEMMA ParseFailedIsSane ==
    ASSUME NEW s, Sane(s), NEW i \in Item, s.item[i].work = "failed"
    PROVE  Sane(ParseFailed(s, i))
<1>. DEFINE it == s.item[i]
            over == [it EXCEPT !.parse = FALSE, !.work = "none", !.confirmed = FALSE, !.failed = TRUE]
            q == ParseFailed(s, i)
<1>1. /\ s \in Intakes /\ s.item \in [Item -> Items] /\ s.draft \in SUBSET Item /\ it \in Items
      /\ s.open \in [Url -> Int] /\ DraftInOrder(s) /\ QueueInOrder(s)
      /\ Core(s, InQueue(s), InDraft(s)) /\ Balanced(s, InQueue(s))
    BY DEF Sane, Core, Intakes
<1>2. /\ over \in Items /\ over.url = it.url /\ over.task = it.task /\ over.work = "none"
      /\ ~over.confirmed /\ ~over.parse /\ over.failed
    BY <1>1 DEF Items
<1>. HIDE DEF over
<1>3. CASE it.confirmed
    <2>. DEFINE f == [s.item EXCEPT ![i] = over]
                d == s.draft \cup (IF ItemsOf(s, it.url) = {} THEN {i} ELSE {})
                o == [s.open EXCEPT ![it.url] = s.open[it.url] - 1]
    <2>1. q = Redrafted(s, d, f, o)
        BY <1>1, <1>3 DEF ParseFailed, Settled, over, Redrafted, Intakes
    <2>2. i \notin s.draft /\ it.task = NoTask
        BY <1>1, <1>3 DEF DraftInOrder, Whole
    <2>3. f \in [Item -> Items] /\ f[i] = over /\ \A j \in Item : j # i => f[j] = s.item[j]
        BY <1>1, <1>2
    <2>4. d \in SUBSET Item /\ o \in [Url -> Int]
        BY <1>1, AccountIsTyped
    <2>5. ASSUME NEW j \in d PROVE f[j] = IF j = i THEN over ELSE s.item[j]
        BY <2>3, <2>4
    <2>6. ASSUME NEW j \in d PROVE j # i => j \in s.draft /\ j \in Item
        BY <1>1
    <2>7. i \in d => \A j \in s.draft : s.item[j].url # it.url
        BY <2>2 DEF ItemsOf
    <2>8. s.draft \subseteq d
        OBVIOUS
    <2>9. \A u \in Url : o[u] = IF u = it.url THEN s.open[u] - 1 ELSE s.open[u]
        BY <1>1
    <2>. HIDE DEF f, d, o, q, it
    <2>10. /\ q \in Intakes /\ q.draft = d /\ q.item = f /\ q.open = o /\ q.url = s.url
           /\ SameStore(s, q) /\ SameQueue(s, q)
        BY <1>1, <2>1, <2>3, <2>4, DraftIsTyped
    <2>11. InDraft(q) \subseteq InDraft(s)
        BY <1>2, <2>2, <2>5, <2>6, <2>10 DEF InDraft
    <2>12. DraftInOrder(q)
        <3>1. Whole(over)
            BY <1>2, <2>2 DEF Whole
        <3>2. ASSUME NEW j \in d, NEW k \in d, f[j].url = f[k].url PROVE j = k
            BY <1>1, <1>2, <2>5, <2>6, <2>7, <3>2 DEF DraftInOrder
        <3>3. ASSUME NEW j \in d, NEW k \in d, f[j].task = f[k].task, f[j].task # NoTask PROVE j = k
            BY <1>1, <1>2, <2>2, <2>5, <2>6, <3>3 DEF DraftInOrder
        <3>4. ASSUME NEW j \in d
              PROVE  Whole(f[j]) /\ (f[j].task # NoTask => s.url[f[j].task] = f[j].url)
            BY <1>1, <1>2, <2>2, <2>5, <2>6, <3>1 DEF DraftInOrder
        <3>5. ASSUME NEW j \in Item \ d, f[j].confirmed PROVE f[j].task = NoTask
            BY <1>1, <1>2, <2>2, <2>3, <2>8, <3>5 DEF DraftInOrder
        <3>. QED
            BY <2>10, <3>2, <3>3, <3>4, <3>5 DEF DraftInOrder
    <2>13. Balanced(q, InQueue(s))
        <3>. SUFFICES ASSUME NEW u \in Url
                      PROVE  q.open[u] = Cardinality(Awaited(q, u)) + Cardinality(From(q, InQueue(s), u))
            BY DEF Balanced
        <3>1. s.open[u] = Cardinality(Awaited(s, u)) + Cardinality(From(s, InQueue(s), u))
            BY <1>1 DEF Balanced
        <3>2. From(q, InQueue(s), u) = From(s, InQueue(s), u)
            BY <2>10 DEF From
        <3>3. Awaited(q, u) = Awaited(s, u) \ {i}
            <4>1. \A j \in Item : j \in Awaited(q, u) <=> j \in Awaited(s, u) /\ j # i
                BY <1>2, <2>3, <2>10 DEF Awaited
            <4>. QED
                BY <4>1 DEF Awaited
        <3>4. i \in Awaited(s, u) <=> it.url = u
            BY <1>3 DEF Awaited, it
        <3>5. InQueue(s) \subseteq Task
            BY <1>1 DEF Core
        <3>6. Cardinality(Awaited(q, u)) = IF i \in Awaited(s, u) THEN Cardinality(Awaited(s, u)) - 1
                                           ELSE Cardinality(Awaited(s, u))
            BY <3>3, <3>5, CountsAreNumbers, FS_RemoveElement
        <3>. QED
            BY <2>9, <2>10, <3>1, <3>2, <3>4, <3>5, <3>6, CountsAreNumbers
    <2>14. Sane(q)
        BY <1>1, <2>10, <2>11, <2>12, <2>13, DraftChanges
    <2>. QED
        BY <2>14 DEF q
<1>4. CASE ~it.confirmed
    <2>. DEFINE new == IF it.parse THEN over ELSE [it EXCEPT !.work = "none"]
                f == [s.item EXCEPT ![i] = new]
    <2>1. q = Redrafted(s, s.draft, f, s.open)
        BY <1>1, <1>4 DEF ParseFailed, over, Redrafted, Intakes
    <2>2. /\ new \in Items /\ new.url = it.url /\ new.task = it.task /\ new.work = "none"
          /\ ~new.confirmed
        BY <1>1, <1>2, <1>4 DEF Items
    <2>3. i \in s.draft => Whole(new)
        <3>1. CASE it.parse
            <4>1. new = over
                BY <3>1
            <4>2. i \in s.draft => it.task = NoTask
                BY <3>1 , <1>1 DEF DraftInOrder, Whole
            <4>. QED
                BY <1>2, <4>1, <4>2 DEF Whole
        <3>2. CASE ~it.parse
            <4>1. new = [it EXCEPT !.work = "none"]
                BY <3>2
            <4>2. new.parse = it.parse /\ new.failed = it.failed
                BY <1>1, <4>1 DEF Items
            <4>3. i \in s.draft => Whole(it)
                BY <1>1 DEF DraftInOrder
            <4>. HIDE DEF new
            <4>. QED
                BY <2>2, <3>2, <4>2, <4>3 DEF Whole
        <3>. QED
            BY <3>1, <3>2
    <2>. HIDE DEF new, q
    <2>4. f \in [Item -> Items] /\ f[i] = new /\ \A j \in Item : j # i => f[j] = s.item[j]
        BY <1>1, <2>2
    <2>5. /\ q \in Intakes /\ q.draft = s.draft /\ q.item = f /\ q.open = s.open /\ q.url = s.url
          /\ SameStore(s, q) /\ SameQueue(s, q)
        <3>. HIDE DEF f
        <3>. QED
            BY <1>1, <2>1, <2>4, DraftIsTyped
    <2>6. DraftInOrder(q)
        BY <1>1, <2>2, <2>3, <2>5, OneItemInOrder
    <2>. HIDE DEF f
    <2>7. InDraft(q) \subseteq InDraft(s)
        BY <1>1, <2>2, <2>4, <2>5 DEF InDraft
    <2>8. Balanced(q, InQueue(s))
        <3>1. ASSUME NEW u \in Url PROVE Awaited(q, u) = Awaited(s, u)
            BY <1>4, <2>2, <2>4, <2>5 DEF Awaited
        <3>. QED
            BY <1>1, <2>5, <3>1, SameAccount
    <2>9. Sane(q)
        BY <1>1, <2>5, <2>6, <2>7, <2>8, DraftChanges
    <2>. QED
        BY <2>9 DEF q
<1>. QED
    BY <1>3, <1>4

\* The task a parse returns is new.
LEMMA NewTaskFits ==
    ASSUME NEW s, Sane(s), NEW u \in Url \cup {NoUrl}, NEW t \in NewTasks(s)
    PROVE  LET q == WithTask(s, u, t)
           IN  /\ Core(q, InQueue(s), InDraft(s) \cup {t}) /\ DraftInOrder(q) /\ SameQueue(s, q)
               /\ InDraft(q) = InDraft(s) /\ QueueInOrder(q) /\ InQueue(q) = InQueue(s)
               /\ t \in Task \ (InQueue(s) \cup InDraft(s)) /\ q.url[t] = u
               /\ q.draft = s.draft /\ q.item = s.item /\ q.open = s.open /\ NewItems(q) = NewItems(s)
               /\ FreePaths(s) \subseteq FreePaths(q)
<1>. DEFINE url == [s.url EXCEPT ![t] = u]
            name == [s.names.name EXCEPT ![t] = 1]
            names == [s.names EXCEPT !.name = name]
            q == WithTask(s, u, t)
            X == InQueue(s)
            D == InDraft(s)
<1>1. /\ s \in Intakes /\ s.names \in Names /\ s.url \in [Task -> Url \cup {NoUrl}]
      /\ s.names.name \in [Task -> Path \cup {NoPath}]
      /\ Core(s, X, D) /\ DraftInOrder(s) /\ QueueInOrder(s)
    BY DEF Sane, Core, Intakes, Names
<1>2. t \in Task /\ t \notin s.names.stored /\ t \notin X /\ t \notin D /\ t \notin Dying(s)
    BY DEF NewTasks, IsKnownTask, InQueue, InDraft, Dying
<1>3. 1 \in Path
    BY NamesAssumption DEF Path
<1>4. q = [s EXCEPT !.url = url, !.names = names]
    BY <1>1 DEF WithTask, Intakes, Names
<1>5. url \in [Task -> Url \cup {NoUrl}] /\ url[t] = u /\ \A v \in Task : v # t => url[v] = s.url[v]
    BY <1>1, <1>2
<1>6. /\ name \in [Task -> Path \cup {NoPath}] /\ name[t] = 1
      /\ \A v \in Task : v # t => name[v] = s.names.name[v]
    BY <1>1, <1>2, <1>3
<1>. HIDE DEF url, name, q
<1>7. /\ names \in Names /\ names.name = name /\ names.stored = s.names.stored
      /\ names.holds = s.names.holds /\ names.owner = s.names.owner /\ names.file = s.names.file
    BY <1>1, <1>6 DEF Names
<1>. HIDE DEF names
<1>8. /\ q \in Intakes /\ q.draft = s.draft /\ q.item = s.item /\ q.url = url /\ q.names = names
      /\ q.loose = s.loose /\ q.deleted = s.deleted /\ q.open = s.open /\ SameQueue(s, q)
    BY <1>1, <1>4, <1>5, <1>7 DEF Intakes, SameQueue
<1>9. QueueInOrder(q) /\ InQueue(q) = X
    BY <1>1, <1>8, SameQueueInOrder
<1>10. InDraft(q) = D /\ NewItems(q) = NewItems(s)
    BY <1>8 DEF InDraft, NewItems, IsKnownItem
<1>11. X \subseteq Task /\ D \subseteq Task
    BY <1>1 DEF Core
<1>12. DraftInOrder(q)
    <2>1. ASSUME NEW i \in s.draft, s.item[i].task # NoTask
          PROVE  q.url[s.item[i].task] = s.item[i].url
        <3>1. s.item[i].task \in D /\ s.url[s.item[i].task] = s.item[i].url
            BY <1>1, <2>1 DEF InDraft, DraftInOrder
        <3>. QED
            BY <1>2, <1>5, <1>8, <1>11, <3>1
    <2>. QED
        BY <1>1, <1>8, <2>1 DEF DraftInOrder
<1>13. FreePaths(s) \subseteq FreePaths(q)
    <2>1. ASSUME NEW p \in FreePaths(s), NEW v \in Task \ s.names.stored PROVE name[v] <= p
        <3>1. p \in Nat /\ p >= 1 /\ s.names.name[v] <= p
            BY <2>1, NamesAssumption DEF FreePaths, Path
        <3>. QED
            BY <1>6, <3>1
    <2>. QED
        BY <1>7, <1>8, <2>1 DEF FreePaths
<1>14. Core(q, X, D \cup {t})
    <2>1. Claims(names)
        <3>1. \A v \in s.names.stored : names.name[v] = s.names.name[v]
            BY <1>1, <1>2, <1>6, <1>7 DEF Names
        <3>. QED
            BY <1>1, <1>7, <3>1 DEF Claims, Core
    <2>2. Kept(names, q.loose)
        <3>1. \A v \in s.names.stored : names.name[v] = s.names.name[v]
            BY <1>1, <1>2, <1>6, <1>7 DEF Names
        <3>. QED
            BY <1>1, <1>7, <1>8, <3>1 DEF Kept, Core
    <2>3. \A v \in X \cup (D \cup {t}) : q.names.name[v] \in Path
        BY <1>1, <1>3, <1>6, <1>7, <1>8, <1>11 DEF Core
    <2>4. Dying(q) = Dying(s)
        BY <1>8 DEF Dying
    <2>5. Balanced(q, X)
        <3>1. \A v \in X : q.url[v] = s.url[v]
            BY <1>2, <1>5, <1>8, <1>11
        <3>2. \A v \in Url : Awaited(q, v) = Awaited(s, v)
            BY <1>8 DEF Awaited
        <3>. QED
            BY <1>1, <1>8, <3>1, <3>2, SameAccount DEF Core
    <2>. QED
        BY <1>1, <1>2, <1>7, <1>8, <2>1, <2>2, <2>3, <2>4, <2>5 DEF Core
<1>. QED
    BY <1>2, <1>5, <1>8, <1>9, <1>10, <1>12, <1>13, <1>14 DEF q

\* One task more to account for.
LEMMA OneIsOpened ==
    ASSUME NEW s, s \in Intakes, NEW q, NEW X, X \subseteq Task, Balanced(s, X), NEW t \in Task \ X,
           q.open = [s.open EXCEPT ![s.url[t]] = s.open[s.url[t]] + 1], q.url = s.url,
           \A u \in Url : Awaited(q, u) = Awaited(s, u)
    PROVE  Balanced(q, X \cup {t})
<1>. SUFFICES ASSUME NEW u \in Url
              PROVE  q.open[u] = Cardinality(Awaited(q, u)) + Cardinality(From(q, X \cup {t}, u))
    BY DEF Balanced
<1>1. s.open[u] = Cardinality(Awaited(s, u)) + Cardinality(From(s, X, u))
    BY DEF Balanced
<1>2. From(q, X \cup {t}, u) = IF s.url[t] = u THEN From(s, X, u) \cup {t} ELSE From(s, X, u)
    BY DEF From
<1>3. t \notin From(s, X, u)
    BY DEF From
<1>4. Cardinality(From(s, X, u) \cup {t}) = Cardinality(From(s, X, u)) + 1
    BY <1>3, CountsAreNumbers, FS_AddElement
<1>5. q.open[u] = IF s.url[t] = u THEN s.open[u] + 1 ELSE s.open[u]
    BY DEF Intakes
<1>6. Cardinality(Awaited(q, u)) = Cardinality(Awaited(s, u))
    OBVIOUS
<1>. QED
    BY <1>1, <1>2, <1>4, <1>5, <1>6, CountsAreNumbers

LEMMA DraftedIsSane ==
    ASSUME NEW s, Sane(s), NEW u \in Url, HasTask(s), HasItems(s, 1)
    PROVE  Sane(Drafted(s, u))
<1>. DEFINE t == Min(NewTasks(s))
            over == WithTask(s, u, t)
            q == AddParsed(over, t)
<1>1. t \in NewTasks(s)
    <2>1. NewTasks(s) \subseteq Nat /\ NewTasks(s) # {}
        BY NamesAssumption DEF NewTasks, Task, HasTask
    <2>. QED
        BY <2>1, MinIsLeast
<1>2. NewItems(s) # {}
    BY ItemsAreThere
<1>. HIDE DEF t
<1>3. /\ Core(over, InQueue(s), InDraft(s) \cup {t}) /\ DraftInOrder(over) /\ SameQueue(s, over)
      /\ InDraft(over) = InDraft(s) /\ QueueInOrder(over) /\ InQueue(over) = InQueue(s)
      /\ t \in Task \ (InQueue(s) \cup InDraft(s)) /\ NewItems(over) = NewItems(s)
    BY <1>1, NewTaskFits
<1>. HIDE DEF over
<1>4. /\ q \in Intakes /\ SameStore(over, q) /\ SameQueue(over, q) /\ q.open = over.open
      /\ Drafts(over, q, t)
    BY <1>2, <1>3, AddParsedDrafts DEF Core
<1>. HIDE DEF q
<1>5. Balanced(q, InQueue(over))
    BY <1>3, <1>4, SameAccount DEF Core, Drafts
<1>6. Core(over, InQueue(over), InDraft(over) \cup {t}) /\ InDraft(q) \subseteq InDraft(over) \cup {t}
    BY <1>3, <1>4 DEF Drafts
<1>7. Sane(q)
    BY <1>3, <1>4, <1>5, <1>6, DraftChanges DEF Drafts
<1>. QED
    BY <1>7 DEF Drafted, q, over, t

LEMMA TakenOverIsSane ==
    ASSUME NEW s, Sane(s), NEW u \in Url, HasTask(s), HasItems(s, 1), HasNames(s, 1), NEW choice
    PROVE  Sane(TakenOver(s, u, choice))
<1>. DEFINE t == Min(NewTasks(s))
            over == WithTask(s, u, t)
            o == [over.open EXCEPT ![u] = over.open[u] + 1]
            q == Opened(over, u)
<1>1. t \in NewTasks(s)
    <2>1. NewTasks(s) \subseteq Nat /\ NewTasks(s) # {}
        BY NamesAssumption DEF NewTasks, Task, HasTask
    <2>. QED
        BY <2>1, MinIsLeast
<1>2. NewItems(s) # {} /\ FreePaths(s) # {}
    BY ItemsAreThere, NamesAreThere
<1>. HIDE DEF t
<1>3. /\ Core(over, InQueue(s), InDraft(s) \cup {t}) /\ DraftInOrder(over) /\ SameQueue(s, over)
      /\ InDraft(over) = InDraft(s) /\ QueueInOrder(over) /\ InQueue(over) = InQueue(s)
      /\ t \in Task \ (InQueue(s) \cup InDraft(s)) /\ NewItems(over) = NewItems(s)
      /\ over.url[t] = u /\ FreePaths(s) \subseteq FreePaths(over)
    BY <1>1, NewTaskFits
<1>. HIDE DEF over
<1>4. over \in Intakes /\ over.open \in [Url -> Int] /\ over.draft \in SUBSET Item
      /\ over.item \in [Item -> Items]
    BY <1>3 DEF Core, Intakes
<1>5. o \in [Url -> Int]
    BY <1>4, AccountIsTyped
<1>6. q = Redrafted(over, over.draft, over.item, o)
    BY <1>4 DEF Opened, Redrafted, Intakes
<1>7. q.open = o /\ o = [over.open EXCEPT ![over.url[t]] = over.open[over.url[t]] + 1]
    BY <1>3, <1>4 DEF Opened, Intakes
<1>. HIDE DEF o, q
<1>8. /\ q \in Intakes /\ SameDraft(over, q) /\ SameStore(over, q) /\ SameQueue(over, q)
    BY <1>4, <1>5, <1>6, DraftIsTyped DEF SameDraft
<1>9. /\ InDraft(q) = InDraft(over) /\ NewItems(q) = NewItems(over) /\ DraftInOrder(q)
      /\ QueueInOrder(q) /\ InQueue(q) = InQueue(over)
    BY <1>3, <1>8, SameDraftInOrder, SameQueueInOrder
<1>10. FreePaths(q) = FreePaths(over)
    BY <1>8 DEF FreePaths, SameStore
<1>11. Core(q, InQueue(q) \cup {t}, InDraft(q))
    <2>1. \A v \in Url : Awaited(q, v) = Awaited(over, v)
        BY <1>8 DEF Awaited, SameDraft
    <2>2. InQueue(over) \subseteq Task /\ t \in Task \ InQueue(over) /\ Balanced(over, InQueue(over))
        BY <1>3 DEF Core
    <2>3. Balanced(q, InQueue(over) \cup {t})
        BY <1>4, <1>7, <1>8, <2>1, <2>2, OneIsOpened DEF SameDraft
    <2>4. Core(over, InQueue(over), InDraft(over) \cup {t})
        BY <1>3
    <2>5. (InQueue(over) \cup {t}) \cap InDraft(over) = {}
        BY <1>3 DEF Core
    <2>. QED
        BY <1>8, <1>9, <2>3, <2>4, <2>5, CoreMoves
<1>12. Sane(AddOrDraft(q, t, choice))
    BY <1>2, <1>3, <1>9, <1>10, <1>11, AddOrDraftIsSane
<1>. QED
    BY <1>12 DEF TakenOver, q, over, t

LEMMA ParsedIsSane ==
    ASSUME NEW s, Sane(s), NEW i \in Item, s.item[i].work = "done", NEW t \in NewTasks(s),
           NewItems(s) # {}, FreePaths(s) # {}, NEW choice
    PROVE  Sane(Parsed(s, i, t, choice))
<1>. DEFINE it == s.item[i]
            u == it.url
            s1 == WithTask(s, u, t)
            new == [it EXCEPT !.work = "none", !.confirmed = FALSE]
            over == [s1 EXCEPT !.item[i].work = "none", !.item[i].confirmed = FALSE]
            X == InQueue(s)
            D == InDraft(s)
<1>1. /\ s \in Intakes /\ s.item \in [Item -> Items] /\ it \in Items /\ s.draft \in SUBSET Item
      /\ u \in Url \cup {NoUrl} /\ DraftInOrder(s)
    BY DEF Sane, Core, Intakes, Items
<1>. HIDE DEF u
<1>2. /\ Core(s1, X, D \cup {t}) /\ DraftInOrder(s1) /\ SameQueue(s, s1)
      /\ InDraft(s1) = D /\ QueueInOrder(s1) /\ InQueue(s1) = X
      /\ t \in Task \ (X \cup D) /\ s1.url[t] = u
      /\ s1.draft = s.draft /\ s1.item = s.item /\ s1.open = s.open /\ NewItems(s1) = NewItems(s)
      /\ FreePaths(s) \subseteq FreePaths(s1)
    BY <1>1, NewTaskFits
<1>3. /\ new \in Items /\ new.url = it.url /\ new.task = it.task /\ new.work = "none"
      /\ ~new.confirmed /\ new.parse = it.parse /\ new.failed = it.failed
    BY <1>1 DEF Items
<1>. HIDE DEF s1
<1>4. s1 \in Intakes /\ s1.open \in [Url -> Int] /\ X \subseteq Task /\ t # NoTask
    BY <1>2 DEF Core, Intakes, Task, NoTask
<1>5. over = Redrafted(s1, s1.draft, [s1.item EXCEPT ![i] = new], s1.open)
    BY <1>1, <1>2, <1>4 DEF Redrafted, Intakes
<1>6. /\ Parsed(s, i, t, choice)
         = IF it.confirmed THEN AddOrDraft(over, t, choice)
           ELSE IF ~it.parse THEN over
           ELSE [over EXCEPT !.item[i].parse = FALSE, !.item[i].task = t]
    BY DEF Parsed, s1, u
<1>. HIDE DEF new, over, it
<1>7. i \in s.draft => Whole(it)
    BY <1>1 DEF DraftInOrder, it
<1>8. i \notin s.draft /\ it.confirmed => it.task = NoTask
    BY <1>1 DEF DraftInOrder, it
<1>9. [s1.item EXCEPT ![i] = new] \in [Item -> Items]
    BY <1>1, <1>2, <1>3
<1>10. /\ over \in Intakes /\ over.draft = s.draft /\ over.item = [s1.item EXCEPT ![i] = new]
       /\ over.open = s1.open /\ over.url = s1.url /\ SameStore(s1, over) /\ SameQueue(s1, over)
    BY <1>1, <1>2, <1>4, <1>5, <1>9, DraftIsTyped
<1>11. /\ over.item[i] = new /\ \A j \in Item : j # i => over.item[j] = s.item[j]
    BY <1>1, <1>2, <1>3, <1>10
<1>12. CASE it.confirmed
    <2>1. i \notin s.draft
        BY <1>7, <1>12 DEF Whole
    <2>2. DraftInOrder(over)
        BY <1>2, <1>3, <1>4, <1>8, <1>10, <2>1, OneItemInOrder DEF it
    <2>3. InDraft(over) = D
        BY <1>1, <1>11, <1>10, <2>1 DEF InDraft
    <2>4. QueueInOrder(over) /\ InQueue(over) = X
        BY <1>2, <1>10, SameQueueInOrder
    <2>5. NewItems(over) # {}
        <3>1. NewItems(s) \subseteq NewItems(over)
            BY <1>3, <1>10, <1>11 DEF NewItems, IsKnownItem
        <3>. QED
            BY <3>1
    <2>6. FreePaths(over) # {}
        BY <1>2, <1>10 DEF FreePaths, SameStore
    <2>7. Balanced(over, X \cup {t})
        <3>. SUFFICES ASSUME NEW v \in Url
                      PROVE  over.open[v] = Cardinality(Awaited(over, v))
                                            + Cardinality(From(over, X \cup {t}, v))
            BY DEF Balanced
        <3>1. s1.open[v] = Cardinality(Awaited(s1, v)) + Cardinality(From(s1, X, v))
            BY <1>2 DEF Core, Balanced
        <3>2. From(over, X \cup {t}, v) = IF v = u THEN From(s1, X, v) \cup {t} ELSE From(s1, X, v)
            BY <1>2, <1>10 DEF From
        <3>3. t \notin From(s1, X, v)
            BY <1>2 DEF From
        <3>4. Cardinality(From(s1, X, v) \cup {t}) = Cardinality(From(s1, X, v)) + 1
            BY <1>4, <3>3, CountsAreNumbers, FS_AddElement
        <3>5. Awaited(over, v) = Awaited(s1, v) \ {i}
            <4>1. \A j \in Item : j \in Awaited(over, v) <=> j \in Awaited(s1, v) /\ j # i
                BY <1>2, <1>3, <1>11 DEF Awaited
            <4>. QED
                BY <4>1 DEF Awaited
        <3>6. i \in Awaited(s1, v) <=> v = u
            BY <1>2, <1>12 DEF Awaited, it, u
        <3>7. Cardinality(Awaited(over, v))
              = IF i \in Awaited(s1, v) THEN Cardinality(Awaited(s1, v)) - 1
                ELSE Cardinality(Awaited(s1, v))
            BY <1>4, <3>5, CountsAreNumbers, FS_RemoveElement
        <3>. QED
            BY <1>4, <1>10, <3>1, <3>2, <3>4, <3>6, <3>7, CountsAreNumbers
    <2>8. Core(over, X \cup {t}, D)
        <3>1. (X \cup {t}) \cap D = {}
            BY <1>2 DEF Core
        <3>. QED
            BY <1>2, <1>10, <2>7, <3>1, CoreMoves
    <2>9. Sane(AddOrDraft(over, t, choice))
        BY <1>2, <2>2, <2>3, <2>4, <2>5, <2>6, <2>8, AddOrDraftIsSane
    <2>. QED
        BY <1>6, <1>12, <2>9
<1>13. CASE ~it.confirmed /\ ~it.parse
    <2>1. i \in s.draft => Whole(new)
        BY <1>3, <1>7, <1>13 DEF Whole
    <2>2. DraftInOrder(over) /\ InDraft(over) \subseteq D \cup {it.task}
        BY <1>2, <1>3, <1>4, <1>10, <2>1, OneItemInOrder DEF it
    <2>3. InDraft(over) \subseteq D \cup {t}
        BY <1>1, <1>3, <1>11, <1>10 DEF InDraft, it
    <2>4. Balanced(over, X)
        <3>1. ASSUME NEW v \in Url PROVE Awaited(over, v) = Awaited(s1, v)
            BY <1>2, <1>3, <1>11, <1>13 DEF Awaited, it
        <3>. QED
            BY <1>2, <1>10, <3>1, SameAccount DEF Core
    <2>5. Sane(over)
        BY <1>2, <1>10, <2>2, <2>3, <2>4, DraftChanges
    <2>. QED
        BY <1>6, <1>13, <2>5
<1>14. CASE ~it.confirmed /\ it.parse
    <2>. DEFINE got == [new EXCEPT !.parse = FALSE, !.task = t]
                q == [over EXCEPT !.item[i].parse = FALSE, !.item[i].task = t]
                f == [s1.item EXCEPT ![i] = got]
    <2>1. /\ got \in Items /\ got.url = it.url /\ got.task = t /\ got.work = "none" /\ ~got.confirmed
          /\ ~got.parse /\ got.failed = it.failed
        BY <1>2, <1>3, <1>14 DEF Items
    <2>2. f \in [Item -> Items] /\ f[i] = got /\ \A j \in Item : j # i => f[j] = s.item[j]
        BY <1>1, <1>2, <2>1
    <2>3. q = Redrafted(s1, s1.draft, f, s1.open)
        <3>1. [over.item EXCEPT ![i] = [over.item[i] EXCEPT !.parse = FALSE, !.task = t]] = f
            BY <1>1, <1>2, <1>3, <1>10, <1>11
        <3>2. q = [over EXCEPT !.item = [over.item EXCEPT
                                            ![i] = [over.item[i] EXCEPT !.parse = FALSE, !.task = t]]]
            BY <1>10, <1>3, <1>11 DEF Intakes
        <3>. HIDE DEF f
        <3>3. q = [over EXCEPT !.item = f]
            BY <3>1, <3>2
        <3>. QED
            BY <1>4, <1>5, <3>3 DEF Redrafted, Intakes
    <2>. HIDE DEF got, q
    <2>4. /\ q \in Intakes /\ q.draft = s1.draft /\ q.item = f /\ q.open = s1.open /\ q.url = s1.url
          /\ SameStore(s1, q) /\ SameQueue(s1, q)
        <3>. HIDE DEF f
        <3>. QED
            BY <1>1, <1>2, <1>4, <2>2, <2>3, DraftIsTyped
    <2>5. i \in s.draft => Whole(got)
        BY <1>4, <1>7, <1>14, <2>1 DEF Whole
    <2>6. DraftInOrder(q)
        <3>1. got.task \notin InDraft(s1) /\ s1.url[got.task] = got.url
            BY <1>2, <2>1 DEF u
        <3>. QED
            BY <1>2, <1>4, <2>1, <2>4, <2>5, <3>1, OneItemInOrder DEF it
    <2>. HIDE DEF f
    <2>7. InDraft(q) \subseteq D \cup {t}
        BY <1>1, <1>2, <2>1, <2>2, <2>4 DEF InDraft
    <2>8. Balanced(q, X)
        <3>1. ASSUME NEW v \in Url PROVE Awaited(q, v) = Awaited(s1, v)
            BY <1>2, <1>14, <2>1, <2>2, <2>4 DEF Awaited, it
        <3>. QED
            BY <1>2, <2>4, <3>1, SameAccount DEF Core
    <2>9. Sane(q)
        BY <1>2, <2>4, <2>6, <2>7, <2>8, DraftChanges
    <2>. QED
        BY <1>6, <1>14, <2>9 DEF q
<1>. QED
    BY <1>12, <1>13, <1>14

-----------------------------------------------------------------------------
(* confirm.                                                                *)

\* Those of the draft that have the link u, and have not failed.
LinkOrdered(s, u) == {i \in Resolved(s) \cup Parsing(s) : s.item[i].url = u}

\* The tasks of the draft are to be added, and a parse of a link that the draft has is
\* waited for.
LEMMA OneLinkIsOrdered ==
    ASSUME NEW s, Sane(s), NEW q, q.url = s.url,
           \A i \in Parsing(s) : q.item[i] = [s.item[i] EXCEPT !.confirmed = TRUE],
           \A i \in Item \ Parsing(s) : q.item[i] = s.item[i], NEW u \in Url
    PROVE  Cardinality(Awaited(q, u)) + Cardinality(From(q, InQueue(s) \cup InDraft(s), u))
           = s.open[u] + Cardinality(LinkOrdered(s, u))
<1>. DEFINE X == InQueue(s)
            D == InDraft(s)
            P == {i \in Parsing(s) : s.item[i].url = u}
            R == LinkOrdered(s, u)
<1>1. /\ s \in Intakes /\ s.item \in [Item -> Items] /\ s.draft \in SUBSET Item /\ DraftInOrder(s)
      /\ X \subseteq Task /\ D \subseteq Task /\ X \cap D = {} /\ X \cup D \subseteq Task
      /\ s.open[u] = Cardinality(Awaited(s, u)) + Cardinality(From(s, X, u))
    BY DEF Sane, Core, Intakes, Balanced
<1>2. \A i \in Parsing(s) : /\ i \in Item /\ s.item[i].work # "none" /\ ~s.item[i].confirmed
                            /\ q.item[i].url = s.item[i].url /\ q.item[i].confirmed
                            /\ q.item[i].work = s.item[i].work
    <2>1. \A i \in Parsing(s) : i \in s.draft /\ s.item[i].parse /\ i \in Item /\ s.item[i] \in Items
        BY <1>1 DEF Parsing
    <2>2. \A i \in Parsing(s) : s.item[i].work # "none" /\ ~s.item[i].confirmed
        BY <1>1, <2>1 DEF DraftInOrder, Whole
    <2>3. ASSUME NEW i \in Parsing(s)
          PROVE  /\ q.item[i].url = s.item[i].url /\ q.item[i].confirmed
                 /\ q.item[i].work = s.item[i].work
        <3>1. q.item[i] = [s.item[i] EXCEPT !.confirmed = TRUE] /\ s.item[i] \in Items
            BY <2>1
        <3>. QED
            BY <3>1 DEF Items
    <2>. QED
        BY <2>1, <2>2, <2>3
<1>3. \A i \in Item \ Parsing(s) : q.item[i] = s.item[i]
    OBVIOUS
<1>4. Awaited(q, u) = Awaited(s, u) \cup P /\ Awaited(s, u) \cap P = {}
    <2>1. \A i \in Item : i \in Awaited(q, u) <=> i \in Awaited(s, u) \/ i \in P
        BY <1>2, <1>3 DEF Awaited
    <2>2. Awaited(q, u) \subseteq Item /\ Awaited(s, u) \subseteq Item /\ P \subseteq Item
        BY <1>2 DEF Awaited
    <2>. QED
        BY <1>2, <2>1, <2>2 DEF Awaited
<1>5. From(q, X \cup D, u) = From(s, X, u) \cup From(s, D, u) /\ From(s, X, u) \cap From(s, D, u) = {}
    BY <1>1 DEF From
<1>6. \A t \in From(s, D, u) : \E i \in R : i \in Resolved(s) /\ t = s.item[i].task
    BY <1>1 DEF From, InDraft, Resolved, DraftInOrder, LinkOrdered
<1>7. \A i \in R : i \in Resolved(s) => s.item[i].task \in From(s, D, u)
    BY <1>1 DEF From, InDraft, Resolved, DraftInOrder, LinkOrdered
<1>8. \A i, j \in R : i = j
    BY <1>1 DEF Resolved, Parsing, DraftInOrder, LinkOrdered
<1>9. Resolved(s) \cap Parsing(s) = {} /\ P \subseteq R /\ \A i \in R : i \in Resolved(s) \/ i \in P
    BY DEF Resolved, Parsing, LinkOrdered
<1>. HIDE DEF P, R, X, D
<1>10. \A x : IsFiniteSet({x}) /\ Cardinality({x}) = 1
    BY FS_Singleton
<1>11. /\ IsFiniteSet(Awaited(s, u)) /\ Cardinality(Awaited(s, u)) \in Nat
       /\ IsFiniteSet(From(s, X, u)) /\ Cardinality(From(s, X, u)) \in Nat
    BY <1>1, CountsAreNumbers
<1>12. CASE R = {}
    <2>1. P = {} /\ From(s, D, u) = {}
        BY <1>6, <1>9, <1>12
    <2>2. Awaited(q, u) = Awaited(s, u) /\ From(q, X \cup D, u) = From(s, X, u)
        BY <1>4, <1>5, <2>1
    <2>3. Cardinality(R) = 0
        BY <1>12, FS_EmptySet
    <2>. QED
        BY <1>1, <1>11, <2>2, <2>3 DEF R, X, D
<1>13. CASE R # {}
    <2>1. PICK i \in R : R = {i}
        BY <1>8, <1>13
    <2>2. Cardinality(R) = 1
        BY <1>10, <2>1
    <2>3. CASE i \in Resolved(s)
        <3>1. P = {} /\ From(s, D, u) = {s.item[i].task}
            <4>1. P = {}
                BY <1>9, <2>1, <2>3 DEF P
            <4>. QED
                BY <1>6, <1>7, <2>1, <2>3, <4>1
        <3>2. Awaited(q, u) = Awaited(s, u)
            BY <1>4, <3>1
        <3>3. From(q, X \cup D, u) = From(s, X, u) \cup {s.item[i].task} /\ s.item[i].task \notin From(s, X, u)
            BY <1>5, <3>1
        <3>4. Cardinality(From(q, X \cup D, u)) = Cardinality(From(s, X, u)) + 1
            BY <1>11, <3>3, FS_AddElement
        <3>. QED
            BY <1>1, <1>11, <2>2, <3>2, <3>4 DEF R, X, D
    <2>4. CASE i \notin Resolved(s)
        <3>1. P = {i} /\ From(s, D, u) = {}
            BY <1>6, <1>9, <2>1, <2>4
        <3>2. From(q, X \cup D, u) = From(s, X, u)
            BY <1>5, <3>1
        <3>3. Awaited(q, u) = Awaited(s, u) \cup {i} /\ i \notin Awaited(s, u)
            BY <1>4, <3>1
        <3>4. Cardinality(Awaited(q, u)) = Cardinality(Awaited(s, u)) + 1
            BY <1>11, <3>3, FS_AddElement
        <3>. QED
            BY <1>1, <1>11, <2>2, <3>2, <3>4 DEF R, X, D
    <2>. QED
        BY <2>3, <2>4
<1>. QED
    BY <1>12, <1>13

LEMMA OrderedGives ==
    ASSUME NEW s, Sane(s)
    PROVE  LET q == Ordered(s)
           IN  /\ Core(q, InQueue(s) \cup InDraft(s), {}) /\ q.draft = s.draft /\ q.url = s.url
               /\ SameStore(s, q) /\ SameQueue(s, q) /\ QueueInOrder(q) /\ InQueue(q) = InQueue(s)
               /\ \A i \in Parsing(s) : q.item[i] = [s.item[i] EXCEPT !.confirmed = TRUE]
               /\ \A i \in Item \ Parsing(s) : q.item[i] = s.item[i]
<1>. DEFINE f == [i \in Item |-> IF i \in Parsing(s) THEN [s.item[i] EXCEPT !.confirmed = TRUE]
                                 ELSE s.item[i]]
            o == [u \in Url |-> s.open[u] + Cardinality(LinkOrdered(s, u))]
            q == Ordered(s)
            X == InQueue(s)
            D == InDraft(s)
<1>1. /\ s \in Intakes /\ s.item \in [Item -> Items] /\ s.draft \in SUBSET Item
      /\ s.open \in [Url -> Int] /\ Core(s, X, D) /\ QueueInOrder(s) /\ X \subseteq Task
    BY DEF Sane, Core, Intakes
<1>2. f \in [Item -> Items]
    <2>1. \A it \in Items : [it EXCEPT !.confirmed = TRUE] \in Items
        BY DEF Items
    <2>. QED
        BY <1>1, <2>1
<1>3. o \in [Url -> Int]
    <2>1. ASSUME NEW u \in Url
          PROVE  Cardinality(LinkOrdered(s, u)) \in Nat
        <3>1. IsFiniteSet(Item)
            BY IntakeAssumption, FS_Interval DEF Item
        <3>2. LinkOrdered(s, u) \in SUBSET Item
            BY <1>1 DEF Resolved, Parsing, LinkOrdered
        <3>. QED
            BY <3>1, <3>2, FS_Subset, FS_CardinalityType
    <2>. QED
        BY <1>1, <2>1
<1>4. q = Redrafted(s, s.draft, f, o)
    BY <1>1 DEF Ordered, LinkOrdered, Redrafted, Intakes
<1>5. \A i \in Parsing(s) : f[i] = [s.item[i] EXCEPT !.confirmed = TRUE]
    BY <1>1 DEF Parsing
<1>6. \A i \in Item \ Parsing(s) : f[i] = s.item[i]
    OBVIOUS
<1>7. /\ q \in Intakes /\ q.draft = s.draft /\ q.item = f /\ q.open = o /\ q.url = s.url
      /\ SameStore(s, q) /\ SameQueue(s, q)
    <2>. HIDE DEF f, o, q
    <2>. QED
        BY <1>1, <1>2, <1>3, <1>4, DraftIsTyped
<1>. HIDE DEF q, f, o
<1>8. Balanced(q, X \cup D)
    <2>1. ASSUME NEW u \in Url
          PROVE  Cardinality(Awaited(q, u)) + Cardinality(From(q, X \cup D, u))
                 = s.open[u] + Cardinality(LinkOrdered(s, u))
        BY <1>5, <1>6, <1>7, OneLinkIsOrdered
    <2>2. \A u \in Url : o[u] = s.open[u] + Cardinality(LinkOrdered(s, u))
        BY DEF o
    <2>. QED
        BY <1>7, <2>1, <2>2 DEF Balanced
<1>9. Core(q, X \cup D, {})
    BY <1>1, <1>7, <1>8, CoreMoves
<1>10. QueueInOrder(q) /\ InQueue(q) = X
    BY <1>1, <1>7, SameQueueInOrder
<1>. QED
    BY <1>5, <1>6, <1>7, <1>9, <1>10 DEF q

\* q has the items of s, which are ordered.
IsOrdered(s, q) ==
    /\ q.draft = s.draft
    /\ \A i \in Parsing(s) : q.item[i] = [s.item[i] EXCEPT !.confirmed = TRUE]
    /\ \A i \in Item \ Parsing(s) : q.item[i] = s.item[i]

\* Confirming leaves the items that failed.
LEMMA LeftGives ==
    ASSUME NEW s, Sane(s), NEW X, NEW q, Core(q, X, {}), q.url = s.url, IsOrdered(s, q)
    PROVE  LET r == Left(q)
           IN  /\ Core(r, X, {}) /\ InDraft(r) = {} /\ DraftInOrder(r)
               /\ SameStore(q, r) /\ SameQueue(q, r)
               /\ NewItems(s) \cup {i \in Resolved(s) : s.item[i].work = "none"} \subseteq NewItems(r)
<1>. DEFINE gone == {i \in q.draft : ~q.item[i].failed}
            withdrawn == {i \in gone : q.item[i].parse /\ ~q.item[i].confirmed}
            r == Left(q)
            d == {i \in s.draft : s.item[i].failed}
<1>1. /\ s.item \in [Item -> Items] /\ s.draft \in SUBSET Item /\ DraftInOrder(s)
      /\ q \in Intakes /\ q.item \in [Item -> Items] /\ q.open \in [Url -> Int]
      /\ Balanced(q, X) /\ q.draft = s.draft
    BY DEF Sane, Core, Intakes, IsOrdered
<1>2. ASSUME NEW i \in Parsing(s)
      PROVE  /\ i \in s.draft /\ i \in Item /\ s.item[i].task = NoTask /\ s.item[i].parse
             /\ ~s.item[i].failed /\ ~q.item[i].failed /\ q.item[i].confirmed
             /\ q.item[i].task = NoTask /\ q.item[i].work = s.item[i].work
    <2>1. i \in s.draft /\ i \in Item /\ s.item[i].task = NoTask /\ s.item[i].parse
        BY <1>1 DEF Parsing
    <2>2. ~s.item[i].failed
        BY <1>1, <2>1 DEF DraftInOrder, Whole
    <2>3. q.item[i] = [s.item[i] EXCEPT !.confirmed = TRUE] /\ s.item[i] \in Items
        BY <1>1, <2>1 DEF IsOrdered
    <2>4. q.item[i].failed = s.item[i].failed /\ q.item[i].confirmed
          /\ q.item[i].task = s.item[i].task /\ q.item[i].work = s.item[i].work
        BY <2>3 DEF Items
    <2>. QED
        BY <2>1, <2>2, <2>4
<1>3. \A i \in Item \ Parsing(s) : q.item[i] = s.item[i]
    BY DEF IsOrdered
<1>4. withdrawn = {}
    <2>1. \A i \in s.draft : s.item[i].parse => i \in Parsing(s)
        BY <1>1 DEF Parsing, DraftInOrder, Whole
    <2>. QED
        BY <1>1, <1>2, <1>3, <2>1
<1>5. q.draft \ gone = d
    BY <1>1, <1>2, <1>3
<1>6. r = [Dropped(q, withdrawn) EXCEPT !.draft = @ \ gone]
    BY DEF Left
<1>. HIDE DEF gone, withdrawn, d, r
<1>7. r = Redrafted(q, d, q.item, q.open)
    <2>1. [i \in Item |-> IF i \in {} THEN Withdrawn(q.item[i]) ELSE q.item[i]] = q.item
        BY <1>1
    <2>2. Dropped(q, {}) = q
        BY <1>1, <2>1 DEF Dropped, Intakes
    <2>3. r = [q EXCEPT !.draft = d]
        BY <1>4, <1>5, <1>6, <2>2
    <2>. QED
        BY <1>1, <2>3 DEF Redrafted, Intakes
<1>8. d \in SUBSET Item /\ \A i \in d : i \in Item /\ i \in s.draft /\ s.item[i].failed
    BY <1>1 DEF d
<1>9. /\ r \in Intakes /\ r.draft = d /\ r.item = q.item /\ r.open = q.open /\ r.url = s.url
      /\ SameStore(q, r) /\ SameQueue(q, r)
    BY <1>1, <1>7, <1>8, DraftIsTyped
<1>10. \A i \in d : r.item[i] = s.item[i] /\ s.item[i].task = NoTask
    <2>1. ASSUME NEW i \in d PROVE i \notin Parsing(s)
        BY <1>2, <1>8
    <2>2. ASSUME NEW i \in d PROVE s.item[i].task = NoTask
        BY <1>1, <1>8 DEF DraftInOrder, Whole
    <2>. QED
        BY <1>3, <1>8, <1>9, <2>1, <2>2
<1>11. InDraft(r) = {}
    BY <1>9, <1>10 DEF InDraft
<1>12. DraftInOrder(r)
    <2>1. ASSUME NEW i \in Item \ d, r.item[i].confirmed PROVE r.item[i].task = NoTask
        <3>1. CASE i \in Parsing(s)
            BY <1>2, <1>9, <3>1
        <3>2. CASE i \notin Parsing(s)
            <4>1. s.item[i].confirmed /\ r.item[i] = s.item[i]
                BY <1>3, <1>9, <2>1, <3>2
            <4>2. i \notin s.draft
                BY <1>1, <4>1 DEF DraftInOrder, Whole
            <4>. QED
                BY <1>1, <4>1, <4>2 DEF DraftInOrder
        <3>. QED
            BY <3>1, <3>2
    <2>2. ASSUME NEW i \in d, NEW j \in d, r.item[i].url = r.item[j].url PROVE i = j
        BY <1>1, <1>8, <1>10, <2>2 DEF DraftInOrder
    <2>3. ASSUME NEW i \in d PROVE Whole(r.item[i])
        BY <1>1, <1>8, <1>10 DEF DraftInOrder
    <2>. QED
        BY <1>9, <1>10, <2>1, <2>2, <2>3 DEF DraftInOrder
<1>13. Core(r, X, {})
    <2>1. Balanced(r, X)
        BY <1>1, <1>9, SameAccount DEF Awaited
    <2>2. X \cup {} \subseteq X \cup {} /\ X \cap {} = {}
        OBVIOUS
    <2>. QED
        BY <1>9, <2>1, <2>2, CoreMoves
<1>14. NewItems(s) \cup {i \in Resolved(s) : s.item[i].work = "none"} \subseteq NewItems(r)
    <2>1. ASSUME NEW i \in NewItems(s) PROVE i \in NewItems(r)
        <3>1. i \in Item /\ i \notin s.draft /\ s.item[i].work = "none"
            BY <2>1 DEF NewItems, IsKnownItem
        <3>2. i \notin Parsing(s) /\ i \notin d
            BY <1>2, <1>8, <3>1
        <3>. QED
            BY <1>3, <1>9, <3>1, <3>2 DEF NewItems, IsKnownItem
    <2>2. ASSUME NEW i \in Resolved(s), s.item[i].work = "none" PROVE i \in NewItems(r)
        <3>1. i \in Item /\ s.item[i].task # NoTask
            BY <1>1, <2>2 DEF Resolved
        <3>2. i \notin Parsing(s) /\ i \notin d
            BY <1>2, <1>10, <3>1
        <3>. QED
            BY <1>3, <1>9, <2>2, <3>1, <3>2 DEF NewItems, IsKnownItem
    <2>. QED
        BY <2>1, <2>2
<1>. QED
    BY <1>9, <1>11, <1>12, <1>13, <1>14 DEF r

LEMMA DisjointSetsCount ==
    ASSUME NEW S, NEW T, IsFiniteSet(S), IsFiniteSet(T), S \cap T = {}
    PROVE  Cardinality(S \cup T) = Cardinality(S) + Cardinality(T)
<1>1. Cardinality(S \cup T) = Cardinality(S) + Cardinality(T) - Cardinality(S \cap T)
    BY FS_Union
<1>2. Cardinality(S \cap T) = 0
    BY FS_EmptySet
<1>3. Cardinality(S) \in Nat /\ Cardinality(T) \in Nat
    BY FS_CardinalityType
<1>. QED
    BY <1>1, <1>2, <1>3

\* There are as many new items as there are tasks that may come back.
LEMMA DraftHasRoom ==
    ASSUME NEW s, Sane(s), NEW r,
           NewItems(s) \cup {i \in Resolved(s) : s.item[i].work = "none"} \subseteq NewItems(r),
           HasItems(s, Cardinality({i \in Resolved(s) : s.item[i].work # "none"}))
    PROVE  HasItems(r, Cardinality(InDraft(s)))
<1>. DEFINE R == Resolved(s)
            A == {i \in R : s.item[i].work = "none"}
            B == {i \in R : s.item[i].work # "none"}
            f == [i \in R |-> s.item[i].task]
<1>1. /\ s.draft \in SUBSET Item /\ R \in SUBSET Item /\ IsFiniteSet(Item)
    <2>1. s.draft \in SUBSET Item
        BY DEF Sane, Core, Intakes
    <2>2. IsFiniteSet(Item)
        BY IntakeAssumption, FS_Interval DEF Item
    <2>. QED
        BY <2>1, <2>2 DEF Resolved
<1>2. f \in Surjection(R, InDraft(s))
    <2>1. f \in [R -> InDraft(s)]
        BY DEF InDraft, Resolved
    <2>2. \A t \in InDraft(s) : \E i \in R : f[i] = t
        BY DEF InDraft, Resolved
    <2>. QED
        BY <2>1, <2>2 DEF Surjection
<1>. HIDE DEF f
<1>3. IsFiniteSet(R) /\ Cardinality(InDraft(s)) <= Cardinality(R) /\ Cardinality(InDraft(s)) \in Nat
    <2>1. IsFiniteSet(R)
        BY <1>1, FS_Subset
    <2>. HIDE DEF R
    <2>2. IsFiniteSet(InDraft(s)) /\ Cardinality(InDraft(s)) <= Cardinality(R)
        BY <1>2, <2>1, FS_Surjection
    <2>. QED
        BY <2>1, <2>2, FS_CardinalityType
<1>4. R = A \cup B /\ A \cap B = {} /\ A \in SUBSET R /\ B \in SUBSET R
    OBVIOUS
<1>5. A \cap NewItems(s) = {}
    BY DEF NewItems, IsKnownItem, Resolved
<1>6. Cardinality(NewItems(s)) >= Cardinality(B)
    BY DEF HasItems
<1>7. A \cup NewItems(s) \in SUBSET NewItems(r)
    OBVIOUS
<1>. HIDE DEF A, B, R
<1>8. /\ IsFiniteSet(A) /\ IsFiniteSet(B) /\ Cardinality(A) \in Nat /\ Cardinality(B) \in Nat
      /\ Cardinality(R) \in Nat
    BY <1>3, <1>4, FS_Subset, FS_CardinalityType
<1>9. Cardinality(R) = Cardinality(A) + Cardinality(B)
    BY <1>4, <1>8, DisjointSetsCount
<1>10. Cardinality(A \cup NewItems(s)) = Cardinality(A) + Cardinality(NewItems(s))
    BY <1>5, <1>8, NewItemsAreFinite, DisjointSetsCount
<1>11. Cardinality(A \cup NewItems(s)) <= Cardinality(NewItems(r))
    BY <1>7, NewItemsAreFinite, FS_Subset
<1>. QED
    BY <1>3, <1>6, <1>8, <1>9, <1>10, <1>11, NewItemsAreFinite DEF HasItems

LEMMA ConfirmedIsSane ==
    ASSUME NEW s, Sane(s), HasNames(s, Cardinality(Resolved(s))),
           HasItems(s, Cardinality({i \in Resolved(s) : s.item[i].work # "none"})), NEW choice
    PROVE  Sane(Confirmed(s, choice))
<1>. DEFINE X == InQueue(s)
            D == InDraft(s)
            q == Ordered(s)
<1>1. {s.item[i].task : i \in Resolved(s)} = D
    BY DEF Resolved, InDraft
<1>2. D \subseteq Task /\ X \subseteq Task /\ X \cap D = {}
    BY DEF Sane, Core
<1>3. /\ Core(q, X \cup D, {}) /\ q.url = s.url /\ IsOrdered(s, q)
      /\ SameStore(s, q) /\ SameQueue(s, q) /\ QueueInOrder(q) /\ InQueue(q) = X
    BY OrderedGives DEF IsOrdered
<1>4. RestOf(D, 0) = D /\ RestOf(D, TaskCount) = {}
    BY <1>2, RestEnds
<1>5. Confirmed(s, choice) = IF AddFails(s.names) THEN ReturnedAll(Left(q), D)
                             ELSE Left(AddedAll(q, D, choice))
    BY <1>1 DEF Confirmed
<1>. HIDE DEF X, D, q
<1>6. CASE AddFails(s.names)
    <2>. DEFINE r == Left(q)
    <2>1. /\ Core(r, X \cup D, {}) /\ InDraft(r) = {} /\ DraftInOrder(r)
          /\ SameStore(q, r) /\ SameQueue(q, r)
          /\ NewItems(s) \cup {i \in Resolved(s) : s.item[i].work = "none"} \subseteq NewItems(r)
        BY <1>3, LeftGives
    <2>. HIDE DEF r
    <2>2. QueueInOrder(r) /\ InQueue(r) = X
        BY <1>3, <2>1, SameQueueInOrder
    <2>3. HasItems(r, Cardinality(D))
        BY <2>1, DraftHasRoom DEF D
    <2>4. r \in Returning(D, 0)
        BY <1>2, <1>4, <2>1, <2>2, <2>3 DEF Returning, Core
    <2>5. ReturnedAll(r, D) \in Returning(D, TaskCount)
        BY <1>2, <2>4, AllAreReturned
    <2>. DEFINE a == ReturnedAll(r, D)
    <2>. HIDE DEF a
    <2>6. /\ Core(a, InQueue(a) \cup RestOf(D, TaskCount), InDraft(a)) /\ QueueInOrder(a)
          /\ DraftInOrder(a)
        BY <2>5 DEF Returning, a
    <2>7. InQueue(a) \cup RestOf(D, TaskCount) = InQueue(a)
        BY <1>4
    <2>8. Sane(a)
        BY <2>6, <2>7 DEF Sane
    <2>. QED
        BY <1>5, <1>6, <2>8 DEF a, r
<1>7. CASE ~AddFails(s.names)
    <2>. DEFINE a == AddedAll(q, D, choice)
                r == Left(a)
    <2>1. q \in Adding(q, D, 0)
        <3>1. HasNames(q, Cardinality(D))
            <4>1. IsFiniteSet(Resolved(s)) /\ Cardinality(Resolved(s)) \in Nat
                <5>1. IsFiniteSet(Item)
                    BY IntakeAssumption, FS_Interval DEF Item
                <5>2. Resolved(s) \in SUBSET Item
                    BY DEF Sane, Core, Intakes, Resolved
                <5>. QED
                    BY <5>1, <5>2, FS_Subset, FS_CardinalityType
            <4>2. Cardinality(D) <= Cardinality(Resolved(s)) /\ Cardinality(D) \in Nat
                <5>. DEFINE f == [i \in Resolved(s) |-> s.item[i].task]
                <5>1. f \in Surjection(Resolved(s), D)
                    <6>1. f \in [Resolved(s) -> D] /\ \A t \in D : \E i \in Resolved(s) : f[i] = t
                        BY <1>1
                    <6>. QED
                        BY <6>1 DEF Surjection
                <5>. HIDE DEF f
                <5>2. IsFiniteSet(D) /\ Cardinality(D) <= Cardinality(Resolved(s))
                    BY <4>1, <5>1, FS_Surjection
                <5>. QED
                    BY <5>2, FS_CardinalityType
            <4>3. FreePaths(q) = FreePaths(s)
                BY <1>3 DEF FreePaths, SameStore
            <4>4. Cardinality(Resolved(s)) <= Cardinality(FreePaths(s))
                BY DEF HasNames, FreePaths
            <4>5. Cardinality(D) <= Cardinality(FreePaths(q))
                BY <4>1, <4>2, <4>3, <4>4, FreePathsAreFinite
            <4>. QED
                BY <4>5 DEF HasNames, FreePaths
        <3>2. ~AddFails(q.names)
            BY <1>3, <1>7 DEF SameStore
        <3>. QED
            BY <1>2, <1>3, <1>4, <3>1, <3>2 DEF Adding, SameDraft, Core
    <2>2. a \in Adding(q, D, TaskCount)
        BY <1>2, <2>1, AllAreAdded
    <2>. HIDE DEF a
    <2>3. Core(a, InQueue(a), {}) /\ QueueInOrder(a) /\ SameDraft(q, a)
        <3>1. InQueue(a) \cup RestOf(D, TaskCount) = InQueue(a)
            BY <1>4
        <3>. QED
            BY <2>2, <3>1 DEF Adding
    <2>4. a.url = s.url /\ IsOrdered(s, a)
        BY <1>3, <2>3 DEF SameDraft, IsOrdered
    <2>5. /\ Core(r, InQueue(a), {}) /\ InDraft(r) = {} /\ DraftInOrder(r) /\ SameQueue(a, r)
        BY <2>3, <2>4, LeftGives
    <2>. HIDE DEF r
    <2>6. QueueInOrder(r) /\ InQueue(r) = InQueue(a)
        BY <2>3, <2>5, SameQueueInOrder
    <2>7. Sane(r)
        BY <2>5, <2>6 DEF Sane
    <2>. QED
        BY <1>5, <1>7, <2>7 DEF a, r
<1>. QED
    BY <1>6, <1>7

-----------------------------------------------------------------------------
(* setUrls.                                                                *)

LEMMA PlacesExist ==
    ASSUME NEW L, NEW N, IsFiniteSet(L), IsFiniteSet(N), Cardinality(L) <= Cardinality(N)
    PROVE  Injection(L, N) # {}
<1>. DEFINE l == Cardinality(L)
            n == Cardinality(N)
<1>1. /\ l \in Nat /\ ExistsBijection(1..l, L)
      /\ n \in Nat /\ ExistsBijection(1..n, N)
    BY FS_CardinalityType
<1>. HIDE DEF l, n
<1>2. ExistsBijection(L, 1..l)
    BY <1>1, Fun_ExistsBijSymmetric
<1>3. PICK f : f \in Bijection(L, 1..l)
    BY <1>2 DEF ExistsBijection
<1>4. PICK g : g \in Bijection(1..n, N)
    BY <1>1 DEF ExistsBijection
<1>5. 1..l \subseteq 1..n
    BY <1>1 DEF l, n
<1>6. f \in Injection(L, 1..n)
    BY <1>3, <1>5 DEF Bijection, Injection
<1>7. g \in Injection(1..n, N)
    BY <1>4 DEF Bijection
<1>8. [u \in L |-> g[f[u]]] \in Injection(L, N)
    BY <1>6, <1>7, Fun_InjTransitive
<1>. QED
    BY <1>8

\* The item of a new link.
Made(u, refused) ==
    IF u \in refused THEN [Blank EXCEPT !.url = u, !.failed = TRUE] ELSE Submitted(u)

LEMMA MadeIsItem ==
    ASSUME NEW u \in Url, NEW refused
    PROVE  LET it == Made(u, refused)
           IN  it \in Items /\ Whole(it) /\ it.url = u /\ it.task = NoTask /\ ~it.confirmed
<1>1. CASE u \in refused
    BY <1>1 DEF Made, Blank, Items, Whole, NoTask, Task
<1>2. CASE u \notin refused
    BY <1>2, SubmittedIsItem DEF Made
<1>. QED
    BY <1>1, <1>2

\* The draft takes items for links it does not have.
LEMMA WithItemsIsSane ==
    ASSUME NEW s, Sane(s), NEW L, L \subseteq Url, \A i \in s.draft : s.item[i].url \notin L,
           HasItems(s, Cardinality(L)), NEW refused
    PROVE  Sane(WithItems(s, L, refused))
<1>. DEFINE place == CHOOSE place \in Injection(L, NewItems(s)) : TRUE
            linkAt(i) == CHOOSE u \in L : place[u] = i
            f == [i \in Item |->
                    IF i \notin Range(place) THEN s.item[i] ELSE Made(linkAt(i), refused)]
            d == s.draft \cup Range(place)
            q == WithItems(s, L, refused)
<1>1. /\ s \in Intakes /\ s.item \in [Item -> Items] /\ s.draft \in SUBSET Item
      /\ s.open \in [Url -> Int] /\ DraftInOrder(s) /\ QueueInOrder(s)
      /\ Core(s, InQueue(s), InDraft(s)) /\ Balanced(s, InQueue(s))
    BY DEF Sane, Core, Intakes
<1>2. Injection(L, NewItems(s)) # {}
    <2>1. IsFiniteSet(L)
        <3>1. L \in SUBSET Url
            OBVIOUS
        <3>. QED
            BY <3>1, IntakeAssumption, FS_Subset
    <2>. QED
        BY <2>1, NewItemsAreFinite, PlacesExist DEF HasItems
<1>3. place \in Injection(L, NewItems(s))
    BY <1>2
<1>4. q = Redrafted(s, d, f, s.open)
    BY <1>1 DEF WithItems, Made, Redrafted, Intakes
<1>. HIDE DEF place, q
<1>5. /\ \A u \in L : place[u] \in NewItems(s)
      /\ \A u, v \in L : place[u] = place[v] => u = v
      /\ Range(place) = {place[u] : u \in L}
    BY <1>3 DEF Injection, IsInjective, Range
<1>6. ASSUME NEW u \in L PROVE linkAt(place[u]) = u
    <2>1. \E v \in L : place[v] = place[u]
        OBVIOUS
    <2>. QED
        BY <1>5, <2>1
<1>7. ASSUME NEW u \in L
      PROVE  /\ place[u] \in Item /\ place[u] \notin s.draft /\ s.item[place[u]].work = "none"
             /\ f[place[u]] \in Items /\ Whole(f[place[u]]) /\ f[place[u]].url = u
             /\ f[place[u]].task = NoTask /\ ~f[place[u]].confirmed
    <2>1. place[u] \in Item /\ place[u] \notin s.draft /\ s.item[place[u]].work = "none"
        BY <1>5 DEF NewItems, IsKnownItem
    <2>2. place[u] \in Range(place)
        BY <1>5
    <2>. HIDE DEF linkAt
    <2>3. f[place[u]] = Made(linkAt(place[u]), refused)
        BY <2>1, <2>2
    <2>. HIDE DEF f
    <2>4. f[place[u]] = Made(u, refused)
        BY <1>6, <2>3
    <2>. QED
        BY <2>1, <2>4, MadeIsItem
<1>8. \A i \in Item \ Range(place) : f[i] = s.item[i]
    OBVIOUS
<1>. HIDE DEF f
<1>9. f \in [Item -> Items]
    <2>1. ASSUME NEW i \in Item PROVE f[i] \in Items
        <3>1. CASE i \in Range(place)
            BY <1>5, <1>7, <3>1
        <3>2. CASE i \notin Range(place)
            BY <1>1, <1>8, <3>2
        <3>. QED
            BY <3>1, <3>2
    <2>2. f = [i \in Item |-> f[i]]
        BY DEF f
    <2>. QED
        BY <2>1, <2>2
<1>10. d \in SUBSET Item /\ \A i \in d : i \in s.draft \/ \E u \in L : i = place[u]
    BY <1>1, <1>5, <1>7
<1>11. s.draft \cap Range(place) = {}
    BY <1>5, <1>7
<1>12. \A i \in s.draft : f[i] = s.item[i] /\ i \in d /\ i \in Item
    BY <1>1, <1>8, <1>11
<1>13. \A i \in Item \ d : i \notin s.draft /\ f[i] = s.item[i]
    BY <1>8
<1>. HIDE DEF d
<1>14. /\ q \in Intakes /\ q.draft = d /\ q.item = f /\ q.open = s.open /\ q.url = s.url
       /\ SameStore(s, q) /\ SameQueue(s, q)
    BY <1>1, <1>4, <1>9, <1>10, DraftIsTyped
<1>15. InDraft(q) \subseteq InDraft(s)
    BY <1>7, <1>10, <1>12, <1>14 DEF InDraft
<1>16. DraftInOrder(q)
    <2>1. ASSUME NEW i \in d, NEW j \in d, f[i].url = f[j].url PROVE i = j
        <3>1. CASE i \in s.draft /\ j \in s.draft
            BY <1>1, <1>12, <2>1, <3>1 DEF DraftInOrder
        <3>2. CASE i \in s.draft /\ j \notin s.draft
            <4>1. PICK u \in L : j = place[u]
                BY <1>10, <3>2
            <4>. QED
                BY <1>7, <1>12, <2>1, <3>2, <4>1
        <3>3. CASE i \notin s.draft /\ j \in s.draft
            <4>1. PICK u \in L : i = place[u]
                BY <1>10, <3>3
            <4>. QED
                BY <1>7, <1>12, <2>1, <3>3, <4>1
        <3>4. CASE i \notin s.draft /\ j \notin s.draft
            <4>1. PICK u \in L : i = place[u]
                BY <1>10, <3>4
            <4>2. PICK v \in L : j = place[v]
                BY <1>10, <3>4
            <4>. QED
                BY <1>7, <2>1, <4>1, <4>2
        <3>. QED
            BY <3>1, <3>2, <3>3, <3>4
    <2>2. ASSUME NEW i \in d, f[i].task # NoTask PROVE i \in s.draft /\ f[i] = s.item[i]
        BY <1>7, <1>10, <1>12, <2>2
    <2>3. ASSUME NEW i \in d PROVE Whole(f[i])
        BY <1>1, <1>7, <1>10, <1>12 DEF DraftInOrder
    <2>4. ASSUME NEW i \in d, NEW j \in d, f[i].task = f[j].task, f[i].task # NoTask PROVE i = j
        BY <1>1, <2>2, <2>4 DEF DraftInOrder
    <2>5. ASSUME NEW i \in d, f[i].task # NoTask PROVE s.url[f[i].task] = f[i].url
        BY <1>1, <2>2, <2>5 DEF DraftInOrder
    <2>6. ASSUME NEW i \in Item \ d, f[i].confirmed PROVE f[i].task = NoTask
        BY <1>1, <1>13, <2>6 DEF DraftInOrder
    <2>. QED
        BY <1>14, <2>1, <2>3, <2>4, <2>5, <2>6 DEF DraftInOrder
<1>17. Balanced(q, InQueue(s))
    <2>1. ASSUME NEW u \in Url PROVE Awaited(q, u) = Awaited(s, u)
        <3>1. ASSUME NEW i \in Item PROVE i \in Awaited(q, u) <=> i \in Awaited(s, u)
            <4>1. CASE i \in Range(place)
                BY <1>5, <1>7, <1>14, <4>1 DEF Awaited
            <4>2. CASE i \notin Range(place)
                BY <1>8, <1>14, <4>2 DEF Awaited
            <4>. QED
                BY <4>1, <4>2
        <3>. QED
            BY <3>1 DEF Awaited
    <2>. QED
        BY <1>1, <1>14, <2>1, SameAccount
<1>18. Sane(q)
    BY <1>1, <1>14, <1>15, <1>16, <1>17, DraftChanges
<1>. QED
    BY <1>18 DEF q

LEMMA UrlsSetIsSane ==
    ASSUME NEW s, Sane(s), NEW urls, urls \subseteq Url, NEW kept, NEW refused,
           HasItems(Dropped(s, Unkept(s, kept)), Cardinality(urls \ kept))
    PROVE  Sane(UrlsSet(s, urls, kept, refused))
<1>. DEFINE q == Dropped(s, Unkept(s, kept))
<1>1. Unkept(s, kept) \subseteq s.draft
    BY DEF Unkept
<1>2. Sane(q) /\ q.draft = s.draft \ Unkept(s, kept) /\ \A i \in q.draft : q.item[i] = s.item[i]
    BY <1>1, DroppedIsSane
<1>. HIDE DEF q
<1>3. \A i \in q.draft : q.item[i].url \notin urls \ kept
    BY <1>2 DEF Unkept
<1>4. Sane(WithItems(q, urls \ kept, refused))
    <2>1. urls \ kept \subseteq Url /\ HasItems(q, Cardinality(urls \ kept))
        BY DEF q
    <2>. DEFINE L == urls \ kept
    <2>. HIDE DEF L
    <2>2. Sane(WithItems(q, L, refused))
        BY <1>2, <1>3, <2>1, WithItemsIsSane DEF L
    <2>. QED
        BY <2>2 DEF L
<1>. QED
    BY <1>4 DEF UrlsSet, q

-----------------------------------------------------------------------------
(* Stored tasks.                                                           *)

\* The store changes, and takes no task that is to be added or in the draft.
LEMMA StoreChanges ==
    ASSUME NEW s, Sane(s), NEW q, q \in Intakes, SameDraft(s, q), SameQueue(s, q), q.open = s.open,
           Claims(q.names), Kept(q.names, q.loose), q.names.stored \cap Dying(q) = {},
           q.names.stored \cup Dying(q) \subseteq s.names.stored \cup Dying(s),
           q.names.name = s.names.name
              \/ \E t \in s.names.stored : \E p : q.names.name = [s.names.name EXCEPT ![t] = p]
    PROVE  Sane(q)
<1>. DEFINE X == InQueue(s)
            D == InDraft(s)
<1>1. Core(s, X, D) /\ DraftInOrder(s) /\ QueueInOrder(s) /\ s.names.name \in [Task -> Path \cup {NoPath}]
    BY DEF Sane, Core, Intakes, Names
<1>2. InDraft(q) = D /\ DraftInOrder(q) /\ QueueInOrder(q) /\ InQueue(q) = X
    BY <1>1, SameDraftInOrder, SameQueueInOrder
<1>3. Balanced(q, X)
    <2>1. \A u \in Url : Awaited(q, u) = Awaited(s, u)
        BY DEF Awaited, SameDraft
    <2>. QED
        BY <1>1, <2>1, SameAccount DEF Core, SameDraft
<1>4. \A t \in X \cup D : q.names.name[t] = s.names.name[t]
    <2>1. \A t \in X \cup D : t \in Task /\ t \notin s.names.stored
        BY <1>1 DEF Core
    <2>2. CASE q.names.name = s.names.name
        BY <2>2
    <2>3. CASE \E t \in s.names.stored : \E p : q.names.name = [s.names.name EXCEPT ![t] = p]
        BY <1>1, <2>1, <2>3
    <2>. QED
        BY <2>2, <2>3
<1>5. Core(q, X, D)
    BY <1>1, <1>3, <1>4 DEF Core
<1>. QED
    BY <1>2, <1>5 DEF Sane

LEMMA HappensIsSane ==
    ASSUME NEW s, Sane(s), s.events < MaxEvents
    PROVE  Sane([s EXCEPT !.events = s.events + 1])
<1>. DEFINE e == s.events + 1
            q == [s EXCEPT !.events = e]
<1>1. s \in Intakes /\ s.events \in 0..MaxEvents /\ MaxEvents \in Nat
    BY IntakeAssumption DEF Sane, Core, Intakes
<1>2. e \in 0..MaxEvents
    BY <1>1
<1>. HIDE DEF e
<1>3. /\ q \in Intakes /\ SameDraft(s, q) /\ SameQueue(s, q) /\ q.open = s.open
      /\ q.names = s.names /\ q.loose = s.loose /\ q.deleted = s.deleted
    BY <1>1, <1>2 DEF Intakes, SameDraft, SameQueue
<1>. HIDE DEF q
<1>4. Sane(q)
    BY <1>3, StoreChanges DEF Sane, Core, Dying
<1>. QED
    BY <1>4 DEF q, e

LEMMA RunningChanges ==
    ASSUME NEW s, Sane(s), NEW r, r \subseteq Task
    PROVE  LET q == [s EXCEPT !.running = r]
           IN  Sane(q) /\ q.names = s.names /\ q.events = s.events
<1>. DEFINE q == [s EXCEPT !.running = r]
<1>1. s \in Intakes
    BY DEF Sane, Core
<1>2. /\ q \in Intakes /\ SameDraft(s, q) /\ SameQueue(s, q) /\ q.open = s.open
      /\ q.names = s.names /\ q.loose = s.loose /\ q.deleted = s.deleted /\ q.events = s.events
    BY <1>1 DEF Intakes, SameDraft, SameQueue
<1>. HIDE DEF q
<1>3. Sane(q)
    BY <1>2, StoreChanges DEF Sane, Core, Dying
<1>. QED
    BY <1>2, <1>3 DEF q

Refoldered(s, n, loose) == [s EXCEPT !.names = n, !.loose = loose]
WithFile(n, x, v) == [n EXCEPT !.file[x] = v]

\* What is in the folder changes, and some tasks lose what they had there.
LEMMA FolderChangesAreSane ==
    ASSUME NEW s, Sane(s), NEW n, n \in Names, n.stored = s.names.stored, n.name = s.names.name,
           n.holds = s.names.holds, n.owner = s.names.owner, NEW loose \in SUBSET Task,
           s.loose \subseteq loose,
           \A t \in n.stored \ loose : s.names.file[n.name[t]] # "none" => n.file[n.name[t]] # "none",
           NEW q, q = Refoldered(s, n, loose)
    PROVE  Sane(q) /\ q.events = s.events
<1>1. s \in Intakes /\ Claims(s.names) /\ Kept(s.names, s.loose) /\ s.names.stored \cap Dying(s) = {}
    BY DEF Sane, Core
<1>2. /\ q \in Intakes /\ SameDraft(s, q) /\ SameQueue(s, q) /\ q.open = s.open
      /\ q.names = n /\ q.loose = loose /\ q.deleted = s.deleted /\ q.events = s.events
    BY <1>1 DEF Refoldered, Intakes, SameDraft, SameQueue
<1>3. Claims(n)
    BY <1>1 DEF Claims
<1>4. Kept(n, loose)
    BY <1>1 DEF Kept
<1>5. Dying(q) = Dying(s)
    BY <1>2 DEF Dying
<1>6. Sane(q)
    BY <1>1, <1>2, <1>3, <1>4, <1>5, StoreChanges
<1>. QED
    BY <1>2, <1>6

LEMMA FileIsTyped ==
    ASSUME NEW n \in Names, NEW x, NEW v \in {"none", "empty", "data"}, NEW m, m = WithFile(n, x, v)
    PROVE  /\ m \in Names /\ m.stored = n.stored /\ m.name = n.name /\ m.holds = n.holds
           /\ m.owner = n.owner /\ m.gone = n.gone /\ m.completed = n.completed
           /\ \A p \in Path : m.file[p] = IF p = x THEN v ELSE n.file[p]
<1>. DEFINE f == [n.file EXCEPT ![x] = v]
<1>1. n.file \in [Path -> {"none", "empty", "data"}]
    BY DEF Names
<1>2. f \in [Path -> {"none", "empty", "data"}] /\ \A p \in Path : f[p] = IF p = x THEN v ELSE n.file[p]
    BY <1>1
<1>3. m = [n EXCEPT !.file = f]
    BY DEF WithFile, Names
<1>. HIDE DEF f
<1>4. /\ m \in Names /\ m.stored = n.stored /\ m.name = n.name /\ m.holds = n.holds
      /\ m.owner = n.owner /\ m.gone = n.gone /\ m.completed = n.completed /\ m.file = f
    BY <1>2, <1>3 DEF Names
<1>. QED
    BY <1>2, <1>4

\* s after the body of t has ended with a whole file.
Ended(s, t) == [s EXCEPT !.names.completed = s.names.completed \cup {t},
                         !.names.file[s.names.name[t]] = "data"]

LEMMA BodyEndsIsSane ==
    ASSUME NEW s, Sane(s), NEW t \in Task
    PROVE  Sane(Ended(s, t))
<1>. DEFINE p == s.names.name[t]
            m == WithFile(s.names, p, "data")
            c == s.names.completed \cup {t}
            n == [m EXCEPT !.completed = c]
            q == Refoldered(s, n, s.loose)
<1>1. s \in Intakes /\ s.names \in Names /\ s.loose \in SUBSET Task /\ Claims(s.names)
    BY DEF Sane, Core, Intakes
<1>2. c \subseteq Task
    BY <1>1 DEF Names
<1>3. /\ m \in Names /\ m.stored = s.names.stored /\ m.name = s.names.name /\ m.holds = s.names.holds
      /\ m.owner = s.names.owner /\ m.completed = s.names.completed
      /\ \A x \in Path : m.file[x] = IF x = p THEN "data" ELSE s.names.file[x]
    BY <1>1, FileIsTyped
<1>4. Ended(s, t) = q
    BY <1>1 DEF Ended, Refoldered, WithFile, Intakes, Names
<1>. HIDE DEF m, c, p
<1>5. /\ n \in Names /\ n.stored = m.stored /\ n.name = m.name /\ n.holds = m.holds /\ n.owner = m.owner
      /\ n.file = m.file
    BY <1>2, <1>3 DEF Names
<1>. HIDE DEF n
<1>6. \A v \in n.stored \ s.loose : s.names.file[n.name[v]] # "none" => n.file[n.name[v]] # "none"
    BY <1>1, <1>3, <1>5 DEF Claims
<1>7. Sane(q)
    <2>. DEFINE l == s.loose
    <2>. HIDE DEF q, l
    <2>1. l \in SUBSET Task /\ s.loose \subseteq l /\ q = Refoldered(s, n, l)
        BY <1>1 DEF q, l
    <2>2. \A v \in n.stored \ l : s.names.file[n.name[v]] # "none" => n.file[n.name[v]] # "none"
        BY <1>6 DEF l
    <2>. QED
        BY <1>3, <1>5, <2>1, <2>2, FolderChangesAreSane
<1>. QED
    BY <1>4, <1>7

\* s after others have removed what was at p.
Emptied(s, p) == [s EXCEPT !.names.file[p] = "none",
                           !.loose = s.loose \cup OthersAt(s.names, NoTask, p)]

LEMMA UserRemovesIsSane ==
    ASSUME NEW s, Sane(s), NEW p \in Path
    PROVE  Sane(Emptied(s, p)) /\ Emptied(s, p).events = s.events
<1>. DEFINE n == WithFile(s.names, p, "none")
            l == s.loose \cup OthersAt(s.names, NoTask, p)
            q == Emptied(s, p)
<1>1. s \in Intakes /\ s.names \in Names /\ s.loose \in SUBSET Task /\ Claims(s.names)
      /\ s.names.stored \subseteq Task
    BY DEF Sane, Core, Intakes, Names
<1>2. /\ n \in Names /\ n.stored = s.names.stored /\ n.name = s.names.name /\ n.holds = s.names.holds
      /\ n.owner = s.names.owner /\ \A x \in Path : n.file[x] = IF x = p THEN "none" ELSE s.names.file[x]
    BY <1>1, FileIsTyped
<1>3. q = Refoldered(s, n, l)
    BY <1>1 DEF Emptied, Refoldered, WithFile, Intakes
<1>4. l \in SUBSET Task /\ s.loose \subseteq l
    BY <1>1 DEF OthersAt
<1>. HIDE DEF n, q
<1>5. \A v \in n.stored \ l : s.names.file[n.name[v]] # "none" => n.file[n.name[v]] # "none"
    <2>1. \A v \in n.stored \ l : n.name[v] \in Path /\ n.name[v] # p
        BY <1>1, <1>2 DEF Claims, OthersAt, NoTask, Task
    <2>. QED
        BY <1>2, <2>1
<1>. HIDE DEF l
<1>6. Sane(q) /\ q.events = s.events
    BY <1>2, <1>3, <1>4, <1>5, FolderChangesAreSane
<1>. QED
    BY <1>6 DEF q, l

LEMMA FolderGoesIsSane ==
    ASSUME NEW s, Sane(s)
    PROVE  LET q == [s EXCEPT !.names.gone = ~s.names.gone]
           IN  Sane(q) /\ q.events = s.events
<1>. DEFINE n == [s.names EXCEPT !.gone = ~s.names.gone]
            q == [s EXCEPT !.names.gone = ~s.names.gone]
            l == s.loose
<1>1. s \in Intakes /\ s.names \in Names /\ l \in SUBSET Task /\ s.loose \subseteq l
    BY DEF Sane, Core, Intakes
<1>2. /\ n \in Names /\ n.stored = s.names.stored /\ n.name = s.names.name /\ n.holds = s.names.holds
      /\ n.owner = s.names.owner /\ n.file = s.names.file
    BY <1>1 DEF Names
<1>3. q = Refoldered(s, n, l)
    BY <1>1 DEF Refoldered, Intakes
<1>. HIDE DEF n, q, l
<1>4. \A v \in n.stored \ l : s.names.file[n.name[v]] # "none" => n.file[n.name[v]] # "none"
    BY <1>2
<1>5. Sane(q) /\ q.events = s.events
    BY <1>1, <1>2, <1>3, <1>4, FolderChangesAreSane
<1>. QED
    BY <1>5 DEF q

\* What the stop of a deleted task leaves.
LEMMA CleanedGives ==
    ASSUME NEW n \in Names, NEW t \in Task, NEW withFiles, NEW m, m = Cleaned(n, t, withFiles)
    PROVE  /\ m \in Names /\ m.stored = n.stored /\ m.name = n.name /\ m.holds = n.holds
           /\ m.owner = n.owner /\ (m.file[n.name[t]] # n.file[n.name[t]] \/ m.file = n.file)
           /\ \A p \in Path : p # n.name[t] => m.file[p] = n.file[p]
<1>. DEFINE p == n.name[t]
            f == [n.file EXCEPT ![p] = "none"]
<1>1. p \in Path \cup {NoPath} /\ n.file \in [Path -> {"none", "empty", "data"}]
    BY DEF Names
<1>2. CASE m = n
    BY <1>2
<1>3. CASE m # n
    <2>1. m = WithFile(n, p, "none") /\ n.file[p] # "none"
        BY <1>3 DEF Cleaned, WithFile, IsExisting
    <2>. HIDE DEF p
    <2>2. /\ m \in Names /\ m.stored = n.stored /\ m.name = n.name /\ m.holds = n.holds
          /\ m.owner = n.owner
          /\ \A x \in Path : m.file[x] = IF x = p THEN "none" ELSE n.file[x]
        BY <2>1, FileIsTyped
    <2>3. m.file = f
        BY <2>1 DEF WithFile, Names
    <2>4. p \notin Path => m.file = n.file
        BY <1>1, <2>3
    <2>. QED
        BY <2>1, <2>2, <2>4 DEF p
<1>. QED
    BY <1>2, <1>3

\* The store without the task t, which leaves its path.
LEMMA RemovedKeeps ==
    ASSUME NEW n \in Names, NEW t \in Task, NEW loose, Claims(n),
           \A v \in n.stored \ (loose \cup {t}) : n.owner[n.name[v]] = v /\ n.file[n.name[v]] # "none",
           NEW m, m = Removed(n, t)
    PROVE  /\ m \in Names /\ m.stored = n.stored \ {t} /\ m.name = n.name
           /\ Claims(m) /\ Kept(m, loose)
<1>. DEFINE r == Released(n, t)
<1>1. /\ r \in Names /\ r.stored = n.stored /\ r.name = n.name /\ r.file = n.file
      /\ r.holds = [n.holds EXCEPT ![t] = NoPath] /\ r.owner = OwnerWithout(n, t)
    BY ReleasedGives
<1>2. m = [r EXCEPT !.stored = n.stored \ {t}]
    BY <1>1 DEF Removed
<1>. HIDE DEF r
<1>3. /\ m \in Names /\ m.stored = n.stored \ {t} /\ m.name = n.name /\ m.file = n.file
      /\ m.holds = [n.holds EXCEPT ![t] = NoPath] /\ m.owner = OwnerWithout(n, t)
    BY <1>1, <1>2 DEF Names
<1>4. \A v \in m.stored : v # t /\ v \in n.stored /\ m.holds[v] = n.holds[v]
    BY <1>3 DEF Names
<1>5. \A x \in Path : m.owner[x] = IF x = n.holds[t] /\ n.owner[x] = t THEN NoTask ELSE n.owner[x]
    BY <1>3 DEF OwnerWithout
<1>6. Claims(m)
    <2>1. ASSUME NEW v \in m.stored PROVE m.holds[v] = m.name[v] /\ m.name[v] \in Path
        BY <1>3, <1>4 DEF Claims
    <2>2. ASSUME NEW p \in Path, m.owner[p] # NoTask
          PROVE  m.owner[p] \in m.stored /\ m.holds[m.owner[p]] = p
        <3>1. m.owner[p] = n.owner[p] /\ n.owner[p] \in n.stored /\ n.holds[n.owner[p]] = p
            BY <1>5, <2>2 DEF Claims
        <3>2. n.owner[p] # t
            BY <1>5, <2>2, <3>1
        <3>. QED
            BY <1>3, <1>4, <3>1, <3>2
    <2>. QED
        BY <2>1, <2>2 DEF Claims
<1>7. Kept(m, loose)
    <2>1. ASSUME NEW v \in m.stored \ loose PROVE m.owner[m.name[v]] = v /\ m.file[m.name[v]] # "none"
        <3>1. v # t /\ v \in n.stored \ (loose \cup {t}) /\ n.name[v] \in Path
            BY <1>4 DEF Claims
        <3>2. n.owner[n.name[v]] = v /\ n.file[n.name[v]] # "none"
            BY <3>1
        <3>. QED
            BY <1>3, <1>5, <3>1, <3>2
    <2>. QED
        BY <2>1 DEF Kept
<1>. QED
    BY <1>3, <1>6, <1>7

LEMMA ClearedKeeps ==
    ASSUME NEW s, Sane(s), NEW t \in Task, NEW withFiles, NEW q, q = Cleared(s, t, withFiles)
    PROVE  /\ q \in Intakes /\ SameDraft(s, q) /\ SameQueue(s, q) /\ q.open = s.open
           /\ q.events = s.events /\ q.names \in Names /\ Claims(q.names)
           /\ q.names.stored = s.names.stored /\ q.names.name = s.names.name
           /\ Dying(q) = Dying(s) \ {t}
           /\ \A v \in q.names.stored \ (q.loose \cup {t}) :
                  q.names.owner[q.names.name[v]] = v /\ q.names.file[q.names.name[v]] # "none"
<1>. DEFINE n == Cleaned(s.names, t, withFiles)
            p == n.name[t]
            loose == IF n.file[p] # s.names.file[p] THEN s.loose \cup OthersAt(n, t, p) ELSE s.loose
            deleted == [s.deleted EXCEPT ![t] = "no"]
<1>1. /\ s \in Intakes /\ s.names \in Names /\ s.loose \in SUBSET Task /\ Claims(s.names)
      /\ s.names.stored \subseteq Task /\ Kept(s.names, s.loose)
      /\ s.deleted \in [Task -> {"no", "keep", "files"}]
    BY DEF Sane, Core, Intakes, Names
<1>2. /\ n \in Names /\ n.stored = s.names.stored /\ n.name = s.names.name /\ n.holds = s.names.holds
      /\ n.owner = s.names.owner
      /\ (n.file[s.names.name[t]] # s.names.file[s.names.name[t]] \/ n.file = s.names.file)
      /\ \A x \in Path : x # s.names.name[t] => n.file[x] = s.names.file[x]
    BY <1>1, CleanedGives
<1>3. q = [s EXCEPT !.names = n, !.deleted = deleted, !.loose = loose]
    BY <1>1 DEF Cleared, Intakes
<1>4. /\ deleted \in [Task -> {"no", "keep", "files"}] /\ deleted[t] = "no"
      /\ \A v \in Task : v # t => deleted[v] = s.deleted[v]
    BY <1>1
<1>. HIDE DEF n, deleted
<1>5. loose \in SUBSET Task /\ s.loose \subseteq loose
    BY <1>1, <1>2 DEF OthersAt
<1>6. ASSUME NEW v \in s.names.stored \ (loose \cup {t})
      PROVE  n.owner[n.name[v]] = v /\ n.file[n.name[v]] # "none"
    <2>1. s.names.owner[n.name[v]] = v /\ s.names.file[n.name[v]] # "none" /\ n.name[v] \in Path
        BY <1>1, <1>2, <1>5 DEF Kept, Claims
    <2>2. CASE n.file = s.names.file
        BY <1>2, <2>1, <2>2
    <2>3. CASE n.file[p] # s.names.file[p]
        <3>1. v \notin OthersAt(n, t, p)
            BY <2>3
        <3>2. n.name[v] # p
            BY <1>2, <3>1 DEF OthersAt
        <3>. QED
            BY <1>2, <2>1, <3>2
    <2>. QED
        BY <1>2, <2>2, <2>3
<1>. HIDE DEF loose
<1>7. /\ q \in Intakes /\ SameDraft(s, q) /\ SameQueue(s, q) /\ q.open = s.open /\ q.events = s.events
      /\ q.names = n /\ q.loose = loose /\ q.deleted = deleted
    <2>1. /\ s \in Intakes /\ n \in Names /\ deleted \in [Task -> {"no", "keep", "files"}]
          /\ loose \in SUBSET Task
        BY <1>1, <1>2, <1>4, <1>5
    <2>. QED
        BY <1>3, <2>1 DEF Intakes, SameDraft, SameQueue
<1>8. Claims(n)
    BY <1>1, <1>2 DEF Claims
<1>9. Dying(q) = Dying(s) \ {t}
    BY <1>4, <1>7 DEF Dying
<1>. QED
    BY <1>2, <1>6, <1>7, <1>8, <1>9

LEMMA OnStoppedIsSane ==
    ASSUME NEW s, Sane(s), NEW t \in Dying(s), NEW withFiles
    PROVE  Sane(Cleared(s, t, withFiles))
<1>. DEFINE q == Cleared(s, t, withFiles)
<1>1. t \in Task /\ t \notin s.names.stored /\ s.names.stored \cap Dying(s) = {}
    BY DEF Dying, Sane, Core
<1>2. /\ q \in Intakes /\ SameDraft(s, q) /\ SameQueue(s, q) /\ q.open = s.open
      /\ Claims(q.names) /\ q.names.stored = s.names.stored /\ q.names.name = s.names.name
      /\ Dying(q) = Dying(s) \ {t}
      /\ \A v \in q.names.stored \ (q.loose \cup {t}) :
             q.names.owner[q.names.name[v]] = v /\ q.names.file[q.names.name[v]] # "none"
    BY <1>1, ClearedKeeps
<1>. HIDE DEF q
<1>3. Kept(q.names, q.loose)
    BY <1>1, <1>2 DEF Kept
<1>4. Sane(q)
    BY <1>1, <1>2, <1>3, StoreChanges
<1>. QED
    BY <1>4 DEF q

LEMMA DeletedIsSane ==
    ASSUME NEW s, Sane(s), NEW t \in s.names.stored, NEW withFiles \in BOOLEAN
    PROVE  Sane(Deleted(s, t, withFiles)) /\ Deleted(s, t, withFiles).events = s.events
<1>. DEFINE deleted == [s.deleted EXCEPT ![t] = IF withFiles THEN "files" ELSE "keep"]
            a == IF t \notin s.running THEN Cleared(s, t, withFiles)
                 ELSE [s EXCEPT !.deleted[t] = IF withFiles THEN "files" ELSE "keep"]
            n == Removed(a.names, t)
            q == [a EXCEPT !.names = n]
<1>1. /\ s \in Intakes /\ s.names \in Names /\ s.loose \in SUBSET Task /\ Claims(s.names) /\ t \in Task
      /\ s.names.stored \subseteq Task /\ Kept(s.names, s.loose)
      /\ s.deleted \in [Task -> {"no", "keep", "files"}] /\ s.names.stored \cap Dying(s) = {}
    BY DEF Sane, Core, Intakes, Names
<1>2. /\ a \in Intakes /\ SameDraft(s, a) /\ SameQueue(s, a) /\ a.open = s.open
      /\ a.events = s.events /\ a.names \in Names /\ Claims(a.names)
      /\ a.names.stored = s.names.stored /\ a.names.name = s.names.name
      /\ Dying(a) \subseteq Dying(s) \cup {t}
      /\ \A v \in a.names.stored \ (a.loose \cup {t}) :
             a.names.owner[a.names.name[v]] = v /\ a.names.file[a.names.name[v]] # "none"
    <2>1. CASE t \notin s.running
        <3>1. a = Cleared(s, t, withFiles)
            BY <2>1
        <3>. HIDE DEF a
        <3>. QED
            BY <1>1, <3>1, ClearedKeeps
    <2>2. CASE t \in s.running
        <3>1. a = [s EXCEPT !.deleted = deleted]
            BY <1>1, <2>2 DEF Intakes
        <3>2. deleted \in [Task -> {"no", "keep", "files"}] /\ \A v \in Task : v # t => deleted[v] = s.deleted[v]
            BY <1>1
        <3>. HIDE DEF a, deleted
        <3>3. /\ a \in Intakes /\ SameDraft(s, a) /\ SameQueue(s, a) /\ a.open = s.open
              /\ a.events = s.events /\ a.names = s.names /\ a.loose = s.loose /\ a.deleted = deleted
            BY <1>1, <3>1, <3>2 DEF Intakes, SameDraft, SameQueue
        <3>4. Dying(a) \subseteq Dying(s) \cup {t}
            BY <3>2, <3>3 DEF Dying
        <3>. QED
            BY <1>1, <3>3, <3>4 DEF Kept
    <2>. QED
        BY <2>1, <2>2
<1>3. Deleted(s, t, withFiles) = q
    BY DEF Deleted
<1>. HIDE DEF a
<1>4. /\ n \in Names /\ n.stored = a.names.stored \ {t} /\ n.name = a.names.name
      /\ Claims(n) /\ Kept(n, a.loose)
    BY <1>1, <1>2, RemovedKeeps
<1>. HIDE DEF n
<1>5. /\ q \in Intakes /\ SameDraft(a, q) /\ SameQueue(a, q) /\ q.open = a.open
      /\ q.events = a.events /\ q.names = n /\ q.loose = a.loose /\ q.deleted = a.deleted
    <2>1. a \in Intakes /\ n \in Names
        BY <1>2, <1>4
    <2>. QED
        BY <2>1 DEF Intakes, SameDraft, SameQueue
<1>. HIDE DEF q
<1>6. SameDraft(s, q) /\ SameQueue(s, q) /\ q.open = s.open /\ q.events = s.events
    BY <1>2, <1>5 DEF SameDraft, SameQueue
<1>7. Dying(q) = Dying(a)
    BY <1>5 DEF Dying
<1>8. /\ q.names.stored \cap Dying(q) = {}
      /\ q.names.stored \cup Dying(q) \subseteq s.names.stored \cup Dying(s)
      /\ q.names.name = s.names.name
    BY <1>1, <1>2, <1>4, <1>5, <1>7
<1>9. Claims(q.names) /\ Kept(q.names, q.loose)
    BY <1>4, <1>5
<1>10. Sane(q)
    BY <1>5, <1>6, <1>8, <1>9, StoreChanges
<1>. QED
    BY <1>3, <1>6, <1>10

\* n after the task t has moved to the path new, and what was at its old path with it.
IsMovedTo(n, m, t, new) ==
    LET old == n.holds[t]
    IN  /\ m \in Names /\ m.stored = n.stored
        /\ m.name = [n.name EXCEPT ![t] = new] /\ m.holds = [n.holds EXCEPT ![t] = new]
        /\ m.owner = [OwnerWithout(n, t) EXCEPT ![new] = t]
        /\ \A x \in Path : x # new /\ x # old => m.file[x] = n.file[x]
        /\ IF new = old THEN m.file[new] = n.file[new] ELSE m.file[new] # "none"

LEMMA MovedGives ==
    ASSUME NEW n \in Names, NEW t \in n.stored, n.holds[t] \in Path, NEW p \in Path, p # n.holds[t],
           ~n.gone, \E x \in p..PathCount : ~IsExisting(n, x)
    PROVE  \E new \in Path : IsMovedTo(n, Moved(n, t, p), t, new)
<1>. DEFINE old == n.holds[t]
            new == FirstFree(n, t, p)
            there == IF IsExisting(n, old) THEN n.file[old] ELSE "empty"
            file == IF new = old THEN n.file ELSE [n.file EXCEPT ![new] = there, ![old] = "none"]
            name == [n.name EXCEPT ![t] = new]
            a == [n EXCEPT !.file = file, !.name = name]
            r == Released(a, t)
            holds == [r.holds EXCEPT ![t] = new]
            owner == [r.owner EXCEPT ![new] = t]
            m == [r EXCEPT !.holds = holds, !.owner = owner]
<1>1. new \in Path
    <2>. DEFINE F == {x \in p..PathCount : ~IsExisting(n, x) \/ x = n.holds[t]}
    <2>1. F \subseteq Path /\ Path \subseteq Nat /\ F # {}
        BY NamesAssumption DEF Path
    <2>. HIDE DEF F
    <2>2. Min(F) \in Path
        BY <2>1, MinIsLeast
    <2>. QED
        BY <2>2 DEF FirstFree, F
<1>. HIDE DEF new
<1>2. /\ n.file \in [Path -> {"none", "empty", "data"}] /\ n.name \in [Task -> Path \cup {NoPath}]
      /\ t \in Task
    BY DEF Names
<1>3. there \in {"none", "empty", "data"} /\ there # "none"
    BY <1>2 DEF IsExisting
<1>. HIDE DEF there
<1>4. /\ file \in [Path -> {"none", "empty", "data"}]
      /\ \A x \in Path : x # new /\ x # old => file[x] = n.file[x]
      /\ IF new = old THEN file[new] = n.file[new] ELSE file[new] # "none"
    BY <1>1, <1>2, <1>3
<1>5. name \in [Task -> Path \cup {NoPath}]
    BY <1>1, <1>2
<1>6. Moved(n, t, p) = Holding(a, t, new)
    BY <1>2 DEF Moved, new, there
<1>. HIDE DEF file, name
<1>7. /\ a \in Names /\ a.stored = n.stored /\ a.name = name /\ a.holds = n.holds /\ a.owner = n.owner
      /\ a.file = file
    BY <1>4, <1>5 DEF Names
<1>. HIDE DEF a
<1>8. /\ r \in Names /\ r.stored = a.stored /\ r.name = a.name /\ r.file = a.file
      /\ r.holds = [a.holds EXCEPT ![t] = NoPath] /\ r.owner = OwnerWithout(a, t)
    BY <1>7, ReleasedGives
<1>9. OwnerWithout(a, t) = OwnerWithout(n, t)
    BY <1>7 DEF OwnerWithout
<1>10. Holding(a, t, new) = m
    BY <1>8 DEF Holding, Names
<1>. HIDE DEF r
<1>11. holds \in [Task -> Path \cup {NoPath}] /\ owner \in [Path -> Task \cup {NoTask}]
    BY <1>1, <1>2, <1>8 DEF Names
<1>12. holds = [n.holds EXCEPT ![t] = new]
    BY <1>2, <1>7, <1>8 DEF Names
<1>13. owner = [OwnerWithout(n, t) EXCEPT ![new] = t]
    BY <1>8, <1>9
<1>. HIDE DEF holds, owner
<1>14. /\ m \in Names /\ m.stored = r.stored /\ m.name = r.name /\ m.file = r.file
       /\ m.holds = holds /\ m.owner = owner
    BY <1>8, <1>11 DEF Names
<1>. HIDE DEF m
<1>15. IsMovedTo(n, m, t, new)
    BY <1>4, <1>7, <1>8, <1>12, <1>13, <1>14 DEF IsMovedTo, name
<1>. QED
    BY <1>1, <1>6, <1>10, <1>15

LEMMA MovedKeeps ==
    ASSUME NEW n \in Names, NEW loose, Claims(n), Kept(n, loose), NEW t \in n.stored, NEW new \in Path,
           NEW m, IsMovedTo(n, m, t, new), NEW more, loose \subseteq more,
           {u \in n.stored \ {t} : n.owner[new] = u} \subseteq more,
           new # n.holds[t] => OthersAt(m, t, n.holds[t]) \subseteq more
    PROVE  Claims(m) /\ Kept(m, more)
<1>. DEFINE old == n.holds[t]
<1>1. /\ m.stored = n.stored /\ m.name = [n.name EXCEPT ![t] = new]
      /\ m.holds = [n.holds EXCEPT ![t] = new]
      /\ \A x \in Path : x # new /\ x # old => m.file[x] = n.file[x]
      /\ m.owner = [OwnerWithout(n, t) EXCEPT ![new] = t]
      /\ IF new = old THEN m.file[new] = n.file[new] ELSE m.file[new] # "none"
    BY DEF IsMovedTo
<1>2. /\ n.name \in [Task -> Path \cup {NoPath}] /\ n.holds \in [Task -> Path \cup {NoPath}]
      /\ n.stored \subseteq Task /\ t \in Task
    BY DEF Names
<1>3. \A v \in n.stored : n.holds[v] = n.name[v] /\ n.name[v] \in Path
    BY DEF Claims
<1>4. /\ m.name[t] = new /\ m.holds[t] = new
      /\ \A v \in n.stored : v # t => m.name[v] = n.name[v] /\ m.holds[v] = n.holds[v]
    BY <1>1, <1>2
<1>5. \A x \in Path : m.owner[x] = IF x = new THEN t
                                   ELSE IF x = old /\ n.owner[x] = t THEN NoTask ELSE n.owner[x]
    BY <1>1 DEF OwnerWithout
<1>. HIDE DEF old
<1>6. Claims(m)
    <2>1. ASSUME NEW v \in m.stored PROVE m.holds[v] = m.name[v] /\ m.name[v] \in Path
        BY <1>1, <1>3, <1>4
    <2>2. ASSUME NEW x \in Path, m.owner[x] # NoTask
          PROVE  m.owner[x] \in m.stored /\ m.holds[m.owner[x]] = x
        <3>1. CASE x = new
            BY <1>1, <1>4, <1>5, <3>1
        <3>2. CASE x # new
            <4>1. m.owner[x] = n.owner[x] /\ n.owner[x] # NoTask
                BY <1>5, <2>2, <3>2
            <4>2. n.owner[x] \in n.stored /\ n.holds[n.owner[x]] = x
                BY <4>1 DEF Claims
            <4>3. n.owner[x] # t
                BY <1>5, <2>2, <3>2, <4>1, <4>2 DEF old
            <4>. QED
                BY <1>1, <1>4, <4>1, <4>2, <4>3
        <3>. QED
            BY <3>1, <3>2
    <2>. QED
        BY <2>1, <2>2 DEF Claims
<1>7. Kept(m, more)
    <2>. SUFFICES ASSUME NEW v \in n.stored, v \notin more
                  PROVE  m.owner[m.name[v]] = v /\ m.file[m.name[v]] # "none"
        BY <1>1 DEF Kept
    <2>1. n.owner[n.name[v]] = v /\ n.file[n.name[v]] # "none" /\ n.name[v] \in Path
        BY <1>3 DEF Kept
    <2>2. CASE v = t
        <3>1. m.owner[new] = t /\ n.name[t] = old
            BY <1>3, <1>5 DEF old
        <3>2. m.file[new] # "none"
            BY <1>1, <2>1, <2>2, <3>1
        <3>. QED
            BY <1>4, <2>2, <3>1, <3>2
    <2>3. CASE v # t
        <3>1. n.name[v] # new
            BY <2>1, <2>3
        <3>2. n.name[v] # old
            <4>1. CASE new = old
                BY <3>1, <4>1
            <4>2. CASE new # old
                BY <1>1, <1>4, <2>3, <4>2 DEF OthersAt, old
            <4>. QED
                BY <4>1, <4>2
        <3>. QED
            BY <1>1, <1>4, <1>5, <2>1, <2>3, <3>1, <3>2
    <2>. QED
        BY <2>2, <2>3
<1>. QED
    BY <1>6, <1>7

\* s after the task t was given the path p.
Rehoused(s, t, p) ==
    LET n == Moved(s.names, t, p)
        old == s.names.holds[t]
        deprived == {u \in n.stored \ {t} : s.names.owner[n.name[t]] = u}
        robbed == IF n.name[t] # old THEN OthersAt(n, t, old) ELSE {}
    IN  [s EXCEPT !.names = n, !.loose = s.loose \cup deprived \cup robbed]

LEMMA MoveIsSane ==
    ASSUME NEW s, Sane(s), NEW t \in s.names.stored, NEW p \in Path, p # s.names.holds[t],
           \E x \in p..PathCount : ~IsExisting(s.names, x)
    PROVE  Sane(Rehoused(s, t, p)) /\ Rehoused(s, t, p).events = s.events
<1>. DEFINE n == Moved(s.names, t, p)
            old == s.names.holds[t]
            deprived == {u \in n.stored \ {t} : s.names.owner[n.name[t]] = u}
            robbed == IF n.name[t] # old THEN OthersAt(n, t, old) ELSE {}
            l == s.loose \cup deprived \cup robbed
            q == [s EXCEPT !.names = n, !.loose = l]
<1>0. Rehoused(s, t, p) = q
    BY DEF Rehoused
<1>1. /\ s \in Intakes /\ s.names \in Names /\ s.loose \in SUBSET Task /\ Claims(s.names) /\ t \in Task
      /\ s.names.stored \subseteq Task /\ Kept(s.names, s.loose) /\ old = s.names.name[t] /\ old \in Path
      /\ s.names.stored \cap Dying(s) = {} /\ s.names.name \in [Task -> Path \cup {NoPath}]
    BY DEF Sane, Core, Intakes, Names, Claims
<1>2. /\ n \in Names /\ n.stored = s.names.stored /\ Claims(n) /\ Kept(n, l)
      /\ (n.name = s.names.name \/ \E x : n.name = [s.names.name EXCEPT ![t] = x])
    <2>1. CASE s.names.gone
        <3>1. n = s.names
            BY <2>1 DEF Moved
        <3>2. s.loose \subseteq l
            OBVIOUS
        <3>. HIDE DEF n, l
        <3>. QED
            BY <1>1, <3>1, <3>2 DEF Kept
    <2>2. CASE ~s.names.gone
        <3>1. PICK new \in Path : IsMovedTo(s.names, n, t, new)
            BY <1>1, <2>2, MovedGives
        <3>. HIDE DEF n
        <3>2. n \in Names /\ n.stored = s.names.stored /\ n.name = [s.names.name EXCEPT ![t] = new]
            BY <3>1 DEF IsMovedTo
        <3>3. n.name[t] = new
            BY <1>1, <3>2
        <3>4. /\ s.loose \subseteq l /\ {u \in s.names.stored \ {t} : s.names.owner[new] = u} \subseteq l
              /\ new # s.names.holds[t] => OthersAt(n, t, s.names.holds[t]) \subseteq l
            BY <3>2, <3>3
        <3>. HIDE DEF l
        <3>5. Claims(n) /\ Kept(n, l)
            BY <1>1, <3>1, <3>4, MovedKeeps
        <3>. QED
            BY <3>2, <3>5
    <2>. QED
        BY <2>1, <2>2
<1>3. l \in SUBSET Task
    BY <1>1, <1>2 DEF OthersAt
<1>. HIDE DEF n, l
<1>4. /\ q \in Intakes /\ SameDraft(s, q) /\ SameQueue(s, q) /\ q.open = s.open
      /\ q.events = s.events /\ q.names = n /\ q.loose = l /\ q.deleted = s.deleted
    <2>1. s \in Intakes /\ n \in Names /\ l \in SUBSET Task
        BY <1>1, <1>2, <1>3
    <2>. QED
        BY <2>1 DEF Intakes, SameDraft, SameQueue
<1>. HIDE DEF q
<1>5. Dying(q) = Dying(s)
    BY <1>4 DEF Dying
<1>6. Sane(q)
    BY <1>1, <1>2, <1>4, <1>5, StoreChanges
<1>. QED
    BY <1>0, <1>4, <1>6 DEF q

-----------------------------------------------------------------------------
(* The invariant.                                                          *)

LEMMA InitIsSane == Init => Inv
<1>. SUFFICES ASSUME Init PROVE Sane(intake)
    BY DEF Inv
<1>1. PICK files \in SUBSET UserFiles :
        intake = [
            draft |-> {},
            item |-> [i \in Item |-> Blank],
            names |-> [stored |-> {}, name |-> [t \in Task |-> NoPath],
                       holds |-> [t \in Task |-> NoPath], owner |-> [p \in Path |-> NoTask],
                       completed |-> {}, gone |-> FALSE,
                       file |-> [p \in Path |-> IF p \in files THEN "data" ELSE "none"]],
            url |-> [t \in Task |-> NoUrl],
            running |-> {}, deleted |-> [t \in Task |-> "no"],
            queue |-> <<>>, asked |-> NoTask, rest |-> 0, posted |-> FALSE,
            stuck |-> FALSE, loose |-> {}, events |-> 0, open |-> [u \in Url |-> 0]]
    BY DEF Init
<1>2. Blank \in Items /\ ~Blank.confirmed
    BY DEF Blank, Items
<1>3. <<>> \in Seq(Task) /\ Len(<<>>) = 0 /\ Range(<<>>) = {}
    BY RangeOfSeq DEF Range
<1>4. intake.names \in Names
    BY <1>1 DEF Names
<1>5. /\ intake.draft = {} /\ intake.item = [i \in Item |-> Blank] /\ intake.names.stored = {}
      /\ intake.names.owner = [p \in Path |-> NoTask] /\ intake.url = [t \in Task |-> NoUrl]
      /\ intake.deleted = [t \in Task |-> "no"] /\ intake.queue = <<>> /\ intake.asked = NoTask
      /\ intake.rest = 0 /\ intake.posted = FALSE /\ intake.stuck = FALSE /\ intake.loose = {}
      /\ intake.open = [u \in Url |-> 0]
    BY <1>1
<1>6. intake \in Intakes
    <2>. DEFINE names == intake.names
                item == [i \in Item |-> Blank]
    <2>1. names \in Names /\ item \in [Item -> Items] /\ 0 \in 0..MaxEvents
        BY <1>2, <1>4, IntakeAssumption
    <2>2. intake = [
            draft |-> {}, item |-> item, names |-> names, url |-> [t \in Task |-> NoUrl],
            running |-> {}, deleted |-> [t \in Task |-> "no"],
            queue |-> <<>>, asked |-> NoTask, rest |-> 0, posted |-> FALSE,
            stuck |-> FALSE, loose |-> {}, events |-> 0, open |-> [u \in Url |-> 0]]
        BY <1>1
    <2>. HIDE DEF names, item
    <2>. QED
        BY <1>3, <2>1, <2>2 DEF Intakes
<1>7. InQueue(intake) = {} /\ InDraft(intake) = {} /\ Dying(intake) = {}
    BY <1>3, <1>5 DEF InQueue, InDraft, Dying
<1>8. Claims(intake.names) /\ Kept(intake.names, intake.loose)
    BY <1>5 DEF Claims, Kept
<1>9. Balanced(intake, {})
    <2>1. ASSUME NEW u \in Url PROVE Awaited(intake, u) = {} /\ From(intake, {}, u) = {}
        BY <1>2, <1>5 DEF Awaited, From
    <2>2. Cardinality({}) = 0
        BY FS_EmptySet
    <2>3. \A u \in Url : intake.open[u] = 0
        BY <1>5
    <2>. QED
        BY <2>1, <2>2, <2>3 DEF Balanced
<1>10. DraftInOrder(intake)
    BY <1>2, <1>5 DEF DraftInOrder
<1>11. QueueInOrder(intake)
    BY <1>3, <1>5 DEF QueueInOrder, Distinct
<1>. QED
    BY <1>5, <1>6, <1>7, <1>8, <1>9, <1>10, <1>11 DEF Sane, Core

\* A step of the body of a task.
LEMMA BodiesKeepSane ==
    ASSUME Sane(intake), NEW t \in Task,
           Run(t) \/ \E isComplete \in BOOLEAN : BodyEnds(t, isComplete)
    PROVE  Sane(intake')
<1>1. intake \in Intakes /\ intake.running \subseteq Task
    BY DEF Sane, Core, Intakes
<1>2. CASE Run(t)
    <2>. DEFINE q == [intake EXCEPT !.running = intake.running \cup {t}]
    <2>1. intake' = [q EXCEPT !.events = q.events + 1] /\ intake.events < MaxEvents
        BY <1>2 DEF Run, Happens
    <2>2. Sane(q) /\ q.events = intake.events
        BY <1>1, RunningChanges
    <2>. HIDE DEF q
    <2>. QED
        BY <2>1, <2>2, HappensIsSane
<1>3. ASSUME NEW isComplete \in BOOLEAN, BodyEnds(t, isComplete) PROVE Sane(intake')
    <2>. DEFINE q == [intake EXCEPT !.running = intake.running \ {t}]
    <2>1. intake' = IF ~isComplete THEN q
                    ELSE Ended(q, t)
        BY <1>3 DEF BodyEnds, Ended
    <2>2. Sane(q)
        BY <1>1, RunningChanges
    <2>. HIDE DEF q
    <2>3. Sane(Ended(q, t))
        BY <2>2, BodyEndsIsSane
    <2>. QED
        BY <2>1, <2>2, <2>3
<1>. QED
    BY <1>2, <1>3

\* A step that changes the store or the folder, and counts.
LEMMA EventsKeepSane ==
    ASSUME Sane(intake)
    PROVE  (\/ \E t \in Task, withFiles \in BOOLEAN : Delete(t, withFiles)
            \/ \E t \in Task, p \in Path : Move(t, p)
            \/ \E p \in Path : UserRemoves(p)
            \/ FolderChanges)
           => Sane(intake')
<1>1. ASSUME NEW q, Sane(q), q.events = intake.events, Happens(q) PROVE Sane(intake')
    <2>1. intake' = [q EXCEPT !.events = q.events + 1] /\ q.events < MaxEvents
        BY <1>1 DEF Happens
    <2>. QED
        BY <1>1, <2>1, HappensIsSane
<1>2. ASSUME NEW t \in Task, NEW withFiles \in BOOLEAN, Delete(t, withFiles) PROVE Sane(intake')
    <2>. DEFINE a == Deleted(intake, t, withFiles)
                q == Tidy(a)
    <2>1. t \in intake.names.stored /\ Happens(q)
        BY <1>2 DEF Delete
    <2>2. Sane(a) /\ a.events = intake.events
        BY <2>1, DeletedIsSane
    <2>. HIDE DEF a
    <2>3. Sane(q) /\ q.events = intake.events
        BY <2>2, TidyIsSane
    <2>. HIDE DEF q
    <2>. QED
        BY <1>1, <2>1, <2>3
<1>3. ASSUME NEW t \in Task, NEW p \in Path, Move(t, p) PROVE Sane(intake')
    <2>. DEFINE q == Rehoused(intake, t, p)
    <2>1. /\ t \in intake.names.stored /\ p # intake.names.holds[t]
          /\ \E x \in p..PathCount : ~IsExisting(intake.names, x)
          /\ Happens(q)
        BY <1>3 DEF Move, Rehoused
    <2>2. Sane(q) /\ q.events = intake.events
        BY <2>1, MoveIsSane
    <2>. HIDE DEF q
    <2>. QED
        BY <1>1, <2>1, <2>2
<1>4. ASSUME NEW p \in Path, UserRemoves(p) PROVE Sane(intake')
    <2>. DEFINE q == Emptied(intake, p)
    <2>1. Happens(q)
        BY <1>4 DEF UserRemoves, Emptied
    <2>2. Sane(q) /\ q.events = intake.events
        BY UserRemovesIsSane
    <2>. HIDE DEF q
    <2>. QED
        BY <1>1, <2>1, <2>2
<1>5. ASSUME FolderChanges PROVE Sane(intake')
    <2>. DEFINE q == [intake EXCEPT !.names.gone = ~intake.names.gone]
    <2>1. Happens(q)
        BY <1>5 DEF FolderChanges
    <2>2. Sane(q) /\ q.events = intake.events
        BY FolderGoesIsSane
    <2>. HIDE DEF q
    <2>. QED
        BY <1>1, <2>1, <2>2
<1>. QED
    BY <1>2, <1>3, <1>4, <1>5

\* A step of the draft or of a parse.
LEMMA DraftsKeepSane ==
    ASSUME Sane(intake),
           \/ \E urls \in SUBSET Url : \E kept, refused \in SUBSET urls : SetUrls(urls, kept, refused)
           \/ \E I \in SUBSET intake.draft : Retry(I)
           \/ Clear
           \/ \E i \in Item : OnParseFailed(i) \/ \E how \in {"done", "failed"} : ParseEnds(i, how)
           \/ \E u \in Url : HandToDraft(u)
    PROVE  Sane(intake')
<1>1. ASSUME NEW q, Sane(q), intake' = Tidy(q) PROVE Sane(intake')
    BY <1>1, TidyIsSane
<1>2. ASSUME NEW urls \in SUBSET Url, NEW kept \in SUBSET urls, NEW refused \in SUBSET urls,
             SetUrls(urls, kept, refused)
      PROVE  Sane(intake')
    <2>1. /\ HasItems(Dropped(intake, Unkept(intake, kept)), Cardinality(urls \ kept))
          /\ intake' = Tidy(UrlsSet(intake, urls, kept, refused))
        BY <1>2 DEF SetUrls
    <2>2. Sane(UrlsSet(intake, urls, kept, refused))
        BY <2>1, UrlsSetIsSane
    <2>. QED
        BY <1>1, <2>1, <2>2
<1>3. ASSUME NEW I \in SUBSET intake.draft, Retry(I) PROVE Sane(intake')
    <2>. DEFINE q == [intake EXCEPT !.item = [i \in Item |-> IF i \in I THEN Submitted(intake.item[i].url)
                                                             ELSE intake.item[i]]]
    <2>1. intake' = q /\ \A i \in I : intake.item[i].failed
        BY <1>3 DEF Retry
    <2>2. Sane(q)
        BY <2>1, RetryIsSane
    <2>. QED
        BY <2>1, <2>2
<1>4. ASSUME Clear PROVE Sane(intake')
    <2>1. Sane(Dropped(intake, intake.draft))
        BY DroppedIsSane
    <2>. QED
        BY <1>1, <1>4, <2>1 DEF Clear
<1>5. ASSUME NEW i \in Item, OnParseFailed(i) PROVE Sane(intake')
    BY <1>1, <1>5, ParseFailedIsSane DEF OnParseFailed
<1>6. ASSUME NEW i \in Item, NEW how \in {"done", "failed"}, ParseEnds(i, how) PROVE Sane(intake')
    BY <1>6, ParseEndsIsSane DEF ParseEnds
<1>7. ASSUME NEW u \in Url, HandToDraft(u) PROVE Sane(intake')
    BY <1>1, <1>7, DraftedIsSane DEF HandToDraft
<1>. QED
    BY <1>2, <1>3, <1>4, <1>5, <1>6, <1>7

\* A step that adds tasks.
LEMMA AddsKeepSane ==
    ASSUME Sane(intake), NEW choice \in NameConflictChoice,
           \/ Confirm(choice)
           \/ \E i \in Item : OnParsed(i, choice)
           \/ \E u \in Url : HandOver(u, choice)
           \/ \E toRest \in BOOLEAN : SetChoice(choice, toRest)
           \/ OnRefresh
           \/ Cancel
           \/ \E t \in Task : OnStopped(t)
    PROVE  Sane(intake')
<1>1. ASSUME NEW q, Sane(q), intake' = Tidy(q) PROVE Sane(intake')
    BY <1>1, TidyIsSane
<1>2. ASSUME Confirm(choice) PROVE Sane(intake')
    BY <1>1, <1>2, ConfirmedIsSane DEF Confirm
<1>3. ASSUME NEW i \in Item, OnParsed(i, choice) PROVE Sane(intake')
    <2>. DEFINE t == Min(NewTasks(intake))
    <2>1. t \in NewTasks(intake)
        <3>1. NewTasks(intake) \subseteq Nat /\ NewTasks(intake) # {}
            BY <1>3, NamesAssumption DEF NewTasks, Task, HasTask, OnParsed
        <3>. QED
            BY <3>1, MinIsLeast
    <2>2. /\ intake.item[i].work = "done" /\ intake' = Tidy(Parsed(intake, i, t, choice))
          /\ HasNames(intake, 1) /\ HasItems(intake, 1)
        BY <1>3 DEF OnParsed
    <2>3. NewItems(intake) # {} /\ FreePaths(intake) # {}
        BY <2>2, ItemsAreThere, NamesAreThere
    <2>. HIDE DEF t
    <2>4. Sane(Parsed(intake, i, t, choice))
        BY <2>1, <2>2, <2>3, ParsedIsSane
    <2>. QED
        BY <1>1, <2>2, <2>4
<1>4. ASSUME NEW u \in Url, HandOver(u, choice) PROVE Sane(intake')
    BY <1>1, <1>4, TakenOverIsSane DEF HandOver
<1>5. ASSUME NEW toRest \in BOOLEAN, SetChoice(choice, toRest) PROVE Sane(intake')
    BY <1>1, <1>5, ChosenIsSane DEF SetChoice
<1>6. ASSUME OnRefresh PROVE Sane(intake')
    BY <1>1, <1>6, OnRefreshIsSane DEF OnRefresh
<1>7. ASSUME Cancel PROVE Sane(intake')
    BY <1>1, <1>7, CancelIsSane DEF Cancel
<1>8. ASSUME NEW t \in Task, OnStopped(t) PROVE Sane(intake')
    <2>1. t \in Dying(intake) /\ intake' = Tidy(Cleared(intake, t, intake.deleted[t] = "files"))
        BY <1>8 DEF OnStopped, Dying
    <2>2. Sane(Cleared(intake, t, intake.deleted[t] = "files"))
        BY <2>1, OnStoppedIsSane
    <2>. QED
        BY <1>1, <2>1, <2>2
<1>. QED
    BY <1>2, <1>3, <1>4, <1>5, <1>6, <1>7, <1>8

LEMMA NextKeepsSane == Inv /\ [Next]_vars => Inv'
<1>. SUFFICES ASSUME Sane(intake), [Next]_vars PROVE Sane(intake')
    BY DEF Inv
<1>1. CASE UNCHANGED vars
    BY <1>1 DEF vars
<1>2. CASE Next
    <2>1. "ask" \in NameConflictChoice
        BY DEF NameConflictChoice
    <2>2. CASE \/ \E urls \in SUBSET Url : \E kept, refused \in SUBSET urls : SetUrls(urls, kept, refused)
               \/ \E I \in SUBSET intake.draft : Retry(I)
               \/ Clear
               \/ \E i \in Item : OnParseFailed(i) \/ \E how \in {"done", "failed"} : ParseEnds(i, how)
               \/ \E u \in Url : HandToDraft(u)
        BY <2>2, DraftsKeepSane
    <2>3. CASE \E choice \in NameConflictChoice :
                  \/ Confirm(choice)
                  \/ \E i \in Item : OnParsed(i, choice)
                  \/ \E u \in Url : HandOver(u, choice)
                  \/ \E toRest \in BOOLEAN : SetChoice(choice, toRest)
        BY <2>3, AddsKeepSane
    <2>4. CASE OnRefresh \/ Cancel \/ \E t \in Task : OnStopped(t)
        BY <2>1, <2>4, AddsKeepSane
    <2>5. CASE \E t \in Task : Run(t) \/ \E isComplete \in BOOLEAN : BodyEnds(t, isComplete)
        BY <2>5, BodiesKeepSane
    <2>6. CASE \/ \E t \in Task, withFiles \in BOOLEAN : Delete(t, withFiles)
               \/ \E t \in Task, p \in Path : Move(t, p)
               \/ \E p \in Path : UserRemoves(p)
               \/ FolderChanges
        BY <2>6, EventsKeepSane
    <2>. QED
        BY <1>2, <2>2, <2>3, <2>4, <2>5, <2>6 DEF Next
<1>. QED
    BY <1>1, <1>2

LEMMA InvSays == Inv => TypeOK /\ DraftIsWhole /\ NothingIsForgotten /\ PlaceholdersAreKept
<1>. SUFFICES ASSUME Inv PROVE TypeOK /\ DraftIsWhole /\ NothingIsForgotten /\ PlaceholdersAreKept
    OBVIOUS
<1>1. /\ intake \in Intakes /\ Claims(intake.names) /\ Kept(intake.names, intake.loose)
      /\ Balanced(intake, InQueue(intake)) /\ DraftInOrder(intake) /\ QueueInOrder(intake)
    BY DEF Inv, Sane, Core
<1>2. DraftIsWhole
    BY <1>1 DEF DraftIsWhole, DraftInOrder, Whole
<1>3. NothingIsForgotten
    <2>1. ASSUME NEW u \in Url
          PROVE  /\ Awaited(intake, u)
                    = {i \in Item : /\ intake.item[i].url = u /\ intake.item[i].confirmed
                                    /\ intake.item[i].work # "none"}
                 /\ From(intake, InQueue(intake), u)
                    = {t \in (Range(intake.queue) \cup {intake.asked}) \ {NoTask} : intake.url[t] = u}
        BY DEF Awaited, From, InQueue
    <2>2. intake.queue # <<>> => intake.asked # NoTask \/ intake.posted \/ intake.stuck
        BY <1>1 DEF QueueInOrder
    <2>. QED
        BY <1>1, <2>1, <2>2 DEF NothingIsForgotten, Balanced
<1>4. PlaceholdersAreKept
    BY <1>1 DEF PlaceholdersAreKept, Claims, Kept
<1>. QED
    BY <1>1, <1>2, <1>3, <1>4 DEF TypeOK

-----------------------------------------------------------------------------
(* The theorems.                                                           *)

\* The intake is a record of the kind it is meant to be.
THEOREM TypeCorrect == Spec => []TypeOK
<1>1. Inv => TypeOK
    BY InvSays
<1>. QED
    BY <1>1, InitIsSane, NextKeepsSane, PTL DEF Spec

\* task_draft.py: whatever the user does while parses run, and however late their results
\* are delivered, the draft has every link once, and each of its items is being parsed,
\* has a task, or has failed.
THEOREM TheDraftStaysWhole == Spec => []DraftIsWhole
<1>1. Inv => DraftIsWhole
    BY InvSays
<1>. QED
    BY <1>1, InitIsSane, NextKeepsSane, PTL DEF Spec

\* task_draft.py, task_service.py and name_conflict_queue.py: a download the user has
\* confirmed is counted until it is stored, back in the draft, or given up where the user
\* can know; and the tasks that wait for a decision are asked about, unless a refresh failed.
THEOREM NoDownloadIsForgotten == Spec => []NothingIsForgotten
<1>1. Inv => NothingIsForgotten
    BY InvSays
<1>. QED
    BY <1>1, InitIsSane, NextKeepsSane, PTL DEF Spec

\* TaskStore: a stored task holds the path it writes to, no other task does, and there is
\* a file, for as long as nobody else takes it away.
THEOREM PathsAreHeld == Spec => []PlaceholdersAreKept
<1>1. Inv => PlaceholdersAreKept
    BY InvSays
<1>. QED
    BY <1>1, InitIsSane, NextKeepsSane, PTL DEF Spec
=============================================================================
