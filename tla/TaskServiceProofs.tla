--------------------------- MODULE TaskServiceProofs ---------------------------
(***************************************************************************)
(* Theorems about TaskService, for any tasks, slots, works and commands.   *)
(* A handler is a function on the service, so each has a lemma that it     *)
(* keeps the service in order, starts only tasks of the store and stirs no *)
(* task but its own.                                                       *)
(***************************************************************************)
EXTENDS TaskService, Recursions, SequenceTheorems

Distinct(seq) == \A i, j \in 1..Len(seq) : seq[i] = seq[j] => i = j

\* The callbacks of w are still to come.
Lives(s, w) == w \in s.runner.pending \/ InInbox(s, w, {"done", "failed"})

\* The lists have no task twice, and a slot is held by a task of the store.
Listed(s) ==
    /\ Distinct(s.waiting) /\ Distinct(s.running) /\ s.tasks \subseteq s.known
    /\ \A t \in Task : /\ IsRunning(s, t) <=> s.workOf[t] # None
                       /\ IsRunning(s, t) => t \in s.tasks

\* The works of a task are its own, and those it counts on are not dead.
Owned(s) ==
    \A t \in Task :
        /\ s.workOf[t] # None => /\ TaskOf(s.workOf[t]) = t /\ IsRun(s.workOf[t])
                                 /\ Lives(s, s.workOf[t])
        /\ s.seeding[t] # None => TaskOf(s.seeding[t]) = t /\ ~IsRun(s.seeding[t])
        /\ s.isSeeding[t] => s.seeding[t] # None /\ Lives(s, s.seeding[t])

\* A work with callbacks is on its way to answer, and no cancel waits for it.
Sound(r) ==
    \A w \in WorkIds :
        /\ w \in r.pending => /\ r.stage[w] \in {"scheduled", "checked", "created", "active",
                                                 "succeeded", "raised"}
                              /\ w \notin r.cancels
        /\ w \in r.running => r.stage[w] \in {"created", "active", "unwinding"}
        /\ r.stage[w] = "unborn" => w \notin r.cancels

\* What every handler keeps, whatever the number of slots.
Sane(s) == s \in Services /\ Listed(s) /\ Owned(s) /\ Sound(s.runner)

\* SlotsRespected, of any service.
Slotted(s) == \A i \in s.slots + 1..Len(s.running) : s.running[i] \in Fixed

\* No run of t has callbacks to come.
Idle(r, t) == \A w \in r.pending : IsRun(w) => TaskOf(w) # t

\* Nothing runs t or is going to by itself.
Quiet(s, t) == /\ ~IsRunning(s, t) /\ ~IsWaiting(s, t) /\ ~IsRestarting(s, t)
               /\ Idle(s.runner, t)

\* The only run of t is the one in its slot; and t does not wait for another.
Sole(s, t) == \A w \in s.runner.pending : IsRun(w) /\ TaskOf(w) = t => w = s.workOf[t]
Single(s, t) == Sole(s, t) /\ ~(IsRunning(s, t) /\ IsWaiting(s, t))
Orderly(p, q) == \A t \in Task : Single(p, t) => Single(q, t)

Inv == Sane(svc) /\ Slotted(svc) /\ held \subseteq svc.known /\ \A t \in held : Quiet(svc, t)

\* What OnlyStoredTasksStart says.
Stored(p, q) ==
    \A w \in q.runner.pending : IsRun(w) => w \in p.runner.pending \/ TaskOf(w) \in q.tasks

\* A handler that leaves the store and the limit alone and may stir the tasks of T.
Onward(p, q, T) ==
    /\ Sane(q) /\ (Slotted(p) => Slotted(q)) /\ Stored(p, q)
    /\ q.slots = p.slots /\ q.tasks = p.tasks /\ q.known = p.known
    /\ \A t \in Task \ T : /\ Quiet(p, t) => Quiet(q, t)
                           /\ ~IsRestarting(p, t) => ~IsRestarting(q, t)

\* No more than before is to be done once a work has stopped.
Less(p, q) == \A w \in WorkIds : q.after[w] \in {p.after[w], "nothing"}

\* A task that waits has an id for its run.
Spare(s) == \A t \in Task : IsWaiting(s, t) => Unborn(s, t, "run") # {}

-----------------------------------------------------------------------------
(* Lists.                                                                  *)

\* A list without the place of one task.
Rest(q, seq, t) ==
    /\ q \in Seq(Task) /\ Distinct(q)
    /\ \A u \in Task : Holds(q, u) <=> Holds(seq, u) /\ u # t
    /\ Len(q) <= Len(seq)
    /\ \A i \in 1..Len(q) : \E j \in 1..Len(seq) : i <= j /\ q[i] = seq[j] /\ seq[j] # t

LEMMA WithoutIsRest ==
    ASSUME NEW seq \in Seq(Task), Distinct(seq), NEW t \in Task
    PROVE  Rest(Without(seq, t), seq, t)
<1>. DEFINE q == Without(seq, t)
<1>1. CASE ~Holds(seq, t)
    <2>1. q = seq
        BY <1>1 DEF Without
    <2>2. \A i \in 1..Len(seq) : seq[i] # t /\ i \in Nat
        BY <1>1 DEF Holds
    <2>3. \A i \in 1..Len(seq) : \E j \in 1..Len(seq) : i <= j /\ seq[i] = seq[j] /\ seq[j] # t
        BY <2>2
    <2>4. \A u \in Task : Holds(seq, u) => u # t
        BY <1>1
    <2>. QED
        BY <2>1, <2>3, <2>4 DEF Rest
<1>2. CASE Holds(seq, t)
    <2>. DEFINE i == CHOOSE i \in 1..Len(seq) : seq[i] = t
    <2>1. i \in 1..Len(seq) /\ seq[i] = t
        BY <1>2 DEF Holds
    <2>2. q = SubSeq(seq, 1, i - 1) \o SubSeq(seq, i + 1, Len(seq))
        BY <1>2 DEF Without
    <2>. HIDE DEF i, q
    <2>3. /\ q \in Seq(Task) /\ Len(q) = Len(seq) - 1
          /\ \A k \in 1..Len(q) : q[k] = IF k < i THEN seq[k] ELSE seq[k + 1]
        <3>. DEFINE a == SubSeq(seq, 1, i - 1)
                    b == SubSeq(seq, i + 1, Len(seq))
        <3>1. q = a \o b
            BY <2>2
        <3>2. /\ a \in Seq(Task) /\ Len(a) = i - 1
              /\ \A k \in 1..Len(a) : a[k] = seq[k]
            BY <2>1
        <3>3. /\ b \in Seq(Task) /\ Len(b) = Len(seq) - i
              /\ \A k \in 1..Len(b) : b[k] = seq[i + k]
            BY <2>1
        <3>. HIDE DEF a, b
        <3>4. /\ q \in Seq(Task) /\ Len(q) = Len(a) + Len(b)
              /\ \A k \in 1..Len(q) : q[k] = IF k <= Len(a) THEN a[k] ELSE b[k - Len(a)]
            <4>1. /\ a \o b \in Seq(Task) /\ Len(a \o b) = Len(a) + Len(b)
                  /\ \A k \in 1..Len(a) + Len(b) :
                        (a \o b)[k] = IF k <= Len(a) THEN a[k] ELSE b[k - Len(a)]
                BY <3>2, <3>3, ConcatProperties
            <4>. QED
                BY <3>1, <4>1
        <3>5. ASSUME NEW k \in 1..Len(q)
              PROVE  q[k] = IF k < i THEN seq[k] ELSE seq[k + 1]
            <4>1. CASE k < i
                BY <2>1, <3>2, <3>4, <4>1
            <4>2. CASE ~(k < i)
                <5>1. k - Len(a) \in 1..Len(b) /\ i + (k - Len(a)) = k + 1 /\ ~(k <= Len(a))
                    BY <2>1, <3>2, <3>3, <3>4, <4>2
                <5>. QED
                    BY <3>3, <3>4, <4>2, <5>1
            <4>. QED
                BY <4>1, <4>2
        <3>. QED
            BY <2>1, <3>2, <3>3, <3>4, <3>5
    <2>4. \A k \in 1..Len(seq) : seq[k] = t => k = i
        BY <2>1 DEF Distinct
    <2>5. ASSUME NEW k \in 1..Len(q)
          PROVE  \E j \in 1..Len(seq) : k <= j /\ q[k] = seq[j] /\ seq[j] # t
        <3>1. CASE k < i
            <4>1. k \in 1..Len(seq) /\ k <= k /\ k # i
                BY <2>1, <2>3, <3>1
            <4>. QED
                BY <2>3, <2>4, <3>1, <4>1
        <3>2. CASE ~(k < i)
            <4>1. k + 1 \in 1..Len(seq) /\ k <= k + 1 /\ k + 1 # i
                BY <2>1, <2>3, <3>2
            <4>. QED
                BY <2>3, <2>4, <3>2, <4>1
        <3>. QED
            BY <3>1, <3>2
    <2>6. ASSUME NEW j \in 1..Len(seq), seq[j] # t
          PROVE  \E k \in 1..Len(q) : q[k] = seq[j]
        <3>1. CASE j < i
            BY <2>1, <2>3, <3>1
        <3>2. CASE ~(j < i)
            <4>1. j - 1 \in 1..Len(q) /\ ~(j - 1 < i) /\ (j - 1) + 1 = j
                BY <2>1, <2>3, <2>6, <3>2
            <4>. QED
                BY <2>3, <4>1
        <3>. QED
            BY <3>1, <3>2
    <2>7. \A u \in Task : Holds(q, u) <=> Holds(seq, u) /\ u # t
        BY <2>5, <2>6 DEF Holds
    <2>8. Distinct(q)
        <3>. SUFFICES ASSUME NEW k \in 1..Len(q), NEW j \in 1..Len(q), q[k] = q[j]
                      PROVE  k = j
            BY DEF Distinct
        <3>. DEFINE at(n) == IF n < i THEN n ELSE n + 1
        <3>1. at(k) \in 1..Len(seq) /\ at(j) \in 1..Len(seq)
            BY <2>1, <2>3
        <3>2. seq[at(k)] = seq[at(j)]
            BY <2>3
        <3>3. at(k) = at(j)
            <4>. HIDE DEF at
            <4>. QED
                BY <3>1, <3>2 DEF Distinct
        <3>. QED
            BY <2>1, <2>3, <3>3
    <2>. QED
        BY <2>1, <2>3, <2>5, <2>7, <2>8 DEF Rest, q
<1>. QED
    BY <1>1, <1>2

\* A list with one task more at its end.
LEMMA Appending ==
    ASSUME NEW seq \in Seq(Task), NEW t \in Task
    PROVE  LET q == Append(seq, t)
           IN  /\ q \in Seq(Task) /\ Len(q) = Len(seq) + 1 /\ q[Len(seq) + 1] = t
               /\ \A i \in 1..Len(seq) : q[i] = seq[i]
               /\ \A u \in Task : Holds(q, u) <=> Holds(seq, u) \/ u = t
               /\ Distinct(seq) /\ ~Holds(seq, t) => Distinct(q)
<1>. DEFINE q == Append(seq, t)
<1>1. /\ q \in Seq(Task) /\ Len(q) = Len(seq) + 1 /\ q[Len(seq) + 1] = t
      /\ \A i \in 1..Len(seq) : q[i] = seq[i]
    OBVIOUS
<1>2. Len(seq) \in Nat
    OBVIOUS
<1>. HIDE DEF q
<1>3. \A i \in 1..Len(q) : i \in 1..Len(seq) \/ i = Len(seq) + 1
    BY <1>1, <1>2
<1>4. Len(seq) + 1 \in 1..Len(q) /\ \A i \in 1..Len(seq) : i \in 1..Len(q)
    BY <1>1, <1>2
<1>5. \A u \in Task : Holds(q, u) <=> Holds(seq, u) \/ u = t
    BY <1>1, <1>3, <1>4 DEF Holds
<1>6. ASSUME Distinct(seq), ~Holds(seq, t) PROVE Distinct(q)
    BY <1>1, <1>3, <1>6 DEF Distinct, Holds
<1>. QED
    BY <1>1, <1>5, <1>6 DEF q

\* A list without its head.
LEMMA Popping ==
    ASSUME NEW seq \in Seq(Task), seq # <<>>, Distinct(seq)
    PROVE  LET q == Tail(seq)
           IN  /\ Head(seq) \in Task /\ q \in Seq(Task) /\ Distinct(q) /\ Len(q) = Len(seq) - 1
               /\ Holds(seq, Head(seq))
               /\ \A u \in Task : Holds(q, u) <=> Holds(seq, u) /\ u # Head(seq)
<1>. DEFINE q == Tail(seq)
<1>1. /\ q \in Seq(Task) /\ Len(q) = Len(seq) - 1 /\ Len(seq) \in Nat /\ Len(seq) # 0
      /\ \A i \in 1..Len(q) : q[i] = seq[i + 1]
    OBVIOUS
<1>2. Head(seq) = seq[1] /\ 1 \in 1..Len(seq)
    OBVIOUS
<1>. HIDE DEF q
<1>3. \A i \in 1..Len(seq) : i = 1 \/ (i - 1 \in 1..Len(q) /\ (i - 1) + 1 = i)
    BY <1>1
<1>4. \A i \in 1..Len(q) : i + 1 \in 1..Len(seq) /\ i + 1 # 1 /\ i \in Nat
    BY <1>1
<1>5. Distinct(q)
    BY <1>1, <1>4 DEF Distinct
<1>6. \A u \in Task : Holds(q, u) <=> Holds(seq, u) /\ u # Head(seq)
    <2>1. ASSUME NEW u \in Task, Holds(q, u) PROVE Holds(seq, u) /\ u # Head(seq)
        <3>1. PICK i \in 1..Len(q) : q[i] = u
            BY <2>1 DEF Holds
        <3>. QED
            BY <1>1, <1>2, <1>4, <3>1 DEF Holds, Distinct
    <2>2. ASSUME NEW u \in Task, Holds(seq, u), u # Head(seq) PROVE Holds(q, u)
        <3>1. PICK i \in 1..Len(seq) : seq[i] = u
            BY <2>2 DEF Holds
        <3>. QED
            BY <1>1, <1>2, <1>3, <2>2, <3>1 DEF Holds
    <2>. QED
        BY <2>1, <2>2
<1>. QED
    BY <1>1, <1>2, <1>5, <1>6 DEF q, Holds

-----------------------------------------------------------------------------
(* Works, and services that differ in little.                              *)

LEMMA WorkIdFacts ==
    /\ \A w \in WorkIds : TaskOf(w) \in Task /\ w # None
    /\ \A t \in Task, k \in Serials : /\ <<t, "run", k>> \in WorkIds
                                      /\ TaskOf(<<t, "run", k>>) = t /\ IsRun(<<t, "run", k>>)
    /\ \A t \in Seedable, k \in Serials : /\ <<t, "seed", k>> \in WorkIds
                                          /\ TaskOf(<<t, "seed", k>>) = t /\ ~IsRun(<<t, "seed", k>>)
    /\ Seedable \subseteq Task /\ Fixed \subseteq Task /\ Task \subseteq Nat
<1>1. Seedable \subseteq Task /\ Fixed \subseteq Task
    BY ServiceAssumption
<1>2. Task \subseteq Nat
    BY ServiceAssumption DEF Task
<1>3. ASSUME NEW t \in Task, NEW k \in Serials
      PROVE  <<t, "run", k>> \in WorkIds /\ TaskOf(<<t, "run", k>>) = t /\ IsRun(<<t, "run", k>>)
    BY DEF WorkIds, TaskOf, IsRun
<1>4. ASSUME NEW t \in Seedable, NEW k \in Serials
      PROVE  <<t, "seed", k>> \in WorkIds /\ TaskOf(<<t, "seed", k>>) = t /\ ~IsRun(<<t, "seed", k>>)
    BY DEF WorkIds, TaskOf, IsRun
<1>5. ASSUME NEW w \in WorkIds PROVE TaskOf(w) \in Task /\ w # None
    BY <1>1 DEF WorkIds, TaskOf, None
<1>. QED
    BY <1>1, <1>2, <1>3, <1>4, <1>5

\* The same as to its queue, its works and its store.
Alike(p, q) ==
    /\ q.slots = p.slots /\ q.tasks = p.tasks /\ q.known = p.known /\ q.waiting = p.waiting
    /\ q.running = p.running /\ q.workOf = p.workOf /\ q.seeding = p.seeding
    /\ q.isSeeding = p.isSeeding /\ q.after = p.after /\ q.runner = p.runner /\ q.inbox = p.inbox

LEMMA AlikeGoesOn ==
    ASSUME NEW p, Sane(p), NEW q \in Services, Alike(p, q)
    PROVE  /\ Onward(p, q, {}) /\ Orderly(p, q)
           /\ (HasIds(p) => HasIds(q)) /\ (Spare(p) => Spare(q))
<1>1. \A t \in Task : /\ IsRunning(q, t) <=> IsRunning(p, t)
                      /\ IsWaiting(q, t) <=> IsWaiting(p, t)
                      /\ IsRestarting(q, t) <=> IsRestarting(p, t)
    BY DEF Alike, IsRunning, IsWaiting, IsRestarting
<1>2. \A w : Lives(q, w) <=> Lives(p, w)
    BY DEF Alike, Lives, InInbox
<1>3. Listed(q)
    BY <1>1 DEF Sane, Listed, Alike
<1>4. Owned(q)
    BY <1>2 DEF Sane, Owned, Alike
<1>5. Sound(q.runner) /\ (Slotted(p) => Slotted(q)) /\ Stored(p, q)
    BY DEF Sane, Alike, Slotted, Stored
<1>6. \A t : Unborn(q, t, "run") = Unborn(p, t, "run") /\ Unborn(q, t, "seed") = Unborn(p, t, "seed")
    BY DEF Alike, Unborn
<1>7. (HasIds(p) => HasIds(q)) /\ (Spare(p) => Spare(q))
    BY <1>1, <1>6 DEF HasIds, Spare
<1>8. Orderly(p, q)
    BY <1>1 DEF Orderly, Single, Sole, Alike
<1>. QED
    BY <1>1, <1>3, <1>4, <1>5, <1>7, <1>8 DEF Onward, Sane, Alike, Quiet

\* One handler after the other.
LEMMA OneAfterTheOther ==
    ASSUME NEW p, NEW q, NEW r, NEW T, NEW U, Onward(p, q, T), Onward(q, r, U)
    PROVE  Onward(p, r, T \cup U)
<1>1. Stored(p, r)
    BY DEF Onward, Stored
<1>. QED
    BY <1>1 DEF Onward

\* One that stirs less stirs no more.
LEMMA StirsNoMore ==
    ASSUME NEW p, NEW q, NEW T, NEW U, T \subseteq U, Onward(p, q, T)
    PROVE  Onward(p, q, U)
BY DEF Onward

LEMMA StayingGoesOn ==
    ASSUME NEW p, Sane(p)
    PROVE  Onward(p, p, {})
BY DEF Onward, Stored

\* Changes of what only shows.
LEMMA ShowingGoesOn ==
    ASSUME NEW s, Sane(s), NEW t \in Task, NEW to \in Status
    PROVE  /\ Alike(s, SetStatus(s, t, to)) /\ SetStatus(s, t, to) \in Services
           /\ Alike(s, Unwatch(s, t)) /\ Unwatch(s, t) \in Services
           /\ Alike(s, [s EXCEPT !.status[t] = to]) /\ [s EXCEPT !.status[t] = to] \in Services
           /\ \A b \in BOOLEAN : /\ Alike(s, [s EXCEPT !.shouldSeed[t] = b])
                                 /\ [s EXCEPT !.shouldSeed[t] = b] \in Services
BY DEF Sane, Services, Alike, SetStatus, Unwatch

-----------------------------------------------------------------------------
(* Starting works.                                                         *)

LEMMA NewWorkIsUnborn ==
    ASSUME NEW s, NEW t, NEW kind, Unborn(s, t, kind) # {}
    PROVE  /\ \E k \in Serials : NewWork(s, t, kind) = <<t, kind, k>>
           /\ s.runner.stage[NewWork(s, t, kind)] = "unborn"
<1>1. Serials \subseteq Nat /\ Unborn(s, t, kind) \subseteq Nat
    BY ServiceAssumption DEF Serials, Unborn
<1>2. \E k \in Unborn(s, t, kind) : \A j \in Unborn(s, t, kind) : k <= j
    BY <1>1, HasLeast
<1>3. PICK k \in Unborn(s, t, kind) : NewWork(s, t, kind) = <<t, kind, k>>
    BY <1>2 DEF NewWork
<1>. QED
    BY <1>3 DEF Unborn

LEMMA SubmittedIsSound ==
    ASSUME NEW r \in R!Runners, Sound(r), NEW w \in WorkIds, r.stage[w] = "unborn"
    PROVE  LET q == R!Submitted(r, {w})
           IN  /\ q \in R!Runners /\ Sound(q) /\ q.pending = r.pending \cup {w}
               /\ \A v \in WorkIds : v # w => q.stage[v] = r.stage[v]
BY DEF R!Submitted, R!Runners, R!Stages, Sound

\* A service whose runner was given one more work, of t.
Begets(s, q, w) ==
    /\ q.runner.pending = s.runner.pending \cup {w}
    /\ \A v \in WorkIds : v # w => q.runner.stage[v] = s.runner.stage[v]

\* Only the ids of that work's kind and task are fewer.
LEMMA OthersStayUnborn ==
    ASSUME NEW s, NEW q, NEW t, NEW kind, NEW k, Begets(s, q, <<t, kind, k>>),
           NEW u \in Task, NEW other \in {"run", "seed"}, other = "seed" => u \in Seedable,
           u # t \/ other # kind
    PROVE  Unborn(q, u, other) = Unborn(s, u, other)
<1>1. ASSUME NEW j \in Serials PROVE <<u, other, j>> \in WorkIds /\ <<u, other, j>> # <<t, kind, k>>
    BY WorkIdFacts
<1>. QED
    BY <1>1 DEF Begets, Unborn

LEMMA DispatchGoesOn ==
    ASSUME NEW s, Sane(s), NEW t \in s.tasks, Unborn(s, t, "run") # {}, Len(s.running) < s.slots
    PROVE  /\ Onward(s, Dispatch(s, t), {t})
           /\ Dispatch(s, t).waiting = s.waiting /\ Dispatch(s, t).after = s.after
           /\ \A u \in Task \ {t} : /\ Unborn(Dispatch(s, t), u, "run") = Unborn(s, u, "run")
                                    /\ Single(s, u) => Single(Dispatch(s, t), u)
           /\ ~IsWaiting(s, t) /\ Idle(s.runner, t) => Single(Dispatch(s, t), t)
<1>. DEFINE w == NewWork(s, t, "run")
            p == SetStatus(s, t, "running")
            r == R!Submitted(s.runner, {w})
            running == IF IsRunning(s, t) THEN s.running ELSE Append(s.running, t)
            q == Dispatch(s, t)
<1>1. s \in Services /\ Listed(s) /\ Owned(s) /\ Sound(s.runner) /\ t \in Task
    BY DEF Sane, Services
<1>2. PICK k \in Serials : w = <<t, "run", k>>
    BY NewWorkIsUnborn
<1>3. w \in WorkIds /\ TaskOf(w) = t /\ IsRun(w) /\ w # None
    BY <1>1, <1>2, WorkIdFacts
<1>4. s.runner.stage[w] = "unborn"
    BY NewWorkIsUnborn
<1>5. Alike(s, p) /\ p \in Services
    BY <1>1, ShowingGoesOn DEF Status
<1>6. q = [p EXCEPT !.runner = r, !.running = running, !.workOf[t] = w]
    BY DEF Dispatch
<1>7. s.runner \in R!Runners
    BY <1>1 DEF Services
<1>. HIDE DEF w
<1>8. /\ r \in R!Runners /\ Sound(r) /\ r.pending = s.runner.pending \cup {w}
      /\ \A v \in WorkIds : v # w => r.stage[v] = s.runner.stage[v]
    BY <1>1, <1>3, <1>4, <1>7, SubmittedIsSound
<1>9. /\ running \in Seq(Task) /\ Distinct(running)
      /\ \A u \in Task : Holds(running, u) <=> IsRunning(s, u) \/ u = t
      /\ Len(s.running) \in Nat /\ Len(running) <= Len(s.running) + 1
      /\ \A i \in 1..Len(s.running) : running[i] = s.running[i]
    <2>1. s.running \in Seq(Task) /\ Distinct(s.running)
        BY <1>1 DEF Services, Listed
    <2>. QED
        BY <1>1, <2>1, Appending DEF IsRunning
<1>. HIDE DEF p, r, running
<1>10. /\ q.slots = s.slots /\ q.tasks = s.tasks /\ q.known = s.known /\ q.waiting = s.waiting
       /\ q.running = running /\ q.seeding = s.seeding /\ q.isSeeding = s.isSeeding
       /\ q.after = s.after /\ q.runner = r /\ q.inbox = s.inbox
       /\ q.workOf = [s.workOf EXCEPT ![t] = w]
       /\ q \in Services
    <2>1. p.workOf = s.workOf /\ p.workOf \in [Task -> WorkIds \cup {None}]
        BY <1>5 DEF Services, Alike
    <2>2. [p.workOf EXCEPT ![t] = w] \in [Task -> WorkIds \cup {None}]
        BY <1>3, <2>1
    <2>3. q \in Services
        BY <1>5, <1>6, <1>8, <1>9, <2>2 DEF Services
    <2>4. /\ q.slots = p.slots /\ q.tasks = p.tasks /\ q.known = p.known /\ q.waiting = p.waiting
          /\ q.running = running /\ q.seeding = p.seeding /\ q.isSeeding = p.isSeeding
          /\ q.after = p.after /\ q.runner = r /\ q.inbox = p.inbox
          /\ q.workOf = [p.workOf EXCEPT ![t] = w]
        BY <1>5, <1>6 DEF Services
    <2>. HIDE DEF q
    <2>. QED
        BY <1>5, <2>3, <2>4 DEF Alike
<1>. HIDE DEF q
<1>11. \A u \in Task : /\ IsRunning(q, u) <=> IsRunning(s, u) \/ u = t
                       /\ IsWaiting(q, u) <=> IsWaiting(s, u)
                       /\ IsRestarting(q, u) <=> IsRestarting(s, u)
    BY <1>9, <1>10 DEF IsRunning, IsWaiting, IsRestarting
<1>12. \A u \in Task : q.workOf[u] = IF u = t THEN w ELSE s.workOf[u]
    BY <1>1, <1>10 DEF Services
<1>13. Listed(q)
    BY <1>1, <1>3, <1>9, <1>10, <1>11, <1>12 DEF Listed
<1>14. \A v : Lives(s, v) \/ v = w => Lives(q, v)
    BY <1>8, <1>10 DEF Lives, InInbox
<1>15. Owned(q)
    BY <1>1, <1>3, <1>10, <1>12, <1>14 DEF Owned
<1>16. ASSUME Slotted(s) PROVE Slotted(q)
    <2>1. s.slots \in Nat /\ \A i \in s.slots + 1..Len(running) : i \notin Nat
        BY <1>1, <1>9, ServiceAssumption DEF Services
    <2>2. \A i \in s.slots + 1..Len(running) : i \in Nat
        BY <2>1
    <2>. QED
        BY <1>10, <2>1, <2>2 DEF Slotted
<1>17. Stored(s, q)
    BY <1>3, <1>8, <1>10 DEF Stored
<1>18. \A u \in Task \ {t} : Unborn(q, u, "run") = Unborn(s, u, "run")
    <2>1. Begets(s, q, <<t, "run", k>>)
        BY <1>2, <1>8, <1>10 DEF Begets
    <2>. QED
        BY <2>1, OthersStayUnborn
<1>19. \A u \in Task \ {t} : Idle(s.runner, u) => Idle(q.runner, u)
    BY <1>3, <1>8, <1>10 DEF Idle
<1>20. \A u \in Task \ {t} : Single(s, u) => Single(q, u)
    BY <1>3, <1>8, <1>10, <1>11, <1>12 DEF Single, Sole
<1>21. ~IsWaiting(s, t) /\ Idle(s.runner, t) => Single(q, t)
    BY <1>1, <1>8, <1>10, <1>11, <1>12 DEF Single, Sole, Idle
<1>. QED
    BY <1>8, <1>10, <1>11, <1>13, <1>15, <1>16, <1>17, <1>18, <1>19, <1>20, <1>21
    DEF Onward, Sane, Quiet, q

\* A task out of the slots whose only run would be in one has none.
LEMMA SoleIsIdle ==
    ASSUME NEW s, Sane(s), NEW t \in Task, Sole(s, t), ~IsRunning(s, t)
    PROVE  Idle(s.runner, t)
<1>1. s.workOf[t] = None /\ s.runner.pending \subseteq WorkIds
    BY DEF Sane, Listed, Services, R!Runners
<1>2. \A w \in WorkIds : w # None
    BY WorkIdFacts
<1>. QED
    BY <1>1, <1>2 DEF Sole, Idle

\* One turn of _pump: what it runs was waiting, so nobody's peace is disturbed.
LEMMA PumpOneGoesOn ==
    ASSUME NEW s, Sane(s), Spare(s)
    PROVE  /\ Onward(s, PumpOne(s), {}) /\ Orderly(s, PumpOne(s))
           /\ Spare(PumpOne(s)) /\ PumpOne(s).after = s.after
<1>. DEFINE t == Head(s.waiting)
            p == [s EXCEPT !.waiting = Tail(s.waiting)]
<1>1. CASE Len(s.running) >= s.slots \/ s.waiting = <<>>
    BY <1>1, StayingGoesOn DEF PumpOne, Orderly
<1>2. CASE ~(Len(s.running) >= s.slots \/ s.waiting = <<>>)
    <2>1. /\ s \in Services /\ Listed(s) /\ Owned(s) /\ Sound(s.runner)
          /\ s.waiting \in Seq(Task) /\ Distinct(s.waiting) /\ s.slots \in Nat
          /\ s.running \in Seq(Task) /\ s.tasks \subseteq Task
        BY ServiceAssumption DEF Sane, Services, Listed
    <2>2. PumpOne(s) = IF t \in s.tasks THEN Dispatch(p, t) ELSE p
        BY <1>2 DEF PumpOne, PopNext
    <2>3. /\ t \in Task /\ p.waiting \in Seq(Task) /\ Distinct(p.waiting) /\ IsWaiting(s, t)
          /\ \A u \in Task : IsWaiting(p, u) <=> IsWaiting(s, u) /\ u # t
        BY <1>2, <2>1, Popping DEF IsWaiting, Services
    <2>4. /\ p \in Services /\ p.slots = s.slots /\ p.tasks = s.tasks /\ p.known = s.known
          /\ p.running = s.running /\ p.workOf = s.workOf /\ p.seeding = s.seeding
          /\ p.isSeeding = s.isSeeding /\ p.after = s.after /\ p.runner = s.runner
          /\ p.inbox = s.inbox
        BY <2>1, <2>3 DEF Services
    <2>. HIDE DEF p, t
    <2>5. \A u \in Task : /\ IsRunning(p, u) <=> IsRunning(s, u)
                          /\ IsRestarting(p, u) <=> IsRestarting(s, u)
                          /\ Unborn(p, u, "run") = Unborn(s, u, "run")
        BY <2>4 DEF IsRunning, IsRestarting, Unborn
    <2>6. Sane(p) /\ Onward(s, p, {})
        <3>1. Listed(p)
            BY <2>1, <2>3, <2>4, <2>5 DEF Listed
        <3>2. Owned(p)
            BY <2>1, <2>4 DEF Owned, Lives, InInbox
        <3>3. Slotted(s) => Slotted(p)
            BY <2>4 DEF Slotted
        <3>. QED
            BY <2>1, <2>3, <2>4, <2>5, <3>1, <3>2, <3>3 DEF Sane, Onward, Stored, Quiet
    <2>9. Orderly(s, p)
        BY <2>3, <2>4, <2>5 DEF Orderly, Single, Sole
    <2>7. CASE t \notin s.tasks
        BY <2>2, <2>3, <2>4, <2>5, <2>6, <2>7, <2>9 DEF Spare
    <2>8. CASE t \in s.tasks
        <3>. DEFINE q == Dispatch(p, t)
        <3>1. Unborn(p, t, "run") # {} /\ Len(p.running) < p.slots
            BY <1>2, <2>1, <2>3, <2>4, <2>5 DEF Spare
        <3>2. /\ Onward(p, q, {t}) /\ q.waiting = p.waiting /\ q.after = p.after
              /\ \A u \in Task \ {t} : /\ Unborn(q, u, "run") = Unborn(p, u, "run")
                                       /\ Single(p, u) => Single(q, u)
              /\ ~IsWaiting(p, t) /\ Idle(p.runner, t) => Single(q, t)
            BY <2>4, <2>6, <2>8, <3>1, DispatchGoesOn
        <3>. HIDE DEF q
        <3>8. Single(s, t) => Single(q, t)
            BY <2>3, <2>4, <3>2, SoleIsIdle DEF Single
        <3>9. Orderly(s, q)
            BY <2>3, <2>9, <3>2, <3>8 DEF Orderly
        <3>3. \A u \in Task : /\ IsWaiting(q, u) <=> IsWaiting(p, u)
                              /\ IsRestarting(q, u) <=> IsRestarting(p, u)
            BY <3>2 DEF IsWaiting, IsRestarting
        <3>4. Onward(s, q, {t})
            BY <2>6, <3>2, OneAfterTheOther
        <3>5. ~Quiet(s, t)
            BY <2>3 DEF Quiet
        <3>6. Onward(s, q, {})
            BY <2>5, <3>3, <3>4, <3>5 DEF Onward
        <3>7. Spare(q)
            BY <2>3, <2>5, <3>2, <3>3 DEF Spare
        <3>. QED
            BY <2>2, <2>4, <2>8, <3>2, <3>6, <3>7, <3>9 DEF q
    <2>. QED
        BY <2>7, <2>8
<1>. QED
    BY <1>1, <1>2

\* No slot is free while a task waits.
Full(s) == Len(s.running) >= s.slots \/ s.waiting = <<>>

\* A turn of _pump takes the head of the queue, or has nothing to do.
LEMMA PumpOneTakesTheHead ==
    ASSUME NEW s, Sane(s), Spare(s)
    PROVE  IF Full(s) THEN PumpOne(s) = s ELSE PumpOne(s).waiting = Tail(s.waiting)
<1>. DEFINE t == Head(s.waiting)
            p == [s EXCEPT !.waiting = Tail(s.waiting)]
<1>1. CASE Full(s)
    BY <1>1 DEF PumpOne, Full
<1>2. CASE ~Full(s)
    <2>1. PumpOne(s) = IF t \in s.tasks THEN Dispatch(p, t) ELSE p
        BY <1>2 DEF PumpOne, PopNext, Full
    <2>2. p.waiting = Tail(s.waiting)
        BY DEF Sane, Services
    <2>. HIDE DEF p
    <2>3. Dispatch(p, t).waiting = p.waiting
        BY DEF Dispatch, SetStatus
    <2>. QED
        BY <1>2, <2>1, <2>2, <2>3
<1>. QED
    BY <1>1, <1>2

LEMMA PumpGoesOn ==
    ASSUME NEW s, Sane(s), Spare(s)
    PROVE  /\ Onward(s, Pump(s), {}) /\ Orderly(s, Pump(s))
           /\ Spare(Pump(s)) /\ Full(Pump(s)) /\ Pump(s).after = s.after
<1>. DEFINE N == Len(s.waiting)
            body(f) == [n \in 0..N |-> IF n = 0 THEN s ELSE PumpOne(f[n - 1])]
            pumped == CHOOSE f : f = body(f)
            S == {q \in Services : /\ Sane(q) /\ Spare(q) /\ Onward(s, q, {}) /\ Orderly(s, q)
                                   /\ q.after = s.after}
            P == [n \in 0..N |-> {q \in S : Full(q) \/ Len(q.waiting) <= N - n}]
            op == [n \in 1..N |-> [q \in S |-> PumpOne(q)]]
<1>1. Pump(s) = pumped[N]
    BY DEF Pump
<1>2. s \in S /\ N \in Nat
    <2>1. s \in Services /\ s.waiting \in Seq(Task)
        BY DEF Sane, Services
    <2>2. Onward(s, s, {}) /\ Orderly(s, s)
        BY StayingGoesOn DEF Orderly
    <2>. QED
        BY <2>1, <2>2
<1>3. ASSUME NEW q \in S PROVE PumpOne(q) \in S
    <2>1. /\ Onward(q, PumpOne(q), {}) /\ Orderly(q, PumpOne(q))
          /\ Spare(PumpOne(q)) /\ PumpOne(q).after = q.after
        BY PumpOneGoesOn
    <2>2. Onward(s, PumpOne(q), {} \cup {}) /\ Orderly(s, PumpOne(q))
        BY <2>1, OneAfterTheOther DEF Orderly
    <2>. QED
        BY <2>1, <2>2 DEF Onward, Sane
<1>. HIDE DEF N
<1>4. op \in [1..N -> [S -> S]]
    <2>. HIDE DEF S
    <2>. QED
        BY <1>3
<1>5. PICK g \in [0..N -> S] : Iterates(g, N, s, op)
    <2>. HIDE DEF op, S
    <2>. QED
        BY <1>2, <1>4, IterationExists
<1>6. body(g) = g
    <2>. DEFINE b == body(g)
    <2>1. \A n \in 1..N : n - 1 \in 0..N /\ g[n - 1] \in S
        BY <1>2, <1>5
    <2>. HIDE DEF S
    <2>2. FunctionTo(b, N) /\ TakesSteps(b, g, N, s, op)
        BY <1>2, <2>1 DEF FunctionTo, TakesSteps
    <2>3. b = g
        <3>. HIDE DEF b, op
        <3>. QED
            BY <1>2, <1>5, <2>2, SameIteration
    <2>. QED
        BY <2>3
<1>7. pumped = body(pumped)
    <2>. HIDE DEF body
    <2>. QED
        BY <1>6, Zenon
<1>. HIDE DEF pumped
<1>8. pumped[0] \in P[0]
    <2>1. pumped[0] = s /\ N <= N - 0
        BY <1>2, <1>7
    <2>. HIDE DEF S
    <2>. QED
        BY <1>2, <2>1 DEF N
<1>9. ASSUME NEW n \in 1..N, pumped[n - 1] \in P[n - 1]
      PROVE  pumped[n] \in P[n]
    <2>. DEFINE q == pumped[n - 1]
                r == pumped[n]
    <2>1. n - 1 \in 0..N /\ n \in 0..N /\ n # 0
        BY <1>2
    <2>2. r = PumpOne(q)
        BY <1>7, <2>1
    <2>3. q \in S /\ (Full(q) \/ Len(q.waiting) <= N - (n - 1))
        BY <1>9, <2>1
    <2>4. Sane(q) /\ Spare(q) /\ q.waiting \in Seq(Task)
        BY <2>3 DEF Services
    <2>. HIDE DEF q, r
    <2>5. r \in S
        BY <1>3, <2>2, <2>3
    <2>6. Full(r) \/ Len(r.waiting) <= N - n
        <3>1. CASE Full(q)
            BY <2>2, <2>4, <3>1, PumpOneTakesTheHead
        <3>2. CASE ~Full(q)
            <4>1. r.waiting = Tail(q.waiting) /\ q.waiting # <<>> /\ Len(q.waiting) <= N - (n - 1)
                BY <2>2, <2>3, <2>4, <3>2, PumpOneTakesTheHead DEF Full
            <4>2. Len(r.waiting) = Len(q.waiting) - 1 /\ Len(q.waiting) \in Nat
                BY <2>4, <4>1
            <4>. QED
                BY <1>2, <4>1, <4>2
        <3>. QED
            BY <3>1, <3>2
    <2>. HIDE DEF S
    <2>. QED
        BY <2>1, <2>5, <2>6 DEF r
<1>10. pumped[N] \in P[N]
    <2>. HIDE DEF P
    <2>1. \A n \in 0..N : pumped[n] \in P[n]
        BY <1>2, <1>8, <1>9, StepsAlong
    <2>. QED
        BY <1>2, <2>1
<1>. DEFINE q == pumped[N]
<1>11. q \in S /\ (Full(q) \/ Len(q.waiting) <= N - N)
    BY <1>2, <1>10
<1>. HIDE DEF q
<1>12. Full(q)
    <2>1. q.waiting \in Seq(Task)
        BY <1>11 DEF Services
    <2>2. Len(q.waiting) <= 0 => q.waiting = <<>>
        BY <2>1
    <2>. QED
        BY <1>2, <1>11, <2>2 DEF Full
<1>. QED
    BY <1>1, <1>11, <1>12 DEF q

-----------------------------------------------------------------------------
(* Queueing tasks, and seeding.                                            *)

LEMMA WaitGoesOn ==
    ASSUME NEW s, Sane(s), NEW t \in Task
    PROVE  /\ Onward(s, Wait(s, t), {t})
           /\ Wait(s, t).runner = s.runner /\ Wait(s, t).after = s.after
           /\ Wait(s, t).running = s.running
<1>. DEFINE q == Wait(s, t)
<1>1. /\ s \in Services /\ Listed(s) /\ Owned(s) /\ Sound(s.runner)
      /\ s.waiting \in Seq(Task) /\ Distinct(s.waiting)
    BY DEF Sane, Services, Listed
<1>2. CASE IsWaiting(s, t)
    BY <1>2, StayingGoesOn, StirsNoMore DEF Wait
<1>3. CASE ~IsWaiting(s, t)
    <2>1. q = [s EXCEPT !.waiting = Append(s.waiting, t)]
        BY <1>3 DEF Wait
    <2>2. /\ Append(s.waiting, t) \in Seq(Task) /\ Distinct(Append(s.waiting, t))
          /\ \A u \in Task : Holds(Append(s.waiting, t), u) <=> IsWaiting(s, u) \/ u = t
        BY <1>1, <1>3, Appending DEF IsWaiting
    <2>3. /\ q \in Services /\ q.waiting = Append(s.waiting, t)
          /\ q.slots = s.slots /\ q.tasks = s.tasks /\ q.known = s.known
          /\ q.running = s.running /\ q.workOf = s.workOf /\ q.seeding = s.seeding
          /\ q.isSeeding = s.isSeeding /\ q.after = s.after /\ q.runner = s.runner
          /\ q.inbox = s.inbox
        BY <1>1, <2>1, <2>2 DEF Services
    <2>. HIDE DEF q
    <2>4. \A u \in Task : /\ IsRunning(q, u) <=> IsRunning(s, u)
                          /\ IsWaiting(q, u) <=> IsWaiting(s, u) \/ u = t
                          /\ IsRestarting(q, u) <=> IsRestarting(s, u)
        BY <2>2, <2>3 DEF IsRunning, IsWaiting, IsRestarting
    <2>5. Listed(q)
        BY <1>1, <2>2, <2>3, <2>4 DEF Listed
    <2>6. Owned(q)
        BY <1>1, <2>3 DEF Owned, Lives, InInbox
    <2>7. Slotted(s) => Slotted(q)
        BY <2>3 DEF Slotted
    <2>. QED
        BY <1>1, <2>3, <2>4, <2>5, <2>6, <2>7 DEF Sane, Onward, Stored, Quiet, q
<1>. QED
    BY <1>2, <1>3

\* The ids of a runner that did not change.
LEMMA SameRunnerSameIds ==
    ASSUME NEW s, NEW q, q.runner = s.runner, HasIds(s)
    PROVE  HasIds(q) /\ Spare(q)
BY DEF HasIds, Spare, Unborn

LEMMA ScheduleGoesOn ==
    ASSUME NEW s, Sane(s), HasIds(s), NEW t \in Task
    PROVE  Onward(s, Schedule(s, t), {t}) /\ Full(Schedule(s, t)) /\ Schedule(s, t).after = s.after
<1>. DEFINE p == Wait(s, t)
<1>1. Onward(s, p, {t}) /\ p.runner = s.runner /\ p.after = s.after
    BY WaitGoesOn
<1>2. Sane(p) /\ Spare(p)
    BY <1>1, SameRunnerSameIds DEF Onward
<1>3. Onward(p, Pump(p), {}) /\ Full(Pump(p)) /\ Pump(p).after = p.after
    BY <1>2, PumpGoesOn
<1>4. Onward(s, Pump(p), {t} \cup {})
    BY <1>1, <1>3, OneAfterTheOther
<1>. QED
    BY <1>1, <1>3, <1>4 DEF Schedule

LEMMA QueuedGoesOn ==
    ASSUME NEW s, Sane(s), NEW T, T \subseteq Task
    PROVE  /\ Onward(s, Queued(s, T), T)
           /\ Queued(s, T).runner = s.runner /\ Queued(s, T).after = s.after
<1>. DEFINE N == TaskCount
            body(f) == [n \in 0..N |-> IF n = 0 THEN s
                                       ELSE IF n \in T THEN Wait(f[n - 1], n) ELSE f[n - 1]]
            queued == CHOOSE f : f = body(f)
            S == {q \in Services : Onward(s, q, T) /\ q.runner = s.runner /\ q.after = s.after}
            op == [n \in 1..N |-> [q \in S |-> IF n \in T THEN Wait(q, n) ELSE q]]
<1>1. Queued(s, T) = queued[N]
    BY DEF Queued
<1>2. s \in S /\ N \in Nat
    <2>1. Onward(s, s, T)
        BY StayingGoesOn, StirsNoMore
    <2>. QED
        BY <2>1, ServiceAssumption DEF Sane
<1>3. ASSUME NEW q \in S, NEW n \in T PROVE Wait(q, n) \in S
    <2>1. Sane(q) /\ n \in Task
        BY DEF Onward
    <2>2. /\ Onward(q, Wait(q, n), {n})
          /\ Wait(q, n).runner = s.runner /\ Wait(q, n).after = s.after
        BY <2>1, WaitGoesOn
    <2>3. Onward(s, Wait(q, n), T \cup {n})
        BY <2>2, OneAfterTheOther
    <2>4. T \cup {n} = T
        OBVIOUS
    <2>. QED
        BY <2>2, <2>3, <2>4 DEF Onward, Sane
<1>. HIDE DEF N
<1>4. op \in [1..N -> [S -> S]]
    <2>. HIDE DEF S
    <2>. QED
        BY <1>3
<1>5. PICK g \in [0..N -> S] : Iterates(g, N, s, op)
    <2>. HIDE DEF op, S
    <2>. QED
        BY <1>2, <1>4, IterationExists
<1>6. body(g) = g
    <2>. DEFINE b == body(g)
    <2>1. \A n \in 1..N : n - 1 \in 0..N /\ g[n - 1] \in S
        BY <1>2, <1>5
    <2>. HIDE DEF S
    <2>2. FunctionTo(b, N) /\ TakesSteps(b, g, N, s, op)
        BY <1>2, <2>1 DEF FunctionTo, TakesSteps
    <2>3. b = g
        <3>. HIDE DEF b, op
        <3>. QED
            BY <1>2, <1>5, <2>2, SameIteration
    <2>. QED
        BY <2>3
<1>7. queued = body(queued)
    <2>. HIDE DEF body
    <2>. QED
        BY <1>6, Zenon
<1>. HIDE DEF queued, S
<1>8. queued[0] \in S /\ \A n \in 1..N : queued[n - 1] \in S => queued[n] \in S
    BY <1>2, <1>3, <1>7
<1>9. \A n \in 0..N : queued[n] \in S
    BY <1>2, <1>8, StepByStep
<1>10. queued[N] \in S
    BY <1>2, <1>9
<1>. QED
    BY <1>1, <1>10 DEF S

LEMMA ScheduledAllGoesOn ==
    ASSUME NEW s, Sane(s), HasIds(s), NEW T, T \subseteq Task
    PROVE  /\ Onward(s, ScheduledAll(s, T), T) /\ Full(ScheduledAll(s, T))
           /\ ScheduledAll(s, T).after = s.after
<1>. DEFINE p == Queued(s, T)
<1>1. Onward(s, p, T) /\ p.runner = s.runner /\ p.after = s.after
    BY QueuedGoesOn
<1>2. Sane(p) /\ Spare(p)
    BY <1>1, SameRunnerSameIds DEF Onward
<1>3. Onward(p, Pump(p), {}) /\ Full(Pump(p)) /\ Pump(p).after = p.after
    BY <1>2, PumpGoesOn
<1>4. Onward(s, Pump(p), T \cup {})
    BY <1>1, <1>3, OneAfterTheOther
<1>. QED
    BY <1>1, <1>3, <1>4 DEF ScheduledAll

LEMMA SeedGoesOn ==
    ASSUME NEW s, Sane(s), NEW t \in Seedable, Unborn(s, t, "seed") # {}
    PROVE  /\ Onward(s, Seed(s, t), {})
           /\ Seed(s, t).waiting = s.waiting /\ Seed(s, t).after = s.after
           /\ \A u \in Task : Unborn(Seed(s, t), u, "run") = Unborn(s, u, "run")
<1>. DEFINE w == NewWork(s, t, "seed")
            r == R!Submitted(s.runner, {w})
            q == Seed(s, t)
<1>1. s \in Services /\ Listed(s) /\ Owned(s) /\ Sound(s.runner) /\ t \in Task
    BY WorkIdFacts DEF Sane
<1>2. PICK k \in Serials : w = <<t, "seed", k>>
    BY NewWorkIsUnborn
<1>3. w \in WorkIds /\ TaskOf(w) = t /\ ~IsRun(w) /\ w # None
    BY <1>2, WorkIdFacts
<1>4. s.runner.stage[w] = "unborn"
    BY NewWorkIsUnborn
<1>5. q = [s EXCEPT !.runner = r, !.isSeeding[t] = TRUE, !.seeding[t] = w]
    BY DEF Seed
<1>6. s.runner \in R!Runners
    BY <1>1 DEF Services
<1>. HIDE DEF w
<1>7. /\ r \in R!Runners /\ Sound(r) /\ r.pending = s.runner.pending \cup {w}
      /\ \A v \in WorkIds : v # w => r.stage[v] = s.runner.stage[v]
    BY <1>1, <1>3, <1>4, <1>6, SubmittedIsSound
<1>. HIDE DEF r
<1>8. /\ q \in Services
      /\ q.slots = s.slots /\ q.tasks = s.tasks /\ q.known = s.known /\ q.waiting = s.waiting
      /\ q.running = s.running /\ q.workOf = s.workOf
      /\ q.after = s.after /\ q.runner = r /\ q.inbox = s.inbox
      /\ q.seeding = [s.seeding EXCEPT ![t] = w]
      /\ q.isSeeding = [s.isSeeding EXCEPT ![t] = TRUE]
    <2>. DEFINE seeding == [s.seeding EXCEPT ![t] = w]
                isSeeding == [s.isSeeding EXCEPT ![t] = TRUE]
    <2>1. seeding \in [Task -> WorkIds \cup {None}] /\ isSeeding \in [Task -> BOOLEAN]
        BY <1>1, <1>3 DEF Services
    <2>2. q = [s EXCEPT !.runner = r, !.isSeeding = isSeeding, !.seeding = seeding]
        BY <1>1, <1>5 DEF Services
    <2>. HIDE DEF q, seeding, isSeeding
    <2>3. /\ q \in Services
          /\ q.slots = s.slots /\ q.tasks = s.tasks /\ q.known = s.known /\ q.waiting = s.waiting
          /\ q.running = s.running /\ q.workOf = s.workOf
          /\ q.after = s.after /\ q.runner = r /\ q.inbox = s.inbox
          /\ q.seeding = seeding /\ q.isSeeding = isSeeding
        BY <1>1, <1>7, <2>1, <2>2 DEF Services
    <2>. QED
        BY <2>3 DEF seeding, isSeeding
<1>. HIDE DEF q
<1>9. \A u \in Task : /\ IsRunning(q, u) <=> IsRunning(s, u)
                      /\ IsWaiting(q, u) <=> IsWaiting(s, u)
                      /\ IsRestarting(q, u) <=> IsRestarting(s, u)
    BY <1>8 DEF IsRunning, IsWaiting, IsRestarting
<1>10. \A u \in Task : /\ q.seeding[u] = IF u = t THEN w ELSE s.seeding[u]
                       /\ q.isSeeding[u] = IF u = t THEN TRUE ELSE s.isSeeding[u]
    BY <1>1, <1>8 DEF Services
<1>11. Listed(q)
    BY <1>1, <1>8, <1>9 DEF Listed
<1>12. \A v : Lives(s, v) \/ v = w => Lives(q, v)
    BY <1>7, <1>8 DEF Lives, InInbox
<1>13. Owned(q)
    <2>. SUFFICES ASSUME NEW u \in Task
                  PROVE  /\ q.workOf[u] # None => /\ TaskOf(q.workOf[u]) = u /\ IsRun(q.workOf[u])
                                                   /\ Lives(q, q.workOf[u])
                         /\ q.seeding[u] # None => TaskOf(q.seeding[u]) = u /\ ~IsRun(q.seeding[u])
                         /\ q.isSeeding[u] => q.seeding[u] # None /\ Lives(q, q.seeding[u])
        BY DEF Owned
    <2>1. CASE u = t
        BY <1>1, <1>3, <1>8, <1>10, <1>12, <2>1 DEF Owned
    <2>2. CASE u # t
        BY <1>1, <1>8, <1>10, <1>12, <2>2 DEF Owned
    <2>. QED
        BY <2>1, <2>2
<1>14. (Slotted(s) => Slotted(q)) /\ Stored(s, q)
    BY <1>3, <1>7, <1>8 DEF Slotted, Stored
<1>15. \A u \in Task : Unborn(q, u, "run") = Unborn(s, u, "run")
    <2>1. Begets(s, q, <<t, "seed", k>>)
        BY <1>2, <1>7, <1>8 DEF Begets
    <2>. QED
        BY <2>1, OthersStayUnborn
<1>16. \A u \in Task : Idle(s.runner, u) => Idle(q.runner, u)
    BY <1>3, <1>7, <1>8 DEF Idle
<1>. QED
    BY <1>7, <1>8, <1>9, <1>11, <1>13, <1>14, <1>15, <1>16 DEF Onward, Sane, Quiet, q

-----------------------------------------------------------------------------
(* Stopping works.                                                         *)

LEMMA AfterGoesOn ==
    ASSUME NEW s, Sane(s), HasIds(s), NEW t \in Task, NEW what \in Afters
    PROVE  Onward(s, After(s, t, what), {t}) /\ After(s, t, what).after = s.after
<1>1. CASE what \in {"nothing", "delete"}
    BY <1>1, StayingGoesOn, StirsNoMore DEF After
<1>2. CASE what = "redownload"
    <2>. DEFINE p == [s EXCEPT !.status[t] = "waiting", !.shouldSeed[t] = TRUE]
    <2>1. p \in Services /\ Alike(s, p)
        BY DEF Sane, Services, Alike, Status
    <2>2. After(s, t, what) = Schedule(p, t)
        BY <1>2 DEF After
    <2>. HIDE DEF p
    <2>3. Onward(s, p, {}) /\ Sane(p) /\ HasIds(p)
        BY <2>1, AlikeGoesOn DEF Onward
    <2>4. Onward(p, Schedule(p, t), {t}) /\ Schedule(p, t).after = p.after
        BY <2>3, ScheduleGoesOn
    <2>5. Onward(s, Schedule(p, t), {} \cup {t})
        BY <2>3, <2>4, OneAfterTheOther
    <2>. QED
        BY <2>1, <2>2, <2>4, <2>5 DEF Alike
<1>3. CASE what = "edit"
    BY <1>3, ScheduleGoesOn, StayingGoesOn, StirsNoMore DEF After
<1>4. CASE what = "revive"
    BY <1>4, ScheduleGoesOn DEF After
<1>. QED
    BY <1>1, <1>2, <1>3, <1>4 DEF Afters

\* A place that is given back leaves no task further down the list.
LEMMA RestIsSlotted ==
    ASSUME NEW s \in Services, Slotted(s), NEW t, NEW q \in Services, q.slots = s.slots,
           Rest(q.running, s.running, t)
    PROVE  Slotted(q)
<1>. SUFFICES ASSUME NEW i \in q.slots + 1..Len(q.running)
              PROVE  q.running[i] \in Fixed
    BY DEF Slotted
<1>1. s.slots \in Nat /\ Len(q.running) \in Nat /\ Len(s.running) \in Nat
    BY ServiceAssumption DEF Services
<1>2. i \in 1..Len(q.running)
    BY <1>1
<1>3. PICK j \in 1..Len(s.running) : i <= j /\ q.running[i] = s.running[j]
    BY <1>2 DEF Rest
<1>4. j \in s.slots + 1..Len(s.running)
    BY <1>1, <1>3
<1>. QED
    BY <1>3, <1>4 DEF Slotted

\* The work that _cancelWork cancels.
Counted(s, t) == IF IsRunning(s, t) THEN s.workOf[t] ELSE s.seeding[t]

\* What _cancelWork leaves, with a runner r.
Cleared(s, t, r) ==
    [s EXCEPT !.waiting = Without(s.waiting, t), !.running = Without(s.running, t),
              !.workOf[t] = None, !.isSeeding[t] = FALSE, !.runner = r,
              !.seeding[t] = IF IsRunning(s, t) THEN s.seeding[t] ELSE None]

\* Stages and restarts are as before, and t has left the queue, with its run if it has one.
IsCleared(s, q, t) ==
    /\ Onward(s, q, {}) /\ Orderly(s, q) /\ (Sole(s, t) => Idle(q.runner, t))
    /\ ~IsRunning(q, t) /\ ~IsWaiting(q, t) /\ Rest(q.running, s.running, t)
    /\ q.runner.stage = s.runner.stage /\ q.runner.pending \subseteq s.runner.pending
    /\ \A u \in Task : /\ IsRestarting(q, u) => IsRestarting(s, u)
                       /\ IsWaiting(q, u) => IsWaiting(s, u)

LEMMA ClearedGoesOn ==
    ASSUME NEW s, Sane(s), NEW t \in Task, NEW r \in R!Runners, Sound(r),
           r.stage = s.runner.stage, r.pending \subseteq s.runner.pending,
           \A v \in s.runner.pending \ r.pending : v = Counted(s, t),
           Sole(s, t) => Idle(r, t)
    PROVE  /\ IsCleared(s, Cleared(s, t, r), t) /\ Cleared(s, t, r).runner = r
           /\ Cleared(s, t, r).after = s.after
<1>. DEFINE q == Cleared(s, t, r)
<1>1. /\ s \in Services /\ Listed(s) /\ Owned(s) /\ Sound(s.runner)
      /\ s.waiting \in Seq(Task) /\ Distinct(s.waiting)
      /\ s.running \in Seq(Task) /\ Distinct(s.running)
    BY DEF Sane, Services, Listed
<1>2. Rest(Without(s.waiting, t), s.waiting, t) /\ Rest(Without(s.running, t), s.running, t)
    BY <1>1, WithoutIsRest
<1>3. /\ q \in Services /\ q.runner = r
      /\ q.waiting = Without(s.waiting, t) /\ q.running = Without(s.running, t)
      /\ q.slots = s.slots /\ q.tasks = s.tasks /\ q.known = s.known
      /\ q.after = s.after /\ q.inbox = s.inbox
      /\ \A u \in Task :
            /\ q.workOf[u] = IF u = t THEN None ELSE s.workOf[u]
            /\ q.isSeeding[u] = IF u = t THEN FALSE ELSE s.isSeeding[u]
            /\ q.seeding[u] = IF u = t /\ ~IsRunning(s, t) THEN None ELSE s.seeding[u]
    <2>. DEFINE workOf == [s.workOf EXCEPT ![t] = None]
                isSeeding == [s.isSeeding EXCEPT ![t] = FALSE]
                seeding == [s.seeding EXCEPT ![t] = IF IsRunning(s, t) THEN s.seeding[t] ELSE None]
                waiting == Without(s.waiting, t)
                running == Without(s.running, t)
    <2>1. /\ workOf \in [Task -> WorkIds \cup {None}] /\ isSeeding \in [Task -> BOOLEAN]
          /\ seeding \in [Task -> WorkIds \cup {None}]
        BY <1>1 DEF Services
    <2>2. waiting \in Seq(Task) /\ running \in Seq(Task)
        BY <1>2 DEF Rest
    <2>3. q = [s EXCEPT !.waiting = waiting, !.running = running, !.workOf = workOf,
                        !.isSeeding = isSeeding, !.runner = r, !.seeding = seeding]
        BY <1>1 DEF Cleared, Services
    <2>4. \A u \in Task :
            /\ workOf[u] = IF u = t THEN None ELSE s.workOf[u]
            /\ isSeeding[u] = IF u = t THEN FALSE ELSE s.isSeeding[u]
            /\ seeding[u] = IF u = t /\ ~IsRunning(s, t) THEN None ELSE s.seeding[u]
        BY <1>1 DEF Services
    <2>. HIDE DEF q, workOf, isSeeding, seeding, waiting, running
    <2>5. /\ q \in Services /\ q.runner = r /\ q.waiting = waiting /\ q.running = running
          /\ q.slots = s.slots /\ q.tasks = s.tasks /\ q.known = s.known
          /\ q.after = s.after /\ q.inbox = s.inbox
          /\ q.workOf = workOf /\ q.isSeeding = isSeeding /\ q.seeding = seeding
        BY <1>1, <2>1, <2>2, <2>3 DEF Services
    <2>. QED
        BY <2>4, <2>5 DEF waiting, running
<1>. HIDE DEF q
<1>4. /\ \A u \in Task : /\ IsRunning(q, u) <=> IsRunning(s, u) /\ u # t
                         /\ IsWaiting(q, u) <=> IsWaiting(s, u) /\ u # t
                         /\ IsRestarting(q, u) <=> IsRestarting(s, u)
      /\ Distinct(q.waiting) /\ Distinct(q.running) /\ Rest(q.running, s.running, t)
    BY <1>2, <1>3 DEF Rest, IsRunning, IsWaiting, IsRestarting
<1>5. Listed(q)
    BY <1>1, <1>3, <1>4 DEF Listed
<1>6. \A v : Lives(s, v) /\ v # Counted(s, t) => Lives(q, v)
    BY <1>3 DEF Lives, InInbox
<1>7. Owned(q)
    <2>. SUFFICES ASSUME NEW u \in Task
                  PROVE  /\ q.workOf[u] # None => /\ TaskOf(q.workOf[u]) = u /\ IsRun(q.workOf[u])
                                                  /\ Lives(q, q.workOf[u])
                         /\ q.seeding[u] # None => TaskOf(q.seeding[u]) = u /\ ~IsRun(q.seeding[u])
                         /\ q.isSeeding[u] => q.seeding[u] # None /\ Lives(q, q.seeding[u])
        BY DEF Owned
    <2>1. CASE u = t
        BY <1>1, <1>3, <2>1 DEF Owned
    <2>2. CASE u # t
        <3>1. Counted(s, t) # None => TaskOf(Counted(s, t)) = t
            BY <1>1 DEF Counted, Owned
        <3>2. /\ s.workOf[u] # None => s.workOf[u] # Counted(s, t)
              /\ s.seeding[u] # None => s.seeding[u] # Counted(s, t)
            BY <1>1, <2>2, <3>1 DEF Owned
        <3>. QED
            BY <1>1, <1>3, <1>6, <2>2, <3>2 DEF Owned
    <2>. QED
        BY <2>1, <2>2
<1>8. Slotted(s) => Slotted(q)
    BY <1>1, <1>3, <1>4, RestIsSlotted
<1>9. \A u \in Task : Idle(s.runner, u) => Idle(q.runner, u)
    BY <1>3 DEF Idle
<1>10. Orderly(s, q)
    <2>. SUFFICES ASSUME NEW u \in Task, Single(s, u) PROVE Single(q, u)
        BY DEF Orderly
    <2>1. CASE u = t
        BY <1>3, <1>4, <2>1 DEF Single, Sole, Idle
    <2>2. CASE u # t
        BY <1>3, <1>4, <2>2 DEF Single, Sole
    <2>. QED
        BY <2>1, <2>2
<1>. QED
    BY <1>3, <1>4, <1>5, <1>7, <1>8, <1>9, <1>10 DEF IsCleared, Onward, Stored, Sane, Quiet, q

LEMMA CancelledIsSound ==
    ASSUME NEW r \in R!Runners, Sound(r), NEW w \in WorkIds, NEW b \in BOOLEAN
    PROVE  LET q == R!Cancelled(r, w, b)
           IN  /\ q \in R!Runners /\ Sound(q)
               /\ q.stage = r.stage /\ q.pending = r.pending \ {w}
BY DEF R!Cancelled, R!Runners, Sound

\* _cancelWork: what is to follow is called now, or later, or there is nothing.
LEMMA CancelWorkGives ==
    ASSUME NEW s, Sane(s), NEW t \in Task, NEW what \in Afters
    PROVE  \E p : /\ IsCleared(s, p, t) /\ p.after = s.after
                  /\ \/ CancelWork(s, t, what) = After(p, t, what)
                     \/ \E w \in WorkIds : /\ TaskOf(w) = t
                                           /\ CancelWork(s, t, what) = [p EXCEPT !.after[w] = what]
<1>. DEFINE w == Counted(s, t)
            left == [s EXCEPT !.waiting = Without(@, t),
                              !.running = Without(@, t),
                              !.workOf[t] = None,
                              !.seeding[t] = IF IsRunning(s, t) THEN @ ELSE None,
                              !.isSeeding[t] = FALSE]
            r == R!Cancelled(s.runner, w, what # "nothing")
            cut == [left EXCEPT !.runner = r]
<1>1. s \in Services /\ Owned(s) /\ s.runner \in R!Runners /\ Sound(s.runner)
    BY DEF Sane, Services
<1>2. CancelWork(s, t, what) =
          IF w = None THEN After(left, t, what)
          ELSE IF R!FinishesAtOnce(s.runner, w) THEN After(cut, t, what)
               ELSE [cut EXCEPT !.after[w] = what]
    BY DEF CancelWork, Counted
<1>3. left = Cleared(s, t, s.runner) /\ cut = Cleared(s, t, r)
    <2>. HIDE DEF w
    <2>1. left = Cleared(s, t, s.runner)
        BY <1>1 DEF Cleared, Services
    <2>2. cut = Cleared(s, t, r)
        <3>. HIDE DEF r
        <3>. QED
            BY <1>1 DEF Cleared, Services
    <2>. QED
        BY <2>1, <2>2
<1>4. w # None => w \in WorkIds /\ TaskOf(w) = t
    BY <1>1 DEF Counted, Owned, Services
<1>. HIDE DEF left, cut
<1>9. ASSUME Sole(s, t), ~IsRunning(s, t) PROVE Idle(s.runner, t)
    BY <1>9, SoleIsIdle
<1>5. ASSUME w = None PROVE IsCleared(s, left, t) /\ left.after = s.after
    <2>1. ~IsRunning(s, t)
        BY <1>5 DEF Sane, Listed, Counted
    <2>. QED
        BY <1>1, <1>3, <1>9, <2>1, ClearedGoesOn
<1>6. ASSUME w # None PROVE IsCleared(s, cut, t) /\ cut.after = s.after
    <2>. HIDE DEF w
    <2>1. /\ r \in R!Runners /\ Sound(r)
          /\ r.stage = s.runner.stage /\ r.pending = s.runner.pending \ {w}
        BY <1>1, <1>4, <1>6, CancelledIsSound
    <2>. HIDE DEF r
    <2>2. \A v \in s.runner.pending \ r.pending : v = Counted(s, t)
        BY <2>1 DEF w
    <2>3. Sole(s, t) => Idle(r, t)
        BY <1>9, <2>1 DEF Sole, Idle, Counted, w
    <2>. QED
        BY <1>3, <2>1, <2>2, <2>3, ClearedGoesOn
<1>7. CASE w = None
    BY <1>2, <1>5, <1>7
<1>8. CASE w # None
    BY <1>2, <1>4, <1>6, <1>8
<1>. QED
    BY <1>7, <1>8

\* What follows is remembered.
LEMMA RememberedGoesOn ==
    ASSUME NEW p, Sane(p), NEW w \in WorkIds, NEW what \in Afters
    PROVE  LET q == [p EXCEPT !.after[w] = what]
           IN  /\ Onward(p, q, {TaskOf(w)}) /\ q.runner = p.runner
               /\ q.running = p.running /\ q.waiting = p.waiting /\ q.workOf = p.workOf
               /\ what \in {"nothing", "delete"} =>
                     \A u \in Task : IsRestarting(q, u) => IsRestarting(p, u)
<1>. DEFINE q == [p EXCEPT !.after[w] = what]
<1>1. /\ q \in Services /\ q.slots = p.slots /\ q.tasks = p.tasks /\ q.known = p.known
      /\ q.waiting = p.waiting /\ q.running = p.running /\ q.workOf = p.workOf
      /\ q.seeding = p.seeding /\ q.isSeeding = p.isSeeding /\ q.runner = p.runner
      /\ q.inbox = p.inbox
      /\ \A v \in WorkIds : q.after[v] = IF v = w THEN what ELSE p.after[v]
    BY DEF Sane, Services
<1>. HIDE DEF q
<1>2. /\ \A u \in Task : /\ IsRunning(q, u) <=> IsRunning(p, u)
                         /\ IsWaiting(q, u) <=> IsWaiting(p, u)
      /\ \A u \in Task \ {TaskOf(w)} : IsRestarting(q, u) => IsRestarting(p, u)
      /\ what \in {"nothing", "delete"} =>
            \A u \in Task : IsRestarting(q, u) => IsRestarting(p, u)
    BY <1>1 DEF IsRunning, IsWaiting, IsRestarting
<1>3. Listed(q)
    BY <1>1, <1>2 DEF Sane, Listed
<1>4. Owned(q)
    BY <1>1 DEF Sane, Owned, Lives, InInbox
<1>5. Slotted(p) => Slotted(q)
    BY <1>1 DEF Slotted
<1>. QED
    BY <1>1, <1>2, <1>3, <1>4, <1>5 DEF Onward, Stored, Sane, Quiet, q

\* A cancel that nothing of the queue follows.
LEMMA CancelWorkClears ==
    ASSUME NEW s, Sane(s), NEW t \in Task, NEW what \in {"nothing", "delete"}
    PROVE  IsCleared(s, CancelWork(s, t, what), t)
<1>. DEFINE q == CancelWork(s, t, what)
<1>1. what \in Afters
    BY DEF Afters
<1>2. PICK p : /\ IsCleared(s, p, t)
               /\ \/ q = After(p, t, what)
                  \/ \E w \in WorkIds : TaskOf(w) = t /\ q = [p EXCEPT !.after[w] = what]
    BY <1>1, CancelWorkGives
<1>. HIDE DEF q
<1>3. CASE q = After(p, t, what)
    BY <1>2, <1>3 DEF After, q
<1>4. ASSUME NEW w \in WorkIds, q = [p EXCEPT !.after[w] = what]
      PROVE  IsCleared(s, q, t)
    <2>1. Sane(p)
        BY <1>2 DEF IsCleared, Onward
    <2>2. /\ Onward(p, q, {TaskOf(w)}) /\ q.runner = p.runner
          /\ q.running = p.running /\ q.waiting = p.waiting /\ q.workOf = p.workOf
          /\ \A u \in Task : IsRestarting(q, u) => IsRestarting(p, u)
        BY <1>1, <1>4, <2>1, RememberedGoesOn
    <2>3. Onward(p, q, {})
        BY <2>2 DEF Onward, Quiet, IsRunning, IsWaiting
    <2>4. Onward(s, q, {} \cup {})
        BY <1>2, <2>3, OneAfterTheOther DEF IsCleared
    <2>5. Orderly(s, q)
        BY <1>2, <2>2 DEF IsCleared, Orderly, Single, Sole, IsRunning, IsWaiting
    <2>. QED
        BY <1>2, <2>2, <2>4, <2>5 DEF IsCleared, IsRunning, IsWaiting
<1>. QED
    BY <1>2, <1>3, <1>4 DEF q

LEMMA CancelWorkGoesOn ==
    ASSUME NEW s, Sane(s), HasIds(s), NEW t \in Task, NEW what \in Afters
    PROVE  Onward(s, CancelWork(s, t, what), {t})
<1>. DEFINE q == CancelWork(s, t, what)
<1>1. PICK p : /\ IsCleared(s, p, t)
               /\ \/ q = After(p, t, what)
                  \/ \E w \in WorkIds : TaskOf(w) = t /\ q = [p EXCEPT !.after[w] = what]
    BY CancelWorkGives
<1>2. Sane(p) /\ HasIds(p)
    BY <1>1 DEF IsCleared, Onward, HasIds, Unborn
<1>. HIDE DEF q
<1>3. Onward(p, q, {t})
    <2>1. CASE q = After(p, t, what)
        BY <1>2, <2>1, AfterGoesOn
    <2>2. ASSUME NEW w \in WorkIds, TaskOf(w) = t, q = [p EXCEPT !.after[w] = what]
          PROVE  Onward(p, q, {t})
        BY <1>2, <2>2, RememberedGoesOn
    <2>. QED
        BY <1>1, <2>1, <2>2
<1>4. Onward(s, q, {} \cup {t})
    BY <1>1, <1>3, OneAfterTheOther DEF IsCleared
<1>. QED
    BY <1>4 DEF q

\* It takes no id.
LEMMA ClearedKeepsIds ==
    ASSUME NEW s, NEW q, NEW t, IsCleared(s, q, t)
    PROVE  Sane(q) /\ (HasIds(s) => HasIds(q)) /\ (Spare(s) => Spare(q))
<1>1. \A u : Unborn(q, u, "run") = Unborn(s, u, "run") /\ Unborn(q, u, "seed") = Unborn(s, u, "seed")
    BY DEF IsCleared, Unborn
<1>2. (HasIds(s) => HasIds(q)) /\ (Spare(s) => Spare(q))
    BY <1>1 DEF HasIds, Spare, IsCleared
<1>. QED
    BY <1>2 DEF IsCleared, Onward

\* What is remembered is what was asked for.
LEMMA CancelWorkRemembers ==
    ASSUME NEW s, Sane(s), NEW t \in Task, NEW what \in Afters, what = "nothing" \/ HasIds(s)
    PROVE  \A w \in WorkIds : CancelWork(s, t, what).after[w] \in {s.after[w], what}
<1>. DEFINE q == CancelWork(s, t, what)
<1>1. PICK p : /\ IsCleared(s, p, t) /\ p.after = s.after
               /\ \/ q = After(p, t, what)
                  \/ \E w \in WorkIds : TaskOf(w) = t /\ q = [p EXCEPT !.after[w] = what]
    BY CancelWorkGives
<1>2. Sane(p) /\ (HasIds(s) => HasIds(p))
    BY <1>1, ClearedKeepsIds
<1>. HIDE DEF q
<1>3. CASE q = After(p, t, what)
    <2>1. CASE what = "nothing"
        BY <1>1, <1>3, <2>1 DEF After, q
    <2>2. CASE what # "nothing"
        BY <1>1, <1>2, <1>3, <2>2, AfterGoesOn DEF q
    <2>. QED
        BY <1>1, <2>1, <2>2 DEF q
<1>4. ASSUME NEW w \in WorkIds, q = [p EXCEPT !.after[w] = what]
      PROVE  \A v \in WorkIds : q.after[v] \in {s.after[v], what}
    BY <1>1, <1>2, <1>4 DEF Sane, Services
<1>. QED
    BY <1>1, <1>3, <1>4 DEF q

LEMMA PausesRememberNothing ==
    ASSUME NEW s, Sane(s), NEW t \in Task
    PROVE  Less(s, CancelWork(s, t, "nothing"))
BY CancelWorkRemembers DEF Less, Afters

\* A pause leaves its task in peace, but for a restart under way or a run out of its slot.
Peaceful(s, q, t) == ~IsRestarting(s, t) /\ Sole(s, t) => Quiet(q, t)

LEMMA PausedGoesOn ==
    ASSUME NEW s, Sane(s), Spare(s), NEW t \in Task
    PROVE  /\ Onward(s, Paused(s, t), {}) /\ Spare(Paused(s, t)) /\ Full(Paused(s, t))
           /\ Less(s, Paused(s, t)) /\ Orderly(s, Paused(s, t))
           /\ Peaceful(s, Paused(s, t), t)
<1>. DEFINE p == CancelWork(s, t, "nothing")
            q == SetStatus(p, t, "paused")
            r == Pump(q)
<1>1. IsCleared(s, p, t) /\ Less(s, p)
    BY CancelWorkClears, PausesRememberNothing
<1>2. Sane(p) /\ Spare(p)
    BY <1>1, ClearedKeepsIds
<1>3. r = Paused(s, t)
    BY DEF Paused
<1>. HIDE DEF p
<1>4. Alike(p, q) /\ q \in Services
    BY <1>2, ShowingGoesOn DEF Status
<1>. HIDE DEF q
<1>5. Onward(p, q, {}) /\ Orderly(p, q) /\ Spare(q) /\ Sane(q)
    BY <1>2, <1>4, AlikeGoesOn DEF Onward
<1>6. Onward(q, r, {}) /\ Orderly(q, r) /\ Spare(r) /\ Full(r) /\ r.after = q.after
    BY <1>5, PumpGoesOn
<1>. HIDE DEF r
<1>7. Onward(p, r, {} \cup {})
    BY <1>5, <1>6, OneAfterTheOther
<1>8. Onward(s, r, {} \cup ({} \cup {}))
    BY <1>1, <1>7, OneAfterTheOther DEF IsCleared
<1>9. ASSUME ~IsRestarting(s, t), Sole(s, t) PROVE Quiet(r, t)
    <2>1. Quiet(p, t)
        BY <1>1, <1>9 DEF IsCleared, Quiet
    <2>. QED
        BY <1>7, <2>1 DEF Onward
<1>10. Orderly(s, r)
    BY <1>1, <1>5, <1>6 DEF IsCleared, Orderly
<1>. QED
    BY <1>1, <1>3, <1>4, <1>6, <1>8, <1>9, <1>10 DEF Peaceful, Less, Alike

\* The same, for a handler that takes tasks from the store.
Onwards(p, q) ==
    /\ Sane(q) /\ (Slotted(p) => Slotted(q)) /\ Stored(p, q) /\ q.known = p.known
    /\ \A t \in Task : Quiet(p, t) => Quiet(q, t)

LEMMA DeletedGoesOn ==
    ASSUME NEW s, Sane(s), HasIds(s), NEW t \in Task
    PROVE  Onwards(s, Deleted(s, t)) /\ Full(Deleted(s, t))
<1>. DEFINE a == Unwatch(s, t)
            p == CancelWork(a, t, "delete")
            q == [p EXCEPT !.tasks = p.tasks \ {t}]
            r == Pump(q)
<1>1. r = Deleted(s, t)
    BY DEF Deleted
<1>2. Alike(s, a) /\ a \in Services
    BY ShowingGoesOn DEF Status
<1>. HIDE DEF a
<1>3. Onward(s, a, {}) /\ Sane(a) /\ HasIds(a)
    BY <1>2, AlikeGoesOn DEF Onward
<1>4. IsCleared(a, p, t)
    BY <1>3, CancelWorkClears
<1>. HIDE DEF p
<1>5. Sane(p) /\ HasIds(p) /\ Onward(s, p, {} \cup {}) /\ p.runner.pending \subseteq s.runner.pending
    BY <1>2, <1>3, <1>4, ClearedKeepsIds, OneAfterTheOther DEF IsCleared, Alike
<1>6. /\ p \in Services /\ Listed(p) /\ Owned(p) /\ Sound(p.runner)
    BY <1>5 DEF Sane
<1>7. /\ q \in Services /\ q.slots = p.slots /\ q.tasks = p.tasks \ {t} /\ q.known = p.known
      /\ q.waiting = p.waiting /\ q.running = p.running /\ q.workOf = p.workOf
      /\ q.seeding = p.seeding /\ q.isSeeding = p.isSeeding /\ q.after = p.after
      /\ q.runner = p.runner /\ q.inbox = p.inbox
    BY <1>6 DEF Services
<1>. HIDE DEF q
<1>8. \A u \in Task : /\ IsRunning(q, u) <=> IsRunning(p, u)
                      /\ IsWaiting(q, u) <=> IsWaiting(p, u)
                      /\ IsRestarting(q, u) <=> IsRestarting(p, u)
    BY <1>7 DEF IsRunning, IsWaiting, IsRestarting
<1>9. Listed(q)
    BY <1>4, <1>6, <1>7, <1>8 DEF Listed, IsCleared
<1>10. Owned(q)
    BY <1>6, <1>7 DEF Owned, Lives, InInbox
<1>11. (Slotted(p) => Slotted(q)) /\ Sane(q) /\ Spare(q)
    BY <1>5, <1>6, <1>7, <1>9, <1>10, SameRunnerSameIds DEF Slotted, Sane
<1>12. Onward(q, r, {}) /\ Full(r)
    BY <1>11, PumpGoesOn
<1>. HIDE DEF r
<1>13. Stored(s, r)
    BY <1>5, <1>7, <1>12 DEF Onward, Stored
<1>. QED
    BY <1>1, <1>5, <1>7, <1>8, <1>11, <1>12, <1>13 DEF Onward, Onwards, Quiet

\* A turn of pauseAll's loop.
LEMMA PausedAllGoesOn ==
    ASSUME NEW s, Sane(s), HasIds(s)
    PROVE  /\ Onward(s, PausedAll(s), {}) /\ Less(s, PausedAll(s))
           /\ PausedAll(s) = s \/ Full(PausedAll(s))
           /\ \A t \in s.tasks : ~IsRestarting(s, t) /\ Single(s, t) => Quiet(PausedAll(s), t)
<1>. DEFINE N == TaskCount
            step(n, q) == IF n \in s.tasks /\ (IsRunning(q, n) \/ IsWaiting(q, n))
                          THEN Paused(q, n) ELSE q
            body(f) == [n \in 0..N |-> IF n = 0 THEN s ELSE step(n, f[n - 1])]
            paused == CHOOSE f : f = body(f)
            S == {q \in Services : /\ Onward(s, q, {}) /\ Orderly(s, q) /\ Spare(q) /\ Less(s, q)
                                   /\ q = s \/ Full(q)}
            calm(n) == {t \in s.tasks : t <= n /\ ~IsRestarting(s, t) /\ Single(s, t)}
            P == [n \in 0..N |-> {q \in S : \A t \in calm(n) : Quiet(q, t)}]
            op == [n \in 1..N |-> [q \in S |-> step(n, q)]]
<1>1. PausedAll(s) = paused[N]
    BY DEF PausedAll
<1>2. s \in S /\ N \in Nat /\ s \in Services /\ Sane(s) /\ s.tasks \subseteq Task
    <2>1. Onward(s, s, {}) /\ Orderly(s, s) /\ Spare(s) /\ Less(s, s)
        BY StayingGoesOn, SameRunnerSameIds DEF Less, Orderly
    <2>. QED
        BY <2>1, ServiceAssumption DEF Sane, Services
<1>3. ASSUME NEW q \in S, NEW n \in 1..N
      PROVE  /\ step(n, q) \in S /\ Onward(q, step(n, q), {})
             /\ n \in s.tasks /\ ~IsRestarting(s, n) /\ Single(s, n) => Quiet(step(n, q), n)
    <2>1. Sane(q) /\ Spare(q) /\ Onward(s, q, {}) /\ n \in Task /\ Onward(q, q, {})
        BY StayingGoesOn DEF Onward, Task
    <2>2. /\ Onward(q, Paused(q, n), {}) /\ Spare(Paused(q, n)) /\ Full(Paused(q, n))
          /\ Peaceful(q, Paused(q, n), n) /\ Less(q, Paused(q, n)) /\ Orderly(q, Paused(q, n))
        BY <2>1, PausedGoesOn
    <2>3. Onward(s, Paused(q, n), {} \cup {})
        BY <2>1, <2>2, OneAfterTheOther
    <2>4. ~IsRestarting(s, n) => ~IsRestarting(q, n)
        BY <2>1 DEF Onward
    <2>5. Paused(q, n) \in Services
        BY <2>2 DEF Onward, Sane
    <2>6. Less(s, Paused(q, n)) /\ Orderly(s, Paused(q, n))
        BY <2>2 DEF Less, Orderly
    <2>7. Single(s, n) => Sole(q, n) /\ (~IsRunning(q, n) => Idle(q.runner, n))
        BY <2>1, SoleIsIdle DEF Orderly, Single
    <2>. QED
        BY <2>1, <2>2, <2>3, <2>4, <2>5, <2>6, <2>7 DEF Peaceful, Quiet
<1>. HIDE DEF N, step
<1>4. op \in [1..N -> [S -> S]]
    <2>. HIDE DEF S
    <2>. QED
        BY <1>3
<1>5. PICK g \in [0..N -> S] : Iterates(g, N, s, op)
    <2>. HIDE DEF op, S
    <2>. QED
        BY <1>2, <1>4, IterationExists
<1>6. body(g) = g
    <2>. DEFINE b == body(g)
    <2>1. \A n \in 1..N : n - 1 \in 0..N /\ g[n - 1] \in S
        BY <1>2, <1>5
    <2>. HIDE DEF S
    <2>2. FunctionTo(b, N) /\ TakesSteps(b, g, N, s, op)
        BY <1>2, <2>1 DEF FunctionTo, TakesSteps
    <2>3. b = g
        <3>. HIDE DEF b, op
        <3>. QED
            BY <1>2, <1>5, <2>2, SameIteration
    <2>. QED
        BY <2>3
<1>7. paused = body(paused)
    <2>. HIDE DEF body
    <2>. QED
        BY <1>6, Zenon
<1>. HIDE DEF paused
<1>8. paused[0] \in P[0]
    <2>1. calm(0) = {}
        BY <1>2 DEF Task
    <2>2. paused[0] = s
        BY <1>2, <1>7
    <2>. QED
        BY <1>2, <2>1, <2>2
<1>9. ASSUME NEW n \in 1..N, paused[n - 1] \in P[n - 1]
      PROVE  paused[n] \in P[n]
    <2>. DEFINE q == paused[n - 1]
                r == paused[n]
    <2>1. n - 1 \in 0..N /\ n \in 0..N /\ n # 0
        BY <1>2
    <2>2. r = step(n, q)
        BY <1>7, <2>1
    <2>3. q \in S /\ \A t \in calm(n - 1) : Quiet(q, t)
        BY <1>9, <2>1
    <2>. HIDE DEF q, r
    <2>4. /\ r \in S /\ Onward(q, r, {})
          /\ n \in s.tasks /\ ~IsRestarting(s, n) /\ Single(s, n) => Quiet(r, n)
        BY <1>3, <2>2, <2>3
    <2>5. ASSUME NEW t \in calm(n) PROVE Quiet(r, t)
        <3>1. t \in Task /\ t \in Nat /\ (t = n \/ t <= n - 1)
            BY <1>2, <2>1 DEF Task
        <3>. QED
            BY <2>3, <2>4, <2>5, <3>1 DEF Onward
    <2>. HIDE DEF S, calm
    <2>. QED
        BY <2>1, <2>4, <2>5 DEF r
<1>10. paused[N] \in P[N]
    <2>. HIDE DEF P
    <2>1. \A n \in 0..N : paused[n] \in P[n]
        BY <1>2, <1>8, <1>9, StepsAlong
    <2>. QED
        BY <1>2, <2>1
<1>11. \A t \in s.tasks : ~IsRestarting(s, t) /\ Single(s, t) => t \in calm(N)
    BY <1>2 DEF Task, N
<1>. QED
    BY <1>1, <1>2, <1>10, <1>11

-----------------------------------------------------------------------------
(* A lower limit.                                                          *)

LEMMA SuspendedGoesOn ==
    ASSUME NEW s, Sane(s), NEW t \in Task
    PROVE  /\ Onward(s, Suspended(s, t), {t})
           /\ Suspended(s, t).runner.stage = s.runner.stage /\ Less(s, Suspended(s, t))
           /\ IF t \in s.tasks \ Fixed THEN Rest(Suspended(s, t).running, s.running, t)
              ELSE Suspended(s, t) = s
<1>1. CASE t \notin s.tasks \ Fixed
    BY <1>1, StayingGoesOn, StirsNoMore DEF Suspended, Less
<1>2. CASE t \in s.tasks \ Fixed
    <2>. DEFINE p == CancelWork(s, t, "nothing")
                q == SetStatus(p, t, "waiting")
                r == Wait(q, t)
    <2>1. r = Suspended(s, t)
        BY <1>2 DEF Suspended
    <2>2. IsCleared(s, p, t) /\ Less(s, p)
        BY CancelWorkClears, PausesRememberNothing
    <2>3. Sane(p)
        BY <2>2, ClearedKeepsIds
    <2>. HIDE DEF p
    <2>4. Alike(p, q) /\ q \in Services
        BY <2>3, ShowingGoesOn DEF Status
    <2>. HIDE DEF q
    <2>5. Onward(p, q, {}) /\ Sane(q)
        BY <2>3, <2>4, AlikeGoesOn DEF Onward
    <2>6. Onward(q, r, {t}) /\ r.runner = q.runner /\ r.running = q.running /\ r.after = q.after
        BY <2>5, WaitGoesOn
    <2>. HIDE DEF r
    <2>7. Onward(s, r, {} \cup ({} \cup {t}))
        BY <2>2, <2>5, <2>6, OneAfterTheOther DEF IsCleared
    <2>8. r.runner.stage = s.runner.stage /\ Rest(r.running, s.running, t) /\ Less(s, r)
        BY <2>2, <2>4, <2>6 DEF IsCleared, Alike, Less
    <2>. QED
        BY <1>2, <2>1, <2>7, <2>8
<1>. QED
    BY <1>1, <1>2

\* After n turns, what is left of the list beyond the limit is to be looked at or
\* cannot be paused.
Kept(s, q, n) ==
    \A i \in 1..Len(q.running) :
        \E j \in 1..Len(s.running) : /\ i <= j /\ q.running[i] = s.running[j]
                                     /\ s.slots < j /\ j <= n => s.running[j] \in Fixed

LEMMA SuspendedIsKept ==
    ASSUME NEW s, Sane(s), NEW q, Sane(q), q.tasks = s.tasks,
           NEW n \in 1..Len(s.running), Kept(s, q, n - 1)
    PROVE  Kept(s, IF n > s.slots THEN Suspended(q, s.running[n]) ELSE q, n)
<1>. DEFINE t == s.running[n]
            r == IF n > s.slots THEN Suspended(q, t) ELSE q
<1>1. /\ s.running \in Seq(Task) /\ s.slots \in Nat /\ Len(s.running) \in Nat
      /\ q.running \in Seq(Task) /\ Len(q.running) \in Nat
    BY ServiceAssumption DEF Sane, Services
<1>2. t \in Task /\ t \in s.tasks
    BY <1>1 DEF Sane, Listed, IsRunning, Holds
<1>3. \A j \in 1..Len(s.running) : j <= n => j <= n - 1 \/ j = n
    BY <1>1
<1>4. CASE ~(n > s.slots)
    <2>1. \A j \in 1..Len(s.running) : ~(s.slots < j /\ j <= n)
        BY <1>1, <1>4
    <2>. QED
        BY <1>4, <2>1 DEF Kept
<1>5. CASE n > s.slots /\ t \in Fixed
    <2>1. r = q
        BY <1>2, <1>5, SuspendedGoesOn
    <2>. QED
        BY <1>3, <1>5, <2>1 DEF Kept
<1>6. CASE n > s.slots /\ t \notin Fixed
    <2>1. Rest(r.running, q.running, t)
        BY <1>2, <1>6, SuspendedGoesOn
    <2>. HIDE DEF r
    <2>2. ASSUME NEW i \in 1..Len(r.running)
          PROVE  \E j \in 1..Len(s.running) :
                    /\ i <= j /\ r.running[i] = s.running[j]
                    /\ s.slots < j /\ j <= n => s.running[j] \in Fixed
        <3>1. PICK k \in 1..Len(q.running) : i <= k /\ r.running[i] = q.running[k] /\ q.running[k] # t
            BY <2>1 DEF Rest
        <3>2. PICK j \in 1..Len(s.running) : /\ k <= j /\ q.running[k] = s.running[j]
                                             /\ s.slots < j /\ j <= n - 1 => s.running[j] \in Fixed
            BY DEF Kept
        <3>3. i <= j /\ j # n
            BY <1>1, <3>1, <3>2
        <3>. QED
            BY <1>3, <3>1, <3>2, <3>3
    <2>. QED
        BY <2>2 DEF Kept, r
<1>. QED
    BY <1>4, <1>5, <1>6

LEMMA RebalancedGoesOn ==
    ASSUME NEW s, Sane(s)
    PROVE  /\ Onward(s, Rebalanced(s), {t \in Task : IsRunning(s, t)})
           /\ Rebalanced(s).runner.stage = s.runner.stage /\ Slotted(Rebalanced(s))
           /\ Less(s, Rebalanced(s))
<1>. DEFINE N == Len(s.running)
            T == {t \in Task : IsRunning(s, t)}
            step(n, q) == IF n > s.slots THEN Suspended(q, s.running[n]) ELSE q
            body(f) == [n \in 0..N |-> IF n = 0 THEN s ELSE step(n, f[n - 1])]
            rebalanced == CHOOSE f : f = body(f)
            S == {q \in Services : Onward(s, q, T) /\ q.runner.stage = s.runner.stage /\ Less(s, q)}
            P == [n \in 0..N |-> {q \in S : Kept(s, q, n)}]
            op == [n \in 1..N |-> [q \in S |-> step(n, q)]]
<1>1. Rebalanced(s) = rebalanced[N]
    BY DEF Rebalanced
<1>2. s \in S /\ N \in Nat /\ s \in Services /\ s.running \in Seq(Task) /\ s.slots \in Nat
    <2>1. Onward(s, s, T) /\ Less(s, s)
        BY StayingGoesOn, StirsNoMore DEF Less
    <2>. QED
        BY <2>1, ServiceAssumption DEF Sane, Services
<1>3. ASSUME NEW q \in S, NEW n \in 1..N
      PROVE  step(n, q) \in S
    <2>. DEFINE t == s.running[n]
    <2>1. Sane(q) /\ t \in Task /\ t \in T
        BY <1>2 DEF Onward, IsRunning, Holds
    <2>. HIDE DEF t
    <2>2. /\ Onward(q, Suspended(q, t), {t})
          /\ Suspended(q, t).runner.stage = q.runner.stage /\ Less(q, Suspended(q, t))
        BY <2>1, SuspendedGoesOn
    <2>6. Less(s, Suspended(q, t))
        BY <2>2 DEF Less
    <2>3. Onward(s, Suspended(q, t), T \cup {t})
        <3>. HIDE DEF T
        <3>. QED
            BY <2>2, OneAfterTheOther
    <2>4. T \cup {t} = T
        BY <2>1
    <2>5. Suspended(q, t) \in S
        <3>. HIDE DEF T
        <3>. QED
            BY <2>2, <2>3, <2>4, <2>6 DEF Onward, Sane
    <2>. HIDE DEF S
    <2>. QED
        BY <2>5 DEF t
<1>. HIDE DEF N, step
<1>4. op \in [1..N -> [S -> S]]
    <2>. HIDE DEF S
    <2>. QED
        BY <1>3
<1>5. PICK g \in [0..N -> S] : Iterates(g, N, s, op)
    <2>. HIDE DEF op, S
    <2>. QED
        BY <1>2, <1>4, IterationExists
<1>6. body(g) = g
    <2>. DEFINE b == body(g)
    <2>. HIDE DEF S
    <2>1. \A n \in 1..N : n - 1 \in 0..N /\ g[n - 1] \in S
        BY <1>2, <1>5
    <2>2. FunctionTo(b, N) /\ TakesSteps(b, g, N, s, op)
        BY <1>2, <2>1 DEF FunctionTo, TakesSteps
    <2>3. b = g
        <3>. HIDE DEF b, op
        <3>. QED
            BY <1>2, <1>5, <2>2, SameIteration
    <2>. QED
        BY <2>3
<1>7. rebalanced = body(rebalanced)
    <2>. HIDE DEF body
    <2>. QED
        BY <1>6, Zenon
<1>. HIDE DEF rebalanced
<1>8. rebalanced[0] \in P[0]
    <2>1. rebalanced[0] = s
        BY <1>2, <1>7
    <2>2. Kept(s, s, 0)
        BY <1>2 DEF Kept
    <2>. HIDE DEF S
    <2>. QED
        BY <1>2, <2>1, <2>2
<1>9. ASSUME NEW n \in 1..N, rebalanced[n - 1] \in P[n - 1]
      PROVE  rebalanced[n] \in P[n]
    <2>. DEFINE q == rebalanced[n - 1]
                r == rebalanced[n]
    <2>1. n - 1 \in 0..N /\ n \in 0..N /\ n # 0
        BY <1>2
    <2>2. r = step(n, q)
        BY <1>7, <2>1
    <2>3. q \in S /\ Kept(s, q, n - 1)
        BY <1>9, <2>1
    <2>4. Sane(q) /\ q.tasks = s.tasks
        BY <2>3 DEF Onward
    <2>. HIDE DEF q, r, S
    <2>5. r \in S
        BY <1>3, <2>2, <2>3
    <2>6. Kept(s, r, n)
        BY <2>2, <2>3, <2>4, SuspendedIsKept DEF N, step
    <2>. QED
        BY <2>1, <2>5, <2>6 DEF r
<1>. DEFINE q == rebalanced[N]
<1>10. q \in P[N]
    <2>. HIDE DEF P
    <2>1. \A n \in 0..N : rebalanced[n] \in P[n]
        BY <1>2, <1>8, <1>9, StepsAlong
    <2>. QED
        BY <1>2, <2>1
<1>11. q \in S /\ Kept(s, q, N)
    BY <1>2, <1>10
<1>. HIDE DEF q
<1>12. Slotted(q)
    <2>. SUFFICES ASSUME NEW i \in q.slots + 1..Len(q.running)
                  PROVE  q.running[i] \in Fixed
        BY DEF Slotted
    <2>1. q.slots = s.slots /\ q \in Services
        BY <1>11 DEF Onward
    <2>2. i \in 1..Len(q.running) /\ s.slots < i
        BY <1>2, <2>1 DEF Services
    <2>3. PICK j \in 1..Len(s.running) : /\ i <= j /\ q.running[i] = s.running[j]
                                         /\ s.slots < j /\ j <= N => s.running[j] \in Fixed
        BY <1>11, <2>2 DEF Kept
    <2>4. s.slots < j /\ j <= N
        BY <1>2, <2>2, <2>3 DEF N
    <2>. QED
        BY <2>3, <2>4
<1>. QED
    BY <1>1, <1>11, <1>12 DEF q

-----------------------------------------------------------------------------
(* The loop, and ids that are forgotten.                                   *)

\* The queue and the store are the same, and no work that counts has died.
Looped(s, q) ==
    /\ q \in Services /\ q.slots = s.slots /\ q.tasks = s.tasks /\ q.known = s.known
    /\ q.waiting = s.waiting /\ q.running = s.running /\ q.workOf = s.workOf
    /\ q.seeding = s.seeding /\ q.isSeeding = s.isSeeding /\ q.after = s.after
    /\ Sound(q.runner) /\ q.runner.pending \subseteq s.runner.pending
    /\ \A w \in WorkIds : Lives(s, w) => Lives(q, w)

LEMMA LoopedGoesOn ==
    ASSUME NEW s, Sane(s), NEW q, Looped(s, q)
    PROVE  Onward(s, q, {})
<1>1. \A u \in Task : /\ IsRunning(q, u) <=> IsRunning(s, u)
                      /\ IsWaiting(q, u) <=> IsWaiting(s, u)
                      /\ IsRestarting(q, u) <=> IsRestarting(s, u)
    BY DEF Looped, IsRunning, IsWaiting, IsRestarting
<1>2. Listed(q)
    BY <1>1 DEF Sane, Listed, Looped
<1>3. \A u \in Task : s.workOf[u] \in WorkIds \cup {None} /\ s.seeding[u] \in WorkIds \cup {None}
    BY DEF Sane, Services
<1>4. Owned(q)
    BY <1>3 DEF Sane, Owned, Looped
<1>5. (Slotted(s) => Slotted(q)) /\ Stored(s, q)
    BY DEF Slotted, Stored, Looped
<1>. QED
    BY <1>1, <1>2, <1>4, <1>5 DEF Onward, Sane, Quiet, Idle, Looped

\* A runner that lost no callback.
Carried(r, q) == q \in R!Runners /\ Sound(q) /\ q.pending = r.pending

LEMMA CarriedGoesOn ==
    ASSUME NEW s, Sane(s), NEW q \in Services, Carried(s.runner, q.runner),
           q.slots = s.slots, q.tasks = s.tasks, q.known = s.known, q.waiting = s.waiting,
           q.running = s.running, q.workOf = s.workOf, q.seeding = s.seeding,
           q.isSeeding = s.isSeeding, q.after = s.after,
           \A w : InInbox(s, w, {"done", "failed"}) => InInbox(q, w, {"done", "failed"})
    PROVE  Onward(s, q, {})
<1>1. Looped(s, q)
    BY DEF Looped, Carried, Lives
<1>. QED
    BY <1>1, LoopedGoesOn

LEMMA TidyGoesOn ==
    ASSUME NEW s, Sane(s)
    PROVE  Onward(s, Tidy(s), {})
<1>. DEFINE q == Tidy(s)
            stage == [w \in WorkIds |-> IF Forgettable(s, w) THEN "unborn"
                                        ELSE s.runner.stage[w]]
            r == [s.runner EXCEPT !.stage = stage]
<1>1. s \in Services /\ Sound(s.runner) /\ s.runner \in R!Runners
    BY DEF Sane, Services
<1>2. q = [s EXCEPT !.runner = r]
    BY <1>1 DEF Tidy, Services
<1>3. stage \in [WorkIds -> R!Stages]
    BY <1>1 DEF R!Runners, R!Stages
<1>4. \A w \in WorkIds : Forgettable(s, w) => /\ s.runner.stage[w] \in {"ended", "closed"}
                                              /\ w \notin s.runner.cancels
    BY DEF Forgettable
<1>5. \A w \in WorkIds : stage[w] = IF Forgettable(s, w) THEN "unborn" ELSE s.runner.stage[w]
    OBVIOUS
<1>. HIDE DEF stage
<1>6. /\ r \in R!Runners /\ r.pending = s.runner.pending /\ r.running = s.runner.running
      /\ r.cancels = s.runner.cancels /\ r.stage = stage
    BY <1>1, <1>3 DEF R!Runners
<1>. HIDE DEF r, q
<1>7. Carried(s.runner, r)
    BY <1>1, <1>4, <1>5, <1>6 DEF Sound, Carried
<1>8. /\ q \in Services /\ q.slots = s.slots /\ q.tasks = s.tasks /\ q.known = s.known
      /\ q.waiting = s.waiting /\ q.running = s.running /\ q.workOf = s.workOf
      /\ q.seeding = s.seeding /\ q.isSeeding = s.isSeeding /\ q.after = s.after
      /\ q.inbox = s.inbox /\ q.runner = r
    BY <1>1, <1>2, <1>6 DEF Services
<1>9. \A w : InInbox(s, w, {"done", "failed"}) => InInbox(q, w, {"done", "failed"})
    BY <1>8 DEF InInbox
<1>10. Onward(s, q, {})
    BY <1>7, <1>8, <1>9, CarriedGoesOn
<1>. QED
    BY <1>10 DEF q

LEMMA TidyIsFull ==
    ASSUME NEW s, Sane(s), Full(s)
    PROVE  Full(Tidy(s))
BY DEF Full, Tidy, Sane, Services

\* What the loop does to a runner, but for the answers.
LEMMA RunnerGoesOn ==
    ASSUME NEW r \in R!Runners, Sound(r), NEW w \in WorkIds
    PROVE  /\ R!CanSchedule(r, w) => Carried(r, R!Scheduled(r, w))
           /\ R!CanCreate(r, w) => Carried(r, R!Created(r, w))
           /\ R!CanBegin(r, w) => Carried(r, R!Begun(r, w))
           /\ R!CanThrow(r, w) => Carried(r, R!Thrown(r, w))
           /\ R!CanUnwind(r, w) => Carried(r, R!Unwound(r, w))
           /\ \A how \in {"succeeded", "raised"} :
                R!CanReturn(r, w) => Carried(r, R!Returned(r, w, how))
           /\ Carried(r, R!Notified(r, w))
<1>1. ASSUME R!CanSchedule(r, w) PROVE Carried(r, R!Scheduled(r, w))
    <2>. USE DEF R!CanSchedule, Carried, R!Runners, R!Stages, Sound
    <2>1. CASE w \notin r.pending
        <3>1. R!Scheduled(r, w) = [r EXCEPT !.stage[w] = "closed"]
            BY <2>1 DEF R!Scheduled, R!Moved
        <3>2. Carried(r, [r EXCEPT !.stage[w] = "closed"])
            BY <1>1, <2>1
        <3>. QED
            BY <3>1, <3>2
    <2>2. CASE w \in r.pending /\ SameThread
        <3>1. R!Scheduled(r, w) = R!Created(r, w)
            BY <2>2 DEF R!Scheduled
        <3>2. Carried(r, R!Created(r, w))
            BY <1>1, <2>2 DEF R!Created, R!Moved
        <3>. QED
            BY <3>1, <3>2
    <2>3. CASE w \in r.pending /\ ~SameThread
        <3>1. R!Scheduled(r, w) = [r EXCEPT !.stage[w] = "checked"]
            BY <2>3 DEF R!Scheduled, R!Moved
        <3>2. Carried(r, [r EXCEPT !.stage[w] = "checked"])
            BY <1>1, <2>3
        <3>. QED
            BY <3>1, <3>2
    <2>. QED
        BY <2>1, <2>2, <2>3
<1>2. R!CanCreate(r, w) => Carried(r, R!Created(r, w))
    BY DEF R!CanCreate, R!Created, R!Moved, Carried, R!Runners, R!Stages, Sound
<1>3. R!CanBegin(r, w) => Carried(r, R!Begun(r, w))
    BY DEF R!CanBegin, R!Begun, R!Moved, Carried, R!Runners, R!Stages, Sound
<1>4. R!CanThrow(r, w) => Carried(r, R!Thrown(r, w))
    BY DEF R!CanThrow, R!Thrown, R!Moved, Carried, R!Runners, R!Stages, Sound
<1>5. R!CanUnwind(r, w) => Carried(r, R!Unwound(r, w))
    BY DEF R!CanUnwind, R!Unwound, R!Moved, Carried, R!Runners, R!Stages, Sound
<1>6. ASSUME NEW how \in {"succeeded", "raised"}
      PROVE  R!CanReturn(r, w) => Carried(r, R!Returned(r, w, how))
    BY DEF R!CanReturn, R!Returned, R!Moved, Carried, R!Runners, R!Stages, Sound
<1>7. Carried(r, R!Notified(r, w))
    BY DEF R!Notified, Carried, R!Runners, R!Stages, Sound
<1>. QED
    BY <1>1, <1>2, <1>3, <1>4, <1>5, <1>6, <1>7

LEMMA SettledIsSound ==
    ASSUME NEW r \in R!Runners, Sound(r), NEW w \in WorkIds
    PROVE  LET q == R!Settled(r, w)
           IN  R!CanSettle(r, w) => q \in R!Runners /\ Sound(q) /\ q.pending = r.pending \ {w}
BY DEF R!CanSettle, R!Settled, R!Moved, R!Runners, R!Stages, Sound

\* A handler, and the ids it lets go.
LEMMA TidiedGoesOn ==
    ASSUME NEW s, NEW q, NEW T, Onward(s, q, T)
    PROVE  Onward(s, Tidy(q), T)
<1>1. Onward(q, Tidy(q), {})
    BY TidyGoesOn DEF Onward
<1>2. Onward(s, Tidy(q), T \cup {})
    BY <1>1, OneAfterTheOther
<1>. QED
    BY <1>2

\* A change of the runner alone.
LEMMA RunnerAloneGoesOn ==
    ASSUME NEW s, Sane(s), NEW r, Carried(s.runner, r)
    PROVE  Onward(s, [s EXCEPT !.runner = r], {})
<1>. DEFINE q == [s EXCEPT !.runner = r]
<1>1. /\ q \in Services /\ q.slots = s.slots /\ q.tasks = s.tasks /\ q.known = s.known
      /\ q.waiting = s.waiting /\ q.running = s.running /\ q.workOf = s.workOf
      /\ q.seeding = s.seeding /\ q.isSeeding = s.isSeeding /\ q.after = s.after
      /\ q.inbox = s.inbox /\ q.runner = r
    BY DEF Sane, Services, Carried
<1>2. \A w : InInbox(s, w, {"done", "failed"}) => InInbox(q, w, {"done", "failed"})
    BY <1>1 DEF InInbox
<1>. HIDE DEF q
<1>3. Onward(s, q, {})
    BY <1>1, <1>2, CarriedGoesOn
<1>. QED
    BY <1>3 DEF q

\* The callbacks that may be posted.
Calls == [work : WorkIds, kind : {"done", "failed", "finished"}]

LEMMA Posting ==
    ASSUME NEW inbox \in Seq(Calls), NEW c \in Calls
    PROVE  LET q == Append(inbox, c)
           IN  /\ q \in Seq(Calls) /\ \A i \in 1..Len(inbox) : i \in 1..Len(q) /\ q[i] = inbox[i]
               /\ Len(inbox) + 1 \in 1..Len(q) /\ q[Len(inbox) + 1] = c
<1>. DEFINE q == Append(inbox, c)
<1>1. /\ q \in Seq(Calls) /\ Len(q) = Len(inbox) + 1 /\ q[Len(inbox) + 1] = c
      /\ \A i \in 1..Len(inbox) : q[i] = inbox[i]
    OBVIOUS
<1>2. Len(inbox) \in Nat
    OBVIOUS
<1>. HIDE DEF q
<1>. QED
    BY <1>1, <1>2 DEF q

\* The answer to a work is posted before its entry goes.
LEMMA SettledGoesOn ==
    ASSUME NEW s, Sane(s), NEW w \in WorkIds, R!CanSettle(s.runner, w),
           NEW how \in {"succeeded", "raised"}
    PROVE  Onward(s, Settled(s, w, how), {})
<1>. DEFINE q == Settled(s, w, how)
            r == R!Settled(s.runner, w)
            c == [work |-> w, kind |-> IF how = "succeeded" THEN "done" ELSE "failed"]
            inbox == IF R!Answers(s.runner, w) THEN Append(s.inbox, c) ELSE s.inbox
<1>1. s \in Services /\ s.runner \in R!Runners /\ Sound(s.runner)
    BY DEF Sane, Services
<1>2. q = [s EXCEPT !.runner = r, !.inbox = inbox]
    BY <1>1 DEF Settled, Services
<1>3. r \in R!Runners /\ Sound(r) /\ r.pending = s.runner.pending \ {w}
    BY <1>1, SettledIsSound
<1>. HIDE DEF r
<1>4. /\ inbox \in Seq(Calls)
      /\ \A i \in 1..Len(s.inbox) : i \in 1..Len(inbox) /\ inbox[i] = s.inbox[i]
      /\ w \in s.runner.pending => Len(s.inbox) + 1 \in 1..Len(inbox) /\ inbox[Len(s.inbox) + 1] = c
    <2>1. c \in Calls /\ s.inbox \in Seq(Calls)
        BY <1>1 DEF Services, Calls
    <2>. HIDE DEF c
    <2>2. CASE w \in s.runner.pending
        BY <2>1, <2>2, Posting DEF R!Answers
    <2>3. CASE w \notin s.runner.pending
        BY <2>1, <2>3 DEF R!Answers
    <2>. QED
        BY <2>2, <2>3
<1>. HIDE DEF inbox, q
<1>5. /\ q \in Services /\ q.slots = s.slots /\ q.tasks = s.tasks /\ q.known = s.known
      /\ q.waiting = s.waiting /\ q.running = s.running /\ q.workOf = s.workOf
      /\ q.seeding = s.seeding /\ q.isSeeding = s.isSeeding /\ q.after = s.after
      /\ q.inbox = inbox /\ q.runner = r
    BY <1>1, <1>2, <1>3, <1>4 DEF Services, Calls
<1>6. ASSUME NEW v \in WorkIds, Lives(s, v) PROVE Lives(q, v)
    <2>1. CASE InInbox(s, v, {"done", "failed"})
        BY <1>4, <1>5, <2>1 DEF Lives, InInbox
    <2>2. CASE v \in s.runner.pending /\ v # w
        BY <1>3, <1>5, <2>2 DEF Lives
    <2>3. CASE v \in s.runner.pending /\ v = w
        BY <1>4, <1>5, <2>3 DEF Lives, InInbox
    <2>. QED
        BY <1>6, <2>1, <2>2, <2>3 DEF Lives
<1>7. Looped(s, q)
    BY <1>3, <1>5, <1>6 DEF Looped
<1>. QED
    BY <1>7, LoopedGoesOn DEF q

LEMMA ReturnsGoesOn ==
    ASSUME Sane(svc), NEW w \in WorkIds, NEW how \in {"succeeded", "raised"}, Returns(w, how)
    PROVE  Onward(svc, svc', {})
<1>. DEFINE s == svc
            r == R!Returned(s.runner, w, how)
            over == [s EXCEPT
               !.runner = r,
               !.stepping = @ \ {w},
               !.status[TaskOf(w)] = IF w \notin s.stepping THEN @
                                     ELSE IF how = "succeeded" THEN "completed" ELSE "failed"]
            status == [s.status EXCEPT ![TaskOf(w)] =
                          IF w \notin s.stepping THEN s.status[TaskOf(w)]
                          ELSE IF how = "succeeded" THEN "completed" ELSE "failed"]
<1>1. s \in Services /\ s.runner \in R!Runners /\ Sound(s.runner) /\ TaskOf(w) \in Task
    BY WorkIdFacts DEF Sane, Services
<1>2. R!CanReturn(s.runner, w) /\ s' = Tidy(IF SameThread THEN Settled(over, w, how) ELSE over)
    BY DEF Returns
<1>3. over = [s EXCEPT !.runner = r, !.stepping = s.stepping \ {w}, !.status = status]
    BY <1>1 DEF Services
<1>4. status \in [Task -> Status]
    BY <1>1 DEF Services, Status
<1>5. Carried(s.runner, r)
    BY <1>1, <1>2, RunnerGoesOn
<1>6. r.stage[w] = how
    BY <1>1 DEF R!Returned, R!Moved, R!Runners
<1>. HIDE DEF r, over, status
<1>7. /\ over \in Services /\ over.slots = s.slots /\ over.tasks = s.tasks /\ over.known = s.known
      /\ over.waiting = s.waiting /\ over.running = s.running /\ over.workOf = s.workOf
      /\ over.seeding = s.seeding /\ over.isSeeding = s.isSeeding /\ over.after = s.after
      /\ over.inbox = s.inbox /\ over.runner = r
    BY <1>1, <1>3, <1>4, <1>5 DEF Services, Carried
<1>8. Onward(s, over, {})
    BY <1>5, <1>7, CarriedGoesOn DEF InInbox
<1>9. Onward(over, Settled(over, w, how), {})
    <2>1. R!CanSettle(over.runner, w)
        BY <1>6, <1>7 DEF R!CanSettle
    <2>2. Sane(over)
        BY <1>8 DEF Onward
    <2>. QED
        BY <2>1, <2>2, SettledGoesOn
<1>10. Onward(s, Settled(over, w, how), {} \cup {})
    BY <1>8, <1>9, OneAfterTheOther
<1>11. Onward(s, Tidy(over), {}) /\ Onward(s, Tidy(Settled(over, w, how)), {})
    BY <1>8, <1>10, TidiedGoesOn
<1>. QED
    BY <1>2, <1>11

LEMMA BeginsGoesOn ==
    ASSUME Sane(svc), NEW w \in WorkIds, Begins(w)
    PROVE  Onward(svc, svc', {})
<1>. DEFINE s == svc
            r == R!Begun(s.runner, w)
            stepping == IF IsRun(w) /\ s.status[TaskOf(w)] = "running"
                        THEN s.stepping \cup {w} ELSE s.stepping
            q == [s EXCEPT !.runner = r, !.stepping = stepping]
<1>1. s \in Services /\ s.runner \in R!Runners /\ Sound(s.runner)
    BY DEF Sane, Services
<1>2. R!CanBegin(s.runner, w) /\ s' = q
    BY <1>1 DEF Begins, Services
<1>3. stepping \in SUBSET WorkIds
    BY <1>1 DEF Services
<1>4. Carried(s.runner, r)
    BY <1>1, <1>2, RunnerGoesOn
<1>. HIDE DEF r, stepping
<1>5. /\ q \in Services /\ q.slots = s.slots /\ q.tasks = s.tasks /\ q.known = s.known
      /\ q.waiting = s.waiting /\ q.running = s.running /\ q.workOf = s.workOf
      /\ q.seeding = s.seeding /\ q.isSeeding = s.isSeeding /\ q.after = s.after
      /\ q.inbox = s.inbox /\ q.runner = r
    BY <1>1, <1>3, <1>4 DEF Services, Carried
<1>. HIDE DEF q
<1>6. Onward(s, q, {})
    BY <1>4, <1>5, CarriedGoesOn DEF InInbox
<1>. QED
    BY <1>2, <1>6

LEMMA UnwindsGoesOn ==
    ASSUME Sane(svc), NEW w \in WorkIds, NEW marksPaused \in BOOLEAN, Unwinds(w, marksPaused)
    PROVE  Onward(svc, svc', {})
<1>. DEFINE s == svc
            r == R!Unwound(s.runner, w)
            status == [s.status EXCEPT ![TaskOf(w)] = IF marksPaused THEN "paused"
                                                      ELSE s.status[TaskOf(w)]]
            q == [s EXCEPT !.runner = r, !.stepping = s.stepping \ {w}, !.status = status]
<1>1. s \in Services /\ s.runner \in R!Runners /\ Sound(s.runner) /\ TaskOf(w) \in Task
    BY WorkIdFacts DEF Sane, Services
<1>2. R!CanUnwind(s.runner, w) /\ s' = Tidy(q)
    BY <1>1 DEF Unwinds, Services
<1>3. status \in [Task -> Status]
    BY <1>1 DEF Services, Status
<1>4. Carried(s.runner, r)
    BY <1>1, <1>2, RunnerGoesOn
<1>. HIDE DEF r, status
<1>5. /\ q \in Services /\ q.slots = s.slots /\ q.tasks = s.tasks /\ q.known = s.known
      /\ q.waiting = s.waiting /\ q.running = s.running /\ q.workOf = s.workOf
      /\ q.seeding = s.seeding /\ q.isSeeding = s.isSeeding /\ q.after = s.after
      /\ q.inbox = s.inbox /\ q.runner = r
    BY <1>1, <1>3, <1>4 DEF Services, Carried
<1>. HIDE DEF q
<1>6. Onward(s, q, {})
    BY <1>4, <1>5, CarriedGoesOn DEF InInbox
<1>. QED
    BY <1>2, <1>6, TidiedGoesOn

LEMMA NotifiesGoesOn ==
    ASSUME Sane(svc), NEW w \in WorkIds, Notifies(w)
    PROVE  Onward(svc, svc', {})
<1>. DEFINE s == svc
            r == R!Notified(s.runner, w)
            c == [work |-> w, kind |-> "finished"]
            inbox == Append(s.inbox, c)
            q == [s EXCEPT !.runner = r, !.inbox = inbox]
<1>1. /\ s \in Services /\ s.runner \in R!Runners /\ Sound(s.runner)
      /\ s.inbox \in Seq(Calls) /\ c \in Calls
    BY DEF Sane, Services, Calls
<1>2. s' = q
    BY <1>1 DEF Notifies, Services
<1>3. inbox \in Seq(Calls) /\ \A i \in 1..Len(s.inbox) : i \in 1..Len(inbox) /\ inbox[i] = s.inbox[i]
    BY <1>1, Posting
<1>4. Carried(s.runner, r)
    BY <1>1, RunnerGoesOn
<1>. HIDE DEF r, inbox
<1>5. /\ q \in Services /\ q.slots = s.slots /\ q.tasks = s.tasks /\ q.known = s.known
      /\ q.waiting = s.waiting /\ q.running = s.running /\ q.workOf = s.workOf
      /\ q.seeding = s.seeding /\ q.isSeeding = s.isSeeding /\ q.after = s.after
      /\ q.inbox = inbox /\ q.runner = r
    BY <1>1, <1>3, <1>4 DEF Services, Carried, Calls
<1>. HIDE DEF q
<1>6. \A v : InInbox(s, v, {"done", "failed"}) => InInbox(q, v, {"done", "failed"})
    BY <1>3, <1>5 DEF InInbox
<1>7. Onward(s, q, {})
    BY <1>4, <1>5, <1>6, CarriedGoesOn
<1>. QED
    BY <1>2, <1>7

\* The loop stirs no task.
LEMMA LoopGoesOn ==
    ASSUME Sane(svc), NEW w \in WorkIds, LoopStep(w) \/ BodyReturns(w)
    PROVE  Onward(svc, svc', {}) /\ UNCHANGED held
<1>1. svc.runner \in R!Runners /\ Sound(svc.runner)
    BY DEF Sane, Services
<1>2. ASSUME Schedules(w) PROVE Onward(svc, svc', {})
    BY <1>1, <1>2, RunnerGoesOn, RunnerAloneGoesOn, TidiedGoesOn DEF Schedules
<1>3. ASSUME Creates(w) PROVE Onward(svc, svc', {})
    BY <1>1, <1>3, RunnerGoesOn, RunnerAloneGoesOn DEF Creates
<1>4. ASSUME Throws(w) PROVE Onward(svc, svc', {})
    BY <1>1, <1>4, RunnerGoesOn, RunnerAloneGoesOn, TidiedGoesOn DEF Throws
<1>5. ASSUME Settles(w) PROVE Onward(svc, svc', {})
    <2>1. svc.runner.stage[w] \in {"succeeded", "raised"}
        BY <1>5 DEF Settles, R!CanSettle
    <2>2. Onward(svc, Settled(svc, w, svc.runner.stage[w]), {})
        BY <1>5, <2>1, SettledGoesOn DEF Settles
    <2>. QED
        BY <1>5, <2>2, TidiedGoesOn DEF Settles
<1>. QED
    BY <1>2, <1>3, <1>4, <1>5, BeginsGoesOn, UnwindsGoesOn, NotifiesGoesOn, ReturnsGoesOn
       DEF LoopStep, BodyReturns

-----------------------------------------------------------------------------
(* Callbacks.                                                              *)

LEMMA Delivering ==
    ASSUME NEW s \in Services, s.inbox # <<>>
    PROVE  LET c == Head(s.inbox)
           IN  /\ c.work \in WorkIds /\ c.kind \in {"done", "failed", "finished"}
               /\ Tail(s.inbox) \in Seq(Calls)
               /\ \A q, v : /\ q.runner = s.runner /\ q.inbox = Tail(s.inbox)
                            /\ Lives(s, v) /\ (c.kind = "finished" \/ v # c.work)
                            => Lives(q, v)
<1>. DEFINE c == Head(s.inbox)
            rest == Tail(s.inbox)
<1>1. s.inbox \in Seq(Calls)
    BY DEF Services, Calls
<1>2. /\ c \in Calls /\ c = s.inbox[1] /\ rest \in Seq(Calls) /\ Len(rest) = Len(s.inbox) - 1
      /\ Len(s.inbox) \in Nat
      /\ \A i \in 1..Len(rest) : rest[i] = s.inbox[i + 1]
    BY <1>1
<1>. HIDE DEF c, rest
<1>3. ASSUME NEW q, NEW v, q.runner = s.runner, q.inbox = rest, Lives(s, v),
             c.kind = "finished" \/ v # c.work
      PROVE  Lives(q, v)
    <2>1. CASE v \in s.runner.pending
        BY <1>3, <2>1 DEF Lives
    <2>2. CASE InInbox(s, v, {"done", "failed"})
        <3>1. PICK i \in 1..Len(s.inbox) : /\ s.inbox[i].work = v
                                           /\ s.inbox[i].kind \in {"done", "failed"}
            BY <2>2 DEF InInbox
        <3>2. i # 1
            BY <1>2, <1>3, <3>1
        <3>3. i - 1 \in 1..Len(rest) /\ (i - 1) + 1 = i
            BY <1>2, <3>1, <3>2
        <3>. QED
            BY <1>2, <1>3, <3>1, <3>3 DEF Lives, InInbox
    <2>. QED
        BY <1>3, <2>1, <2>2 DEF Lives
<1>. QED
    BY <1>2, <1>3 DEF c, rest, Calls

\* The callback that is delivered.
Call(s) == Head(s.inbox)
Popped(s) == [s EXCEPT !.inbox = Tail(s.inbox)]

\* A run is over: its callback has come, and its task does not count on it any more.
LEMMA RunOverGoesOn ==
    ASSUME NEW s, Sane(s), s.inbox # <<>>, NEW w, w = Call(s).work, IsRun(w)
    PROVE  LET q == RunOver(Popped(s), TaskOf(w))
           IN  Onward(s, q, {}) /\ q.runner = s.runner
<1>. DEFINE t == TaskOf(w)
            rest == Tail(s.inbox)
            running == Without(s.running, t)
            workOf == [s.workOf EXCEPT ![t] = None]
            q == RunOver(Popped(s), t)
<1>1. /\ s \in Services /\ Listed(s) /\ Owned(s) /\ Sound(s.runner)
      /\ s.running \in Seq(Task) /\ Distinct(s.running)
    BY DEF Sane, Services, Listed
<1>2. /\ w \in WorkIds /\ t \in Task /\ rest \in Seq(Calls)
      /\ \A p, v : p.runner = s.runner /\ p.inbox = rest /\ Lives(s, v) /\ v # w => Lives(p, v)
    BY <1>1, Delivering, WorkIdFacts DEF Call
<1>3. Rest(running, s.running, t)
    BY <1>1, <1>2, WithoutIsRest
<1>4. workOf \in [Task -> WorkIds \cup {None}] /\ running \in Seq(Task)
    BY <1>1, <1>3 DEF Services, Rest
<1>5. q = [s EXCEPT !.inbox = rest, !.running = running, !.workOf = workOf]
    BY <1>1 DEF RunOver, Popped, Services
<1>6. \A u \in Task : workOf[u] = IF u = t THEN None ELSE s.workOf[u]
    BY <1>1, <1>2 DEF Services
<1>. HIDE DEF rest, running, workOf, q
<1>7. /\ q \in Services /\ q.slots = s.slots /\ q.tasks = s.tasks /\ q.known = s.known
      /\ q.waiting = s.waiting /\ q.running = running /\ q.workOf = workOf
      /\ q.seeding = s.seeding /\ q.isSeeding = s.isSeeding /\ q.after = s.after
      /\ q.inbox = rest /\ q.runner = s.runner
    BY <1>1, <1>2, <1>4, <1>5 DEF Services, Calls
<1>8. \A u \in Task : /\ IsRunning(q, u) <=> IsRunning(s, u) /\ u # t
                      /\ IsWaiting(q, u) <=> IsWaiting(s, u)
                      /\ IsRestarting(q, u) <=> IsRestarting(s, u)
    BY <1>3, <1>7 DEF Rest, IsRunning, IsWaiting, IsRestarting
<1>9. Listed(q)
    BY <1>1, <1>3, <1>6, <1>7, <1>8 DEF Listed, Rest
<1>10. \A v : Lives(s, v) /\ v # w => Lives(q, v)
    BY <1>2, <1>7
<1>11. Owned(q)
    <2>. SUFFICES ASSUME NEW u \in Task
                  PROVE  /\ q.workOf[u] # None => /\ TaskOf(q.workOf[u]) = u /\ IsRun(q.workOf[u])
                                                  /\ Lives(q, q.workOf[u])
                         /\ q.seeding[u] # None => TaskOf(q.seeding[u]) = u /\ ~IsRun(q.seeding[u])
                         /\ q.isSeeding[u] => q.seeding[u] # None /\ Lives(q, q.seeding[u])
        BY DEF Owned
    <2>1. q.isSeeding[u] => q.seeding[u] # None /\ Lives(q, q.seeding[u])
        BY <1>1, <1>7, <1>10 DEF Owned
    <2>2. q.workOf[u] # None => /\ TaskOf(q.workOf[u]) = u /\ IsRun(q.workOf[u])
                                /\ Lives(q, q.workOf[u])
        BY <1>1, <1>6, <1>7, <1>10 DEF Owned
    <2>. QED
        BY <1>1, <1>7, <2>1, <2>2 DEF Owned
<1>12. Slotted(s) => Slotted(q)
    BY <1>1, <1>3, <1>7, RestIsSlotted
<1>. QED
    BY <1>1, <1>7, <1>8, <1>9, <1>11, <1>12 DEF Onward, Stored, Sane, Quiet, q

LEMMA SeedingEndedGoesOn ==
    ASSUME NEW s, Sane(s), s.inbox # <<>>, NEW w, w = Call(s).work, ~IsRun(w), NEW kind
    PROVE  Onward(s, SeedingEnded(Popped(s), TaskOf(w), kind), {})
<1>. DEFINE t == TaskOf(w)
            rest == Tail(s.inbox)
            shouldSeed == [s.shouldSeed EXCEPT ![t] = IF kind = "done" THEN FALSE
                                                      ELSE s.shouldSeed[t]]
            seeding == [s.seeding EXCEPT ![t] = None]
            isSeeding == [s.isSeeding EXCEPT ![t] = FALSE]
            q == SeedingEnded(Popped(s), t, kind)
<1>1. s \in Services /\ Listed(s) /\ Owned(s) /\ Sound(s.runner)
    BY DEF Sane
<1>2. /\ w \in WorkIds /\ t \in Task /\ rest \in Seq(Calls)
      /\ \A p, v : p.runner = s.runner /\ p.inbox = rest /\ Lives(s, v) /\ v # w => Lives(p, v)
    BY <1>1, Delivering, WorkIdFacts DEF Call
<1>3. /\ seeding \in [Task -> WorkIds \cup {None}] /\ isSeeding \in [Task -> BOOLEAN]
      /\ shouldSeed \in [Task -> BOOLEAN]
    BY <1>1 DEF Services
<1>4. q = [s EXCEPT !.inbox = rest, !.shouldSeed = shouldSeed, !.seeding = seeding,
                    !.isSeeding = isSeeding]
    BY <1>1 DEF SeedingEnded, Popped, Services
<1>5. \A u \in Task : /\ seeding[u] = IF u = t THEN None ELSE s.seeding[u]
                      /\ isSeeding[u] = IF u = t THEN FALSE ELSE s.isSeeding[u]
    BY <1>1, <1>2 DEF Services
<1>. HIDE DEF rest, shouldSeed, seeding, isSeeding, q
<1>6. /\ q \in Services /\ q.slots = s.slots /\ q.tasks = s.tasks /\ q.known = s.known
      /\ q.waiting = s.waiting /\ q.running = s.running /\ q.workOf = s.workOf
      /\ q.seeding = seeding /\ q.isSeeding = isSeeding /\ q.after = s.after
      /\ q.inbox = rest /\ q.runner = s.runner
    BY <1>1, <1>2, <1>3, <1>4 DEF Services, Calls
<1>7. \A u \in Task : /\ IsRunning(q, u) <=> IsRunning(s, u)
                      /\ IsWaiting(q, u) <=> IsWaiting(s, u)
                      /\ IsRestarting(q, u) <=> IsRestarting(s, u)
    BY <1>6 DEF IsRunning, IsWaiting, IsRestarting
<1>8. Listed(q)
    BY <1>1, <1>6, <1>7 DEF Listed
<1>9. \A v : Lives(s, v) /\ v # w => Lives(q, v)
    BY <1>2, <1>6
<1>10. Owned(q)
    <2>. SUFFICES ASSUME NEW u \in Task
                  PROVE  /\ q.workOf[u] # None => /\ TaskOf(q.workOf[u]) = u /\ IsRun(q.workOf[u])
                                                  /\ Lives(q, q.workOf[u])
                         /\ q.seeding[u] # None => TaskOf(q.seeding[u]) = u /\ ~IsRun(q.seeding[u])
                         /\ q.isSeeding[u] => q.seeding[u] # None /\ Lives(q, q.seeding[u])
        BY DEF Owned
    <2>1. q.workOf[u] # None => /\ TaskOf(q.workOf[u]) = u /\ IsRun(q.workOf[u])
                                /\ Lives(q, q.workOf[u])
        BY <1>1, <1>6, <1>9 DEF Owned
    <2>2. q.isSeeding[u] => q.seeding[u] # None /\ Lives(q, q.seeding[u])
        <3>1. CASE u = t
            BY <1>5, <1>6, <3>1
        <3>2. CASE u # t
            BY <1>1, <1>5, <1>6, <1>9, <3>2 DEF Owned
        <3>. QED
            BY <3>1, <3>2
    <2>3. q.seeding[u] # None => TaskOf(q.seeding[u]) = u /\ ~IsRun(q.seeding[u])
        BY <1>1, <1>5, <1>6 DEF Owned
    <2>. QED
        BY <2>1, <2>2, <2>3
<1>11. Slotted(s) => Slotted(q)
    BY <1>6 DEF Slotted
<1>. QED
    BY <1>1, <1>6, <1>7, <1>8, <1>10, <1>11 DEF Onward, Stored, Sane, Quiet, q

LEMMA RunDoneGoesOn ==
    ASSUME NEW s, Sane(s), HasIds(s), s.inbox # <<>>, NEW w, w = Call(s).work, IsRun(w)
    PROVE  /\ Onward(s, RunDone(Popped(s), TaskOf(w)), {}) /\ Full(RunDone(Popped(s), TaskOf(w)))
           /\ RunDone(Popped(s), TaskOf(w)).after = s.after
<1>. DEFINE t == TaskOf(w)
            o == Popped(s)
            p == RunOver(o, t)
            free == [p EXCEPT !.watched = o.watched \cup ({t} \cap Filed)]
            q == IF o.status[t] = "completed" /\ t \in Seedable /\ o.shouldSeed[t]
                 THEN Seed(free, t) ELSE free
<1>1. RunDone(o, t) = Pump(q)
    BY DEF RunDone
<1>2. /\ Onward(s, p, {}) /\ p.runner = s.runner /\ p.after = s.after
      /\ Sane(p) /\ HasIds(p)
    <2>1. Onward(s, p, {}) /\ p.runner = s.runner
        BY RunOverGoesOn
    <2>2. p.after = s.after
        BY DEF RunOver, Popped, Sane, Services
    <2>. QED
        BY <2>1, <2>2, SameRunnerSameIds DEF Onward
<1>3. o.watched \subseteq Task /\ Filed \subseteq Task
    BY ServiceAssumption DEF Popped, Sane, Services
<1>. HIDE DEF o, p
<1>4. free \in Services /\ Alike(p, free)
    BY <1>2, <1>3 DEF Sane, Services, Alike
<1>. HIDE DEF free
<1>5. Onward(p, free, {}) /\ Sane(free) /\ HasIds(free)
    BY <1>2, <1>4, AlikeGoesOn DEF Onward
<1>6. Onward(free, q, {}) /\ Spare(q) /\ q.after = free.after
    <2>1. CASE q = free
        BY <1>5, <2>1, StayingGoesOn, SameRunnerSameIds
    <2>2. CASE q = Seed(free, t) /\ t \in Seedable
        <3>1. Unborn(free, t, "seed") # {} /\ Spare(free)
            BY <1>5, <2>2, WorkIdFacts, SameRunnerSameIds DEF HasIds
        <3>2. /\ Onward(free, q, {}) /\ q.waiting = free.waiting /\ q.after = free.after
              /\ \A u \in Task : Unborn(q, u, "run") = Unborn(free, u, "run")
            BY <1>5, <2>2, <3>1, SeedGoesOn
        <3>. QED
            BY <3>1, <3>2 DEF Spare, IsWaiting
    <2>. QED
        BY <2>1, <2>2
<1>. HIDE DEF q
<1>7. Onward(q, Pump(q), {}) /\ Full(Pump(q)) /\ Pump(q).after = q.after
    BY <1>6, PumpGoesOn DEF Onward
<1>8. Onward(p, Pump(q), {} \cup ({} \cup {}))
    BY <1>5, <1>6, <1>7, OneAfterTheOther
<1>9. Onward(s, Pump(q), {} \cup ({} \cup ({} \cup {})))
    BY <1>2, <1>8, OneAfterTheOther
<1>. QED
    BY <1>1, <1>2, <1>4, <1>6, <1>7, <1>9 DEF o, Alike

LEMMA RunFailedGoesOn ==
    ASSUME NEW s, Sane(s), HasIds(s), s.inbox # <<>>, NEW w, w = Call(s).work, IsRun(w)
    PROVE  /\ Onward(s, RunFailed(Popped(s), TaskOf(w)), {})
           /\ Full(RunFailed(Popped(s), TaskOf(w)))
           /\ RunFailed(Popped(s), TaskOf(w)).after = s.after
<1>. DEFINE p == RunOver(Popped(s), TaskOf(w))
<1>0. p.after = s.after
    BY DEF RunOver, Popped, Sane, Services
<1>1. Onward(s, p, {}) /\ p.runner = s.runner
    BY RunOverGoesOn
<1>2. Sane(p) /\ Spare(p)
    BY <1>1, SameRunnerSameIds DEF Onward
<1>3. Onward(p, Pump(p), {}) /\ Full(Pump(p)) /\ Pump(p).after = p.after
    BY <1>2, PumpGoesOn
<1>4. Onward(s, Pump(p), {} \cup {})
    BY <1>1, <1>3, OneAfterTheOther
<1>. QED
    BY <1>0, <1>3, <1>4 DEF RunFailed

\* What follows a stop is not to be done any more.
LEMMA RecalledGoesOn ==
    ASSUME NEW s, Sane(s), HasIds(s), s.inbox # <<>>, NEW w, w = Call(s).work,
           Call(s).kind = "finished"
    PROVE  LET p == [Popped(s) EXCEPT !.after[w] = "nothing"]
           IN  /\ Onward(s, p, {}) /\ Sane(p) /\ HasIds(p) /\ w \in WorkIds /\ TaskOf(w) \in Task
               /\ p.slots = s.slots /\ p.running = s.running /\ p.waiting = s.waiting
               /\ p.after = [s.after EXCEPT ![w] = "nothing"]
<1>. DEFINE t == TaskOf(w)
            o == Popped(s)
            p == [o EXCEPT !.after[w] = "nothing"]
<1>1. /\ w \in WorkIds /\ t \in Task /\ Tail(s.inbox) \in Seq(Calls)
      /\ \A x, v : x.runner = s.runner /\ x.inbox = Tail(s.inbox) /\ Lives(s, v) => Lives(x, v)
    BY Delivering, WorkIdFacts DEF Sane, Call
<1>2. /\ o \in Services /\ o.slots = s.slots /\ o.tasks = s.tasks /\ o.known = s.known
      /\ o.waiting = s.waiting /\ o.running = s.running /\ o.workOf = s.workOf
      /\ o.seeding = s.seeding /\ o.isSeeding = s.isSeeding /\ o.after = s.after
      /\ o.inbox = Tail(s.inbox) /\ o.runner = s.runner
    BY <1>1 DEF Sane, Services, Popped, Calls
<1>. HIDE DEF o
<1>3. Onward(s, o, {}) /\ Sane(o)
    <2>1. Looped(s, o)
        BY <1>1, <1>2 DEF Looped, Sane
    <2>. QED
        BY <2>1, LoopedGoesOn DEF Onward
<1>4. /\ Onward(o, p, {t}) /\ p.runner = o.runner /\ p.running = o.running /\ p.waiting = o.waiting
      /\ \A u \in Task : IsRestarting(p, u) => IsRestarting(o, u)
    BY <1>1, <1>3, RememberedGoesOn DEF Afters
<1>0. p.after = [s.after EXCEPT ![w] = "nothing"]
    BY <1>2 DEF Services
<1>. HIDE DEF p
<1>5. Onward(o, p, {})
    BY <1>4 DEF Onward, Quiet, IsRunning, IsWaiting
<1>6. Onward(s, p, {}) /\ Sane(p) /\ HasIds(p)
    <2>1. Onward(s, p, {} \cup {})
        BY <1>3, <1>5, OneAfterTheOther
    <2>. QED
        BY <1>2, <1>4, <2>1, SameRunnerSameIds DEF Onward
<1>. QED
    BY <1>0, <1>1, <1>2, <1>4, <1>6 DEF Onward, p, o

\* What follows a stop is called.  It restarts only a task that was to be restarted.
LEMMA FinishedGoesOn ==
    ASSUME NEW s, Sane(s), HasIds(s), s.inbox # <<>>, NEW w, w = Call(s).work,
           Call(s).kind = "finished"
    PROVE  Onward(s, After([Popped(s) EXCEPT !.after[w] = "nothing"], TaskOf(w), s.after[w]), {})
<1>. DEFINE t == TaskOf(w)
            o == Popped(s)
            p == [o EXCEPT !.after[w] = "nothing"]
            what == s.after[w]
            q == After(p, t, what)
<1>. SUFFICES Onward(s, q, {})
    OBVIOUS
<1>1. w \in WorkIds /\ t \in Task
    BY RecalledGoesOn
<1>6. Onward(s, p, {}) /\ Sane(p) /\ HasIds(p)
    BY RecalledGoesOn
<1>. HIDE DEF p
<1>7. what \in Afters
    BY <1>1 DEF Sane, Services
<1>8. CASE what \in {"nothing", "delete"}
    <2>1. q = p
        <3>. HIDE DEF what
        <3>. QED
            BY <1>8 DEF After
    <2>. HIDE DEF q
    <2>. QED
        BY <1>6, <2>1
<1>9. CASE what \notin {"nothing", "delete"}
    <2>1. Onward(p, q, {t})
        <3>. HIDE DEF what
        <3>. QED
            BY <1>1, <1>6, <1>7, AfterGoesOn
    <2>. HIDE DEF q
    <2>2. Onward(s, q, {} \cup {t})
        BY <1>6, <2>1, OneAfterTheOther
    <2>3. ~Quiet(s, t) /\ IsRestarting(s, t)
        BY <1>1, <1>9 DEF Quiet, IsRestarting
    <2>. QED
        BY <2>2, <2>3 DEF Onward
<1>. QED
    BY <1>8, <1>9

LEMMA DeliverGoesOn ==
    ASSUME Sane(svc), Deliver
    PROVE  Onward(svc, svc', {}) /\ UNCHANGED held
<1>. DEFINE s == svc
            c == Call(s)
            w == c.work
            q == Called(Popped(s), w, c.kind)
<1>1. s.inbox # <<>> /\ HasIds(s) /\ s' = Tidy(q) /\ UNCHANGED held
    BY DEF Deliver, Call, Popped
<1>2. w \in WorkIds /\ c.kind \in {"done", "failed", "finished"}
    BY <1>1, Delivering DEF Sane, Call
<1>3. Popped(s).after = s.after
    BY DEF Popped, Sane, Services
<1>4. Onward(s, q, {})
    <2>. HIDE DEF c
    <2>1. CASE c.kind = "finished"
        <3>1. q = After([Popped(s) EXCEPT !.after[w] = "nothing"], TaskOf(w), s.after[w])
            BY <1>3, <2>1 DEF Called
        <3>. HIDE DEF q
        <3>. QED
            BY <1>1, <2>1, <3>1, FinishedGoesOn DEF c
    <2>2. CASE c.kind = "done" /\ IsRun(w)
        <3>1. q = RunDone(Popped(s), TaskOf(w))
            BY <2>2 DEF Called
        <3>. HIDE DEF q
        <3>. QED
            BY <1>1, <2>2, <3>1, RunDoneGoesOn DEF c
    <2>3. CASE c.kind = "failed" /\ IsRun(w)
        <3>1. q = RunFailed(Popped(s), TaskOf(w))
            BY <2>3 DEF Called
        <3>. HIDE DEF q
        <3>. QED
            BY <1>1, <2>3, <3>1, RunFailedGoesOn DEF c
    <2>4. CASE c.kind # "finished" /\ ~IsRun(w)
        <3>1. q = SeedingEnded(Popped(s), TaskOf(w), c.kind)
            BY <2>4 DEF Called
        <3>. HIDE DEF q
        <3>. QED
            BY <1>1, <2>4, <3>1, SeedingEndedGoesOn DEF c
    <2>. QED
        BY <1>2, <2>1, <2>2, <2>3, <2>4
<1>. HIDE DEF q
<1>. QED
    BY <1>1, <1>4, TidiedGoesOn

-----------------------------------------------------------------------------
(* Commands.                                                               *)

\* What is to be shown of a command.
Keeps == Inv' /\ Stored(svc, svc')

LEMMA HandlerKeeps ==
    ASSUME Inv, NEW T, Onward(svc, svc', T), held' \subseteq svc.known,
           \A t \in held' : (t \in held /\ t \notin T) \/ Quiet(svc', t)
    PROVE  Keeps
<1>1. svc.known \subseteq Task
    BY DEF Inv, Sane, Services
<1>. QED
    BY <1>1 DEF Keeps, Inv, Onward

LEMMA StartKeeps ==
    ASSUME Inv, NEW t \in Task, Start(t)
    PROVE  Keeps
<1>1. Sane(svc) /\ HasIds(svc)
    BY DEF Inv, Start, Restart, Command, Asked
<1>2. Onward(svc, svc, {t}) /\ Onward(svc, Schedule(svc, t), {t})
    BY <1>1, StayingGoesOn, StirsNoMore, ScheduleGoesOn
<1>3. Onward(svc, svc', {t}) /\ held' = held \ {t}
    BY <1>2, TidiedGoesOn DEF Start
<1>. QED
    BY <1>3, HandlerKeeps DEF Inv

\* A work whose callbacks are to come and that the runner knows is active.
LEMMA PendingIsActive ==
    ASSUME Sound(svc.runner), NEW w \in WorkIds, w \in svc.runner.pending
    PROVE  IsActive(w)
BY DEF Sound, IsActive, R!MayRun, R!CanSettle

LEMMA NotAstrayIsSole ==
    ASSUME Sane(svc), NEW t \in Task, ~IsAstray(t)
    PROVE  Sole(svc, t)
<1>1. \A w \in svc.runner.pending : w \in WorkIds /\ IsActive(w)
    BY PendingIsActive DEF Sane, Services, R!Runners
<1>. QED
    BY <1>1 DEF Sole, IsAstray, ActiveRuns

LEMMA PauseKeeps ==
    ASSUME Inv, NEW t \in Task, Pause(t)
    PROVE  Keeps
<1>. DEFINE q == Paused(svc, t)
<1>1. Sane(svc) /\ Spare(svc) /\ t \in svc.known
    BY SameRunnerSameIds DEF Inv, Pause, Command, Asked, Sane, Listed
<1>2. Onward(svc, q, {}) /\ Peaceful(svc, q, t) /\ svc' = Tidy(q)
    BY <1>1, PausedGoesOn DEF Pause
<1>. HIDE DEF q
<1>3. Onward(svc, svc', {}) /\ Onward(q, svc', {})
    BY <1>2, TidiedGoesOn, TidyGoesOn DEF Onward
<1>4. ~IsRestarting(svc, t) /\ ~IsAstray(t) => Quiet(svc', t)
    BY <1>1, <1>2, <1>3, NotAstrayIsSole DEF Peaceful, Onward
<1>5. /\ IsRestarting(svc, t) \/ IsAstray(t) => held' = held
      /\ ~IsRestarting(svc, t) /\ ~IsAstray(t) => held' \subseteq held \cup {t}
    BY DEF Pause
<1>. QED
    BY <1>1, <1>3, <1>4, <1>5, HandlerKeeps DEF Inv

LEMMA DeleteKeeps ==
    ASSUME Inv, NEW t \in Task, Delete(t)
    PROVE  Keeps
<1>. DEFINE q == Deleted(svc, t)
<1>1. Sane(svc) /\ HasIds(svc) /\ svc' = Tidy(q) /\ held' = held
    BY DEF Inv, Delete, Command, Asked
<1>2. Onwards(svc, q)
    BY <1>1, DeletedGoesOn
<1>. HIDE DEF q
<1>3. Onward(q, svc', {})
    BY <1>1, <1>2, TidyGoesOn DEF Onwards
<1>. QED
    BY <1>1, <1>2, <1>3 DEF Keeps, Inv, Onward, Onwards, Stored, Sane, Services

\* A handler that cancels, after a change that only shows.
LEMMA CancelKeeps ==
    ASSUME Inv, NEW p \in Services, Alike(svc, p), HasIds(svc), NEW t \in Task,
           NEW what \in Afters, svc' = Tidy(CancelWork(p, t, what)), held' = held \ {t}
    PROVE  Keeps
<1>1. Onward(svc, p, {}) /\ Sane(p) /\ HasIds(p)
    BY AlikeGoesOn DEF Inv, Onward
<1>2. Onward(p, CancelWork(p, t, what), {t})
    BY <1>1, CancelWorkGoesOn
<1>3. Onward(svc, CancelWork(p, t, what), {} \cup {t})
    BY <1>1, <1>2, OneAfterTheOther
<1>4. Onward(svc, svc', {t})
    BY <1>3, TidiedGoesOn
<1>. QED
    BY <1>4, HandlerKeeps DEF Inv

LEMMA RestartsKeep ==
    ASSUME Inv, NEW t \in Task, Redownload(t) \/ Edit(t) \/ Revive(t)
    PROVE  Keeps
<1>. USE DEF Restart, Command, Asked, Afters
<1>1. Sane(svc) /\ svc \in Services
    BY DEF Inv, Sane
<1>2. ASSUME Redownload(t) PROVE Keeps
    <2>1. Alike(svc, Unwatch(svc, t)) /\ Unwatch(svc, t) \in Services
        BY <1>1, ShowingGoesOn DEF Status
    <2>. QED
        BY <1>2, <2>1, CancelKeeps DEF Redownload
<1>3. ASSUME Edit(t) PROVE Keeps
    <2>1. Alike(svc, svc)
        BY DEF Alike
    <2>. QED
        BY <1>1, <1>3, <2>1, CancelKeeps DEF Edit
<1>4. ASSUME Revive(t) PROVE Keeps
    <2>. DEFINE a == [svc EXCEPT !.status[t] = "waiting"]
                p == Unwatch(a, t)
    <2>1. Alike(svc, a) /\ a \in Services
        BY <1>1, ShowingGoesOn DEF Status
    <2>2. HasIds(svc) /\ svc' = Tidy(CancelWork(p, t, "revive")) /\ held' = held \ {t}
        BY <1>4 DEF Revive
    <2>. HIDE DEF a
    <2>3. Sane(a)
        BY <1>1, <2>1, AlikeGoesOn DEF Onward
    <2>4. Alike(a, p) /\ p \in Services
        BY <2>3, ShowingGoesOn DEF Status
    <2>. HIDE DEF p
    <2>5. Alike(svc, p)
        BY <2>1, <2>4 DEF Alike
    <2>. QED
        BY <2>2, <2>4, <2>5, CancelKeeps
<1>. QED
    BY <1>2, <1>3, <1>4

LEMMA StartAllKeeps ==
    ASSUME Inv, StartAll
    PROVE  Keeps
<1>. DEFINE T == {t \in svc.tasks : svc.status[t] \in {"paused", "waiting", "failed"}}
<1>1. /\ Sane(svc) /\ HasIds(svc) /\ T \subseteq Task
      /\ svc' = Tidy(ScheduledAll(svc, T)) /\ held' = held \ T
    BY DEF Inv, StartAll, Asked, Sane, Services
<1>. HIDE DEF T
<1>2. Onward(svc, svc', T)
    BY <1>1, ScheduledAllGoesOn, TidiedGoesOn
<1>. QED
    BY <1>1, <1>2, HandlerKeeps DEF Inv

LEMMA PauseAllKeeps ==
    ASSUME Inv, PauseAll
    PROVE  Keeps
<1>. DEFINE q == PausedAll(svc)
<1>1. Sane(svc) /\ HasIds(svc) /\ svc' = Tidy(q) /\ svc.tasks \subseteq svc.known
    BY DEF Inv, PauseAll, Asked, Sane, Listed
<1>2. /\ Onward(svc, q, {})
      /\ \A t \in svc.tasks : ~IsRestarting(svc, t) /\ Single(svc, t) => Quiet(q, t)
    BY <1>1, PausedAllGoesOn
<1>3. held' \subseteq held \cup {t \in svc.tasks : ~IsRestarting(svc, t) /\ Single(svc, t)}
    <2>1. svc.tasks \subseteq Task
        BY <1>1 DEF Sane, Services
    <2>2. \A t \in svc.tasks : ~IsAstray(t) => Sole(svc, t)
        BY <1>1, <2>1, NotAstrayIsSole
    <2>. QED
        BY <2>2 DEF PauseAll, Single
<1>. HIDE DEF q
<1>4. Onward(svc, svc', {}) /\ Onward(q, svc', {})
    BY <1>1, <1>2, TidiedGoesOn, TidyGoesOn DEF Onward
<1>5. \A t \in svc.tasks : ~IsRestarting(svc, t) /\ Single(svc, t) => Quiet(svc', t)
    BY <1>2, <1>4 DEF Onward, Sane, Services, Inv
<1>. QED
    BY <1>1, <1>3, <1>4, <1>5, HandlerKeeps DEF Inv

LEMMA SeedingKeeps ==
    ASSUME Inv, NEW t \in Task, StartSeeding(t) \/ StopSeeding(t)
    PROVE  Keeps
<1>. USE DEF Restart, Command, Asked
<1>1. Sane(svc)
    BY DEF Inv
<1>2. ASSUME StartSeeding(t) PROVE Keeps
    <2>. DEFINE p == [svc EXCEPT !.shouldSeed[t] = TRUE]
    <2>1. t \in Seedable /\ HasIds(svc) /\ svc' = Tidy(Seed(p, t)) /\ held' = held
        BY <1>2 DEF StartSeeding
    <2>2. Alike(svc, p) /\ p \in Services
        BY <1>1, ShowingGoesOn DEF Status
    <2>. HIDE DEF p
    <2>3. Onward(svc, p, {}) /\ Sane(p) /\ HasIds(p)
        BY <1>1, <2>1, <2>2, AlikeGoesOn DEF Onward
    <2>4. Onward(p, Seed(p, t), {})
        BY <2>1, <2>3, SeedGoesOn DEF HasIds
    <2>5. Onward(svc, Seed(p, t), {} \cup {})
        BY <2>3, <2>4, OneAfterTheOther
    <2>6. Onward(svc, svc', {})
        BY <2>1, <2>5, TidiedGoesOn
    <2>. QED
        BY <2>1, <2>6, HandlerKeeps DEF Inv
<1>3. ASSUME StopSeeding(t) PROVE Keeps
    <2>. DEFINE p == [svc EXCEPT !.shouldSeed[t] = FALSE]
                q == CancelWork(p, t, "nothing")
    <2>1. svc' = Tidy(q) /\ held' = held
        BY <1>3 DEF StopSeeding
    <2>2. Alike(svc, p) /\ p \in Services
        BY <1>1, ShowingGoesOn DEF Status
    <2>. HIDE DEF p
    <2>3. Onward(svc, p, {}) /\ Sane(p)
        BY <1>1, <2>2, AlikeGoesOn DEF Onward
    <2>4. Onward(p, q, {})
        BY <2>3, CancelWorkClears DEF IsCleared
    <2>. HIDE DEF q
    <2>5. Onward(svc, q, {} \cup {})
        BY <2>3, <2>4, OneAfterTheOther
    <2>6. Onward(svc, svc', {})
        BY <2>1, <2>5, TidiedGoesOn
    <2>. QED
        BY <2>1, <2>6, HandlerKeeps DEF Inv
<1>. QED
    BY <1>2, <1>3

\* A lower limit stirs only what held a slot.
LEMMA SetMaxTaskNumKeeps ==
    ASSUME Inv, NEW n \in 1..MaxSlots, SetMaxTaskNum(n)
    PROVE  Keeps /\ Full(svc') /\ Less(svc, svc')
<1>. DEFINE p == [svc EXCEPT !.slots = n]
            q == Rebalanced(p)
            r == Pump(q)
            T == {t \in Task : IsRunning(p, t)}
<1>1. /\ svc \in Services /\ Listed(svc) /\ Owned(svc) /\ Sound(svc.runner)
      /\ HasIds(svc) /\ svc' = Tidy(r) /\ held' = held
    BY DEF Inv, SetMaxTaskNum, Asked, Sane
<1>2. /\ p \in Services /\ p.tasks = svc.tasks /\ p.known = svc.known
      /\ p.waiting = svc.waiting /\ p.running = svc.running /\ p.workOf = svc.workOf
      /\ p.seeding = svc.seeding /\ p.isSeeding = svc.isSeeding /\ p.after = svc.after
      /\ p.runner = svc.runner /\ p.inbox = svc.inbox
    BY <1>1 DEF Services
<1>. HIDE DEF p
<1>3. \A u \in Task : /\ IsRunning(p, u) <=> IsRunning(svc, u)
                      /\ IsWaiting(p, u) <=> IsWaiting(svc, u)
                      /\ IsRestarting(p, u) <=> IsRestarting(svc, u)
    BY <1>2 DEF IsRunning, IsWaiting, IsRestarting
<1>4. Sane(p) /\ HasIds(p)
    <2>1. Listed(p)
        BY <1>1, <1>2, <1>3 DEF Listed
    <2>2. Owned(p)
        BY <1>1, <1>2 DEF Owned, Lives, InInbox
    <2>. QED
        BY <1>1, <1>2, <2>1, <2>2, SameRunnerSameIds DEF Sane
<1>5. Onward(p, q, T) /\ q.runner.stage = p.runner.stage /\ Slotted(q) /\ Less(p, q)
    BY <1>4, RebalancedGoesOn
<1>. HIDE DEF q
<1>6. Sane(q) /\ Spare(q)
    BY <1>4, <1>5 DEF Onward, HasIds, Spare, Unborn
<1>7. Onward(q, r, {}) /\ Full(r) /\ r.after = q.after
    BY <1>6, PumpGoesOn
<1>. HIDE DEF r
<1>0. svc'.after = r.after
    BY <1>1, <1>7 DEF Tidy, Onward, Sane, Services
<1>8. Onward(r, svc', {}) /\ Full(svc')
    BY <1>1, <1>7, TidyGoesOn, TidyIsFull DEF Onward
<1>9. Onward(q, svc', {} \cup {})
    BY <1>7, <1>8, OneAfterTheOther
<1>10. Onward(p, svc', T \cup ({} \cup {}))
    BY <1>5, <1>9, OneAfterTheOther
<1>11. ASSUME NEW t \in held PROVE Quiet(svc', t)
    <2>1. t \in Task /\ Quiet(svc, t)
        BY DEF Inv, Sane, Services
    <2>2. Quiet(p, t) /\ t \notin T
        BY <1>2, <1>3, <2>1 DEF Quiet
    <2>. QED
        BY <1>10, <2>1, <2>2 DEF Onward
<1>12. Stored(svc, svc') /\ Sane(svc') /\ Slotted(svc') /\ svc'.known = svc.known
    BY <1>2, <1>5, <1>9, <1>10 DEF Onward, Stored
<1>. QED
    BY <1>0, <1>1, <1>2, <1>5, <1>7, <1>8, <1>11, <1>12 DEF Keeps, Inv, Less

LEMMA WatchedFileChangedKeeps ==
    ASSUME Inv, NEW t \in Task, NEW shouldRemoveMissing \in BOOLEAN,
           WatchedFileChanged(t, shouldRemoveMissing)
    PROVE  Keeps
<1>. DEFINE p == Unwatch(svc, t)
            q == IF t \notin p.tasks THEN p
                 ELSE IF shouldRemoveMissing THEN Deleted(p, t)
                 ELSE CancelWork(p, t, "nothing")
<1>1. Sane(svc) /\ HasIds(svc) /\ svc' = Tidy(q) /\ held' = held
    BY DEF Inv, WatchedFileChanged, Asked
<1>2. Alike(svc, p) /\ p \in Services
    BY <1>1, ShowingGoesOn DEF Status
<1>. HIDE DEF p
<1>3. Onward(svc, p, {}) /\ Sane(p) /\ HasIds(p)
    BY <1>1, <1>2, AlikeGoesOn DEF Onward
<1>4. Onwards(p, p) /\ Onwards(p, Deleted(p, t)) /\ Onwards(p, CancelWork(p, t, "nothing"))
    <2>1. Onward(p, p, {}) /\ Onward(p, CancelWork(p, t, "nothing"), {})
        BY <1>3, StayingGoesOn, CancelWorkClears DEF IsCleared
    <2>. QED
        BY <1>3, <2>1, DeletedGoesOn DEF Onward, Onwards
<1>5. Onwards(p, q)
    BY <1>4
<1>. HIDE DEF q
<1>6. Onward(q, svc', {})
    BY <1>1, <1>5, TidyGoesOn DEF Onwards
<1>7. Stored(svc, svc')
    BY <1>2, <1>5, <1>6 DEF Onward, Onwards, Stored, Alike
<1>. QED
    BY <1>1, <1>3, <1>5, <1>6, <1>7 DEF Keeps, Inv, Onward, Onwards, Sane, Services

\* The new task is unknown, and the one it replaces is stopped.
LEMMA AddKeeps ==
    ASSUME Inv, NEW t \in Task, NEW autoStart \in BOOLEAN, Add(t, autoStart)
    PROVE  Keeps /\ Less(svc, svc') /\ svc'.known # svc.known
<1>1. /\ svc \in Services /\ Sane(svc) /\ HasIds(svc)
      /\ t \notin svc.known /\ t \notin held /\ held' = held
    BY DEF Inv, Sane, Add, Asked
<1>2. PICK replaced \in {0} \cup svc.tasks :
        LET cut == IF replaced = 0 THEN svc
                   ELSE CancelWork(Unwatch(svc, replaced), replaced, "nothing")
            added == [cut EXCEPT !.tasks = (cut.tasks \ {replaced}) \cup {t},
                                 !.known = cut.known \cup {t}]
        IN svc' = Tidy(IF autoStart THEN Schedule(added, t) ELSE added)
    BY DEF Add
<1>. DEFINE p == Unwatch(svc, replaced)
            cut == IF replaced = 0 THEN svc ELSE CancelWork(p, replaced, "nothing")
            added == [cut EXCEPT !.tasks = (cut.tasks \ {replaced}) \cup {t},
                                 !.known = cut.known \cup {t}]
            q == IF autoStart THEN Schedule(added, t) ELSE added
<1>3. svc' = Tidy(q)
    BY <1>2
<1>4. /\ Onward(svc, cut, {}) /\ HasIds(cut) /\ cut.runner.pending \subseteq svc.runner.pending
      /\ \A u \in Task : IsRunning(cut, u) => u # replaced
      /\ Less(svc, cut)
    <2>1. CASE replaced = 0
        <3>1. \A u \in Task : u # 0
            BY DEF Task
        <3>. QED
            BY <1>1, <2>1, <3>1, StayingGoesOn DEF Less
    <2>2. CASE replaced # 0
        <3>1. replaced \in Task
            BY <1>1, <2>2 DEF Services
        <3>2. Alike(svc, p) /\ p \in Services
            BY <1>1, <3>1, ShowingGoesOn DEF Status
        <3>. HIDE DEF p
        <3>3. Onward(svc, p, {}) /\ Sane(p) /\ HasIds(p)
            BY <1>1, <3>2, AlikeGoesOn DEF Onward
        <3>4. IsCleared(p, cut, replaced) /\ Less(p, cut)
            BY <2>2, <3>1, <3>3, CancelWorkClears, PausesRememberNothing
        <3>. HIDE DEF cut
        <3>5. Onward(svc, cut, {} \cup {})
            BY <3>3, <3>4, OneAfterTheOther DEF IsCleared
        <3>. QED
            BY <3>2, <3>3, <3>4, <3>5, ClearedKeepsIds DEF IsCleared, Alike, Less
    <2>. QED
        BY <2>1, <2>2
<1>. HIDE DEF cut, p
<1>5. cut \in Services /\ Listed(cut) /\ Owned(cut) /\ Sound(cut.runner) /\ cut.known = svc.known
    BY <1>4 DEF Onward, Sane
<1>6. /\ added \in Services /\ added.slots = cut.slots /\ added.waiting = cut.waiting
      /\ added.running = cut.running /\ added.workOf = cut.workOf /\ added.seeding = cut.seeding
      /\ added.isSeeding = cut.isSeeding /\ added.after = cut.after
      /\ added.runner = cut.runner /\ added.inbox = cut.inbox
      /\ added.tasks = (cut.tasks \ {replaced}) \cup {t}
      /\ added.known = cut.known \cup {t}
    BY <1>5 DEF Services
<1>. HIDE DEF added
<1>7. \A u \in Task : /\ IsRunning(added, u) <=> IsRunning(cut, u)
                      /\ IsWaiting(added, u) <=> IsWaiting(cut, u)
                      /\ IsRestarting(added, u) <=> IsRestarting(cut, u)
    BY <1>6 DEF IsRunning, IsWaiting, IsRestarting
<1>8. Sane(added) /\ HasIds(added) /\ (Slotted(cut) => Slotted(added))
    <2>1. Listed(added)
        BY <1>4, <1>5, <1>6, <1>7 DEF Listed
    <2>2. Owned(added)
        BY <1>5, <1>6 DEF Owned, Lives, InInbox
    <2>. QED
        BY <1>4, <1>5, <1>6, <2>1, <2>2, SameRunnerSameIds DEF Sane, Slotted
<1>9. Onward(added, q, {t}) /\ q.after = added.after
    BY <1>8, ScheduleGoesOn, StayingGoesOn, StirsNoMore
<1>. HIDE DEF q
<1>10. Onward(added, svc', {t})
    BY <1>3, <1>9, TidiedGoesOn
<1>0. Less(svc, svc') /\ svc'.known # svc.known
    <2>1. svc'.after = q.after
        BY <1>3, <1>9 DEF Tidy, Onward, Sane, Services
    <2>. QED
        BY <1>1, <1>4, <1>6, <1>9, <1>10, <2>1 DEF Less, Onward
<1>11. Stored(svc, svc')
    BY <1>4, <1>6, <1>10 DEF Onward, Stored
<1>12. ASSUME NEW u \in held PROVE Quiet(svc', u)
    <2>1. u \in Task /\ Quiet(svc, u) /\ u # t
        BY <1>1 DEF Inv, Services
    <2>. QED
        BY <1>4, <1>6, <1>7, <1>10, <2>1 DEF Onward, Quiet
<1>. QED
    BY <1>0, <1>1, <1>4, <1>5, <1>6, <1>8, <1>10, <1>11, <1>12 DEF Keeps, Inv, Onward

\* What is chosen from a list has no task twice.
LEMMA OnlyIsPart ==
    ASSUME NEW seq \in Seq(Task), Distinct(seq), NEW T
    PROVE  /\ Only(seq, T) \in Seq(Task) /\ Distinct(Only(seq, T))
           /\ \A u \in Task : Holds(Only(seq, T), u) => Holds(seq, u) /\ u \in T
<1>. DEFINE N == Len(seq)
            step(n, q) == IF seq[n] \in T THEN Append(q, seq[n]) ELSE q
            body(f) == [n \in 0..N |-> IF n = 0 THEN <<>> ELSE step(n, f[n - 1])]
            only == CHOOSE f : f = body(f)
            S == Seq(Task)
            upto(n) == {u \in Task : u \in T /\ \E i \in 1..n : seq[i] = u}
            P == [n \in 0..N |-> {q \in S : Distinct(q) /\ \A u \in Task : Holds(q, u) => u \in upto(n)}]
            op == [n \in 1..N |-> [q \in S |-> step(n, q)]]
<1>1. Only(seq, T) = only[N]
    BY DEF Only
<1>2. <<>> \in S /\ N \in Nat /\ \A n \in 1..N : seq[n] \in Task
    OBVIOUS
<1>3. ASSUME NEW q \in S, NEW n \in 1..N
      PROVE  step(n, q) \in S
    BY <1>2
<1>. HIDE DEF N, step
<1>4. op \in [1..N -> [S -> S]]
    <2>. HIDE DEF S
    <2>. QED
        BY <1>3
<1>5. PICK g \in [0..N -> S] : Iterates(g, N, <<>>, op)
    <2>. HIDE DEF op, S
    <2>. QED
        BY <1>2, <1>4, IterationExists
<1>6. body(g) = g
    <2>. DEFINE b == body(g)
    <2>1. \A n \in 1..N : n - 1 \in 0..N /\ g[n - 1] \in S
        BY <1>2, <1>5
    <2>. HIDE DEF S
    <2>2. FunctionTo(b, N) /\ TakesSteps(b, g, N, <<>>, op)
        BY <1>2, <2>1 DEF FunctionTo, TakesSteps
    <2>3. b = g
        <3>. HIDE DEF b, op
        <3>. QED
            BY <1>2, <1>5, <2>2, SameIteration
    <2>. QED
        BY <2>3
<1>7. only = body(only)
    <2>. HIDE DEF body
    <2>. QED
        BY <1>6, Zenon
<1>. HIDE DEF only
<1>8. only[0] \in P[0]
    <2>1. only[0] = <<>>
        BY <1>2, <1>7
    <2>2. Distinct(<<>>) /\ \A u : ~Holds(<<>>, u)
        BY DEF Distinct, Holds
    <2>. QED
        BY <1>2, <2>1, <2>2
<1>9. ASSUME NEW n \in 1..N, only[n - 1] \in P[n - 1]
      PROVE  only[n] \in P[n]
    <2>. DEFINE q == only[n - 1]
                r == only[n]
    <2>1. n - 1 \in 0..N /\ n \in 0..N /\ n # 0
        BY <1>2
    <2>2. r = step(n, q)
        BY <1>7, <2>1
    <2>3. q \in S /\ Distinct(q) /\ \A u \in Task : Holds(q, u) => u \in upto(n - 1)
        BY <1>9, <2>1
    <2>. HIDE DEF q, r
    <2>4. upto(n - 1) \subseteq upto(n)
        BY <1>2
    <2>5. CASE seq[n] \notin T
        BY <2>1, <2>2, <2>3, <2>4, <2>5 DEF step, r
    <2>6. CASE seq[n] \in T
        <3>1. seq[n] \in Task /\ seq[n] \in upto(n)
            BY <1>2, <2>6
        <3>2. ~Holds(q, seq[n])
            <4>1. \A i \in 1..n - 1 : i \in 1..N /\ i # n
                BY <1>2
            <4>2. seq[n] \notin upto(n - 1)
                BY <4>1 DEF Distinct, N
            <4>. QED
                BY <2>3, <3>1, <4>2
        <3>3. r = Append(q, seq[n])
            BY <2>2, <2>6 DEF step
        <3>4. /\ r \in Seq(Task) /\ Distinct(r)
              /\ \A u \in Task : Holds(r, u) <=> Holds(q, u) \/ u = seq[n]
            BY <2>3, <3>1, <3>2, <3>3, Appending
        <3>. HIDE DEF upto
        <3>. QED
            BY <2>1, <2>3, <2>4, <3>1, <3>4 DEF r
    <2>. QED
        BY <2>5, <2>6
<1>10. only[N] \in P[N]
    <2>. HIDE DEF P
    <2>1. \A n \in 0..N : only[n] \in P[n]
        BY <1>2, <1>8, <1>9, StepsAlong
    <2>. QED
        BY <1>2, <2>1
<1>11. \A u \in Task : u \in upto(N) => Holds(seq, u) /\ u \in T
    BY DEF Holds, N
<1>. QED
    BY <1>1, <1>2, <1>10, <1>11

\* One list after another with which it has no task in common.
LEMMA Joining ==
    ASSUME NEW a \in Seq(Task), NEW b \in Seq(Task), Distinct(a), Distinct(b),
           \A u \in Task : ~(Holds(a, u) /\ Holds(b, u))
    PROVE  /\ a \o b \in Seq(Task) /\ Distinct(a \o b)
           /\ \A u \in Task : Holds(a \o b, u) => Holds(a, u) \/ Holds(b, u)
<1>. DEFINE q == a \o b
<1>1. /\ q \in Seq(Task) /\ Len(q) = Len(a) + Len(b)
      /\ \A i \in 1..Len(a) + Len(b) : q[i] = IF i <= Len(a) THEN a[i] ELSE b[i - Len(a)]
    BY ConcatProperties
<1>2. Len(a) \in Nat /\ Len(b) \in Nat
    OBVIOUS
<1>. HIDE DEF q
<1>3. \A i \in 1..Len(q) : \/ i \in 1..Len(a) /\ q[i] = a[i]
                           \/ i - Len(a) \in 1..Len(b) /\ q[i] = b[i - Len(a)]
    BY <1>1, <1>2
<1>4. \A i \in 1..Len(a) : a[i] \in Task /\ Holds(a, a[i])
    BY DEF Holds
<1>5. \A i \in 1..Len(b) : b[i] \in Task /\ Holds(b, b[i])
    BY DEF Holds
<1>6. ASSUME NEW i \in 1..Len(q), NEW j \in 1..Len(q), q[i] = q[j]
      PROVE  i = j
    <2>1. CASE i \in 1..Len(a) /\ q[i] = a[i] /\ j \in 1..Len(a) /\ q[j] = a[j]
        BY <1>6, <2>1 DEF Distinct
    <2>2. CASE /\ i - Len(a) \in 1..Len(b) /\ q[i] = b[i - Len(a)]
               /\ j - Len(a) \in 1..Len(b) /\ q[j] = b[j - Len(a)]
        <3>1. i - Len(a) = j - Len(a)
            BY <1>6, <2>2 DEF Distinct
        <3>. QED
            BY <1>1, <1>2, <3>1
    <2>3. CASE /\ i \in 1..Len(a) /\ q[i] = a[i]
               /\ j - Len(a) \in 1..Len(b) /\ q[j] = b[j - Len(a)]
        BY <1>4, <1>5, <1>6, <2>3
    <2>4. CASE /\ i - Len(a) \in 1..Len(b) /\ q[i] = b[i - Len(a)]
               /\ j \in 1..Len(a) /\ q[j] = a[j]
        BY <1>4, <1>5, <1>6, <2>4
    <2>. QED
        BY <1>3, <2>1, <2>2, <2>3, <2>4
<1>7. \A u \in Task : Holds(q, u) => Holds(a, u) \/ Holds(b, u)
    BY <1>3 DEF Holds
<1>. QED
    BY <1>1, <1>6, <1>7 DEF q, Distinct

LEMMA MoveToFrontKeeps ==
    ASSUME Inv, NEW T \in SUBSET Task, MoveToFront(T)
    PROVE  /\ Keeps /\ svc'.slots = svc.slots /\ svc'.running = svc.running
           /\ svc'.after = svc.after /\ (svc.waiting = <<>> => svc'.waiting = <<>>)
<1>. DEFINE a == Only(svc.waiting, T)
            b == Only(svc.waiting, Task \ T)
            waiting == a \o b
<1>1. /\ svc \in Services /\ Listed(svc) /\ Owned(svc) /\ Sound(svc.runner)
      /\ svc.waiting \in Seq(Task) /\ Distinct(svc.waiting)
    BY DEF Inv, Sane, Services, Listed
<1>2. /\ a \in Seq(Task) /\ Distinct(a) /\ b \in Seq(Task) /\ Distinct(b)
      /\ \A u \in Task : /\ Holds(a, u) => Holds(svc.waiting, u) /\ u \in T
                         /\ Holds(b, u) => Holds(svc.waiting, u) /\ u \notin T
    BY <1>1, OnlyIsPart
<1>. HIDE DEF a, b
<1>3. /\ waiting \in Seq(Task) /\ Distinct(waiting)
      /\ \A u \in Task : Holds(waiting, u) => Holds(svc.waiting, u)
    BY <1>2, Joining
<1>4. svc' = [svc EXCEPT !.waiting = waiting] /\ held' = held
    BY DEF MoveToFront, a, b
<1>. HIDE DEF waiting
<1>5. /\ svc' \in Services /\ svc'.slots = svc.slots /\ svc'.tasks = svc.tasks
      /\ svc'.known = svc.known /\ svc'.waiting = waiting /\ svc'.running = svc.running
      /\ svc'.workOf = svc.workOf /\ svc'.seeding = svc.seeding
      /\ svc'.isSeeding = svc.isSeeding /\ svc'.after = svc.after
      /\ svc'.runner = svc.runner /\ svc'.inbox = svc.inbox
    BY <1>1, <1>3, <1>4 DEF Services
<1>6. \A u \in Task : /\ IsRunning(svc', u) <=> IsRunning(svc, u)
                      /\ IsWaiting(svc', u) => IsWaiting(svc, u)
                      /\ IsRestarting(svc', u) <=> IsRestarting(svc, u)
    BY <1>3, <1>5 DEF IsRunning, IsWaiting, IsRestarting
<1>7. Listed(svc')
    BY <1>1, <1>3, <1>5, <1>6 DEF Listed
<1>8. Owned(svc')
    BY <1>1, <1>5 DEF Owned, Lives, InInbox
<1>9. Onward(svc, svc', {})
    BY <1>1, <1>5, <1>6, <1>7, <1>8 DEF Onward, Sane, Slotted, Stored, Quiet
<1>10. ASSUME svc.waiting = <<>>, svc'.waiting # <<>> PROVE FALSE
    <2>1. svc'.waiting[1] \in Task /\ IsWaiting(svc', svc'.waiting[1])
        BY <1>3, <1>5, <1>10 DEF IsWaiting, Holds
    <2>2. IsWaiting(svc, svc'.waiting[1])
        BY <1>6, <2>1
    <2>. QED
        BY <1>10, <2>2 DEF IsWaiting, Holds
<1>. QED
    BY <1>4, <1>5, <1>9, <1>10, HandlerKeeps DEF Inv

-----------------------------------------------------------------------------
(* The theorems.                                                           *)

LEMMA FreshIsSane ==
    ASSUME NEW slots \in 1..MaxSlots, NEW status \in [Task -> Status]
    PROVE  LET s == Fresh(slots, status)
           IN  Sane(s) /\ Slotted(s) /\ HasIds(s) /\ s.tasks = Saved
<1>. DEFINE s == Fresh(slots, status)
            seeds == {t \in Saved \cap Seedable : status[t] = "completed"}
            W == {<<t, "seed", 1>> : t \in seeds}
            r == R!Submitted(R!NewRunner, W)
            seeding == [t \in Task |-> IF t \in seeds THEN <<t, "seed", 1>> ELSE None]
            stage == [w \in WorkIds |-> IF w \in W THEN "scheduled" ELSE "unborn"]
            watched == {t \in Saved \cap Filed : status[t] = "completed"}
<1>1. /\ seeds \subseteq Seedable /\ Seedable \subseteq Task /\ Saved \subseteq Task
      /\ watched \subseteq Task /\ 1 \in Serials /\ 2 \in Serials
      /\ slots \in Nat
    BY ServiceAssumption DEF Serials
<1>2. W \subseteq WorkIds
    BY <1>1, WorkIdFacts
<1>3. stage \in [WorkIds -> R!Stages] /\ \A w \in WorkIds : stage[w] = IF w \in W THEN "scheduled" ELSE "unborn"
    BY DEF R!Stages
<1>4. /\ r.pending = W /\ r.running = {} /\ r.stage = stage /\ r.cancels = {}
      /\ r \in R!Runners
    <2>. DEFINE n == R!NewRunner
    <2>1. /\ n.pending = {} /\ n.stage = [w \in WorkIds |-> "unborn"]
          /\ n.running = {} /\ n.cancels = {} /\ n \in R!Runners
        BY DEF R!NewRunner, R!Runners, R!Stages
    <2>. HIDE DEF n, W
    <2>2. [w \in WorkIds |-> IF w \in W THEN "scheduled" ELSE n.stage[w]] = stage
        BY <2>1
    <2>3. r = [n EXCEPT !.pending = W, !.stage = stage]
        BY <2>1, <2>2 DEF R!Submitted, n
    <2>. HIDE DEF stage, r
    <2>. QED
        BY <1>2, <1>3, <2>1, <2>3 DEF R!Runners
<1>5. seeding \in [Task -> WorkIds \cup {None}]
    <2>1. \A t \in seeds : <<t, "seed", 1>> \in WorkIds
        BY <1>1, WorkIdFacts
    <2>. HIDE DEF seeds
    <2>. QED
        BY <2>1
<1>6. s = [slots |-> slots, tasks |-> Saved, known |-> Saved, status |-> status,
         waiting |-> <<>>, running |-> <<>>, workOf |-> [t \in Task |-> None],
         seeding |-> seeding, isSeeding |-> [t \in Task |-> t \in seeds],
         shouldSeed |-> [t \in Task |-> TRUE], watched |-> watched,
         after |-> [w \in WorkIds |-> "nothing"], stepping |-> {}, runner |-> r, inbox |-> <<>>]
    BY DEF Fresh
<1>7. /\ \A t \in Task : seeding[t] = IF t \in seeds THEN <<t, "seed", 1>> ELSE None
      /\ \A t \in seeds : <<t, "seed", 1>> \in W
      /\ \A w \in W : ~IsRun(w) /\ w # <<>>
      /\ \A t \in Task, k \in Serials : <<t, "run", k>> \notin W
      /\ \A t \in Task : <<t, "seed", 2>> \notin W
    BY <1>1, WorkIdFacts DEF IsRun
<1>. HIDE DEF seeds, W, stage, seeding, watched
<1>8. r \in R!Runners /\ Sound(r) /\ r.pending = W /\ r.stage = stage
    BY <1>2, <1>3, <1>4 DEF R!Runners, Sound
<1>. HIDE DEF r
<1>9. s \in Services
    <2>1. /\ [t \in Task |-> None] \in [Task -> WorkIds \cup {None}]
          /\ [t \in Task |-> t \in seeds] \in [Task -> BOOLEAN]
          /\ [t \in Task |-> TRUE] \in [Task -> BOOLEAN]
          /\ [w \in WorkIds |-> "nothing"] \in [WorkIds -> Afters]
        BY DEF Afters
    <2>2. <<>> \in Seq(Task) /\ <<>> \in Seq(Calls)
        OBVIOUS
    <2>. QED
        BY <1>1, <1>5, <1>6, <1>8, <2>1, <2>2 DEF Services, Calls
<1>10. /\ s.tasks = Saved /\ s.known = Saved /\ s.waiting = <<>> /\ s.running = <<>>
       /\ s.workOf = [t \in Task |-> None] /\ s.seeding = seeding /\ s.runner = r
       /\ s.isSeeding = [t \in Task |-> t \in seeds] /\ s.slots = slots
    BY <1>6
<1>. HIDE DEF s
<1>11. Listed(s)
    BY <1>10 DEF Listed, Distinct, IsRunning, Holds
<1>12. Owned(s)
    <2>. SUFFICES ASSUME NEW t \in Task
                  PROVE  /\ s.workOf[t] = None /\ (s.isSeeding[t] <=> t \in seeds)
                         /\ s.seeding[t] # None => TaskOf(s.seeding[t]) = t /\ ~IsRun(s.seeding[t])
                         /\ t \in seeds => s.seeding[t] # None /\ s.seeding[t] \in s.runner.pending
        BY DEF Owned, Lives
    <2>1. s.workOf[t] = None /\ (s.isSeeding[t] <=> t \in seeds)
        BY <1>10
    <2>2. CASE t \in seeds
        <3>1. s.seeding[t] = <<t, "seed", 1>> /\ <<t, "seed", 1>> \in s.runner.pending
            BY <1>7, <1>8, <1>10, <2>2
        <3>2. TaskOf(<<t, "seed", 1>>) = t /\ ~IsRun(<<t, "seed", 1>>) /\ <<t, "seed", 1>> # None
            BY DEF TaskOf, IsRun, None
        <3>. QED
            BY <2>1, <3>1, <3>2
    <2>3. CASE t \notin seeds
        BY <1>7, <1>10, <2>1, <2>3
    <2>. QED
        BY <2>2, <2>3
<1>13. Slotted(s)
    BY <1>1, <1>10 DEF Slotted
<1>14. HasIds(s)
    <2>1. ASSUME NEW t \in Task PROVE 1 \in Unborn(s, t, "run")
        <3>1. <<t, "run", 1>> \in WorkIds /\ <<t, "run", 1>> \notin W
            BY <1>1, <1>7, WorkIdFacts
        <3>2. s.runner.stage[<<t, "run", 1>>] = "unborn"
            BY <1>3, <1>8, <1>10, <3>1
        <3>. QED
            BY <1>1, <3>2 DEF Unborn
    <2>2. ASSUME NEW t \in Seedable PROVE 2 \in Unborn(s, t, "seed")
        <3>1. <<t, "seed", 2>> \in WorkIds /\ <<t, "seed", 2>> \notin W
            BY <1>1, <1>7, WorkIdFacts
        <3>2. s.runner.stage[<<t, "seed", 2>>] = "unborn"
            BY <1>3, <1>8, <1>10, <3>1
        <3>. QED
            BY <1>1, <3>2 DEF Unborn
    <2>. QED
        BY <2>1, <2>2 DEF HasIds
<1>. QED
    BY <1>8, <1>9, <1>10, <1>11, <1>12, <1>13, <1>14 DEF Sane, s

LEMMA InitIsInv == Init => Inv
<1>. SUFFICES ASSUME Init PROVE Inv
    OBVIOUS
<1>1. PICK slots \in 1..MaxSlots, status \in [Task -> Status \ {"running"}] :
        svc = ScheduledAll(Fresh(slots, status), {t \in Saved : status[t] = "waiting"})
    BY DEF Init
<1>. DEFINE s == Fresh(slots, status)
            T == {t \in Saved : status[t] = "waiting"}
<1>2. status \in [Task -> Status] /\ T \subseteq Task
    BY ServiceAssumption
<1>3. Sane(s) /\ Slotted(s) /\ HasIds(s)
    BY <1>2, FreshIsSane
<1>. HIDE DEF s, T
<1>4. Onward(s, ScheduledAll(s, T), T)
    BY <1>2, <1>3, ScheduledAllGoesOn
<1>5. svc = ScheduledAll(s, T) /\ held = {}
    BY <1>1 DEF Init, s, T
<1>. QED
    BY <1>3, <1>4, <1>5 DEF Inv, Onward

\* The handlers that end with a _pump: pause, delete, a start of a task that is neither
\* in a slot nor in the queue, startAll, a new limit, and the end of a run.
Pumps ==
    \/ \E t \in Task : Pause(t)
    \/ \E t \in Task : Delete(t)
    \/ \E t \in Task : Start(t) /\ ~IsRunning(svc, t) /\ ~IsWaiting(svc, t)
    \/ StartAll
    \/ \E n \in 1..MaxSlots : SetMaxTaskNum(n)
    \/ Deliver /\ IsRun(Call(svc).work) /\ Call(svc).kind # "finished"

LEMMA PumpsFill ==
    ASSUME Inv, Pumps
    PROVE  Full(svc')
<1>. USE DEF Command, Asked
<1>1. Sane(svc)
    BY DEF Inv
<1>2. ASSUME NEW t \in Task, Pause(t) PROVE Full(svc')
    <2>1. Onward(svc, Paused(svc, t), {}) /\ Full(Paused(svc, t))
        BY <1>1, <1>2, PausedGoesOn, SameRunnerSameIds DEF Pause
    <2>. QED
        BY <1>2, <2>1, TidyIsFull DEF Pause, Onward
<1>3. ASSUME NEW t \in Task, Delete(t) PROVE Full(svc')
    <2>1. Onwards(svc, Deleted(svc, t)) /\ Full(Deleted(svc, t))
        BY <1>1, <1>3, DeletedGoesOn DEF Delete
    <2>. QED
        BY <1>3, <2>1, TidyIsFull DEF Delete, Onwards
<1>4. ASSUME NEW t \in Task, Start(t), ~IsRunning(svc, t), ~IsWaiting(svc, t) PROVE Full(svc')
    <2>1. Onward(svc, Schedule(svc, t), {t}) /\ Full(Schedule(svc, t))
        BY <1>1, <1>4, ScheduleGoesOn DEF Start, Restart
    <2>. QED
        BY <1>4, <2>1, TidyIsFull DEF Start, Onward
<1>5. ASSUME StartAll PROVE Full(svc')
    <2>. DEFINE T == {t \in svc.tasks : svc.status[t] \in {"paused", "waiting", "failed"}}
    <2>1. HasIds(svc) /\ T \subseteq Task /\ svc' = Tidy(ScheduledAll(svc, T))
        BY <1>1, <1>5 DEF StartAll, Sane, Services
    <2>. HIDE DEF T
    <2>2. Onward(svc, ScheduledAll(svc, T), T) /\ Full(ScheduledAll(svc, T))
        BY <1>1, <2>1, ScheduledAllGoesOn
    <2>. QED
        BY <2>1, <2>2, TidyIsFull DEF Onward
<1>6. ASSUME Deliver, IsRun(Call(svc).work), Call(svc).kind # "finished" PROVE Full(svc')
    <2>. DEFINE w == Call(svc).work
                q == Called(Popped(svc), w, Call(svc).kind)
    <2>1. svc.inbox # <<>> /\ HasIds(svc) /\ svc' = Tidy(q)
        BY <1>6 DEF Deliver, Call, Popped
    <2>2. Call(svc).kind \in {"done", "failed", "finished"}
        BY <1>1, <2>1, Delivering DEF Sane, Call
    <2>3. \/ q = RunDone(Popped(svc), TaskOf(w)) \/ q = RunFailed(Popped(svc), TaskOf(w))
        BY <1>6, <2>2 DEF Called
    <2>. HIDE DEF q
    <2>4. Sane(q) /\ Full(q)
        BY <1>1, <1>6, <2>1, <2>3, RunDoneGoesOn, RunFailedGoesOn DEF Onward
    <2>. QED
        BY <2>1, <2>4, TidyIsFull
<1>. QED
    BY <1>2, <1>3, <1>4, <1>5, <1>6, SetMaxTaskNumKeeps DEF Pumps

LEMMA NextKeeps ==
    ASSUME Inv, Next
    PROVE  Keeps
<1>1. ASSUME NEW t \in Task, NEW autoStart \in BOOLEAN, Add(t, autoStart) PROVE Keeps
    BY <1>1, AddKeeps
<1>2. ASSUME NEW t \in Task,
             \/ Start(t) \/ Pause(t) \/ Delete(t) \/ Redownload(t) \/ Edit(t) \/ Revive(t)
             \/ StartSeeding(t) \/ StopSeeding(t)
      PROVE  Keeps
    BY <1>2, StartKeeps, PauseKeeps, DeleteKeeps, RestartsKeep, SeedingKeeps
<1>3. ASSUME NEW t \in Task, NEW b \in BOOLEAN, WatchedFileChanged(t, b) PROVE Keeps
    BY <1>3, WatchedFileChangedKeeps
<1>4. ASSUME NEW T \in SUBSET Task, MoveToFront(T) PROVE Keeps
    BY <1>4, MoveToFrontKeeps
<1>5. ASSUME NEW n \in 1..MaxSlots, SetMaxTaskNum(n) PROVE Keeps
    BY <1>5, SetMaxTaskNumKeeps
<1>6. ASSUME Deliver PROVE Keeps
    BY <1>6, DeliverGoesOn, HandlerKeeps DEF Inv
<1>7. ASSUME NEW w \in WorkIds, LoopStep(w) \/ BodyReturns(w) PROVE Keeps
    BY <1>7, LoopGoesOn, HandlerKeeps DEF Inv
<1>. QED
    BY <1>1, <1>2, <1>3, <1>4, <1>5, <1>6, <1>7, StartAllKeeps, PauseAllKeeps DEF Next

LEMMA InvIsKept == Inv /\ [Next]_vars => Inv'
<1>1. Inv /\ Next => Inv'
    BY NextKeeps DEF Keeps
<1>2. Inv /\ UNCHANGED vars => Inv'
    BY DEF Inv, vars
<1>. QED
    BY <1>1, <1>2

\* The invariant that the handlers keep: what each of the properties below is about.
THEOREM HandlersKeepOrder == Spec => []Inv
BY InitIsInv, InvIsKept, PTL DEF Spec

\* The service has its type whatever the handlers, the callbacks and the loop do in
\* whatever order; no task waits twice, and _queue._running has an entry for exactly
\* the tasks with a run.
THEOREM TypeCorrect == Spec => []TypeOK
<1>1. Inv => TypeOK
    BY DEF Inv, Sane, Listed, Distinct, TypeOK, Services
<1>. QED
    BY <1>1, HandlersKeepOrder, PTL

\* A slot is never held by what died: the work that TaskQueue._running names is
\* active, or its callback waits for the dispatcher.
THEOREM SlotsAreNotLost == Spec => []SlotHeldByLiveWork
<1>1. ASSUME Inv PROVE SlotHeldByLiveWork
    <2>. SUFFICES ASSUME NEW t \in Task, IsRunning(svc, t)
                  PROVE  LET w == svc.workOf[t]
                         IN  w # None /\ (IsActive(w) \/ InInbox(svc, w, {"done", "failed"}))
        BY DEF SlotHeldByLiveWork
    <2>1. svc.workOf[t] \in WorkIds \cup {None} /\ svc.workOf[t] # None /\ Lives(svc, svc.workOf[t])
        BY <1>1 DEF Inv, Sane, Services, Listed, Owned
    <2>. QED
        BY <1>1, <2>1, PendingIsActive DEF Lives, Inv, Sane
<1>. QED
    BY <1>1, HandlersKeepOrder, PTL

\* What shows as seeding seeds: the work that _seeding names is active, or its
\* callback waits for the dispatcher.
THEOREM SeedingIsNotLost == Spec => []ShownSeedingIsLive
<1>1. ASSUME Inv PROVE ShownSeedingIsLive
    <2>. SUFFICES ASSUME NEW t \in svc.tasks, svc.isSeeding[t]
                  PROVE  LET w == svc.seeding[t]
                         IN  w # None /\ (IsActive(w) \/ InInbox(svc, w, {"done", "failed"}))
        BY DEF ShownSeedingIsLive
    <2>1. t \in Task
        BY <1>1 DEF Inv, Sane, Services
    <2>2. svc.seeding[t] \in WorkIds \cup {None} /\ svc.seeding[t] # None /\ Lives(svc, svc.seeding[t])
        BY <1>1, <2>1 DEF Inv, Sane, Services, Owned
    <2>. QED
        BY <1>1, <2>2, PendingIsActive DEF Lives, Inv, Sane
<1>. QED
    BY <1>1, HandlersKeepOrder, PTL

\* _pump never fills more slots than maxTaskNum, and _rebalance leaves beyond a lower
\* limit only what cannot be paused.
THEOREM TheLimitHolds == Spec => []SlotsRespected
<1>1. Inv => SlotsRespected
    BY DEF Inv, Slotted, SlotsRespected
<1>. QED
    BY <1>1, HandlersKeepOrder, PTL

\* Nothing but a command runs or queues a task that was paused, and no body of it runs
\* on: no late callback, no free slot, no new limit gives it one.
THEOREM PausesHold == Spec => []PauseHolds
<1>1. Inv => PauseHolds
    BY DEF Inv, Quiet, Idle, PauseHolds, ActiveRuns, IsActive
<1>. QED
    BY <1>1, HandlersKeepOrder, PTL

\* No run is submitted for a task that has left the store, though its place in the
\* queue may outlive it.
THEOREM OnlyTheStoreStarts == Spec => OnlyStoredTasksStart
<1>. DEFINE A == \A w \in WorkIds : IsRun(w) /\ w \in svc'.runner.pending \ svc.runner.pending
                                       => TaskOf(w) \in svc'.tasks
<1>1. Inv /\ [Next]_vars => [A]_vars
    BY NextKeeps DEF Keeps, Stored
<1>2. Spec => [][A]_vars
    BY <1>1, HandlersKeepOrder, PTL DEF Spec
<1>. QED
    BY <1>2 DEF OnlyStoredTasksStart

\* The part of NoSlotGoesIdle that holds of any commands: whenever a run ends, a task
\* is paused or deleted, tasks are started or the limit changes, _pump leaves no slot
\* free while a task waits.
THEOREM PumpsLeaveNoSlotIdle == Spec => [][Pumps => Full(svc')]_vars
<1>1. Inv /\ [Next]_vars => [Pumps => Full(svc')]_vars
    BY PumpsFill
<1>. QED
    BY <1>1, HandlersKeepOrder, PTL DEF Spec

-----------------------------------------------------------------------------
(* Slots that idle.                                                        *)

\* What follows a stop queues its task again.
Prompt(s) == \A w \in WorkIds : s.after[w] \in {"nothing", "redownload", "revive"}

\* The commands of which NoSlotGoesIdle holds.  The stop of an edit or of a deletion may be
\* still under way when its task has left the store or an add takes the slot of another task:
\* what follows it then pumps nothing.  Seeding and watched files: see NoSlotGoesIdle.
PromptOps == Ops \cap {"edit", "delete", "seed", "watch"} = {}

\* What is to be shown of a step.
Hurries == Prompt(svc') /\ (HasIdleSlot(svc') /\ svc'.known = svc.known => HasIdleSlot(svc))

SameSlots(p, q) ==
    q.slots = p.slots /\ q.running = p.running /\ q.waiting = p.waiting /\ q.after = p.after

LEMMA SameSlotsHurry ==
    ASSUME Prompt(svc), SameSlots(svc, svc')
    PROVE  Hurries
BY DEF Hurries, Prompt, SameSlots, HasIdleSlot, IsStopping

LEMMA FullHurries ==
    ASSUME Inv', Prompt(svc'), Full(svc')
    PROVE  Hurries
BY ServiceAssumption DEF Hurries, Full, HasIdleSlot, Inv, Sane, Services

LEMMA TidySameSlots ==
    ASSUME NEW s, Sane(s)
    PROVE  SameSlots(s, Tidy(s))
BY DEF SameSlots, Tidy, Sane, Services

LEMMA LessIsPrompt ==
    ASSUME NEW p, NEW q, Prompt(p), Less(p, q)
    PROVE  Prompt(q)
BY DEF Prompt, Less

\* A handler that leaves no slot free.
LEMMA FillingHurries ==
    ASSUME Inv', Prompt(svc), NEW q, Sane(q), Full(q), Less(svc, q), svc' = Tidy(q)
    PROVE  Hurries
<1>1. SameSlots(q, svc')
    BY TidySameSlots
<1>2. Prompt(svc') /\ Full(svc')
    BY <1>1, LessIsPrompt DEF SameSlots, Full, Prompt
<1>. QED
    BY <1>2, FullHurries

\* A handler that does not touch the queue.
LEMMA IdlingHurries ==
    ASSUME Prompt(svc), NEW q, Sane(q), SameSlots(svc, q), svc' = Tidy(q)
    PROVE  Hurries
<1>1. SameSlots(svc, svc')
    BY TidySameSlots DEF SameSlots
<1>. QED
    BY <1>1, SameSlotsHurry

LEMMA SchedulingFills ==
    ASSUME NEW s, Sane(s), HasIds(s), NEW t \in Task, NEW what \in {"redownload", "revive"}
    PROVE  Full(After(s, t, what))
<1>1. CASE what = "redownload"
    <2>. DEFINE p == [s EXCEPT !.status[t] = "waiting", !.shouldSeed[t] = TRUE]
    <2>1. p \in Services /\ Alike(s, p)
        BY DEF Sane, Services, Alike, Status
    <2>2. After(s, t, what) = Schedule(p, t)
        BY <1>1 DEF After
    <2>. HIDE DEF p
    <2>3. Sane(p) /\ HasIds(p)
        BY <2>1, AlikeGoesOn DEF Onward
    <2>. QED
        BY <2>2, <2>3, ScheduleGoesOn
<1>2. CASE what = "revive"
    BY <1>2, ScheduleGoesOn DEF After
<1>. QED
    BY <1>1, <1>2

\* A stop that queues its task afterwards: it has queued it, or it is stopping it.
LEMMA RestartHurries ==
    ASSUME Inv', Prompt(svc), NEW s, Sane(s), HasIds(s), Alike(svc, s), NEW t \in Task,
           NEW what \in {"redownload", "revive"}, svc' = Tidy(CancelWork(s, t, what))
    PROVE  Hurries
<1>. DEFINE q == CancelWork(s, t, what)
<1>1. what \in Afters
    BY DEF Afters
<1>2. Sane(q)
    BY <1>1, CancelWorkGoesOn DEF Onward
<1>3. \A w \in WorkIds : q.after[w] \in {s.after[w], what}
    BY <1>1, CancelWorkRemembers
<1>4. PICK p : /\ IsCleared(s, p, t) /\ p.after = s.after
               /\ \/ q = After(p, t, what)
                  \/ \E w \in WorkIds : TaskOf(w) = t /\ q = [p EXCEPT !.after[w] = what]
    BY <1>1, CancelWorkGives
<1>5. Sane(p) /\ HasIds(p)
    BY <1>4, ClearedKeepsIds
<1>6. svc' = Tidy(q)
    OBVIOUS
<1>. HIDE DEF q
<1>7. SameSlots(q, svc')
    BY <1>2, <1>6, TidySameSlots
<1>8. Prompt(svc')
    BY <1>3, <1>7 DEF Prompt, SameSlots, Alike
<1>9. CASE q = After(p, t, what)
    <2>1. Full(svc')
        BY <1>5, <1>7, <1>9, SchedulingFills DEF Full, SameSlots
    <2>. QED
        BY <1>8, <2>1, FullHurries
<1>10. ASSUME NEW w \in WorkIds, TaskOf(w) = t, q = [p EXCEPT !.after[w] = what]
       PROVE  Hurries
    <2>1. svc'.after[w] = what
        BY <1>5, <1>7, <1>10 DEF SameSlots, Sane, Services
    <2>2. IsStopping(svc', t)
        BY <1>10, <2>1 DEF IsStopping
    <2>. QED
        BY <1>8, <2>2 DEF Hurries, HasIdleSlot
<1>. QED
    BY <1>4, <1>9, <1>10

LEMMA RestartsHurry ==
    ASSUME Inv, Inv', Prompt(svc), NEW t \in Task, Redownload(t) \/ Revive(t)
    PROVE  Hurries
<1>1. Sane(svc) /\ HasIds(svc)
    BY DEF Inv, Redownload, Revive, Restart, Command, Asked
<1>2. CASE Redownload(t)
    <2>. DEFINE s == Unwatch(svc, t)
    <2>1. Alike(svc, s) /\ s \in Services
        BY <1>1, ShowingGoesOn DEF Status
    <2>2. svc' = Tidy(CancelWork(s, t, "redownload"))
        BY <1>2 DEF Redownload
    <2>. HIDE DEF s
    <2>3. Sane(s) /\ HasIds(s)
        BY <1>1, <2>1, AlikeGoesOn DEF Onward
    <2>. QED
        BY <2>1, <2>2, <2>3, RestartHurries
<1>3. CASE Revive(t)
    <2>. DEFINE o == [svc EXCEPT !.status[t] = "waiting"]
                s == Unwatch(o, t)
    <2>1. Alike(svc, o) /\ o \in Services
        BY <1>1, ShowingGoesOn DEF Status
    <2>2. svc' = Tidy(CancelWork(s, t, "revive"))
        BY <1>3 DEF Revive
    <2>. HIDE DEF o
    <2>3. Sane(o) /\ HasIds(o)
        BY <1>1, <2>1, AlikeGoesOn DEF Onward
    <2>4. Alike(o, s) /\ s \in Services
        BY <2>3, ShowingGoesOn DEF Status
    <2>. HIDE DEF s
    <2>5. Sane(s) /\ HasIds(s) /\ Alike(svc, s)
        BY <2>1, <2>3, <2>4, AlikeGoesOn DEF Onward, Alike
    <2>. QED
        BY <2>2, <2>5, RestartHurries
<1>. QED
    BY <1>2, <1>3

LEMMA StartHurries ==
    ASSUME Inv, Inv', Prompt(svc), NEW t \in Task, Start(t)
    PROVE  Hurries
<1>1. Sane(svc) /\ HasIds(svc)
    BY DEF Inv, Start, Restart, Command, Asked
<1>2. CASE IsRunning(svc, t) \/ IsWaiting(svc, t)
    <2>1. svc' = Tidy(svc) /\ SameSlots(svc, svc)
        BY <1>2 DEF Start, SameSlots
    <2>. QED
        BY <1>1, <2>1, IdlingHurries
<1>3. CASE ~(IsRunning(svc, t) \/ IsWaiting(svc, t))
    <2>. DEFINE q == Schedule(svc, t)
    <2>1. svc' = Tidy(q)
        BY <1>3 DEF Start
    <2>2. Sane(q) /\ Full(q) /\ q.after = svc.after
        BY <1>1, ScheduleGoesOn DEF Onward
    <2>. HIDE DEF q
    <2>. QED
        BY <2>1, <2>2, FillingHurries DEF Less
<1>. QED
    BY <1>2, <1>3

LEMMA PausesHurry ==
    ASSUME Inv, Inv', Prompt(svc), PauseAll \/ \E t \in Task : Pause(t)
    PROVE  Hurries
<1>1. Sane(svc) /\ HasIds(svc) /\ Spare(svc)
    BY SameRunnerSameIds DEF Inv, Pause, PauseAll, Command, Asked
<1>2. ASSUME NEW t \in Task, Pause(t) PROVE Hurries
    <2>1. Sane(Paused(svc, t)) /\ Full(Paused(svc, t)) /\ Less(svc, Paused(svc, t))
        BY <1>1, PausedGoesOn DEF Onward
    <2>. QED
        BY <1>2, <2>1, FillingHurries DEF Pause
<1>3. CASE PauseAll
    <2>1. /\ Sane(PausedAll(svc)) /\ Less(svc, PausedAll(svc))
          /\ PausedAll(svc) = svc \/ Full(PausedAll(svc))
        BY <1>1, PausedAllGoesOn DEF Onward
    <2>2. svc' = Tidy(PausedAll(svc))
        BY <1>3 DEF PauseAll
    <2>. QED
        BY <2>1, <2>2, FillingHurries, IdlingHurries DEF SameSlots
<1>. QED
    BY <1>2, <1>3

LEMMA StartAllHurries ==
    ASSUME Inv, Inv', Prompt(svc), StartAll
    PROVE  Hurries
<1>. DEFINE T == {t \in svc.tasks : svc.status[t] \in {"paused", "waiting", "failed"}}
            q == ScheduledAll(svc, T)
<1>1. Sane(svc) /\ HasIds(svc) /\ T \subseteq Task /\ svc' = Tidy(q)
    BY DEF StartAll, Asked, Inv, Sane, Services
<1>. HIDE DEF T
<1>2. Sane(q) /\ Full(q) /\ q.after = svc.after
    BY <1>1, ScheduledAllGoesOn DEF Onward
<1>. HIDE DEF q
<1>. QED
    BY <1>1, <1>2, FillingHurries DEF Less

LEMMA DeliverHurries ==
    ASSUME Inv, Inv', Prompt(svc), Deliver
    PROVE  Hurries
<1>. DEFINE c == Call(svc)
            w == c.work
            q == Called(Popped(svc), w, c.kind)
<1>1. /\ Sane(svc) /\ svc.inbox # <<>> /\ HasIds(svc) /\ svc' = Tidy(q)
      /\ svc.after \in [WorkIds -> Afters]
    BY DEF Inv, Sane, Services, Deliver, Call, Popped
<1>2. w \in WorkIds /\ c.kind \in {"done", "failed", "finished"}
    BY <1>1, Delivering DEF Sane, Call
<1>3. Popped(svc).after = svc.after
    BY <1>1 DEF Popped, Sane, Services
<1>. HIDE DEF c
<1>4. CASE c.kind = "finished"
    <2>. DEFINE p == [Popped(svc) EXCEPT !.after[w] = "nothing"]
                t == TaskOf(w)
                what == svc.after[w]
    <2>1. q = After(p, t, what)
        BY <1>3, <1>4 DEF Called
    <2>2. /\ Sane(p) /\ HasIds(p) /\ t \in Task
          /\ p.slots = svc.slots /\ p.running = svc.running /\ p.waiting = svc.waiting
          /\ p.after = [svc.after EXCEPT ![w] = "nothing"]
        BY <1>1, <1>4, RecalledGoesOn DEF c
    <2>3. what \in {"nothing", "redownload", "revive"} /\ what \in Afters
        BY <1>2 DEF Prompt, Afters
    <2>. HIDE DEF p, t, q
    <2>4. CASE what = "nothing"
        <3>1. q = p
            BY <2>1, <2>4 DEF After
        <3>2. SameSlots(svc, q)
            BY <1>1, <1>2, <2>2, <2>4, <3>1 DEF SameSlots
        <3>. QED
            BY <1>1, <2>2, <3>1, <3>2, IdlingHurries
    <2>5. CASE what # "nothing"
        <3>. HIDE DEF what
        <3>1. Sane(q) /\ Full(q) /\ q.after = p.after
            BY <2>1, <2>2, <2>3, <2>5, AfterGoesOn, SchedulingFills DEF Onward
        <3>2. Less(svc, q)
            BY <1>1, <2>2, <3>1 DEF Less
        <3>. QED
            BY <1>1, <3>1, <3>2, FillingHurries
    <2>. QED
        BY <2>4, <2>5
<1>5. CASE c.kind # "finished" /\ IsRun(w)
    <2>1. q = RunDone(Popped(svc), TaskOf(w)) \/ q = RunFailed(Popped(svc), TaskOf(w))
        BY <1>2, <1>5 DEF Called
    <2>. HIDE DEF q
    <2>2. Sane(q) /\ Full(q) /\ q.after = svc.after
        BY <1>1, <1>5, <2>1, RunDoneGoesOn, RunFailedGoesOn DEF Onward, c
    <2>. QED
        BY <1>1, <2>2, FillingHurries DEF Less
<1>6. CASE c.kind # "finished" /\ ~IsRun(w)
    <2>1. q = SeedingEnded(Popped(svc), TaskOf(w), c.kind)
        BY <1>2, <1>6 DEF Called
    <2>. HIDE DEF q
    <2>2. Sane(q)
        BY <1>1, <1>6, <2>1, SeedingEndedGoesOn DEF Onward, c
    <2>3. SameSlots(svc, q)
        BY <1>1, <2>1 DEF SeedingEnded, Popped, SameSlots, Sane, Services
    <2>. QED
        BY <1>1, <2>2, <2>3, IdlingHurries
<1>. QED
    BY <1>4, <1>5, <1>6

LEMMA LoopHurries ==
    ASSUME Inv, Prompt(svc), NEW w \in WorkIds, LoopStep(w) \/ BodyReturns(w)
    PROVE  Hurries
<1>1. svc \in Services
    BY DEF Inv, Sane
<1>2. ASSUME Schedules(w) \/ Throws(w) \/ Creates(w) \/ Begins(w) \/ Notifies(w)
      PROVE  SameSlots(svc, svc')
    BY <1>1, <1>2 DEF Schedules, Throws, Creates, Begins, Notifies, Tidy, SameSlots, Services
<1>3. ASSUME NEW s, NEW how, s \in Services
      PROVE  SameSlots(s, Tidy(Settled(s, w, how)))
    BY <1>3 DEF Settled, Tidy, SameSlots, Services
<1>4. ASSUME Settles(w) PROVE SameSlots(svc, svc')
    BY <1>1, <1>3, <1>4 DEF Settles
<1>5. ASSUME NEW b \in BOOLEAN, Unwinds(w, b) PROVE SameSlots(svc, svc')
    BY <1>1, <1>5 DEF Unwinds, Tidy, SameSlots, Services
<1>6. ASSUME NEW how \in {"succeeded", "raised"}, Returns(w, how) PROVE SameSlots(svc, svc')
    BY <1>1, <1>6 DEF Returns, Settled, Tidy, SameSlots, Services
<1>7. SameSlots(svc, svc')
    BY <1>2, <1>4, <1>5, <1>6 DEF LoopStep, BodyReturns
<1>. QED
    BY <1>7, SameSlotsHurry

LEMMA MoveToFrontHurries ==
    ASSUME Inv, Prompt(svc), NEW T \in SUBSET Task, MoveToFront(T)
    PROVE  Hurries
<1>1. /\ svc'.slots = svc.slots /\ svc'.running = svc.running
      /\ svc'.after = svc.after /\ (svc.waiting = <<>> => svc'.waiting = <<>>)
    BY MoveToFrontKeeps
<1>. QED
    BY <1>1 DEF Hurries, Prompt, HasIdleSlot, IsStopping

LEMMA NextHurries ==
    ASSUME PromptOps, Inv, Inv', Prompt(svc), Next
    PROVE  Hurries
<1>1. ASSUME NEW t \in Task, NEW autoStart \in BOOLEAN, Add(t, autoStart) PROVE Hurries
    <2>1. Less(svc, svc') /\ svc'.known # svc.known
        BY <1>1, AddKeeps
    <2>. QED
        BY <2>1, LessIsPrompt DEF Hurries
<1>2. ASSUME NEW t \in Task,
             \/ Delete(t) \/ Edit(t) \/ StartSeeding(t) \/ StopSeeding(t)
             \/ \E b \in BOOLEAN : WatchedFileChanged(t, b)
      PROVE  FALSE
    BY <1>2 DEF PromptOps, Delete, Edit, StartSeeding, StopSeeding, WatchedFileChanged,
                Restart, Command, Asked
<1>3. ASSUME NEW n \in 1..MaxSlots, SetMaxTaskNum(n) PROVE Hurries
    <2>1. Full(svc') /\ Less(svc, svc')
        BY <1>3, SetMaxTaskNumKeeps
    <2>. QED
        BY <2>1, LessIsPrompt, FullHurries
<1>4. ASSUME NEW t \in Task, Start(t) \/ Redownload(t) \/ Revive(t) PROVE Hurries
    BY <1>4, StartHurries, RestartsHurry
<1>. QED
    BY <1>1, <1>2, <1>3, <1>4, PausesHurry, StartAllHurries, MoveToFrontHurries, DeliverHurries,
       LoopHurries DEF Next

LEMMA InitIsPrompt == Init => Prompt(svc)
<1>. SUFFICES ASSUME Init PROVE Prompt(svc)
    OBVIOUS
<1>1. PICK slots \in 1..MaxSlots, status \in [Task -> Status \ {"running"}] :
        svc = ScheduledAll(Fresh(slots, status), {t \in Saved : status[t] = "waiting"})
    BY DEF Init
<1>. DEFINE s == Fresh(slots, status)
            T == {t \in Saved : status[t] = "waiting"}
<1>2. status \in [Task -> Status] /\ T \subseteq Task
    BY ServiceAssumption
<1>3. Sane(s) /\ HasIds(s)
    BY <1>2, FreshIsSane
<1>4. \A w \in WorkIds : s.after[w] = "nothing"
    BY DEF Fresh
<1>. HIDE DEF s, T
<1>5. ScheduledAll(s, T).after = s.after
    BY <1>2, <1>3, ScheduledAllGoesOn
<1>. QED
    BY <1>1, <1>4, <1>5 DEF Prompt, s, T

\* _queue: as long as no task is edited or deleted, nothing is told to seed or to stop, and no
\* watched file disappears, no handler but an add leaves a slot free while a task waits and
\* none is being stopped; whatever is paused, started, downloaded again, revived or
\* moved, and however the callbacks come.
THEOREM SlotsDoNotIdle == PromptOps => (Spec => NoSlotGoesIdle)
<1>. SUFFICES ASSUME PromptOps PROVE Spec => NoSlotGoesIdle
    OBVIOUS
<1>. DEFINE P == Prompt(svc)
            A == HasIdleSlot(svc)' /\ svc'.known = svc.known => HasIdleSlot(svc)
<1>1. Init => P
    BY InitIsPrompt
<1>2. Inv /\ Inv' /\ P /\ [Next]_vars => P'
    <2>1. Inv /\ Inv' /\ P /\ Next => P'
        BY NextHurries DEF Hurries
    <2>2. P /\ UNCHANGED vars => P'
        BY DEF vars
    <2>. QED
        BY <2>1, <2>2
<1>3. Inv /\ Inv' /\ P /\ [Next]_vars => [A]_vars
    <2>1. Inv /\ Inv' /\ P /\ Next => A
        BY NextHurries DEF Hurries
    <2>. QED
        BY <2>1
<1>. HIDE DEF P, A
<1>4. Spec => [][A]_vars
    BY <1>1, <1>2, <1>3, HandlersKeepOrder, PTL DEF Spec
<1>. QED
    BY <1>4 DEF NoSlotGoesIdle, A

=============================================================================
