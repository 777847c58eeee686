------------------------ MODULE CoroutineRunnerProofs ------------------------
(***************************************************************************)
(* Theorems about CoroutineRunner, for every set of works.  What needs one *)
(* thread (Android) says so in its assumptions; the rest holds on both     *)
(* platforms.                                                              *)
(***************************************************************************)
EXTENDS CoroutineRunner, SequenceTheorems, TLAPS

\* The operators that build one runner record from another.
USE DEF Moved, Submitted, Cancelled, Stopped, Created, Scheduled, Begun, Thrown,
        Unwound, Returned, Settled, Notified

\* Every piece of the runner's code keeps the runner a runner.
LEMMA RunnerTyping ==
    ASSUME NEW r \in Runners, NEW w \in Work
    PROVE  /\ Submitted(r, {w}) \in Runners
           /\ \A f \in BOOLEAN : Cancelled(r, w, f) \in Runners
           /\ Stopped(r) \in Runners
           /\ Scheduled(r, w) \in Runners
           /\ Created(r, w) \in Runners
           /\ Begun(r, w) \in Runners
           /\ Thrown(r, w) \in Runners
           /\ Unwound(r, w) \in Runners
           /\ \A how \in {"succeeded", "raised"} : Returned(r, w, how) \in Runners
           /\ Settled(r, w) \in Runners
           /\ Notified(r, w) \in Runners
<1> USE DEF Runners, Stages
<1>1. Submitted(r, {w}) \in Runners  OBVIOUS
<1>2. \A f \in BOOLEAN : Cancelled(r, w, f) \in Runners  OBVIOUS
<1>3. Stopped(r) \in Runners  OBVIOUS
<1>4. Created(r, w) \in Runners  OBVIOUS
<1>5. Scheduled(r, w) \in Runners  OBVIOUS
<1>6. Begun(r, w) \in Runners  OBVIOUS
<1>7. Thrown(r, w) \in Runners  OBVIOUS
<1>8. Unwound(r, w) \in Runners  OBVIOUS
<1>9. \A how \in {"succeeded", "raised"} : Returned(r, w, how) \in Runners  OBVIOUS
<1>10. Settled(r, w) \in Runners  OBVIOUS
<1>11. Notified(r, w) \in Runners  OBVIOUS
<1> QED BY <1>1, <1>2, <1>3, <1>4, <1>5, <1>6, <1>7, <1>8, <1>9, <1>10, <1>11

\* cancel withdraws the callbacks of its work and moves no coroutine.
LEMMA WhatCancelDoes ==
    ASSUME NEW r \in Runners, NEW w \in Work, NEW f \in BOOLEAN
    PROVE  /\ Cancelled(r, w, f).stage = r.stage
           /\ Cancelled(r, w, f).pending = r.pending \ {w}
BY DEF Runners

-----------------------------------------------------------------------------
(* Type correctness, on both platforms.                                    *)

LEMMA InitTypeOK == Init => TypeOK
BY DEF Init, TypeOK, NewRunner, Runners, Stages, Callbacks

LEMMA StepTypeOK == TypeOK /\ [Next]_vars => TypeOK'
<1> SUFFICES ASSUME TypeOK, [Next]_vars PROVE TypeOK'
    OBVIOUS
<1> USE DEF TypeOK
<1>w. ASSUME NEW w \in Work PROVE Answer(w, "done") \in Callbacks
                                 /\ Answer(w, "failed") \in Callbacks
                                 /\ Answer(w, "finished") \in Callbacks
    BY DEF Answer, Callbacks
<1>p. ASSUME NEW w \in Work, NEW how, NEW r
      PROVE  Posted(r, w, how) \in Seq(Callbacks)
    BY <1>w DEF Posted, Kind
<1>f. ASSUME NEW w \in Work
      PROVE  Append(inbox, Answer(w, "finished")) \in Seq(Callbacks)
    BY <1>w, AppendProperties
<1>1. ASSUME NEW w \in Work, Submit(w) PROVE TypeOK'
    BY <1>1, RunnerTyping DEF Submit
<1>2. ASSUME NEW w \in Work, Cancel(w) PROVE TypeOK'
    <2> /\ Cancelled(runner, w, FALSE) \in Runners
        BY RunnerTyping
    <2> QED BY <1>2 DEF Cancel
<1>3. ASSUME NEW w \in Work, CancelAndTell(w) PROVE TypeOK'
    <2> /\ Cancelled(runner, w, TRUE) \in Runners
        BY RunnerTyping
    <2> QED BY <1>3, <1>w DEF CancelAndTell
<1>4. CASE Deliver
    <2> inbox # <<>> /\ Head(inbox) \in Callbacks /\ Tail(inbox) \in Seq(Callbacks)
        BY <1>4, HeadTailProperties DEF Deliver
    <2> QED BY <1>4 DEF Deliver
<1>5. CASE Stop
    <2> Stopped(runner) \in Runners
        BY DEF Stopped, Runners, Stages
    <2> QED BY <1>5 DEF Stop
<1>6. CASE LoopStops
    BY <1>6 DEF LoopStops
<1>7. ASSUME NEW w \in Work, LoopStep(w) PROVE TypeOK'
    <2> USE RunnerTyping DEF LoopUnchanged
    <2>1. CASE Schedule(w)  BY <2>1 DEF Schedule
    <2>2. CASE Create(w)    BY <2>2 DEF Create
    <2>3. CASE Begin(w)     BY <2>3 DEF Begin
    <2>4. CASE Throw(w)     BY <2>4 DEF Throw
    <2>5. CASE Unwind(w)    BY <2>5 DEF Unwind
    <2>6. CASE Settle(w)    BY <2>6, <1>p DEF Settle
    <2>7. CASE Notify(w)
        <3>1. inbox' \in Seq(Callbacks)
            BY <2>7, <1>f DEF Notify
        <3>2. runner' \in Runners
            BY <2>7 DEF Notify
        <3>3. UNCHANGED <<loop, cancelled, asked, delivered>>
            BY <2>7 DEF Notify
        <3> QED BY <3>1, <3>2, <3>3
    <2> QED BY <1>7, <2>1, <2>2, <2>3, <2>4, <2>5, <2>6, <2>7 DEF LoopStep
<1>8. ASSUME NEW w \in Work, NEW how \in {"succeeded", "raised"}, Return(w, how)
      PROVE  TypeOK'
    <2>1. Returned(runner, w, how) \in Runners
        BY RunnerTyping
    <2>2. Settled(Returned(runner, w, how), w) \in Runners
        BY <2>1, RunnerTyping
    <2>3. runner' \in Runners /\ inbox' \in Seq(Callbacks)
        BY <1>8, <1>p, <2>1, <2>2 DEF Return
    <2> QED BY <1>8, <2>3 DEF Return, LoopUnchanged
<1>9. CASE UNCHANGED vars
    BY <1>9 DEF vars
<1> QED BY <1>1, <1>2, <1>3, <1>4, <1>5, <1>6, <1>7, <1>8, <1>9 DEF Next

\* Every variable of the runner has its type in every reachable state.
THEOREM TypeCorrect == Spec => []TypeOK
BY InitTypeOK, StepTypeOK, PTL DEF Spec

-----------------------------------------------------------------------------
(* One thread: `finished` means that the body is over.                     *)
(*                                                                         *)
(* The argument.  schedule creates the asyncio.Task and registers it in    *)
(* one step, so a body that runs is either in _running, where cancel finds *)
(* it, or has a scheduleCancel coming (BodyIsKnown).  cancel therefore     *)
(* calls `finished` itself only for a work whose body never started or is  *)
(* over; otherwise the done callback of the asyncio.Task posts it.         *)

\* No state in which the other thread could look between two steps.
NoHalfSteps ==
    \A w \in Work : runner.stage[w] \notin {"checked", "succeeded", "raised"}

\* cancel leaves the work in neither map.
CancelForgets ==
    /\ runner.cancels \subseteq cancelled
    /\ \A w \in cancelled :
        w \notin runner.pending /\ w \notin runner.running /\ runner.stage[w] # "unborn"

BodyIsKnown ==
    \A w \in Work : runner.stage[w] \in {"created", "active"} =>
        w \in runner.running \/ w \in runner.cancels

UnwindingIsCancelled ==
    loop = "running" =>
        \A w \in Work : runner.stage[w] = "unwinding" => w \in cancelled

KnownInv == NoHalfSteps /\ CancelForgets /\ BodyIsKnown /\ UnwindingIsCancelled

Told(w) == InInbox(Answer(w, "finished")) \/ Answer(w, "finished") \in delivered

ToldInv == \A w \in Work : Told(w) => runner.stage[w] # "unborn" /\ ~MayRun(runner, w)

\* Posting a callback makes it, and no other, present.
LEMMA InInboxAppend ==
    ASSUME inbox \in Seq(Callbacks), NEW c \in Callbacks, NEW d,
           inbox' = Append(inbox, c), InInbox(d)'
    PROVE  InInbox(d) \/ d = c
BY AppendProperties DEF InInbox

\* Taking the first callback makes none present.
LEMMA InInboxTail ==
    ASSUME inbox \in Seq(Callbacks), inbox # <<>>, inbox' = Tail(inbox)
    PROVE  /\ InInbox(Head(inbox))
           /\ \A d : InInbox(d)' => InInbox(d)
<1>1. InInbox(Head(inbox))
    BY HeadTailProperties DEF InInbox
<1>2. ASSUME NEW d, InInbox(d)' PROVE InInbox(d)
    <2>1. PICK i \in 1..Len(inbox') : inbox'[i] = d
        BY <1>2 DEF InInbox
    <2>2. i + 1 \in 1..Len(inbox) /\ inbox[i + 1] = d
        BY <2>1, HeadTailProperties
    <2> QED BY <2>2 DEF InInbox
<1> QED BY <1>1, <1>2

\* On one thread the end of a body is one step.
LEMMA ReturnAtOnce ==
    ASSUME NEW r \in Runners, NEW w \in Work, NEW how \in {"succeeded", "raised"}
    PROVE  LET q == Settled(Returned(r, w, how), w)
           IN  /\ q.stage = [r.stage EXCEPT ![w] = "ended"]
               /\ q.running = r.running \ {w}
               /\ q.pending = r.pending \ {w}
               /\ q.cancels = r.cancels /\ q.watched = r.watched
<1>1. ASSUME NEW q \in Runners
      PROVE  /\ Settled(q, w).stage = [q.stage EXCEPT ![w] = "ended"]
             /\ Settled(q, w).running = q.running
             /\ Settled(q, w).pending = q.pending \ {w}
             /\ Settled(q, w).cancels = q.cancels
             /\ Settled(q, w).watched = q.watched
    BY DEF Runners, Stages
<1>2. /\ Returned(r, w, how) \in Runners
      /\ Returned(r, w, how).stage = [r.stage EXCEPT ![w] = how]
      /\ Returned(r, w, how).running = r.running \ {w}
      /\ Returned(r, w, how).pending = r.pending
      /\ Returned(r, w, how).cancels = r.cancels
      /\ Returned(r, w, how).watched = r.watched
    BY DEF Runners, Stages
<1>3. [[r.stage EXCEPT ![w] = how] EXCEPT ![w] = "ended"]
        = [r.stage EXCEPT ![w] = "ended"]
    BY DEF Runners
<1> HIDE DEF Settled, Returned
<1> QED BY <1>1, <1>2, <1>3

\* The runner's invariant is kept by every step of a runner with one thread.
LEMMA StepKnownInv ==
    ASSUME SameThread, TypeOK, KnownInv, [Next]_vars
    PROVE  KnownInv'
<1> USE DEF TypeOK, Runners, Stages, KnownInv, NoHalfSteps, CancelForgets,
            BodyIsKnown, UnwindingIsCancelled
<1>1. ASSUME NEW w \in Work, Submit(w) PROVE KnownInv'
    BY <1>1 DEF Submit
<1>2. ASSUME NEW w \in Work, Cancel(w) PROVE KnownInv'
    BY <1>2 DEF Cancel
<1>3. ASSUME NEW w \in Work, CancelAndTell(w) PROVE KnownInv'
    BY <1>3 DEF CancelAndTell
<1>4. CASE Deliver
    BY <1>4 DEF Deliver
<1>5. CASE Stop
    BY <1>5 DEF Stop
<1>6. CASE LoopStops
    BY <1>6 DEF LoopStops
<1>7. ASSUME NEW w \in Work, LoopStep(w) PROVE KnownInv'
    <2> USE DEF LoopUnchanged
    <2>1. CASE Schedule(w)  BY <2>1 DEF Schedule, CanSchedule
    <2>2. CASE Create(w)    BY <2>2 DEF Create, CanCreate
    <2>3. CASE Begin(w)     BY <2>3 DEF Begin, CanBegin
    <2>4. CASE Throw(w)     BY <2>4 DEF Throw, CanThrow
    <2>5. CASE Unwind(w)    BY <2>5 DEF Unwind, CanUnwind
    <2>6. CASE Settle(w)    BY <2>6 DEF Settle, CanSettle
    <2>7. CASE Notify(w)    BY <2>7 DEF Notify, CanNotify
    <2> QED BY <1>7, <2>1, <2>2, <2>3, <2>4, <2>5, <2>6, <2>7 DEF LoopStep
<1>8. ASSUME NEW w \in Work, NEW how \in {"succeeded", "raised"}, Return(w, how)
      PROVE  KnownInv'
    <2> HIDE DEF Settled, Returned, Runners
    <2>1. /\ runner'.stage = [runner.stage EXCEPT ![w] = "ended"]
          /\ runner'.running = runner.running \ {w}
          /\ runner'.pending = runner.pending \ {w}
          /\ runner'.cancels = runner.cancels
        BY <1>8, ReturnAtOnce DEF Return
    <2>2. runner.stage[w] = "active"
        BY <1>8 DEF Return, CanReturn
    <2>3. UNCHANGED <<cancelled, loop>>
        BY <1>8 DEF Return, LoopUnchanged
    <2> QED BY <2>1, <2>2, <2>3 DEF Runners
<1>9. CASE UNCHANGED vars
    <2> runner' = runner /\ cancelled' = cancelled /\ loop' = loop
        BY <1>9 DEF vars
    <2> QED OBVIOUS
<1> QED BY <1>1, <1>2, <1>3, <1>4, <1>5, <1>6, <1>7, <1>8, <1>9 DEF Next

HIDE DEF Moved, Submitted, Cancelled, Stopped, Created, Scheduled, Begun, Thrown,
         Unwound, Returned, Settled, Notified

\* A callback of another kind, or of another work, is another callback.
LEMMA AnswersDiffer ==
    ASSUME NEW w \in Work, NEW v \in Work, NEW k \in {"done", "failed"}
    PROVE  /\ Answer(w, k) # Answer(v, "finished")
           /\ Answer(w, "finished") = Answer(v, "finished") => w = v
BY DEF Answer

\* Who is newly told `finished`, and when: nobody but the work of a cancel that
\* found no asyncio.Task and the work whose done callback runs.
LEMMA NewlyTold ==
    ASSUME TypeOK, [Next]_vars, NEW v \in Work, Told(v)', ~Told(v)
    PROVE  \/ CancelAndTell(v) /\ FinishesAtOnce(runner, v)
           \/ Notify(v)
<1> USE DEF TypeOK, Told
<1>w. \A w \in Work, k \in {"done", "failed", "finished"} : Answer(w, k) \in Callbacks
    BY DEF Answer, Callbacks
<1>1. ASSUME UNCHANGED <<inbox, delivered>> PROVE FALSE
    <2> Told(v)' = Told(v)
        BY <1>1 DEF InInbox
    <2> QED OBVIOUS
<1>2. ASSUME NEW w \in Work, CancelAndTell(w)
      PROVE  CancelAndTell(v) /\ FinishesAtOnce(runner, v)
    <2>1. UNCHANGED inbox
        BY <1>2 DEF CancelAndTell
    <2>2. Answer(v, "finished") \in delivered' \ delivered
        BY <2>1 DEF InInbox
    <2>3. FinishesAtOnce(runner, w) /\ Answer(v, "finished") = Answer(w, "finished")
        BY <1>2, <2>2 DEF CancelAndTell
    <2> QED BY <1>2, <2>3, AnswersDiffer
<1>3. CASE Deliver
    <2>1. inbox # <<>> /\ inbox' = Tail(inbox) /\ delivered' = delivered \cup {Head(inbox)}
        BY <1>3 DEF Deliver
    <2>2. InInbox(Head(inbox)) /\ \A d : InInbox(d)' => InInbox(d)
        BY <2>1, InInboxTail
    <2>3. Answer(v, "finished") \in delivered' => Told(v)
        BY <2>1, <2>2
    <2> QED BY <2>2, <2>3
<1>4. ASSUME NEW w \in Work, NEW k \in {"done", "failed"},
             UNCHANGED delivered, inbox' = Append(inbox, Answer(w, k))
      PROVE  FALSE
    <2>1. InInbox(Answer(v, "finished"))'
        BY <1>4
    <2>2. InInbox(Answer(v, "finished")) \/ Answer(v, "finished") = Answer(w, k)
        BY <1>4, <1>w, <2>1, InInboxAppend
    <2> QED BY <2>2, AnswersDiffer
<1>5. ASSUME NEW w \in Work, NEW how, NEW r,
             UNCHANGED delivered, inbox' = Posted(r, w, how)
      PROVE  FALSE
    <2>1. CASE Answers(r, w)
        <3>1. PICK k \in {"done", "failed"} : inbox' = Append(inbox, Answer(w, k))
            BY <1>5, <2>1 DEF Posted, Kind
        <3> QED BY <1>4, <1>5, <3>1
    <2>2. CASE ~Answers(r, w)
        BY <1>1, <1>5, <2>2 DEF Posted
    <2> QED BY <2>1, <2>2
<1>6. ASSUME NEW w \in Work, Notify(w) PROVE Notify(v)
    <2>1. inbox' = Append(inbox, Answer(w, "finished")) /\ UNCHANGED delivered
        BY <1>6 DEF Notify, LoopUnchanged
    <2>2. InInbox(Answer(v, "finished"))'
        BY <2>1
    <2>3. Answer(v, "finished") = Answer(w, "finished")
        BY <1>w, <2>1, <2>2, InInboxAppend
    <2> QED BY <1>6, <2>3, AnswersDiffer
<1>7. ASSUME NEW w \in Work, LoopStep(w) PROVE Notify(v)
    <2>1. CASE Settle(w)
        BY <2>1, <1>5 DEF Settle, LoopUnchanged
    <2>2. CASE Schedule(w) \/ Create(w) \/ Begin(w) \/ Throw(w) \/ Unwind(w)
        BY <2>2, <1>1 DEF Schedule, Create, Begin, Throw, Unwind, LoopUnchanged
    <2> QED BY <1>6, <1>7, <2>1, <2>2 DEF LoopStep
<1>8. ASSUME NEW w \in Work, NEW how \in {"succeeded", "raised"}, Return(w, how)
      PROVE  FALSE
    BY <1>8, <1>1, <1>5 DEF Return, LoopUnchanged
<1>9. ASSUME NEW w \in Work, Submit(w) \/ Cancel(w) PROVE FALSE
    BY <1>9, <1>1 DEF Submit, Cancel
<1>10. CASE Stop \/ LoopStops \/ UNCHANGED vars
    BY <1>10, <1>1 DEF Stop, LoopStops, vars
<1> QED BY <1>2, <1>3, <1>7, <1>8, <1>9, <1>10 DEF Next

\* A work that is not pending and has not started stays so, and a body that is
\* over stays over, on one thread.
LEMMA OverStaysOver ==
    ASSUME SameThread, TypeOK, KnownInv, [Next]_vars, NEW v \in Work,
           runner.stage[v] # "unborn", ~MayRun(runner, v)
    PROVE  runner'.stage[v] # "unborn" /\ ~MayRun(runner', v)
<1> USE DEF TypeOK, Runners, Stages, MayRun, Moved, Submitted, Cancelled, Stopped, Created,
            Scheduled, Begun, Thrown, Unwound, Returned, Settled, Notified
<1>1. ASSUME NEW w \in Work, Submit(w) \/ Cancel(w) \/ CancelAndTell(w)
      PROVE  runner'.stage[v] # "unborn" /\ ~MayRun(runner', v)
    <2>1. CASE Submit(w)
        <3>1. runner'.stage = [x \in Work |-> IF x \in {w} THEN "scheduled"
                                               ELSE runner.stage[x]]
            BY <2>1 DEF Submit
        <3>2. runner'.pending = runner.pending \cup {w}
            BY <2>1 DEF Submit
        <3>3. v # w
            BY <2>1 DEF Submit
        <3> QED BY <3>1, <3>2, <3>3
    <2>2. CASE Cancel(w) \/ CancelAndTell(w)
        <3> HIDE DEF Cancelled, Runners
        <3>1. PICK f \in BOOLEAN : runner' = Cancelled(runner, w, f)
            BY <2>2 DEF Cancel, CancelAndTell
        <3>2. runner'.stage = runner.stage /\ runner'.pending = runner.pending \ {w}
            BY <3>1, WhatCancelDoes
        <3> QED BY <3>2
    <2> QED BY <1>1, <2>1, <2>2
<1>2. CASE Deliver \/ LoopStops
    BY <1>2 DEF Deliver, LoopStops
<1>3. CASE Stop
    BY <1>3 DEF Stop
<1>4. ASSUME NEW w \in Work, LoopStep(w)
      PROVE  runner'.stage[v] # "unborn" /\ ~MayRun(runner', v)
    <2>1. CASE Schedule(w)  BY <2>1 DEF Schedule, CanSchedule
    <2>2. CASE Create(w)    BY <2>2 DEF Create, CanCreate
    <2>3. CASE Begin(w)     BY <2>3 DEF Begin, CanBegin
    <2>4. CASE Throw(w)     BY <2>4 DEF Throw, CanThrow
    <2>5. CASE Unwind(w)    BY <2>5 DEF Unwind, CanUnwind
    <2>6. CASE Settle(w)    BY <2>6 DEF Settle, CanSettle
    <2>7. CASE Notify(w)    BY <2>7 DEF Notify, CanNotify
    <2> QED BY <1>4, <2>1, <2>2, <2>3, <2>4, <2>5, <2>6, <2>7 DEF LoopStep
<1>5. ASSUME NEW w \in Work, NEW how \in {"succeeded", "raised"}, Return(w, how)
      PROVE  runner'.stage[v] # "unborn" /\ ~MayRun(runner', v)
    <2> HIDE DEF Settled, Returned, Runners
    <2>1. /\ runner'.stage = [runner.stage EXCEPT ![w] = "ended"]
          /\ runner'.pending = runner.pending \ {w}
        BY <1>5, ReturnAtOnce DEF Return
    <2> QED BY <2>1 DEF Runners
<1>6. CASE UNCHANGED vars
    <2> runner' = runner  BY <1>6 DEF vars
    <2> QED OBVIOUS
<1> QED BY <1>1, <1>2, <1>3, <1>4, <1>5, <1>6 DEF Next

\* Every step keeps: whoever was told `finished` has a body that is over.
LEMMA StepToldInv ==
    ASSUME SameThread, TypeOK, KnownInv, ToldInv, [Next]_vars
    PROVE  ToldInv'
<1> SUFFICES ASSUME NEW v \in Work, Told(v)'
             PROVE  runner'.stage[v] # "unborn" /\ ~MayRun(runner', v)
    <2>1. ToldInv' = \A v \in Work : Told(v)' =>
                        runner'.stage[v] # "unborn" /\ ~MayRun(runner', v)
        BY DEF ToldInv, MayRun
    <2> QED BY <2>1
<1>1. CASE Told(v)
    BY <1>1, OverStaysOver DEF ToldInv
<1>2. CASE CancelAndTell(v) /\ FinishesAtOnce(runner, v)
    <2>1. /\ runner.stage[v] \notin {"unborn", "checked", "created", "active", "unwinding"}
          /\ v \notin runner.running
        BY <1>2 DEF CancelAndTell, FinishesAtOnce, KnownInv, NoHalfSteps, CancelForgets,
                    BodyIsKnown, UnwindingIsCancelled, TypeOK, Runners
    <2>2. runner'.stage = runner.stage /\ v \notin runner'.pending
        BY <1>2 DEF CancelAndTell, Cancelled, TypeOK, Runners
    <2> QED BY <2>1, <2>2 DEF MayRun
<1>3. CASE Notify(v)
    <2>1. runner.stage[v] = "ended" /\ runner'.stage = runner.stage
        BY <1>3 DEF Notify, CanNotify, Notified, TypeOK, Runners
    <2> QED BY <2>1 DEF MayRun
<1> QED BY <1>1, <1>2, <1>3, NewlyTold

\* On one thread, whenever `finished` is on its way or has run, the body of the
\* cancelled work is over and never runs again.
THEOREM FinishedIsSafe == SameThread => (Spec => []FinishedMeansOver)
<1> SUFFICES ASSUME SameThread PROVE Spec => []FinishedMeansOver
    OBVIOUS
<1>1. Init => KnownInv /\ ToldInv
    BY DEF Init, NewRunner, KnownInv, NoHalfSteps, CancelForgets, BodyIsKnown,
           UnwindingIsCancelled, ToldInv, Told, InInbox
<1>2. TypeOK /\ KnownInv /\ ToldInv /\ [Next]_vars => (KnownInv /\ ToldInv)'
    BY StepKnownInv, StepToldInv
<1>3. ToldInv => FinishedMeansOver
    BY DEF ToldInv, Told, FinishedMeansOver
<1> QED BY <1>1, <1>2, <1>3, TypeCorrect, PTL DEF Spec

\* On one thread, cancel reaches the body: what still runs has a CancelledError
\* coming.
THEOREM CancelIsEffective == SameThread => (Spec => []CancelReachesBody)
<1> SUFFICES ASSUME SameThread PROVE Spec => []CancelReachesBody
    OBVIOUS
<1>1. Init => KnownInv
    BY DEF Init, NewRunner, KnownInv, NoHalfSteps, CancelForgets, BodyIsKnown,
           UnwindingIsCancelled
<1>2. TypeOK /\ KnownInv /\ [Next]_vars => KnownInv'
    BY StepKnownInv
<1>3. TypeOK /\ KnownInv => CancelReachesBody
    BY DEF TypeOK, KnownInv, NoHalfSteps, CancelForgets, BodyIsKnown, CancelReachesBody, MayRun
<1> QED BY <1>1, <1>2, <1>3, TypeCorrect, PTL DEF Spec

-----------------------------------------------------------------------------
(* What the callers of CoroutineRunner may rely on, for every set of works. *)
(* On both platforms: a work is answered once, none is forgotten while its *)
(* result may still come, and none is remembered when it is over.  On one  *)
(* thread: the runner implements WorkContract.                             *)

HIDE DEF Moved, Submitted, Cancelled, Stopped, Created, Scheduled, Begun, Thrown,
         Unwound, Returned, Settled, Notified

\* A callback is posted or has run.
Given(c) == InInbox(c) \/ c \in delivered

\* No callback is posted twice or posted after it ran.
Unique ==
    /\ \A i, j \in 1..Len(inbox) : inbox[i] = inbox[j] => i = j
    /\ \A i \in 1..Len(inbox) : inbox[i] \notin delivered

\* Who is in which of the runner's maps.
MapsInv ==
    /\ runner.cancels \subseteq cancelled
    /\ \A w \in cancelled : w \notin runner.pending /\ runner.stage[w] # "unborn"
    /\ \A w \in runner.pending :
        runner.stage[w] \in {"scheduled", "checked", "created", "active", "succeeded", "raised"}
    /\ \A w \in runner.running : runner.stage[w] \in {"created", "active", "unwinding"}
    /\ UnwindingIsCancelled
    /\ UncancelledIsPending

\* Two runners differ at most in the stages of their works.
Same(r, q) ==
    /\ q.pending = r.pending /\ q.running = r.running
    /\ q.cancels = r.cancels /\ q.watched = r.watched

\* Who may still be answered: nobody with a result, and with `finished` only
\* those whose done callback is attached.
ReplyInv ==
    /\ \A w \in Work, k \in {"done", "failed"} :
        Given(Answer(w, k)) => runner.stage[w] = "ended"
    /\ \A w \in Work : Given(Answer(w, "finished")) => w \in cancelled \ runner.watched
    /\ runner.watched \subseteq cancelled

-----------------------------------------------------------------------------
(* What the steps do to the answers.                                       *)

\* An answer is a callback, and tells its work and its kind.
LEMMA AnswersAreCallbacks ==
    ASSUME NEW w \in Work, NEW k \in {"done", "failed", "finished"}
    PROVE  /\ Answer(w, k) \in Callbacks
           /\ \A v \in Work : \A j : Answer(w, k) = Answer(v, j) => w = v /\ k = j
BY DEF Answer, Callbacks

\* Posting a callback gives it and no other, and once if it was not given.
LEMMA PostingGives ==
    ASSUME inbox \in Seq(Callbacks), NEW c \in Callbacks,
           inbox' = Append(inbox, c), UNCHANGED delivered
    PROVE  /\ \A d : Given(d)' <=> Given(d) \/ d = c
           /\ Unique /\ ~Given(c) => Unique'
<1> USE DEF InInbox
<1>1. /\ Len(inbox) \in Nat /\ Len(inbox') = Len(inbox) + 1
      /\ \A i \in 1..Len(inbox) : inbox'[i] = inbox[i]
      /\ inbox'[Len(inbox) + 1] = c
    BY AppendProperties
<1>2. ASSUME NEW d PROVE InInbox(d)' <=> InInbox(d) \/ d = c
    <2>1. InInbox(d) => InInbox(d)'
        BY <1>1
    <2>2. d = c => InInbox(d)'
        BY <1>1
    <2>3. InInbox(d)' => InInbox(d) \/ d = c
        BY <1>1
    <2> QED BY <2>1, <2>2, <2>3
<1>3. ASSUME Unique, ~Given(c) PROVE Unique'
    <2>1. \A i \in 1..Len(inbox) : inbox[i] # c
        BY <1>3 DEF Given
    <2>2. ASSUME NEW i \in 1..Len(inbox'), NEW j \in 1..Len(inbox'), inbox'[i] = inbox'[j]
          PROVE  i = j
        BY <1>1, <1>3, <2>1, <2>2 DEF Unique
    <2>3. \A i \in 1..Len(inbox') : inbox'[i] \notin delivered'
        BY <1>1, <1>3 DEF Unique, Given
    <2> QED BY <2>2, <2>3 DEF Unique
<1> QED BY <1>2, <1>3 DEF Given

\* Running the first callback gives nothing new.
LEMMA DeliverGives ==
    ASSUME inbox \in Seq(Callbacks), Deliver
    PROVE  /\ \A d : Given(d)' <=> Given(d)
           /\ Unique => Unique'
<1> USE DEF InInbox
<1>1. /\ Len(inbox) \in Nat \ {0} /\ Len(inbox') = Len(inbox) - 1
      /\ Head(inbox) = inbox[1]
      /\ \A i \in 1..Len(inbox') : inbox'[i] = inbox[i + 1]
      /\ delivered' = delivered \cup {Head(inbox)}
    BY HeadTailProperties, LenProperties, EmptySeq DEF Deliver
<1>2. ASSUME NEW d PROVE Given(d)' <=> Given(d)
    <2>1. InInbox(d)' => InInbox(d)
        BY <1>1
    <2>2. InInbox(d) => InInbox(d)' \/ d = Head(inbox)
        <3> SUFFICES ASSUME NEW i \in 1..Len(inbox), inbox[i] = d, i # 1 PROVE InInbox(d)'
            BY <1>1
        <3> i - 1 \in 1..Len(inbox') /\ inbox'[i - 1] = d
            BY <1>1
        <3> QED OBVIOUS
    <2>3. InInbox(Head(inbox))
        BY <1>1
    <2> QED BY <1>1, <2>1, <2>2, <2>3 DEF Given
<1>3. ASSUME Unique PROVE Unique'
    <2>1. ASSUME NEW i \in 1..Len(inbox'), NEW j \in 1..Len(inbox'), inbox'[i] = inbox'[j]
          PROVE  i = j
        BY <1>1, <1>3, <2>1 DEF Unique
    <2>2. ASSUME NEW i \in 1..Len(inbox') PROVE inbox'[i] \notin delivered'
        <3>1. i + 1 \in 1..Len(inbox) /\ inbox'[i] = inbox[i + 1] /\ 1 \in 1..Len(inbox)
            BY <1>1
        <3> QED BY <1>1, <1>3, <3>1 DEF Unique
    <2> QED BY <2>1, <2>2 DEF Unique
<1> QED BY <1>2, <1>3

\* Steps that touch neither the inbox nor what ran give nothing.
LEMMA QuietGives ==
    ASSUME UNCHANGED <<inbox, delivered>>
    PROVE  /\ \A d : Given(d)' <=> Given(d)
           /\ Unique => Unique'
BY DEF Given, InInbox, Unique

\* A callback that cancel runs at once is given, and no other.
LEMMA TellingGives ==
    ASSUME NEW c, UNCHANGED inbox, delivered' = delivered \cup {c}
    PROVE  /\ \A d : Given(d)' <=> Given(d) \/ d = c
           /\ Unique /\ ~Given(c) => Unique'
BY DEF Given, InInbox, Unique

-----------------------------------------------------------------------------
(* Both platforms: who is in the maps, and who may still be answered.      *)

\* The maps of the runner stay as MapsInv says.
LEMMA StepMapsInv ==
    ASSUME TypeOK, MapsInv, [Next]_vars
    PROVE  MapsInv'
<1> USE DEF MapsInv, UnwindingIsCancelled, UncancelledIsPending, MayRun, CanSettle
<1>t. /\ runner \in Runners /\ runner.stage \in [Work -> Stages]
      /\ runner.pending \subseteq Work /\ runner.running \subseteq Work
      /\ cancelled \subseteq Work
    BY DEF TypeOK, Runners
<1>1. ASSUME NEW w \in Work, Submit(w) PROVE MapsInv'
    <2>1. /\ runner'.stage = [runner.stage EXCEPT ![w] = "scheduled"]
          /\ runner'.pending = runner.pending \cup {w}
          /\ runner'.running = runner.running /\ runner'.cancels = runner.cancels
        BY <1>t, <1>1 DEF Submit, Submitted, Runners
    <2>2. runner.stage[w] = "unborn" /\ UNCHANGED <<loop, cancelled>>
        BY <1>1 DEF Submit
    <2> QED BY <1>t, <2>1, <2>2
<1>2. ASSUME NEW w \in Work, Cancel(w) \/ CancelAndTell(w) PROVE MapsInv'
    <2>1. PICK f \in BOOLEAN : runner' = Cancelled(runner, w, f)
        BY <1>2 DEF Cancel, CancelAndTell
    <2>2. loop' = loop /\ cancelled' = cancelled \cup {w} /\ runner.stage[w] # "unborn"
        BY <1>2 DEF Cancel, CancelAndTell
    <2>3. /\ runner'.stage = runner.stage
          /\ runner'.pending = runner.pending \ {w} /\ runner'.running = runner.running \ {w}
          /\ runner'.cancels \subseteq runner.cancels \cup {w}
        BY <1>t, <2>1 DEF Cancelled, Runners
    <2> QED BY <1>t, <2>2, <2>3
<1>3. CASE Deliver \/ LoopStops
    BY <1>3 DEF Deliver, LoopStops
<1>4. CASE Stop
    <2>1. runner' = Stopped(runner) /\ loop' = "stopping" /\ cancelled' = cancelled
        BY <1>4 DEF Stop
    <2>2. ASSUME NEW v \in Work
          PROVE  runner'.stage[v] = IF v \in runner.running /\ runner.stage[v] \in {"created", "active"}
                                    THEN "unwinding" ELSE runner.stage[v]
        BY <1>t, <2>1 DEF Stopped, Runners
    <2>3. /\ runner'.pending = {} /\ runner'.running = {}
          /\ runner'.cancels = runner.cancels
        <3> Work # {} => \E w \in Work : TRUE
            OBVIOUS
        <3> QED BY <2>1 DEF Stopped, TypeOK, Runners
    <2> QED BY <1>t, <2>1, <2>2, <2>3
<1>5. ASSUME NEW w \in Work, LoopStep(w) PROVE MapsInv'
    <2> USE DEF Same
    <2>u. UNCHANGED <<loop, cancelled>>
        BY <1>5 DEF LoopStep, Schedule, Create, Begin, Throw, Unwind, Settle, Notify, LoopUnchanged
    <2>c. ASSUME runner' = Created(runner, w), runner.stage[w] \in {"checked", "scheduled"},
                 w \in runner.pending \/ runner.stage[w] = "checked"
          PROVE  MapsInv'
        <3>1. /\ runner'.stage = [runner.stage EXCEPT ![w] = "created"]
              /\ runner'.running = runner.running \cup {w}
              /\ runner'.pending = runner.pending /\ runner'.cancels = runner.cancels
            BY <1>t, <2>c DEF Created, Moved, Runners
        <3> QED BY <1>t, <2>c, <2>u, <3>1
    <2>1. CASE Schedule(w)
        <3>1. CASE w \in runner.pending /\ SameThread
            BY <2>1, <2>c, <3>1 DEF Schedule, Scheduled, CanSchedule
        <3>2. CASE w \notin runner.pending
            <4>1. Same(runner, runner') /\ runner'.stage = [runner.stage EXCEPT ![w] = "closed"]
                BY <1>t, <2>1, <3>2 DEF Schedule, Scheduled, Moved, Runners
            <4> QED BY <1>t, <2>1, <2>u, <3>2, <4>1 DEF Schedule, CanSchedule
        <3>3. CASE w \in runner.pending /\ ~SameThread
            <4>1. Same(runner, runner') /\ runner'.stage = [runner.stage EXCEPT ![w] = "checked"]
                BY <1>t, <2>1, <3>3 DEF Schedule, Scheduled, Moved, Runners
            <4> QED BY <1>t, <2>1, <2>u, <3>3, <4>1 DEF Schedule, CanSchedule
        <3> QED BY <3>1, <3>2, <3>3
    <2>2. CASE Create(w)
        BY <2>2, <2>c DEF Create, CanCreate
    <2>3. CASE Begin(w)
        <3>1. Same(runner, runner') /\ runner'.stage = [runner.stage EXCEPT ![w] = "active"]
            BY <1>t, <2>3 DEF Begin, Begun, Moved, Runners
        <3> QED BY <1>t, <2>3, <2>u, <3>1 DEF Begin, CanBegin
    <2>4. CASE Throw(w)
        <3>1. /\ runner'.stage = [runner.stage EXCEPT ![w] = IF @ = "active" THEN "unwinding" ELSE @]
              /\ runner'.cancels = runner.cancels \ {w}
              /\ runner'.pending = runner.pending /\ runner'.running = runner.running
            BY <1>t, <2>4 DEF Throw, Thrown, Moved, Runners
        <3>2. w \in cancelled
            BY <2>4 DEF Throw, CanThrow
        <3> QED BY <1>t, <2>u, <3>1, <3>2
    <2>5. CASE Unwind(w)
        <3>1. /\ runner'.stage = [runner.stage EXCEPT ![w] = "ended"]
              /\ runner'.running = runner.running \ {w}
              /\ runner'.pending = runner.pending /\ runner'.cancels = runner.cancels
            BY <1>t, <2>5 DEF Unwind, Unwound, Moved, Runners
        <3> QED BY <1>t, <2>5, <2>u, <3>1 DEF Unwind, CanUnwind
    <2>6. CASE Settle(w)
        <3>1. /\ runner'.stage = [runner.stage EXCEPT ![w] = "ended"]
              /\ runner'.pending = runner.pending \ {w}
              /\ runner'.running = runner.running /\ runner'.cancels = runner.cancels
            BY <1>t, <2>6 DEF Settle, Settled, Moved, Runners
        <3> QED BY <1>t, <2>6, <2>u, <3>1 DEF Settle
    <2>7. CASE Notify(w)
        <3>1. /\ runner'.stage = runner.stage /\ runner'.pending = runner.pending
              /\ runner'.running = runner.running /\ runner'.cancels = runner.cancels
            BY <1>t, <2>7 DEF Notify, Notified, Runners
        <3> QED BY <1>t, <2>u, <3>1
    <2> QED BY <1>5, <2>1, <2>2, <2>3, <2>4, <2>5, <2>6, <2>7 DEF LoopStep
<1>6. ASSUME NEW w \in Work, NEW how \in {"succeeded", "raised"}, Return(w, how)
      PROVE  MapsInv'
    <2>1. runner.stage[w] = "active" /\ UNCHANGED <<loop, cancelled>>
        BY <1>6 DEF Return, CanReturn, LoopUnchanged
    <2>2. CASE runner' = Returned(runner, w, how)
        <3>1. /\ runner'.stage = [runner.stage EXCEPT ![w] = how]
              /\ runner'.running = runner.running \ {w}
              /\ runner'.pending = runner.pending /\ runner'.cancels = runner.cancels
            BY <1>t, <2>2 DEF Returned, Moved, Runners
        <3> QED BY <1>t, <2>1, <3>1
    <2>3. CASE runner' = Settled(Returned(runner, w, how), w)
        <3>1. /\ runner'.stage = [runner.stage EXCEPT ![w] = "ended"]
              /\ runner'.running = runner.running \ {w}
              /\ runner'.pending = runner.pending \ {w}
              /\ runner'.cancels = runner.cancels
            BY <1>t, <2>3, ReturnAtOnce
        <3> QED BY <1>t, <2>1, <3>1
    <2> QED BY <1>6, <2>2, <2>3 DEF Return
<1>7. CASE UNCHANGED vars
    BY <1>7 DEF vars
<1> QED BY <1>1, <1>2, <1>3, <1>4, <1>5, <1>6, <1>7 DEF Next

\* What a step that posts a result finds: nobody was told a result of its work.
LEMMA PostingKeepsReplies ==
    ASSUME TypeOK, ReplyInv, NEW w \in Work, NEW k \in {"done", "failed"},
           runner.stage[w] \in {"active", "succeeded", "raised"},
           runner'.stage = [runner.stage EXCEPT ![w] = "ended"],
           runner'.watched = runner.watched, cancelled' = cancelled,
           \A d : Given(d)' <=> Given(d) \/ d = Answer(w, k)
    PROVE  ReplyInv'
<1>t. runner.stage \in [Work -> Stages] /\ runner.watched \subseteq Work
    BY DEF TypeOK, Runners
<1>1. ASSUME NEW v \in Work, NEW j \in {"done", "failed"}, Given(Answer(v, j))'
      PROVE  runner'.stage[v] = "ended"
    <2>1. CASE Given(Answer(v, j))
        BY <1>t, <2>1 DEF ReplyInv
    <2>2. CASE Answer(v, j) = Answer(w, k)
        BY <1>t, <2>2, AnswersAreCallbacks
    <2> QED BY <1>1, <2>1, <2>2
<1>2. ASSUME NEW v \in Work, Given(Answer(v, "finished"))'
      PROVE  v \in cancelled' \ runner'.watched
    <2>1. Given(Answer(v, "finished"))
        BY <1>2, AnswersAreCallbacks
    <2> QED BY <2>1 DEF ReplyInv
<1> QED BY <1>1, <1>2 DEF ReplyInv

\* A step that gives nothing, and moves a coroutine that has not ended, keeps
\* everything about the answers.
LEMMA SilenceKeepsReplies ==
    ASSUME TypeOK, ReplyInv,
           \A v \in Work : runner.stage[v] = "ended" => runner'.stage[v] = "ended",
           runner'.watched = runner.watched, cancelled \subseteq cancelled',
           \A d : Given(d)' <=> Given(d)
    PROVE  ReplyInv'
BY DEF ReplyInv

\* A step with the tail of execute.
LEMMA TailKeepsReplies ==
    ASSUME TypeOK, ReplyInv, NEW w \in Work, NEW how \in {"succeeded", "raised"},
           runner.stage[w] \in {"active", "succeeded", "raised"},
           runner'.stage = [runner.stage EXCEPT ![w] = "ended"],
           runner'.watched = runner.watched,
           UNCHANGED <<cancelled, delivered>>, inbox' = Posted(runner, w, how)
    PROVE  ReplyInv' /\ (AnsweredOnce => AnsweredOnce')
<1>t. /\ runner.stage \in [Work -> Stages] /\ inbox \in Seq(Callbacks)
    BY DEF TypeOK, Runners
<1>o. AnsweredOnce <=>
        Unique /\ \A v \in Work : ~(Given(Answer(v, "done")) /\ Given(Answer(v, "failed")))
    BY DEF AnsweredOnce, Unique, Given
<1>p. AnsweredOnce' <=>
        Unique' /\ \A v \in Work : ~(Given(Answer(v, "done"))' /\ Given(Answer(v, "failed"))')
    BY DEF AnsweredOnce, Unique, Given
<1>1. CASE ~Answers(runner, w)
    <2>1. UNCHANGED <<inbox, delivered>>
        BY <1>1 DEF Posted
    <2>2. \A v \in Work : runner.stage[v] = "ended" => runner'.stage[v] = "ended"
        BY <1>t
    <2> QED BY <2>1, <2>2, <1>o, <1>p, QuietGives, SilenceKeepsReplies
<1>2. CASE Answers(runner, w)
    <2>1. PICK k \in {"done", "failed"} : inbox' = Append(inbox, Answer(w, k))
        BY <1>2 DEF Posted, Kind
    <2>2. Answer(w, k) \in Callbacks
        BY AnswersAreCallbacks
    <2>3. /\ \A d : Given(d)' <=> Given(d) \/ d = Answer(w, k)
          /\ Unique /\ ~Given(Answer(w, k)) => Unique'
        BY <1>t, <2>1, <2>2, PostingGives
    <2>4. ReplyInv'
        BY <2>3, PostingKeepsReplies
    <2>5. \A j \in {"done", "failed"} : ~Given(Answer(w, j))
        BY DEF ReplyInv
    <2>6. ASSUME AnsweredOnce, NEW v \in Work,
                 Given(Answer(v, "done"))', Given(Answer(v, "failed"))'
          PROVE  FALSE
        <3>1. CASE v = w
            BY <2>3, <2>5, <2>6, <3>1, AnswersAreCallbacks
        <3>2. CASE v # w
            BY <2>3, <2>6, <3>2, <1>o, AnswersAreCallbacks
        <3> QED BY <3>1, <3>2
    <2> QED BY <2>3, <2>4, <2>5, <2>6, <1>o, <1>p
<1> QED BY <1>1, <1>2

\* No step answers a work that may not be answered, or answers it again.
LEMMA StepReplyInv ==
    ASSUME TypeOK, MapsInv, ReplyInv, [Next]_vars
    PROVE  ReplyInv' /\ (AnsweredOnce => AnsweredOnce')
<1>t. /\ runner \in Runners /\ runner.stage \in [Work -> Stages]
      /\ runner.watched \subseteq Work /\ inbox \in Seq(Callbacks)
    BY DEF TypeOK, Runners
<1>o. AnsweredOnce <=>
        Unique /\ \A v \in Work : ~(Given(Answer(v, "done")) /\ Given(Answer(v, "failed")))
    BY DEF AnsweredOnce, Unique, Given
<1>p. AnsweredOnce' <=>
        Unique' /\ \A v \in Work : ~(Given(Answer(v, "done"))' /\ Given(Answer(v, "failed"))')
    BY DEF AnsweredOnce, Unique, Given
<1>s. ASSUME \A v \in Work : runner.stage[v] = "ended" => runner'.stage[v] = "ended",
             runner'.watched = runner.watched, cancelled \subseteq cancelled',
             \A d : Given(d)' <=> Given(d), Unique => Unique'
      PROVE  ReplyInv' /\ (AnsweredOnce => AnsweredOnce')
    BY <1>o, <1>p, <1>s, SilenceKeepsReplies
<1>f. ASSUME NEW w \in Work, ~Given(Answer(w, "finished")),
             runner'.stage = runner.stage, runner'.watched = runner.watched \ {w},
             cancelled' = cancelled \cup {w},
             \A d : Given(d)' <=> Given(d) \/ d = Answer(w, "finished"),
             Unique /\ ~Given(Answer(w, "finished")) => Unique'
      PROVE  ReplyInv' /\ (AnsweredOnce => AnsweredOnce')
    <2>1. \A v \in Work, k \in {"done", "failed"} :
            Given(Answer(v, k))' <=> Given(Answer(v, k))
        BY <1>f, AnswersAreCallbacks
    <2>2. \A v \in Work :
            Given(Answer(v, "finished"))' <=> Given(Answer(v, "finished")) \/ v = w
        BY <1>f, AnswersAreCallbacks
    <2>3. ReplyInv'
        BY <1>f, <2>1, <2>2 DEF ReplyInv
    <2> QED BY <1>f, <1>o, <1>p, <2>1, <2>3
<1>1. ASSUME NEW w \in Work, Submit(w) PROVE ReplyInv' /\ (AnsweredOnce => AnsweredOnce')
    <2>1. /\ runner'.stage = [runner.stage EXCEPT ![w] = "scheduled"]
          /\ runner'.watched = runner.watched /\ runner.stage[w] = "unborn"
          /\ cancelled' = cancelled
        BY <1>t, <1>1 DEF Submit, Submitted, Runners
    <2>2. UNCHANGED <<inbox, delivered>>
        BY <1>1 DEF Submit
    <2> QED BY <1>t, <1>s, <2>1, <2>2, QuietGives
<1>2. ASSUME NEW w \in Work, Cancel(w) PROVE ReplyInv' /\ (AnsweredOnce => AnsweredOnce')
    <2>1. /\ runner'.stage = runner.stage /\ runner'.watched = runner.watched
          /\ cancelled \subseteq cancelled'
        BY <1>t, <1>2 DEF Cancel, Cancelled, Runners
    <2>2. UNCHANGED <<inbox, delivered>>
        BY <1>2 DEF Cancel
    <2> QED BY <1>s, <2>1, <2>2, QuietGives
<1>3. ASSUME NEW w \in Work, CancelAndTell(w)
      PROVE  ReplyInv' /\ (AnsweredOnce => AnsweredOnce')
    <2>0. /\ w \notin cancelled /\ cancelled' = cancelled \cup {w}
          /\ w \notin runner.watched /\ ~Given(Answer(w, "finished"))
        BY <1>3 DEF CancelAndTell, ReplyInv
    <2>1. /\ runner'.stage = runner.stage
          /\ runner'.watched = IF FinishesAtOnce(runner, w)
                               THEN runner.watched ELSE runner.watched \cup {w}
        BY <1>t, <1>3 DEF CancelAndTell, Cancelled, FinishesAtOnce, Runners
    <2>2. CASE FinishesAtOnce(runner, w)
        <3>1. UNCHANGED inbox /\ delivered' = delivered \cup {Answer(w, "finished")}
            BY <1>3, <2>2 DEF CancelAndTell
        <3>2. runner'.watched = runner.watched \ {w}
            BY <2>0, <2>1, <2>2
        <3> QED BY <1>f, <2>0, <2>1, <3>1, <3>2, TellingGives
    <2>3. CASE ~FinishesAtOnce(runner, w)
        <3>1. UNCHANGED <<inbox, delivered>>
            BY <1>3, <2>3 DEF CancelAndTell
        <3>2. (\A d : Given(d)' <=> Given(d)) /\ (Unique => Unique')
            BY <3>1, QuietGives
        <3>3. ReplyInv'
            BY <2>0, <2>1, <2>3, <3>2 DEF ReplyInv
        <3> QED BY <1>o, <1>p, <3>2, <3>3
    <2> QED BY <2>2, <2>3
<1>4. CASE Deliver
    <2>1. runner' = runner /\ cancelled' = cancelled
        BY <1>4 DEF Deliver
    <2> QED BY <1>s, <1>t, <1>4, <2>1, DeliverGives
<1>5. CASE Stop
    <2>1. /\ runner'.watched = runner.watched /\ cancelled' = cancelled
          /\ \A v \in Work : runner.stage[v] = "ended" => runner'.stage[v] = "ended"
        BY <1>t, <1>5 DEF Stop, Stopped, Runners
    <2>2. UNCHANGED <<inbox, delivered>>
        BY <1>5 DEF Stop
    <2> QED BY <1>s, <2>1, <2>2, QuietGives
<1>6. CASE LoopStops \/ UNCHANGED vars
    <2>1. UNCHANGED <<runner, inbox, delivered, cancelled>>
        BY <1>6 DEF LoopStops, vars
    <2> QED BY <1>s, <2>1, QuietGives
<1>7. ASSUME NEW w \in Work, Schedule(w) \/ Create(w) \/ Begin(w) \/ Throw(w) \/ Unwind(w)
      PROVE  ReplyInv' /\ (AnsweredOnce => AnsweredOnce')
    <2>1. UNCHANGED <<inbox, delivered, cancelled>>
        BY <1>7 DEF Schedule, Create, Begin, Throw, Unwind, LoopUnchanged
    <2> USE DEF Moved, Runners, Stages
    <2>2. CASE Schedule(w)
        BY <1>s, <1>t, <2>1, <2>2, QuietGives DEF Schedule, CanSchedule, Scheduled, Created
    <2>3. CASE Create(w)
        BY <1>s, <1>t, <2>1, <2>3, QuietGives DEF Create, CanCreate, Created
    <2>4. CASE Begin(w)
        BY <1>s, <1>t, <2>1, <2>4, QuietGives DEF Begin, CanBegin, Begun
    <2>5. CASE Throw(w)
        BY <1>s, <1>t, <2>1, <2>5, QuietGives DEF Throw, CanThrow, Thrown
    <2>6. CASE Unwind(w)
        BY <1>s, <1>t, <2>1, <2>6, QuietGives DEF Unwind, CanUnwind, Unwound
    <2> QED BY <1>7, <2>2, <2>3, <2>4, <2>5, <2>6
<1>8. ASSUME NEW w \in Work, Settle(w) PROVE ReplyInv' /\ (AnsweredOnce => AnsweredOnce')
    <2>1. /\ runner'.stage = [runner.stage EXCEPT ![w] = "ended"]
          /\ runner'.watched = runner.watched
        BY <1>t, <1>8 DEF Settle, Settled, Moved, Runners
    <2>2. /\ runner.stage[w] \in {"succeeded", "raised"}
          /\ inbox' = Posted(runner, w, runner.stage[w])
          /\ UNCHANGED <<cancelled, delivered>>
        BY <1>8 DEF Settle, CanSettle, LoopUnchanged
    <2> QED BY <2>1, <2>2, TailKeepsReplies
<1>9. ASSUME NEW w \in Work, Notify(w) PROVE ReplyInv' /\ (AnsweredOnce => AnsweredOnce')
    <2>1. w \in runner.watched /\ w \in cancelled /\ ~Given(Answer(w, "finished"))
        BY <1>9 DEF Notify, CanNotify, ReplyInv
    <2>2. runner'.stage = runner.stage /\ runner'.watched = runner.watched \ {w}
        BY <1>t, <1>9 DEF Notify, Notified, Runners
    <2>3. /\ inbox' = Append(inbox, Answer(w, "finished"))
          /\ UNCHANGED delivered /\ cancelled' = cancelled \cup {w}
        BY <1>9, <2>1 DEF Notify, LoopUnchanged
    <2>4. Answer(w, "finished") \in Callbacks
        BY AnswersAreCallbacks
    <2>5. /\ \A d : Given(d)' <=> Given(d) \/ d = Answer(w, "finished")
          /\ Unique /\ ~Given(Answer(w, "finished")) => Unique'
        BY <1>t, <2>3, <2>4, PostingGives
    <2> QED BY <1>f, <2>1, <2>2, <2>3, <2>5
<1>10. ASSUME NEW w \in Work, NEW how \in {"succeeded", "raised"}, Return(w, how)
       PROVE  ReplyInv' /\ (AnsweredOnce => AnsweredOnce')
    <2>1. runner.stage[w] = "active" /\ UNCHANGED <<cancelled, delivered>>
        BY <1>10 DEF Return, CanReturn, LoopUnchanged
    <2>2. CASE SameThread
        <3>1. /\ runner' = Settled(Returned(runner, w, how), w)
              /\ inbox' = Posted(runner, w, how)
            BY <1>10, <2>2 DEF Return
        <3>2. /\ runner'.stage = [runner.stage EXCEPT ![w] = "ended"]
              /\ runner'.watched = runner.watched
            BY <1>t, <3>1, ReturnAtOnce
        <3>3. /\ runner.stage[w] \in {"active", "succeeded", "raised"}
              /\ inbox' = Posted(runner, w, how) /\ UNCHANGED <<cancelled, delivered>>
            BY <2>1, <3>1
        <3> QED BY <3>2, <3>3, TailKeepsReplies
    <2>3. CASE ~SameThread
        <3>1. runner' = Returned(runner, w, how) /\ UNCHANGED <<inbox, delivered>>
            BY <1>10, <2>1, <2>3 DEF Return
        <3>2. /\ runner'.watched = runner.watched
              /\ \A v \in Work : runner.stage[v] = "ended" => runner'.stage[v] = "ended"
            BY <1>t, <2>1, <3>1 DEF Returned, Moved, Runners
        <3> QED BY <1>s, <2>1, <3>1, <3>2, QuietGives
    <2> QED BY <2>2, <2>3
<1> QED BY <1>1, <1>2, <1>3, <1>4, <1>5, <1>6, <1>7, <1>8, <1>9, <1>10 DEF Next, LoopStep

\* On both platforms a work is answered at most once, and with one of a result
\* and an error: what execute, cancel and the done callback post never doubles.
THEOREM AnswersAreGivenOnce == Spec => []AnsweredOnce
<1>1. Init => MapsInv /\ ReplyInv /\ AnsweredOnce
    BY DEF Init, NewRunner, MapsInv, UnwindingIsCancelled, UncancelledIsPending, MayRun,
           CanSettle, ReplyInv, Given, AnsweredOnce, InInbox
<1>2. TypeOK /\ MapsInv /\ ReplyInv /\ AnsweredOnce /\ [Next]_vars
        => (MapsInv /\ ReplyInv /\ AnsweredOnce)'
    BY StepMapsInv, StepReplyInv
<1> QED BY <1>1, <1>2, TypeCorrect, PTL DEF Spec

\* MapsInv holds in every reachable state.
LEMMA MapsHold == Spec => []MapsInv
<1>1. Init => MapsInv
    BY DEF Init, NewRunner, MapsInv, UnwindingIsCancelled, UncancelledIsPending, MayRun,
           CanSettle
<1>2. TypeOK /\ MapsInv /\ [Next]_vars => MapsInv'
    BY StepMapsInv
<1> QED BY <1>1, <1>2, TypeCorrect, PTL DEF Spec

\* On both platforms no result is lost: while the loop runs, a work that was
\* not cancelled and may still end, or has ended, has its callbacks.
THEOREM NoResultIsLost == Spec => []UncancelledIsPending
<1>1. MapsInv => UncancelledIsPending
    BY DEF MapsInv
<1> QED BY <1>1, MapsHold, PTL

\* On both platforms nothing leaks: a work that is over is in neither map.
THEOREM NothingLeaks == Spec => []OverIsForgotten
<1>1. MapsInv => OverIsForgotten
    BY DEF MapsInv, OverIsForgotten
<1> QED BY <1>1, MapsHold, PTL

\* On both platforms a cancel withdraws the callbacks: the tail of execute, on
\* the other thread, posts no result of a cancelled work.
THEOREM CancelSilences == Spec => NothingPostedAfterCancel
<1>1. ASSUME TypeOK, MapsInv, [Next]_vars, NEW v \in cancelled, NEW j \in {"done", "failed"},
             InInbox(Answer(v, j))'
      PROVE  InInbox(Answer(v, j))
    <2>t. inbox \in Seq(Callbacks) /\ v \in Work
        BY <1>1 DEF TypeOK
    <2>q. ASSUME UNCHANGED inbox PROVE InInbox(Answer(v, j))
        BY <1>1, <2>q DEF InInbox
    <2>p. ASSUME NEW w \in Work, NEW k \in {"done", "failed", "finished"},
                 inbox' = Append(inbox, Answer(w, k)), k = "finished" \/ w # v
          PROVE  InInbox(Answer(v, j))
        <3>1. Answer(w, k) \in Callbacks /\ Answer(w, k) # Answer(v, j)
            BY <2>t, <2>p, AnswersAreCallbacks
        <3> QED BY <1>1, <2>t, <2>p, <3>1, InInboxAppend
    <2>e. ASSUME NEW w \in Work, NEW how, inbox' = Posted(runner, w, how)
          PROVE  InInbox(Answer(v, j))
        <3>1. CASE w \in runner.pending
            <4>1. PICK k \in {"done", "failed"} : inbox' = Append(inbox, Answer(w, k))
                BY <2>e, <3>1 DEF Posted, Kind, Answers
            <4>2. w # v
                BY <1>1, <3>1 DEF MapsInv
            <4> QED BY <2>p, <4>1, <4>2
        <3>2. CASE w \notin runner.pending
            BY <2>e, <2>q, <3>2 DEF Posted, Answers
        <3> QED BY <3>1, <3>2
    <2>1. CASE Deliver
        <3>1. inbox # <<>> /\ inbox' = Tail(inbox)
            BY <2>1 DEF Deliver
        <3> QED BY <1>1, <2>t, <3>1, InInboxTail
    <2>2. ASSUME NEW w \in Work, Notify(w) PROVE InInbox(Answer(v, j))
        <3>1. inbox' = Append(inbox, Answer(w, "finished"))
            BY <2>2 DEF Notify
        <3> QED BY <2>p, <3>1
    <2>3. ASSUME NEW w \in Work, Settle(w) PROVE InInbox(Answer(v, j))
        BY <2>3, <2>e DEF Settle
    <2>4. ASSUME NEW w \in Work, NEW how \in {"succeeded", "raised"}, Return(w, how)
          PROVE  InInbox(Answer(v, j))
        BY <2>4, <2>e, <2>q DEF Return
    <2>5. ASSUME NEW w \in Work,
                 \/ Submit(w) \/ Cancel(w) \/ CancelAndTell(w)
                 \/ Schedule(w) \/ Create(w) \/ Begin(w) \/ Throw(w) \/ Unwind(w)
          PROVE  InInbox(Answer(v, j))
        <3>1. UNCHANGED inbox
            BY <2>5 DEF Submit, Cancel, CancelAndTell, Schedule, Create, Begin, Throw, Unwind
        <3> QED BY <2>q, <3>1
    <2>6. CASE Stop \/ LoopStops \/ UNCHANGED vars
        BY <2>6, <2>q DEF Stop, LoopStops, vars
    <2> QED BY <1>1, <2>1, <2>2, <2>3, <2>4, <2>5, <2>6 DEF Next, LoopStep
<1>2. TypeOK /\ MapsInv /\ [Next]_vars =>
        [\A w \in cancelled, k \in {"done", "failed"} :
            InInbox(Answer(w, k))' => InInbox(Answer(w, k))]_vars
    BY <1>1
<1> QED BY <1>2, TypeCorrect, MapsHold, PTL DEF Spec, NothingPostedAfterCancel

-----------------------------------------------------------------------------
(* One thread: the runner implements WorkContract.                         *)
(*                                                                         *)
(* The argument.  A work is live as long as its callbacks are known, and   *)
(* stopping while its body is not over without them.  Each step moves one  *)
(* work by one step of the contract or none, but for stop, which withdraws *)
(* all of them.  The step that matters is a cancel that tells at once:     *)
(* that it finds no body that may run is KnownInv, that it has not told    *)
(* before is ReplyInv.                                                     *)

Phases == [w \in Work |-> ContractPhase(w)]
Tolds == [w \in Work |-> ContractTold(w)]

\* The contract's variables follow the phases and the answers of each work.
LEMMA Stutters ==
    ASSUME \A v \in Work : ContractPhase(v)' = ContractPhase(v) /\ ContractTold(v)' = ContractTold(v)
    PROVE  UNCHANGED <<Phases, Tolds>>
BY DEF Phases, Tolds

\* If no callback is given, the contract sees none.
LEMMA GivingNothing ==
    ASSUME \A d : Given(d)' <=> Given(d)
    PROVE  \A v \in Work : ContractTold(v)' = ContractTold(v)
BY DEF ContractTold, Given

\* If one callback is given, the contract sees it at its work only.
LEMMA GivingOne ==
    ASSUME NEW w \in Work, NEW k \in {"done", "failed", "finished"},
           \A d : Given(d)' <=> Given(d) \/ d = Answer(w, k)
    PROVE  \A v \in Work : ContractTold(v)' =
                IF v = w THEN ContractTold(v) \cup {k} ELSE ContractTold(v)
<1>1. ASSUME NEW v \in Work, NEW j \in {"done", "failed", "finished"}
      PROVE  Given(Answer(v, j))' <=> Given(Answer(v, j)) \/ (v = w /\ j = k)
    BY AnswersAreCallbacks
<1> QED BY <1>1 DEF ContractTold, Given

\* The contract sees no change of any other work.
OthersStay(w) ==
    \A v \in Work \ {w} : /\ ContractPhase(v)' = ContractPhase(v)
                          /\ ContractTold(v)' = ContractTold(v)

\* A step that changes the phase or the answers of one work is an action of the
\* contract: here, a work that is submitted.
LEMMA Accepts ==
    ASSUME NEW w \in Work, OthersStay(w), ContractTold(w)' = ContractTold(w),
           ContractPhase(w) = "unborn", ContractPhase(w)' = "live"
    PROVE  Contract!Accept(w)
BY DEF Contract!Accept, OthersStay

\* A body that was withdrawn and is over.
LEMMA Ends ==
    ASSUME NEW w \in Work, OthersStay(w), ContractTold(w)' = ContractTold(w),
           ContractPhase(w) = "stopping", ContractPhase(w)' = "over"
    PROVE  Contract!BodyEnds(w)
BY DEF Contract!BodyEnds, OthersStay

\* A live work that is answered.
LEMMA Reports ==
    ASSUME NEW w \in Work, NEW k \in {"done", "failed"}, OthersStay(w),
           ContractTold(w)' = ContractTold(w) \cup {k},
           ContractPhase(w) = "live", ContractPhase(w)' = "over"
    PROVE  Contract!Report(w, k)
BY DEF Contract!Report, OthersStay

\* A work that is told `finished` while no body of it may run.
LEMMA Finishes ==
    ASSUME NEW w \in Work, OthersStay(w),
           ContractTold(w)' = ContractTold(w) \cup {"finished"}, "finished" \notin ContractTold(w),
           ContractPhase(w) \in {"live", "over"}, ContractPhase(w)' = "over"
    PROVE  Contract!Finish(w)
BY DEF Contract!Finish, OthersStay

\* Any number of works can be withdrawn in one step.
LEMMA Withdraws ==
    ASSUME NEW W \in SUBSET Work,
           \A v \in W : ContractPhase(v) = "live" /\ ContractPhase(v)' \in {"stopping", "over"},
           \A v \in Work \ W : ContractPhase(v)' = ContractPhase(v),
           \A v \in Work : ContractTold(v)' = ContractTold(v)
    PROVE  Contract!Withdraw(W)
<1> DEFINE to == [v \in W |-> ContractPhase(v)']
<1>1. to \in [W -> {"stopping", "over"}]
    OBVIOUS
<1>2. Phases' = [v \in Work |-> IF v \in W THEN to[v] ELSE Phases[v]]
    BY DEF Phases
<1>3. \E t \in [W -> {"stopping", "over"}] :
        Phases' = [v \in Work |-> IF v \in W THEN t[v] ELSE Phases[v]]
    <2> HIDE DEF to
    <2> QED BY <1>1, <1>2
<1>4. Tolds' = Tolds
    BY DEF Tolds
<1>5. \A v \in W : Phases[v] = "live"
    BY DEF Phases
<1> QED BY <1>3, <1>4, <1>5, Zenon DEF Contract!Withdraw, Phases, Tolds

\* The phases, read off the runner, on one thread.
PhasesRead ==
    \A w \in Work : ContractPhase(w) =
        IF runner.stage[w] = "unborn" THEN "unborn"
        ELSE IF w \in runner.pending THEN "live"
        ELSE IF runner.stage[w] \in {"created", "active", "unwinding"} THEN "stopping"
        ELSE "over"

\* Nothing overlaps among the phases: who is pending has been submitted.
LEMMA PhasesAreRead == TypeOK /\ KnownInv /\ MapsInv => PhasesRead
<1> SUFFICES ASSUME TypeOK, KnownInv, MapsInv, NEW w \in Work
             PROVE  ContractPhase(w) =
                        IF runner.stage[w] = "unborn" THEN "unborn"
                        ELSE IF w \in runner.pending THEN "live"
                        ELSE IF runner.stage[w] \in {"created", "active", "unwinding"} THEN "stopping"
                        ELSE "over"
    BY DEF PhasesRead
<1> USE DEF ContractPhase, MayRun
<1>0. runner.stage[w] \notin {"checked", "succeeded", "raised"}
    BY DEF KnownInv, NoHalfSteps
<1>1. CASE runner.stage[w] = "unborn"
    <2> w \notin runner.pending
        BY <1>1 DEF MapsInv
    <2> QED BY <1>1
<1>2. CASE runner.stage[w] # "unborn" /\ w \in runner.pending
    BY <1>2
<1>3. CASE runner.stage[w] # "unborn" /\ w \notin runner.pending
    <2>1. MayRun(runner, w) <=> runner.stage[w] \in {"created", "active", "unwinding"}
        BY <1>0, <1>3
    <2> HIDE DEF MayRun
    <2> QED BY <1>3, <2>1
<1> QED BY <1>1, <1>2, <1>3

\* Each step of the runner is a step of the contract or leaves its state alone.
LEMMA StepSimulates ==
    ASSUME SameThread, TypeOK, KnownInv, MapsInv, ReplyInv, PhasesRead, PhasesRead', [Next]_vars
    PROVE  Contract!Next \/ UNCHANGED <<Phases, Tolds>>
<1>t. /\ runner \in Runners /\ runner.stage \in [Work -> Stages]
      /\ runner.pending \subseteq Work /\ runner.running \subseteq Work
      /\ inbox \in Seq(Callbacks) /\ cancelled \subseteq Work
    BY DEF TypeOK, Runners
<1>q. ASSUME UNCHANGED <<inbox, delivered>>
      PROVE  \A v \in Work : ContractTold(v)' = ContractTold(v)
    BY <1>q, QuietGives, GivingNothing
<1>e. ASSUME NEW w \in Work, Contract!Accept(w) \/ Contract!BodyEnds(w) \/ Contract!Finish(w)
             \/ (\E k \in {"done", "failed"} : Contract!Report(w, k)) \/ Contract!Withdraw({w})
      PROVE  Contract!Next
    BY <1>e DEF Contract!Next
<1>s. ASSUME \A v \in Work : ContractTold(v)' = ContractTold(v),
             \A v \in Work : ContractPhase(v)' = ContractPhase(v)
      PROVE  UNCHANGED <<Phases, Tolds>>
    BY <1>s, Stutters
<1>1. ASSUME NEW w \in Work, Submit(w) PROVE Contract!Next
    <2>1. /\ runner.stage[w] = "unborn"
          /\ runner'.stage = [runner.stage EXCEPT ![w] = "scheduled"]
          /\ runner'.pending = runner.pending \cup {w}
        BY <1>t, <1>1 DEF Submit, Submitted, Runners
    <2>2. \A v \in Work : ContractTold(v)' = ContractTold(v)
        BY <1>1, <1>q DEF Submit
    <2>3. ContractPhase(w) = "unborn" /\ ContractPhase(w)' = "live" /\ OthersStay(w)
        BY <1>t, <2>1, <2>2 DEF PhasesRead, OthersStay
    <2> QED BY <1>e, <2>2, <2>3, Accepts
<1>2. ASSUME NEW w \in Work, NEW f \in BOOLEAN, runner' = Cancelled(runner, w, f),
             runner.stage[w] # "unborn", UNCHANGED <<inbox, delivered>>
      PROVE  Contract!Next \/ UNCHANGED <<Phases, Tolds>>
    <2>1. runner'.stage = runner.stage /\ runner'.pending = runner.pending \ {w}
        BY <1>t, <1>2, WhatCancelDoes
    <2>2. \A v \in Work : ContractTold(v)' = ContractTold(v)
        BY <1>2, <1>q
    <2>3. OthersStay(w)
        BY <2>1, <2>2 DEF PhasesRead, OthersStay
    <2>4. CASE w \in runner.pending
        <3>1. ContractPhase(w) = "live" /\ ContractPhase(w)' \in {"stopping", "over"}
            BY <1>2, <2>1, <2>4 DEF PhasesRead
        <3>2. \A v \in Work \ {w} : ContractPhase(v)' = ContractPhase(v)
            BY <2>3 DEF OthersStay
        <3>3. Contract!Withdraw({w})
            BY <2>2, <3>1, <3>2, Withdraws
        <3> QED BY <1>e, <3>3
    <2>5. CASE w \notin runner.pending
        <3>1. \A v \in Work : ContractPhase(v)' = ContractPhase(v)
            BY <2>1, <2>5 DEF PhasesRead
        <3> QED BY <1>s, <2>2, <3>1
    <2> QED BY <2>4, <2>5
<1>3. ASSUME NEW w \in Work, CancelAndTell(w)
      PROVE  Contract!Next \/ UNCHANGED <<Phases, Tolds>>
    <2>1. CASE FinishesAtOnce(runner, w)
        <3>1. /\ w \notin cancelled /\ w \notin runner.running /\ runner.stage[w] # "unborn"
              /\ runner' = Cancelled(runner, w, TRUE) /\ loop = "running"
            BY <1>3, <2>1 DEF CancelAndTell, FinishesAtOnce
        <3>2. runner.stage[w] \notin {"created", "active", "unwinding"}
            BY <3>1 DEF KnownInv, BodyIsKnown, CancelForgets, UnwindingIsCancelled
        <3>3. runner'.stage = runner.stage /\ runner'.pending = runner.pending \ {w}
            BY <1>t, <3>1, WhatCancelDoes
        <3>4. UNCHANGED inbox /\ delivered' = delivered \cup {Answer(w, "finished")}
            BY <1>3, <2>1 DEF CancelAndTell
        <3>5. \A v \in Work : ContractTold(v)' =
                    IF v = w THEN ContractTold(v) \cup {"finished"} ELSE ContractTold(v)
            BY <3>4, TellingGives, GivingOne
        <3>6. "finished" \notin ContractTold(w)
            BY <3>1 DEF ReplyInv, ContractTold, Given
        <3>7. OthersStay(w)
            BY <3>3, <3>5 DEF PhasesRead, OthersStay
        <3>8. ContractPhase(w) \in {"live", "over"} /\ ContractPhase(w)' = "over"
            BY <3>1, <3>2, <3>3 DEF PhasesRead
        <3>9. Contract!Finish(w)
            BY <3>5, <3>6, <3>7, <3>8, Finishes
        <3> QED BY <1>e, <3>9
    <2>2. CASE ~FinishesAtOnce(runner, w)
        BY <1>2, <1>3, <2>2 DEF CancelAndTell
    <2> QED BY <2>1, <2>2
<1>4. CASE Deliver
    <2>1. \A v \in Work : ContractTold(v)' = ContractTold(v)
        BY <1>t, <1>4, DeliverGives, GivingNothing
    <2>2. \A v \in Work : ContractPhase(v)' = ContractPhase(v)
        BY <1>4 DEF Deliver, PhasesRead
    <2> QED BY <1>s, <2>1, <2>2
<1>5. CASE Stop
    <2> DEFINE W == {v \in Work : ContractPhase(v) = "live"}
    <2>1. /\ runner'.pending = {}
          /\ \A v \in Work : runner'.stage[v] =
                IF v \in runner.running /\ runner.stage[v] \in {"created", "active"}
                THEN "unwinding" ELSE runner.stage[v]
        BY <1>t, <1>5 DEF Stop, Stopped, Runners
    <2>2. \A v \in Work : ContractTold(v)' = ContractTold(v)
        BY <1>5, <1>q DEF Stop
    <2>3. \A v \in W : ContractPhase(v) = "live" /\ ContractPhase(v)' \in {"stopping", "over"}
        BY <2>1 DEF PhasesRead
    <2>4. \A v \in Work \ W : ContractPhase(v)' = ContractPhase(v)
        BY <2>1 DEF PhasesRead
    <2>5. W \in SUBSET Work
        OBVIOUS
    <2>6. Contract!Withdraw(W)
        <3> HIDE DEF W
        <3> QED BY <2>2, <2>3, <2>4, <2>5, Withdraws
    <2> QED BY <2>5, <2>6 DEF Contract!Next
<1>6. CASE LoopStops \/ UNCHANGED vars
    <2>1. UNCHANGED <<runner, inbox, delivered>>
        BY <1>6 DEF LoopStops, vars
    <2>2. \A v \in Work : ContractPhase(v)' = ContractPhase(v)
        BY <2>1 DEF PhasesRead
    <2> QED BY <1>q, <1>s, <2>1, <2>2
<1>7. ASSUME NEW w \in Work, Schedule(w) \/ Create(w) \/ Begin(w) \/ Throw(w)
      PROVE  UNCHANGED <<Phases, Tolds>>
    <2>1. UNCHANGED <<inbox, delivered>>
        BY <1>7 DEF Schedule, Create, Begin, Throw, LoopUnchanged
    <2>2. \A v \in Work : ContractPhase(v)' = ContractPhase(v)
        <3> USE DEF PhasesRead, Moved, Runners, Stages
        <3>1. CASE Schedule(w)
            BY <1>t, <3>1 DEF Schedule, CanSchedule, Scheduled, Created
        <3>2. CASE Create(w)
            BY <1>t, <3>2 DEF Create, CanCreate, KnownInv, NoHalfSteps
        <3>3. CASE Begin(w)
            BY <1>t, <3>3 DEF Begin, CanBegin, Begun
        <3>4. CASE Throw(w)
            BY <1>t, <3>4 DEF Throw, CanThrow, Thrown
        <3> QED BY <1>7, <3>1, <3>2, <3>3, <3>4
    <2> QED BY <1>q, <1>s, <2>1, <2>2
<1>8. ASSUME NEW w \in Work, Unwind(w) PROVE Contract!Next \/ UNCHANGED <<Phases, Tolds>>
    <2>1. /\ runner.stage[w] = "unwinding"
          /\ runner'.stage = [runner.stage EXCEPT ![w] = "ended"]
          /\ runner'.pending = runner.pending
        BY <1>t, <1>8 DEF Unwind, CanUnwind, Unwound, Moved, Runners
    <2>2. \A v \in Work : ContractTold(v)' = ContractTold(v)
        BY <1>8, <1>q DEF Unwind, LoopUnchanged
    <2>3. w \notin runner.pending
        BY <2>1 DEF MapsInv
    <2>4. ContractPhase(w) = "stopping" /\ ContractPhase(w)' = "over" /\ OthersStay(w)
        BY <1>t, <2>1, <2>2, <2>3 DEF PhasesRead, OthersStay
    <2> QED BY <1>e, <2>2, <2>4, Ends
<1>9. ASSUME NEW w \in Work, Notify(w) PROVE Contract!Next
    <2>1. /\ runner.stage[w] = "ended" /\ w \in runner.watched /\ w \in cancelled
          /\ runner'.stage = runner.stage /\ runner'.pending = runner.pending
        BY <1>t, <1>9 DEF Notify, CanNotify, Notified, Runners, ReplyInv
    <2>2. inbox' = Append(inbox, Answer(w, "finished")) /\ UNCHANGED delivered
        BY <1>9 DEF Notify, LoopUnchanged
    <2>3. \A v \in Work : ContractTold(v)' =
                IF v = w THEN ContractTold(v) \cup {"finished"} ELSE ContractTold(v)
        <3>1. Answer(w, "finished") \in Callbacks
            BY AnswersAreCallbacks
        <3>2. \A d : Given(d)' <=> Given(d) \/ d = Answer(w, "finished")
            BY <1>t, <2>2, <3>1, PostingGives
        <3> QED BY <3>2, GivingOne
    <2>4. "finished" \notin ContractTold(w)
        BY <2>1 DEF ReplyInv, ContractTold, Given
    <2>5. ContractPhase(w) = "over" /\ ContractPhase(w)' = "over" /\ OthersStay(w)
        BY <2>1, <2>3 DEF PhasesRead, OthersStay, MapsInv
    <2>6. Contract!Finish(w)
        BY <2>3, <2>4, <2>5, Finishes
    <2> QED BY <1>e, <2>6
<1>10. ASSUME NEW w \in Work, NEW how \in {"succeeded", "raised"}, Return(w, how)
       PROVE  Contract!Next
    <2>1. /\ runner.stage[w] = "active" /\ UNCHANGED delivered
          /\ runner' = Settled(Returned(runner, w, how), w) /\ inbox' = Posted(runner, w, how)
        BY <1>10 DEF Return, CanReturn, LoopUnchanged
    <2>2. /\ runner'.stage = [runner.stage EXCEPT ![w] = "ended"]
          /\ runner'.pending = runner.pending \ {w}
        BY <1>t, <2>1, ReturnAtOnce
    <2>3. \A v \in Work \ {w} : ContractPhase(v)' = ContractPhase(v)
        BY <1>t, <2>2 DEF PhasesRead
    <2>4. ContractPhase(w)' = "over"
        BY <1>t, <2>2 DEF PhasesRead
    <2>5. CASE w \in runner.pending
        <3>1. PICK k \in {"done", "failed"} : inbox' = Append(inbox, Answer(w, k))
            BY <2>1, <2>5 DEF Posted, Kind, Answers
        <3>2. Answer(w, k) \in Callbacks
            BY AnswersAreCallbacks
        <3>3. \A d : Given(d)' <=> Given(d) \/ d = Answer(w, k)
            BY <1>t, <2>1, <3>1, <3>2, PostingGives
        <3>4. \A v \in Work : ContractTold(v)' =
                    IF v = w THEN ContractTold(v) \cup {k} ELSE ContractTold(v)
            BY <3>3, GivingOne
        <3>5. ContractPhase(w) = "live" /\ OthersStay(w)
            BY <2>1, <2>3, <2>5, <3>4 DEF PhasesRead, OthersStay
        <3>6. Contract!Report(w, k)
            BY <2>4, <3>4, <3>5, Reports
        <3> QED BY <1>e, <3>6
    <2>6. CASE w \notin runner.pending
        <3>1. \A v \in Work : ContractTold(v)' = ContractTold(v)
            BY <1>q, <2>1, <2>6 DEF Posted, Answers
        <3>2. ContractPhase(w) = "stopping" /\ OthersStay(w)
            BY <2>1, <2>3, <2>6, <3>1 DEF PhasesRead, OthersStay
        <3>3. Contract!BodyEnds(w)
            BY <2>4, <3>1, <3>2, Ends
        <3> QED BY <1>e, <3>3
    <2> QED BY <2>5, <2>6
<1>11. ASSUME NEW w \in Work, Settle(w) PROVE FALSE
    BY <1>11 DEF Settle, CanSettle, KnownInv, NoHalfSteps
<1>12. ASSUME NEW w \in Work, Cancel(w) PROVE Contract!Next \/ UNCHANGED <<Phases, Tolds>>
    BY <1>2, <1>12 DEF Cancel
<1> QED BY <1>1, <1>3, <1>4, <1>5, <1>6, <1>7, <1>8, <1>9, <1>10, <1>11, <1>12 DEF Next, LoopStep

\* On one thread the runner keeps the contract its callers rely on, for any set
\* of works: one outcome each, none after a cancel, and `finished` at the end.
THEOREM ContractIsImplemented == SameThread => (Spec => ImplementsContract)
<1> SUFFICES ASSUME SameThread PROVE Spec => ImplementsContract
    OBVIOUS
<1>1. Init => KnownInv /\ MapsInv /\ ReplyInv
    BY DEF Init, NewRunner, KnownInv, NoHalfSteps, CancelForgets, BodyIsKnown,
           MapsInv, UnwindingIsCancelled, UncancelledIsPending, MayRun, CanSettle,
           ReplyInv, Given, InInbox
<1>2. ASSUME Init PROVE Contract!Init
    <2>1. ASSUME NEW w \in Work PROVE ContractPhase(w) = "unborn" /\ ContractTold(w) = {}
        <3>1. runner.stage[w] = "unborn" /\ runner.pending = {} /\ ~MayRun(runner, w)
            BY <1>2 DEF Init, NewRunner, MayRun
        <3>2. ContractPhase(w) = "unborn"
            BY <3>1 DEF ContractPhase
        <3>3. ContractTold(w) = {}
            BY <1>2 DEF Init, ContractTold, InInbox
        <3> QED BY <3>2, <3>3
    <2> QED BY <2>1 DEF Contract!Init
<1>3. TypeOK /\ KnownInv /\ MapsInv /\ ReplyInv /\ [Next]_vars => (KnownInv /\ MapsInv /\ ReplyInv)'
    BY StepKnownInv, StepMapsInv, StepReplyInv
<1>4. PhasesRead /\ PhasesRead' /\ TypeOK /\ KnownInv /\ MapsInv /\ ReplyInv /\ [Next]_vars
        => [Contract!Next]_<<Phases, Tolds>>
    BY StepSimulates
<1> QED BY <1>1, <1>2, <1>3, <1>4, PhasesAreRead, TypeCorrect, PTL
        DEF Spec, ImplementsContract, Contract!Spec, Phases, Tolds
=============================================================================
