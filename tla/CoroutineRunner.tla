--------------------------- MODULE CoroutineRunner ---------------------------
(***************************************************************************)
(* app/services/coroutine_runner.py as a state machine: a dispatcher       *)
(* thread that submits and cancels works and runs their callbacks, a loop  *)
(* thread that runs the coroutines, and the two ways they talk:            *)
(* call_soon_threadsafe (into the loop) and the dispatcher's queue (out).  *)
(* The bodies of the works are arbitrary: they return, raise or never end, *)
(* and once cancelled they end.  Every work is given callbacks.            *)
(***************************************************************************)
EXTENDS Runner, Sequences, Naturals

VARIABLES
    runner,      \* the runner's data, see Runner
    loop,        \* "running", "stopping" (loop.stop queued), "stopped"
    inbox,       \* callbacks posted to the dispatcher, in order
    cancelled,   \* history: works cancel was called for
    asked,       \* history: works cancel was called for with `finished`
    delivered    \* history: callbacks that ran

vars == <<runner, loop, inbox, cancelled, asked, delivered>>

Answer(w, k) == [work |-> w, kind |-> k]
Callbacks == [work : Work, kind : {"done", "failed", "finished"}]

Init ==
    /\ runner = NewRunner
    /\ loop = "running"
    /\ inbox = <<>>
    /\ cancelled = {} /\ asked = {} /\ delivered = {}

-----------------------------------------------------------------------------
(* Dispatcher thread.                                                      *)

Submit(w) ==
    /\ loop = "running"
    /\ runner.stage[w] = "unborn"
    /\ runner' = Submitted(runner, {w})
    /\ UNCHANGED <<loop, inbox, cancelled, asked, delivered>>

\* cancel(w) without `finished`: an owner destroyed, a debounce restarted.
Cancel(w) ==
    /\ loop = "running"
    /\ runner.stage[w] # "unborn"
    /\ runner' = Cancelled(runner, w, FALSE)
    /\ cancelled' = cancelled \cup {w}
    /\ UNCHANGED <<loop, inbox, asked, delivered>>

\* cancel(w, finished).  The one caller that passes `finished` is
\* TaskService._cancelWork, which forgets the id as it cancels: no second
\* cancel of the same work carries a `finished`.
CancelAndTell(w) ==
    /\ loop = "running"
    /\ runner.stage[w] # "unborn" /\ w \notin cancelled
    /\ runner' = Cancelled(runner, w, TRUE)
    /\ cancelled' = cancelled \cup {w}
    /\ asked' = asked \cup {w}
    /\ delivered' = IF FinishesAtOnce(runner, w)
                    THEN delivered \cup {Answer(w, "finished")} ELSE delivered
    /\ UNCHANGED <<loop, inbox>>

Deliver ==
    /\ inbox # <<>>
    /\ inbox' = Tail(inbox)
    /\ delivered' = delivered \cup {Head(inbox)}
    /\ UNCHANGED <<runner, loop, cancelled, asked>>

Stop ==
    /\ loop = "running"
    /\ loop' = "stopping"
    /\ runner' = Stopped(runner)
    /\ UNCHANGED <<inbox, cancelled, asked, delivered>>

-----------------------------------------------------------------------------
(* Loop thread.                                                            *)

LoopUnchanged == UNCHANGED <<loop, cancelled, asked, delivered>>

Schedule(w) ==
    /\ loop # "stopped" /\ CanSchedule(runner, w)
    /\ runner' = Scheduled(runner, w)
    /\ UNCHANGED inbox /\ LoopUnchanged

Create(w) ==
    /\ loop # "stopped" /\ CanCreate(runner, w)
    /\ runner' = Created(runner, w)
    /\ UNCHANGED inbox /\ LoopUnchanged

Begin(w) ==
    /\ loop # "stopped" /\ CanBegin(runner, w)
    /\ runner' = Begun(runner, w)
    /\ UNCHANGED inbox /\ LoopUnchanged

Throw(w) ==
    /\ loop # "stopped" /\ CanThrow(runner, w)
    /\ runner' = Thrown(runner, w)
    /\ UNCHANGED inbox /\ LoopUnchanged

Unwind(w) ==
    /\ loop # "stopped" /\ CanUnwind(runner, w)
    /\ runner' = Unwound(runner, w)
    /\ UNCHANGED inbox /\ LoopUnchanged

\* Faulty: an error is posted under the exception's name.
KindByName(how) == IF how = "succeeded" THEN "done" ELSE "raised"

Kind(how) == IF how = "succeeded" THEN "done" ELSE "failed"

\* Faulty: the error of a body is logged and nobody hears of it.
PostedIfDone(r, w, how) ==
    IF Answers(r, w) /\ how = "succeeded" THEN Append(inbox, Answer(w, "done")) ELSE inbox

\* What the tail of execute puts in the dispatcher's queue.
Posted(r, w, how) ==
    IF Answers(r, w) THEN Append(inbox, Answer(w, Kind(how))) ELSE inbox

\* On one thread execute's finally and its tail are one step.
Return(w, how) ==
    /\ loop # "stopped" /\ CanReturn(runner, w)
    /\ IF SameThread
       THEN /\ runner' = Settled(Returned(runner, w, how), w)
            /\ inbox' = Posted(runner, w, how)
       ELSE /\ runner' = Returned(runner, w, how)
            /\ UNCHANGED inbox
    /\ LoopUnchanged

Settle(w) ==
    /\ loop # "stopped" /\ CanSettle(runner, w)
    /\ runner' = Settled(runner, w)
    /\ inbox' = Posted(runner, w, runner.stage[w])
    /\ LoopUnchanged

Notify(w) ==
    /\ loop # "stopped" /\ CanNotify(runner, w)
    /\ runner' = Notified(runner, w)
    /\ inbox' = Append(inbox, Answer(w, "finished"))
    /\ LoopUnchanged

LoopStops ==
    /\ loop = "stopping"
    /\ loop' = "stopped"
    /\ UNCHANGED <<runner, inbox, cancelled, asked, delivered>>

-----------------------------------------------------------------------------
\* Steps the loop takes by itself; the return of a body is not one of them.
LoopStep(w) ==
    \/ Schedule(w) \/ Create(w) \/ Begin(w) \/ Throw(w) \/ Unwind(w)
    \/ Settle(w) \/ Notify(w)

Next ==
    \/ \E w \in Work :
        \/ Submit(w) \/ Cancel(w) \/ CancelAndTell(w)
        \/ LoopStep(w)
        \/ \E how \in {"succeeded", "raised"} : Return(w, how)
    \/ Deliver
    \/ Stop
    \/ LoopStops

Spec == Init /\ [][Next]_vars

\* Both event loops keep turning: a callback in a ready queue runs, and a body
\* into which CancelledError was thrown ends.  No body has to end by itself.
Fairness == WF_vars(Deliver) /\ \A w \in Work : WF_vars(LoopStep(w))

FairSpec == Spec /\ Fairness

-----------------------------------------------------------------------------
(* Properties.                                                             *)

\* Every variable of the runner has its type.
TypeOK ==
    /\ runner \in Runners
    /\ loop \in {"running", "stopping", "stopped"}
    /\ inbox \in Seq(Callbacks)
    /\ cancelled \in SUBSET Work
    /\ asked \in SUBSET cancelled
    /\ delivered \in SUBSET Callbacks

InInbox(c) == \E i \in 1..Len(inbox) : inbox[i] = c

\* When `finished` is on its way or has run, the body of the cancelled work is
\* over and never runs again: TaskService deletes the files of the task there.
FinishedMeansOver ==
    \A w \in Work :
        InInbox(Answer(w, "finished")) \/ Answer(w, "finished") \in delivered
            => ~MayRun(runner, w)

\* Once `finished` has run, the body is not running.
NotRunningAfterFinished ==
    \A w \in Work : Answer(w, "finished") \in delivered =>
        runner.stage[w] # "active"

\* cancel reaches the body: a cancelled body that is still running or going to
\* run has a CancelledError coming.
CancelReachesBody ==
    \A w \in cancelled : MayRun(runner, w) =>
        w \in runner.cancels \/ runner.stage[w] = "unwinding"

\* A work is answered once: no callback is posted twice, and a work that gave a
\* result gave no error.
AnsweredOnce ==
    /\ \A i, j \in 1..Len(inbox) : inbox[i] = inbox[j] => i = j
    /\ \A i \in 1..Len(inbox) : inbox[i] \notin delivered
    /\ \A w \in Work : LET seen(k) == InInbox(Answer(w, k)) \/ Answer(w, k) \in delivered
                       IN ~(seen("done") /\ seen("failed"))

\* A body that may run and was not cancelled still has its callbacks: its
\* result cannot be lost.
UncancelledIsPending ==
    loop = "running" =>
        \A w \in Work \ cancelled :
            MayRun(runner, w) \/ CanSettle(runner, w) => w \in runner.pending

\* A work that is over is in neither map: the runner does not leak.
OverIsForgotten ==
    \A w \in Work : runner.stage[w] \in {"ended", "closed"} =>
        w \notin runner.pending /\ w \notin runner.running

\* cancel withdraws the callbacks: from then on nothing but `finished` is
\* posted for the work.
NothingPostedAfterCancel ==
    [][\A w \in cancelled, k \in {"done", "failed"} :
        InInbox(Answer(w, k))' => InInbox(Answer(w, k))]_vars

\* A caller that cancels with `finished` is told, unless the loop is stopped.
CancelIsAnswered ==
    \A w \in Work : w \in asked ~>
        Answer(w, "finished") \in delivered \/ loop # "running"

\* A result is delivered or the work was cancelled, unless the loop is stopped.
ResultIsDelivered ==
    \A w \in Work : CanSettle(runner, w) ~>
        \/ {Answer(w, "done"), Answer(w, "failed")} \cap delivered # {}
        \/ w \in cancelled \/ loop # "running"

-----------------------------------------------------------------------------
(* The runner implements the contract its callers rely on.                 *)

ContractPhase(w) ==
    CASE runner.stage[w] = "unborn" -> "unborn"
      [] w \in runner.pending -> "live"
      [] w \notin runner.pending /\ MayRun(runner, w) -> "stopping"
      [] OTHER -> "over"

ContractTold(w) ==
    {k \in {"done", "failed", "finished"} :
        InInbox(Answer(w, k)) \/ Answer(w, k) \in delivered}

Contract == INSTANCE WorkContract WITH
    phase <- [w \in Work |-> ContractPhase(w)],
    told <- [w \in Work |-> ContractTold(w)]

\* On one thread, every step of the runner is a step of the contract or leaves
\* its state alone.
ImplementsContract == Contract!Spec

=============================================================================
