------------------------------- MODULE Runner -------------------------------
(***************************************************************************)
(* The data of app/services/coroutine_runner.py and what each piece of its *)
(* code does to it.  A runner is a record r:                               *)
(*                                                                         *)
(*   r.pending  the keys of _pending: works whose callbacks may be called  *)
(*   r.running  the keys of _running: works whose asyncio.Task is known    *)
(*   r.stage    where the coroutine of each work is on the loop thread     *)
(*   r.cancels  works whose scheduleCancel waits in the loop               *)
(*   r.watched  works whose cancel came with a `finished` callback         *)
(*                                                                         *)
(* The operators below are functions from records to records, one for      *)
(* every piece of code that runs without the other thread being able to    *)
(* interfere, so that CoroutineRunner (the state machine) and TaskService  *)
(* (which calls submit and cancel from inside its handlers) share them.    *)
(*                                                                         *)
(* cancel pops _pending and then _running.  The loop thread reads _pending *)
(* in schedule and in the tail of execute, and writes _running in schedule *)
(* and in execute's finally: no loop step reads both, so whatever runs     *)
(* between the two pops has the effect of having run before or after both. *)
(*                                                                         *)
(* An operator whose comment starts with "Faulty" is no part of the model: *)
(* it is a variant of the next one with a plausible mistake, kept to see   *)
(* that the properties notice it.                                          *)
(***************************************************************************)
LOCAL INSTANCE FiniteSets

CONSTANTS
    Work,        \* work ids (uuid4: never given twice)
    SameThread   \* TRUE on Android, where dispatcher and loop are one thread

ASSUME SameThreadIsBoolean == SameThread \in BOOLEAN

(***************************************************************************)
(*   "unborn"     submit has not been called                               *)
(*   "scheduled"  schedule waits in the loop's ready queue                 *)
(*   "checked"    schedule found the work pending, has no asyncio.Task yet *)
(*   "created"    the asyncio.Task exists, its first step waits            *)
(*   "active"     the body is running or suspended at an await             *)
(*   "unwinding"  CancelledError was thrown into the body                  *)
(*   "succeeded"  the body returned, execute's finally has run             *)
(*   "raised"     the body raised, execute's finally has run               *)
(*   "ended"      execute has returned                                     *)
(*   "closed"     schedule closed the coroutine without running it         *)
(***************************************************************************)
Stages == {"unborn", "scheduled", "checked", "created", "active", "unwinding",
           "succeeded", "raised", "ended", "closed"}

Runners == [pending : SUBSET Work, running : SUBSET Work,
            stage : [Work -> Stages], cancels : SUBSET Work,
            watched : SUBSET Work]

NewRunner == [pending |-> {}, running |-> {}, stage |-> [w \in Work |-> "unborn"],
              cancels |-> {}, watched |-> {}]

Moved(r, w, to) == [r EXCEPT !.stage[w] = to]

-----------------------------------------------------------------------------
(* The dispatcher thread.                                                  *)

\* submit, for a set of fresh ids.
Submitted(r, W) ==
    [r EXCEPT !.pending = @ \cup W,
              !.stage = [w \in Work |-> IF w \in W THEN "scheduled" ELSE @[w]]]

\* cancel finds no asyncio.Task and calls `finished` before it returns.
FinishesAtOnce(r, w) == w \notin r.running

\* Faulty: the callbacks are not withdrawn.
CancelledKeepsPending(r, w, hasFinished) ==
    [r EXCEPT !.running = @ \ {w},
              !.cancels = IF w \in r.running THEN @ \cup {w} ELSE @,
              !.watched = IF hasFinished /\ w \in r.running THEN @ \cup {w} ELSE @]

\* Faulty: the asyncio.Task is cancelled only for a caller that wants to know.
CancelledOnDemand(r, w, hasFinished) ==
    [r EXCEPT !.pending = @ \ {w},
              !.running = @ \ {w},
              !.cancels = IF hasFinished /\ w \in r.running THEN @ \cup {w} ELSE @,
              !.watched = IF hasFinished /\ w \in r.running THEN @ \cup {w} ELSE @]

\* Faulty: `finished` is attached only if the body has started.
CancelledTellsActive(r, w, hasFinished) ==
    [r EXCEPT !.pending = @ \ {w},
              !.running = @ \ {w},
              !.cancels = IF w \in r.running THEN @ \cup {w} ELSE @,
              !.watched = IF hasFinished /\ w \in r.running /\ r.stage[w] = "active"
                          THEN @ \cup {w} ELSE @]

\* cancel; hasFinished says whether a `finished` callback was passed.
Cancelled(r, w, hasFinished) ==
    [r EXCEPT !.pending = @ \ {w},
              !.running = @ \ {w},
              !.cancels = IF w \in r.running THEN @ \cup {w} ELSE @,
              !.watched = IF hasFinished /\ w \in r.running
                          THEN @ \cup {w} ELSE @]

\* stop: task.cancel() on every known task, both maps cleared.
Stopped(r) ==
    [r EXCEPT !.pending = {},
              !.running = {},
              !.stage = [w \in Work |->
                  IF w \in r.running /\ @[w] \in {"created", "active"}
                  THEN "unwinding" ELSE @[w]]]

-----------------------------------------------------------------------------
(* The loop thread.                                                        *)

CanSchedule(r, w) == r.stage[w] = "scheduled"

\* create_task and the write to _running.
Created(r, w) == [Moved(r, w, "created") EXCEPT !.running = @ \cup {w}]

\* schedule, up to the point where the dispatcher may interfere.
Scheduled(r, w) ==
    IF w \notin r.pending THEN Moved(r, w, "closed")
    ELSE IF SameThread THEN Created(r, w)
    ELSE Moved(r, w, "checked")

CanCreate(r, w) == r.stage[w] = "checked"

CanBegin(r, w) == r.stage[w] = "created"
Begun(r, w) == Moved(r, w, "active")

\* scheduleCancel.  The task's first step was queued before the dispatcher
\* could see the task, so it runs first; and the loop is not free between
\* execute's finally and its tail.
CanThrow(r, w) ==
    w \in r.cancels /\ r.stage[w] \notin {"created", "succeeded", "raised"}
Thrown(r, w) ==
    [Moved(r, w, IF r.stage[w] = "active" THEN "unwinding" ELSE r.stage[w])
        EXCEPT !.cancels = @ \ {w}]

\* A cancelled body ends: execute's finally pops _running.
CanUnwind(r, w) == r.stage[w] = "unwinding"
Unwound(r, w) == [Moved(r, w, "ended") EXCEPT !.running = @ \ {w}]

\* Faulty: the entry of _pending goes with that of _running.
ReturnedForgets(r, w, how) ==
    [Moved(r, w, how) EXCEPT !.running = @ \ {w}, !.pending = @ \ {w}]

\* Faulty: no `finally`.
ReturnedKeepsRunning(r, w, how) == Moved(r, w, how)

\* The body returns or raises: execute's finally pops _running.
CanReturn(r, w) == r.stage[w] = "active"
Returned(r, w, how) == [Moved(r, w, how) EXCEPT !.running = @ \ {w}]

\* Faulty: a withdrawn work is answered all the same.
AnswersAlways(r, w) == w \in Work

\* The tail of execute: the entry leaves _pending, and is answered if it was
\* still there.
CanSettle(r, w) == r.stage[w] \in {"succeeded", "raised"}
Answers(r, w) == w \in r.pending
Settled(r, w) == [Moved(r, w, "ended") EXCEPT !.pending = @ \ {w}]

\* Faulty: the done callback stays attached.
NotifiedAgain(r, w) == r

\* The done callback of a cancelled task posts `finished`.
CanNotify(r, w) == w \in r.watched \ r.cancels /\ r.stage[w] = "ended"
Notified(r, w) == [r EXCEPT !.watched = @ \ {w}]

-----------------------------------------------------------------------------
\* The body of w runs or may still run.
MayRun(r, w) ==
    \/ r.stage[w] \in {"checked", "created", "active", "unwinding"}
    \/ r.stage[w] = "scheduled" /\ w \in r.pending

=============================================================================
