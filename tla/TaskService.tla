----------------------------- MODULE TaskService -----------------------------
(***************************************************************************)
(* app/services/task_service.py: the queue of tasks and the works it keeps *)
(* on a CoroutineRunner, with the interleavings of the dispatcher thread   *)
(* (user commands, callbacks) and the loop thread (the bodies).            *)
(*                                                                         *)
(* A task stands for what is left of it to download: its status is that of *)
(* its steps taken together.  A handler is one step, with every call it    *)
(* makes; it is written as a function from service states to service       *)
(* states, so that its calls compose in the order of the code.  Files,     *)
(* names and records on disk are left to other modules.                    *)
(*                                                                         *)
(* An operator whose comment starts with "Faulty" is no part of the model: *)
(* it is a variant of the next one with a plausible mistake, kept to see   *)
(* that the properties notice it.                                          *)
(***************************************************************************)
EXTENDS Naturals, Sequences, FiniteSets

CONSTANTS
    TaskCount,    \* the tasks are 1..TaskCount, in the order of the store
    Saved,        \* those in the Task Record when the service starts
    Seedable,     \* those whose pack can seed (task.canSeed)
    Filed,        \* those with an output file to watch (task.hasOutputFile)
    Fixed,        \* those whose running step cannot be paused (~task.canPause)
    MaxSlots,     \* bound on cfg.maxTaskNum
    MaxWorks,     \* bound on the works there are at a time
    Ops,          \* the commands a run of the checker exercises
    Observed,     \* the tasks whose pauses the history `held` follows
    SameThread    \* TRUE on Android, where dispatcher and loop are one thread

Task == 1..TaskCount
\* A handler may need an id before it has forgotten that of the work it is called for.
Serials == 1..MaxWorks + 1
WorkIds == (Task \X {"run"} \X Serials) \cup (Seedable \X {"seed"} \X Serials)

ASSUME ServiceAssumption ==
    /\ TaskCount \in Nat /\ MaxSlots \in Nat \ {0} /\ MaxWorks \in Nat \ {0}
    /\ Saved \subseteq Task /\ Seedable \subseteq Task
    /\ Filed \subseteq Task /\ Fixed \subseteq Task /\ Observed \subseteq Task

R == INSTANCE Runner WITH Work <- WorkIds

None == <<>>                       \* no work id
Status == {"waiting", "running", "paused", "completed", "failed"}
\* What the `finished` callback of a cancel does once the work is over.
Afters == {"nothing", "delete", "redownload", "edit", "revive"}

VARIABLES
    svc,      \* the service, its tasks, the runner and the dispatcher's queue
    held      \* history: tasks paused and not resumed by a command since or before

vars == <<svc, held>>

TaskOf(w) == w[1]
IsRun(w) == w[2] = "run"

Services == [
    slots : 1..MaxSlots,                          \* cfg.maxTaskNum
    tasks : SUBSET Task,                          \* _store._tasks
    known : SUBSET Task,                          \* ids ever given
    status : [Task -> Status],                    \* task.status
    waiting : Seq(Task),                          \* _queue._waiting
    running : Seq(Task),                          \* keys of _queue._running
    workOf : [Task -> WorkIds \cup {None}],       \* values of _queue._running
    seeding : [Task -> WorkIds \cup {None}],      \* _seeding
    isSeeding : [Task -> BOOLEAN],
    shouldSeed : [Task -> BOOLEAN],
    watched : SUBSET Task,                        \* _watchedPaths
    after : [WorkIds -> Afters],                  \* `finished` of a cancelled work
    stepping : SUBSET WorkIds,                    \* runs inside a step
    runner : R!Runners,
    inbox : Seq([work : WorkIds, kind : {"done", "failed", "finished"}])]

Holds(seq, t) == \E i \in 1..Len(seq) : seq[i] = t

\* What is left of a list when the place of t in it is removed, if it has one.
Without(seq, t) ==
    IF ~Holds(seq, t) THEN seq
    ELSE LET i == CHOOSE i \in 1..Len(seq) : seq[i] = t
         IN  SubSeq(seq, 1, i - 1) \o SubSeq(seq, i + 1, Len(seq))

\* Those of a list that are in T, in its order.
Only(seq, T) ==
    LET only[n \in 0..Len(seq)] ==
            IF n = 0 THEN <<>>
            ELSE IF seq[n] \in T THEN Append(only[n - 1], seq[n]) ELSE only[n - 1]
    IN  only[Len(seq)]

IsRunning(s, t) == Holds(s.running, t)
IsWaiting(s, t) == Holds(s.waiting, t)
InInbox(s, w, kinds) ==
    \E i \in 1..Len(s.inbox) : s.inbox[i].work = w /\ s.inbox[i].kind \in kinds

\* A work of t is being stopped with something to do afterwards; to start t.
IsStopping(s, t) == \E w \in WorkIds : TaskOf(w) = t /\ s.after[w] # "nothing"
IsRestarting(s, t) == \E w \in WorkIds : TaskOf(w) = t /\ s.after[w] \notin {"nothing", "delete"}

\* The callbacks of w may still be called: its body may run, and no cancel
\* withdrew them.
IsActive(w) ==
    w \in svc.runner.pending /\ (R!MayRun(svc.runner, w) \/ R!CanSettle(svc.runner, w))

ActiveRuns(t) == {w \in WorkIds : TaskOf(w) = t /\ IsRun(w) /\ IsActive(w)}

\* A run of t is not the one in its slot, where the service would find it.
IsAstray(t) == ActiveRuns(t) \ {svc.workOf[t]} # {}

-----------------------------------------------------------------------------
(* Work ids.  uuid4 never repeats; here an id to which nothing refers any  *)
(* more is forgotten, so that finitely many are enough.                    *)

Forgettable(s, w) ==
    /\ s.runner.stage[w] \in {"ended", "closed"}
    /\ w \notin s.runner.cancels \cup s.runner.watched
    /\ ~InInbox(s, w, {"done", "failed", "finished"})
    /\ s.workOf[TaskOf(w)] # w /\ s.seeding[TaskOf(w)] # w
    /\ s.after[w] = "nothing"

Tidy(s) == [s EXCEPT !.runner.stage = [w \in WorkIds |-> IF Forgettable(s, w) THEN "unborn"
                                                         ELSE s.runner.stage[w]]]

Unborn(s, t, kind) == {k \in Serials : s.runner.stage[<<t, kind, k>>] = "unborn"}
NewWork(s, t, kind) == <<t, kind, CHOOSE k \in Unborn(s, t, kind) :
                                    \A j \in Unborn(s, t, kind) : k <= j>>

\* The works there may be at a time: those there are, one more for each restart
\* still to come when a work has stopped and for each place in the queue.  A
\* command adds at most one per task it restarts.
Demand(s) ==
    Cardinality({w \in WorkIds : s.runner.stage[w] # "unborn"})
    + Cardinality({w \in WorkIds : s.after[w] # "nothing"})
    + Len(s.waiting)
HasRoom(s, n) == Demand(s) + n <= MaxWorks

\* Every task has an id left for a run and for a seeding.  HasRoom keeps it so.
HasIds(s) ==
    \A t \in Task : /\ Unborn(s, t, "run") # {}
                    /\ t \in Seedable => Unborn(s, t, "seed") # {}

-----------------------------------------------------------------------------
(* Calls the handlers share.                                               *)

\* Task.setStatus: a completed step stays completed.
SetStatus(s, t, to) ==
    IF s.status[t] = "completed" THEN s ELSE [s EXCEPT !.status[t] = to]

Dispatch(s, t) ==
    LET w == NewWork(s, t, "run")
    IN [SetStatus(s, t, "running") EXCEPT
            !.runner = R!Submitted(s.runner, {w}),
            !.running = IF IsRunning(s, t) THEN s.running ELSE Append(s.running, t),
            !.workOf[t] = w]

\* The head of the queue leaves it, to run if its task is still in the store.
PopNext(s) ==
    LET t == Head(s.waiting)
        popped == [s EXCEPT !.waiting = Tail(s.waiting)]
    IN  IF t \in s.tasks THEN Dispatch(popped, t) ELSE popped

\* Faulty: one slot too many.
PumpOneMore(s) == IF Len(s.running) > s.slots \/ s.waiting = <<>> THEN s ELSE PopNext(s)

\* Faulty: no look at the store.
PumpOneBlindly(s) ==
    IF Len(s.running) >= s.slots \/ s.waiting = <<>> THEN s
    ELSE Dispatch([s EXCEPT !.waiting = Tail(s.waiting)], Head(s.waiting))

\* One turn of _pump's loop: while slots are free and tasks wait.
PumpOne(s) == IF Len(s.running) >= s.slots \/ s.waiting = <<>> THEN s ELSE PopNext(s)

Pump(s) ==
    LET pumped[n \in 0..Len(s.waiting)] == IF n = 0 THEN s ELSE PumpOne(pumped[n - 1])
    IN  pumped[Len(s.waiting)]

\* Faulty: a task may be queued twice.
WaitAgain(s, t) == [s EXCEPT !.waiting = Append(@, t)]

Wait(s, t) == IF IsWaiting(s, t) THEN s ELSE [s EXCEPT !.waiting = Append(@, t)]
Schedule(s, t) == Pump(Wait(s, t))

Seed(s, t) ==
    LET w == NewWork(s, t, "seed")
    IN [s EXCEPT !.runner = R!Submitted(s.runner, {w}),
                 !.isSeeding[t] = TRUE,
                 !.seeding[t] = w]

\* The `finished` callbacks.  delete only touches files.  edit fails with a
\* KeyError, which post logs, when the task has left the store.
After(s, t, what) ==
    CASE what \in {"nothing", "delete"} -> s
      [] what = "redownload" -> Schedule([s EXCEPT !.status[t] = "waiting",
                                                   !.shouldSeed[t] = TRUE], t)
      [] what = "edit" -> IF t \in s.tasks THEN Schedule(s, t) ELSE s
      [] what = "revive" -> Schedule(s, t)

\* Faulty: the queue is not told.
CancelWorkQuietly(s, t, what) ==
    LET w == IF IsRunning(s, t) THEN s.workOf[t] ELSE s.seeding[t]
        left == [s EXCEPT !.seeding[t] = IF IsRunning(s, t) THEN @ ELSE None,
                          !.isSeeding[t] = FALSE]
    IN IF w = None THEN After(left, t, what)
       ELSE LET cut == [left EXCEPT !.runner = R!Cancelled(s.runner, w, what # "nothing")]
            IN IF R!FinishesAtOnce(s.runner, w) THEN After(cut, t, what)
               ELSE [cut EXCEPT !.after[w] = what]

\* _cancelWork: the run of the task or else its seeding is cancelled, and the
\* callback runs at once if there is no work, or none on the loop.
CancelWork(s, t, what) ==
    LET w == IF IsRunning(s, t) THEN s.workOf[t] ELSE s.seeding[t]
        left == [s EXCEPT !.waiting = Without(@, t),
                          !.running = Without(@, t),
                          !.workOf[t] = None,
                          !.seeding[t] = IF IsRunning(s, t) THEN @ ELSE None,
                          !.isSeeding[t] = FALSE]
    IN IF w = None THEN After(left, t, what)
       ELSE LET cut == [left EXCEPT !.runner = R!Cancelled(s.runner, w, what # "nothing")]
            IN IF R!FinishesAtOnce(s.runner, w) THEN After(cut, t, what)
               ELSE [cut EXCEPT !.after[w] = what]

Unwatch(s, t) == [s EXCEPT !.watched = @ \ {t}]

Paused(s, t) == Pump(SetStatus(CancelWork(s, t, "nothing"), t, "paused"))

Deleted(s, t) ==
    LET stopped == CancelWork(Unwatch(s, t), t, "delete")
    IN Pump([stopped EXCEPT !.tasks = stopped.tasks \ {t}])

\* Scheduling several tasks one by one, in the order of the store, is queueing
\* them all and pumping once.
Queued(s, T) ==
    LET queued[n \in 0..TaskCount] ==
            IF n = 0 THEN s ELSE IF n \in T THEN Wait(queued[n - 1], n) ELSE queued[n - 1]
    IN  queued[TaskCount]

ScheduledAll(s, T) == Pump(Queued(s, T))

-----------------------------------------------------------------------------
(* Start of the service: resumeSaved has run for what the Task Record held. *)
(* A task that was running when the record was written waits again.        *)

Fresh(slots, status) ==
    LET seeds == {t \in Saved \cap Seedable : status[t] = "completed"}
    IN  [slots |-> slots, tasks |-> Saved, known |-> Saved, status |-> status,
         waiting |-> <<>>, running |-> <<>>, workOf |-> [t \in Task |-> None],
         seeding |-> [t \in Task |-> IF t \in seeds THEN <<t, "seed", 1>> ELSE None],
         isSeeding |-> [t \in Task |-> t \in seeds],
         shouldSeed |-> [t \in Task |-> TRUE],
         watched |-> {t \in Saved \cap Filed : status[t] = "completed"},
         after |-> [w \in WorkIds |-> "nothing"], stepping |-> {},
         runner |-> R!Submitted(R!NewRunner, {<<t, "seed", 1>> : t \in seeds}), inbox |-> <<>>]

Init ==
    /\ \E slots \in 1..MaxSlots, status \in [Task -> Status \ {"running"}] :
        /\ \A t \in Task \ Saved : status[t] = "waiting"
        /\ svc = ScheduledAll(Fresh(slots, status), {t \in Saved : status[t] = "waiting"})
    /\ held = {}

-----------------------------------------------------------------------------
(* Commands: the views, the browser extension and the command line.        *)

Asked(op) == op \in Ops /\ HasIds(svc)
Command(op, t) == Asked(op) /\ t \in svc.tasks
Restart(op, t) == Command(op, t) /\ HasRoom(svc, 1)

\* add: a new task, maybe in the place of one that held its path; autoStart is
\* FALSE too when the disk is short of space.  The store changes first in the code; a
\* cancel does not look at the store.
Add(t, autoStart) ==
    /\ Asked("add") /\ t \notin svc.known /\ HasRoom(svc, 1)
    /\ \A u \in Task : u < t => u \in svc.known
    /\ \E replaced \in {0} \cup svc.tasks :
        LET cut == IF replaced = 0 THEN svc
                   ELSE CancelWork(Unwatch(svc, replaced), replaced, "nothing")
            added == [cut EXCEPT !.tasks = (cut.tasks \ {replaced}) \cup {t},
                                 !.known = cut.known \cup {t}]
        IN svc' = Tidy(IF autoStart THEN Schedule(added, t) ELSE added)
    /\ UNCHANGED held

\* The views offer it unless the task is completed.
Start(t) ==
    /\ Restart("start", t) /\ svc.status[t] # "completed"
    /\ svc' = Tidy(IF IsRunning(svc, t) \/ IsWaiting(svc, t) THEN svc ELSE Schedule(svc, t))
    /\ held' = held \ {t}

Pause(t) ==
    /\ Command("pause", t) /\ svc.status[t] # "completed" /\ t \notin Fixed
    /\ svc' = Tidy(Paused(svc, t))
    /\ held' = IF IsRestarting(svc, t) \/ IsAstray(t) THEN held ELSE held \cup ({t} \cap Observed)

Delete(t) ==
    /\ Command("delete", t)
    /\ svc' = Tidy(Deleted(svc, t))
    /\ UNCHANGED held

Redownload(t) ==
    /\ Restart("redownload", t)
    /\ svc' = Tidy(CancelWork(Unwatch(svc, t), t, "redownload"))
    /\ held' = held \ {t}

\* The views offer it unless the task is completed.
Edit(t) ==
    /\ Restart("edit", t) /\ svc.status[t] # "completed"
    /\ svc' = Tidy(CancelWork(svc, t, "edit"))
    /\ held' = held \ {t}

\* updateSelection on a completed task, with a file not downloaded yet.
Revive(t) ==
    /\ Restart("revive", t) /\ svc.status[t] = "completed"
    /\ svc' = Tidy(CancelWork(Unwatch([svc EXCEPT !.status[t] = "waiting"], t), t, "revive"))
    /\ held' = held \ {t}

StartAll ==
    /\ Asked("startAll")
    /\ LET chosen == {t \in svc.tasks : svc.status[t] \in {"paused", "waiting", "failed"}}
       IN /\ HasRoom(svc, Cardinality({t \in chosen : ~IsWaiting(svc, t)}))
          /\ svc' = Tidy(ScheduledAll(svc, chosen))
          /\ held' = held \ chosen

\* pauseAll pumps after each pause: what a pause dispatches is paused in turn when the
\* loop reaches it; a task that runs and waits may get a second run before.
PausedAll(s) ==
    LET paused[n \in 0..TaskCount] ==
            IF n = 0 THEN s
            ELSE IF n \in s.tasks /\ (IsRunning(paused[n - 1], n) \/ IsWaiting(paused[n - 1], n))
            THEN Paused(paused[n - 1], n) ELSE paused[n - 1]
    IN  paused[TaskCount]

PauseAll ==
    /\ Asked("pauseAll")
    /\ svc' = Tidy(PausedAll(svc))
    /\ held' = held \cup {t \in svc.tasks \cap Observed :
                              /\ IsRunning(svc, t) # IsWaiting(svc, t)
                              /\ ~IsRestarting(svc, t) /\ ~IsAstray(t)}

MoveToFront(T) ==
    /\ Asked("moveToFront") /\ \E t \in T : IsWaiting(svc, t)
    /\ svc' = [svc EXCEPT !.waiting = Only(svc.waiting, T) \o Only(svc.waiting, Task \ T)]
    /\ UNCHANGED held

StartSeeding(t) ==
    /\ Restart("seed", t) /\ t \in Seedable
    /\ svc.status[t] = "completed" /\ ~svc.isSeeding[t]
    /\ svc' = Tidy(Seed([svc EXCEPT !.shouldSeed[t] = TRUE], t))
    /\ UNCHANGED held

StopSeeding(t) ==
    /\ Command("seed", t) /\ svc.isSeeding[t]
    /\ svc' = Tidy(CancelWork([svc EXCEPT !.shouldSeed[t] = FALSE], t, "nothing"))
    /\ UNCHANGED held

\* _rebalance, for one of the runs beyond the limit: it goes back in the queue.
Suspended(s, t) ==
    IF t \in s.tasks \ Fixed
    THEN Wait(SetStatus(CancelWork(s, t, "nothing"), t, "waiting"), t) ELSE s

\* Those beyond the limit, in their order.
Rebalanced(s) ==
    LET rebalanced[n \in 0..Len(s.running)] ==
            IF n = 0 THEN s
            ELSE IF n > s.slots THEN Suspended(rebalanced[n - 1], s.running[n]) ELSE rebalanced[n - 1]
    IN  rebalanced[Len(s.running)]

\* cfg.maxTaskNum changes.
SetMaxTaskNum(n) ==
    /\ Asked("slots") /\ n # svc.slots /\ HasRoom(svc, Len(svc.running) - n)
    /\ svc' = Tidy(Pump(Rebalanced([svc EXCEPT !.slots = n])))
    /\ UNCHANGED held

\* The output file of a finished task disappears.
WatchedFileChanged(t, shouldRemoveMissing) ==
    /\ Asked("watch") /\ t \in svc.watched
    /\ svc' = Tidy(LET s == Unwatch(svc, t) IN
                   IF t \notin s.tasks THEN s
                   ELSE IF shouldRemoveMissing THEN Deleted(s, t)
                   ELSE CancelWork(s, t, "nothing"))
    /\ UNCHANGED held

-----------------------------------------------------------------------------
(* Callbacks, in the order in which they were posted.                      *)

\* Faulty: the slot is not given back.
RunOverKeepsSlot(s, t) == [s EXCEPT !.workOf[t] = None]

RunOver(s, t) == [s EXCEPT !.running = Without(@, t), !.workOf[t] = None]

\* _onRunDone
RunDone(s, t) ==
    LET free == [RunOver(s, t) EXCEPT !.watched = s.watched \cup ({t} \cap Filed)]
    IN Pump(IF s.status[t] = "completed" /\ t \in Seedable /\ s.shouldSeed[t]
            THEN Seed(free, t) ELSE free)

\* Faulty: the queue does not move on.
RunFailedNoPump(s, t) == RunOver(s, t)

\* _onRunFailed
RunFailed(s, t) == Pump(RunOver(s, t))

\* Faulty: the task goes on showing as seeding.
SeedingEndedShown(s, t, kind) == [s EXCEPT !.seeding[t] = None]

\* _onSeedingEnded, after _onSeedingDone if the seeding ended by itself
SeedingEnded(s, t, kind) ==
    [s EXCEPT !.shouldSeed[t] = IF kind = "done" THEN FALSE ELSE @,
              !.seeding[t] = None,
              !.isSeeding[t] = FALSE]

Called(s, w, kind) ==
    CASE kind = "finished" -> After([s EXCEPT !.after[w] = "nothing"], TaskOf(w), s.after[w])
      [] kind = "done" /\ IsRun(w) -> RunDone(s, TaskOf(w))
      [] kind = "failed" /\ IsRun(w) -> RunFailed(s, TaskOf(w))
      [] kind # "finished" /\ ~IsRun(w) -> SeedingEnded(s, TaskOf(w), kind)

Deliver ==
    /\ svc.inbox # <<>> /\ HasIds(svc)
    /\ LET c == Head(svc.inbox)
           popped == [svc EXCEPT !.inbox = Tail(@)]
       IN svc' = Tidy(Called(popped, c.work, c.kind))
    /\ UNCHANGED held

-----------------------------------------------------------------------------
(* The loop thread.  The body of a run is Task.run: it enters its step only *)
(* if the task is running by then, completes or fails it, and if cancelled *)
(* may mark it paused on its way out, as the HTTP, FTP, HLS and ffmpeg     *)
(* steps do.                                                               *)

Schedules(w) ==
    /\ R!CanSchedule(svc.runner, w)
    /\ svc' = Tidy([svc EXCEPT !.runner = R!Scheduled(svc.runner, w)])

Creates(w) ==
    /\ R!CanCreate(svc.runner, w)
    /\ svc' = [svc EXCEPT !.runner = R!Created(svc.runner, w)]

Begins(w) ==
    /\ R!CanBegin(svc.runner, w)
    /\ svc' = [svc EXCEPT !.runner = R!Begun(svc.runner, w),
                          !.stepping = IF IsRun(w) /\ svc.status[TaskOf(w)] = "running"
                                       THEN @ \cup {w} ELSE @]

Throws(w) ==
    /\ R!CanThrow(svc.runner, w)
    /\ svc' = Tidy([svc EXCEPT !.runner = R!Thrown(svc.runner, w)])

Unwinds(w, marksPaused) ==
    /\ R!CanUnwind(svc.runner, w)
    /\ marksPaused => w \in svc.stepping
    /\ svc' = Tidy([svc EXCEPT !.runner = R!Unwound(svc.runner, w),
                               !.stepping = @ \ {w},
                               !.status[TaskOf(w)] = IF marksPaused THEN "paused" ELSE @])

\* The tail of execute: the callback is posted if cancel has not withdrawn it.
Settled(s, w, how) ==
    [s EXCEPT !.runner = R!Settled(s.runner, w),
              !.inbox = IF R!Answers(s.runner, w)
                        THEN Append(@, [work |-> w,
                                        kind |-> IF how = "succeeded" THEN "done" ELSE "failed"])
                        ELSE @]

\* A run outside its step has nothing to do and succeeds.
Returns(w, how) ==
    /\ R!CanReturn(svc.runner, w)
    /\ how = "raised" => w \in svc.stepping \/ ~IsRun(w)
    /\ LET over == [svc EXCEPT
               !.runner = R!Returned(svc.runner, w, how),
               !.stepping = @ \ {w},
               !.status[TaskOf(w)] = IF w \notin svc.stepping THEN @
                                     ELSE IF how = "succeeded" THEN "completed" ELSE "failed"]
       IN svc' = Tidy(IF SameThread THEN Settled(over, w, how) ELSE over)

Settles(w) ==
    /\ R!CanSettle(svc.runner, w)
    /\ svc' = Tidy(Settled(svc, w, svc.runner.stage[w]))

Notifies(w) ==
    /\ R!CanNotify(svc.runner, w)
    /\ svc' = [svc EXCEPT !.runner = R!Notified(svc.runner, w),
                          !.inbox = Append(@, [work |-> w, kind |-> "finished"])]

-----------------------------------------------------------------------------
\* What the loop does by itself; that a body comes to an end is not part of it.
LoopStep(w) ==
    /\ Schedules(w) \/ Creates(w) \/ Begins(w) \/ Throws(w) \/ Settles(w) \/ Notifies(w)
       \/ \E marksPaused \in BOOLEAN : Unwinds(w, marksPaused)
    /\ UNCHANGED held

BodyReturns(w) ==
    /\ \E how \in {"succeeded", "raised"} : Returns(w, how)
    /\ UNCHANGED held

Next ==
    \/ \E t \in Task :
        \/ \E autoStart \in BOOLEAN : Add(t, autoStart)
        \/ Start(t) \/ Pause(t) \/ Delete(t) \/ Redownload(t) \/ Edit(t) \/ Revive(t)
        \/ StartSeeding(t) \/ StopSeeding(t)
        \/ \E shouldRemoveMissing \in BOOLEAN : WatchedFileChanged(t, shouldRemoveMissing)
    \/ \E T \in SUBSET Task : MoveToFront(T)
    \/ \E n \in 1..MaxSlots : SetMaxTaskNum(n)
    \/ StartAll \/ PauseAll
    \/ Deliver
    \/ \E w \in WorkIds : LoopStep(w) \/ BodyReturns(w)

Spec == Init /\ [][Next]_vars

\* Both event loops keep turning, and a cancelled body ends.  A download has no
\* obligation to end.
Fairness == WF_vars(Deliver) /\ \A w \in WorkIds : WF_vars(LoopStep(w))

FairSpec == Spec /\ Fairness

-----------------------------------------------------------------------------
(* Properties.                                                             *)

\* The service, its runner and the callbacks under way have their types; no task
\* waits twice, and those with an entry in _queue._running are those with a run.
TypeOK ==
    /\ svc \in Services /\ held \subseteq Task
    /\ \A i, j \in 1..Len(svc.waiting) : svc.waiting[i] = svc.waiting[j] => i = j
    /\ \A t \in Task : IsRunning(svc, t) <=> svc.workOf[t] # None

\* A task in a slot has a work that will give the slot back: its body is active
\* or its callback is on its way.  Nothing that died holds a slot.
SlotHeldByLiveWork ==
    \A t \in Task : IsRunning(svc, t) =>
        LET w == svc.workOf[t]
        IN w # None /\ (IsActive(w) \/ InInbox(svc, w, {"done", "failed"}))

\* No more tasks hold slots than maxTaskNum allows, except those that could not
\* be paused when the limit was lowered.
SlotsRespected ==
    \A i \in svc.slots + 1 .. Len(svc.running) : svc.running[i] \in Fixed

\* No slot is free while a task waits, unless a task is being stopped with
\* something to do afterwards.
HasIdleSlot(s) ==
    /\ Len(s.running) < s.slots /\ s.waiting # <<>>
    /\ ~\E t \in Task : IsStopping(s, t)

\* Nothing but an add, which may put a paused task in the place of a running one,
\* leaves a slot idle, as long as nothing seeds and no file is watched (stopSeeding and
\* a watched file that disappears may cancel a run and do not pump).
NoSlotGoesIdle ==
    [][HasIdleSlot(svc)' /\ svc'.known = svc.known => HasIdleSlot(svc)]_vars

\* A paused task has no run, in a slot or out of it, and is not queued until a command
\* resumes it.  A pause is not followed if it finds a restart under way, which overrides it,
\* or a run it does not reach: a task may have two (AtMostOneTaskRun).
PauseHolds == \A t \in held : ~IsRunning(svc, t) /\ ~IsWaiting(svc, t) /\ ActiveRuns(t) = {}

\* A task has zero or one active Task Run.
AtMostOneTaskRun == \A t \in Task : Cardinality(ActiveRuns(t)) <= 1

\* A task that shows as seeding has a seeding: its body is active or its callback
\* is on its way.
ShownSeedingIsLive ==
    \A t \in svc.tasks : svc.isSeeding[t] =>
        LET w == svc.seeding[t]
        IN w # None /\ (IsActive(w) \/ InInbox(svc, w, {"done", "failed"}))

\* A run is started only for a task of the store.
OnlyStoredTasksStart ==
    [][\A w \in WorkIds : IsRun(w) /\ w \in svc'.runner.pending \ svc.runner.pending
          => TaskOf(w) \in svc'.tasks]_vars

\* A stop that was to be followed by something is.
StopIsFollowedUp == \A w \in WorkIds : svc.after[w] # "nothing" ~> svc.after[w] = "nothing"

=============================================================================
