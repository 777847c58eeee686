------------------------------ MODULE TaskRelay ------------------------------
(***************************************************************************)
(* What becomes of a task the browser hands over: sendTaskOrEnqueue and    *)
(* flushQueue of background.ts, the queue of task-queue.ts in the session  *)
(* storage, sendRequest of desktop-bridge.ts with its timeout, and         *)
(* _onCreateTask of browser_service.py, over the connection of Link.       *)
(*                                                                         *)
(* The queue is read and written in two steps with other handlers between  *)
(* them, a request may be given up while the program carries it out, and a *)
(* forced reconnect leaves requests pending.  The history variables name   *)
(* where that went wrong, so that the properties say what holds elsewhere. *)
(*                                                                         *)
(* The storage does what it is asked in the order it is asked, so a read   *)
(* happens where the code asks for it, and its result comes later.  What   *)
(* follows a settled promise runs before anything else happens.  The queue *)
(* is a set here: the order of its tasks is of no consequence.             *)
(*                                                                         *)
(* An operator whose comment starts with "Faulty" is no part of the model: *)
(* it is a variant of the next one with a plausible mistake, kept to see   *)
(* that the properties notice it.                                          *)
(***************************************************************************)
EXTENDS Naturals

CONSTANTS
    Tasks,        \* tasks that are handed over, each once
    NoTask,       \* what a flush sends when it awaits no answer
    MaxConnects,  \* bound: how often the connection is made
    MaxRestarts   \* bound: how often the service worker is restarted

ASSUME RelayAssumption ==
    NoTask \notin Tasks /\ MaxConnects \in Nat /\ MaxRestarts \in Nat

VARIABLES
    link,       \* the connection, see Link
    connects,   \* how often it was made
    restarts,
    call,       \* how far sendTaskOrEnqueue is for a task
    stored,     \* pendingTasks in chrome.storage.session
    copy,       \* what enqueue has read, for each task
    flush,      \* one for each time the connection is made
    request,    \* one for each task and each of those who may send it
    outcome,    \* history: what has become of a task, see NoOutcome
    mishap      \* history: how operations on the queue met, see NoMishap

vars == <<link, connects, restarts, call, stored, copy, flush, request, outcome, mishap>>

Connection == INSTANCE Link

Flushes == 1..MaxConnects
Caller == 0
Senders == Flushes \cup {Caller}

\* "reads" is that enqueue waits for the queue, "over" that the caller got an answer
\* or an error, or ended with the worker.
Stages == {"idle", "asks", "reads", "queued", "over"}

\* `read` is what flush read, `todo` the rest of its loop, `sending` what it awaits.
Flush == [stage : {"none", "reads", "sends", "done"}, read : SUBSET Tasks,
          todo : SUBSET Tasks, failed : SUBSET Tasks, sending : Tasks \cup {NoTask}]
NoFlush == [stage |-> "none", read |-> {}, todo |-> {}, failed |-> {}, sending |-> NoTask]
Flushed == [NoFlush EXCEPT !.stage = "done"]

\* `pending` is that pendingRequests has it, `live` that its connection is the present one.
Request == [at : {"unsent", "sent", "carried out", "over"}, pending : BOOLEAN, live : BOOLEAN]
Unsent == [at |-> "unsent", pending |-> FALSE, live |-> FALSE]
Sent == [at |-> "sent", pending |-> TRUE, live |-> TRUE]
Over == [at |-> "over", pending |-> FALSE, live |-> FALSE]

Requests == Tasks \X Senders

\* Tasks the program has created once and more than once, tasks whose answer the
\* extension got, and tasks with a request it gave up or lost the connection of.
NoOutcome == [once |-> {}, again |-> {}, answered |-> {}, doubtful |-> {}]

\* An update of the queue was lost; a flush read the queue while another had yet
\* to write it, or could not any more; tasks that no flush has read since they
\* were written while the connection was up.
NoMishap == [lostUpdate |-> FALSE, overlap |-> FALSE, stranded |-> {}]

---------------------------------------------------------------------------

Ready == link = "up"

\* The promises of some requests are rejected, and `ready` is isReady when the
\* catch of their senders runs.
Rejects(given, ready) ==
    /\ call' = [task \in Tasks |-> IF <<task, Caller>> \notin given THEN call[task]
                                   ELSE IF ready THEN "over" ELSE "reads"]
    /\ copy' = [task \in Tasks |-> IF <<task, Caller>> \in given /\ ~ready THEN stored
                                   ELSE copy[task]]
    /\ flush' = [f \in Flushes |-> IF <<flush[f].sending, f>> \notin given THEN flush[f]
                                   ELSE [flush[f] EXCEPT !.failed = @ \cup {flush[f].sending},
                                                         !.sending = NoTask]]

\* Tasks some of these requests may still be carried out for, or have been.
Unsettled(requests) ==
    {task \in Tasks : \E sender \in Senders :
        <<task, sender>> \in requests /\ request[<<task, sender>>].at \in {"sent", "carried out"}}

\* The connection of the requests is gone, and the answers on their way with it.
Cut(given) ==
    request' = [r \in Requests |->
        [at |-> IF request[r].at = "carried out" THEN "over" ELSE request[r].at,
         pending |-> request[r].pending /\ r \notin given, live |-> FALSE]]

UnderWay(f) == flush[f].stage \in {"reads", "sends"}

\* Whoever writes the queue puts down what it made of what it has read.
WritesQueue(read, new) ==
    /\ stored' = new
    /\ mishap' = [mishap EXCEPT !.lostUpdate = @ \/ stored # read,
                                !.stranded = IF Ready THEN new ELSE @ \cap new]

---------------------------------------------------------------------------

Init ==
    /\ Connection!Init /\ connects = 0 /\ restarts = 0
    /\ call = [task \in Tasks |-> "idle"]
    /\ stored = {} /\ copy = [task \in Tasks |-> {}]
    /\ flush = [f \in Flushes |-> NoFlush]
    /\ request = [r \in Requests |-> Unsent]
    /\ outcome = NoOutcome /\ mishap = NoMishap

\* sendTaskOrEnqueue: a download is taken, or the user asks for one.
Call(task) ==
    /\ call[task] = "idle"
    /\ IF Ready
       THEN /\ request' = [request EXCEPT ![<<task, Caller>>] = Sent]
            /\ call' = [call EXCEPT ![task] = "asks"] /\ UNCHANGED copy
       ELSE /\ call' = [call EXCEPT ![task] = "reads"] /\ UNCHANGED request
            /\ copy' = [copy EXCEPT ![task] = stored]
    /\ UNCHANGED <<link, connects, restarts, stored, flush, outcome, mishap>>

\* enqueue, when it has the queue.
Enqueue(task) ==
    /\ call[task] = "reads"
    /\ WritesQueue(copy[task], copy[task] \cup {task})
    /\ call' = [call EXCEPT ![task] = "queued"] /\ copy' = [copy EXCEPT ![task] = {}]
    /\ UNCHANGED <<link, connects, restarts, flush, request, outcome>>

\* hello_ack: onConnected calls flushQueue.  Faulty: it does so the first time only.
ConnectsOnceHeard ==
    /\ connects < MaxConnects /\ connects' = connects + 1
    /\ Connection!Connects
    /\ flush' = IF connects > 0 THEN flush
                ELSE [flush EXCEPT ![connects'] = [@ EXCEPT !.stage = "reads", !.read = stored]]
    /\ mishap' = [mishap EXCEPT !.overlap = @ \/ \E f \in Flushes : UnderWay(f),
                                !.stranded = {}]
    /\ UNCHANGED <<restarts, call, stored, copy, request, outcome>>

Connects ==
    /\ connects < MaxConnects /\ connects' = connects + 1
    /\ Connection!Connects
    /\ flush' = [flush EXCEPT ![connects'] = [@ EXCEPT !.stage = "reads", !.read = stored]]
    /\ mishap' = [mishap EXCEPT !.overlap = @ \/ \E f \in Flushes : UnderWay(f),
                                !.stranded = {}]
    /\ UNCHANGED <<restarts, call, stored, copy, request, outcome>>

\* flush, when it has the queue.
FlushStarts(f) ==
    /\ flush[f].stage = "reads"
    /\ flush' = [flush EXCEPT ![f] = IF @.read = {} THEN Flushed
                                     ELSE [@ EXCEPT !.stage = "sends", !.todo = flush[f].read]]
    /\ UNCHANGED <<link, connects, restarts, call, stored, copy, request, outcome, mishap>>

\* The loop of flush runs on until it awaits an answer.
Running(f) == flush[f].stage = "sends" /\ flush[f].sending = NoTask

FlushSends(f, task) ==
    /\ Running(f) /\ task \in flush[f].todo
    /\ IF Ready
       THEN /\ request' = [request EXCEPT ![<<task, f>>] = Sent]
            /\ flush' = [flush EXCEPT ![f] = [@ EXCEPT !.todo = flush[f].todo \ {task}, !.sending = task]]
       ELSE /\ flush' = [flush EXCEPT ![f] = [@ EXCEPT !.todo = flush[f].todo \ {task},
                                                     !.failed = flush[f].failed \cup {task}]]
            /\ UNCHANGED request
    /\ UNCHANGED <<link, connects, restarts, call, stored, copy, outcome, mishap>>

\* What flush leaves in the queue.  Faulty: nothing, so that the tasks that
\* could not be sent are gone.
KeptNothing(f) == {}

\* Faulty: all that it read, so that what was sent is sent again.
KeptAll(f) == flush[f].read

Kept(f) == flush[f].failed

FlushEnds(f) ==
    /\ Running(f) /\ flush[f].todo = {}
    /\ WritesQueue(flush[f].read, Kept(f))
    /\ flush' = [flush EXCEPT ![f] = Flushed]
    /\ UNCHANGED <<link, connects, restarts, call, copy, request, outcome>>

\* create_task_result; an answer that is no longer awaited is dropped.
AnswerArrives(task, sender) ==
    /\ request[<<task, sender>>].at = "carried out" /\ request[<<task, sender>>].live
    /\ request' = [request EXCEPT ![<<task, sender>>] = Over]
    /\ IF request[<<task, sender>>].pending
       THEN /\ outcome' = [outcome EXCEPT !.answered = @ \cup {task}]
            /\ IF sender = Caller
               THEN call' = [call EXCEPT ![task] = "over"] /\ UNCHANGED flush
               ELSE flush' = [flush EXCEPT ![sender].sending = NoTask] /\ UNCHANGED call
       ELSE UNCHANGED <<outcome, call, flush>>
    /\ UNCHANGED <<link, connects, restarts, stored, copy, mishap>>

\* The timer of sendRequest.
TimesOut(task, sender) ==
    /\ request[<<task, sender>>].pending
    /\ request' = [request EXCEPT ![<<task, sender>>].pending = FALSE]
    /\ Rejects({<<task, sender>>}, Ready)
    /\ outcome' = [outcome EXCEPT !.doubtful = @ \cup Unsettled({<<task, sender>>})]
    /\ UNCHANGED <<link, connects, restarts, stored, mishap>>

\* The connection is there, but isReady is false.
Mutes ==
    /\ Connection!FallsMute \/ Connection!ConnectsMute
    /\ UNCHANGED <<connects, restarts, call, stored, copy, flush, request, outcome, mishap>>

\* Requests lose their connection.  rejectPendingRequests rejects them if it was
\* closed by the other end; one that the bridge closes to make another leaves
\* them to their timers.
Breaks ==
    /\ Connection!Breaks
    /\ \E given \in {{}, {r \in Requests : request[r].pending}} :
           Cut(given) /\ Rejects(given, FALSE)
    /\ outcome' = [outcome EXCEPT !.doubtful = @ \cup Unsettled(Requests)]
    /\ UNCHANGED <<connects, restarts, stored, mishap>>

\* The browser ends the service worker: the storage is all that is left.
Restart ==
    /\ restarts < MaxRestarts /\ restarts' = restarts + 1
    /\ link' = "down"
    /\ Cut(Requests)
    /\ call' = [task \in Tasks |-> IF call[task] \in {"asks", "reads"} THEN "over" ELSE call[task]]
    /\ copy' = [task \in Tasks |-> {}]
    /\ flush' = [f \in Flushes |-> IF f <= connects THEN Flushed ELSE NoFlush]
    /\ outcome' = [outcome EXCEPT !.doubtful = @ \cup Unsettled(Requests)]
    /\ mishap' = [mishap EXCEPT !.overlap = @ \/ \E f \in Flushes : UnderWay(f)]
    /\ UNCHANGED <<connects, stored>>

---------------------------------------------------------------------------
(* The program: browser_service.py.  That a session has closed makes no
   difference to what it asked for, except that nobody hears the answer. *)

CarriedOut(task, sender) ==
    /\ request[<<task, sender>>].at = "sent"
    /\ request' = [request EXCEPT ![<<task, sender>>].at = IF request[<<task, sender>>].live
                                                       THEN "carried out" ELSE "over"]
    /\ UNCHANGED <<link, connects, restarts, call, stored, copy, flush, mishap>>

\* _onCreateTask and _onTaskParsed: the task is added, or a draft for the user.
Create(task, sender) ==
    /\ CarriedOut(task, sender)
    /\ outcome' = [outcome EXCEPT !.once = @ \cup {task},
                                  !.again = @ \cup ({task} \cap outcome.once)]

\* _onTaskParseFailed, and options that are refused.
Reject(task, sender) == CarriedOut(task, sender) /\ UNCHANGED outcome

\* A request goes with the connection, or with the program.
Lost(task, sender) ==
    /\ ~request[<<task, sender>>].live /\ request[<<task, sender>>].at = "sent"
    /\ request' = [request EXCEPT ![<<task, sender>>].at = "over"]
    /\ UNCHANGED <<link, connects, restarts, call, stored, copy, flush, outcome, mishap>>

---------------------------------------------------------------------------

\* What runs at once.
Loop == \E f \in Flushes : FlushEnds(f) \/ \E task \in Tasks : FlushSends(f, task)

Quiet == \A f \in Flushes : ~Running(f)

QueueEvent ==
    Quiet /\ \/ \E task \in Tasks : Enqueue(task)
             \/ \E f \in Flushes : FlushStarts(f)

RequestEvent ==
    Quiet /\ \E task \in Tasks, sender \in Senders :
                \/ AnswerArrives(task, sender) \/ TimesOut(task, sender)
                \/ Create(task, sender) \/ Reject(task, sender) \/ Lost(task, sender)

OtherEvent ==
    Quiet /\ \/ \E task \in Tasks : Call(task)
             \/ Connects \/ Mutes \/ Breaks \/ Restart

Next == Loop \/ QueueEvent \/ RequestEvent \/ OtherEvent

Spec == Init /\ [][Next]_vars

\* Handlers run on, the storage answers, and what was sent is answered, lost or
\* timed out.  The bridge is under no obligation here.
FairSpec == Spec /\ WF_vars(Loop) /\ WF_vars(QueueEvent) /\ WF_vars(RequestEvent)

---------------------------------------------------------------------------
(* Properties. *)

\* A task the user was told is queued is in the queue until the program has
\* answered for it, through flushes that fail half way, broken connections and
\* restarts, as long as no two updates of the queue crossed.
QueuedIsKept ==
    \A task \in Tasks :
        call[task] = "queued" /\ ~mishap.lostUpdate => task \in stored \cup outcome.answered

\* The program creates a task twice only where the extension could not know
\* that it had been created, or where two users of the queue crossed.
CreatedOnce ==
    outcome.again \subseteq outcome.doubtful \/ mishap.lostUpdate \/ mishap.overlap

\* While the connection holds, the queue is emptied; only what was put there
\* after the flush of this connection had read it, or failed in it, stays.
QueueIsFlushed ==
    <>[](link = "up") => \A task \in Tasks : <>[](task \in stored => task \in mishap.stranded)
=============================================================================
