# Ghost Downloader 3: specifications

TLA+ specifications of Ghost Downloader (the Python program in `app/` and
`features/`, its browser extension, its updater), with the TLC runs that check
them and the TLAPS proofs of the theorems about them. Paths and line numbers are
those of the repository; `PROJECT.json` maps every definition to the lines it
models.

## 1. The system

### Threads

The program has two event loops. The **dispatcher** is Qt's main thread: user
commands, service methods and callbacks run on it. The **loop** is an asyncio
loop that runs the coroutines ("works"): downloads, parses, probes, servers. On
desktop they are two threads, on Android one (ADR 0012). They talk through
`CoroutineRunner` only: `submit` and `cancel` post functions into the loop
(`call_soon_threadsafe`), `post` puts callbacks in the dispatcher's queue.

### Components

| Component | State | Operations | Talks to | Hard part | Modelled |
|---|---|---|---|---|---|
| `CoroutineRunner` (`app/services/coroutine_runner.py`) | `_pending` (owner and callbacks of each work), `_running` (its asyncio.Task), the loop's ready queue, the dispatcher's queue | submit, cancel (with or without `finished`), post, stop; on the loop schedule, execute, scheduleCancel | every service | two threads touch both maps; cancel meets every stage of a work | `Runner`, `CoroutineRunner`, `WorkContract` |
| `TaskService` (`task_service.py`) | `TaskQueue` (waiting, running), `_seeding`, `_checksums`, `_watchedPaths`, the tasks' status | add, start, pause, delete, redownload, edit, updateSelection, startAll, pauseAll, moveToFront, seeding, checksums, maxTaskNum; callbacks of runs and seedings | runner, store, packs | results cross commands; commands wait for a stop; slots | `TaskService` |
| `TaskStore` (`task_service.py:26-215`) | tasks by id, taken paths, the record file | add, remove, probeConflict, updatePlaceholders, flush, load | disk | names against the disk, debounced flush, crash | `TaskNames` (names) |
| `Task`, steps (`app/models/task.py`) | status and progress of each step, selection | setStatus, run, runSeeding, reset, relink | pack bodies | derived status; a cancelled run writes it late | partly, in `TaskService` |
| HTTP step (`features/http_pack/task.py`) | list of subworkers, file, record `<path>.ghd`, `fileSize`, `canUseRangeRequests` | run, split, take over, give up, supervise, resume | HTTP server, disk | ranges shared among coroutines, resume after a crash, wrong sizes | `HttpStep` |
| Drafts (`task_draft.py`, `name_conflict_queue.py`) | items with a parse under way, a result or an error; conflicts in a queue | setUrls, refresh, confirm, clear; setChoice, cancel | parser, `TaskService.add` | parses that end after the item changed | `TaskIntake` |
| Parsing (`feature_service.py`, `app/models/pack.py`) | packs, parsers, slots per host | parse, match, activate, deactivate | packs | order of parsers, the wait in deactivate | no |
| Port listener (`port_listener.py`) | servers, connections, state, a lock | request, open, close | configuration | overlapping requests, late results | as one that listens or not, in `DesktopBridge` |
| Browser service (`browser_service.py`, `websocket_stream.py`) | sessions, pair request, token | hello, pairing, create task, task action, snapshots | extension, `TaskService`, drafts | one pairing among several sessions, results for closed ones | `DesktopBridge` (sessions, pairing), `TaskRelay` (tasks) |
| Desktop bridge (`background/desktop-bridge.ts`) | socket, probes, pending requests, token, state | connect, requestPairing, sendRequest, reconnect | browser service, storage | probes in parallel, echoes of its own saves, timeouts | `DesktopBridge`, `Link`, `TaskRelay` |
| Hand-over of tasks (`background.ts`, `background/task-queue.ts`) | queue in the session storage | sendTaskOrEnqueue, enqueue, flush | bridge | read, wait, write back; retries of what was done | `TaskRelay` |
| Page media (`page-media/attribution`, `media-button`) | sessions of videos, ledger of URLs, recent fetches, the click | fetches, appends, bindings, releases, click | background, hooks in the page | one fact kept twice, a click that waits | `Attribution` |
| Rest of the extension | resources per tab | capture, popup | browser | event plumbing | no |
| Updates (`update_service.py`, `updater.c`) | state per target, staging folder, program folders | check, download, apply; patch, swap, roll back | network, disk | a stop between two renames | no |
| Runtimes (`runtime_status.py`) | status and work per runtime | probe, install, cancel, fetch latest | runner | stale answers | no |
| One instance (`instance.py`, `cli.py`, `ghd.c`) | lock, local socket, pending invocations | open, request, receive | operating system | two starts at a time | no |
| Speed meter, plan | counters, timer | addSpeed, waitForSpeedLimit | bodies | one more await of a body | no |
| aria2 RPC, CLI | none of their own | translate requests | `TaskService` | covered by its commands | no |
| Other packs | their own bodies | download | runner | each is a body of a work | no |
| Engine, signals, views, configuration, platform | wiring and user interface | | services | signals are synchronous calls | no |

What makes them correct: a work is answered once and a cancelled body is over
when its `finished` is called (runner); one run per task, no more runs than
slots, no idle slot, a pause holds, a stop is followed up (TaskService); the file
is whole when the step is done, however it was interrupted (HTTP); names never
collide and a restart finds what was written (store); an item is added once or
not at all (drafts); the state shown is that of the last request (listener);
an approval reaches the session that asked (browser);
the bridge finds its way back (bridge); a task that is handed over is neither lost nor
created twice (relay); a video gets the URLs whose bytes it played (page media); there is always a program
to start (updater). The hazards in `PROJECT.json` name the lines where each of
these could go wrong.

## 2. Modules

### `Runner`, `CoroutineRunner`, `WorkContract`

`Runner` holds the data of the runner as a record (`pending`, `running`, the
`stage` of each coroutine, `cancels` posted to the loop, works `watched` by a
`finished` callback) and one function on it for each piece of code that the other
thread cannot interrupt: `Submitted` is `submit`, `Cancelled` is `cancel`,
`Scheduled` and `Created` are the two halves of `schedule` (the test of
`_pending`, then `create_task`), `Begun`, `Unwound`, `Returned` and `Settled` are
`execute` up to its first await, its two ends and its tail, `Thrown` and
`Notified` are `scheduleCancel`. `SameThread` says whether dispatcher and loop are
one thread; then the halves are one step.

`CoroutineRunner` is the state machine: actions of the dispatcher (`Submit`,
`Cancel`, `CancelAndTell`, `Deliver`, `Stop`) and of the loop. Histories record
what was cancelled, asked and delivered. Bodies are arbitrary: they return, raise
or run for ever; once cancelled they end. `WorkContract` is the abstract promise:
each work is unborn, live, stopping or over, is reported at most once, and
`finished` comes once, after the body. `ImplementsContract` maps the runner to it.

### `TaskService`

One record `svc` is the service, its tasks, the runner (`INSTANCE Runner`) and the
dispatcher's queue. A handler is one action with all the calls it makes:
`Schedule`, `Pump`, `CancelWork`, `Dispatch` and `Seed` are functions on the record
and compose in the order of the code, and `After` is what a `finished` callback does.
Loop steps (`Schedules`, `Begins`, `Unwinds`, `Returns`, ...) change the runner and
the task's status as `Task.run` does, including the status PAUSED that a
cancelled step may set late. A constant `Ops` selects the commands that a run
exercises. Ids are `uuid4` in the code; here an id to which nothing refers is used
again, and a task that needs one always has one (`HasIds`, kept by `HasRoom`). The loops of the code
(`_pump`, `_rebalance`, `startAll`, `pauseAll`) are recursive functions. A task is what is left of it to download; its files, name and record are
not in this module.

### `TaskNames` and `TaskIntake`

How a link becomes a stored task. `TaskNames` has the data by which `TaskStore` decides on a name and
what is on disk, as a record, and its operations as functions on it: `StoredAt`, `PathFor` and `Asks` are `add`,
`Moved` is `updatePlaceholders`, `Removed` is `remove`, `IsTaken` is `probeConflict`, and `Cleaned` is what
`deleteFiles` and `deletePlaceholders` leave. `TaskIntake` is the state machine around it, one record
`intake`: `SetUrls`, `Retry`, `Clear`, `Confirm`, `OnParsed` and `OnParseFailed` are the handlers of
`TaskDraft`, `AddOrDraft` is `TaskService.add` for those who put a failed task into the draft,
`OnRefresh`, `SetChoice` and `Cancel` are those of `NameConflictQueue` (their loops, and that of `confirm`, are recursive functions
on the tasks they add: `AddedAll`, `ReturnedAll`, `AddedInTurn`), `HandToDraft` and `HandOver` the two ways of
the browser, `Delete` and `OnStopped` a deletion and its end. A handler is one step; a parse is a work of the
runner, whose result comes after a cancel only if it was posted before.

Abstractions: all tasks want one name in one folder and hold one path each (no side files, no
subfolders); the configured `nameConflictChoice` is a free choice of each add; an overwrite that cannot recycle
the file acts as "keepBoth", which is another choice; a folder that is gone can neither be reached nor made; the
order of the draft matters only for what `setUrls` keeps, which is a free choice among the common links; the
link of a stored task is forgotten; ids that nobody refers to are used again. Left out: `autoStart`, the options
and categories of items, `setName` by the user, and how long the body of a replaced task goes on (that is in `TaskService`).

Histories: `open` counts the downloads that were confirmed and are neither stored, nor back in the draft, nor refused
or given up; `stuck` says that a refresh of the queue failed; `loose` are stored tasks whose file or path others took.

### `HttpStep`

The file is `Size` blocks. The crew is the list `self.subworkers` (each with
`start`, `end`, received blocks and where its coroutine is) and the subworkers that
have left it because another one took over their range. Code between two awaits
is one action: `Start` (`run` up to its first await), `Begin`, `Confirm`, `Accept`,
`Mismatch`, `Chunk`, `StreamEnds`, `Fail`, `Refuse` and `Leaver` (`_runSubworker`),
`Supervise` (`_supervise`, with `_autoSpeedUp`), `Finish`, `Abort`, and `Crash`, which
loses what was not flushed and may leave an empty record. `Split`, `Reassigned`, `Extended`
are `_splitSlowest`, `_reassignSubworker` and the loops over `_emptyRightOf`; `Spliced` is the
insertion in the list, or the removal from it. `Leaver` is a subworker that has left: it ends at its next chunk, failure
or turn of the loop, but before that its response may be accepted, and then it does what every accepted response does
(`SharedIfAlone`): if one subworker is in the list, that one's range is split, and tasks are created for the new ones.

Abstractions: blocks stand for bytes that arrive together; a stream that is cut
short raises, as the HTTP library does; when the speed allows a boost is not
modelled (it may come whenever something is streaming); subworkers are compared
by value in the code and differ whenever a chunk is shorter than
`maxReassignSize`. Not modelled: the branch for a step of unknown size with Range
(lines 298-328) and the segments of other packs (`rangeStep`).

### `DesktopBridge` and `Link`

Both ends of the connection between the extension and the program. `bridge` is what
`desktop-bridge.ts` holds, with the names of the code, plus its sockets and
`chrome.storage.local`; `desktop` is the port and token of the program. A JavaScript handler
is one step, written as a function on `bridge`: `Connect`, `RequestPairing`, `CancelProbe`,
`StartFallbacks`, `Adopt` (the first probe that is answered), `OnMessage`, `OnOpen`,
`OnClose`, `OnChange`, `AfterSave`. An `await` ends the step: a save takes effect at once, what
follows it (`SaveEnds`) and the event that reports it (`ChangeArrives`) come later, in either
order. The catch of a cancelled pairing runs when the handler that cancelled it is through
(`AfterCancel`). The program's side is `OnHello`, `OnPairRequested`, `Notice` (`_onDisconnected`),
`DecidePair`, `RegenerateToken`, `Stop` and `Listen`. Faults: sockets that fail or close at any
time, a program that ends and comes back at another port, a new token, and a service worker that
the browser stops. `Pair` and `SaveEnds` set the history `derailed`, see the disagreements below.

`Link` is the abstract specification: a connection is down, up or mute (open, but `isReady` is
false). `ImplementsLink` maps the bridge to it; `TaskRelay` is built on it instead of on the bridge.

Left out: nobody but the program answers at the candidate ports; the delays of timers; the
snapshots of tasks kept for the popup.

### `TaskRelay`

What becomes of a task: `Call` is `sendTaskOrEnqueue`, `Enqueue` the second half of `enqueue`,
`Connects` the call of `flushQueue`, and `FlushStarts`, `FlushSends`, `FlushEnds` are `flush` between its
awaits. `request` has one entry for each task and each sender (the caller, or the flush of one
connection): whether it was sent or carried out, whether `pendingRequests` has it, and whether its
connection still exists. `Rejects` is the catch of both senders, `TimesOut` the timer of
`sendRequest`, `Breaks` and `Restart` the ends of a connection and of the worker. The program may
create a task although nobody hears the answer (`Create`, from `_onCreateTask` and `_onTaskParsed`).

The histories say where knowledge was lost: `outcome.doubtful` (the extension gave a request up),
`mishap.lostUpdate` (somebody wrote the queue after it had changed since he read it),
`mishap.overlap` (two flushes at a time), `mishap.stranded` (in the queue since after the flush of this
connection read it). Left out: launching the program for a task (`autoLaunchPending`), opening the
popup afterwards, and the cancellation of the browser's own download before.

### `Attribution`

`page` holds the maps of `MediaAttribution` and the ledger; `click` is the one download the user
asked for. A session is one load of one element. `Claim`, `Reclaimed`, `LockAllFor` and `Release` are the
operations of the ledger; `Bind`, `HandOff`, `Attribute`, `Record`, `Picked`, `AttributeFetch`,
`BoundByBuffer`, `Open` and `Emptied` are the methods of `attribution.ts`, composed as the code calls
them; the actions are its event handlers. `Notifies` is the listener of a waiting click: the strategy
of the site is asked again. What a strategy answers is a free choice; the ids that a URL or a poster
contains are constants. The time window of a buffer append is a free choice of the oldest
fetch that still counts. Left out: the content type and the labels of a session, and the probe that looks
for a MediaSource.

### Mutants

An operator whose comment starts with "Faulty" is a variant of the operator after
it with a plausible mistake; nothing in the specification uses it. `PROJECT.json`
pairs each property with one that violates it.

## 3. Runs

| Run | Question | Bounds | Result |
|---|---|---|---|
| `runner_android` | on one thread: `FinishedMeansOver`, `CancelReachesBody`, refinement of `WorkContract` | 2 works | holds |
| `runner_desktop` | on two threads: one answer, none after a cancel, nothing leaks, every cancel is answered, no result lost | 2 works | holds |
| `runner_desktop_race` | is a body over once `finished` was called, on two threads? | 1 work | violated |
| `service_queue` | slots respected and none left idle, a pause holds, removed tasks not started, with restarts that wait for a stop | 2 tasks, the added one not pausable, 2 slots, 3 works | holds |
| `service_task` | every command on one task: slots, seeding, follow-up | 1 task, 2 works, two threads | holds |
| `intake` | nothing confirmed is forgotten, the draft stays whole, a stored task has its path | 2 links, 2 items, 2 tasks, 3 names, 2 events | holds |
| `service_double_run` | zero or one run per task? | 1 task, 4 works | violated |
| `http_step` | ranges, record, take-over, whole file, end | 4 blocks, 3 subworkers, 2 troubles, 3 kinds of server | holds |
| `bridge` | no socket forgotten, "connected" is authenticated, one live pair request, memory and storage agree, `Link`, and the way back to a connection | 2 ports, 2 tokens, 2 sockets for each port, 1 command, 1 fault | holds |
| `relay` | a queued task is kept, created once, and flushed | 2 tasks, 2 connections, 1 restart | holds |
| `attribution` | ledger and sessions agree, a proven URL stays, no release leaves a waiting click untold | 2 elements, 2 blobs, 2 URLs, 2 sessions, 2 recent fetches | holds |
| `http_wrong_size` | is a finished file whole when the announced size was wrong? | 4 blocks, announced 3 | violated |

Deadlock is not checked: the loop may stop, a queue may be empty and a step may be done.

**Why the bounds are enough.** Works interact only through the order of callbacks:
two of them give every order of two answers, and the proofs cover any number for
the one-thread properties. In TaskService a slot can be wanted by one
task more than there are slots, which takes two; commands on one task do not read
another one except through the queue. `MaxWorks` bounds the works alive at a time: a command
is possible only while there is room for what it and the queue may still start
(`HasRoom`). A pause needs a second task to be in danger, whose end or pause frees a slot: so `PauseHolds` is checked in
`service_queue`, where one task is paused and held while the other, a new limit and stops under way pump. `pauseAll` is a
command of `service_task` only; that a pause it makes holds too is the theorem `PausesHold`. `service_queue` leaves
seeding and watched files out: with them `NoSlotGoesIdle` does not hold (see section 4), and
`service_task` has them. In HttpStep four blocks allow a split with a remainder, three
neighbours and a chunk that runs into two of them; two troubles allow a crash
after a failure and an interruption after a resume. `MaxList` bounds splits.

In TaskIntake two links compete for a name, two items hold a parse of the present draft and one that was withdrawn
or confirmed, and three names leave one more than there are tasks. `MaxEvents` counts what happens to stored
tasks and the folder (run, deletion, move, a file removed, the folder gone or back): two of them give a deletion that
waits for its body, a record whose file is gone, or a folder that returns between two adds. The
draft and the queue are not counted.

In DesktopBridge two ports are what a probe with one fallback needs, two sockets for a port let a
closed one be heard of while the next is open, and two tokens make the stored one wrong. One command of the user
and one fault meet every state of a probe, a pairing, a save and a handshake; one command is enough for
both ways to derail. What takes two commands (two pairings one after the other, an edit during
the echo of another) is beyond the run.
In TaskRelay two tasks cross each other's enqueue and a flush; two connections give a flush that is cut
and the one after it; the theorems cover any number. In Attribution two sessions
compete for two URLs, of which one carries an id and one does not, over two blobs or one that both play;
a session may follow another on the same element. A URL that is fetched twice fills the recent fetches
and drops the oldest.

**Fairness.** The event loops keep turning (weak fairness of the loop's steps and
of `Deliver`); a body into which CancelledError was thrown ends. No body has to
end otherwise. In HttpStep the server answers what it is asked
(weak fairness of `Progress`), a step that was interrupted is started again, and
failures are finitely many (`MaxTrouble`); without that a retry every five seconds
may go on for ever, which is what the code intends.

In DesktopBridge the browser and the program deliver what is sent (`Event`), a pairing times out and the
alarm, which Chrome fires each minute, comes back (`Retry`); nothing is asked of the user, of the faults
(`MaxTrouble`) or of the decision on a pairing. In TaskRelay handlers run on, the storage answers, and what was
sent is answered, lost or timed out; that the connection stays is the premise of `QueueIsFlushed`, not an
assumption. Attribution and TaskIntake have safety properties only.

### What the violations show

- `runner_desktop_race`: `schedule` sees the work pending (`coroutine_runner.py:76`);
  the main thread then cancels it, finds no asyncio.Task and calls `finished` at
  once; `create_task` follows and the body runs, with nothing left that could
  cancel it. It takes a preemption within two lines, on desktop only.
- `service_double_run`: a run ends and its `done` is posted; a redownload starts a new run; the
  old `done` is delivered and drops the task's entry, which is the new run's
  (`task_service.py:661`); a second redownload finds no run to cancel and starts another. The
  task has two runs, which GLOSSARY.md rules out.
- `http_wrong_size`: the record is written before the server confirmed the size and
  then once a second. A pause in between leaves a record that ends at the size the
  browser announced; the resumed step matches the confirmed size and is done with
  the rest of the file missing. `DoneIsWholeUnlessMisled` in `http_step` shows that this is
  the only way: the history `misled` is set exactly when a run ends with such a record.

### Disagreements met while modelling that have no run

- `_onRunDone` does not look whether the task is still in the store: a `done` posted
  before a delete seeds and watches the removed task (`task_service.py:664-668`;
  `tests/test_seeding.py` expects a deletion to stop seeding), and may seed a
  task that seeds already.
- A pause during a redownload or an edit that waits for its stop is overridden
  (`task_service.py:445`, `459`). `PauseHolds` excludes it by name (`IsRestarting`).
- A task that has two runs (`service_double_run`) is not stopped by a pause: `_cancelWork` finds the run of its slot, or
  none, and the other goes on, though GLOSSARY.md:377 says that Pause stops the Task Run. It follows from the same
  stale `done`. `PauseHolds` says of every task it follows that no run of it is active, in the queue or
  out of it; it does not follow a pause that meets such a run (`IsAstray`).
- `pauseAll` pumps after each of its pauses: a task that both runs and waits may get a second run before the loop
  comes to it (`task_service.py:506-509`, `419`). `PauseAll` does not follow such a task.
- `add` that replaces a running task and does not start the new one leaves the slot
  idle until the next event (`task_service.py:355-368`). `NoSlotGoesIdle` excludes `add`.
- An announced size that is too large, or a server that tells no length, followed by a
  crash before the record is flushed: the record lists blocks behind the end of the file,
  which the server refuses for ever. `StepEnds` excludes it by `misled`.

In the bridge (`desktop-bridge.ts`); `derailed` is the name of 2 and 4:

1. The alarm, with no token, calls `connect`, which cancels a pairing that waits for the user's approval.
2. A pairing that is asked for while connected and fails leaves "disconnected" with the socket
   open; `connect` returns early as long as it is, so nothing reconnects. `browser_extension`'s GLOSSARY
   promises that it does.
3. The catch of a pairing that was replaced by a `connect` overwrites "connecting".
4. An empty token that is saved while probes are open leaves `cancelProbe` set in
   "missing_token" when the last probe fails, and later calls of `connect` return early.
5. An error that arrives in another state than "authenticating" is ignored.

In the intake of tasks:

- `NameConflictQueue.setChoice` only logs an add that fails (`name_conflict_queue.py:57-60`), and `_refresh` lets the
  TaskError escape (74): that task is gone, and what is left in the queue waits with nothing shown. ADR 0023 asks every
  caller of `add` to handle TaskError, and the glossary lets such a task return to the draft. `NothingIsForgotten` takes
  the task for settled and excludes the rest by `stuck`. A file that vanishes between `probeConflict` and `stat` (76) does the same.
- `autoStart` of a confirm is lost when the name is asked about (`task_service.py:349-351`): the queue adds with the default.
- The record of a running task that is deleted goes at once, its files when the body has ended
  (`task_service.py:424-433`): a task that is added with "overwrite" in between takes the path and then loses its file,
  where the glossary (30) says that a task holds its Placeholder as long as it exists (`loose`).
- `updatePlaceholders` may take the path of a task whose file is gone and leaves its record: two stored tasks share a
  path, and a deletion of one removes the file of the other (`loose`).

In the relay (`background.ts`, `task-queue.ts`):

- `enqueue` and `flush` read the queue, wait, and write it whole: two that cross lose a task that was
  reported as queued, or send one twice (`lostUpdate`).
- A flush of a new connection, or of a new worker, reads what the flush before has sent and not yet
  removed: the tasks are created again (`overlap`).
- A task queued behind the flush of its connection waits for the next connection (`stranded`).
- A `connect` that replaces an open connection leaves its requests to their timers of twelve seconds; a request
  that times out while connected is reported as failed although the program may create the task.

In the page (`attribution.ts`):

- The comment at 219 says that a click in flight is unblocked before the session goes. One that awaits
  `fetchUrlsFromBackground` is not: it listens afterwards, on a session that is gone, until its time is up.
  `WaitingClickIsHeard` is therefore about the step that releases a session: it leaves no click waiting on it. A click that
  begins to wait after its session went is outside of the property.
- `handoffUrl` takes a URL from the first other session that has it and no further; copies that came
  from the background stay. `LedgerAgrees` therefore speaks of owners and of what is locked.
- Two videos that play one blob share `sessionByMediaSourceId`: emptying one deletes the entry of the other.
- The glossary of the extension (88-95) lets a higher tier take a URL from a lower one; `claim` moves it
  only for a lock. The branches for an owner without the URL cannot be reached, by `LedgerAgrees`.

## 4. Proofs

`CoroutineRunnerProofs` proves, for any set of works:

- `TypeCorrect`: `Spec => []TypeOK`, on one thread or two. `RunnerTyping` is the
  lemma: each function of `Runner` maps runners to runners.
- `FinishedIsSafe`: on one thread (`SameThread`), `Spec => []FinishedMeansOver`.
- `CancelIsEffective`: on one thread, `Spec => []CancelReachesBody`.

The two are not inductive. The invariant `KnownInv` has four parts: `NoHalfSteps`
(on one thread no work is between the halves of `schedule` or of `execute`), `CancelForgets`
(a cancelled work has left both maps), `BodyIsKnown` (a body that may run and was
not cancelled has its asyncio.Task in `_running`, so that a cancel finds it) and
`UnwindingIsCancelled`. `BodyIsKnown` is the point: on two threads it fails
between the test and `create_task`, which is the race above. `ToldInv` adds that a
work whose `finished` is posted or called may not run; its proof needs
`NewlyTold` (what a step can add to the answers) and `OverStaysOver` (a body that is over
never runs again). Assumption: `SameThreadIsBoolean`; the two theorems have
`SameThread` as a hypothesis, since they do not hold without it.

The same module goes on from there. On both platforms:

- `AnswersAreGivenOnce`: `Spec => []AnsweredOnce`.
- `CancelSilences`: `Spec => NothingPostedAfterCancel`.
- `NoResultIsLost` and `NothingLeaks`: `Spec => []UncancelledIsPending`, `Spec => []OverIsForgotten`.

and on one thread:

- `ContractIsImplemented`: `Spec => ImplementsContract`, the refinement of `WorkContract`.

`MapsInv` says at which stages a work may be in `_pending` and in `_running`, and that a cancelled work is
not pending; the pieces of the code that post a result look there, on whichever thread. `ReplyInv` says
who may still be answered: a work with a result has ended, and a work that was told `finished` was cancelled
and has no done callback left. Neither needs `SameThread`: the race of the two threads is about the body,
not about the answers. For the refinement, each step moves one work by one action of the contract or
none, except `Stop`, which withdraws all of them. The step that needs an argument is a cancel that calls
`finished` itself: no body may run by `KnownInv`, and it was not called before by `ReplyInv`.

`TaskRelayProofs` proves, for any set of tasks and any number of connections and restarts, with
`RelayAssumption` only:

- `RelayTypes`: `Spec => []TypeOK`.
- `QueuedTasksAreKept`: `Spec => []QueuedIsKept`.

A flush writes back what it could not send, so the property needs to know that nothing else of what it read
is missing: `AccountsForAll` (a task that a flush has read is still to do, has failed, is being sent or
was answered). That an answer or a time-out concerns the task the flush waits for is `AwaitsItsRequest`: a request
that is pending for a flush is the one it awaits; otherwise an answer of an old request would
advance the loop. It is kept by `Connects`, which starts a flush over a record that must not have a
request yet, by `NoFlushYet`. `lostUpdate` enters where a writer puts down what it
made of an older queue.

From the same assumption it proves:

- `TasksAreCreatedOnce`: `Spec => []CreatedOnce`.

A task that is not in `doubtful` must have at most one request that the program can still carry out, and none
once it has been created. `CallerAsks` and `OnlyQueued` keep its two senders apart: the caller has a
request only while it asks, and the queue and the flushes hold only what the caller has queued. `OneFlush` and
`FlushParts` keep the flushes apart, as long as no two of them met (`mishap.overlap`): what a flush holds it
has read, and nothing is both sent and still to do. `PendingIsUnsettled` ties the two ends of a request:
where there is no doubt the extension waits for exactly what the program has not answered.
`CreatedIsDone` carries the conclusion: of a task that was created nothing is on its way, and the stored queue
has it only until the flush that sent it writes the queue back.

`DesktopBridgeProofs` proves, for any ports, tokens and bounds, with `BridgeAssumption` only:

- `BridgeTypes`: `Spec => []TypeOK`.
- `NothingIsLeftOpen`: `Spec => []NoStraySocket`.

`InOrder` is what each handler keeps: the bridge has its types, an end that is closed holds nothing
(`Clean`), the open sockets are those of the probe and the connection (`Owned`), and the connection is no
probe, with none at all while one is looked for (`Apart`). Without `Apart` a probe that becomes the connection
would leave the older one behind. A handler is a function, so there is one lemma per function (`ConnectKeeps`,
`OnProbeFailedKeeps`, ...) and a step follows from those it is made of. `ClosingBoth` says that a
handler that closes both the probe and the connection still has the sockets its guard asked for.

Its second part goes on from there, with the same assumption:

- `ConnectionShownIsTrue`: `Spec => []ConnectedIsAuthenticated`.
- `PairRequestsAreAlive`: `Spec => []PairRequestIsAlive`.
- `LinkIsImplemented`: `Spec => ImplementsLink`, the refinement of `Link`.

All three rest on `Talks`: a socket is asked one thing and answers once. While a connect probe runs,
each of its sockets has its hello on the way, or the answer, or neither (`ProbesTalk`), and an `ack` on the
way belongs to a session that is authenticated or closed. The connection has nothing on the way and asks
for no pairing (`LinkIsQuiet`), so no second answer can raise a state that was lowered, and the one
way to "connected" is `Adopt`. For the refinement `Moves` and `Quieter` say what each function does to
the connection.

Its last part proves, with the same assumption:

- `StorageIsKept`: `Spec => []MemoryIsStored`.

The extension hears of its own saves, late, so an old change may put an old value back. `Agrees` is the
strengthening: for each setting the last change still on the way carries the stored value, or
none is on the way and the memory has it. `StoringAgrees` and `HearingAgrees` are the two lemmas on the
queue of changes; every other function leaves the settings alone (`SameMemory`).

`HttpStepProofs` proves, for every size of the file, every set of announced sizes and of servers, any number
of subworkers, splits and troubles, with `HttpAssumption` only:

- `TypeHolds`: `Spec => []TypeOK`.
- `FileIsWhole`: `Spec => []DoneIsWholeUnlessMisled`.
- `RangesStayWhole`: `Spec => []RangesAreWhole`.
- `RecordStaysComplete`: `Spec => []RecordListsMissing`.
- `NoRangeIsAbandoned`: `Spec => []GivenUpIsTakenOver`.
- `LeftWithNothing`: `Spec => []TakenOverIsLeft`.

The invariant `Inv` says what the list is by what each subworker satisfies (`Fine`: its position lies in its range,
and one that is over has its range or got nothing) and what each two neighbours do (`Follows`: their ranges
meet, and one that is over with bytes has no neighbour without). So a step that changes a part of the list is checked at
that part and at its two edges: `SplitKeeps` for `_splitSlowest`, `ExtendedKeeps` for the loops over
`_emptyRightOf`, `ReceivedKeeps` for a chunk. The first subworker is never over without a byte; with that the two global
facts follow, by the least counterexample (`HasLeast`): the ranges cover every block up to
the last end (`Covered`), and a range that was given up has a live subworker on its left (`Guarded`). Beside
the list, `Ranged` says when its last end is the end of the file: once the size is confirmed, which a first byte
(`Touched`) implies; `Lone` that the request that confirms it is made by the only subworker before its first byte; `Recorded` that
the crew loaded from the record is such a list; `IdleInv` that it ends at the confirmed size unless the run was
misled; `Single` describes a download without ranges. `Sure` is about those that left: each has in the list a subworker that
begins before it and has got to where it began (`Behind`). No step moves a subworker back, so this stays true whatever is split or taken
over afterwards (`StaysBehind`), also by the split that one who left makes when its response is accepted; a range split off later
begins behind the position of the one that is split, so nobody who left looks like a subworker of the list again. `FinishKeeps` puts them together: all are over, so `Guarded` leaves
no range open, `Covered` finds each block in one, and it is on disk. The library has no fact on the
concatenation of three lists, so `SplicedElements` is the lemma on `Spliced`. `Boosts` is
at most four, as in the code; the run has two.

`AttributionProofs` proves, for any elements, URLs, blobs, hints and bounds, with `AttributionAssumption` only:

- `TypeCorrect`: `Spec => []TypeOK`.
- `LedgerAlwaysAgrees`: `Spec => []LedgerAgrees`.
- `ClicksAreHeard`: `Spec => WaitingClickIsHeard`.
- `OwnershipIsMovedByLocking`: `Spec => OwnershipMovesByLock`.

`LedgerAgrees` needs `Linked` beside it: what the two maps of the page lead to is a session that is open and knows of it (its
element, its MediaSource), since the code asks the maps for the session that claims. Also an entry
that is locked has an owner. Each handler is a function on the page, and has a lemma that it keeps the page in order, releases
nobody and moves a URL only by a lock (`Onward`), which composes as the calls do. `MoveAgrees` is the heart: when URLs move to a
session at once (`Bind`, `HandOff`), the ledger and the sessions change in two loops of the code, and it says what
both together must have changed. `Emptied` is the one handler outside of `Onward`: it tells the click before the session goes; every other one leaves nobody
behind (`NoneIsLeft`, `Keeps`), which is `ClicksAreHeard`.

`Recursions` has what these modules share about numbers and recursion, each from a well-founded relation of the library:
`HasLeast` and `HasGreatest`, that a function defined by recursion on `0..N` exists (`IterationExists`, `SameIteration`), and that
it stays in a set that none of its steps leaves (`StepByStep`). With them a loop over the sessions
(`BoundPlayers`), written as a recursive function, keeps the page in order whatever the number of sessions. They take sets and functions
where the induction theorems of the library take an operator; what they cannot give is an operator of the community
modules that folds, which tlapm knows nothing of.

`TaskServiceProofs` proves, for any tasks, slots, works and commands, on one thread or two, with `ServiceAssumption` only:

- `HandlersKeepOrder`: `Spec => []Inv`, and from it
- `TypeCorrect`: `Spec => []TypeOK`.
- `SlotsAreNotLost`: `Spec => []SlotHeldByLiveWork`.
- `SeedingIsNotLost`: `Spec => []ShownSeedingIsLive`.
- `TheLimitHolds`: `Spec => []SlotsRespected`.
- `PausesHold`: `Spec => []PauseHolds`.
- `OnlyTheStoreStarts`: `Spec => OnlyStoredTasksStart`.
- `PumpsLeaveNoSlotIdle`: after each step that ends with a `_pump`, no slot is free while a task waits.
- `SlotsDoNotIdle`: without edits, deletions, seeding and watched files (`PromptOps`, which `service_queue` satisfies), no step but an
  add leaves a slot idle (`NoSlotGoesIdle`); so also not the pause, redownload, revive or restart that has to wait for a stop.

None of the properties is inductive. `Sane` is what every handler keeps: the lists have no task twice and a slot belongs to a task of the
store (`Listed`); the work in a slot, or that of a seeding, is the task's own and its callbacks are still to come (`Owned`); what the runner has
in `_pending` is on its way to answer, and no cancel waits for it (`Sound`). `Slotted` is the limit. For a pause
`Quiet` is the point: it is not enough that a paused task neither runs nor waits, there must also be no stop under way after which it
is scheduled (`IsRestarting`), or a late `finished` would bring it back, and no run of it with callbacks to come (`Idle`), in the queue or out
of it. A pause makes a task idle if the run it cancels is the only one (`Sole`, `SoleIsIdle`); `NotAstrayIsSole` gets that from the guard of
the history, and `Orderly` says that the other pauses of a `pauseAll` leave it so for the tasks still to be paused.

The handlers are functions on the service, so each has a lemma that says what it may do to the rest: `Onward` (the service stays sane
and within its limit, the store is left alone, only tasks of the store are started, and no quiet task is stirred but the handler's own)
composes as the calls do, `Onwards` lets tasks leave the store, `Keeps` is the same of an action. `CancelWorkGives` takes `_cancelWork` apart: the service without the
task's work (`IsCleared`), then the callback at once or later. A loop keeps what each of its turns keeps, by `StepByStep` and `StepsAlong` of `Recursions`.
That _pump fills the slots (`Full`) is the one place where the number of turns matters: each turn takes the head of the queue or finds no slot, and there
are as many turns as tasks that wait. `SlotsDoNotIdle` needs `Prompt` besides: with these commands, what waits for a stop queues its task and pumps, so the slot
that the stop frees is not left; the works a handler forgets only lose what was to follow them (`Less`).

`TaskIntakeProofs` proves, for any links, items, tasks, paths and events, with `NamesAssumption` and `IntakeAssumption` only:

- `TypeCorrect`: `Spec => []TypeOK`.
- `TheDraftStaysWhole`: `Spec => []DraftIsWhole`.
- `NoDownloadIsForgotten`: `Spec => []NothingIsForgotten`.
- `PathsAreHeld`: `Spec => []PlaceholdersAreKept`.

The three need each other. A task that waits in the queue must not be in the draft or in the store as well, or
an add would give it a second path or count it twice. So `Sane`, which every handler keeps, has three parts. `Core` is about the
store: what a stored task has written down about its path (`Claims`), that the path is its own and has a file (`Kept`), that tasks to be
added, tasks of the draft, stored tasks and those whose deletion waits for their body are four sets that do not meet, and the account of
each link (`Balanced`): downloads confirmed are as many as parses that were confirmed and tasks still to be added. `DraftInOrder` adds to
`DraftIsWhole` that no two items share a task and that the task comes from the link of its item; `QueueInOrder` that
the queue has no task twice, and that somebody is asked, a refresh is posted or one has failed when anybody waits in it.

`Core` takes the tasks that are still to be added as a set of its own, since a handler adds them one by one and is in
order only if those not yet added are counted: `confirm` starts with the tasks of the draft (`ConfirmedIsSane`), `setChoice` with those the decision is for
(`ChosenIsSane`, where `QueueDivides` cuts them off the queue), `_refresh` with the whole queue (`TurningGoesOn`). Each add takes one task from that set to the store, to the queue or
out of the account (`StoredTakes`, `FromQueueTakes`, `ConflictedQueues`, `ReturnedDrafts`), and one name from those that are free (`TakesOneName`); the loop
follows by `StepByStep`. That several items and tasks of one link are settled at once is where cardinalities are needed (`OneLinkIsOrdered`, `DisjointSetsCount`).

Only model-checked are:

- liveness under fairness, which is beyond the prover (`CancelIsAnswered`, `ResultIsDelivered`, `StopIsFollowedUp`, and the ends of a download,
  of a flush and of a connection).

`NoSlotGoesIdle` is proved for the commands of `PromptOps` and does not hold of all. When a run has completed and its callback is not yet
delivered, the user may start and stop seeding; `stopSeeding` then cancels the entry of the run, withdraws the callback that would have pumped, and does not pump
itself (`task_service.py:388-391`). A watched file that disappears (702) does the same. And while a task that is being deleted stops, an `add` may put a task
that is not started in the place of a running one; the `finished` of the deletion, the next event, pumps nothing. `PumpsLeaveNoSlotIdle` is what holds of any commands.

## 5. Not modelled

- **Task Records** (`TaskStore`): the record file, its debounced flush and what a restart finds; side files of a task. The
  part of a record that decides whether a download resumes is in `HttpStep`.
- **Parsing** (`FeatureService`): the limit of parses per host, the order of parsers, the wait of `deactivate`.
- **Port listener**: overlapping requests and the lock. `DesktopBridge` only knows that it listens or not.
- **Updates, runtimes, one instance**: each is a component of its own with hazards in `PROJECT.json`
  (two renames with a stop in between, stale answers, two starts).
- **Of the modelled components**: checksums (TaskService), steps of unknown size (HTTP), task actions
  and snapshots (browser service), capture of resources per tab and taking over a download of the
  browser (extension), site strategies.
- **Other packs, aria2 RPC, speed meter, views**: bodies of works, translations of requests, user interface.

Of the 70 thousand lines of `.ts` in the repository 59 thousand are translation catalogues of Qt
(`app/assets/i18n/*.ts`, XML despite their name): data with no behaviour. What can be modelled is
the Python program, a thousand lines of C and some eleven thousand lines of the extension, most of
them views and site strategies.

## 6. Plan

Done: `Runner`, `CoroutineRunner`, `WorkContract`, `TaskService`, `HttpStep`, `Link`, `DesktopBridge`, `TaskRelay`, `Attribution`, `TaskNames` and
`TaskIntake`, all with proofs: every safety property that a run checks is proved (`NoSlotGoesIdle` for the commands it holds of). Next, in this order:

1. `TaskRecords`: the record file. Abstract specification: a restart finds the tasks as last flushed. Run: 2 tasks,
   1 crash.
2. `Updater`: the states of an update and the swap of directories, with a crash after each rename.
   Run: 1 update, 2 crashes.
3. `PortListener`, then runtimes and the single instance.

Theorems worth proving next: the safety of the abstract `TaskRecords` once it is there.
