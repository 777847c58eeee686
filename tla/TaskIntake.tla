----------------------------- MODULE TaskIntake -----------------------------
(***************************************************************************)
(* How a link becomes a stored task: the draft of app/services/            *)
(* task_draft.py, whose parses run while the user goes on, TaskService.add *)
(* with the names of TaskNames, the name_conflict_queue.py in which a      *)
(* person decides, the browser that hands over a task, and the delete that *)
(* finishes after the body of the task has ended.                          *)
(*                                                                         *)
(* Everything here happens on the dispatcher thread, one handler at a      *)
(* time; a handler is one step with every call it makes, written as a      *)
(* function from states to states.  A parse is a work of CoroutineRunner:  *)
(* while it runs, a cancel withdraws it; once its result is posted, it is  *)
(* delivered all the same (WorkContract).                                  *)
(*                                                                         *)
(* The draft is a set of items: the order of the list decides only which   *)
(* items survive when it is rearranged.                                    *)
(*                                                                         *)
(* An operator whose comment starts with "Faulty" is no part of the model: *)
(* it is a variant of the next one with a plausible mistake, kept to see   *)
(* that the properties notice it.                                          *)
(***************************************************************************)
EXTENDS TaskNames, Sequences, FiniteSets

CONSTANTS
    Url,        \* links the user deals with
    ItemCount,  \* bound on the draft items there are at a time
    UserFiles,  \* paths at which the user may have a file from the start
    MaxEvents   \* bound on what happens to stored tasks and to the folder

Item == 1..ItemCount
NoUrl == 0

ASSUME IntakeAssumption ==
    /\ ItemCount \in Nat /\ IsFiniteSet(Url) /\ NoUrl \notin Url
    /\ UserFiles \subseteq Path /\ MaxEvents \in Nat

VARIABLE intake

vars == <<intake>>

\* A DraftItem: `parse` is that parseId is not empty, `confirmed` that confirmedOptions
\* is set, `work` what the runner does for it.
Items == [url : Url \cup {NoUrl}, parse : BOOLEAN, task : Task \cup {NoTask},
          failed : BOOLEAN, confirmed : BOOLEAN, work : {"none", "running", "done", "failed"}]
Blank == [url |-> NoUrl, parse |-> FALSE, task |-> NoTask,
          failed |-> FALSE, confirmed |-> FALSE, work |-> "none"]
Submitted(u) == [Blank EXCEPT !.url = u, !.parse = TRUE, !.work = "running"]
Withdrawn(it) ==
    [it EXCEPT !.parse = FALSE, !.work = IF @ = "running" THEN "none" ELSE @]

Intakes == [
    draft : SUBSET Item,                       \* _items
    item : [Item -> Items],
    names : Names,
    url : [Task -> Url \cup {NoUrl}],          \* task.url
    running : SUBSET Task,                     \* tasks whose body may run
    deleted : [Task -> {"no", "keep", "files"}],  \* what onStopped of delete will do
    queue : Seq(Task),                         \* NameConflictQueue._tasks
    asked : Task \cup {NoTask},                \* _conflict.task
    rest : Nat,                                \* _conflict.restCount
    posted : BOOLEAN,                          \* _isRefreshPosted
    stuck : BOOLEAN,   \* history: a refresh failed and nothing has posted another since
    loose : SUBSET Task,   \* history: stored tasks whose file or path was taken by others
    open : [Url -> Int],   \* history: downloads confirmed and not settled yet
    events : 0..MaxEvents]

Init ==
    \E files \in SUBSET UserFiles :
        intake = [
            draft |-> {},
            item |-> [i \in Item |-> Blank],
            names |-> [stored |-> {}, name |-> [t \in Task |-> NoPath],
                       holds |-> [t \in Task |-> NoPath], owner |-> [p \in Path |-> NoTask],
                       completed |-> {}, gone |-> FALSE,
                       file |-> [p \in Path |-> IF p \in files THEN "data" ELSE "none"]],
            url |-> [t \in Task |-> NoUrl],
            running |-> {}, deleted |-> [t \in Task |-> "no"],
            queue |-> <<>>, asked |-> NoTask, rest |-> 0, posted |-> FALSE,
            stuck |-> FALSE, loose |-> {}, events |-> 0, open |-> [u \in Url |-> 0]]

-----------------------------------------------------------------------------
(* Ids are never given twice.  Here one that nothing refers to any more is *)
(* forgotten, and the next item or task gets it.                           *)

IsKnownItem(s, i) == i \in s.draft \/ s.item[i].work # "none"
IsKnownTask(s, t) ==
    \/ t \in s.names.stored \cup s.running \cup Range(s.queue) \cup {s.asked}
    \/ s.deleted[t] # "no"
    \/ \E i \in s.draft : s.item[i].task = t

Tidy(s) ==
    LET known == {t \in Task : IsKnownTask(s, t)}
    IN [s EXCEPT
        !.item = [i \in Item |-> IF IsKnownItem(s, i) THEN s.item[i] ELSE Blank],
        !.url = [t \in Task |-> IF t \in known \ s.names.stored THEN s.url[t] ELSE NoUrl],
        !.names = [s.names EXCEPT
            !.name = [t \in Task |-> IF t \in known THEN s.names.name[t] ELSE NoPath],
            !.completed = s.names.completed \cap known],
        !.loose = s.loose \cap s.names.stored]

NewItems(s) == {i \in Item : ~IsKnownItem(s, i)}
NewTasks(s) == {t \in Task : ~IsKnownTask(s, t)}
\* Bounds: n more items, one more task, n more names that no task is past already.
HasItems(s, n) == Cardinality(NewItems(s)) >= n
HasTask(s) == NewTasks(s) # {}
HasNames(s, n) ==
    n <= Cardinality({p \in Path : /\ s.names.file[p] = "none"
                                  /\ \A t \in Task \ s.names.stored : s.names.name[t] <= p})

\* The task a parse of u returns.
WithTask(s, u, t) == [s EXCEPT !.url[t] = u, !.names.name[t] = 1]

Opened(s, u) == [s EXCEPT !.open[u] = @ + 1]
Settled(s, u) == [s EXCEPT !.open[u] = @ - 1]

-----------------------------------------------------------------------------
(* The draft.                                                              *)

ItemsOf(s, u) == {i \in s.draft : s.item[i].url = u}

\* The item of the task, after addParsedTasks has found it or appended it.
ItemFor(s, u) == IF ItemsOf(s, u) # {} THEN CHOOSE i \in ItemsOf(s, u) : TRUE
                 ELSE Min(NewItems(s))

\* addParsedTasks with one task.  An item that has a task keeps it.
AddParsed(s, t) ==
    LET u == s.url[t]
        i == ItemFor(s, u)
        it == IF i \in s.draft THEN Withdrawn(s.item[i]) ELSE [Blank EXCEPT !.url = u]
    IN IF i \in s.draft /\ s.item[i].task # NoTask THEN s
       ELSE [s EXCEPT !.draft = @ \cup {i},
                      !.item[i] = [it EXCEPT !.task = t, !.failed = FALSE]]

-----------------------------------------------------------------------------
(* Adding a task.                                                          *)

\* NameConflictQueue.add
Conflicted(s, t) ==
    [s EXCEPT !.queue = Append(@, t), !.posted = @ \/ s.asked = NoTask]

\* TaskService.add once the store has taken t: the record that is replaced loses
\* its run.
Stored(s, t, choice) ==
    LET p == PathFor(s.names, t, choice)
    IN Settled([s EXCEPT !.names = StoredAt(@, t, p),
                         !.running = @ \ {Replaced(s.names, p)}], s.url[t])

\* A task that could not be added comes back to the draft.
Returned(s, t) == Settled(AddParsed(s, t), s.url[t])

\* add called by someone who puts a task that fails into the draft, with the name
\* the store looks for set in the configuration.
AddOrDraft(s, t, choice) ==
    IF AddFails(s.names) THEN Returned(s, t)
    ELSE IF Asks(s.names, t, choice)
         THEN Conflicted([s EXCEPT !.names = AskedAbout(@, t)], t)
         ELSE Stored(s, t, choice)

\* add called by the conflict queue.  A failure is logged, and the task is gone.
AddFromQueue(s, t, choice) ==
    IF AddFails(s.names) THEN Settled(s, s.url[t])
    ELSE Stored(s, t, choice)

-----------------------------------------------------------------------------
(* Handlers of the draft.                                                  *)

\* setUrls.  `kept` are the links whose items the matching of the two lists keeps,
\* `refused` those for which submit raises.
Dropped(s, I) ==
    [s EXCEPT !.draft = @ \ I,
              !.item = [i \in Item |-> IF i \in I THEN Withdrawn(@[i]) ELSE @[i]]]

\* One new item for each link.
WithItems(s, urls, refused) ==
    LET place == CHOOSE place \in Injection(urls, NewItems(s)) : TRUE
        linkAt(i) == CHOOSE u \in urls : place[u] = i
    IN [s EXCEPT
        !.draft = s.draft \cup Range(place),
        !.item = [i \in Item |->
                    IF i \notin Range(place) THEN s.item[i]
                    ELSE IF linkAt(i) \in refused THEN [Blank EXCEPT !.url = linkAt(i), !.failed = TRUE]
                    ELSE Submitted(linkAt(i))]]

\* The items whose links are not kept.
Unkept(s, kept) == {i \in s.draft : s.item[i].url \notin kept}

UrlsSet(s, urls, kept, refused) ==
    WithItems(Dropped(s, Unkept(s, kept)), urls \ kept, refused)

SetUrls(urls, kept, refused) ==
    LET common == {intake.item[i].url : i \in intake.draft} \cap urls
    IN /\ kept \subseteq common /\ (common # {} => kept # {})
       /\ refused \subseteq urls \ kept
       /\ HasItems(Dropped(intake, Unkept(intake, kept)), Cardinality(urls \ kept))
       /\ intake' = Tidy(UrlsSet(intake, urls, kept, refused))

\* refresh and refreshFailed: the failed items I are parsed again.
Retry(I) ==
    /\ I # {} /\ \A i \in I : intake.item[i].failed
    /\ intake' = [intake EXCEPT !.item = [i \in Item |->
                    IF i \in I THEN Submitted(@[i].url) ELSE @[i]]]

Clear ==
    /\ intake.draft # {}
    /\ intake' = Tidy(Dropped(intake, intake.draft))

\* confirm: tasks are added, parses go on for a task to be added later, failed items
\* stay, and what could not be added comes back.
Resolved(s) == {i \in s.draft : s.item[i].task # NoTask}
Parsing(s) == {i \in s.draft : s.item[i].task = NoTask /\ s.item[i].parse}

Ordered(s) ==
    [s EXCEPT
        !.open = [u \in Url |-> s.open[u]
                    + Cardinality({i \in Resolved(s) \cup Parsing(s) : s.item[i].url = u})],
        !.item = [i \in Item |-> IF i \in Parsing(s) THEN [s.item[i] EXCEPT !.confirmed = TRUE]
                                 ELSE s.item[i]]]

AddedAll(s, T, choice) ==
    LET added[n \in 0..TaskCount] ==
            IF n = 0 THEN s
            ELSE IF n \in T THEN AddOrDraft(added[n - 1], n, choice) ELSE added[n - 1]
    IN  added[TaskCount]

ReturnedAll(s, T) ==
    LET returned[n \in 0..TaskCount] ==
            IF n = 0 THEN s
            ELSE IF n \in T THEN Returned(returned[n - 1], n) ELSE returned[n - 1]
    IN  returned[TaskCount]

\* Faulty: no look at confirmedOptions before the parses are cancelled.
LeftParsing(s) ==
    LET gone == {i \in s.draft : ~s.item[i].failed}
    IN Dropped(s, gone)

\* What the end of confirm leaves of the draft.
Left(s) ==
    LET gone == {i \in s.draft : ~s.item[i].failed}
        withdrawn == {i \in gone : s.item[i].parse /\ ~s.item[i].confirmed}
    IN [Dropped(s, withdrawn) EXCEPT !.draft = @ \ gone]

Confirmed(s, choice) ==
    LET added == {s.item[i].task : i \in Resolved(s)}
    IN IF AddFails(s.names) THEN ReturnedAll(Left(Ordered(s)), added)
       ELSE Left(AddedAll(Ordered(s), added, choice))

Confirm(choice) ==
    /\ Resolved(intake) \cup Parsing(intake) # {}
    /\ HasNames(intake, Cardinality(Resolved(intake)))
    /\ HasItems(intake, Cardinality({i \in Resolved(intake) : intake.item[i].work # "none"}))
    /\ intake' = Tidy(Confirmed(intake, choice))

-----------------------------------------------------------------------------
(* Results of parses.                                                      *)

\* The body of a parse ends: its result is posted.
ParseEnds(i, how) ==
    /\ intake.item[i].work = "running"
    /\ intake' = [intake EXCEPT !.item[i].work = how]

\* _onParsed, with the task t.
Parsed(s, i, t, choice) ==
    LET u == s.item[i].url
        over == [WithTask(s, u, t) EXCEPT !.item[i].work = "none", !.item[i].confirmed = FALSE]
    IN IF s.item[i].confirmed THEN AddOrDraft(over, t, choice)
       ELSE IF ~s.item[i].parse THEN over
       ELSE [over EXCEPT !.item[i].parse = FALSE, !.item[i].task = t]

OnParsed(i, choice) ==
    /\ intake.item[i].work = "done"
    /\ HasTask(intake) /\ HasNames(intake, 1) /\ HasItems(intake, 1)
    /\ intake' = Tidy(Parsed(intake, i, Min(NewTasks(intake)), choice))

\* Faulty: a failure counts whether or not the parse was withdrawn.
ParseFailedAnyway(s, i) ==
    LET it == s.item[i]
        over == [it EXCEPT !.parse = FALSE, !.work = "none", !.confirmed = FALSE, !.failed = TRUE]
    IN IF ~it.confirmed THEN [s EXCEPT !.item[i] = over]
       ELSE Settled([s EXCEPT !.item[i] = over,
                              !.draft = @ \cup (IF ItemsOf(s, it.url) = {} THEN {i} ELSE {})],
                    it.url)

\* _onParseFailed.  A confirmed item returns unless the draft has its link again.
ParseFailed(s, i) ==
    LET it == s.item[i]
        over == [it EXCEPT !.parse = FALSE, !.work = "none", !.confirmed = FALSE, !.failed = TRUE]
    IN IF it.confirmed
       THEN Settled([s EXCEPT !.item[i] = over,
                              !.draft = @ \cup (IF ItemsOf(s, it.url) = {} THEN {i} ELSE {})],
                    it.url)
       ELSE [s EXCEPT !.item[i] = IF it.parse THEN over ELSE [it EXCEPT !.work = "none"]]

OnParseFailed(i) ==
    /\ intake.item[i].work = "failed"
    /\ intake' = Tidy(ParseFailed(intake, i))

-----------------------------------------------------------------------------
(* A task the browser hands over: into the draft if the user wants so,     *)
(* else to add.                                                            *)

Drafted(s, u) ==
    LET t == Min(NewTasks(s)) IN AddParsed(WithTask(s, u, t), t)

TakenOver(s, u, choice) ==
    LET t == Min(NewTasks(s))
    IN AddOrDraft(Opened(WithTask(s, u, t), u), t, choice)

HandToDraft(u) ==
    /\ HasTask(intake) /\ HasItems(intake, 1)
    /\ intake' = Tidy(Drafted(intake, u))

HandOver(u, choice) ==
    /\ HasTask(intake) /\ HasItems(intake, 1) /\ HasNames(intake, 1)
    /\ intake' = Tidy(TakenOver(intake, u, choice))

-----------------------------------------------------------------------------
(* The conflict queue.                                                     *)

\* The tasks of the list, added one by one.
AddedInTurn(s, tasks, choice) ==
    LET added[n \in 0..Len(tasks)] ==
            IF n = 0 THEN s ELSE AddFromQueue(added[n - 1], tasks[n], choice)
    IN  added[Len(tasks)]

\* One turn of _refresh's loop.  `asked` and `stuck` end it: what is left then stays
\* in the queue, and a failed add leaves nothing to ask and nothing posted.
NextConflict(s, t) ==
    IF s.asked # NoTask \/ s.stuck THEN [s EXCEPT !.queue = Append(@, t)]
    ELSE IF IsTaken(s.names, s.names.name[t]) THEN [s EXCEPT !.asked = t]
    ELSE [AddFromQueue(s, t, "keepBoth") EXCEPT !.stuck = AddFails(s.names)]

Refreshed(s) ==
    LET turn[n \in 0..Len(s.queue)] ==
            IF n = 0
            THEN [s EXCEPT !.posted = FALSE, !.asked = NoTask, !.stuck = FALSE, !.queue = <<>>]
            ELSE NextConflict(turn[n - 1], s.queue[n])
        over == turn[Len(s.queue)]
    IN [over EXCEPT !.rest = IF over.asked = NoTask THEN 0 ELSE Len(over.queue)]

OnRefresh ==
    /\ intake.posted
    /\ HasNames(intake, Len(intake.queue))
    /\ intake' = Tidy(Refreshed(intake))

\* setChoice: the answer counts for the conflict that is shown, or for all that were
\* waiting when it was shown.
Chosen(s, choice, toRest) ==
    LET count == IF toRest THEN s.rest ELSE 0
        others == [s EXCEPT !.queue = SubSeq(s.queue, count + 1, Len(s.queue))]
    IN Refreshed(AddedInTurn(others, <<s.asked>> \o SubSeq(s.queue, 1, count), choice))

SetChoice(choice, toRest) ==
    /\ intake.asked # NoTask
    /\ HasNames(intake, Len(intake.queue) + 1)
    /\ intake' = Tidy(Chosen(intake, choice, toRest))

\* cancel: the user does without the task.
Cancel ==
    /\ intake.asked # NoTask
    /\ HasNames(intake, Len(intake.queue))
    /\ intake' = Tidy(Refreshed(Settled(intake, intake.url[intake.asked])))

-----------------------------------------------------------------------------
(* Stored tasks.                                                           *)

\* What the bound counts.
Happens(s) == intake.events < MaxEvents /\ intake' = [s EXCEPT !.events = @ + 1]

\* Tasks other than t whose file is at the path p.
OthersAt(n, t, p) == {u \in n.stored \ {t} : n.name[u] = p}

Run(t) ==
    /\ t \in intake.names.stored \ (intake.running \cup intake.names.completed)
    /\ Happens([intake EXCEPT !.running = @ \cup {t}])

\* The body ends, and the file is whole or not.
BodyEnds(t, isComplete) ==
    /\ t \in intake.running /\ (isComplete => ~intake.names.gone)
    /\ LET over == [intake EXCEPT !.running = @ \ {t}]
       IN intake' = IF ~isComplete THEN over
                    ELSE [over EXCEPT !.names.completed = @ \cup {t},
                                      !.names.file[over.names.name[t]] = "data"]

\* onStopped of delete.
Cleared(s, t, withFiles) ==
    LET n == Cleaned(s.names, t, withFiles)
        p == n.name[t]
    IN [s EXCEPT !.names = n, !.deleted[t] = "no",
                 !.loose = IF n.file[p] # s.names.file[p] THEN @ \cup OthersAt(n, t, p) ELSE @]

\* delete: at once if no body has to end first, and the record at once anyway.
Deleted(s, t, withFiles) ==
    LET stopped == IF t \notin s.running THEN Cleared(s, t, withFiles)
                   ELSE [s EXCEPT !.deleted[t] = IF withFiles THEN "files" ELSE "keep"]
    IN [stopped EXCEPT !.names = Removed(@, t)]

Delete(t, withFiles) ==
    /\ t \in intake.names.stored
    /\ Happens(Tidy(Deleted(intake, t, withFiles)))

OnStopped(t) ==
    /\ intake.deleted[t] # "no" /\ t \notin intake.running
    /\ intake' = Tidy(Cleared(intake, t, intake.deleted[t] = "files"))

\* onStopped of edit, which gives a task another folder or name; the views offer it
\* unless the task is completed.  Those that lose by it had lost their file before, or
\* share a path with one that had.
Move(t, p) ==
    /\ t \in intake.names.stored \ (intake.running \cup intake.names.completed)
    /\ p # intake.names.holds[t]
    /\ \E q \in p..PathCount : ~IsExisting(intake.names, q)
    /\ LET n == Moved(intake.names, t, p)
           old == intake.names.holds[t]
           deprived == {u \in n.stored \ {t} : intake.names.owner[n.name[t]] = u}
           robbed == IF n.name[t] # old THEN OthersAt(n, t, old) ELSE {}
       IN Happens([intake EXCEPT !.names = n, !.loose = @ \cup deprived \cup robbed])

\* Others use the folder: a file is removed, the folder goes and comes back.
UserRemoves(p) ==
    /\ IsExisting(intake.names, p)
    /\ Happens([intake EXCEPT !.names.file[p] = "none",
                              !.loose = @ \cup OthersAt(intake.names, NoTask, p)])

FolderChanges == Happens([intake EXCEPT !.names.gone = ~@])

-----------------------------------------------------------------------------

NameConflictChoice == {"keepBoth", "overwrite", "ask"}

Next ==
    \/ \E urls \in SUBSET Url : \E kept, refused \in SUBSET urls :
        SetUrls(urls, kept, refused)
    \/ \E I \in SUBSET intake.draft :
        /\ Retry(I)
        /\ Cardinality(I) = 1 \/ I = {i \in intake.draft : intake.item[i].failed}
    \/ Clear
    \/ \E choice \in NameConflictChoice :
        \/ Confirm(choice)
        \/ \E i \in Item : OnParsed(i, choice)
        \/ \E u \in Url : HandOver(u, choice)
        \/ \E toRest \in BOOLEAN : choice # "ask" /\ SetChoice(choice, toRest)
    \/ \E i \in Item : OnParseFailed(i) \/ \E how \in {"done", "failed"} : ParseEnds(i, how)
    \/ \E u \in Url : HandToDraft(u)
    \/ OnRefresh
    \/ Cancel
    \/ \E t \in Task :
        \/ OnStopped(t)
        \/ Run(t)
        \/ \E isComplete \in BOOLEAN : BodyEnds(t, isComplete)
        \/ \E withFiles \in BOOLEAN : Delete(t, withFiles)
        \/ \E p \in Path : Move(t, p)
    \/ \E p \in Path : UserRemoves(p)
    \/ FolderChanges

Spec == Init /\ [][Next]_vars

-----------------------------------------------------------------------------

TypeOK == intake \in Intakes

\* Every link is in the draft once, and an item of the draft is being parsed, has a
\* task, or has failed: one of the three, whatever becomes of late results.
DraftIsWhole ==
    /\ \A i, j \in intake.draft : intake.item[i].url = intake.item[j].url => i = j
    /\ \A i \in intake.draft :
        LET it == intake.item[i]
        IN /\ ~it.confirmed
           /\ it.parse => it.work # "none"
           /\ \/ it.parse /\ it.task = NoTask /\ ~it.failed
              \/ ~it.parse /\ it.task # NoTask /\ ~it.failed
              \/ ~it.parse /\ it.task = NoTask /\ it.failed /\ it.work = "none"

\* A confirmed download is not forgotten: as long as it is not stored, back in the
\* draft, refused by the user or given up with an error by the conflict queue, its
\* link is being parsed for it or its task waits in the queue; and somebody is asked
\* about the queue or will be, unless a refresh failed.
NothingIsForgotten ==
    /\ \A u \in Url :
        intake.open[u] =
            Cardinality({i \in Item : /\ intake.item[i].url = u /\ intake.item[i].confirmed
                                      /\ intake.item[i].work # "none"})
            + Cardinality({t \in (Range(intake.queue) \cup {intake.asked}) \ {NoTask} :
                               intake.url[t] = u})
    /\ intake.queue # <<>> => intake.asked # NoTask \/ intake.posted \/ intake.stuck

\* A stored task holds the path it writes to, and a file is there for it, from which
\* follows that no two tasks share a path; except where others have removed it.
PlaceholdersAreKept ==
    LET n == intake.names
    IN \A t \in n.stored \ intake.loose :
        /\ n.holds[t] = n.name[t] /\ n.owner[n.name[t]] = t
        /\ n.file[n.name[t]] # "none"
=============================================================================
