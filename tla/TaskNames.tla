------------------------------ MODULE TaskNames ------------------------------
(***************************************************************************)
(* The data of TaskStore (app/services/task_service.py) that decides under *)
(* which name a task is stored, and the output folder it looks at.         *)
(*                                                                         *)
(* All tasks want the same name in the same folder, path 1; path k is what *)
(* the name becomes when 1 .. k-1 are passed over.  A task holds one path: *)
(* side files are left out.  A record n:                                   *)
(*                                                                         *)
(*   n.stored     _tasks                                                   *)
(*   n.name       task.name, the path the task writes to                   *)
(*   n.holds      _placeholders                                            *)
(*   n.owner      _taskByPlaceholder                                       *)
(*   n.completed  the tasks that are completed                             *)
(*   n.file       what is at a path: nothing, an empty file, or data       *)
(*   n.gone       the folder cannot be reached, and not be made            *)
(*                                                                         *)
(* The operators are functions from records to records; TaskIntake has the *)
(* handlers that call them.                                                *)
(*                                                                         *)
(* An operator whose comment starts with "Faulty" is no part of the model: *)
(* it is a variant of the next one with a plausible mistake, kept to see   *)
(* that the properties notice it.                                          *)
(***************************************************************************)
EXTENDS Integers, FiniteSetsExt

CONSTANTS
    TaskCount,  \* bound: the task ids are 1..TaskCount
    PathCount   \* bound: the paths are 1..PathCount

Task == 1..TaskCount
NoTask == 0
Path == 1..PathCount
NoPath == 0

ASSUME NamesAssumption == TaskCount \in Nat /\ PathCount \in Nat \ {0}

Names == [
    stored : SUBSET Task,
    name : [Task -> Path \cup {NoPath}],
    holds : [Task -> Path \cup {NoPath}],
    owner : [Path -> Task \cup {NoTask}],
    completed : SUBSET Task,
    file : [Path -> {"none", "empty", "data"}],
    gone : BOOLEAN]

-----------------------------------------------------------------------------

IsExisting(n, p) == ~n.gone /\ n.file[p] # "none"

\* _isUnfinishedPlaceholder: the path belongs to a task that is not completed.
IsUnfinished(n, p) == n.owner[p] # NoTask /\ n.owner[p] \notin n.completed

\* Someone's file is at p: to take p is a matter of choice.
IsTaken(n, p) == IsExisting(n, p) /\ ~IsUnfinished(n, p)

\* The first path from `first` on that the task may take without a question.
FirstFree(n, t, first) ==
    Min({p \in first..PathCount : ~IsExisting(n, p) \/ p = n.holds[t]})

\* The first one that does not belong to an unfinished task.
FirstOpen(n, first) == Min({p \in first..PathCount : ~IsExisting(n, p) \/ ~IsUnfinished(n, p)})

\* _removePlaceholders
Released(n, t) ==
    [n EXCEPT !.holds[t] = NoPath,
              !.owner = [p \in Path |-> IF p = n.holds[t] /\ @[p] = t THEN NoTask ELSE @[p]]]

\* _setPlaceholders, for a task whose name is p.
Holding(n, t, p) == [Released(n, t) EXCEPT !.holds[t] = p, !.owner[p] = t]

\* remove
Removed(n, t) == [Released(n, t) EXCEPT !.stored = @ \ {t}]

\* The task whose record goes when another is stored at p.
Replaced(n, p) == n.owner[p]

\* Faulty: the record of the task that had the path stays.
StoredBeside(n, t, p) ==
    Holding([n EXCEPT !.file[p] = "empty", !.name[t] = p, !.stored = @ \cup {t}], t, p)

\* _createPlaceholders and the rest of add, for a path that is free.
StoredAt(n, t, p) ==
    LET before == IF Replaced(n, p) \in n.stored \ {t} THEN Removed(n, Replaced(n, p)) ELSE n
        added == [before EXCEPT !.file[p] = "empty", !.name[t] = p, !.stored = @ \cup {t}]
    IN Holding(added, t, p)

\* What add raises as a TaskError.
AddFails(n) == n.gone

\* Where add stores t, unless it fails or asks.  An overwritten file is moved to the
\* recycle bin; if that cannot be done, an overwrite does what "keepBoth" does.
PathFor(n, t, choice) ==
    IF choice = "overwrite" THEN FirstOpen(n, n.name[t]) ELSE FirstFree(n, t, n.name[t])

\* add returns None: the first path that is no unfinished task's has a file.
Asks(n, t, choice) == choice = "ask" /\ IsTaken(n, FirstOpen(n, n.name[t]))

\* The task keeps the number it has come to.
AskedAbout(n, t) == [n EXCEPT !.name[t] = FirstOpen(n, @)]

\* updatePlaceholders after the name of t became p.  What is at the old path moves
\* with the task, and no record is replaced.
Moved(n, t, p) ==
    LET old == n.holds[t]
        new == FirstFree(n, t, p)
        there == IF IsExisting(n, old) THEN n.file[old] ELSE "empty"
    IN IF p = old \/ n.gone THEN n
       ELSE Holding([n EXCEPT !.file = IF new = old THEN @
                                       ELSE [@ EXCEPT ![new] = there, ![old] = "none"],
                              !.name[t] = new], t, new)

\* What the stop of a deleted task does to its path: deleteFiles empties the file,
\* deletePlaceholders removes an empty one, and anything if the task is not completed.
Cleaned(n, t, withFiles) ==
    LET p == n.name[t]
    IN IF IsExisting(n, p) /\ (withFiles \/ t \notin n.completed \/ n.file[p] = "empty")
       THEN [n EXCEPT !.file[p] = "none"]
       ELSE n
=============================================================================
