------------------------------ MODULE HttpStep ------------------------------
(***************************************************************************)
(* features/http_pack/task.py: the download of one file by HTTP.  A step   *)
(* runs a set of subworkers, coroutines of one loop that each download a   *)
(* range; they split the ranges of slow ones, take over the ranges of      *)
(* those that got nothing, and a supervisor writes the ranges to the       *)
(* record file `<path>.ghd` from which an interrupted run resumes.         *)
(*                                                                         *)
(* The file is Size blocks, numbered from 0; a block stands for bytes that *)
(* arrive together.  A piece of code between two awaits is one step; it is *)
(* written as a function on the crew: the list self.subworkers, what each  *)
(* HttpSubworker holds and where its coroutine is.                         *)
(*                                                                         *)
(* A subworker is in the list, or it has left: another one took over its   *)
(* range while it was still running.  One that has left changes its range  *)
(* no more, and those that have left are a set: no two of them began at    *)
(* the same place.  A range is taken over only if it begins no later than  *)
(* where its taker has got to by the end of that step, and one that is     *)
(* split off begins behind the block the split one gets next.  For the     *)
(* same reason `subworker in self.subworkers`, which compares values, is   *)
(* not true of one that has left.  A write that fails for a passing reason *)
(* between the take-over and the count (426-433) is not modelled.          *)
(*                                                                         *)
(* An operator whose comment starts with "Faulty" is no part of the model: *)
(* it is a variant of the next one with a plausible mistake, kept to see   *)
(* that the properties notice it.                                          *)
(***************************************************************************)
EXTENDS Integers, Sequences

CONSTANTS
    Size,         \* blocks of the file on the server
    Announced,    \* the file sizes the parse or the browser may have told
    Servers,      \* kinds of server, see Server below
    Count,        \* subworkerCount
    MinSplit,     \* maxReassignSize: a shorter rest is not split
    Boosts,       \* reassignments of one speed-up, at most the 4 of the code
    MaxList,      \* bound on the length of the list
    MaxTrouble    \* bound on the failures, pauses and crashes of a behaviour

\* ranges: it honours Range; length: it sends Content-Length.
Server == [ranges : BOOLEAN, length : BOOLEAN]

ASSUME HttpAssumption ==
    /\ Size \in Nat \ {0} /\ Announced \subseteq Nat \ {0} /\ Servers \subseteq Server
    /\ Count \in Nat \ {0} /\ MinSplit \in Nat \ {0, 1}
    /\ Boosts \in 0..4 /\ MaxList \in Nat \ {0} /\ MaxTrouble \in Nat

Blocks == 0..Size - 1
Endless == Size + Count       \* sys.maxsize, as the end of a range
Unknown == 0                  \* SpecialFileSize.UNKNOWN, as a file size
Whole == -1                   \* SpecialFileSize.NOT_SUPPORTED, as the end of a range

VARIABLES
    server,     \* what the server does, fixed
    phase,      \* "idle", "running" or "done"
    canRange,   \* canUseRangeRequests
    known,      \* fileSize
    isResuming, \* local of run
    crew,       \* the subworkers
    disk,       \* blocks of the output file that hold what the server has
    record,     \* the ranges in the record file; empty if there is none
    kept,       \* canRange and known as the Task Record on disk has them
    trouble,    \* failures, pauses and crashes so far
    misled      \* history: a run ended while record and fileSize disagreed

vars == <<server, phase, canRange, known, isResuming, crew, disk, record, kept, trouble, misled>>

\* Where a coroutine is: about to run, awaiting a response (of a request without
\* Range if "confirming"), reading its stream, or over.
Places == {"ready", "confirming", "asked", "streaming", "over"}
Subworker == [start : Nat, end : Nat \cup {Whole}, got : Nat, at : Places]
Crews == [list : Seq(Subworker), left : SUBSET Subworker]
NoCrew == [list |-> <<>>, left |-> {}]

NewSubworker(start, end, got) == [start |-> start, end |-> end, got |-> got, at |-> "ready"]
Pos(w) == w.start + w.got
Rest(w) == w.end - Pos(w) + 1
IsRanged(w) == w.end # Whole
Move(c, k, place) == [c EXCEPT !.list[k].at = place]

SmallerOf(a, b) == IF a < b THEN a ELSE b

-----------------------------------------------------------------------------
(* The list of subworkers.                                                 *)

\* _buildSubworkers
Built(range, size) ==
    [list |-> <<NewSubworker(0, IF range THEN size - 1 ELSE Whole, 0)>>, left |-> {}]

\* Faulty: only those that are still running are written.
WrittenIfLive(list) ==
    LET live == SelectSeq(list, LAMBDA w : w.at # "over")
    IN [k \in DOMAIN live |-> <<live[k].start, Pos(live[k]), live[k].end>>]

\* What the supervisor writes, and the crew that _loadRecord makes of it.
Written(list) == [k \in DOMAIN list |-> <<list[k].start, Pos(list[k]), list[k].end>>]
Loaded(ranges) ==
    [list |-> [k \in DOMAIN ranges |-> LET r == ranges[k] IN NewSubworker(r[1], r[3], r[2] - r[1])],
     left |-> {}]

\* The place of the first of those with the longest rest.
Slowest(list) == CHOOSE k \in DOMAIN list :
    /\ \A j \in DOMAIN list : Rest(list[j]) <= Rest(list[k])
    /\ \A j \in 1..k - 1 : Rest(list[j]) < Rest(list[k])

\* The list with x for its k-th, and `new` for the m that follow.
Spliced(list, k, m, x, new) ==
    SubSeq(list, 1, k - 1) \o <<x>> \o new \o SubSeq(list, k + m + 1, Len(list))

\* _splitSlowest, and a task for each new subworker, as far as MaxList goes.
Split(c, count) ==
    LET k == Slowest(c.list)
        w == c.list[k]
        n == SmallerOf(SmallerOf(count, MaxList - Len(c.list) + 1), Rest(w))
        base == Rest(w) \div n
        first == Pos(w) + base + (Rest(w) % n)
        new == [j \in 1..n - 1 |-> NewSubworker(first + (j - 1) * base, first + j * base - 1, 0)]
    IN IF n < 2 THEN c
       ELSE [c EXCEPT !.list = Spliced(@, k, 0, [w EXCEPT !.end = first - 1], new)]

\* _reassignSubworker
Reassigned(c, size) ==
    IF size <= 0 \/ Rest(c.list[Slowest(c.list)]) < MinSplit THEN c ELSE Split(c, 2)

\* The k-th, which has taken over m neighbours, needs no other or may take no other:
\* _emptyRightOf.
StopsAt(list, k, m, reach) ==
    list[k + m].end >= reach \/ k + m = Len(list) \/ list[k + m + 1].got > 0

\* The loops over _emptyRightOf: the k-th takes over its neighbours to the right
\* that got nothing, until its range reaches `reach`.
Extended(c, k, reach) ==
    LET L == c.list
        m == CHOOSE m \in 0..Len(L) - k :
                StopsAt(L, k, m, reach) /\ \A j \in 0..m - 1 : ~StopsAt(L, k, j, reach)
    IN [list |-> Spliced(L, k, m, [L[k] EXCEPT !.end = L[k + m].end], <<>>),
        left |-> c.left \cup {w \in {L[j] : j \in k + 1 .. k + m} : w.at # "over"}]

-----------------------------------------------------------------------------
(* The coroutine of a subworker with a range.                              *)

\* The head of its loop: a subworker at the end of its range takes over its neighbours.
Adjoined(c, k) == Extended(c, k, Pos(c.list[k]))

\* A subworker with nothing to do is over, and one more splits the slowest.
Ended(c, k, size) == Reassigned(Move(c, k, "over"), size)

\* Faulty: the last block counts as received.
RequestedButLast(c, k, size) ==
    IF Rest(c.list[k]) <= 1 THEN Ended(c, k, size)
    ELSE Move(c, k, IF Len(c.list) = 1 /\ Pos(c.list[1]) = 0 THEN "confirming" ELSE "asked")

\* Then it requests what is left of its range, or it is over.
Requested(c, k, size) ==
    IF Rest(c.list[k]) <= 0 THEN Ended(c, k, size)
    ELSE Move(c, k, IF Len(c.list) = 1 /\ Pos(c.list[1]) = 0 THEN "confirming" ELSE "asked")

\* A response is accepted, whoever asked: a subworker alone in the list shares its range.
SharedIfAlone(c, range) == IF range /\ Len(c.list) = 1 THEN Split(c, Count) ELSE c
Opened(c, k, range) == SharedIfAlone(Move(c, k, "streaming"), range)

\* Faulty: the chunk is not cut.
ReceivedUncut(c, k, n) ==
    LET d == Extended(c, k, Pos(c.list[k]) + n)
    IN [d EXCEPT !.list[k].got = @ + n]

\* A chunk of n: the subworker takes over what the chunk runs into, and cuts the
\* chunk at the end of its range.
Received(c, k, n) ==
    LET d == Extended(c, k, Pos(c.list[k]) + n)
    IN [d EXCEPT !.list[k].got = @ + SmallerOf(n, Rest(d.list[k]))]

-----------------------------------------------------------------------------
Init ==
    /\ server \in Servers
    /\ phase = "idle"
    /\ canRange = TRUE
    /\ known \in Announced
    /\ isResuming = FALSE
    /\ crew = NoCrew
    /\ disk = {} /\ record = <<>>
    /\ kept = [canRange |-> TRUE, known |-> known]
    /\ trouble = 0 /\ misled = FALSE

Running == phase = "running"
Fixed == UNCHANGED server
NoTrouble == UNCHANGED <<trouble, misled>>

\* run, up to its first await: the record is loaded or the list is built, the file
\* is opened and cut, and the ranges of a resumed run are shared out again.
Start ==
    /\ phase = "idle"
    /\ phase' = "running"
    /\ LET loaded == IF canRange THEN record ELSE <<>>
       IN /\ record' = loaded
          /\ isResuming' = (loaded # <<>>)
          /\ crew' = IF loaded = <<>> THEN Built(canRange, known)
                     ELSE Split(Loaded(loaded), Count - Len(loaded) + 1)
          /\ disk' = IF ~canRange THEN {}
                     ELSE IF loaded = <<>> THEN disk \cap 0..known - 1 ELSE disk
    /\ UNCHANGED <<canRange, known, kept>> /\ Fixed /\ NoTrouble

\* Faulty: it goes on as before.
StartsOverWithRanges ==
    /\ canRange' = canRange
    /\ isResuming' = FALSE
    /\ crew' = Built(canRange', known')
    /\ disk' = {} /\ record' = <<>>

\* run catches RangeNotSupportedError: a resumed run starts over, another one goes
\* on without ranges.
StartsOver ==
    /\ canRange' = (canRange /\ isResuming)
    /\ isResuming' = FALSE
    /\ crew' = Built(canRange', known')
    /\ disk' = {} /\ record' = <<>>

At(k, place) == Running /\ k \in DOMAIN crew.list /\ crew.list[k].at = place

\* The head of the loop, for a crew computed so far; \E evaluates it once.
Loops(c, k) == \E d \in {Adjoined(c, k)} : crew' = Requested(d, k, known)

\* A coroutine starts, or comes back from its five seconds of sleep.
Begin(k) ==
    /\ At(k, "ready")
    /\ IF IsRanged(crew.list[k])
       THEN Loops(crew, k) /\ UNCHANGED disk
       ELSE /\ crew' = [Move(crew, k, "asked") EXCEPT !.list[k].got = 0]
            /\ disk' = {}
    /\ UNCHANGED <<phase, canRange, known, isResuming, record, kept>> /\ Fixed /\ NoTrouble

\* The response to a request without Range tells the size of the file.
Confirm(k) ==
    /\ At(k, "confirming")
    /\ known' = IF server.length THEN Size ELSE Unknown
    /\ canRange' = (canRange /\ server.length)
    /\ LET end == IF server.length THEN Size - 1 ELSE Endless
       IN crew' = Opened([crew EXCEPT !.list[k].end = end], k, canRange')
    /\ disk' = IF server.length THEN disk \cap Blocks ELSE disk
    /\ UNCHANGED <<phase, isResuming, record, kept>> /\ Fixed /\ NoTrouble

\* Whether matchRange accepts what the server answers to a request for a range.
RangeMatches == server.ranges /\ known = Size

\* A response to a request for a range, or for the whole file.
Accept(k) ==
    /\ At(k, "asked")
    /\ LET w == crew.list[k]
       IN /\ IsRanged(w) => RangeMatches /\ Pos(w) < Size
          /\ crew' = IF IsRanged(w) THEN Opened(crew, k, canRange)
                     ELSE Move(crew, k, "streaming")
    /\ UNCHANGED <<phase, canRange, known, isResuming, disk, record, kept>> /\ Fixed /\ NoTrouble

\* The response is not the range that was asked for.
Mismatch(k) ==
    /\ At(k, "asked") /\ IsRanged(crew.list[k]) /\ ~RangeMatches
    /\ known' = known
    /\ StartsOver
    /\ UNCHANGED <<phase, kept>> /\ Fixed /\ NoTrouble

Chunk(k, n) ==
    /\ At(k, "streaming") /\ Pos(crew.list[k]) + n <= Size
    /\ \E c \in {IF IsRanged(crew.list[k]) THEN Received(crew, k, n)
              ELSE [crew EXCEPT !.list[k].got = @ + n]} :
          /\ disk' = disk \cup Pos(crew.list[k]) .. Pos(c.list[k]) - 1
          /\ IF IsRanged(crew.list[k]) /\ Rest(c.list[k]) <= 0 THEN Loops(c, k) ELSE crew' = c
    /\ UNCHANGED <<phase, canRange, known, isResuming, record, kept>> /\ Fixed /\ NoTrouble

\* The server has sent all there is.
StreamEnds(k) ==
    /\ At(k, "streaming") /\ Pos(crew.list[k]) = Size
    /\ IF canRange THEN Loops(crew, k) ELSE crew' = Move(crew, k, "over")
    /\ UNCHANGED <<phase, canRange, known, isResuming, disk, record, kept>> /\ Fixed /\ NoTrouble

\* Faulty: the first one gives up like the others.
LeavesToNeighbourEvenFirst(k) == crew.list[k].got = 0

\* A subworker that fails without a byte leaves its range to its neighbour, unless
\* it is the first.
LeavesToNeighbour(k) == crew.list[k].got = 0 /\ k # 1

\* What an exception of the request or of the stream does: after a response without
\* a length the run starts over; else the subworker leaves its range or tries again.
Fails(k) ==
    IF IsRanged(crew.list[k]) /\ ~canRange
    THEN known' = known /\ StartsOver
    ELSE /\ crew' = Move(crew, k, IF IsRanged(crew.list[k]) /\ LeavesToNeighbour(k)
                                 THEN "over" ELSE "ready")
         /\ UNCHANGED <<canRange, known, isResuming, disk, record>>

Fail(k) ==
    /\ At(k, "confirming") \/ At(k, "asked") \/ At(k, "streaming")
    /\ trouble < MaxTrouble /\ trouble' = trouble + 1
    /\ Fails(k)
    /\ UNCHANGED <<phase, kept, misled>> /\ Fixed

\* A range that begins behind the end of the file is refused.
Refuse(k) ==
    /\ At(k, "asked") /\ IsRanged(crew.list[k]) /\ RangeMatches /\ Pos(crew.list[k]) >= Size
    /\ Fails(k)
    /\ UNCHANGED <<phase, kept>> /\ Fixed /\ NoTrouble

\* Faulty: it writes what it receives.
GoneWithChunk(w) == {[w EXCEPT !.got = @ + 1]}

\* What a chunk leaves of a subworker that has left.
GoneOnChunk(w) == IF w.got = 0 THEN {} ELSE {[w EXCEPT !.got = @ + 1]}

\* A subworker that has left starts, fails, or gets a chunk or the end of the stream.
LeaverGoesOn(w, others) ==
    \/ w.at \in {"ready", "asked"} /\ crew' = [crew EXCEPT !.left = others]
    \/ /\ w.at = "streaming" /\ Pos(w) < Size
       /\ crew' = [crew EXCEPT !.left = others \cup GoneOnChunk(w)]

\* Its response is accepted like any other: if one subworker is in the list, that one
\* shares its range.
LeaverIsAnswered(w, others) ==
    /\ w.at = "asked" /\ RangeMatches /\ Pos(w) < Size
    /\ LET answered == [w EXCEPT !.at = "streaming"]
       IN crew' = SharedIfAlone([crew EXCEPT !.left = others \cup {answered}], canRange)

Leaver(w) ==
    /\ Running /\ w \in crew.left
    /\ LET others == crew.left \ {w}
       IN \/ w.at = "asked" /\ ~RangeMatches /\ known' = known /\ StartsOver
          \/ /\ LeaverGoesOn(w, others) \/ LeaverIsAnswered(w, others)
             /\ UNCHANGED <<canRange, known, isResuming, disk, record>>
    /\ UNCHANGED <<phase, kept>> /\ Fixed /\ NoTrouble

Boost(c, j) == IF j <= Boosts THEN Reassigned(c, known) ELSE c
Boosted(c) == Boost(Boost(Boost(Boost(c, 1), 2), 3), 4)

\* The supervisor, once a second: it writes the record, and may speed up.
Supervise(isBoosting) ==
    /\ Running
    /\ record' = IF IsRanged(crew.list[1]) THEN Written(crew.list) ELSE record
    /\ isBoosting => \E k \in DOMAIN crew.list : crew.list[k].got > 0
    /\ crew' = IF isBoosting THEN Boosted(crew) ELSE crew
    /\ UNCHANGED <<phase, canRange, known, isResuming, disk, kept>> /\ Fixed /\ NoTrouble

\* Every coroutine is over: the step is done and the record deleted.
Finish ==
    /\ Running /\ crew.left = {} /\ \A k \in DOMAIN crew.list : At(k, "over")
    /\ phase' = "done"
    /\ record' = <<>>
    /\ UNCHANGED <<canRange, known, isResuming, crew, disk, kept>> /\ Fixed /\ NoTrouble

\* The record says another end of the file than the size the server will confirm.
Disagree(range, size, ranges) ==
    range /\ size = Size /\ ranges # <<>> /\ ranges[Len(ranges)][3] # size - 1

Stops ==
    /\ Running /\ trouble < MaxTrouble /\ trouble' = trouble + 1
    /\ phase' = "idle"
    /\ crew' = NoCrew
    /\ misled' = (misled \/ Disagree(canRange', known', record'))

\* A pause, the end of the program or a permanent error: the supervisor closes
\* the record as it is.
Abort ==
    /\ UNCHANGED <<canRange, known, isResuming, disk, record, kept>> /\ Fixed
    /\ Stops

\* What was not flushed is lost; the record may have been opened and not written.
Crash ==
    /\ canRange' = kept.canRange /\ known' = kept.known
    /\ record' \in {record, <<>>}
    /\ Stops
    /\ UNCHANGED <<isResuming, disk, kept>> /\ Fixed

\* TaskService.flush
Flush ==
    /\ kept' = [canRange |-> canRange, known |-> known]
    /\ UNCHANGED <<phase, canRange, known, isResuming, crew, disk, record>> /\ Fixed /\ NoTrouble

-----------------------------------------------------------------------------
Progress ==
    \/ \E k \in 1..MaxList :
          \/ Begin(k) \/ Confirm(k) \/ Accept(k) \/ Mismatch(k) \/ Refuse(k) \/ StreamEnds(k)
          \/ \E n \in 1..Size : Chunk(k, n)
    \/ \E w \in crew.left : Leaver(w)

Next ==
    \/ Progress
    \/ \E k \in 1..MaxList : Fail(k)
    \/ \E isBoosting \in BOOLEAN : Supervise(isBoosting)
    \/ Start \/ Finish \/ Abort \/ Crash \/ Flush

Spec == Init /\ [][Next]_vars

\* The loop keeps turning, the server answers what it is asked, and an interrupted
\* step is started again.
Fairness == WF_vars(Start) /\ WF_vars(Progress) /\ WF_vars(Finish)

FairSpec == Spec /\ Fairness

-----------------------------------------------------------------------------
(* Properties.                                                             *)

TypeOK ==
    /\ server \in Servers /\ phase \in {"idle", "running", "done"}
    /\ canRange \in BOOLEAN /\ isResuming \in BOOLEAN /\ known \in Nat
    /\ crew \in Crews /\ disk \subseteq Blocks /\ record \in Seq(Int \X Int \X Int)
    /\ kept \in [canRange : BOOLEAN, known : Nat]
    /\ trouble \in 0..MaxTrouble /\ misled \in BOOLEAN

\* A finished step has the whole file.
DoneIsWhole == phase = "done" => Blocks \subseteq disk

\* So it has unless a run ended before the record knew the confirmed size.
DoneIsWholeUnlessMisled == ~misled => DoneIsWhole

\* The ranges of the list follow each other from the first block on, to the last
\* one once the size is right; what they count as received lies in them and is on
\* disk.
RangesAreWhole ==
    LET L == crew.list
    IN Running /\ ~misled /\ IsRanged(L[1]) =>
        /\ L[1].start = 0
        /\ \A k \in 2..Len(L) : L[k].start = L[k - 1].end + 1
        /\ known = Size => L[Len(L)].end = Size - 1
        /\ \A k \in DOMAIN L :
            /\ Pos(L[k]) <= L[k].end + 1
            /\ L[k].start .. Pos(L[k]) - 1 \subseteq disk

\* A record from which a run will resume lists every block that is missing.
RecordListsMissing ==
    phase = "idle" /\ ~misled /\ canRange /\ known = Size /\ record # <<>> =>
        \A b \in Blocks \ disk : \E k \in 1..Len(record) : b \in record[k][2] .. record[k][3]

\* A range that was given up without a byte has, on its left and with nothing but
\* such ranges between, a subworker that will take it over.
GivenUpIsTakenOver ==
    LET L == crew.list
    IN Running /\ canRange =>
        \A k \in DOMAIN L : L[k].at = "over" /\ Rest(L[k]) > 0 =>
            \E j \in 1..k - 1 : L[j].at # "over" /\ \A m \in j + 1..k : L[m].got = 0

\* A subworker whose range was taken over downloads nothing of it, and one of the list has
\* got to where it began: no range that is split off later begins there.
TakenOverIsLeft ==
    \A w \in crew.left :
        /\ w.got = 0
        /\ \E k \in DOMAIN crew.list :
              crew.list[k].start < w.start /\ w.start <= Pos(crew.list[k])

\* A step that is started again after each of finitely many failures is finished.
StepEnds == <>(phase = "done" \/ misled)
=============================================================================
