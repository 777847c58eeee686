-------------------------- MODULE TaskRelayProofs --------------------------
(***************************************************************************)
(* Theorems about TaskRelay, for every set of tasks and any number of      *)
(* connections and restarts.                                               *)
(***************************************************************************)
EXTENDS TaskRelay, TLAPS

\* The variables have their types.
TypeOK ==
    /\ link \in Connection!States /\ connects \in 0..MaxConnects /\ restarts \in 0..MaxRestarts
    /\ call \in [Tasks -> Stages] /\ stored \in SUBSET Tasks /\ copy \in [Tasks -> SUBSET Tasks]
    /\ flush \in [Flushes -> Flush] /\ request \in [Requests -> Request]
    /\ outcome \in [once : SUBSET Tasks, again : SUBSET Tasks,
                    answered : SUBSET Tasks, doubtful : SUBSET Tasks]
    /\ mishap \in [lostUpdate : BOOLEAN, overlap : BOOLEAN, stranded : SUBSET Tasks]

\* A connection that is yet to be made has no flush.
NoFlushYet == \A f \in Flushes : f > connects => flush[f].stage = "none"

\* A flush has one request at a time, and it is the one it awaits.
AwaitsItsRequest ==
    \A task \in Tasks, f \in Flushes :
        request[<<task, f>>].pending => flush[f].stage = "sends" /\ flush[f].sending = task

\* A flush forgets no task that it has read.
AccountsForAll ==
    \A f \in Flushes : flush[f].stage = "sends" =>
        \A task \in flush[f].read :
            \/ task \in flush[f].todo \/ task \in flush[f].failed
            \/ task = flush[f].sending \/ task \in outcome.answered

\* What makes QueuedIsKept inductive.
IInv == TypeOK /\ NoFlushYet /\ AwaitsItsRequest /\ AccountsForAll /\ QueuedIsKept

---------------------------------------------------------------------------
(* Type correctness. *)

LEMMA InitTypeOK == Init => TypeOK
<1> SUFFICES ASSUME Init PROVE TypeOK
    OBVIOUS
<1>1. connects \in 0..MaxConnects /\ restarts \in 0..MaxRestarts
    BY RelayAssumption DEF Init
<1> QED BY <1>1 DEF Init, TypeOK, Connection!Init, Connection!States, Stages, Flush, NoFlush,
                    Request, Unsent, NoOutcome, NoMishap

\* Rejected requests leave calls, copies and flushes of their types.
LEMMA RejectsTyping ==
    ASSUME TypeOK, NEW given \in SUBSET Requests, NEW ready, Rejects(given, ready)
    PROVE  /\ call' \in [Tasks -> Stages] /\ copy' \in [Tasks -> SUBSET Tasks]
           /\ flush' \in [Flushes -> Flush]
<1>1. call' \in [Tasks -> Stages]
    BY DEF TypeOK, Rejects, Stages
<1>2. copy' \in [Tasks -> SUBSET Tasks]
    BY DEF TypeOK, Rejects
<1>3. ASSUME NEW f \in Flushes
      PROVE  (IF <<flush[f].sending, f>> \notin given THEN flush[f]
              ELSE [flush[f] EXCEPT !.failed = @ \cup {flush[f].sending}, !.sending = NoTask]) \in Flush
    <2>1. flush[f] \in Flush
        BY DEF TypeOK
    <2>2. CASE <<flush[f].sending, f>> \in given
        <3>1. flush[f].sending \in Tasks
            BY <2>2 DEF Requests
        <3> QED BY <2>1, <2>2, <3>1 DEF Flush
    <2> QED BY <2>1, <2>2
<1> QED BY <1>1, <1>2, <1>3 DEF Rejects

\* A connection that is cut leaves requests.
LEMMA CutTyping ==
    ASSUME TypeOK, NEW given, Cut(given)
    PROVE  request' \in [Requests -> Request]
BY DEF TypeOK, Cut, Request

\* What the steps make of a flush is a flush.
LEMMA FlushTyping ==
    ASSUME NEW fl \in Flush, NEW task \in Tasks, stored \in SUBSET Tasks
    PROVE  /\ [fl EXCEPT !.stage = "reads", !.read = stored] \in Flush
           /\ [fl EXCEPT !.stage = "sends", !.todo = fl.read] \in Flush
           /\ [fl EXCEPT !.todo = @ \ {task}, !.sending = task] \in Flush
           /\ [fl EXCEPT !.todo = @ \ {task}, !.failed = @ \cup {task}] \in Flush
           /\ [fl EXCEPT !.sending = NoTask] \in Flush
BY DEF Flush

LEMMA ConstantTyping ==
    /\ Flushed \in Flush /\ NoFlush \in Flush
    /\ Sent \in Request /\ Over \in Request
    /\ \A task \in Tasks, sender \in Senders : <<task, sender>> \in Requests
BY DEF Flush, Flushed, NoFlush, Sent, Over, Request, Requests

LEMMA StepTypeOK == TypeOK /\ [Next]_vars => TypeOK'
<1> SUFFICES ASSUME TypeOK, [Next]_vars PROVE TypeOK'
    OBVIOUS
<1>l. link \in Connection!States
    BY DEF TypeOK
<1>n. connects \in 0..MaxConnects /\ restarts \in 0..MaxRestarts
    BY DEF TypeOK
<1>c. call \in [Tasks -> Stages] /\ copy \in [Tasks -> SUBSET Tasks]
    BY DEF TypeOK
<1>s. stored \in SUBSET Tasks
    BY DEF TypeOK
<1>f. flush \in [Flushes -> Flush]
    BY DEF TypeOK
<1>r. request \in [Requests -> Request]
    BY DEF TypeOK
<1>h. /\ outcome \in [once : SUBSET Tasks, again : SUBSET Tasks,
                      answered : SUBSET Tasks, doubtful : SUBSET Tasks]
      /\ mishap \in [lostUpdate : BOOLEAN, overlap : BOOLEAN, stranded : SUBSET Tasks]
    BY DEF TypeOK
<1>1. ASSUME NEW task \in Tasks, Call(task) PROVE TypeOK'
    <2>1. request' \in [Requests -> Request]
        BY <1>1, <1>r, ConstantTyping DEF Call, Senders
    <2>2. call' \in [Tasks -> Stages] /\ copy' \in [Tasks -> SUBSET Tasks]
        BY <1>1, <1>c, <1>s DEF Call, Stages
    <2> QED BY <1>1, <1>l, <1>n, <1>s, <1>f, <1>h, <2>1, <2>2 DEF Call, TypeOK
<1>2. ASSUME NEW task \in Tasks, Enqueue(task) PROVE TypeOK'
    <2>1. call' \in [Tasks -> Stages] /\ copy' \in [Tasks -> SUBSET Tasks]
        BY <1>2, <1>c DEF Enqueue, Stages
    <2>2. stored' \in SUBSET Tasks
        BY <1>2, <1>c DEF Enqueue, WritesQueue
    <2>3. mishap' \in [lostUpdate : BOOLEAN, overlap : BOOLEAN, stranded : SUBSET Tasks]
        BY <1>2, <1>h, <1>c DEF Enqueue, WritesQueue
    <2> QED BY <1>2, <1>l, <1>n, <1>f, <1>r, <1>h, <2>1, <2>2, <2>3 DEF Enqueue, TypeOK
<1>3. CASE Connects
    <2>1. connects' \in Flushes /\ connects' \in 0..MaxConnects
        BY <1>3, <1>n, RelayAssumption DEF Connects, Flushes
    <2>2. [flush[connects'] EXCEPT !.stage = "reads", !.read = stored] \in Flush
        <3>1. flush[connects'] \in Flush
            BY <2>1, <1>f
        <3> QED BY <3>1, <1>s DEF Flush
    <2>3. flush' \in [Flushes -> Flush]
        BY <1>3, <1>f, <2>1, <2>2 DEF Connects
    <2>4. mishap' \in [lostUpdate : BOOLEAN, overlap : BOOLEAN, stranded : SUBSET Tasks]
        BY <1>3, <1>h DEF Connects
    <2>5. link' \in Connection!States
        BY <1>3 DEF Connects, Connection!Connects, Connection!States
    <2> QED BY <1>3, <1>n, <1>c, <1>s, <1>r, <1>h, <2>1, <2>3, <2>4, <2>5 DEF Connects, TypeOK
<1>4. ASSUME NEW f \in Flushes, FlushStarts(f) PROVE TypeOK'
    <2>1. [flush[f] EXCEPT !.stage = "sends", !.todo = flush[f].read] \in Flush
        <3>1. flush[f] \in Flush
            BY <1>f
        <3> QED BY <3>1 DEF Flush
    <2>2. flush' \in [Flushes -> Flush]
        BY <1>4, <1>f, <2>1, ConstantTyping DEF FlushStarts
    <2> QED BY <1>4, <1>l, <1>n, <1>c, <1>s, <1>r, <1>h, <2>2 DEF FlushStarts, TypeOK
<1>5. ASSUME NEW f \in Flushes, NEW task \in Tasks, FlushSends(f, task) PROVE TypeOK'
    <2>1. request' \in [Requests -> Request]
        BY <1>5, <1>r, ConstantTyping DEF FlushSends, Senders
    <2>2. /\ [flush[f] EXCEPT !.todo = @ \ {task}, !.sending = task] \in Flush
          /\ [flush[f] EXCEPT !.todo = @ \ {task}, !.failed = @ \cup {task}] \in Flush
        BY <1>f, <1>s, FlushTyping
    <2>3. \/ flush' = [flush EXCEPT ![f] = [@ EXCEPT !.todo = flush[f].todo \ {task}, !.sending = task]]
          \/ flush' = [flush EXCEPT ![f] = [@ EXCEPT !.todo = flush[f].todo \ {task},
                                           !.failed = flush[f].failed \cup {task}]]
        <3>1. CASE Ready
            BY <1>5, <3>1 DEF FlushSends
        <3>2. CASE ~Ready
            BY <1>5, <3>2 DEF FlushSends
        <3> QED BY <3>1, <3>2
    <2>4. flush' \in [Flushes -> Flush]
        BY <1>f, <2>2, <2>3
    <2> QED BY <1>5, <1>l, <1>n, <1>c, <1>s, <1>h, <2>1, <2>4 DEF FlushSends, TypeOK
<1>6. ASSUME NEW f \in Flushes, FlushEnds(f) PROVE TypeOK'
    <2>1. Kept(f) \in SUBSET Tasks
        BY <1>f DEF Kept, Flush
    <2>2. flush' \in [Flushes -> Flush]
        BY <1>6, <1>f, ConstantTyping DEF FlushEnds
    <2>3. stored' \in SUBSET Tasks
        BY <1>6, <2>1 DEF FlushEnds, WritesQueue
    <2>4. mishap' \in [lostUpdate : BOOLEAN, overlap : BOOLEAN, stranded : SUBSET Tasks]
        BY <1>6, <1>h, <2>1 DEF FlushEnds, WritesQueue
    <2> QED BY <1>6, <1>l, <1>n, <1>c, <1>r, <1>h, <2>2, <2>3, <2>4 DEF FlushEnds, TypeOK
<1>7. ASSUME NEW task \in Tasks, NEW sender \in Senders, AnswerArrives(task, sender) PROVE TypeOK'
    <2>1. request' \in [Requests -> Request]
        BY <1>7, <1>r, ConstantTyping DEF AnswerArrives
    <2>2. outcome' \in [once : SUBSET Tasks, again : SUBSET Tasks,
                        answered : SUBSET Tasks, doubtful : SUBSET Tasks]
        <3>1. outcome' = outcome \/ outcome' = [outcome EXCEPT !.answered = @ \cup {task}]
            BY <1>7 DEF AnswerArrives
        <3> QED BY <3>1, <1>h
    <2>3. call' \in [Tasks -> Stages]
        BY <1>7, <1>c DEF AnswerArrives, Stages
    <2>4. \/ flush' = flush
          \/ flush' = [flush EXCEPT ![sender] = [@ EXCEPT !.sending = NoTask]] /\ sender \in Flushes
        BY <1>7 DEF AnswerArrives, Senders
    <2>5. \A f \in Flushes : [flush[f] EXCEPT !.sending = NoTask] \in Flush
        BY <1>f, <1>s, FlushTyping
    <2>6. flush' \in [Flushes -> Flush]
        BY <1>f, <2>4, <2>5
    <2> QED BY <1>7, <1>l, <1>n, <1>c, <1>s, <1>h, <2>1, <2>2, <2>3, <2>6 DEF AnswerArrives, TypeOK
<1>8. ASSUME NEW task \in Tasks, NEW sender \in Senders, TimesOut(task, sender) PROVE TypeOK'
    <2>1. <<task, sender>> \in Requests
        BY ConstantTyping
    <2>2. [request[<<task, sender>>] EXCEPT !.pending = FALSE] \in Request
        BY <2>1, <1>r DEF Request
    <2>3. request' \in [Requests -> Request]
        BY <1>8, <1>r, <2>1, <2>2 DEF TimesOut
    <2>4. /\ call' \in [Tasks -> Stages] /\ copy' \in [Tasks -> SUBSET Tasks]
          /\ flush' \in [Flushes -> Flush]
        BY <1>8, <2>1, RejectsTyping DEF TimesOut
    <2>5. outcome' \in [once : SUBSET Tasks, again : SUBSET Tasks,
                        answered : SUBSET Tasks, doubtful : SUBSET Tasks]
        BY <1>8, <1>h DEF TimesOut, Unsettled
    <2> QED BY <1>8, <1>l, <1>n, <1>s, <1>h, <2>3, <2>4, <2>5 DEF TimesOut, TypeOK
<1>9. CASE Mutes
    <2>1. link' \in Connection!States
        BY <1>9 DEF Mutes, Connection!FallsMute, Connection!ConnectsMute, Connection!States
    <2> QED BY <1>9, <1>n, <1>c, <1>s, <1>f, <1>r, <1>h, <2>1 DEF Mutes, TypeOK
<1>10. CASE Breaks
    <2>1. PICK given \in {{}, {r \in Requests : request[r].pending}} :
              Cut(given) /\ Rejects(given, FALSE)
        BY <1>10 DEF Breaks
    <2>2. given \in SUBSET Requests
        OBVIOUS
    <2>3. request' \in [Requests -> Request]
        BY <2>1, CutTyping
    <2>4. /\ call' \in [Tasks -> Stages] /\ copy' \in [Tasks -> SUBSET Tasks]
          /\ flush' \in [Flushes -> Flush]
        BY <2>1, <2>2, RejectsTyping
    <2>5. outcome' \in [once : SUBSET Tasks, again : SUBSET Tasks,
                        answered : SUBSET Tasks, doubtful : SUBSET Tasks]
        BY <1>10, <1>h DEF Breaks, Unsettled
    <2>6. link' \in Connection!States
        BY <1>10 DEF Breaks, Connection!Breaks, Connection!States
    <2> QED BY <1>10, <1>n, <1>s, <1>h, <2>3, <2>4, <2>5, <2>6 DEF Breaks, TypeOK
<1>11. CASE Restart
    <2>1. request' \in [Requests -> Request]
        BY <1>11, CutTyping DEF Restart
    <2>2. flush' \in [Flushes -> Flush]
        BY <1>11, ConstantTyping DEF Restart
    <2>3. call' \in [Tasks -> Stages] /\ copy' \in [Tasks -> SUBSET Tasks]
        BY <1>11, <1>c DEF Restart, Stages
    <2>4. /\ outcome' \in [once : SUBSET Tasks, again : SUBSET Tasks,
                           answered : SUBSET Tasks, doubtful : SUBSET Tasks]
          /\ mishap' \in [lostUpdate : BOOLEAN, overlap : BOOLEAN, stranded : SUBSET Tasks]
        BY <1>11, <1>h DEF Restart, Unsettled
    <2>5. link' \in Connection!States /\ restarts' \in 0..MaxRestarts
        BY <1>11, <1>n, RelayAssumption DEF Restart, Connection!States
    <2> QED BY <1>11, <1>n, <1>s, <2>1, <2>2, <2>3, <2>4, <2>5 DEF Restart, TypeOK
<1>12. ASSUME NEW task \in Tasks, NEW sender \in Senders, CarriedOut(task, sender)
       PROVE  /\ request' \in [Requests -> Request]
              /\ UNCHANGED <<link, connects, restarts, call, stored, copy, flush, mishap>>
    <2>1. <<task, sender>> \in Requests
        BY ConstantTyping
    <2>2. \A at \in {"carried out", "over"} : [request[<<task, sender>>] EXCEPT !.at = at] \in Request
        BY <2>1, <1>r DEF Request
    <2> QED BY <1>12, <1>r, <2>1, <2>2 DEF CarriedOut
<1>13. ASSUME NEW task \in Tasks, NEW sender \in Senders, Create(task, sender) PROVE TypeOK'
    <2>1. outcome' \in [once : SUBSET Tasks, again : SUBSET Tasks,
                        answered : SUBSET Tasks, doubtful : SUBSET Tasks]
        BY <1>13, <1>h DEF Create
    <2> QED BY <1>12, <1>13, <1>l, <1>n, <1>c, <1>s, <1>f, <1>h, <2>1 DEF Create, TypeOK
<1>14. ASSUME NEW task \in Tasks, NEW sender \in Senders, Reject(task, sender) PROVE TypeOK'
    BY <1>12, <1>14, <1>l, <1>n, <1>c, <1>s, <1>f, <1>h DEF Reject, TypeOK
<1>15. ASSUME NEW task \in Tasks, NEW sender \in Senders, Lost(task, sender) PROVE TypeOK'
    <2>1. <<task, sender>> \in Requests
        BY ConstantTyping
    <2>2. [request[<<task, sender>>] EXCEPT !.at = "over"] \in Request
        BY <2>1, <1>r DEF Request
    <2>3. request' \in [Requests -> Request]
        BY <1>15, <1>r, <2>1, <2>2 DEF Lost
    <2> QED BY <1>15, <1>l, <1>n, <1>c, <1>s, <1>f, <1>h, <2>3 DEF Lost, TypeOK
<1>16. CASE UNCHANGED vars
    BY <1>16 DEF vars, TypeOK
<1> QED BY <1>1, <1>2, <1>3, <1>4, <1>5, <1>6, <1>7, <1>8, <1>9, <1>10, <1>11, <1>13, <1>14,
           <1>15, <1>16 DEF Next, Loop, QueueEvent, RequestEvent, OtherEvent

\* Every variable of the relay keeps its type.
THEOREM RelayTypes == Spec => []TypeOK
BY InitTypeOK, StepTypeOK, PTL DEF Spec

---------------------------------------------------------------------------
(* What is queued is kept. *)

LEMMA InitIInv == Init => IInv
<1> SUFFICES ASSUME Init PROVE IInv
    OBVIOUS
<1>1. NoFlushYet /\ AccountsForAll
    BY DEF Init, NoFlush, NoFlushYet, AccountsForAll
<1>2. AwaitsItsRequest
    BY ConstantTyping DEF Init, Unsent, AwaitsItsRequest, Senders
<1>3. QueuedIsKept
    BY DEF Init, QueuedIsKept
<1> QED BY <1>1, <1>2, <1>3, InitTypeOK DEF IInv

\* What a flush makes of the rejection of a request that is pending.
LEMMA RejectsFlush ==
    ASSUME IInv, NEW given \in SUBSET {r \in Requests : request[r].pending}, NEW ready,
           Rejects(given, ready), NEW f \in Flushes
    PROVE  \/ flush'[f] = flush[f] /\ \A task \in Tasks : <<task, f>> \notin given
           \/ /\ flush[f].sending \in Tasks /\ flush[f].stage = "sends"
              /\ <<flush[f].sending, f>> \in given
              /\ flush'[f] = [flush[f] EXCEPT !.failed = @ \cup {flush[f].sending},
                                              !.sending = NoTask]
<1>1. \A task \in Tasks : <<task, f>> \in given =>
          flush[f].stage = "sends" /\ flush[f].sending = task
    BY DEF IInv, AwaitsItsRequest, Requests
<1>2. CASE <<flush[f].sending, f>> \in given
    <2>1. flush[f].sending \in Tasks
        BY <1>2 DEF Requests
    <2> QED BY <1>1, <1>2, <2>1 DEF Rejects
<1>3. CASE <<flush[f].sending, f>> \notin given
    BY <1>1, <1>3 DEF Rejects
<1> QED BY <1>2, <1>3

\* A task whose caller was told that it is queued is still where it was.
LEMMA RejectsCall ==
    ASSUME TypeOK, NEW given, NEW ready, Rejects(given, ready), NEW task \in Tasks,
           call'[task] = "queued"
    PROVE  call[task] = "queued"
BY DEF Rejects

LEMMA StepIInv == IInv /\ [Next]_vars => IInv'
<1> SUFFICES ASSUME IInv, [Next]_vars PROVE IInv'
    OBVIOUS
<1>t. TypeOK'
    BY StepTypeOK DEF IInv
<1>f. flush \in [Flushes -> Flush]
    BY DEF IInv, TypeOK
<1>r. request \in [Requests -> Request]
    BY DEF IInv, TypeOK
<1>0. Caller \notin Flushes /\ Flushes \subseteq Senders /\ NoTask \notin Tasks
    BY RelayAssumption DEF Caller, Flushes, Senders
<1>1. ASSUME NEW task \in Tasks, Call(task) PROVE IInv'
    <2>1. AwaitsItsRequest'
        <3>1. \A t \in Tasks, f \in Flushes : request'[<<t, f>>] = request[<<t, f>>]
            BY <1>1, <1>0, <1>r, ConstantTyping DEF Call
        <3> QED BY <1>1, <3>1 DEF Call, IInv, AwaitsItsRequest
    <2>2. QueuedIsKept'
        BY <1>1 DEF Call, IInv, TypeOK, QueuedIsKept
    <2> QED BY <1>1, <1>t, <2>1, <2>2 DEF Call, IInv, NoFlushYet, AccountsForAll
<1>2. ASSUME NEW task \in Tasks, Enqueue(task) PROVE IInv'
    <2>1. QueuedIsKept'
        BY <1>2 DEF Enqueue, WritesQueue, IInv, TypeOK, QueuedIsKept
    <2> QED BY <1>2, <1>t, <2>1 DEF Enqueue, IInv, NoFlushYet, AwaitsItsRequest, AccountsForAll
<1>3. CASE Connects
    <2>1. /\ connects' = connects + 1 /\ connects' \in Flushes
          /\ flush' = [flush EXCEPT ![connects'] = [@ EXCEPT !.stage = "reads", !.read = stored]]
          /\ UNCHANGED <<call, stored, copy, request, outcome>>
        BY <1>3, RelayAssumption DEF Connects, Flushes, IInv, TypeOK
    <2>2. flush'[connects'].stage = "reads" /\ flush[connects'].stage = "none"
        <3>1. connects' > connects
            BY <2>1, RelayAssumption DEF IInv, TypeOK
        <3> QED BY <1>f, <2>1, <3>1 DEF IInv, NoFlushYet, Flush
    <2>3. \A f \in Flushes : f # connects' => flush'[f] = flush[f]
        BY <1>f, <2>1
    <2>4. NoFlushYet'
        BY <2>1, <2>3, RelayAssumption DEF IInv, TypeOK, NoFlushYet, Flushes
    <2>5. AwaitsItsRequest'
        BY <2>1, <2>2, <2>3 DEF IInv, AwaitsItsRequest
    <2>6. AccountsForAll'
        BY <2>1, <2>2, <2>3 DEF IInv, AccountsForAll
    <2>7. QueuedIsKept'
        BY <1>3, <2>1 DEF Connects, IInv, TypeOK, QueuedIsKept
    <2> QED BY <1>t, <2>4, <2>5, <2>6, <2>7 DEF IInv
<1>4. ASSUME NEW f \in Flushes, FlushStarts(f) PROVE IInv'
    <2>1. /\ flush[f].stage = "reads"
          /\ \/ flush'[f] = Flushed
             \/ flush'[f] = [flush[f] EXCEPT !.stage = "sends", !.todo = flush[f].read]
          /\ \A g \in Flushes : g # f => flush'[g] = flush[g]
          /\ UNCHANGED <<connects, call, stored, request, outcome, mishap>>
        BY <1>4, <1>f DEF FlushStarts
    <2>2. NoFlushYet'
        BY <2>1 DEF IInv, NoFlushYet
    <2>3. AwaitsItsRequest'
        BY <2>1 DEF IInv, AwaitsItsRequest
    <2>4. AccountsForAll'
        <3>1. flush'[f].stage = "sends" => flush'[f].todo = flush'[f].read
            BY <1>f, <2>1 DEF Flush, Flushed, NoFlush
        <3> QED BY <2>1, <3>1 DEF IInv, AccountsForAll
    <2>5. QueuedIsKept'
        BY <2>1 DEF IInv, QueuedIsKept
    <2> QED BY <1>t, <2>2, <2>3, <2>4, <2>5 DEF IInv
<1>5. ASSUME NEW f \in Flushes, NEW task \in Tasks, FlushSends(f, task) PROVE IInv'
    <2>0. /\ flush[f].stage = "sends" /\ flush[f].sending = NoTask
          /\ \A g \in Flushes : g # f => flush'[g] = flush[g]
          /\ UNCHANGED <<connects, call, stored, outcome, mishap>>
        BY <1>5, <1>f DEF FlushSends, Running
    <2>1. \/ /\ request' = [request EXCEPT ![<<task, f>>] = Sent]
             /\ flush'[f] = [flush[f] EXCEPT !.todo = @ \ {task}, !.sending = task]
          \/ /\ request' = request
             /\ flush'[f] = [flush[f] EXCEPT !.todo = @ \ {task}, !.failed = @ \cup {task}]
        <3>1. CASE Ready
            BY <1>5, <1>f, <3>1 DEF FlushSends
        <3>2. CASE ~Ready
            BY <1>5, <1>f, <3>2 DEF FlushSends
        <3> QED BY <3>1, <3>2
    <2>2. flush[f] \in Flush /\ flush'[f].stage = "sends"
        BY <1>f, <2>0, <2>1 DEF Flush
    <2>3. NoFlushYet'
        BY <2>0, <2>2 DEF IInv, NoFlushYet
    <2>4. AwaitsItsRequest'
        <3>1. \A t \in Tasks : ~request[<<t, f>>].pending
            BY <1>0, <2>0 DEF IInv, AwaitsItsRequest
        <3> SUFFICES ASSUME NEW t \in Tasks, NEW g \in Flushes, request'[<<t, g>>].pending
                     PROVE  flush'[g].stage = "sends" /\ flush'[g].sending = t
            BY DEF AwaitsItsRequest
        <3>2. <<t, g>> \in Requests
            BY <1>0, ConstantTyping
        <3>3. CASE <<t, g>> = <<task, f>>
            <4>1. request' # request
                BY <3>1, <3>3
            <4> QED BY <2>1, <2>2, <3>3, <4>1 DEF Flush
        <3>4. CASE <<t, g>> # <<task, f>>
            <4>1. request[<<t, g>>].pending
                BY <1>r, <2>1, <3>2, <3>4
            <4>2. g # f
                BY <3>1, <4>1
            <4> QED BY <2>0, <4>1, <4>2 DEF IInv, AwaitsItsRequest
        <3> QED BY <3>3, <3>4
    <2>5. AccountsForAll'
        <3>1. \A t \in flush[f].read : \/ t \in flush[f].todo \/ t \in flush[f].failed
                                       \/ t \in outcome.answered
            BY <1>0, <2>0, <2>2 DEF IInv, AccountsForAll, Flush
        <3>2. \/ /\ flush'[f].read = flush[f].read /\ flush'[f].todo = flush[f].todo \ {task}
                 /\ flush'[f].failed = flush[f].failed /\ flush'[f].sending = task
              \/ /\ flush'[f].read = flush[f].read /\ flush'[f].todo = flush[f].todo \ {task}
                 /\ flush'[f].failed = flush[f].failed \cup {task}
            BY <2>1, <2>2 DEF Flush
        <3>3. \A t \in flush'[f].read : \/ t \in flush'[f].todo \/ t \in flush'[f].failed
                                        \/ t = flush'[f].sending \/ t \in outcome.answered
            BY <3>1, <3>2
        <3> QED BY <2>0, <3>3 DEF IInv, AccountsForAll
    <2>6. QueuedIsKept'
        BY <2>0 DEF IInv, QueuedIsKept
    <2> QED BY <1>t, <2>3, <2>4, <2>5, <2>6 DEF IInv
<1>6. ASSUME NEW f \in Flushes, FlushEnds(f) PROVE IInv'
    <2>1. /\ flush[f].stage = "sends" /\ flush[f].sending = NoTask /\ flush[f].todo = {}
          /\ flush'[f] = Flushed
          /\ \A g \in Flushes : g # f => flush'[g] = flush[g]
          /\ stored' = flush[f].failed
          /\ mishap'.lostUpdate = (mishap.lostUpdate \/ stored # flush[f].read)
          /\ UNCHANGED <<connects, call, request, outcome>>
        BY <1>6, <1>f DEF FlushEnds, Running, WritesQueue, Kept, IInv, TypeOK
    <2>2. Flushed.stage = "done"
        BY DEF Flushed, NoFlush
    <2>3. NoFlushYet'
        BY <2>1 DEF IInv, NoFlushYet
    <2>4. AwaitsItsRequest'
        BY <1>0, <2>1 DEF IInv, AwaitsItsRequest
    <2>5. AccountsForAll'
        BY <2>1, <2>2 DEF IInv, AccountsForAll
    <2>6. QueuedIsKept'
        <3>1. \A t \in flush[f].read \cap Tasks : t \in flush[f].failed \cup outcome.answered
            BY <1>0, <2>1 DEF IInv, AccountsForAll
        <3> QED BY <2>1, <3>1 DEF IInv, QueuedIsKept
    <2> QED BY <1>t, <2>3, <2>4, <2>5, <2>6 DEF IInv
<1>7. ASSUME NEW task \in Tasks, NEW sender \in Senders, AnswerArrives(task, sender) PROVE IInv'
    <2>1. /\ ~request'[<<task, sender>>].pending
          /\ \A r \in Requests : r # <<task, sender>> => request'[r] = request[r]
          /\ UNCHANGED <<connects, stored, mishap>>
        BY <1>7, <1>r, ConstantTyping DEF AnswerArrives, Over
    <2>2. /\ outcome.answered \subseteq outcome'.answered
          /\ request[<<task, sender>>].pending => task \in outcome'.answered
          /\ \A t \in Tasks : call'[t] = "queued" => call[t] = "queued"
        BY <1>7 DEF AnswerArrives, IInv, TypeOK
    <2>3. ASSUME NEW f \in Flushes
          PROVE  \/ flush'[f] = flush[f] /\ (f = sender => ~request[<<task, sender>>].pending)
                 \/ /\ f = sender /\ flush[f].sending = task /\ flush[f].stage = "sends"
                    /\ request[<<task, sender>>].pending
                    /\ flush'[f] = [flush[f] EXCEPT !.sending = NoTask]
        <3>1. CASE request[<<task, sender>>].pending /\ sender # Caller
            <4>1. flush' = [flush EXCEPT ![sender] = [@ EXCEPT !.sending = NoTask]]
                BY <1>7, <3>1 DEF AnswerArrives
            <4>2. f = sender => flush[f].sending = task /\ flush[f].stage = "sends"
                BY <3>1 DEF IInv, AwaitsItsRequest
            <4> QED BY <1>f, <3>1, <4>1, <4>2
        <3>2. CASE request[<<task, sender>>].pending /\ sender = Caller
            BY <1>7, <1>0, <3>2 DEF AnswerArrives
        <3>3. CASE ~request[<<task, sender>>].pending
            BY <1>7, <3>3 DEF AnswerArrives
        <3> QED BY <3>1, <3>2, <3>3
    <2>4. NoFlushYet'
        BY <1>f, <2>1, <2>3 DEF IInv, NoFlushYet, Flush
    <2>5. AwaitsItsRequest'
        <3> SUFFICES ASSUME NEW t \in Tasks, NEW f \in Flushes, request'[<<t, f>>].pending
                     PROVE  flush'[f].stage = "sends" /\ flush'[f].sending = t
            BY DEF AwaitsItsRequest
        <3>1. <<t, f>> \in Requests /\ <<t, f>> # <<task, sender>>
            BY <1>0, <2>1, ConstantTyping
        <3>2. request[<<t, f>>].pending
            BY <2>1, <3>1
        <3>3. flush[f].stage = "sends" /\ flush[f].sending = t
            BY <3>2 DEF IInv, AwaitsItsRequest
        <3> QED BY <2>3, <3>1, <3>3
    <2>6. AccountsForAll'
        <3> SUFFICES ASSUME NEW f \in Flushes, flush'[f].stage = "sends", NEW t \in flush'[f].read
                     PROVE  \/ t \in flush'[f].todo \/ t \in flush'[f].failed
                            \/ t = flush'[f].sending \/ t \in outcome'.answered
            BY DEF AccountsForAll
        <3>1. CASE flush'[f] = flush[f]
            BY <2>2, <3>1 DEF IInv, AccountsForAll
        <3>2. CASE flush'[f] # flush[f]
            <4>1. /\ flush[f].stage = "sends" /\ flush[f].sending = task /\ task \in outcome'.answered
                  /\ flush'[f] = [flush[f] EXCEPT !.sending = NoTask]
                BY <2>2, <2>3, <3>2
            <4>2. /\ flush'[f].read = flush[f].read /\ flush'[f].todo = flush[f].todo
                  /\ flush'[f].failed = flush[f].failed
                BY <1>f, <4>1 DEF Flush
            <4> QED BY <2>2, <4>1, <4>2 DEF IInv, AccountsForAll
        <3> QED BY <3>1, <3>2
    <2>7. QueuedIsKept'
        BY <2>1, <2>2 DEF IInv, QueuedIsKept
    <2> QED BY <1>t, <2>4, <2>5, <2>6, <2>7 DEF IInv
<1>8. ASSUME NEW given \in SUBSET {r \in Requests : request[r].pending}, NEW ready,
             Rejects(given, ready), UNCHANGED <<connects, stored, mishap>>,
             outcome'.answered = outcome.answered,
             \A r \in Requests : request'[r].pending => request[r].pending /\ r \notin given
      PROVE  IInv'
    <2>1. \A f \in Flushes :
              \/ flush'[f] = flush[f] /\ \A task \in Tasks : <<task, f>> \notin given
              \/ /\ flush[f].sending \in Tasks /\ flush[f].stage = "sends"
                 /\ <<flush[f].sending, f>> \in given
                 /\ flush'[f] = [flush[f] EXCEPT !.failed = @ \cup {flush[f].sending},
                                                 !.sending = NoTask]
        BY <1>8, RejectsFlush
    <2>2. NoFlushYet'
        BY <1>f, <1>8, <2>1 DEF IInv, NoFlushYet, Flush
    <2>3. AwaitsItsRequest'
        <3> SUFFICES ASSUME NEW t \in Tasks, NEW f \in Flushes, request'[<<t, f>>].pending
                     PROVE  flush'[f].stage = "sends" /\ flush'[f].sending = t
            BY DEF AwaitsItsRequest
        <3>1. request[<<t, f>>].pending /\ <<t, f>> \notin given
            BY <1>0, <1>8, ConstantTyping
        <3>2. flush[f].stage = "sends" /\ flush[f].sending = t
            BY <3>1 DEF IInv, AwaitsItsRequest
        <3> QED BY <2>1, <3>1, <3>2
    <2>4. AccountsForAll'
        <3> SUFFICES ASSUME NEW f \in Flushes, flush'[f].stage = "sends", NEW t \in flush'[f].read
                     PROVE  \/ t \in flush'[f].todo \/ t \in flush'[f].failed
                            \/ t = flush'[f].sending \/ t \in outcome'.answered
            BY DEF AccountsForAll
        <3>1. CASE flush'[f] = flush[f]
            BY <1>8, <3>1 DEF IInv, AccountsForAll
        <3>2. CASE flush'[f] # flush[f]
            <4>1. /\ flush[f].stage = "sends"
                  /\ flush'[f] = [flush[f] EXCEPT !.failed = @ \cup {flush[f].sending},
                                                  !.sending = NoTask]
                BY <2>1, <3>2
            <4>2. /\ flush'[f].read = flush[f].read /\ flush'[f].todo = flush[f].todo
                  /\ flush'[f].failed = flush[f].failed \cup {flush[f].sending}
                BY <1>f, <4>1 DEF Flush
            <4> QED BY <1>8, <4>1, <4>2 DEF IInv, AccountsForAll
        <3> QED BY <3>1, <3>2
    <2>5. QueuedIsKept'
        BY <1>8, RejectsCall DEF IInv, QueuedIsKept
    <2> QED BY <1>t, <2>2, <2>3, <2>4, <2>5 DEF IInv
<1>9. ASSUME NEW task \in Tasks, NEW sender \in Senders, TimesOut(task, sender) PROVE IInv'
    <2>1. {<<task, sender>>} \in SUBSET {r \in Requests : request[r].pending}
        BY <1>9, ConstantTyping DEF TimesOut
    <2>2. \A r \in Requests : request'[r].pending => request[r].pending /\ r \notin {<<task, sender>>}
        BY <1>9, <1>r, <2>1 DEF TimesOut, Request
    <2>3. outcome'.answered = outcome.answered
        BY <1>9 DEF TimesOut, IInv, TypeOK
    <2> QED BY <1>8, <1>9, <2>1, <2>2, <2>3 DEF TimesOut
<1>10. CASE Breaks
    <2>1. PICK given \in {{}, {r \in Requests : request[r].pending}} :
              Cut(given) /\ Rejects(given, FALSE)
        BY <1>10 DEF Breaks
    <2>2. \A r \in Requests : request'[r].pending => request[r].pending /\ r \notin given
        BY <2>1 DEF Cut
    <2>3. outcome'.answered = outcome.answered
        BY <1>10 DEF Breaks, IInv, TypeOK
    <2>4. given \in SUBSET {r \in Requests : request[r].pending}
        OBVIOUS
    <2> QED BY <1>8, <1>10, <2>1, <2>2, <2>3, <2>4 DEF Breaks
<1>11. CASE Restart
    <2>1. \A r \in Requests : ~request'[r].pending
        BY <1>11 DEF Restart, Cut
    <2>2. \A f \in Flushes : flush'[f].stage # "sends" /\ (f > connects => flush'[f].stage = "none")
        BY <1>11 DEF Restart, Flushed, NoFlush, IInv, TypeOK, Flushes
    <2>3. AwaitsItsRequest'
        BY <1>0, <2>1, ConstantTyping DEF AwaitsItsRequest
    <2>4. /\ UNCHANGED <<connects, stored>> /\ mishap'.lostUpdate = mishap.lostUpdate
          /\ outcome'.answered = outcome.answered
          /\ \A task \in Tasks : call'[task] = "queued" => call[task] = "queued"
        BY <1>11 DEF Restart, IInv, TypeOK
    <2>5. QueuedIsKept'
        BY <2>4 DEF IInv, QueuedIsKept
    <2> QED BY <1>t, <2>2, <2>3, <2>4, <2>5 DEF IInv, NoFlushYet, AccountsForAll
<1>12. ASSUME UNCHANGED <<connects, call, stored, flush, mishap>>,
              outcome'.answered = outcome.answered,
              \A r \in Requests : request'[r].pending = request[r].pending
       PROVE  IInv'
    <2>1. AwaitsItsRequest'
        <3>1. \A t \in Tasks, f \in Flushes : request'[<<t, f>>].pending = request[<<t, f>>].pending
            BY <1>0, <1>12, ConstantTyping
        <3> QED BY <1>12, <3>1 DEF IInv, AwaitsItsRequest
    <2> QED BY <1>t, <1>12, <2>1 DEF IInv, NoFlushYet, AccountsForAll, QueuedIsKept
<1>13. ASSUME NEW task \in Tasks, NEW sender \in Senders,
              Create(task, sender) \/ Reject(task, sender) \/ Lost(task, sender)
       PROVE  IInv'
    <2>1. UNCHANGED <<connects, call, stored, flush, mishap>>
        BY <1>13 DEF Create, Reject, Lost, CarriedOut
    <2>2. outcome'.answered = outcome.answered
        BY <1>13 DEF Create, Reject, Lost, IInv, TypeOK
    <2>3. \E at \in {"carried out", "over"} : request' = [request EXCEPT ![<<task, sender>>].at = at]
        BY <1>13 DEF Create, Reject, Lost, CarriedOut
    <2>4. ASSUME NEW r \in Requests PROVE request'[r].pending = request[r].pending
        <3>1. PICK at \in {"carried out", "over"} : request' = [request EXCEPT ![<<task, sender>>].at = at]
            BY <2>3
        <3>2. request[r] \in Request
            BY <1>r
        <3>3. request'[r] = request[r] \/ request'[r] = [request[r] EXCEPT !.at = at]
            BY <1>r, <3>1
        <3> QED BY <3>2, <3>3 DEF Request
    <2> QED BY <1>12, <2>1, <2>2, <2>4
<1>14. CASE Mutes
    BY <1>12, <1>14 DEF Mutes
<1>15. CASE UNCHANGED vars
    BY <1>12, <1>15 DEF vars
<1> QED BY <1>1, <1>2, <1>3, <1>4, <1>5, <1>6, <1>7, <1>9, <1>10, <1>11, <1>13, <1>14, <1>15
        DEF Next, Loop, QueueEvent, RequestEvent, OtherEvent

\* Through any number of connections and restarts, a task the user was told is
\* queued is in the queue until it is answered for, unless two updates crossed.
THEOREM QueuedTasksAreKept == Spec => []QueuedIsKept
<1>1. IInv => QueuedIsKept
    BY DEF IInv
<1> QED BY <1>1, InitIInv, StepIInv, PTL DEF Spec

-----------------------------------------------------------------------------
(* That the program creates a task once, for every set of tasks and any    *)
(* number of connections and restarts.  A task that is not doubtful has at *)
(* most one request under way, because its caller asks or queues it, and a *)
(* flush that has sent it will not put it back.                            *)

\* A request that is pending for the caller is the one it waits for.
CallerAsks == \A task \in Tasks : request[<<task, Caller>>].pending => call[task] = "asks"

\* Without a mishap there is one flush at a time.
OneFlush ==
    ~mishap.overlap => \A f, g \in Flushes : UnderWay(f) /\ UnderWay(g) => f = g

\* What a flush holds it has read, and nothing is both sent and to be sent.
FlushParts ==
    \A f \in Flushes :
        IF flush[f].stage = "sends"
        THEN /\ flush[f].todo \subseteq flush[f].read /\ flush[f].failed \subseteq flush[f].read
             /\ flush[f].sending \in flush[f].read \cup {NoTask}
             /\ flush[f].todo \cap flush[f].failed = {}
             /\ flush[f].sending \notin flush[f].todo /\ flush[f].sending \notin flush[f].failed
        ELSE flush[f].todo = {} /\ flush[f].failed = {} /\ flush[f].sending = NoTask

\* Where there is no doubt, the extension waits for what the program works on.
PendingIsUnsettled ==
    \A task \in Tasks, sender \in Senders : task \notin outcome.doubtful =>
        /\ request[<<task, sender>>].pending <=>
              request[<<task, sender>>].at \in {"sent", "carried out"}
        /\ request[<<task, sender>>].at = "sent" => request[<<task, sender>>].live

\* Only what the user was told is queued passes through the queue.
OnlyQueued ==
    \A task \in Tasks :
        (\/ task \in stored \/ \E other \in Tasks : task \in copy[other]
         \/ \E f \in Flushes : task \in flush[f].read) => call[task] = "queued"

Fine(task) == ~mishap.lostUpdate /\ ~mishap.overlap /\ task \notin outcome.doubtful

\* Nobody will send the task again: neither its caller, nor a request on its
\* way, nor a flush, and the queue has it only until its flush writes it back.
IsDone(task) ==
    /\ call[task] \notin {"idle", "reads"}
    /\ \A sender \in Senders : request[<<task, sender>>].at # "sent"
    /\ \A f \in Flushes : /\ flush[f].stage = "reads" => task \notin flush[f].read
                          /\ flush[f].stage = "sends" =>
                                task \notin flush[f].todo /\ task \notin flush[f].failed
    /\ task \in stored => \E f \in Flushes : flush[f].stage = "sends" /\ task \in flush[f].read

CreatedIsDone == \A task \in outcome.once : Fine(task) => IsDone(task)

\* What makes CreatedOnce inductive.
OnceInv ==
    /\ IInv /\ CallerAsks /\ OneFlush /\ FlushParts /\ PendingIsUnsettled /\ OnlyQueued
    /\ CreatedIsDone /\ CreatedOnce

---------------------------------------------------------------------------
(* What the steps do, task by task. *)

\* Types, and what the constants are to each other.
LEMMA Facts ==
    IInv => /\ flush \in [Flushes -> Flush] /\ request \in [Requests -> Request]
            /\ call \in [Tasks -> Stages] /\ copy \in [Tasks -> SUBSET Tasks]
            /\ stored \in SUBSET Tasks
            /\ Caller \notin Flushes /\ Caller \in Senders /\ Flushes \subseteq Senders
            /\ Senders \subseteq Flushes \cup {Caller}
            /\ NoTask \notin Tasks
            /\ \A task \in Tasks, sender \in Senders : <<task, sender>> \in Requests
BY RelayAssumption, ConstantTyping DEF IInv, TypeOK, Caller, Flushes, Senders

LEMMA CallEffect ==
    ASSUME IInv, NEW task \in Tasks, Call(task)
    PROVE  /\ call[task] = "idle"
           /\ \A t \in Tasks : t # task => call'[t] = call[t] /\ copy'[t] = copy[t]
           /\ \A r \in Requests : r # <<task, Caller>> => request'[r] = request[r]
           /\ \/ /\ call'[task] = "asks" /\ copy'[task] = copy[task]
                 /\ request'[<<task, Caller>>] = Sent
              \/ /\ call'[task] = "reads" /\ copy'[task] = stored
                 /\ request'[<<task, Caller>>] = request[<<task, Caller>>]
           /\ UNCHANGED <<stored, flush, outcome, mishap>>
<1>1. CASE Ready
    BY <1>1, Facts DEF Call
<1>2. CASE ~Ready
    BY <1>2, Facts DEF Call
<1> QED BY <1>1, <1>2

LEMMA EnqueueEffect ==
    ASSUME IInv, NEW task \in Tasks, Enqueue(task)
    PROVE  /\ call[task] = "reads" /\ call'[task] = "queued" /\ copy'[task] = {}
           /\ \A t \in Tasks : t # task => call'[t] = call[t] /\ copy'[t] = copy[t]
           /\ stored' = copy[task] \cup {task}
           /\ mishap'.lostUpdate = (mishap.lostUpdate \/ stored # copy[task])
           /\ mishap'.overlap = mishap.overlap
           /\ UNCHANGED <<flush, request, outcome>>
BY Facts DEF Enqueue, WritesQueue, IInv, TypeOK

LEMMA ConnectsEffect ==
    ASSUME IInv, Connects
    PROVE  \E c \in Flushes :
              /\ flush[c].stage = "none"
              /\ flush'[c] = [flush[c] EXCEPT !.stage = "reads", !.read = stored]
              /\ \A f \in Flushes : f # c => flush'[f] = flush[f]
              /\ mishap'.lostUpdate = mishap.lostUpdate
              /\ mishap'.overlap = (mishap.overlap \/ \E f \in Flushes : UnderWay(f))
              /\ UNCHANGED <<call, stored, copy, request, outcome>>
<1>1. connects' = connects + 1 /\ connects' \in Flushes /\ connects' > connects
    BY RelayAssumption DEF Connects, Flushes, IInv, TypeOK
<1>2. flush[connects'].stage = "none"
    BY <1>1 DEF IInv, NoFlushYet
<1>3. /\ flush'[connects'] = [flush[connects'] EXCEPT !.stage = "reads", !.read = stored]
      /\ \A f \in Flushes : f # connects' => flush'[f] = flush[f]
    BY <1>1, Facts DEF Connects
<1>4. /\ mishap'.lostUpdate = mishap.lostUpdate
      /\ mishap'.overlap = (mishap.overlap \/ \E f \in Flushes : UnderWay(f))
      /\ UNCHANGED <<call, stored, copy, request, outcome>>
    BY DEF Connects, IInv, TypeOK
<1> QED BY <1>1, <1>2, <1>3, <1>4

LEMMA FlushStartsEffect ==
    ASSUME IInv, NEW f \in Flushes, FlushStarts(f)
    PROVE  /\ flush[f].stage = "reads"
           /\ \/ flush'[f] = Flushed
              \/ flush'[f] = [flush[f] EXCEPT !.stage = "sends", !.todo = flush[f].read]
           /\ \A g \in Flushes : g # f => flush'[g] = flush[g]
           /\ UNCHANGED <<call, stored, copy, request, outcome, mishap>>
BY Facts DEF FlushStarts

LEMMA FlushSendsEffect ==
    ASSUME IInv, NEW f \in Flushes, NEW task \in Tasks, FlushSends(f, task)
    PROVE  /\ flush[f].stage = "sends" /\ flush[f].sending = NoTask /\ task \in flush[f].todo
           /\ flush'[f].stage = "sends" /\ flush'[f].read = flush[f].read
           /\ flush'[f].todo = flush[f].todo \ {task}
           /\ \/ /\ flush'[f].failed = flush[f].failed /\ flush'[f].sending = task
                 /\ request'[<<task, f>>] = Sent
              \/ /\ flush'[f].failed = flush[f].failed \cup {task}
                 /\ flush'[f].sending = NoTask
                 /\ request'[<<task, f>>] = request[<<task, f>>]
           /\ \A g \in Flushes : g # f => flush'[g] = flush[g]
           /\ \A r \in Requests : r # <<task, f>> => request'[r] = request[r]
           /\ UNCHANGED <<call, stored, copy, outcome, mishap>>
<1>1. flush[f] \in Flush
    BY Facts
<1>2. /\ flush[f].stage = "sends" /\ flush[f].sending = NoTask /\ task \in flush[f].todo
      /\ UNCHANGED <<call, stored, copy, outcome, mishap>>
    BY DEF FlushSends, Running
<1>3. CASE Ready
    <2>1. /\ request' = [request EXCEPT ![<<task, f>>] = Sent]
          /\ flush' = [flush EXCEPT ![f] = [@ EXCEPT !.todo = flush[f].todo \ {task}, !.sending = task]]
        BY <1>3 DEF FlushSends
    <2>2. flush'[f] = [flush[f] EXCEPT !.todo = flush[f].todo \ {task}, !.sending = task]
        BY <2>1, Facts
    <2>3. /\ \A g \in Flushes : g # f => flush'[g] = flush[g]
          /\ \A r \in Requests : r # <<task, f>> => request'[r] = request[r]
          /\ request'[<<task, f>>] = Sent
        BY <2>1, Facts
    <2>4. /\ flush'[f].stage = flush[f].stage /\ flush'[f].read = flush[f].read
          /\ flush'[f].todo = flush[f].todo \ {task} /\ flush'[f].failed = flush[f].failed
          /\ flush'[f].sending = task
        BY <1>1, <2>2 DEF Flush
    <2> QED BY <1>2, <2>3, <2>4
<1>4. CASE ~Ready
    <2>1. /\ request' = request
          /\ flush' = [flush EXCEPT ![f] = [@ EXCEPT !.todo = flush[f].todo \ {task},
                                                    !.failed = flush[f].failed \cup {task}]]
        BY <1>4 DEF FlushSends
    <2>2. flush'[f] = [flush[f] EXCEPT !.todo = flush[f].todo \ {task},
                                       !.failed = flush[f].failed \cup {task}]
        BY <2>1, Facts
    <2>3. \A g \in Flushes : g # f => flush'[g] = flush[g]
        BY <2>1, Facts
    <2>4. /\ flush'[f].stage = flush[f].stage /\ flush'[f].read = flush[f].read
          /\ flush'[f].todo = flush[f].todo \ {task}
          /\ flush'[f].failed = flush[f].failed \cup {task}
          /\ flush'[f].sending = flush[f].sending
        BY <1>1, <2>2 DEF Flush
    <2> QED BY <1>2, <2>1, <2>3, <2>4
<1> QED BY <1>3, <1>4

LEMMA FlushEndsEffect ==
    ASSUME IInv, NEW f \in Flushes, FlushEnds(f)
    PROVE  /\ flush[f].stage = "sends" /\ flush[f].sending = NoTask /\ flush[f].todo = {}
           /\ flush'[f] = Flushed
           /\ \A g \in Flushes : g # f => flush'[g] = flush[g]
           /\ stored' = flush[f].failed
           /\ mishap'.lostUpdate = (mishap.lostUpdate \/ stored # flush[f].read)
           /\ mishap'.overlap = mishap.overlap
           /\ UNCHANGED <<call, copy, request, outcome>>
BY Facts DEF FlushEnds, Running, WritesQueue, Kept, IInv, TypeOK

\* An answer comes; only a request that is pending is awaited.
AnswerStep(task, sender) ==
    /\ request[<<task, sender>>].at = "carried out"
    /\ request'[<<task, sender>>] = Over
    /\ \A r \in Requests : r # <<task, sender>> => request'[r] = request[r]
    /\ \A t \in Tasks : \/ call'[t] = call[t]
                        \/ /\ call'[t] = "over" /\ <<t, Caller>> = <<task, sender>>
                           /\ request[<<t, Caller>>].pending
    /\ \A f \in Flushes : \/ flush'[f] = flush[f]
                          \/ /\ flush[f].stage = "sends"
                             /\ flush'[f] = [flush[f] EXCEPT !.sending = NoTask]
    /\ outcome'.once = outcome.once /\ outcome'.again = outcome.again
    /\ outcome'.doubtful = outcome.doubtful
    /\ UNCHANGED <<stored, copy, mishap>>

LEMMA AnswerEffect ==
    ASSUME IInv, NEW task \in Tasks, NEW sender \in Senders, AnswerArrives(task, sender)
    PROVE  AnswerStep(task, sender)
<1>1. /\ request[<<task, sender>>].at = "carried out"
      /\ request'[<<task, sender>>] = Over
      /\ \A r \in Requests : r # <<task, sender>> => request'[r] = request[r]
      /\ UNCHANGED <<stored, copy, mishap>>
    BY Facts DEF AnswerArrives
<1>2. /\ outcome'.once = outcome.once /\ outcome'.again = outcome.again
      /\ outcome'.doubtful = outcome.doubtful
    BY DEF AnswerArrives, IInv, TypeOK
<1>3. \A t \in Tasks : \/ call'[t] = call[t]
                       \/ /\ call'[t] = "over" /\ <<t, Caller>> = <<task, sender>>
                          /\ request[<<t, Caller>>].pending
    BY Facts DEF AnswerArrives
<1>4. ASSUME NEW f \in Flushes
      PROVE  \/ flush'[f] = flush[f]
             \/ flush[f].stage = "sends" /\ flush'[f] = [flush[f] EXCEPT !.sending = NoTask]
    <2>1. CASE request[<<task, sender>>].pending /\ sender # Caller
        <3>1. flush' = [flush EXCEPT ![sender] = [@ EXCEPT !.sending = NoTask]]
            BY <2>1 DEF AnswerArrives
        <3>2. f = sender => flush[f].stage = "sends"
            BY <2>1 DEF IInv, AwaitsItsRequest
        <3> QED BY Facts, <3>1, <3>2
    <2>2. CASE request[<<task, sender>>].pending /\ sender = Caller
        BY <2>2 DEF AnswerArrives
    <2>3. CASE ~request[<<task, sender>>].pending
        BY <2>3 DEF AnswerArrives
    <2> QED BY <2>1, <2>2, <2>3
<1> QED BY <1>1, <1>2, <1>3, <1>4 DEF AnswerStep

\* A request that is given up, or the end of a connection: what it concerns is
\* doubtful, and the other requests are as they were.
GivesUp(given, ready) ==
    /\ Rejects(given, ready)
    /\ \A r \in Requests : request'[r].pending => request[r].pending /\ r \notin given
    /\ \A task \in Tasks, sender \in Senders : task \notin outcome'.doubtful =>
          /\ <<task, sender>> \notin given
          /\ request'[<<task, sender>>].at = request[<<task, sender>>].at
          /\ request'[<<task, sender>>].pending = request[<<task, sender>>].pending
          /\ request[<<task, sender>>].at = "sent" =>
                request'[<<task, sender>>].live = request[<<task, sender>>].live
    /\ outcome'.once = outcome.once /\ outcome'.again = outcome.again
    /\ outcome.doubtful \subseteq outcome'.doubtful
    /\ UNCHANGED <<stored, mishap>>

SomeGiveUp ==
    \E given \in SUBSET {r \in Requests : request[r].pending}, ready \in BOOLEAN :
        GivesUp(given, ready)

LEMMA TimesOutEffect ==
    ASSUME IInv, PendingIsUnsettled, NEW task \in Tasks, NEW sender \in Senders,
           TimesOut(task, sender)
    PROVE  SomeGiveUp
<1> DEFINE given == {<<task, sender>>}
<1>1. given \in SUBSET {r \in Requests : request[r].pending}
    BY Facts DEF TimesOut
<1>2. Rejects(given, Ready) /\ Ready \in BOOLEAN /\ UNCHANGED <<stored, mishap>>
    BY DEF TimesOut, Ready
<1>3. /\ outcome'.once = outcome.once /\ outcome'.again = outcome.again
      /\ outcome'.doubtful = outcome.doubtful \cup Unsettled(given)
    BY DEF TimesOut, IInv, TypeOK
<1>4. /\ \A r \in Requests : r # <<task, sender>> => request'[r] = request[r]
      /\ request'[<<task, sender>>] = [request[<<task, sender>>] EXCEPT !.pending = FALSE]
    BY Facts DEF TimesOut
<1>5. ~request'[<<task, sender>>].pending
    <2>1. request[<<task, sender>>] \in Request
        BY Facts
    <2> QED BY <1>4, <2>1 DEF Request
<1>6. task \in outcome'.doubtful
    <2>1. CASE task \notin outcome.doubtful
        <3>1. request[<<task, sender>>].at \in {"sent", "carried out"}
            BY <2>1 DEF TimesOut, PendingIsUnsettled
        <3> QED BY <1>3, <3>1 DEF Unsettled
    <2>2. CASE task \in outcome.doubtful
        BY <1>3, <2>2
    <2> QED BY <2>1, <2>2
<1>7. \A r \in Requests : request'[r].pending => request[r].pending /\ r \notin given
    BY <1>4, <1>5
<1>8. ASSUME NEW t \in Tasks, NEW s \in Senders, t \notin outcome'.doubtful
      PROVE  <<t, s>> \notin given /\ request'[<<t, s>>] = request[<<t, s>>]
    BY <1>4, <1>6, <1>8, Facts
<1>9. GivesUp(given, Ready)
    BY <1>2, <1>3, <1>7, <1>8 DEF GivesUp
<1> QED BY <1>1, <1>2, <1>9 DEF SomeGiveUp

LEMMA BreaksEffect ==
    ASSUME IInv, PendingIsUnsettled, Breaks
    PROVE  SomeGiveUp
<1>1. PICK given \in {{}, {r \in Requests : request[r].pending}} :
          Cut(given) /\ Rejects(given, FALSE)
    BY DEF Breaks
<1>2. given \in SUBSET {r \in Requests : request[r].pending}
    OBVIOUS
<1>3. /\ outcome'.once = outcome.once /\ outcome'.again = outcome.again
      /\ outcome'.doubtful = outcome.doubtful \cup Unsettled(Requests)
      /\ UNCHANGED <<stored, mishap>>
    BY DEF Breaks, IInv, TypeOK
<1>4. \A r \in Requests : request'[r].pending => request[r].pending /\ r \notin given
    BY <1>1 DEF Cut
<1>5. ASSUME NEW t \in Tasks, NEW s \in Senders, t \notin outcome'.doubtful
      PROVE  /\ <<t, s>> \notin given
             /\ request'[<<t, s>>].at = request[<<t, s>>].at
             /\ request'[<<t, s>>].pending = request[<<t, s>>].pending
             /\ request[<<t, s>>].at # "sent"
    <2>1. <<t, s>> \in Requests
        BY Facts
    <2>2. request[<<t, s>>].at \notin {"sent", "carried out"}
        BY <1>3, <1>5, <2>1 DEF Unsettled
    <2>3. ~request[<<t, s>>].pending
        BY <1>3, <1>5, <2>2 DEF PendingIsUnsettled
    <2>4. request[<<t, s>>] \in Request
        BY <2>1, Facts
    <2>5. request'[<<t, s>>].at = request[<<t, s>>].at /\ request'[<<t, s>>].pending = FALSE
        BY <1>1, <2>1, <2>2, <2>3 DEF Cut
    <2>6. request[<<t, s>>].pending = FALSE
        BY <2>3, <2>4 DEF Request
    <2>7. <<t, s>> \notin given
        BY <1>2, <2>3
    <2> QED BY <2>2, <2>5, <2>6, <2>7
<1>6. /\ outcome'.once = outcome.once /\ outcome'.again = outcome.again
      /\ outcome.doubtful \subseteq outcome'.doubtful
      /\ FALSE \in BOOLEAN
    BY <1>3
<1>7. GivesUp(given, FALSE)
    BY <1>1, <1>3, <1>4, <1>5, <1>6 DEF GivesUp
<1> QED BY <1>2, <1>6, <1>7 DEF SomeGiveUp

\* What is rejected: its caller queues the task or is told of the error, and
\* its flush will put it back.
LEMMA RejectsEffect ==
    ASSUME IInv, NEW given \in SUBSET {r \in Requests : request[r].pending},
           NEW ready \in BOOLEAN, Rejects(given, ready)
    PROVE  /\ \A task \in Tasks :
                 \/ call'[task] = call[task]
                 \/ <<task, Caller>> \in given /\ call'[task] \in {"over", "reads"}
           /\ \A task \in Tasks : copy'[task] = copy[task] \/ copy'[task] = stored
           /\ \A f \in Flushes :
                 \/ flush'[f] = flush[f]
                 \/ /\ flush[f].sending \in Tasks /\ flush[f].stage = "sends"
                    /\ <<flush[f].sending, f>> \in given
                    /\ flush'[f].stage = "sends" /\ flush'[f].read = flush[f].read
                    /\ flush'[f].todo = flush[f].todo
                    /\ flush'[f].failed = flush[f].failed \cup {flush[f].sending}
                    /\ flush'[f].sending = NoTask
<1>1. \A task \in Tasks :
          \/ call'[task] = call[task]
          \/ <<task, Caller>> \in given /\ call'[task] \in {"over", "reads"}
    BY DEF Rejects
<1>2. \A task \in Tasks : copy'[task] = copy[task] \/ copy'[task] = stored
    BY DEF Rejects
<1>3. ASSUME NEW f \in Flushes
      PROVE  \/ flush'[f] = flush[f]
             \/ /\ flush[f].sending \in Tasks /\ flush[f].stage = "sends"
                /\ <<flush[f].sending, f>> \in given
                /\ flush'[f].stage = "sends" /\ flush'[f].read = flush[f].read
                /\ flush'[f].todo = flush[f].todo
                /\ flush'[f].failed = flush[f].failed \cup {flush[f].sending}
                /\ flush'[f].sending = NoTask
    <2>1. \/ flush'[f] = flush[f]
          \/ /\ flush[f].sending \in Tasks /\ flush[f].stage = "sends"
             /\ <<flush[f].sending, f>> \in given
             /\ flush'[f] = [flush[f] EXCEPT !.failed = @ \cup {flush[f].sending},
                                             !.sending = NoTask]
        BY RejectsFlush
    <2>2. flush[f] \in Flush
        BY Facts
    <2> QED BY <2>1, <2>2 DEF Flush
<1> QED BY <1>1, <1>2, <1>3

LEMMA RestartEffect ==
    ASSUME IInv, PendingIsUnsettled, Restart
    PROVE  /\ \A task \in Tasks : IF call[task] \in {"asks", "reads"} THEN call'[task] = "over"
                                  ELSE call'[task] = call[task]
           /\ \A task \in Tasks : copy'[task] = {}
           /\ \A f \in Flushes : flush'[f] = Flushed \/ flush'[f] = NoFlush
           /\ \A r \in Requests : ~request'[r].pending
           /\ \A task \in Tasks, sender \in Senders : task \notin outcome'.doubtful =>
                 /\ request[<<task, sender>>].at \notin {"sent", "carried out"}
                 /\ request'[<<task, sender>>].at = request[<<task, sender>>].at
           /\ mishap'.lostUpdate = mishap.lostUpdate
           /\ mishap'.overlap = (mishap.overlap \/ \E f \in Flushes : UnderWay(f))
           /\ outcome'.once = outcome.once /\ outcome'.again = outcome.again
           /\ outcome.doubtful \subseteq outcome'.doubtful
           /\ UNCHANGED stored
<1>1. /\ \A task \in Tasks : IF call[task] \in {"asks", "reads"} THEN call'[task] = "over"
                             ELSE call'[task] = call[task]
      /\ \A task \in Tasks : copy'[task] = {}
      /\ \A f \in Flushes : flush'[f] = Flushed \/ flush'[f] = NoFlush
    BY DEF Restart
<1>2. /\ mishap'.lostUpdate = mishap.lostUpdate
      /\ mishap'.overlap = (mishap.overlap \/ \E f \in Flushes : UnderWay(f))
      /\ outcome'.once = outcome.once /\ outcome'.again = outcome.again
      /\ outcome'.doubtful = outcome.doubtful \cup Unsettled(Requests)
      /\ UNCHANGED stored
    BY DEF Restart, IInv, TypeOK
<1>3. \A r \in Requests : ~request'[r].pending
    BY DEF Restart, Cut
<1>4. ASSUME NEW t \in Tasks, NEW s \in Senders, t \notin outcome'.doubtful
      PROVE  /\ request[<<t, s>>].at \notin {"sent", "carried out"}
             /\ request'[<<t, s>>].at = request[<<t, s>>].at
    <2>1. <<t, s>> \in Requests
        BY Facts
    <2>2. request[<<t, s>>].at \notin {"sent", "carried out"}
        BY <1>2, <1>4, <2>1 DEF Unsettled
    <2>3. Cut(Requests)
        BY DEF Restart
    <2>4. request'[<<t, s>>].at = request[<<t, s>>].at
        BY <2>1, <2>2, <2>3 DEF Cut
    <2> QED BY <2>2, <2>4
<1> QED BY <1>1, <1>2, <1>3, <1>4


\* The program takes a request up, or it goes with its connection.
ProgramStep(task, sender) ==
    /\ request[<<task, sender>>].at = "sent"
    /\ request'[<<task, sender>>].pending = request[<<task, sender>>].pending
    /\ request'[<<task, sender>>].at \in {"carried out", "over"}
    /\ task \notin outcome.doubtful => request'[<<task, sender>>].at = "carried out"
    /\ \A r \in Requests : r # <<task, sender>> => request'[r] = request[r]
    /\ \/ /\ outcome'.once = outcome.once \cup {task}
          /\ outcome'.again = outcome.again \cup ({task} \cap outcome.once)
       \/ outcome'.once = outcome.once /\ outcome'.again = outcome.again
    /\ outcome'.doubtful = outcome.doubtful
    /\ UNCHANGED <<call, stored, copy, flush, mishap>>

LEMMA CarriedOutEffect ==
    ASSUME IInv, PendingIsUnsettled, NEW task \in Tasks, NEW sender \in Senders,
           Create(task, sender) \/ Reject(task, sender) \/ Lost(task, sender)
    PROVE  ProgramStep(task, sender)
<1>1. request[<<task, sender>>].at = "sent"
    BY DEF Create, Reject, Lost, CarriedOut
<1>2. UNCHANGED <<call, stored, copy, flush, mishap>>
    BY DEF Create, Reject, Lost, CarriedOut
<1>3. PICK at \in {"carried out", "over"} :
          /\ request' = [request EXCEPT ![<<task, sender>>].at = at]
          /\ request[<<task, sender>>].live => at = "carried out"
    BY DEF Create, Reject, Lost, CarriedOut
<1>4. /\ request'[<<task, sender>>] = [request[<<task, sender>>] EXCEPT !.at = at]
      /\ \A r \in Requests : r # <<task, sender>> => request'[r] = request[r]
    BY <1>3, Facts
<1>5. request'[<<task, sender>>].at = at
      /\ request'[<<task, sender>>].pending = request[<<task, sender>>].pending
    <2>1. request[<<task, sender>>] \in Request
        BY Facts
    <2> QED BY <1>4, <2>1 DEF Request
<1>6. task \notin outcome.doubtful => at = "carried out"
    BY <1>1, <1>3 DEF PendingIsUnsettled
<1>7. /\ \/ /\ outcome'.once = outcome.once \cup {task}
            /\ outcome'.again = outcome.again \cup ({task} \cap outcome.once)
         \/ outcome'.once = outcome.once /\ outcome'.again = outcome.again
      /\ outcome'.doubtful = outcome.doubtful
    BY DEF Create, Reject, Lost, IInv, TypeOK
<1> QED BY <1>1, <1>2, <1>3, <1>4, <1>5, <1>6, <1>7 DEF ProgramStep


---------------------------------------------------------------------------
(* The invariant, part by part. *)

\* At the start nothing was handed over.
LEMMA InitOnceInv == Init => OnceInv
<1> SUFFICES ASSUME Init PROVE OnceInv
    OBVIOUS
<1>1. IInv
    BY InitIInv
<1>2. CallerAsks /\ PendingIsUnsettled
    BY <1>1, Facts DEF Init, Unsent, CallerAsks, PendingIsUnsettled
<1>3. OneFlush /\ FlushParts
    BY DEF Init, NoFlush, OneFlush, FlushParts, UnderWay
<1>4. OnlyQueued
    BY DEF Init, NoFlush, OnlyQueued
<1>5. CreatedIsDone /\ CreatedOnce
    BY DEF Init, NoOutcome, CreatedIsDone, CreatedOnce
<1> QED BY <1>1, <1>2, <1>3, <1>4, <1>5 DEF OnceInv

\* The fields of the constants.
LEMMA ConstantParts ==
    /\ Sent.at = "sent" /\ Sent.pending /\ Sent.live
    /\ Over.at = "over" /\ ~Over.pending
    /\ Flushed.stage = "done" /\ Flushed.read = {} /\ Flushed.todo = {} /\ Flushed.failed = {}
    /\ Flushed.sending = NoTask
    /\ NoFlush.stage = "none" /\ NoFlush.read = {} /\ NoFlush.todo = {} /\ NoFlush.failed = {}
    /\ NoFlush.sending = NoTask
BY DEF Sent, Over, Flushed, NoFlush

\* Doubts and mishaps are not forgotten.
LEMMA StepHistory ==
    ASSUME OnceInv, [Next]_vars
    PROVE  /\ mishap.lostUpdate => mishap'.lostUpdate
           /\ mishap.overlap => mishap'.overlap
           /\ outcome.doubtful \subseteq outcome'.doubtful
<1>i. IInv /\ PendingIsUnsettled
    BY DEF OnceInv
<1> DEFINE Goal == /\ mishap.lostUpdate => mishap'.lostUpdate
                   /\ mishap.overlap => mishap'.overlap
                   /\ outcome.doubtful \subseteq outcome'.doubtful
<1>1. ASSUME NEW task \in Tasks, Call(task) PROVE Goal
    BY <1>i, <1>1, CallEffect
<1>2. ASSUME NEW task \in Tasks, Enqueue(task) PROVE Goal
    BY <1>i, <1>2, EnqueueEffect
<1>3. CASE Connects
    BY <1>i, <1>3, ConnectsEffect
<1>4. ASSUME NEW f \in Flushes, FlushStarts(f) PROVE Goal
    BY <1>i, <1>4, FlushStartsEffect
<1>5. ASSUME NEW f \in Flushes, NEW task \in Tasks, FlushSends(f, task) PROVE Goal
    BY <1>i, <1>5, FlushSendsEffect
<1>6. ASSUME NEW f \in Flushes, FlushEnds(f) PROVE Goal
    BY <1>i, <1>6, FlushEndsEffect
<1>7. ASSUME NEW task \in Tasks, NEW sender \in Senders, AnswerArrives(task, sender) PROVE Goal
    BY <1>i, <1>7, AnswerEffect DEF AnswerStep
<1>8. ASSUME NEW given, NEW ready, GivesUp(given, ready) PROVE Goal
    BY <1>8 DEF GivesUp
<1>9. ASSUME NEW task \in Tasks, NEW sender \in Senders, TimesOut(task, sender) PROVE Goal
    BY <1>i, <1>8, <1>9, TimesOutEffect DEF SomeGiveUp
<1>10. CASE Breaks
    BY <1>i, <1>8, <1>10, BreaksEffect DEF SomeGiveUp
<1>11. CASE Restart
    BY <1>i, <1>11, RestartEffect
<1>12. ASSUME NEW task \in Tasks, NEW sender \in Senders,
              Create(task, sender) \/ Reject(task, sender) \/ Lost(task, sender)
       PROVE  Goal
    BY <1>i, <1>12, CarriedOutEffect DEF ProgramStep
<1>13. CASE Mutes
    BY <1>13 DEF Mutes
<1>14. CASE UNCHANGED vars
    BY <1>14 DEF vars
<1> QED BY <1>1, <1>2, <1>3, <1>4, <1>5, <1>6, <1>7, <1>9, <1>10, <1>11, <1>12, <1>13, <1>14
        DEF Next, Loop, QueueEvent, RequestEvent, OtherEvent

\* CallerAsks is kept: only the caller's own steps change either side.
LEMMA StepCallerAsks ==
    ASSUME OnceInv, [Next]_vars
    PROVE  CallerAsks'
<1>i. IInv /\ PendingIsUnsettled /\ CallerAsks
    BY DEF OnceInv
<1> DEFINE Asks(t) == request'[<<t, Caller>>].pending => call'[t] = "asks"
<1> SUFFICES ASSUME NEW t \in Tasks PROVE Asks(t)
    BY DEF CallerAsks
<1>0. /\ <<t, Caller>> \in Requests
      /\ request[<<t, Caller>>].pending => call[t] = "asks"
    BY <1>i, Facts DEF CallerAsks
<1>1. ASSUME NEW task \in Tasks, Call(task) PROVE Asks(t)
    BY <1>i, <1>0, <1>1, CallEffect
<1>2. ASSUME NEW task \in Tasks, Enqueue(task) PROVE Asks(t)
    BY <1>i, <1>0, <1>2, EnqueueEffect
<1>3. CASE UNCHANGED <<call, request>>
    BY <1>0, <1>3
<1>4. CASE Connects
    BY <1>i, <1>3, <1>4, ConnectsEffect
<1>5. ASSUME NEW f \in Flushes, FlushStarts(f) \/ FlushEnds(f) PROVE Asks(t)
    BY <1>i, <1>3, <1>5, FlushStartsEffect, FlushEndsEffect
<1>6. ASSUME NEW f \in Flushes, NEW task \in Tasks, FlushSends(f, task) PROVE Asks(t)
    <2>1. <<t, Caller>> # <<task, f>>
        BY <1>i, Facts
    <2> QED BY <1>i, <1>0, <1>6, <2>1, FlushSendsEffect
<1>7. ASSUME NEW task \in Tasks, NEW sender \in Senders, AnswerArrives(task, sender) PROVE Asks(t)
    <2>0. AnswerStep(task, sender)
        BY <1>i, <1>7, AnswerEffect
    <2>1. CASE <<t, Caller>> = <<task, sender>>
        <3>1. request'[<<t, Caller>>] = Over
            BY <2>0, <2>1 DEF AnswerStep
        <3> QED BY <3>1, ConstantParts
    <2>2. CASE <<t, Caller>> # <<task, sender>>
        <3>1. request'[<<t, Caller>>] = request[<<t, Caller>>] /\ call'[t] = call[t]
            BY <1>0, <2>0, <2>2 DEF AnswerStep
        <3> QED BY <1>0, <3>1
    <2> QED BY <2>1, <2>2
<1>8. ASSUME NEW given \in SUBSET {r \in Requests : request[r].pending}, NEW ready \in BOOLEAN,
             GivesUp(given, ready)
      PROVE  Asks(t)
    <2>1. request'[<<t, Caller>>].pending => request[<<t, Caller>>].pending /\ <<t, Caller>> \notin given
        BY <1>0, <1>8 DEF GivesUp
    <2>2. Rejects(given, ready)
        BY <1>8 DEF GivesUp
    <2>3. <<t, Caller>> \notin given => call'[t] = call[t]
        BY <1>i, <2>2, RejectsEffect
    <2> QED BY <1>0, <2>1, <2>3
<1>9. ASSUME NEW task \in Tasks, NEW sender \in Senders, TimesOut(task, sender) PROVE Asks(t)
    BY <1>i, <1>8, <1>9, TimesOutEffect DEF SomeGiveUp
<1>10. CASE Breaks
    BY <1>i, <1>8, <1>10, BreaksEffect DEF SomeGiveUp
<1>11. CASE Restart
    BY <1>i, <1>0, <1>11, RestartEffect
<1>12. ASSUME NEW task \in Tasks, NEW sender \in Senders,
              Create(task, sender) \/ Reject(task, sender) \/ Lost(task, sender)
       PROVE  Asks(t)
    BY <1>i, <1>0, <1>12, CarriedOutEffect DEF ProgramStep
<1>13. CASE Mutes
    BY <1>3, <1>13 DEF Mutes
<1>14. CASE UNCHANGED vars
    BY <1>3, <1>14 DEF vars
<1> QED BY <1>1, <1>2, <1>4, <1>5, <1>6, <1>7, <1>9, <1>10, <1>11, <1>12, <1>13, <1>14
        DEF Next, Loop, QueueEvent, RequestEvent, OtherEvent


\* PendingIsUnsettled is kept, or the task has become doubtful.
LEMMA StepPending ==
    ASSUME OnceInv, [Next]_vars
    PROVE  PendingIsUnsettled'
<1>i. IInv /\ PendingIsUnsettled
    BY DEF OnceInv
<1> DEFINE Known(t, s) ==
        /\ request'[<<t, s>>].pending <=> request'[<<t, s>>].at \in {"sent", "carried out"}
        /\ request'[<<t, s>>].at = "sent" => request'[<<t, s>>].live
<1> SUFFICES ASSUME NEW t \in Tasks, NEW s \in Senders, t \notin outcome'.doubtful
             PROVE  Known(t, s)
    BY DEF PendingIsUnsettled
<1>r. <<t, s>> \in Requests
    BY <1>i, Facts
<1>d. t \notin outcome.doubtful
    BY StepHistory
<1>0. /\ request[<<t, s>>].pending <=> request[<<t, s>>].at \in {"sent", "carried out"}
      /\ request[<<t, s>>].at = "sent" => request[<<t, s>>].live
    BY <1>i, <1>d DEF PendingIsUnsettled
<1>3. ASSUME request'[<<t, s>>] = request[<<t, s>>] \/ request'[<<t, s>>] = Sent \/ request'[<<t, s>>] = Over
      PROVE  Known(t, s)
    BY <1>0, <1>3, ConstantParts
<1>1. ASSUME NEW task \in Tasks, Call(task) PROVE Known(t, s)
    <2>1. request' = request \/ request' = [request EXCEPT ![<<task, Caller>>] = Sent]
        BY <1>1 DEF Call
    <2> QED BY <1>i, <1>r, <1>3, <2>1, Facts
<1>2. ASSUME NEW task \in Tasks, Enqueue(task) PROVE Known(t, s)
    BY <1>2, <1>3 DEF Enqueue
<1>4. CASE Connects
    BY <1>3, <1>4 DEF Connects
<1>5. ASSUME NEW f \in Flushes, FlushStarts(f) \/ FlushEnds(f) PROVE Known(t, s)
    BY <1>3, <1>5 DEF FlushStarts, FlushEnds
<1>6. ASSUME NEW f \in Flushes, NEW task \in Tasks, FlushSends(f, task) PROVE Known(t, s)
    <2>1. request' = request \/ request' = [request EXCEPT ![<<task, f>>] = Sent]
        BY <1>6 DEF FlushSends
    <2> QED BY <1>i, <1>r, <1>3, <2>1, Facts
<1>7. ASSUME NEW task \in Tasks, NEW sender \in Senders, AnswerArrives(task, sender) PROVE Known(t, s)
    <2>1. request' = [request EXCEPT ![<<task, sender>>] = Over]
        BY <1>7 DEF AnswerArrives
    <2> QED BY <1>i, <1>r, <1>3, <2>1, Facts
<1>8. ASSUME NEW given \in SUBSET {r \in Requests : request[r].pending}, NEW ready \in BOOLEAN,
             GivesUp(given, ready)
      PROVE  Known(t, s)
    BY <1>0, <1>8 DEF GivesUp
<1>9. ASSUME NEW task \in Tasks, NEW sender \in Senders, TimesOut(task, sender) PROVE Known(t, s)
    BY <1>i, <1>8, <1>9, TimesOutEffect DEF SomeGiveUp
<1>10. CASE Breaks
    BY <1>i, <1>8, <1>10, BreaksEffect DEF SomeGiveUp
<1>11. CASE Restart
    BY <1>i, <1>r, <1>11, RestartEffect
<1>12. ASSUME NEW task \in Tasks, NEW sender \in Senders,
              Create(task, sender) \/ Reject(task, sender) \/ Lost(task, sender)
       PROVE  Known(t, s)
    <2>0. ProgramStep(task, sender)
        BY <1>i, <1>12, CarriedOutEffect
    <2>1. CASE <<t, s>> = <<task, sender>>
        <3>1. /\ request[<<t, s>>].at = "sent" /\ request'[<<t, s>>].at = "carried out"
              /\ request'[<<t, s>>].pending = request[<<t, s>>].pending
            BY <1>d, <2>0, <2>1 DEF ProgramStep
        <3> QED BY <1>0, <3>1
    <2>2. CASE <<t, s>> # <<task, sender>>
        <3>1. request'[<<t, s>>] = request[<<t, s>>]
            BY <1>r, <2>0, <2>2 DEF ProgramStep
        <3> QED BY <1>3, <3>1
    <2> QED BY <2>1, <2>2
<1>13. CASE Mutes
    BY <1>3, <1>13 DEF Mutes
<1>14. CASE UNCHANGED vars
    BY <1>3, <1>14 DEF vars
<1> QED BY <1>1, <1>2, <1>4, <1>5, <1>6, <1>7, <1>9, <1>10, <1>11, <1>12, <1>13, <1>14
        DEF Next, Loop, QueueEvent, RequestEvent, OtherEvent

\* The parts of one flush, for FlushParts.
Apart(stage, read, todo, failed, sending) ==
    IF stage = "sends"
    THEN /\ todo \subseteq read /\ failed \subseteq read /\ sending \in read \cup {NoTask}
         /\ todo \cap failed = {} /\ sending \notin todo /\ sending \notin failed
    ELSE todo = {} /\ failed = {} /\ sending = NoTask

\* FlushParts is kept.
LEMMA StepFlushParts ==
    ASSUME OnceInv, [Next]_vars
    PROVE  FlushParts'
<1>i. IInv /\ PendingIsUnsettled /\ FlushParts
    BY DEF OnceInv
<1> DEFINE Fit(g) == Apart(flush'[g].stage, flush'[g].read, flush'[g].todo, flush'[g].failed,
                           flush'[g].sending)
<1> SUFFICES ASSUME NEW g \in Flushes PROVE Fit(g)
    BY DEF FlushParts, Apart
<1>0. /\ Apart(flush[g].stage, flush[g].read, flush[g].todo, flush[g].failed, flush[g].sending)
      /\ flush[g].read \subseteq Tasks /\ NoTask \notin Tasks /\ flush[g] \in Flush
    BY <1>i, Facts DEF FlushParts, Apart, Flush
<1>3. ASSUME flush'[g] = flush[g] \/ flush'[g] = Flushed \/ flush'[g] = NoFlush
      PROVE  Fit(g)
    BY <1>0, <1>3, ConstantParts DEF Apart
<1>1. ASSUME NEW task \in Tasks, Call(task) \/ Enqueue(task) PROVE Fit(g)
    BY <1>1, <1>3 DEF Call, Enqueue
<1>4. CASE Connects
    <2>1. PICK c \in Flushes :
              /\ flush[c].stage = "none"
              /\ flush'[c] = [flush[c] EXCEPT !.stage = "reads", !.read = stored]
              /\ \A f \in Flushes : f # c => flush'[f] = flush[f]
        BY <1>i, <1>4, ConnectsEffect
    <2>2. CASE g = c
        <3>1. /\ flush'[g].stage = "reads" /\ flush'[g].todo = flush[g].todo
              /\ flush'[g].failed = flush[g].failed /\ flush'[g].sending = flush[g].sending
            BY <1>0, <2>1, <2>2 DEF Flush
        <3> QED BY <1>0, <2>1, <2>2, <3>1 DEF Apart
    <2>3. CASE g # c
        BY <1>3, <2>1, <2>3
    <2> QED BY <2>2, <2>3
<1>5. ASSUME NEW f \in Flushes, FlushStarts(f) PROVE Fit(g)
    <2>1. CASE g = f
        <3>1. CASE flush'[f] = Flushed
            BY <1>3, <2>1, <3>1
        <3>2. CASE flush'[f] # Flushed
            <4>1. /\ flush[g].stage = "reads"
                  /\ flush'[g] = [flush[g] EXCEPT !.stage = "sends", !.todo = flush[g].read]
                BY <1>i, <1>5, <2>1, <3>2, FlushStartsEffect
            <4>2. /\ flush'[g].stage = "sends" /\ flush'[g].todo = flush[g].read
                  /\ flush'[g].read = flush[g].read
                  /\ flush'[g].failed = flush[g].failed /\ flush'[g].sending = flush[g].sending
                BY <1>0, <4>1 DEF Flush
            <4> QED BY <1>0, <4>1, <4>2 DEF Apart
        <3> QED BY <3>1, <3>2
    <2>2. CASE g # f
        BY <1>i, <1>3, <1>5, <2>2, FlushStartsEffect
    <2> QED BY <2>1, <2>2
<1>6. ASSUME NEW f \in Flushes, NEW task \in Tasks, FlushSends(f, task) PROVE Fit(g)
    <2>1. CASE g = f
        <3>1. /\ flush[g].stage = "sends" /\ flush[g].sending = NoTask /\ task \in flush[g].todo
              /\ flush'[g].stage = "sends" /\ flush'[g].read = flush[g].read
              /\ flush'[g].todo = flush[g].todo \ {task}
              /\ \/ flush'[g].failed = flush[g].failed /\ flush'[g].sending = task
                 \/ flush'[g].failed = flush[g].failed \cup {task} /\ flush'[g].sending = NoTask
            BY <1>i, <1>6, <2>1, FlushSendsEffect
        <3> QED BY <1>0, <3>1 DEF Apart
    <2>2. CASE g # f
        BY <1>i, <1>3, <1>6, <2>2, FlushSendsEffect
    <2> QED BY <2>1, <2>2
<1>7. ASSUME NEW f \in Flushes, FlushEnds(f) PROVE Fit(g)
    BY <1>i, <1>3, <1>7, FlushEndsEffect
<1>8. ASSUME NEW task \in Tasks, NEW sender \in Senders, AnswerArrives(task, sender) PROVE Fit(g)
    <2>0. AnswerStep(task, sender)
        BY <1>i, <1>8, AnswerEffect
    <2>1. CASE flush'[g] = flush[g]
        BY <1>3, <2>1
    <2>2. CASE flush'[g] # flush[g]
        <3>1. flush[g].stage = "sends" /\ flush'[g] = [flush[g] EXCEPT !.sending = NoTask]
            BY <2>0, <2>2 DEF AnswerStep
        <3>2. /\ flush'[g].stage = "sends" /\ flush'[g].todo = flush[g].todo
              /\ flush'[g].read = flush[g].read
              /\ flush'[g].failed = flush[g].failed /\ flush'[g].sending = NoTask
            BY <1>0, <3>1 DEF Flush
        <3> QED BY <1>0, <3>1, <3>2 DEF Apart
    <2> QED BY <2>1, <2>2
<1>9. ASSUME NEW given \in SUBSET {r \in Requests : request[r].pending}, NEW ready \in BOOLEAN,
             GivesUp(given, ready)
      PROVE  Fit(g)
    <2>1. Rejects(given, ready)
        BY <1>9 DEF GivesUp
    <2>2. CASE flush'[g] = flush[g]
        BY <1>3, <2>2
    <2>3. CASE flush'[g] # flush[g]
        <3>1. /\ flush[g].sending \in Tasks /\ flush[g].stage = "sends"
              /\ flush'[g].stage = "sends" /\ flush'[g].read = flush[g].read
              /\ flush'[g].todo = flush[g].todo
              /\ flush'[g].failed = flush[g].failed \cup {flush[g].sending}
              /\ flush'[g].sending = NoTask
            BY <1>i, <2>1, <2>3, RejectsEffect
        <3> QED BY <1>0, <3>1 DEF Apart
    <2> QED BY <2>2, <2>3
<1>10. ASSUME NEW task \in Tasks, NEW sender \in Senders, TimesOut(task, sender) PROVE Fit(g)
    BY <1>i, <1>9, <1>10, TimesOutEffect DEF SomeGiveUp
<1>11. CASE Breaks
    BY <1>i, <1>9, <1>11, BreaksEffect DEF SomeGiveUp
<1>12. CASE Restart
    BY <1>i, <1>3, <1>12, RestartEffect
<1>13. ASSUME NEW task \in Tasks, NEW sender \in Senders,
              Create(task, sender) \/ Reject(task, sender) \/ Lost(task, sender)
       PROVE  Fit(g)
    BY <1>i, <1>3, <1>13, CarriedOutEffect DEF ProgramStep
<1>14. CASE Mutes
    BY <1>3, <1>14 DEF Mutes
<1>15. CASE UNCHANGED vars
    BY <1>3, <1>15 DEF vars
<1> QED BY <1>1, <1>4, <1>5, <1>6, <1>7, <1>8, <1>10, <1>11, <1>12, <1>13, <1>14, <1>15
        DEF Next, Loop, QueueEvent, RequestEvent, OtherEvent


\* OneFlush is kept: Connects alone starts a flush.
LEMMA StepOneFlush ==
    ASSUME OnceInv, [Next]_vars
    PROVE  OneFlush'
<1>i. IInv /\ PendingIsUnsettled
    BY DEF OnceInv
<1> SUFFICES ASSUME ~mishap'.overlap,
                    NEW g \in Flushes, NEW h \in Flushes, UnderWay(g)', UnderWay(h)'
             PROVE  g = h
    BY DEF OneFlush
<1>0. \A f1, f2 \in Flushes : UnderWay(f1) /\ UnderWay(f2) => f1 = f2
    BY StepHistory DEF OnceInv, OneFlush
<1>3. ASSUME \A f \in Flushes : UnderWay(f)' => UnderWay(f)
      PROVE  g = h
    BY <1>0, <1>3
<1>4. CASE flush' = flush
    BY <1>3, <1>4 DEF UnderWay
<1>1. ASSUME NEW task \in Tasks, Call(task) \/ Enqueue(task) PROVE g = h
    BY <1>1, <1>4 DEF Call, Enqueue
<1>5. CASE Connects
    <2>1. PICK c \in Flushes :
              /\ \A f \in Flushes : f # c => flush'[f] = flush[f]
              /\ mishap'.overlap = (mishap.overlap \/ \E f \in Flushes : UnderWay(f))
        BY <1>i, <1>5, ConnectsEffect
    <2>2. \A f \in Flushes : f # c => ~UnderWay(f)'
        BY <2>1 DEF UnderWay
    <2> QED BY <2>2
<1>6. ASSUME NEW f \in Flushes, FlushStarts(f) PROVE g = h
    BY <1>i, <1>3, <1>6, FlushStartsEffect DEF UnderWay
<1>7. ASSUME NEW f \in Flushes, NEW task \in Tasks, FlushSends(f, task) PROVE g = h
    BY <1>i, <1>3, <1>7, FlushSendsEffect DEF UnderWay
<1>8. ASSUME NEW f \in Flushes, FlushEnds(f) PROVE g = h
    BY <1>i, <1>3, <1>8, FlushEndsEffect DEF UnderWay
<1>9. ASSUME NEW task \in Tasks, NEW sender \in Senders, AnswerArrives(task, sender) PROVE g = h
    BY <1>i, <1>3, <1>9, AnswerEffect DEF AnswerStep, UnderWay
<1>10. ASSUME NEW given \in SUBSET {r \in Requests : request[r].pending}, NEW ready \in BOOLEAN,
              GivesUp(given, ready)
       PROVE  g = h
    <2>1. Rejects(given, ready)
        BY <1>10 DEF GivesUp
    <2> QED BY <1>i, <1>3, <2>1, RejectsEffect DEF UnderWay
<1>11. ASSUME NEW task \in Tasks, NEW sender \in Senders, TimesOut(task, sender) PROVE g = h
    BY <1>i, <1>10, <1>11, TimesOutEffect DEF SomeGiveUp
<1>12. CASE Breaks
    BY <1>i, <1>10, <1>12, BreaksEffect DEF SomeGiveUp
<1>13. CASE Restart
    BY <1>i, <1>3, <1>13, RestartEffect, ConstantParts DEF UnderWay
<1>14. ASSUME NEW task \in Tasks, NEW sender \in Senders,
              Create(task, sender) \/ Reject(task, sender) \/ Lost(task, sender)
       PROVE  g = h
    BY <1>i, <1>4, <1>14, CarriedOutEffect DEF ProgramStep
<1>15. CASE Mutes
    BY <1>4, <1>15 DEF Mutes
<1>16. CASE UNCHANGED vars
    BY <1>4, <1>16 DEF vars
<1> QED BY <1>1, <1>5, <1>6, <1>7, <1>8, <1>9, <1>11, <1>12, <1>13, <1>14, <1>15, <1>16
        DEF Next, Loop, QueueEvent, RequestEvent, OtherEvent

\* A task is in the queue, or in what somebody has read of it.
Passes(task) ==
    \/ task \in stored \/ \E other \in Tasks : task \in copy[other]
    \/ \E f \in Flushes : task \in flush[f].read

\* OnlyQueued is kept: what is read of the queue was in it.
LEMMA StepOnlyQueued ==
    ASSUME OnceInv, [Next]_vars
    PROVE  OnlyQueued'
<1>i. IInv /\ PendingIsUnsettled /\ CallerAsks /\ FlushParts
    BY DEF OnceInv
<1> SUFFICES ASSUME NEW t \in Tasks, Passes(t)' PROVE call'[t] = "queued"
    BY DEF OnlyQueued, Passes
<1>0. Passes(t) => call[t] = "queued"
    BY DEF OnceInv, OnlyQueued, Passes
<1>r. /\ call[t] = "queued" => ~request[<<t, Caller>>].pending
      /\ <<t, Caller>> \in Requests
    BY <1>i, Facts DEF CallerAsks
<1>3. ASSUME t \in stored' => Passes(t),
             \A other \in Tasks : t \in copy'[other] => Passes(t),
             \A f \in Flushes : t \in flush'[f].read => Passes(t),
             call[t] = "queued" => call'[t] = "queued"
      PROVE  call'[t] = "queued"
    BY <1>0, <1>3 DEF Passes
<1>4. CASE UNCHANGED <<call, stored, copy, flush>>
    BY <1>3, <1>4 DEF Passes
<1>1. ASSUME NEW task \in Tasks, Call(task) PROVE call'[t] = "queued"
    <2>1. /\ call[t] = "queued" => call'[t] = "queued"
          /\ \A other \in Tasks : copy'[other] = copy[other] \/ copy'[other] = stored
          /\ UNCHANGED <<stored, flush>>
        BY <1>i, <1>1, CallEffect
    <2> QED BY <1>3, <2>1 DEF Passes
<1>2. ASSUME NEW task \in Tasks, Enqueue(task) PROVE call'[t] = "queued"
    <2>1. /\ call'[task] = "queued" /\ copy'[task] = {} /\ stored' = copy[task] \cup {task}
          /\ \A u \in Tasks : u # task => call'[u] = call[u] /\ copy'[u] = copy[u]
          /\ flush' = flush
        BY <1>i, <1>2, EnqueueEffect
    <2>2. CASE t = task
        BY <2>1, <2>2
    <2>3. CASE t # task
        BY <1>3, <2>1, <2>3 DEF Passes
    <2> QED BY <2>2, <2>3
<1>5. CASE Connects
    <2>1. PICK c \in Flushes :
              /\ flush'[c] = [flush[c] EXCEPT !.stage = "reads", !.read = stored]
              /\ \A f \in Flushes : f # c => flush'[f] = flush[f]
              /\ UNCHANGED <<call, stored, copy>>
        BY <1>i, <1>5, ConnectsEffect
    <2>2. flush'[c].read = stored
        <3>1. flush[c] \in Flush
            BY <1>i, Facts
        <3> QED BY <2>1, <3>1 DEF Flush
    <2>3. \A f \in Flushes : t \in flush'[f].read => Passes(t)
        BY <2>1, <2>2 DEF Passes
    <2> QED BY <1>3, <2>1, <2>3 DEF Passes
<1>6. ASSUME NEW f \in Flushes, FlushStarts(f) PROVE call'[t] = "queued"
    <2>1. /\ flush'[f] = Flushed \/ flush'[f] = [flush[f] EXCEPT !.stage = "sends", !.todo = flush[f].read]
          /\ \A h \in Flushes : h # f => flush'[h] = flush[h]
          /\ UNCHANGED <<call, stored, copy>>
        BY <1>i, <1>6, FlushStartsEffect
    <2>2. flush'[f].read \subseteq flush[f].read
        <3>1. flush[f] \in Flush
            BY <1>i, Facts
        <3> QED BY <2>1, <3>1, ConstantParts DEF Flush
    <2>3. \A h \in Flushes : t \in flush'[h].read => Passes(t)
        BY <2>1, <2>2 DEF Passes
    <2> QED BY <1>3, <2>1, <2>3 DEF Passes
<1>7. ASSUME NEW f \in Flushes, NEW task \in Tasks, FlushSends(f, task) PROVE call'[t] = "queued"
    <2>1. /\ \A h \in Flushes : flush'[h].read = flush[h].read
          /\ UNCHANGED <<call, stored, copy>>
        BY <1>i, <1>7, FlushSendsEffect
    <2> QED BY <1>3, <2>1 DEF Passes
<1>8. ASSUME NEW f \in Flushes, FlushEnds(f) PROVE call'[t] = "queued"
    <2>1. /\ flush[f].stage = "sends" /\ flush'[f].read = {} /\ stored' = flush[f].failed
          /\ \A h \in Flushes : h # f => flush'[h] = flush[h]
          /\ UNCHANGED <<call, copy>>
        BY <1>i, <1>8, FlushEndsEffect, ConstantParts
    <2>2. stored' \subseteq flush[f].read
        BY <1>i, <2>1 DEF FlushParts
    <2>3. \A h \in Flushes : t \in flush'[h].read => Passes(t)
        BY <2>1 DEF Passes
    <2> QED BY <1>3, <2>1, <2>2, <2>3 DEF Passes
<1>9. ASSUME NEW task \in Tasks, NEW sender \in Senders, AnswerArrives(task, sender)
      PROVE  call'[t] = "queued"
    <2>0. AnswerStep(task, sender)
        BY <1>i, <1>9, AnswerEffect
    <2>1. ASSUME NEW f \in Flushes PROVE flush'[f].read = flush[f].read
        <3>1. flush[f] \in Flush
            BY <1>i, Facts
        <3>2. flush'[f] = flush[f] \/ flush'[f] = [flush[f] EXCEPT !.sending = NoTask]
            BY <2>0 DEF AnswerStep
        <3> QED BY <3>1, <3>2 DEF Flush
    <2>2. UNCHANGED <<stored, copy>> /\ (call[t] = "queued" => call'[t] = "queued")
        BY <1>r, <2>0 DEF AnswerStep
    <2> QED BY <1>3, <2>1, <2>2 DEF Passes
<1>10. ASSUME NEW given \in SUBSET {r \in Requests : request[r].pending}, NEW ready \in BOOLEAN,
              GivesUp(given, ready)
       PROVE  call'[t] = "queued"
    <2>1. Rejects(given, ready) /\ stored' = stored
        BY <1>10 DEF GivesUp
    <2>2. /\ call'[t] = call[t] \/ <<t, Caller>> \in given
          /\ \A other \in Tasks : copy'[other] = copy[other] \/ copy'[other] = stored
          /\ \A f \in Flushes : flush'[f].read = flush[f].read
        BY <1>i, <2>1, RejectsEffect
    <2>3. call[t] = "queued" => call'[t] = "queued"
        BY <1>r, <2>2
    <2> QED BY <1>3, <2>1, <2>2, <2>3 DEF Passes
<1>11. ASSUME NEW task \in Tasks, NEW sender \in Senders, TimesOut(task, sender)
       PROVE  call'[t] = "queued"
    BY <1>i, <1>10, <1>11, TimesOutEffect DEF SomeGiveUp
<1>12. CASE Breaks
    BY <1>i, <1>10, <1>12, BreaksEffect DEF SomeGiveUp
<1>13. CASE Restart
    <2>1. /\ call[t] = "queued" => call'[t] = "queued"
          /\ \A other \in Tasks : copy'[other] = {}
          /\ \A f \in Flushes : flush'[f].read = {}
          /\ stored' = stored
        BY <1>i, <1>13, RestartEffect, ConstantParts
    <2> QED BY <1>3, <2>1 DEF Passes
<1>14. ASSUME NEW task \in Tasks, NEW sender \in Senders,
              Create(task, sender) \/ Reject(task, sender) \/ Lost(task, sender)
       PROVE  call'[t] = "queued"
    BY <1>i, <1>4, <1>14, CarriedOutEffect DEF ProgramStep
<1>15. CASE Mutes
    BY <1>4, <1>15 DEF Mutes
<1>16. CASE UNCHANGED vars
    BY <1>4, <1>16 DEF vars
<1> QED BY <1>1, <1>2, <1>5, <1>6, <1>7, <1>8, <1>9, <1>11, <1>12, <1>13, <1>14, <1>15, <1>16
        DEF Next, Loop, QueueEvent, RequestEvent, OtherEvent


\* What has not been created has its one request under way when it is.
LEMMA CreatedNow ==
    ASSUME OnceInv, NEW task \in Tasks, NEW sender \in Senders, Fine(task),
           request[<<task, sender>>].at = "sent", ProgramStep(task, sender)
    PROVE  IsDone(task)'
<1>i. IInv /\ PendingIsUnsettled /\ CallerAsks /\ FlushParts /\ OneFlush
    BY DEF OnceInv
<1>1. /\ UNCHANGED <<call, stored, flush>>
      /\ request'[<<task, sender>>].at = "carried out"
      /\ \A r \in Requests : r # <<task, sender>> => request'[r] = request[r]
    BY DEF ProgramStep, Fine
<1>2. \A s \in Senders : request[<<task, s>>].at = "sent" => request[<<task, s>>].pending
    BY <1>i DEF PendingIsUnsettled, Fine
<1>3. \A f \in Flushes : request[<<task, f>>].pending =>
          /\ flush[f].stage = "sends" /\ flush[f].sending = task
          /\ task \in flush[f].read /\ task \notin flush[f].todo /\ task \notin flush[f].failed
    BY <1>i, Facts DEF IInv, AwaitsItsRequest, FlushParts
<1>4. Passes(task) => call[task] = "queued"
    BY DEF OnceInv, OnlyQueued, Passes
<1>5. request[<<task, Caller>>].pending => call[task] = "asks"
    BY <1>i DEF CallerAsks
<1>6. CASE sender = Caller
    <2>1. call[task] = "asks" /\ ~Passes(task)
        BY <1>2, <1>4, <1>5, <1>6
    <2>2. ASSUME NEW s \in Senders PROVE request'[<<task, s>>].at # "sent"
        <3>1. CASE s = Caller
            BY <1>1, <1>6, <3>1
        <3>2. CASE s # Caller
            <4>1. s \in Flushes /\ <<task, s>> \in Requests
                BY <1>i, <3>2, Facts
            <4>2. ~request[<<task, s>>].pending
                BY <1>3, <2>1, <4>1 DEF Passes
            <4>3. request'[<<task, s>>] = request[<<task, s>>]
                BY <1>1, <1>6, <3>2, <4>1
            <4> QED BY <1>2, <4>2, <4>3
        <3> QED BY <3>1, <3>2
    <2>3. \A f \in Flushes : /\ task \notin flush[f].read
                             /\ flush[f].stage = "sends" =>
                                   task \notin flush[f].todo /\ task \notin flush[f].failed
        BY <1>i, <2>1 DEF Passes, FlushParts
    <2> QED BY <1>1, <2>1, <2>2, <2>3 DEF IsDone, Passes
<1>7. CASE sender # Caller
    <2>0. sender \in Flushes
        BY <1>i, <1>7, Facts
    <2>1. /\ flush[sender].stage = "sends" /\ flush[sender].sending = task
          /\ task \in flush[sender].read
          /\ task \notin flush[sender].todo /\ task \notin flush[sender].failed
        BY <1>2, <1>3, <2>0
    <2>2. call[task] = "queued"
        BY <1>4, <2>0, <2>1 DEF Passes
    <2>3. \A f \in Flushes : flush[f].stage \in {"reads", "sends"} => f = sender
        BY <1>i, <2>0, <2>1 DEF OneFlush, UnderWay, Fine
    <2>4. ASSUME NEW s \in Senders PROVE request'[<<task, s>>].at # "sent"
        <3>1. CASE s = sender
            BY <1>1, <3>1
        <3>2. CASE s # sender
            <4>1. <<task, s>> \in Requests /\ (s = Caller \/ s \in Flushes)
                BY <1>i, Facts
            <4>2. ~request[<<task, s>>].pending
                BY <1>3, <1>5, <2>2, <2>3, <3>2, <4>1
            <4>3. request'[<<task, s>>] = request[<<task, s>>]
                BY <1>1, <3>2, <4>1
            <4> QED BY <1>2, <4>2, <4>3
        <3> QED BY <3>1, <3>2
    <2> QED BY <1>1, <2>0, <2>1, <2>2, <2>3, <2>4 DEF IsDone
<1> QED BY <1>6, <1>7

\* CreatedIsDone is kept.
LEMMA StepCreatedIsDone ==
    ASSUME OnceInv, [Next]_vars
    PROVE  CreatedIsDone'
<1>i. IInv /\ PendingIsUnsettled /\ CallerAsks /\ FlushParts
    BY DEF OnceInv
<1> SUFFICES ASSUME NEW t \in Tasks, t \in outcome'.once, Fine(t)' PROVE IsDone(t)'
    <2>1. TypeOK'
        BY <1>i, StepTypeOK DEF IInv
    <2>2. outcome'.once \subseteq Tasks
        BY <2>1 DEF TypeOK
    <2> QED BY <2>2 DEF CreatedIsDone
<1>f. Fine(t) /\ ~mishap'.lostUpdate /\ ~mishap'.overlap /\ t \notin outcome'.doubtful
    BY StepHistory DEF Fine
<1>0. t \in outcome.once => IsDone(t)
    BY <1>f DEF OnceInv, CreatedIsDone
<1>r. \A s \in Senders : <<t, s>> \in Requests
    BY <1>i, Facts
<1>3. ASSUME IsDone(t), UNCHANGED <<stored, flush>>, call'[t] = call[t],
             \A s \in Senders : request'[<<t, s>>].at = request[<<t, s>>].at
      PROVE  IsDone(t)'
    BY <1>3 DEF IsDone
<1>1. ASSUME NEW task \in Tasks, Call(task) PROVE IsDone(t)'
    <2>0. call[task] = "idle" /\ UNCHANGED <<stored, flush, outcome>>
        BY <1>i, <1>1, CallEffect
    <2>1. IsDone(t) /\ t # task
        BY <1>0, <2>0 DEF IsDone
    <2>2. call'[t] = call[t] /\ \A s \in Senders : request'[<<t, s>>] = request[<<t, s>>]
        BY <1>i, <1>1, <1>r, <2>1, CallEffect
    <2> QED BY <1>3, <2>0, <2>1, <2>2
<1>2. ASSUME NEW task \in Tasks, Enqueue(task) PROVE IsDone(t)'
    <2>0. /\ call[task] = "reads" /\ stored' = copy[task] \cup {task} /\ stored = copy[task]
          /\ \A u \in Tasks : u # task => call'[u] = call[u]
          /\ UNCHANGED <<flush, request, outcome>>
        BY <1>i, <1>2, <1>f, EnqueueEffect
    <2>1. IsDone(t) /\ t # task
        BY <1>0, <2>0 DEF IsDone
    <2>2. t \in stored' => t \in stored
        BY <2>0, <2>1
    <2>3. call'[t] = call[t]
        BY <2>0, <2>1
    <2> QED BY <2>0, <2>1, <2>2, <2>3 DEF IsDone
<1>4. CASE Connects
    <2>1. PICK c \in Flushes :
              /\ flush'[c] = [flush[c] EXCEPT !.stage = "reads", !.read = stored]
              /\ \A f \in Flushes : f # c => flush'[f] = flush[f]
              /\ mishap'.overlap = (mishap.overlap \/ \E f \in Flushes : UnderWay(f))
              /\ UNCHANGED <<call, stored, copy, request, outcome>>
        BY <1>i, <1>4, ConnectsEffect
    <2>2. IsDone(t) /\ t \notin stored
        BY <1>0, <1>f, <2>1 DEF IsDone, UnderWay
    <2>3. flush'[c].stage = "reads" /\ flush'[c].read = stored
        <3>1. flush[c] \in Flush
            BY <1>i, Facts
        <3> QED BY <2>1, <3>1 DEF Flush
    <2>4. ASSUME NEW f \in Flushes
          PROVE  /\ flush'[f].stage = "reads" => t \notin flush'[f].read
                 /\ flush'[f].stage # "sends"
        <3>1. CASE f = c
            BY <2>2, <2>3, <3>1
        <3>2. CASE f # c
            BY <1>f, <2>1, <3>2 DEF UnderWay
        <3> QED BY <3>1, <3>2
    <2> QED BY <2>1, <2>2, <2>4 DEF IsDone
<1>5. ASSUME NEW f \in Flushes, FlushStarts(f) PROVE IsDone(t)'
    <2>1. /\ flush[f].stage = "reads"
          /\ \/ flush'[f] = Flushed
             \/ flush'[f] = [flush[f] EXCEPT !.stage = "sends", !.todo = flush[f].read]
          /\ \A g \in Flushes : g # f => flush'[g] = flush[g]
          /\ UNCHANGED <<call, stored, copy, request, outcome, mishap>>
        BY <1>i, <1>5, FlushStartsEffect
    <2>2. IsDone(t) /\ t \notin flush[f].read
        BY <1>0, <2>1 DEF IsDone
    <2>3. \/ flush'[f].stage = "done"
          \/ flush'[f].stage = "sends" /\ t \notin flush'[f].todo /\ t \notin flush'[f].failed
        <3>1. flush[f] \in Flush /\ flush[f].failed = {}
            BY <1>i, <2>1, Facts DEF FlushParts
        <3> QED BY <2>1, <2>2, <3>1, ConstantParts DEF Flush
    <2>4. t \in stored => \E g \in Flushes : flush'[g].stage = "sends" /\ t \in flush'[g].read
        BY <2>1, <2>2 DEF IsDone
    <2> QED BY <2>1, <2>2, <2>3, <2>4 DEF IsDone
<1>6. ASSUME NEW f \in Flushes, NEW task \in Tasks, FlushSends(f, task) PROVE IsDone(t)'
    <2>1. /\ flush[f].stage = "sends" /\ task \in flush[f].todo
          /\ flush'[f].stage = "sends" /\ flush'[f].read = flush[f].read
          /\ flush'[f].todo = flush[f].todo \ {task}
          /\ flush'[f].failed \subseteq flush[f].failed \cup {task}
          /\ \A g \in Flushes : g # f => flush'[g] = flush[g]
          /\ UNCHANGED <<call, stored, copy, outcome, mishap>>
        BY <1>i, <1>6, FlushSendsEffect
    <2>2. IsDone(t) /\ t # task
        BY <1>0, <2>1 DEF IsDone
    <2>3. \A s \in Senders : request'[<<t, s>>] = request[<<t, s>>]
        <3>1. \A r \in Requests : r # <<task, f>> => request'[r] = request[r]
            BY <1>i, <1>6, FlushSendsEffect
        <3> QED BY <1>r, <2>2, <3>1
    <2>4. t \in stored => \E g \in Flushes : flush'[g].stage = "sends" /\ t \in flush'[g].read
        BY <2>1, <2>2 DEF IsDone
    <2> QED BY <2>1, <2>2, <2>3, <2>4 DEF IsDone
<1>7. ASSUME NEW f \in Flushes, FlushEnds(f) PROVE IsDone(t)'
    <2>1. /\ flush[f].stage = "sends" /\ flush'[f].stage = "done"
          /\ stored' = flush[f].failed
          /\ \A g \in Flushes : g # f => flush'[g] = flush[g]
          /\ UNCHANGED <<call, copy, request, outcome>>
        BY <1>i, <1>7, FlushEndsEffect, ConstantParts
    <2>2. IsDone(t)
        BY <1>0, <2>1
    <2> QED BY <2>1, <2>2 DEF IsDone
<1>8. ASSUME NEW task \in Tasks, NEW sender \in Senders, AnswerArrives(task, sender) PROVE IsDone(t)'
    <2>0. AnswerStep(task, sender)
        BY <1>i, <1>8, AnswerEffect
    <2>1. IsDone(t)
        BY <1>0, <2>0 DEF AnswerStep
    <2>2. ASSUME NEW s \in Senders PROVE request'[<<t, s>>].at # "sent"
        <3>1. request'[<<t, s>>] = Over \/ request'[<<t, s>>] = request[<<t, s>>]
            BY <1>r, <2>0 DEF AnswerStep
        <3> QED BY <2>1, <3>1, ConstantParts DEF IsDone
    <2>3. ASSUME NEW f \in Flushes
          PROVE  /\ flush'[f].stage = flush[f].stage /\ flush'[f].read = flush[f].read
                 /\ flush'[f].todo = flush[f].todo /\ flush'[f].failed = flush[f].failed
        <3>1. flush[f] \in Flush
            BY <1>i, Facts
        <3>2. flush'[f] = flush[f] \/ flush'[f] = [flush[f] EXCEPT !.sending = NoTask]
            BY <2>0 DEF AnswerStep
        <3> QED BY <3>1, <3>2 DEF Flush
    <2>4. stored' = stored /\ (call'[t] = call[t] \/ call'[t] = "over")
        BY <2>0 DEF AnswerStep
    <2> QED BY <2>1, <2>2, <2>3, <2>4 DEF IsDone
<1>9. ASSUME NEW given \in SUBSET {r \in Requests : request[r].pending}, NEW ready \in BOOLEAN,
             GivesUp(given, ready)
      PROVE  IsDone(t)'
    <2>1. Rejects(given, ready) /\ stored' = stored
        BY <1>9 DEF GivesUp
    <2>2. IsDone(t)
        BY <1>0, <1>9 DEF GivesUp
    <2>3. \A s \in Senders : <<t, s>> \notin given /\ request'[<<t, s>>].at = request[<<t, s>>].at
        BY <1>9, <1>f DEF GivesUp
    <2>4. call'[t] = call[t]
        BY <1>i, <2>1, <2>3, Facts, RejectsEffect
    <2>5. ASSUME NEW f \in Flushes
          PROVE  /\ flush'[f].stage = flush[f].stage /\ flush'[f].read = flush[f].read
                 /\ flush'[f].todo = flush[f].todo
                 /\ t \in flush'[f].failed => t \in flush[f].failed
        <3>1. <<t, f>> \notin given
            BY <1>i, <2>3, Facts
        <3>2. CASE flush'[f] = flush[f]
            BY <3>2
        <3>3. CASE flush'[f] # flush[f]
            <4>1. /\ flush[f].stage = "sends" /\ <<flush[f].sending, f>> \in given
                  /\ flush'[f].stage = "sends" /\ flush'[f].read = flush[f].read
                  /\ flush'[f].todo = flush[f].todo
                  /\ flush'[f].failed = flush[f].failed \cup {flush[f].sending}
                BY <1>i, <2>1, <3>3, RejectsEffect
            <4>2. flush[f].sending # t
                BY <3>1, <4>1
            <4> QED BY <4>1, <4>2
        <3> QED BY <3>2, <3>3
    <2> QED BY <2>1, <2>2, <2>3, <2>4, <2>5 DEF IsDone
<1>10. ASSUME NEW task \in Tasks, NEW sender \in Senders, TimesOut(task, sender) PROVE IsDone(t)'
    BY <1>i, <1>9, <1>10, TimesOutEffect DEF SomeGiveUp
<1>11. CASE Breaks
    BY <1>i, <1>9, <1>11, BreaksEffect DEF SomeGiveUp
<1>12. CASE Restart
    <2>1. /\ IF call[t] \in {"asks", "reads"} THEN call'[t] = "over" ELSE call'[t] = call[t]
          /\ \A f \in Flushes : flush'[f].stage \in {"none", "done"}
          /\ mishap'.overlap = (mishap.overlap \/ \E f \in Flushes : UnderWay(f))
          /\ outcome'.once = outcome.once /\ stored' = stored
        BY <1>i, <1>12, RestartEffect, ConstantParts
    <2>2. \A s \in Senders : request'[<<t, s>>].at = request[<<t, s>>].at
        BY <1>i, <1>12, <1>f, RestartEffect
    <2>3. IsDone(t) /\ t \notin stored
        BY <1>0, <1>f, <2>1 DEF IsDone, UnderWay
    <2> QED BY <2>1, <2>2, <2>3 DEF IsDone
<1>13. ASSUME NEW task \in Tasks, NEW sender \in Senders,
              Create(task, sender) \/ Reject(task, sender) \/ Lost(task, sender)
       PROVE  IsDone(t)'
    <2>0. ProgramStep(task, sender)
        BY <1>i, <1>13, CarriedOutEffect
    <2>1. CASE t \in outcome.once
        <3>1. IsDone(t) /\ UNCHANGED <<call, stored, flush>>
            BY <1>0, <2>0, <2>1 DEF ProgramStep
        <3>2. ASSUME NEW s \in Senders PROVE request'[<<t, s>>].at # "sent"
            <4>1. CASE <<t, s>> = <<task, sender>>
                <5>1. request'[<<t, s>>].at \in {"carried out", "over"}
                    BY <2>0, <4>1 DEF ProgramStep
                <5> QED BY <5>1
            <4>2. CASE <<t, s>> # <<task, sender>>
                <5>1. request'[<<t, s>>] = request[<<t, s>>]
                    BY <1>r, <2>0, <4>2 DEF ProgramStep
                <5> QED BY <3>1, <5>1 DEF IsDone
            <4> QED BY <4>1, <4>2
        <3> QED BY <3>1, <3>2 DEF IsDone
    <2>2. CASE t \notin outcome.once
        <3>1. t = task /\ request[<<task, sender>>].at = "sent"
            BY <2>0, <2>2 DEF ProgramStep
        <3> QED BY <1>f, <2>0, <3>1, CreatedNow
    <2> QED BY <2>1, <2>2
<1>14. CASE UNCHANGED <<call, stored, flush, request, outcome>>
    BY <1>0, <1>3, <1>14
<1>15. CASE Mutes \/ UNCHANGED vars
    BY <1>14, <1>15 DEF Mutes, vars
<1> QED BY <1>1, <1>2, <1>4, <1>5, <1>6, <1>7, <1>8, <1>10, <1>11, <1>12, <1>13, <1>15
        DEF Next, Loop, QueueEvent, RequestEvent, OtherEvent


\* CreatedOnce is kept: a task that has been created has no request to carry out.
LEMMA StepCreatedOnce ==
    ASSUME OnceInv, [Next]_vars
    PROVE  CreatedOnce'
<1>i. IInv /\ PendingIsUnsettled /\ CreatedOnce
    BY DEF OnceInv
<1> SUFFICES ASSUME ~mishap'.lostUpdate, ~mishap'.overlap, NEW t \in outcome'.again
             PROVE  t \in outcome'.doubtful
    BY DEF CreatedOnce
<1>0. /\ ~mishap.lostUpdate /\ ~mishap.overlap
      /\ outcome.again \subseteq outcome'.doubtful
    BY <1>i, StepHistory DEF CreatedOnce
<1>3. CASE outcome'.again = outcome.again
    BY <1>0, <1>3
<1>1. ASSUME NEW task \in Tasks, Call(task) \/ Enqueue(task) PROVE t \in outcome'.doubtful
    BY <1>1, <1>3 DEF Call, Enqueue
<1>4. CASE Connects
    BY <1>3, <1>4 DEF Connects
<1>5. ASSUME NEW f \in Flushes, FlushStarts(f) \/ FlushEnds(f) PROVE t \in outcome'.doubtful
    BY <1>3, <1>5 DEF FlushStarts, FlushEnds
<1>6. ASSUME NEW f \in Flushes, NEW task \in Tasks, FlushSends(f, task) PROVE t \in outcome'.doubtful
    BY <1>3, <1>6 DEF FlushSends
<1>7. ASSUME NEW task \in Tasks, NEW sender \in Senders, AnswerArrives(task, sender)
      PROVE  t \in outcome'.doubtful
    BY <1>i, <1>3, <1>7, AnswerEffect DEF AnswerStep
<1>8. ASSUME NEW given, NEW ready, GivesUp(given, ready) PROVE t \in outcome'.doubtful
    BY <1>3, <1>8 DEF GivesUp
<1>9. ASSUME NEW task \in Tasks, NEW sender \in Senders, TimesOut(task, sender)
      PROVE  t \in outcome'.doubtful
    BY <1>i, <1>8, <1>9, TimesOutEffect DEF SomeGiveUp
<1>10. CASE Breaks
    BY <1>i, <1>8, <1>10, BreaksEffect DEF SomeGiveUp
<1>11. CASE Restart
    BY <1>i, <1>3, <1>11, RestartEffect
<1>12. ASSUME NEW task \in Tasks, NEW sender \in Senders,
              Create(task, sender) \/ Reject(task, sender) \/ Lost(task, sender)
       PROVE  t \in outcome'.doubtful
    <2>0. ProgramStep(task, sender)
        BY <1>i, <1>12, CarriedOutEffect
    <2>1. CASE t \in outcome.again
        BY <1>0, <2>1
    <2>2. CASE t \notin outcome.again
        <3>1. t = task /\ task \in outcome.once /\ request[<<task, sender>>].at = "sent"
            BY <2>0, <2>2 DEF ProgramStep
        <3>2. ~Fine(task)
            BY <3>1 DEF OnceInv, CreatedIsDone, IsDone
        <3> QED BY <1>0, <3>1, <3>2, StepHistory DEF Fine
    <2> QED BY <2>1, <2>2
<1>13. CASE Mutes \/ UNCHANGED vars
    BY <1>3, <1>13 DEF Mutes, vars
<1> QED BY <1>1, <1>4, <1>5, <1>6, <1>7, <1>9, <1>10, <1>11, <1>12, <1>13
        DEF Next, Loop, QueueEvent, RequestEvent, OtherEvent

LEMMA StepOnceInv == OnceInv /\ [Next]_vars => OnceInv'
BY StepIInv, StepCallerAsks, StepOneFlush, StepFlushParts, StepPending, StepOnlyQueued,
   StepCreatedIsDone, StepCreatedOnce DEF OnceInv

\* Through any number of connections and restarts the program creates a task
\* twice only where the extension gave a request for it up, or where two users
\* of the queue crossed.
THEOREM TasksAreCreatedOnce == Spec => []CreatedOnce
<1>1. OnceInv => CreatedOnce
    BY DEF OnceInv
<1> QED BY <1>1, InitOnceInv, StepOnceInv, PTL DEF Spec
=============================================================================
