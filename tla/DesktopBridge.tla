---------------------------- MODULE DesktopBridge ----------------------------
(***************************************************************************)
(* background/desktop-bridge.ts of the browser extension with the program  *)
(* at the other end (app/services/browser_service.py): finding the port,   *)
(* pairing, the handshake, losing the connection and getting it back.      *)
(*                                                                         *)
(* JavaScript runs one handler at a time, so a handler is one step; it is  *)
(* written as a function on the state of the bridge.  Where it awaits, the *)
(* rest is a step of its own.  A socket the bridge has closed delivers     *)
(* nothing any more; one that fails fires `error` and `close` together.    *)
(*                                                                         *)
(* A socket is <<port, number>>, with a record for both of its ends; its   *)
(* number is used again once both have done with it.  Ports stand for the  *)
(* candidate URLs on 127.0.0.1; nobody but the program listens at them.    *)
(*                                                                         *)
(* An operator whose comment starts with "Faulty" is no part of the model: *)
(* it is a variant of the next one with a plausible mistake, kept to see   *)
(* that the properties notice it.                                          *)
(***************************************************************************)
EXTENDS Integers, Sequences

LOCAL INSTANCE Functions

CONSTANTS
    Ports,        \* CANDIDATE_PORTS
    Keys,         \* pair tokens the program may have
    DefaultPort,  \* DEFAULT_SERVER_URL
    MaxSockets,   \* bound: sockets in use at a time for one port
    MaxCommands,  \* bound on what the user does
    MaxTrouble    \* bound on what the program and the browser do of themselves

ASSUME BridgeAssumption ==
    /\ Ports \subseteq Nat \ {0} /\ DefaultPort \in Ports
    /\ Keys \subseteq Nat \ {0} /\ Keys # {}
    /\ MaxSockets \in Nat \ {0} /\ MaxCommands \in Nat /\ MaxTrouble \in Nat

None == 0              \* no token, no port
NoSocket == <<0, 0>>
Sockets == Ports \X (1..MaxSockets)
PortOf(s) == s[1]

VARIABLES
    bridge,    \* what the extension holds, its sockets and its storage
    desktop,   \* what the program holds
    commands,  \* how much the user has done
    troubles,  \* how much went wrong
    derailed   \* history: the user disturbed a connection, see Pair and SaveEnds

vars == <<bridge, desktop, commands, troubles, derailed>>

---------------------------------------------------------------------------
(* Sockets.  mine is the end of the extension, theirs the session that the
   program has for it, asks that this session is its _pairSession; out and in
   are the messages on the way to the program and from it. *)

Message ==
    [is : {"hello"}, token : Keys \cup {None}] \cup [is : {"pair"}]
    \cup [is : {"ack", "error", "refused"}] \cup [is : {"paired"}, token : Keys]

Socket == [mine : {"none", "connecting", "open"}, theirs : {"none", "open", "closing"},
           authenticated : BOOLEAN, asks : BOOLEAN, out : Seq(Message), in : Seq(Message)]

Unused == [mine |-> "none", theirs |-> "none", authenticated |-> FALSE, asks |-> FALSE,
           out |-> <<>>, in |-> <<>>]

\* A session that asks for no pairing: whatever it does is seen by nobody.
Unheard(socket) ==
    socket.theirs = "none" \/ ~(socket.asks \/ [is |-> "pair"] \in Range(socket.out))

\* close(): nothing arrives any more; what was sent still reaches the program.
\* An unheard session is forgotten at once.
Closed(b, S) ==
    [b EXCEPT !.sockets = [s \in Sockets |->
        IF s \notin S THEN @[s]
        ELSE IF Unheard(@[s]) THEN Unused
        ELSE [@[s] EXCEPT !.mine = "none", !.in = <<>>]]]

Send(b, s, m) == [b EXCEPT !.sockets[s].out = Append(@, m)]

Free(b, port) == {n \in 1..MaxSockets : b.sockets[<<port, n>>] = Unused}

HasRoom(b, ports) == \A port \in ports : Free(b, port) # {}

\* new WebSocket for each of the ports, added to activeSockets.
Dialled(b, ports) ==
    LET chosen == {<<port, CHOOSE n \in Free(b, port) : \A k \in Free(b, port) : n <= k>> :
                   port \in ports}
    IN  [b EXCEPT !.probe.active = @ \cup chosen,
                  !.sockets = [s \in Sockets |->
                      IF s \in chosen THEN [Unused EXCEPT !.mine = "connecting"] ELSE @[s]]]

---------------------------------------------------------------------------
(* A probe: the closure of connect or of requestPairing that cancelProbe
   stops.  primary is primaryUrl, fallbacks are the URLs startFallbacks has
   yet to try, headStart that its timer runs, reached is desktopReached. *)

NoProbe == [kind |-> "none", active |-> {}, primary |-> None, fallbacks |-> {},
            headStart |-> FALSE, reached |-> FALSE]

Probe == [kind : {"none", "connect", "pair"}, active : SUBSET Sockets,
          primary : Ports \cup {None}, fallbacks : SUBSET Ports, headStart : BOOLEAN,
          reached : BOOLEAN]

StartProbe(b, kind) ==
    LET others == IF b.shouldAutoSelectPort THEN Ports \ {b.serverUrl} ELSE {}
    IN  Dialled([b EXCEPT !.probe = [NoProbe EXCEPT !.kind = kind, !.primary = b.serverUrl,
                                     !.fallbacks = others, !.headStart = others # {}]],
                {b.serverUrl})

StartFallbacks(b) ==
    Dialled([b EXCEPT !.probe.fallbacks = {}, !.probe.headStart = FALSE],
            b.probe.fallbacks)

CancelProbe(b) == [Closed(b, b.probe.active) EXCEPT !.probe = NoProbe]

\* The catch of requestPairing; error paths of a pairing end here.
PairingFailed(b, reached) ==
    [b EXCEPT !.shouldRetryPairing = ~reached,
              !.connectionState = IF b.pairToken = None THEN "missing_token"
                                  ELSE "disconnected"]

\* A handler that cancels a pairing goes on to its end before the catch runs.
AfterCancel(b, after) ==
    IF b.probe.kind = "pair" THEN PairingFailed(after, b.probe.reached) ELSE after

\* Bound: a handler that may start a probe waits until there is a socket for it.
CanProbe(b) == HasRoom(CancelProbe(b), Ports)
CanFallBack(b) == HasRoom(b, b.probe.fallbacks)

ScheduleReconnect(b) == [b EXCEPT !.reconnectTimer = @ \/ b.pairToken # None]

Halted == {"unauthorized", "missing_token"}

\* Faulty: the socket of the old connection is closed but not forgotten.
ConnectBeside(b, force) ==
    IF b.pairToken = None
    THEN AfterCancel(b, [CancelProbe(b) EXCEPT !.connectionState = "missing_token"])
    ELSE IF (b.desktopSocket # NoSocket \/ b.probe.kind # "none") /\ ~force THEN b
    ELSE AfterCancel(b, StartProbe([CancelProbe(Closed(b, {b.desktopSocket})) EXCEPT
            !.reconnectTimer = FALSE, !.connectionState = "connecting"], "connect"))

Connect(b, force) ==
    IF b.pairToken = None
    THEN AfterCancel(b, [CancelProbe(b) EXCEPT !.connectionState = "missing_token"])
    ELSE IF (b.desktopSocket # NoSocket \/ b.probe.kind # "none") /\ ~force THEN b
    ELSE AfterCancel(b, StartProbe([CancelProbe(Closed(b, {b.desktopSocket})) EXCEPT
            !.desktopSocket = NoSocket, !.reconnectTimer = FALSE,
            !.connectionState = "connecting"], "connect"))

RequestPairing(b) ==
    AfterCancel(b, StartProbe([CancelProbe(b) EXCEPT !.reconnectTimer = FALSE,
                                                     !.connectionState = "connecting"], "pair"))

---------------------------------------------------------------------------
(* chrome.storage.local: set takes effect at once; the awaiting code goes on,
   and onChanged fires, in any order, each first in first out. *)

Saved(b, key, value) ==
    [b EXCEPT !.stored[key] = value, !.saves = Append(@, key),
              !.changes = Append(@, [key |-> key, value |-> value])]

\* A save nobody waits for.
SavedAside(b, key, value) ==
    [b EXCEPT !.stored[key] = value, !.changes = Append(@, [key |-> key, value |-> value])]

\* Faulty: the port that answered is not stored.
RememberUrlOnce(b, url) == [b EXCEPT !.serverUrl = url]

RememberUrl(b, url) ==
    IF url = b.serverUrl THEN b ELSE SavedAside([b EXCEPT !.serverUrl = url], "serverUrl", url)

SetToken(b, token) == Saved([b EXCEPT !.pairToken = token], "pairToken", token)

\* The rest of setToken and of setServerUrl after the save.
AfterSave(b, key) ==
    IF key = "serverUrl" \/ b.pairToken # None THEN Connect(b, TRUE)
    ELSE [Closed(b, {b.desktopSocket}) EXCEPT !.desktopSocket = NoSocket,
                                              !.connectionState = "missing_token"]

---------------------------------------------------------------------------
(* What the listeners of a socket do. *)

\* hello_ack, error and the rest of onDesktopMessage; subscribe_tasks, the task
\* snapshots and the answers to requests are not about the connection.
OnDesktopMessage(b, m) ==
    IF m.is = "ack" THEN [b EXCEPT !.connectionState = "connected"]
    ELSE IF m.is = "error" /\ b.connectionState = "authenticating"
    THEN [Closed(b, {b.desktopSocket}) EXCEPT !.desktopSocket = NoSocket,
                                              !.connectionState = "unauthorized"]
    ELSE b

\* Faulty: the other probes stay open when one is answered.
AdoptLeavingOthers(b, s) == [b EXCEPT !.probe = NoProbe, !.desktopSocket = s]

\* The first probe that is answered becomes the connection.
Adopt(b, s) ==
    [Closed(b, b.probe.active \ {s}) EXCEPT !.probe = NoProbe, !.desktopSocket = s]

OnMessage(b, s, m) ==
    LET port == PortOf(s)
    IN  IF s = b.desktopSocket THEN OnDesktopMessage(b, m)
        ELSE IF s \notin b.probe.active THEN b
        ELSE IF b.probe.kind = "connect" /\ m.is \in {"ack", "error"}
        THEN OnDesktopMessage(RememberUrl(Adopt(b, s), port), m)
        ELSE IF b.probe.kind = "pair" /\ m.is = "refused"
        THEN PairingFailed(CancelProbe(RememberUrl(b, port)), b.probe.reached)
        ELSE IF b.probe.kind = "pair" /\ m.is = "paired"
        THEN SetToken([CancelProbe(RememberUrl(b, port)) EXCEPT !.shouldRetryPairing = FALSE],
                      m.token)
        ELSE b

\* Faulty: the handshake is taken for done when the socket opens.
OnOpenAnyway(b, s) ==
    IF b.probe.kind = "pair"
    THEN Send([b EXCEPT !.probe.reached = TRUE,
                        !.probe.headStart = @ /\ PortOf(s) # b.probe.primary], s, [is |-> "pair"])
    ELSE Send([b EXCEPT !.connectionState = "connected"],
              s, [is |-> "hello", token |-> b.pairToken])

OnOpen(b, s) ==
    IF b.probe.kind = "pair"
    THEN Send([b EXCEPT !.probe.reached = TRUE,
                        !.probe.headStart = @ /\ PortOf(s) # b.probe.primary], s, [is |-> "pair"])
    ELSE Send([b EXCEPT !.connectionState = IF @ = "connecting" THEN "authenticating" ELSE @],
              s, [is |-> "hello", token |-> b.pairToken])

\* close of the connection, after error if it failed.
OnConnectionClosed(b, s, failed) ==
    LET after == [Closed(b, {s}) EXCEPT
            !.desktopSocket = NoSocket,
            !.connectionState = IF failed /\ @ # "unauthorized" THEN "disconnected" ELSE @]
    IN  IF after.connectionState \in Halted THEN after
        ELSE ScheduleReconnect([after EXCEPT !.connectionState = "disconnected"])

\* Faulty: cancelProbe is not reset when the last probe fails.
OnProbeFailedUnreset(b, s) ==
    LET primary == PortOf(s) = b.probe.primary /\ (b.probe.kind = "connect" \/ ~b.probe.reached)
        without == [Closed(b, {s}) EXCEPT !.probe.active = @ \ {s}]
        after == IF primary THEN StartFallbacks(without) ELSE without
    IN  IF after.probe.active # {} THEN after
        ELSE IF b.probe.kind = "pair" THEN PairingFailed(CancelProbe(after), b.probe.reached)
        ELSE IF b.connectionState \in Halted THEN after
        ELSE ScheduleReconnect([after EXCEPT !.connectionState = "disconnected"])

\* error and close of a probe: the others go on, and the last one ends it.
OnProbeFailed(b, s) ==
    LET primary == PortOf(s) = b.probe.primary /\ (b.probe.kind = "connect" \/ ~b.probe.reached)
        without == [Closed(b, {s}) EXCEPT !.probe.active = @ \ {s}]
        after == IF primary THEN StartFallbacks(without) ELSE without
    IN  IF after.probe.active # {} THEN after
        ELSE IF b.probe.kind = "pair" THEN PairingFailed(CancelProbe(after), b.probe.reached)
        ELSE IF b.connectionState \in Halted THEN after
        ELSE ScheduleReconnect([after EXCEPT !.probe = NoProbe,
                                             !.connectionState = "disconnected"])

OnClose(b, s, failed) ==
    IF s = b.desktopSocket THEN OnConnectionClosed(b, s, failed)
    ELSE IF s \in b.probe.active THEN OnProbeFailed(b, s)
    ELSE Closed(b, {s})

\* onLocalStorageChanged: the bridge hears of its own saves too.
OnChange(b, change) ==
    LET after == [b EXCEPT ![change.key] = change.value]
    IN  IF change.key = "shouldAutoSelectPort" /\ change.value
           /\ b.connectionState # "connected"
        THEN Connect(after, TRUE) ELSE after

---------------------------------------------------------------------------

\* setupBackground, when the browser starts the service worker.
Setup(stored, sockets) ==
    LET b == [pairToken |-> stored.pairToken, serverUrl |-> stored.serverUrl,
              shouldAutoSelectPort |-> stored.shouldAutoSelectPort,
              connectionState |-> "missing_token", desktopSocket |-> NoSocket, probe |-> NoProbe,
              reconnectTimer |-> FALSE, shouldRetryPairing |-> FALSE,
              sockets |-> sockets, stored |-> stored, saves |-> <<>>, changes |-> <<>>]
    IN  IF b.pairToken = None THEN RequestPairing(b) ELSE Connect(b, FALSE)

Init ==
    /\ desktop \in [port : Ports \cup {None}, key : {CHOOSE key \in Keys : TRUE}]
    /\ \E token \in {None, desktop.key}, auto \in BOOLEAN :
           bridge = Setup([pairToken |-> token, serverUrl |-> DefaultPort,
                           shouldAutoSelectPort |-> auto],
                          [s \in Sockets |-> Unused])
    /\ commands = 0 /\ troubles = 0 /\ derailed = FALSE

Handle(b) == bridge' = b /\ UNCHANGED <<desktop, commands, troubles, derailed>>

\* The sockets of the browser.

SocketOpens(s) ==
    /\ bridge.sockets[s].mine = "connecting" /\ PortOf(s) = desktop.port
    /\ Handle(OnOpen([bridge EXCEPT !.sockets[s].mine = "open",
                                    !.sockets[s].theirs = "open"], s))

SocketFails(s) ==
    /\ bridge.sockets[s].mine = "connecting" /\ PortOf(s) # desktop.port
    /\ CanFallBack(bridge)
    /\ Handle(OnClose(bridge, s, TRUE))

MessageArrives(s) ==
    /\ bridge.sockets[s].mine = "open" /\ bridge.sockets[s].in # <<>>
    /\ Handle(OnMessage([bridge EXCEPT !.sockets[s].in = Tail(@)], s,
                        Head(bridge.sockets[s].in)))

\* The program has closed the connection, or is gone.
SocketCloses(s) ==
    /\ bridge.sockets[s].mine = "open" /\ bridge.sockets[s].in = <<>>
    /\ bridge.sockets[s].theirs # "open"
    /\ CanFallBack(bridge)
    /\ \E failed \in BOOLEAN : Handle(OnClose(bridge, s, failed))

\* Timers.

HeadStartEnds ==
    bridge.probe.headStart /\ CanFallBack(bridge) /\ Handle(StartFallbacks(bridge))

PairingTimesOut ==
    /\ bridge.probe.kind = "pair"
    /\ Handle(PairingFailed(CancelProbe(bridge), bridge.probe.reached))

ReconnectTimerFires ==
    /\ bridge.reconnectTimer /\ CanProbe(bridge)
    /\ Handle(Connect([bridge EXCEPT !.reconnectTimer = FALSE], FALSE))

\* onReconnectAlarm, once a minute.
Alarm ==
    /\ bridge.connectionState # "connected" /\ CanProbe(bridge)
    /\ Handle(IF bridge.pairToken = None /\ bridge.shouldRetryPairing
              THEN RequestPairing(bridge) ELSE Connect(bridge, FALSE))

\* Storage.

SaveEnds ==
    /\ bridge.saves # <<>> /\ CanProbe(bridge)
    /\ bridge' = AfterSave([bridge EXCEPT !.saves = Tail(@)], Head(bridge.saves))
    \* Probes that run on without a token are never reset when they fail.
    /\ derailed' = (\/ derailed
                    \/ bridge'.connectionState = "missing_token" /\ bridge'.probe.kind = "connect")
    /\ UNCHANGED <<desktop, commands, troubles>>

ChangeArrives ==
    /\ bridge.changes # <<>> /\ CanProbe(bridge)
    /\ Handle(OnChange([bridge EXCEPT !.changes = Tail(@)], Head(bridge.changes)))

\* The user, in the popup.

Command(b, disturbs) ==
    /\ commands < MaxCommands /\ CanProbe(bridge)
    /\ bridge' = b /\ commands' = commands + 1 /\ derailed' = (derailed \/ disturbs)
    /\ UNCHANGED <<desktop, troubles>>

Refresh == Command(Connect(bridge, TRUE), FALSE)

\* A pairing that fails leaves the connection it found open, but its state is
\* "disconnected" then, and connect() returns early as long as it stays open.
Pair == Command(RequestPairing(bridge), bridge.desktopSocket # NoSocket)

EnterToken == \E token \in {None} \cup Keys : Command(SetToken(bridge, token), FALSE)

\* The popup lets the user edit the URL only without automatic selection.
EnterUrl ==
    /\ ~bridge.shouldAutoSelectPort
    /\ \E url \in Ports : Command(Saved([bridge EXCEPT !.serverUrl = url], "serverUrl", url), FALSE)

\* The popup writes this one to the storage itself.
SwitchAutoSelect ==
    Command(SavedAside(bridge, "shouldAutoSelectPort", ~bridge.stored.shouldAutoSelectPort), FALSE)

\* The browser stops the service worker and starts it again.
Restart ==
    /\ troubles < MaxTrouble /\ troubles' = troubles + 1
    /\ HasRoom(Closed(bridge, Sockets), Ports)
    /\ bridge' = Setup(bridge.stored, Closed(bridge, Sockets).sockets)
    /\ UNCHANGED <<desktop, commands, derailed>>

---------------------------------------------------------------------------
(* The program: browser_service.py. *)

\* _send; stream.send drops what it gets once the connection is closing.
Answered(sockets, s, m) ==
    IF sockets[s].theirs = "open" /\ sockets[s].mine = "open"
    THEN [sockets EXCEPT ![s].in = Append(@, m)] ELSE sockets

\* _onMessageReceived; _close lets the error out first.
OnHello(sockets, s, m) ==
    IF m.token = desktop.key
    THEN Answered([sockets EXCEPT ![s].authenticated = TRUE], s, [is |-> "ack"])
    ELSE [Answered(sockets, s, [is |-> "error"]) EXCEPT ![s].theirs = "closing"]

\* One pair request at a time; the same session may replace its own.
OnPairRequested(sockets, s) ==
    IF \E t \in Sockets \ {s} : sockets[t].asks
    THEN Answered(sockets, s, [is |-> "refused"])
    ELSE [sockets EXCEPT ![s].asks = TRUE]

Receive(s) ==
    LET m == Head(bridge.sockets[s].out)
        read == [bridge.sockets EXCEPT ![s].out = Tail(@)]
    IN  /\ bridge.sockets[s].theirs # "none" /\ bridge.sockets[s].out # <<>>
        /\ Handle([bridge EXCEPT !.sockets = IF m.is = "hello" THEN OnHello(read, s, m)
                                             ELSE OnPairRequested(read, s)])

\* Faulty: the pair request outlives the session that made it.
ForgottenButAsking(socket) ==
    [socket EXCEPT !.theirs = "none", !.out = <<>>, !.authenticated = FALSE]

\* Faulty: what the session has sent stays to be read.
ForgottenInPart(socket) ==
    [socket EXCEPT !.theirs = "none", !.authenticated = FALSE, !.asks = FALSE]

\* The program drops a session, and its pair request with it.
Forgotten(socket) ==
    [socket EXCEPT !.theirs = "none", !.out = <<>>, !.authenticated = FALSE, !.asks = FALSE]

\* _onDisconnected, after the messages that came before.
Notice(s) ==
    /\ \/ bridge.sockets[s].theirs = "open" /\ bridge.sockets[s].mine = "none"
          /\ bridge.sockets[s].out = <<>>
       \/ bridge.sockets[s].theirs = "closing"
    /\ Handle([bridge EXCEPT !.sockets[s] = Forgotten(@)])

\* approvePair and rejectPair.
DecidePair(s) ==
    /\ bridge.sockets[s].asks
    /\ \E answer \in {[is |-> "paired", token |-> desktop.key], [is |-> "refused"]} :
           Handle([bridge EXCEPT !.sockets = Answered([@ EXCEPT ![s].asks = FALSE], s, answer)])

\* regenerateToken, when the user asks for a new token.
RegenerateToken ==
    /\ troubles < MaxTrouble /\ troubles' = troubles + 1
    /\ desktop.port # None
    /\ \E key \in Keys \ {desktop.key} : desktop' = [desktop EXCEPT !.key = key]
    /\ bridge' = [bridge EXCEPT !.sockets = [s \in Sockets |->
          IF @[s].theirs # "open" THEN @[s]
          ELSE [@[s] EXCEPT !.theirs = "closing", !.authenticated = FALSE]]]
    /\ UNCHANGED <<commands, derailed>>

\* The program ends, or its listener is switched off.
Stop ==
    /\ troubles < MaxTrouble /\ troubles' = troubles + 1
    /\ desktop.port # None
    /\ desktop' = [desktop EXCEPT !.port = None]
    /\ bridge' = [bridge EXCEPT !.sockets = [s \in Sockets |-> Forgotten(@[s])]]
    /\ UNCHANGED <<commands, derailed>>

\* The listener takes the first port that is free, not always the same.
Listen ==
    /\ desktop.port = None
    /\ \E port \in Ports : desktop' = [desktop EXCEPT !.port = port]
    /\ UNCHANGED <<bridge, commands, troubles, derailed>>

SocketEvent ==
    \E s \in Sockets : SocketOpens(s) \/ SocketFails(s) \/ MessageArrives(s) \/ SocketCloses(s)

ProgramEvent == \E s \in Sockets : Receive(s) \/ Notice(s)

Browser ==
    \/ SocketEvent
    \/ HeadStartEnds \/ PairingTimesOut \/ ReconnectTimerFires \/ Alarm
    \/ SaveEnds \/ ChangeArrives \/ Restart

User == Refresh \/ Pair \/ EnterToken \/ EnterUrl \/ SwitchAutoSelect

Program ==
    \/ ProgramEvent \/ \E s \in Sockets : DecidePair(s)
    \/ RegenerateToken \/ Stop \/ Listen

Next == Browser \/ User \/ Program

Spec == Init /\ [][Next]_vars

Event == SocketEvent \/ ProgramEvent \/ HeadStartEnds \/ SaveEnds \/ ChangeArrives
Retry == ReconnectTimerFires \/ Alarm

\* Events are delivered, a pairing times out and the alarm comes back; what the
\* user does, the faults and the decision on a pairing are under no obligation.
\* Event is enabled only finitely long without the others, so it needs no
\* fairness for each of its kinds.
FairSpec == Spec /\ WF_vars(Event) /\ WF_vars(PairingTimesOut) /\ WF_vars(Retry)

---------------------------------------------------------------------------
(* Properties. *)

Stored == [pairToken : Keys \cup {None}, serverUrl : Ports, shouldAutoSelectPort : BOOLEAN]

\* The memory of the bridge and of the program have their types; a socket that
\* has neither end is as new.
TypeOK ==
    /\ bridge.pairToken \in Keys \cup {None} /\ bridge.serverUrl \in Ports
    /\ bridge.shouldAutoSelectPort \in BOOLEAN /\ bridge.reconnectTimer \in BOOLEAN
    /\ bridge.shouldRetryPairing \in BOOLEAN
    /\ bridge.connectionState \in {"missing_token", "connecting", "authenticating", "connected",
                                   "unauthorized", "disconnected"}
    /\ bridge.desktopSocket \in Sockets \cup {NoSocket} /\ bridge.probe \in Probe
    /\ bridge.sockets \in [Sockets -> Socket] /\ bridge.stored \in Stored
    /\ \A s \in Sockets : bridge.sockets[s].mine = "none" /\ bridge.sockets[s].theirs = "none"
                          => bridge.sockets[s] = Unused
    /\ desktop.port \in Ports \cup {None} /\ desktop.key \in Keys

\* Probing, pairing again, reconnecting and restarting in any order leave no
\* socket behind: one that is not closed is the connection or belongs to the
\* one probe that cancelProbe stops.
NoStraySocket ==
    \A s \in Sockets : bridge.sockets[s].mine # "none" <=>
        s \in bridge.probe.active \cup {bridge.desktopSocket}

\* "connected" is shown only over a socket that the program has authenticated
\* with its present token, or that it has closed and the close is on its way.
ConnectedIsAuthenticated ==
    bridge.connectionState = "connected" =>
        /\ bridge.desktopSocket # NoSocket
        /\ LET socket == bridge.sockets[bridge.desktopSocket]
           IN  socket.authenticated \/ socket.theirs # "open"

\* The program shows one pair request at a time, made by a session it still
\* has, and the extension waits for the decision or has closed that session.
PairRequestIsAlive ==
    \A s \in Sockets : bridge.sockets[s].asks =>
        /\ \A t \in Sockets : bridge.sockets[t].asks => t = s
        /\ bridge.sockets[s].theirs # "none"
        /\ bridge.sockets[s].mine # "none" =>
              bridge.probe.kind = "pair" /\ s \in bridge.probe.active

\* When no save and no change is on its way, a restart finds what the bridge
\* holds: stale changes that arrive late are corrected by later ones.
MemoryIsStored ==
    bridge.saves = <<>> /\ bridge.changes = <<>> =>
        \A key \in DOMAIN bridge.stored : bridge[key] = bridge.stored[key]

Reachable ==
    /\ desktop.port # None /\ bridge.pairToken = desktop.key
    /\ desktop.port = bridge.serverUrl \/ bridge.shouldAutoSelectPort

\* However the connection was lost and whatever the user did, the bridge is
\* connected in the end if the program listens at a port that it tries and the
\* token is right; the two ways to stop it are named where derailed is set.
Reconnects ==
    <>[](Reachable /\ ~derailed) => <>[](bridge.connectionState = "connected")

\* The rest of the extension sees the connection that Link describes.
LinkNow ==
    IF bridge.desktopSocket = NoSocket THEN "down"
    ELSE IF bridge.connectionState = "connected" THEN "up" ELSE "mute"

AsLink == INSTANCE Link WITH link <- LinkNow
ImplementsLink == AsLink!Spec
=============================================================================
