------------------------- MODULE DesktopBridgeProofs -------------------------
(***************************************************************************)
(* Theorems about DesktopBridge, for any ports, tokens and bounds.  First  *)
(* its types, and that no socket is left behind; then Link, "connected",   *)
(* the pair requests and the storage.  A handler is a function on the      *)
(* bridge, so each has a lemma that it keeps the bridge in order; a step   *)
(* then follows from the lemmas of the functions it is made of.            *)
(***************************************************************************)
EXTENDS DesktopBridge, Recursions, SequenceTheorems

States == {"missing_token", "connecting", "authenticating", "connected", "unauthorized",
           "disconnected"}

Settings == {"pairToken", "serverUrl", "shouldAutoSelectPort"}

Changes == [key : {"pairToken"}, value : Keys \cup {None}]
           \cup [key : {"serverUrl"}, value : Ports]
           \cup [key : {"shouldAutoSelectPort"}, value : BOOLEAN]

Bridges == [pairToken : Keys \cup {None}, serverUrl : Ports, shouldAutoSelectPort : BOOLEAN,
            connectionState : States, desktopSocket : Sockets \cup {NoSocket}, probe : Probe,
            reconnectTimer : BOOLEAN, shouldRetryPairing : BOOLEAN,
            sockets : [Sockets -> Socket], stored : Stored,
            saves : Seq(Settings), changes : Seq(Changes)]

\* An end that is closed holds nothing.
Clean(sockets) ==
    \A s \in Sockets :
        /\ sockets[s].mine = "none" => sockets[s].in = <<>>
        /\ sockets[s].theirs = "none" =>
            sockets[s].out = <<>> /\ ~sockets[s].authenticated /\ ~sockets[s].asks

\* The open sockets are those of the probe and the connection.
Owned(b) ==
    \A s \in Sockets : b.sockets[s].mine # "none" <=> s \in b.probe.active \cup {b.desktopSocket}

\* The connection is no probe, and there is none while one is looked for.
Apart(b) ==
    /\ b.desktopSocket \notin b.probe.active
    /\ b.probe.kind = "connect" => b.desktopSocket = NoSocket

InOrder(b) == b \in Bridges /\ Clean(b.sockets) /\ Owned(b) /\ Apart(b)

\* What makes TypeOK and NoStraySocket inductive.
BridgeInv ==
    InOrder(bridge) /\ desktop \in [port : Ports \cup {None}, key : Keys]

-----------------------------------------------------------------------------
(* Sockets.                                                                *)

\* NoSocket is no socket, and an unused socket is one.
LEMMA SocketFacts ==
    /\ NoSocket \notin Sockets
    /\ Unused \in Socket
    /\ NoProbe \in Probe
    /\ \A s \in Sockets : PortOf(s) \in Ports /\ s[2] \in 1..MaxSockets /\ s = <<PortOf(s), s[2]>>
<1>1. NoSocket \notin Sockets
    BY BridgeAssumption DEF NoSocket, Sockets
<1>2. Unused \in Socket
    BY DEF Unused, Socket
<1>3. NoProbe \in Probe
    BY DEF NoProbe, Probe, None
<1>4. \A s \in Sockets : PortOf(s) \in Ports /\ s[2] \in 1..MaxSockets /\ s = <<PortOf(s), s[2]>>
    BY DEF Sockets, PortOf
<1> QED BY <1>1, <1>2, <1>3, <1>4

WithSockets(b, f) == [b EXCEPT !.sockets = f]
Silenced(socket) == [socket EXCEPT !.mine = "none", !.in = <<>>]

\* What close() does to each socket.
LEMMA ClosedSockets ==
    ASSUME NEW b \in Bridges, NEW S
    PROVE  /\ Closed(b, S) = WithSockets(b, Closed(b, S).sockets)
           /\ Closed(b, S) \in Bridges
           /\ \A s \in Sockets : s \notin S => Closed(b, S).sockets[s] = b.sockets[s]
           /\ \A s \in Sockets : s \in S =>
                \/ Closed(b, S).sockets[s] = Unused
                \/ /\ b.sockets[s].theirs # "none"
                   /\ Closed(b, S).sockets[s] = Silenced(b.sockets[s])
<1> DEFINE f == [s \in Sockets |->
        IF s \notin S THEN b.sockets[s]
        ELSE IF Unheard(b.sockets[s]) THEN Unused
        ELSE Silenced(b.sockets[s])]
<1>0. b.sockets \in [Sockets -> Socket]
    BY DEF Bridges
<1>1. Closed(b, S) = WithSockets(b, f)
    BY DEF Closed, WithSockets, Silenced
<1>2. f \in [Sockets -> Socket]
    <2> SUFFICES ASSUME NEW s \in Sockets PROVE f[s] \in Socket
        OBVIOUS
    <2>1. b.sockets[s] \in Socket
        BY <1>0
    <2>2. Silenced(b.sockets[s]) \in Socket
        <3> <<>> \in Seq(Message)
            BY EmptySeq
        <3> QED BY <2>1 DEF Socket, Silenced
    <2> QED BY <2>1, <2>2, SocketFacts
<1> HIDE DEF f
<1>3. WithSockets(b, f).sockets = f /\ WithSockets(b, f) \in Bridges
    BY <1>2 DEF Bridges, WithSockets
<1>4. /\ \A s \in Sockets : s \notin S => f[s] = b.sockets[s]
      /\ \A s \in Sockets : s \in S =>
            \/ f[s] = Unused
            \/ b.sockets[s].theirs # "none" /\ f[s] = Silenced(b.sockets[s])
    BY DEF f, Unheard
<1> QED BY <1>1, <1>3, <1>4

\* Closing sockets closes these and leaves the ends of the others, and never
\* takes up room.
LEMMA ClosingKeeps ==
    ASSUME NEW b \in Bridges, NEW S, Clean(b.sockets)
    PROVE  /\ Closed(b, S) = WithSockets(b, Closed(b, S).sockets)
           /\ Closed(b, S) \in Bridges
           /\ Clean(Closed(b, S).sockets)
           /\ \A s \in Sockets : Closed(b, S).sockets[s].mine =
                IF s \in S THEN "none" ELSE b.sockets[s].mine
           /\ \A P \in SUBSET Ports : HasRoom(b, P) => HasRoom(Closed(b, S), P)
<1> DEFINE q == Closed(b, S)
<1>1. /\ q = WithSockets(b, q.sockets) /\ q \in Bridges
      /\ \A s \in Sockets : s \notin S => q.sockets[s] = b.sockets[s]
      /\ \A s \in Sockets : s \in S =>
            \/ q.sockets[s] = Unused
            \/ /\ b.sockets[s].theirs # "none"
               /\ q.sockets[s] = Silenced(b.sockets[s])
    BY ClosedSockets
<1> HIDE DEF q
<1>2. ASSUME NEW s \in Sockets
      PROVE  /\ q.sockets[s].mine = IF s \in S THEN "none" ELSE b.sockets[s].mine
             /\ q.sockets[s].mine = "none" => q.sockets[s].in = <<>>
             /\ q.sockets[s].theirs = "none" => /\ q.sockets[s].out = <<>>
                                                /\ ~q.sockets[s].authenticated
                                                /\ ~q.sockets[s].asks
             /\ b.sockets[s] = Unused => q.sockets[s] = Unused
    <2>1. b.sockets[s] \in Socket
        BY DEF Bridges
    <2>2. /\ b.sockets[s].mine = "none" => b.sockets[s].in = <<>>
          /\ b.sockets[s].theirs = "none" => /\ b.sockets[s].out = <<>>
                                             /\ ~b.sockets[s].authenticated
                                             /\ ~b.sockets[s].asks
        BY DEF Clean
    <2>3. CASE s \notin S
        BY <1>1, <2>2, <2>3
    <2>4. CASE s \in S
        <3>1. CASE q.sockets[s] = Unused
            BY <2>4, <3>1 DEF Unused
        <3>2. CASE /\ b.sockets[s].theirs # "none"
                   /\ q.sockets[s] = Silenced(b.sockets[s])
            BY <2>1, <2>4, <3>2 DEF Socket, Unused, Silenced
        <3> QED BY <1>1, <2>4, <3>1, <3>2
    <2> QED BY <2>3, <2>4
<1>3. ASSUME NEW P \in SUBSET Ports, HasRoom(b, P) PROVE HasRoom(q, P)
    <2>1. ASSUME NEW port \in P, NEW n \in 1..MaxSockets, b.sockets[<<port, n>>] = Unused
          PROVE  q.sockets[<<port, n>>] = Unused
        <3>1. <<port, n>> \in Sockets
            BY DEF Sockets
        <3> QED BY <1>2, <2>1, <3>1
    <2> QED BY <1>3, <2>1 DEF HasRoom, Free
<1>4. Clean(q.sockets)
    BY <1>2 DEF Clean
<1> QED BY <1>1, <1>2, <1>3, <1>4 DEF q

\* The smallest free number is one.
LEMMA LeastFree ==
    ASSUME NEW b, NEW port \in Ports, Free(b, port) # {}
    PROVE  (CHOOSE n \in Free(b, port) : \A k \in Free(b, port) : n <= k) \in Free(b, port)
<1>1. Free(b, port) \subseteq Nat
    BY BridgeAssumption DEF Free
<1>2. \E n \in Free(b, port) : \A k \in Free(b, port) : n <= k
    BY <1>1, HasLeast
<1> QED BY <1>2

\* New sockets are taken among the unused ones.
LEMMA DiallingKeeps ==
    ASSUME NEW b, InOrder(b), NEW ports \in SUBSET Ports, HasRoom(b, ports)
    PROVE  InOrder(Dialled(b, ports))
<1> DEFINE C == {<<port, CHOOSE n \in Free(b, port) : \A k \in Free(b, port) : n <= k>> :
                   port \in ports}
           f == [s \in Sockets |->
                      IF s \in C THEN [Unused EXCEPT !.mine = "connecting"] ELSE b.sockets[s]]
           p == [b.probe EXCEPT !.active = @ \cup C]
<1>b. /\ b \in Bridges /\ b.sockets \in [Sockets -> Socket] /\ b.probe \in Probe
      /\ b.desktopSocket \in Sockets \cup {NoSocket}
    BY DEF InOrder, Bridges
<1>1. ASSUME NEW s \in C PROVE s \in Sockets /\ b.sockets[s] = Unused
    <2>1. PICK port \in ports : s = <<port, CHOOSE n \in Free(b, port) : \A k \in Free(b, port) : n <= k>>
        OBVIOUS
    <2>2. Free(b, port) # {}
        BY DEF HasRoom
    <2>3. PICK n \in Free(b, port) : s = <<port, n>>
        BY <2>1, <2>2, LeastFree
    <2> QED BY <2>3 DEF Free, Sockets
<1>2. Dialled(b, ports) = [b EXCEPT !.probe = p, !.sockets = f]
    BY <1>b DEF Dialled, Bridges, Probe
<1> HIDE DEF C
<1>3. f \in [Sockets -> Socket]
    <2> [Unused EXCEPT !.mine = "connecting"] \in Socket
        BY SocketFacts DEF Socket
    <2> QED BY <1>b
<1>4. p \in Probe /\ p.active = b.probe.active \cup C /\ p.kind = b.probe.kind
    BY <1>1, <1>b DEF Probe
<1>5. /\ \A s \in Sockets \ C : f[s] = b.sockets[s]
      /\ \A s \in C : f[s].mine = "connecting" /\ f[s].theirs = "none"
                      /\ f[s].out = <<>> /\ ~f[s].authenticated /\ ~f[s].asks
    BY <1>1 DEF Unused
<1> HIDE DEF f
<1>6. Clean(f)
    BY <1>5 DEF Clean, InOrder
<1> HIDE DEF p
<1>8. LET q == [b EXCEPT !.probe = p, !.sockets = f]
      IN  q \in Bridges /\ q.probe = p /\ q.sockets = f /\ q.desktopSocket = b.desktopSocket
    BY <1>b, <1>3, <1>4 DEF Bridges
<1>9. \A s \in Sockets : f[s].mine # "none" <=> s \in p.active \cup {b.desktopSocket}
    BY <1>1, <1>4, <1>5 DEF InOrder, Owned
<1>10. b.desktopSocket \notin C
    <2> SUFFICES ASSUME b.desktopSocket \in C PROVE FALSE
        OBVIOUS
    <2>1. b.desktopSocket \in Sockets /\ b.sockets[b.desktopSocket] = Unused
        BY <1>1
    <2>2. b.sockets[b.desktopSocket].mine # "none"
        BY <2>1 DEF InOrder, Owned
    <2> QED BY <2>1, <2>2 DEF Unused
<1>11. /\ b.desktopSocket \notin p.active
       /\ p.kind = "connect" => b.desktopSocket = NoSocket
    BY <1>4, <1>10 DEF InOrder, Apart
<1>12. InOrder([b EXCEPT !.probe = p, !.sockets = f])
    BY <1>6, <1>8, <1>9, <1>11 DEF InOrder, Owned, Apart
<1> QED BY <1>2, <1>12

\* Closing changes nothing else.
LEMMA ClosingFields ==
    ASSUME NEW b \in Bridges, NEW S
    PROVE  /\ Closed(b, S).pairToken = b.pairToken /\ Closed(b, S).serverUrl = b.serverUrl
           /\ Closed(b, S).shouldAutoSelectPort = b.shouldAutoSelectPort
           /\ Closed(b, S).connectionState = b.connectionState
           /\ Closed(b, S).desktopSocket = b.desktopSocket /\ Closed(b, S).probe = b.probe
           /\ Closed(b, S).stored = b.stored
<1> DEFINE f == Closed(b, S).sockets
<1>1. Closed(b, S) = WithSockets(b, f)
    BY ClosedSockets
<1> HIDE DEF f
<1>2. LET q == WithSockets(b, f)
      IN  /\ q.pairToken = b.pairToken /\ q.serverUrl = b.serverUrl
          /\ q.shouldAutoSelectPort = b.shouldAutoSelectPort
          /\ q.connectionState = b.connectionState
          /\ q.desktopSocket = b.desktopSocket /\ q.probe = b.probe
          /\ q.stored = b.stored
    BY DEF WithSockets, Bridges
<1> QED BY <1>1, <1>2

-----------------------------------------------------------------------------
(* The functions the handlers are made of keep the bridge in order.        *)

\* What is neither a socket nor the probe nor the connection may change.
LEMMA Redecorated ==
    ASSUME NEW b, InOrder(b), NEW q \in Bridges,
           q.sockets = b.sockets, q.desktopSocket = b.desktopSocket,
           q.probe.active = b.probe.active, q.probe.kind = b.probe.kind
    PROVE  /\ InOrder(q)
           /\ \A P \in SUBSET Ports : HasRoom(b, P) => HasRoom(q, P)
BY DEF InOrder, Owned, Apart, HasRoom, Free

\* Both a probe and a connection can be closed without a loss of room.
LEMMA ClosingBoth ==
    ASSUME NEW b \in Bridges, NEW S, NEW T, S \cap T = {}, NEW P \in SUBSET Ports,
           HasRoom(Closed(b, T), P)
    PROVE  HasRoom(Closed(Closed(b, S), T), P)
<1>1. ASSUME NEW s \in Sockets, Closed(b, T).sockets[s] = Unused
      PROVE  Closed(Closed(b, S), T).sockets[s] = Unused
    <2>1. Closed(b, S) \in Bridges
        BY ClosedSockets
    <2>2. CASE s \in T
        <3>1. Closed(b, S).sockets[s] = b.sockets[s]
            BY <2>2, ClosedSockets
        <3>2. ASSUME NEW r \in Bridges
              PROVE  Closed(r, T).sockets[s] =
                        IF Unheard(r.sockets[s]) THEN Unused ELSE Silenced(r.sockets[s])
            BY <2>2 DEF Closed, Bridges, Silenced
        <3> QED BY <1>1, <2>1, <3>1, <3>2
    <2>3. CASE s \notin T
        <3>1. b.sockets[s] = Unused
            BY <1>1, <2>3, ClosedSockets
        <3>2. Closed(b, S).sockets[s] = Unused
            <4>1. Unused.theirs = "none"
                BY DEF Unused
            <4> QED BY <3>1, <4>1, ClosedSockets
        <3> QED BY <2>1, <2>3, <3>2, ClosedSockets
    <2> QED BY <2>2, <2>3
<1>2. ASSUME NEW port \in P, NEW n \in 1..MaxSockets, Closed(b, T).sockets[<<port, n>>] = Unused
      PROVE  Closed(Closed(b, S), T).sockets[<<port, n>>] = Unused
    <2> <<port, n>> \in Sockets
        BY DEF Sockets
    <2> QED BY <1>1, <1>2
<1> QED BY <1>2 DEF HasRoom, Free

LEMMA CancellingKeeps ==
    ASSUME NEW b, InOrder(b)
    PROVE  /\ InOrder(CancelProbe(b)) /\ CancelProbe(b).probe = NoProbe
           /\ CancelProbe(b).desktopSocket = b.desktopSocket
           /\ CancelProbe(b).sockets = Closed(b, b.probe.active).sockets
           /\ CancelProbe(b).serverUrl = b.serverUrl
           /\ CancelProbe(b).shouldAutoSelectPort = b.shouldAutoSelectPort
<1> DEFINE c == Closed(b, b.probe.active)
           q == CancelProbe(b)
<1>1. /\ c \in Bridges /\ Clean(c.sockets)
      /\ c.desktopSocket = b.desktopSocket /\ c.serverUrl = b.serverUrl
      /\ c.shouldAutoSelectPort = b.shouldAutoSelectPort
      /\ \A s \in Sockets : c.sockets[s].mine =
            IF s \in b.probe.active THEN "none" ELSE b.sockets[s].mine
    BY ClosingKeeps, ClosingFields DEF InOrder
<1>2. q = [c EXCEPT !.probe = NoProbe]
    BY DEF CancelProbe
<1> HIDE DEF c, q
<1>3. /\ q \in Bridges /\ q.probe = NoProbe /\ q.desktopSocket = c.desktopSocket
      /\ q.sockets = c.sockets /\ q.serverUrl = c.serverUrl
      /\ q.shouldAutoSelectPort = c.shouldAutoSelectPort
    BY <1>1, <1>2, SocketFacts DEF Bridges
<1>4. NoProbe.active = {} /\ NoProbe.kind = "none"
    BY DEF NoProbe
<1>5. Owned(q) /\ Apart(q)
    BY <1>1, <1>3, <1>4 DEF InOrder, Owned, Apart
<1> QED BY <1>1, <1>3, <1>5 DEF InOrder, c, q

\* Closing the connection and forgetting it.
Unlinked(b) == [Closed(b, {b.desktopSocket}) EXCEPT !.desktopSocket = NoSocket]

LEMMA UnlinkingKeeps ==
    ASSUME NEW b, InOrder(b)
    PROVE  /\ InOrder(Unlinked(b)) /\ Unlinked(b).desktopSocket = NoSocket
           /\ Unlinked(b).probe = b.probe
           /\ Unlinked(b).sockets = Closed(b, {b.desktopSocket}).sockets
           /\ \A P \in SUBSET Ports : HasRoom(b, P) => HasRoom(Unlinked(b), P)
<1> DEFINE c == Closed(b, {b.desktopSocket})
           q == Unlinked(b)
<1>1. /\ c \in Bridges /\ Clean(c.sockets) /\ c.probe = b.probe
      /\ \A s \in Sockets : c.sockets[s].mine =
            IF s = b.desktopSocket THEN "none" ELSE b.sockets[s].mine
      /\ \A P \in SUBSET Ports : HasRoom(b, P) => HasRoom(c, P)
    BY ClosingKeeps, ClosingFields DEF InOrder
<1>2. q = [c EXCEPT !.desktopSocket = NoSocket]
    BY DEF Unlinked
<1> HIDE DEF c, q
<1>3. /\ q \in Bridges /\ q.probe = c.probe /\ q.desktopSocket = NoSocket /\ q.sockets = c.sockets
    BY <1>1, <1>2 DEF Bridges
<1>4. NoSocket \notin b.probe.active
    BY SocketFacts DEF InOrder, Bridges, Probe
<1>5. Owned(q) /\ Apart(q)
    BY <1>1, <1>3, <1>4, SocketFacts DEF InOrder, Owned, Apart
<1>6. \A P \in SUBSET Ports : HasRoom(b, P) => HasRoom(q, P)
    <2>1. \A port \in Ports : Free(q, port) = Free(c, port)
        BY <1>3 DEF Free
    <2> QED BY <1>1, <2>1 DEF HasRoom
<1> QED BY <1>1, <1>3, <1>5, <1>6 DEF InOrder, c, q

\* A bridge without a probe may start one.
LEMMA StartingKeeps ==
    ASSUME NEW b, InOrder(b), b.probe = NoProbe, HasRoom(b, Ports),
           NEW kind \in {"connect", "pair"}, kind = "connect" => b.desktopSocket = NoSocket
    PROVE  InOrder(StartProbe(b, kind))
<1> DEFINE others == IF b.shouldAutoSelectPort THEN Ports \ {b.serverUrl} ELSE {}
           p == [NoProbe EXCEPT !.kind = kind, !.primary = b.serverUrl,
                                !.fallbacks = others, !.headStart = others # {}]
           q == [b EXCEPT !.probe = p]
<1>1. StartProbe(b, kind) = Dialled(q, {b.serverUrl})
    BY DEF StartProbe
<1>b. b \in Bridges /\ b.serverUrl \in Ports
    BY DEF InOrder, Bridges
<1>2. p \in Probe /\ p.active = {} /\ p.kind = kind
    BY <1>b DEF NoProbe, Probe
<1> HIDE DEF p
<1>3. /\ q \in Bridges /\ q.probe = p /\ q.sockets = b.sockets
      /\ q.desktopSocket = b.desktopSocket
    BY <1>b, <1>2 DEF Bridges
<1> HIDE DEF q
<1>4. b.probe.active = {}
    BY DEF NoProbe
<1>5. InOrder(q)
    BY <1>2, <1>3, <1>4 DEF InOrder, Owned, Apart
<1>6. HasRoom(q, {b.serverUrl})
    <2>1. \A port \in Ports : Free(q, port) = Free(b, port)
        BY <1>3 DEF Free
    <2> QED BY <1>b, <2>1 DEF HasRoom
<1>7. InOrder(Dialled(q, {b.serverUrl}))
    <2> {b.serverUrl} \in SUBSET Ports
        BY <1>b
    <2> QED BY <1>5, <1>6, DiallingKeeps
<1> QED BY <1>1, <1>7

LEMMA FallingBackKeeps ==
    ASSUME NEW b, InOrder(b), CanFallBack(b)
    PROVE  InOrder(StartFallbacks(b))
<1> DEFINE p == [b.probe EXCEPT !.fallbacks = {}, !.headStart = FALSE]
           q == [b EXCEPT !.probe = p]
<1>b. b \in Bridges /\ b.probe \in Probe /\ b.probe.fallbacks \in SUBSET Ports
    BY DEF InOrder, Bridges, Probe
<1>1. StartFallbacks(b) = Dialled(q, b.probe.fallbacks)
    BY <1>b DEF StartFallbacks, Bridges, Probe
<1>2. p \in Probe /\ p.active = b.probe.active /\ p.kind = b.probe.kind
    BY <1>b DEF Probe
<1> HIDE DEF p
<1>3. /\ q \in Bridges /\ q.probe = p /\ q.sockets = b.sockets
      /\ q.desktopSocket = b.desktopSocket
    BY <1>b, <1>2 DEF Bridges
<1> HIDE DEF q
<1>4. /\ InOrder(q)
      /\ \A P \in SUBSET Ports : HasRoom(b, P) => HasRoom(q, P)
    BY <1>2, <1>3, Redecorated
<1>5. HasRoom(q, b.probe.fallbacks)
    BY <1>b, <1>4 DEF CanFallBack
<1>6. InOrder(Dialled(q, b.probe.fallbacks))
    BY <1>b, <1>4, <1>5, DiallingKeeps
<1> QED BY <1>1, <1>6

LEMMA FailingKeeps ==
    ASSUME NEW b, InOrder(b), NEW reached \in BOOLEAN
    PROVE  InOrder(PairingFailed(b, reached))
<1> DEFINE q == PairingFailed(b, reached)
<1>1. /\ q \in Bridges /\ q.sockets = b.sockets /\ q.probe = b.probe
      /\ q.desktopSocket = b.desktopSocket
    BY DEF PairingFailed, InOrder, Bridges, States
<1> HIDE DEF q
<1> QED BY <1>1, Redecorated DEF q

LEMMA AfterCancelKeeps ==
    ASSUME NEW b, InOrder(b), NEW after, InOrder(after)
    PROVE  InOrder(AfterCancel(b, after))
<1> b.probe.reached \in BOOLEAN
    BY DEF InOrder, Bridges, Probe
<1> QED BY FailingKeeps DEF AfterCancel

\* requestPairing
LEMMA RequestPairingKeeps ==
    ASSUME NEW b, InOrder(b), CanProbe(b)
    PROVE  InOrder(RequestPairing(b))
<1> DEFINE c == CancelProbe(b)
           q == [c EXCEPT !.reconnectTimer = FALSE, !.connectionState = "connecting"]
<1>1. InOrder(c) /\ c.probe = NoProbe /\ HasRoom(c, Ports)
    BY CancellingKeeps DEF CanProbe
<1> HIDE DEF c
<1>2. /\ q \in Bridges /\ q.sockets = c.sockets /\ q.probe = c.probe
      /\ q.desktopSocket = c.desktopSocket
    BY <1>1 DEF InOrder, Bridges, States
<1> HIDE DEF q
<1>3. InOrder(q) /\ q.probe = NoProbe /\ HasRoom(q, Ports)
    BY <1>1, <1>2, Redecorated
<1>4. InOrder(StartProbe(q, "pair"))
    BY <1>3, StartingKeeps
<1> QED BY <1>4, AfterCancelKeeps DEF RequestPairing, c, q

\* What connect() makes of the bridge before it starts its probe.
Relinked(b) ==
    [CancelProbe(Closed(b, {b.desktopSocket})) EXCEPT
        !.desktopSocket = NoSocket, !.reconnectTimer = FALSE, !.connectionState = "connecting"]

LEMMA RelinkingKeeps ==
    ASSUME NEW b, InOrder(b), CanProbe(b)
    PROVE  /\ InOrder(Relinked(b)) /\ HasRoom(Relinked(b), Ports)
           /\ Relinked(b).probe = NoProbe /\ Relinked(b).desktopSocket = NoSocket
           /\ Relinked(b).connectionState = "connecting"
           /\ LET c == Closed(b, {b.desktopSocket})
              IN  Relinked(b).sockets = Closed(c, c.probe.active).sockets
<1> DEFINE c == Closed(b, {b.desktopSocket})
           d == CancelProbe(c)
           e == Closed(c, c.probe.active)
           q == [d EXCEPT !.desktopSocket = NoSocket, !.reconnectTimer = FALSE,
                          !.connectionState = "connecting"]
<1>b. b \in Bridges /\ Clean(b.sockets)
    BY DEF InOrder
<1>1. /\ c \in Bridges /\ Clean(c.sockets) /\ c.probe = b.probe
      /\ \A s \in Sockets : c.sockets[s].mine =
            IF s = b.desktopSocket THEN "none" ELSE b.sockets[s].mine
    BY <1>b, ClosingKeeps, ClosingFields
<1>2. HasRoom(e, Ports)
    <2>1. {b.desktopSocket} \cap b.probe.active = {}
        BY DEF InOrder, Apart
    <2>2. HasRoom(Closed(b, b.probe.active), Ports)
        <3>1. CancelProbe(b).sockets = Closed(b, b.probe.active).sockets
            BY CancellingKeeps
        <3> QED BY <3>1 DEF CanProbe, HasRoom, Free
    <2> QED BY <1>b, <1>1, <2>1, <2>2, ClosingBoth
<1> HIDE DEF c
<1>3. /\ e \in Bridges /\ Clean(e.sockets)
      /\ \A s \in Sockets : e.sockets[s].mine = "none"
    <2>1. \A s \in Sockets : e.sockets[s].mine =
            IF s \in c.probe.active THEN "none" ELSE c.sockets[s].mine
        BY <1>1, ClosingKeeps
    <2>2. e \in Bridges /\ Clean(e.sockets)
        BY <1>1, ClosingKeeps
    <2> QED BY <1>1, <2>1, <2>2 DEF InOrder, Owned
<1>4. d = [e EXCEPT !.probe = NoProbe]
    BY DEF CancelProbe
<1> HIDE DEF d, e
<1>5. /\ q \in Bridges /\ q.sockets = e.sockets /\ q.probe = NoProbe
      /\ q.desktopSocket = NoSocket /\ q.connectionState = "connecting"
    BY <1>3, <1>4, SocketFacts DEF Bridges, States
<1> HIDE DEF q
<1>6. InOrder(q)
    <2> NoProbe.active = {} /\ NoProbe.kind = "none"
        BY DEF NoProbe
    <2> QED BY <1>3, <1>5, SocketFacts DEF InOrder, Owned, Apart
<1>7. HasRoom(q, Ports)
    BY <1>2, <1>5 DEF HasRoom, Free
<1> QED BY <1>5, <1>6, <1>7 DEF Relinked, c, d, e, q

\* connect
LEMMA ConnectKeeps ==
    ASSUME NEW b, InOrder(b), CanProbe(b), NEW force \in BOOLEAN
    PROVE  InOrder(Connect(b, force))
<1>1. CASE b.pairToken = None
    <2> DEFINE c == CancelProbe(b)
               q == [c EXCEPT !.connectionState = "missing_token"]
    <2>1. InOrder(c)
        BY CancellingKeeps
    <2> HIDE DEF c
    <2>2. /\ q \in Bridges /\ q.sockets = c.sockets /\ q.probe = c.probe
          /\ q.desktopSocket = c.desktopSocket
        BY <2>1 DEF InOrder, Bridges, States
    <2> HIDE DEF q
    <2>3. InOrder(q)
        BY <2>1, <2>2, Redecorated
    <2> QED BY <1>1, <2>3, AfterCancelKeeps DEF Connect, c, q
<1>2. CASE b.pairToken # None
    <2> DEFINE q == Relinked(b)
    <2>1. InOrder(q) /\ q.probe = NoProbe /\ q.desktopSocket = NoSocket /\ HasRoom(q, Ports)
        BY RelinkingKeeps
    <2> HIDE DEF q
    <2>2. InOrder(StartProbe(q, "connect"))
        BY <2>1, StartingKeeps
    <2>3. InOrder(AfterCancel(b, StartProbe(q, "connect")))
        BY <2>2, AfterCancelKeeps
    <2> QED BY <1>2, <2>3 DEF Connect, Relinked, q
<1> QED BY <1>1, <1>2

\* What may start a probe does so too when nothing of the sockets has changed.
LEMMA RoomStays ==
    ASSUME NEW b \in Bridges, NEW q \in Bridges, InOrder(b), InOrder(q),
           q.sockets = b.sockets, q.probe.active = b.probe.active, CanProbe(b)
    PROVE  CanProbe(q)
<1>1. Closed(q, q.probe.active).sockets = Closed(b, b.probe.active).sockets
    <2>1. ASSUME NEW r \in Bridges
          PROVE  Closed(r, b.probe.active).sockets =
                    [s \in Sockets |-> IF s \notin b.probe.active THEN r.sockets[s]
                                       ELSE IF Unheard(r.sockets[s]) THEN Unused
                                       ELSE Silenced(r.sockets[s])]
        BY DEF Closed, Bridges, Silenced
    <2> DEFINE f(sockets) == [s \in Sockets |->
            IF s \notin b.probe.active THEN sockets[s]
            ELSE IF Unheard(sockets[s]) THEN Unused ELSE Silenced(sockets[s])]
    <2>2. Closed(b, b.probe.active).sockets = f(b.sockets)
        BY <2>1
    <2>3. Closed(q, b.probe.active).sockets = f(q.sockets)
        BY <2>1
    <2> HIDE DEF f
    <2> QED BY <2>2, <2>3
<1>2. CancelProbe(q).sockets = CancelProbe(b).sockets
    BY <1>1, CancellingKeeps
<1> QED BY <1>2 DEF CanProbe, HasRoom, Free

\* Storage: a setting is written, and the change is on its way.
LEMMA SavingKeeps ==
    ASSUME NEW b, InOrder(b), NEW key, NEW value, [key |-> key, value |-> value] \in Changes
    PROVE  /\ InOrder(Saved(b, key, value))
           /\ InOrder(SavedAside(b, key, value))
           /\ SavedAside(b, key, value).probe = b.probe
           /\ SavedAside(b, key, value).desktopSocket = b.desktopSocket
           /\ SavedAside(b, key, value).sockets = b.sockets
<1> DEFINE change == [key |-> key, value |-> value]
           st == [b.stored EXCEPT ![key] = value]
           sv == Append(b.saves, key)
           ch == Append(b.changes, change)
           p == [b EXCEPT !.stored = st, !.saves = sv, !.changes = ch]
           q == [b EXCEPT !.stored = st, !.changes = ch]
<1>b. b \in Bridges /\ b.stored \in Stored /\ b.saves \in Seq(Settings) /\ b.changes \in Seq(Changes)
    BY DEF InOrder, Bridges
<1>1. /\ \/ key = "pairToken" /\ value \in Keys \cup {None}
         \/ key = "serverUrl" /\ value \in Ports
         \/ key = "shouldAutoSelectPort" /\ value \in BOOLEAN
    BY DEF Changes
<1>2. st \in Stored
    BY <1>b, <1>1 DEF Stored
<1>3. sv \in Seq(Settings) /\ ch \in Seq(Changes)
    BY <1>b, <1>1, AppendProperties DEF Settings
<1>4. Saved(b, key, value) = p /\ SavedAside(b, key, value) = q
    BY <1>b DEF Saved, SavedAside, Bridges
<1> HIDE DEF st, sv, ch
<1>5. /\ p \in Bridges /\ p.sockets = b.sockets /\ p.probe = b.probe
      /\ p.desktopSocket = b.desktopSocket
    BY <1>b, <1>2, <1>3 DEF Bridges
<1>6. /\ q \in Bridges /\ q.sockets = b.sockets /\ q.probe = b.probe
      /\ q.desktopSocket = b.desktopSocket
    BY <1>b, <1>2, <1>3 DEF Bridges
<1> HIDE DEF p, q
<1>7. InOrder(p)
    BY <1>5, Redecorated
<1>8. InOrder(q)
    BY <1>6, Redecorated
<1> QED BY <1>4, <1>6, <1>7, <1>8

LEMMA RememberingKeeps ==
    ASSUME NEW b, InOrder(b), NEW url \in Ports
    PROVE  /\ InOrder(RememberUrl(b, url))
           /\ RememberUrl(b, url).probe = b.probe
           /\ RememberUrl(b, url).desktopSocket = b.desktopSocket
           /\ RememberUrl(b, url).sockets = b.sockets
<1> DEFINE q == [b EXCEPT !.serverUrl = url]
<1>1. /\ q \in Bridges /\ q.sockets = b.sockets /\ q.probe = b.probe
      /\ q.desktopSocket = b.desktopSocket
    BY DEF InOrder, Bridges
<1>2. [key |-> "serverUrl", value |-> url] \in Changes
    BY DEF Changes
<1> HIDE DEF q
<1>3. InOrder(q)
    BY <1>1, Redecorated
<1>4. /\ InOrder(SavedAside(q, "serverUrl", url))
      /\ SavedAside(q, "serverUrl", url).probe = q.probe
      /\ SavedAside(q, "serverUrl", url).desktopSocket = q.desktopSocket
      /\ SavedAside(q, "serverUrl", url).sockets = q.sockets
    BY <1>2, <1>3, SavingKeeps
<1>5. RememberUrl(b, url) = IF url = b.serverUrl THEN b ELSE SavedAside(q, "serverUrl", url)
    BY DEF RememberUrl, q
<1> QED BY <1>1, <1>4, <1>5

LEMMA SettingTokenKeeps ==
    ASSUME NEW b, InOrder(b), NEW token \in Keys \cup {None}
    PROVE  InOrder(SetToken(b, token))
<1> DEFINE q == [b EXCEPT !.pairToken = token]
<1>1. /\ q \in Bridges /\ q.sockets = b.sockets /\ q.probe = b.probe
      /\ q.desktopSocket = b.desktopSocket
    BY DEF InOrder, Bridges
<1>2. [key |-> "pairToken", value |-> token] \in Changes
    BY DEF Changes
<1> HIDE DEF q
<1>3. InOrder(Saved(q, "pairToken", token))
    BY <1>1, <1>2, Redecorated, SavingKeeps
<1> QED BY <1>3 DEF SetToken, q

\* The connection is closed and the state says why.
LEMMA DroppingKeeps ==
    ASSUME NEW b, InOrder(b), NEW state \in States
    PROVE  InOrder([Closed(b, {b.desktopSocket}) EXCEPT !.desktopSocket = NoSocket,
                                                       !.connectionState = state])
<1> DEFINE u == Unlinked(b)
           q == [u EXCEPT !.connectionState = state]
           c == Closed(b, {b.desktopSocket})
<1>1. InOrder(u) /\ u.desktopSocket = NoSocket
    BY UnlinkingKeeps
<1>2. c \in Bridges
    BY ClosedSockets DEF InOrder
<1>3. u = [c EXCEPT !.desktopSocket = NoSocket]
    BY DEF Unlinked
<1> HIDE DEF c, u
<1>4. q = [c EXCEPT !.desktopSocket = NoSocket, !.connectionState = state]
    BY <1>2, <1>3 DEF Bridges
<1>5. /\ q \in Bridges /\ q.sockets = u.sockets /\ q.probe = u.probe
      /\ q.desktopSocket = u.desktopSocket
    BY <1>1 DEF InOrder, Bridges
<1> HIDE DEF q
<1>6. InOrder(q)
    BY <1>1, <1>5, Redecorated
<1> QED BY <1>4, <1>6 DEF c

\* The rest of setToken and of setServerUrl.
LEMMA AfterSaveKeeps ==
    ASSUME NEW b, InOrder(b), CanProbe(b), NEW key
    PROVE  InOrder(AfterSave(b, key))
<1>1. InOrder(Connect(b, TRUE))
    BY ConnectKeeps
<1>2. InOrder([Closed(b, {b.desktopSocket}) EXCEPT !.desktopSocket = NoSocket,
                                                  !.connectionState = "missing_token"])
    BY DroppingKeeps DEF States
<1> QED BY <1>1, <1>2 DEF AfterSave

-----------------------------------------------------------------------------
(* The listeners of a socket.                                              *)

LEMMA OnDesktopMessageKeeps ==
    ASSUME NEW b, InOrder(b), NEW m
    PROVE  InOrder(OnDesktopMessage(b, m))
<1> DEFINE q == [b EXCEPT !.connectionState = "connected"]
<1>1. /\ q \in Bridges /\ q.sockets = b.sockets /\ q.probe = b.probe
      /\ q.desktopSocket = b.desktopSocket
    BY DEF InOrder, Bridges, States
<1> HIDE DEF q
<1>2. InOrder(q)
    BY <1>1, Redecorated
<1>3. InOrder([Closed(b, {b.desktopSocket}) EXCEPT !.desktopSocket = NoSocket,
                                                  !.connectionState = "unauthorized"])
    BY DroppingKeeps DEF States
<1> QED BY <1>2, <1>3 DEF OnDesktopMessage, q

\* One probe becomes the connection and the others are closed.
LEMMA AdoptingKeeps ==
    ASSUME NEW b, InOrder(b), NEW s \in b.probe.active, b.probe.kind = "connect"
    PROVE  InOrder(Adopt(b, s))
<1> DEFINE c == Closed(b, b.probe.active \ {s})
           q == Adopt(b, s)
<1>1. /\ c \in Bridges /\ Clean(c.sockets)
      /\ \A t \in Sockets : c.sockets[t].mine =
            IF t \in b.probe.active \ {s} THEN "none" ELSE b.sockets[t].mine
    BY ClosingKeeps DEF InOrder
<1>2. s \in Sockets /\ b.desktopSocket = NoSocket
    BY DEF InOrder, Bridges, Probe, Apart
<1>3. q = [c EXCEPT !.probe = NoProbe, !.desktopSocket = s]
    BY DEF Adopt
<1> HIDE DEF c, q
<1>4. /\ q \in Bridges /\ q.probe = NoProbe /\ q.desktopSocket = s /\ q.sockets = c.sockets
    BY <1>1, <1>2, <1>3, SocketFacts DEF Bridges
<1>5. NoProbe.active = {} /\ NoProbe.kind = "none"
    BY DEF NoProbe
<1>6. Owned(q) /\ Apart(q)
    <2>1. \A t \in Sockets : b.sockets[t].mine # "none" <=> t \in b.probe.active
        BY <1>2, SocketFacts DEF InOrder, Owned
    <2> QED BY <1>1, <1>2, <1>4, <1>5, <2>1 DEF Owned, Apart
<1> QED BY <1>1, <1>4, <1>6 DEF InOrder, q

LEMMA OnMessageKeeps ==
    ASSUME NEW b, InOrder(b), NEW s \in Sockets, NEW m \in Message
    PROVE  InOrder(OnMessage(b, s, m))
<1> DEFINE port == PortOf(s)
           r == RememberUrl(b, port)
           c == CancelProbe(r)
           q == [c EXCEPT !.shouldRetryPairing = FALSE]
<1>b. b.probe.reached \in BOOLEAN /\ port \in Ports
    BY SocketFacts DEF InOrder, Bridges, Probe
<1>1. InOrder(OnDesktopMessage(b, m))
    BY OnDesktopMessageKeeps
<1>2. ASSUME s \in b.probe.active, b.probe.kind = "connect"
      PROVE  InOrder(OnDesktopMessage(RememberUrl(Adopt(b, s), port), m))
    BY <1>b, <1>2, AdoptingKeeps, RememberingKeeps, OnDesktopMessageKeeps
<1>3. InOrder(c)
    BY <1>b, RememberingKeeps, CancellingKeeps
<1> HIDE DEF c
<1>4. InOrder(PairingFailed(c, b.probe.reached))
    BY <1>b, <1>3, FailingKeeps
<1>5. /\ q \in Bridges /\ q.sockets = c.sockets /\ q.probe = c.probe
      /\ q.desktopSocket = c.desktopSocket
    BY <1>3 DEF InOrder, Bridges
<1> HIDE DEF q
<1>6. InOrder(q)
    BY <1>3, <1>5, Redecorated
<1>7. ASSUME m.is = "paired" PROVE InOrder(SetToken(q, m.token))
    <2> m.token \in Keys \cup {None}
        BY <1>7 DEF Message
    <2> QED BY <1>6, SettingTokenKeeps
<1> QED BY <1>1, <1>2, <1>4, <1>7 DEF OnMessage, port, r, c, q

\* The ends of the sockets at the program and what is on the way may change.
LEMMA RewiringKeeps ==
    ASSUME NEW b, InOrder(b), NEW f \in [Sockets -> Socket], Clean(f),
           \A s \in Sockets : f[s].mine = "none" <=> b.sockets[s].mine = "none"
    PROVE  InOrder(WithSockets(b, f)) /\ WithSockets(b, f).sockets = f
<1> DEFINE q == WithSockets(b, f)
<1>1. /\ q \in Bridges /\ q.sockets = f /\ q.probe = b.probe
      /\ q.desktopSocket = b.desktopSocket
    BY DEF WithSockets, InOrder, Bridges
<1> HIDE DEF q
<1>2. InOrder(q)
    BY <1>1 DEF InOrder, Owned, Apart
<1> QED BY <1>1, <1>2 DEF q

CleanAt(socket) ==
    /\ socket.mine = "none" => socket.in = <<>>
    /\ socket.theirs = "none" => socket.out = <<>> /\ ~socket.authenticated /\ ~socket.asks

LEMMA RewiringOneKeeps ==
    ASSUME NEW b, InOrder(b), NEW s \in Sockets, NEW socket \in Socket, CleanAt(socket),
           socket.mine = "none" <=> b.sockets[s].mine = "none"
    PROVE  /\ InOrder(WithSockets(b, [b.sockets EXCEPT ![s] = socket]))
           /\ WithSockets(b, [b.sockets EXCEPT ![s] = socket]).sockets
                = [b.sockets EXCEPT ![s] = socket]
<1> DEFINE f == [b.sockets EXCEPT ![s] = socket]
<1>1. b.sockets \in [Sockets -> Socket] /\ Clean(b.sockets)
    BY DEF InOrder, Bridges
<1>2. f \in [Sockets -> Socket] /\ f[s] = socket /\ \A t \in Sockets \ {s} : f[t] = b.sockets[t]
    BY <1>1
<1> HIDE DEF f
<1>3. Clean(f)
    BY <1>1, <1>2 DEF Clean, CleanAt
<1>4. InOrder(WithSockets(b, f)) /\ WithSockets(b, f).sockets = f
    BY <1>2, <1>3, RewiringKeeps
<1> QED BY <1>4 DEF f

LEMMA SendingKeeps ==
    ASSUME NEW b, InOrder(b), NEW s \in Sockets, NEW m \in Message,
           b.sockets[s].theirs # "none"
    PROVE  InOrder(Send(b, s, m))
<1> DEFINE x == [b.sockets[s] EXCEPT !.out = Append(@, m)]
<1>1. b \in Bridges /\ b.sockets \in [Sockets -> Socket] /\ b.sockets[s] \in Socket
      /\ Clean(b.sockets)
    BY DEF InOrder, Bridges
<1>2. Append(b.sockets[s].out, m) \in Seq(Message)
    BY <1>1, AppendProperties DEF Socket
<1>3. x \in Socket /\ CleanAt(x) /\ x.mine = b.sockets[s].mine
    BY <1>1, <1>2 DEF Socket, Clean, CleanAt
<1>4. Send(b, s, m) = WithSockets(b, [b.sockets EXCEPT ![s] = x])
    BY <1>1 DEF Send, WithSockets, Bridges
<1> HIDE DEF x
<1> QED BY <1>3, <1>4, RewiringOneKeeps

\* The messages the bridge sends when a socket opens.
LEMMA OnOpenKeeps ==
    ASSUME NEW b, InOrder(b), NEW s \in Sockets, b.sockets[s].theirs # "none"
    PROVE  InOrder(OnOpen(b, s))
<1> DEFINE pr == [b.probe EXCEPT !.reached = TRUE,
                                 !.headStart = @ /\ PortOf(s) # b.probe.primary]
           p == [b EXCEPT !.probe = pr]
           q == [b EXCEPT !.connectionState = IF @ = "connecting" THEN "authenticating" ELSE @]
           hello == [is |-> "hello", token |-> b.pairToken]
<1>b. b \in Bridges /\ b.probe \in Probe /\ b.pairToken \in Keys \cup {None}
    BY DEF InOrder, Bridges
<1>1. [is |-> "pair"] \in Message /\ hello \in Message
    BY <1>b DEF Message
<1>2. pr \in Probe /\ pr.active = b.probe.active /\ pr.kind = b.probe.kind
    BY <1>b DEF Probe
<1>3. OnOpen(b, s) = IF b.probe.kind = "pair" THEN Send(p, s, [is |-> "pair"])
                     ELSE Send(q, s, hello)
    BY <1>b DEF OnOpen, Bridges, Probe
<1> HIDE DEF pr
<1>4. /\ p \in Bridges /\ p.sockets = b.sockets /\ p.probe = pr
      /\ p.desktopSocket = b.desktopSocket
    BY <1>b, <1>2 DEF Bridges
<1>5. /\ q \in Bridges /\ q.sockets = b.sockets /\ q.probe = b.probe
      /\ q.desktopSocket = b.desktopSocket
    BY <1>b DEF Bridges, States
<1> HIDE DEF p, q, hello
<1>6. InOrder(p)
    BY <1>2, <1>4, Redecorated
<1>7. InOrder(q)
    BY <1>5, Redecorated
<1>8. InOrder(Send(p, s, [is |-> "pair"]))
    BY <1>1, <1>4, <1>6, SendingKeeps
<1>9. InOrder(Send(q, s, hello))
    BY <1>1, <1>5, <1>7, SendingKeeps
<1> QED BY <1>3, <1>8, <1>9

LEMMA SchedulingKeeps ==
    ASSUME NEW b, InOrder(b)
    PROVE  InOrder(ScheduleReconnect(b))
<1> DEFINE q == ScheduleReconnect(b)
<1>1. /\ q \in Bridges /\ q.sockets = b.sockets /\ q.probe = b.probe
      /\ q.desktopSocket = b.desktopSocket
    BY DEF ScheduleReconnect, InOrder, Bridges
<1> HIDE DEF q
<1> QED BY <1>1, Redecorated DEF q

LEMMA OnConnectionClosedKeeps ==
    ASSUME NEW b, InOrder(b), NEW failed \in BOOLEAN
    PROVE  InOrder(OnConnectionClosed(b, b.desktopSocket, failed))
<1> DEFINE state == IF failed /\ b.connectionState # "unauthorized" THEN "disconnected"
                    ELSE b.connectionState
           c == Closed(b, {b.desktopSocket})
           after == [c EXCEPT !.desktopSocket = NoSocket, !.connectionState = state]
           q == [after EXCEPT !.connectionState = "disconnected"]
<1>1. state \in States
    BY DEF InOrder, Bridges, States
<1>2. InOrder(after)
    <2> HIDE DEF state
    <2> QED BY <1>1, DroppingKeeps
<1>3. c \in Bridges /\ c.connectionState = b.connectionState
    BY ClosedSockets, ClosingFields DEF InOrder
<1>4. OnConnectionClosed(b, b.desktopSocket, failed) =
        IF after.connectionState \in Halted THEN after ELSE ScheduleReconnect(q)
    <2> HIDE DEF c
    <2>1. after = [c EXCEPT !.desktopSocket = NoSocket,
                            !.connectionState = IF failed /\ @ # "unauthorized" THEN "disconnected"
                                                ELSE @]
        BY <1>3 DEF Bridges
    <2> HIDE DEF after
    <2> QED BY <2>1 DEF OnConnectionClosed, c
<1> HIDE DEF after
<1>5. /\ q \in Bridges /\ q.sockets = after.sockets /\ q.probe = after.probe
      /\ q.desktopSocket = after.desktopSocket
    BY <1>2 DEF InOrder, Bridges, States
<1> HIDE DEF q
<1>6. InOrder(ScheduleReconnect(q))
    BY <1>2, <1>5, Redecorated, SchedulingKeeps
<1> QED BY <1>2, <1>4, <1>6

\* A probe has failed; whether it was the last is seen next.
Bereft(b, s) ==
    LET primary == PortOf(s) = b.probe.primary /\ (b.probe.kind = "connect" \/ ~b.probe.reached)
        without == [Closed(b, {s}) EXCEPT !.probe.active = @ \ {s}]
    IN  IF primary THEN StartFallbacks(without) ELSE without

LEMMA LosingAProbeKeeps ==
    ASSUME NEW b, InOrder(b), CanFallBack(b), NEW s \in b.probe.active
    PROVE  InOrder(Bereft(b, s))
<1> DEFINE primary == PortOf(s) = b.probe.primary /\ (b.probe.kind = "connect" \/ ~b.probe.reached)
           c == Closed(b, {s})
           pr == [b.probe EXCEPT !.active = @ \ {s}]
           without == [c EXCEPT !.probe.active = @ \ {s}]
           after == IF primary THEN StartFallbacks(without) ELSE without
<1>b. b \in Bridges /\ b.probe \in Probe
    BY DEF InOrder, Bridges
<1>1. /\ c \in Bridges /\ Clean(c.sockets) /\ c.probe = b.probe /\ c.desktopSocket = b.desktopSocket
      /\ \A t \in Sockets : c.sockets[t].mine = IF t = s THEN "none" ELSE b.sockets[t].mine
      /\ \A P \in SUBSET Ports : HasRoom(b, P) => HasRoom(c, P)
    BY ClosingKeeps, ClosingFields DEF InOrder
<1> HIDE DEF c
<1>2. pr \in Probe /\ pr.active = b.probe.active \ {s} /\ pr.kind = b.probe.kind
      /\ pr.fallbacks = b.probe.fallbacks
    BY <1>b DEF Probe
<1>3. without = [c EXCEPT !.probe = pr]
    BY <1>1 DEF Bridges, Probe
<1> HIDE DEF pr, without
<1>4. /\ without \in Bridges /\ without.probe = pr /\ without.sockets = c.sockets
      /\ without.desktopSocket = c.desktopSocket
    BY <1>1, <1>2, <1>3 DEF Bridges
<1>5. InOrder(without)
    <2>1. s # b.desktopSocket
        BY DEF InOrder, Apart
    <2>2. Owned(without)
        BY <1>1, <1>2, <1>4, <2>1 DEF InOrder, Owned
    <2>3. Apart(without)
        BY <1>1, <1>2, <1>4 DEF InOrder, Apart
    <2> QED BY <1>1, <1>4, <2>2, <2>3 DEF InOrder
<1>6. CanFallBack(without)
    <2>1. HasRoom(c, b.probe.fallbacks)
        <3> b.probe.fallbacks \in SUBSET Ports
            BY <1>b DEF Probe
        <3> QED BY <1>1 DEF CanFallBack
    <2> QED BY <1>2, <1>4, <2>1 DEF CanFallBack, HasRoom, Free
<1>7. InOrder(after)
    BY <1>5, <1>6, FallingBackKeeps
<1> QED BY <1>7 DEF Bereft, after, without, c

LEMMA OnProbeFailedKeeps ==
    ASSUME NEW b, InOrder(b), CanFallBack(b), NEW s \in b.probe.active
    PROVE  InOrder(OnProbeFailed(b, s))
<1> DEFINE after == Bereft(b, s)
           q == [after EXCEPT !.probe = NoProbe, !.connectionState = "disconnected"]
<1>b. b.probe.reached \in BOOLEAN
    BY DEF InOrder, Bridges, Probe
<1>1. InOrder(after)
    BY LosingAProbeKeeps
<1>2. OnProbeFailed(b, s) =
        IF after.probe.active # {} THEN after
        ELSE IF b.probe.kind = "pair" THEN PairingFailed(CancelProbe(after), b.probe.reached)
        ELSE IF b.connectionState \in Halted THEN after
        ELSE ScheduleReconnect(q)
    BY DEF OnProbeFailed, Bereft
<1> HIDE DEF after
<1>3. InOrder(PairingFailed(CancelProbe(after), b.probe.reached))
    BY <1>b, <1>1, CancellingKeeps, FailingKeeps
<1>4. ASSUME after.probe.active = {} PROVE InOrder(ScheduleReconnect(q))
    <2>1. /\ q \in Bridges /\ q.sockets = after.sockets /\ q.probe = NoProbe
          /\ q.desktopSocket = after.desktopSocket
        BY <1>1, SocketFacts DEF InOrder, Bridges, States
    <2> HIDE DEF q
    <2>2. NoProbe.active = {} /\ NoProbe.kind = "none"
        BY DEF NoProbe
    <2>3. InOrder(q)
        BY <1>1, <1>4, <2>1, <2>2 DEF InOrder, Owned, Apart
    <2> QED BY <2>3, SchedulingKeeps
<1> QED BY <1>1, <1>2, <1>3, <1>4

LEMMA OnCloseKeeps ==
    ASSUME NEW b, InOrder(b), CanFallBack(b), NEW s \in Sockets, NEW failed \in BOOLEAN
    PROVE  InOrder(OnClose(b, s, failed))
<1>1. CASE s = b.desktopSocket
    BY <1>1, OnConnectionClosedKeeps DEF OnClose
<1>2. CASE s # b.desktopSocket /\ s \in b.probe.active
    BY <1>2, OnProbeFailedKeeps DEF OnClose
<1>3. CASE s # b.desktopSocket /\ s \notin b.probe.active
    <2> DEFINE c == Closed(b, {s})
    <2>1. /\ c \in Bridges /\ Clean(c.sockets) /\ c.probe = b.probe /\ c.desktopSocket = b.desktopSocket
          /\ \A t \in Sockets : c.sockets[t].mine = IF t = s THEN "none" ELSE b.sockets[t].mine
        BY ClosingKeeps, ClosingFields DEF InOrder
    <2> HIDE DEF c
    <2>2. b.sockets[s].mine = "none"
        BY <1>3 DEF InOrder, Owned
    <2>3. InOrder(c)
        BY <2>1, <2>2 DEF InOrder, Owned, Apart
    <2> QED BY <1>3, <2>3 DEF OnClose, c
<1> QED BY <1>1, <1>2, <1>3

LEMMA OnChangeKeeps ==
    ASSUME NEW b, InOrder(b), CanProbe(b), NEW change \in Changes
    PROVE  InOrder(OnChange(b, change))
<1> DEFINE q == [b EXCEPT ![change.key] = change.value]
<1>b. b \in Bridges
    BY DEF InOrder
<1>1. /\ q \in Bridges /\ q.sockets = b.sockets /\ q.probe = b.probe
      /\ q.desktopSocket = b.desktopSocket
    <2>1. CASE change.key = "pairToken" /\ change.value \in Keys \cup {None}
        <3> q = [b EXCEPT !.pairToken = change.value]
            BY <2>1
        <3> QED BY <1>b, <2>1 DEF Bridges
    <2>2. CASE change.key = "serverUrl" /\ change.value \in Ports
        <3> q = [b EXCEPT !.serverUrl = change.value]
            BY <2>2
        <3> QED BY <1>b, <2>2 DEF Bridges
    <2>3. CASE change.key = "shouldAutoSelectPort" /\ change.value \in BOOLEAN
        <3> q = [b EXCEPT !.shouldAutoSelectPort = change.value]
            BY <2>3
        <3> QED BY <1>b, <2>3 DEF Bridges
    <2> QED BY <2>1, <2>2, <2>3 DEF Changes
<1> HIDE DEF q
<1>2. InOrder(q)
    BY <1>1, Redecorated
<1>3. InOrder(Connect(q, TRUE))
    BY <1>b, <1>1, <1>2, RoomStays, ConnectKeeps
<1> QED BY <1>2, <1>3 DEF OnChange, q

\* The start of the service worker.
Started(stored, sockets) ==
    [pairToken |-> stored.pairToken, serverUrl |-> stored.serverUrl,
     shouldAutoSelectPort |-> stored.shouldAutoSelectPort,
     connectionState |-> "missing_token", desktopSocket |-> NoSocket, probe |-> NoProbe,
     reconnectTimer |-> FALSE, shouldRetryPairing |-> FALSE,
     sockets |-> sockets, stored |-> stored, saves |-> <<>>, changes |-> <<>>]

LEMMA BeginningKeeps ==
    ASSUME NEW stored \in Stored, NEW sockets \in [Sockets -> Socket], Clean(sockets),
           \A s \in Sockets : sockets[s].mine = "none",
           \A port \in Ports : \E n \in 1..MaxSockets : sockets[<<port, n>>] = Unused
    PROVE  InOrder(Started(stored, sockets)) /\ CanProbe(Started(stored, sockets))
<1> DEFINE b == Started(stored, sockets)
<1>1. /\ b \in Bridges /\ b.sockets = sockets /\ b.probe = NoProbe /\ b.desktopSocket = NoSocket
    <2> /\ <<>> \in Seq(Settings) /\ <<>> \in Seq(Changes)
        BY EmptySeq
    <2> QED BY SocketFacts DEF Bridges, Stored, States, Started
<1> HIDE DEF b
<1>2. NoProbe.active = {} /\ NoProbe.kind = "none"
    BY DEF NoProbe
<1>3. InOrder(b)
    BY <1>1, <1>2, SocketFacts DEF InOrder, Owned, Apart
<1>4. CanProbe(b)
    <2>1. CancelProbe(b).sockets = Closed(b, {}).sockets
        BY <1>1, <1>2, <1>3, CancellingKeeps
    <2>2. \A s \in Sockets : Closed(b, {}).sockets[s] = sockets[s]
        BY <1>1, ClosedSockets
    <2>3. ASSUME NEW port \in Ports PROVE Free(CancelProbe(b), port) # {}
        <3>1. PICK n \in 1..MaxSockets : sockets[<<port, n>>] = Unused
            OBVIOUS
        <3>2. <<port, n>> \in Sockets
            BY DEF Sockets
        <3> QED BY <2>1, <2>2, <3>1, <3>2 DEF Free
    <2> QED BY <2>3 DEF CanProbe, HasRoom
<1> QED BY <1>3, <1>4 DEF b

LEMMA SetupKeeps ==
    ASSUME NEW stored \in Stored, NEW sockets \in [Sockets -> Socket], Clean(sockets),
           \A s \in Sockets : sockets[s].mine = "none",
           \A port \in Ports : \E n \in 1..MaxSockets : sockets[<<port, n>>] = Unused
    PROVE  InOrder(Setup(stored, sockets))
<1> DEFINE b == Started(stored, sockets)
<1>1. InOrder(b) /\ CanProbe(b)
    BY BeginningKeeps
<1>2. Setup(stored, sockets) = IF b.pairToken = None THEN RequestPairing(b) ELSE Connect(b, FALSE)
    BY DEF Setup, Started
<1> HIDE DEF b
<1>3. InOrder(RequestPairing(b)) /\ InOrder(Connect(b, FALSE))
    BY <1>1, RequestPairingKeeps, ConnectKeeps
<1> QED BY <1>2, <1>3

-----------------------------------------------------------------------------
(* The program changes its own end and what is on the way.                 *)

Tidy(sockets) == sockets \in [Sockets -> Socket] /\ Clean(sockets)
SameEnds(f, g) == \A s \in Sockets : f[s].mine = g[s].mine

LEMMA RewiredKeeps ==
    ASSUME NEW b, InOrder(b), NEW f, Tidy(f), SameEnds(f, b.sockets)
    PROVE  InOrder([b EXCEPT !.sockets = f])
<1>1. InOrder(WithSockets(b, f))
    BY RewiringKeeps DEF Tidy, SameEnds
<1> QED BY <1>1 DEF WithSockets

LEMMA OneIsTidy ==
    ASSUME NEW g, Tidy(g), NEW s \in Sockets, NEW x \in Socket, CleanAt(x), x.mine = g[s].mine
    PROVE  /\ Tidy([g EXCEPT ![s] = x]) /\ SameEnds([g EXCEPT ![s] = x], g)
           /\ [g EXCEPT ![s] = x][s] = x
<1> DEFINE f == [g EXCEPT ![s] = x]
<1>1. f \in [Sockets -> Socket] /\ f[s] = x /\ \A t \in Sockets \ {s} : f[t] = g[t]
    BY DEF Tidy
<1> HIDE DEF f
<1>2. Clean(f) /\ SameEnds(f, g)
    BY <1>1 DEF Tidy, Clean, CleanAt, SameEnds
<1> QED BY <1>1, <1>2 DEF f, Tidy

\* A socket that is in order with the changes the program makes to it.
LEMMA SocketIsTidy ==
    ASSUME NEW g, Tidy(g), NEW s \in Sockets
    PROVE  g[s] \in Socket /\ CleanAt(g[s])
BY DEF Tidy, Clean, CleanAt

\* _send
LEMMA AnsweringIsTidy ==
    ASSUME NEW g, Tidy(g), NEW s \in Sockets, NEW m \in Message
    PROVE  /\ Tidy(Answered(g, s, m)) /\ SameEnds(Answered(g, s, m), g)
           /\ Answered(g, s, m)[s] \in Socket
<1> DEFINE x == [g[s] EXCEPT !.in = Append(@, m)]
<1>1. g[s] \in Socket /\ CleanAt(g[s])
    BY SocketIsTidy
<1>2. CASE g[s].theirs = "open" /\ g[s].mine = "open"
    <2>1. Append(g[s].in, m) \in Seq(Message)
        BY <1>1, AppendProperties DEF Socket
    <2>2. x \in Socket /\ CleanAt(x) /\ x.mine = g[s].mine
        BY <1>1, <1>2, <2>1 DEF Socket, CleanAt
    <2>3. Answered(g, s, m) = [g EXCEPT ![s] = x]
        BY <1>2 DEF Answered
    <2> HIDE DEF x
    <2>4. /\ Tidy([g EXCEPT ![s] = x]) /\ SameEnds([g EXCEPT ![s] = x], g)
          /\ [g EXCEPT ![s] = x][s] = x
        BY <2>2, OneIsTidy
    <2> QED BY <2>2, <2>3, <2>4
<1>3. CASE ~(g[s].theirs = "open" /\ g[s].mine = "open")
    BY <1>1, <1>3 DEF Answered, SameEnds
<1> QED BY <1>2, <1>3

-----------------------------------------------------------------------------
(* Each step keeps the bridge in order.                                    *)

\* Before the first socket.
LEMMA UnusedSockets ==
    /\ [s \in Sockets |-> Unused] \in [Sockets -> Socket]
    /\ Clean([s \in Sockets |-> Unused])
    /\ \A s \in Sockets : [t \in Sockets |-> Unused][s].mine = "none"
    /\ \A port \in Ports : \E n \in 1..MaxSockets :
           [s \in Sockets |-> Unused][<<port, n>>] = Unused
<1> DEFINE sockets == [s \in Sockets |-> Unused]
<1>1. sockets \in [Sockets -> Socket] /\ Clean(sockets)
    BY SocketFacts DEF Clean, Unused
<1>2. \A s \in Sockets : sockets[s].mine = "none"
    BY DEF Unused
<1>3. \A port \in Ports : \E n \in 1..MaxSockets : sockets[<<port, n>>] = Unused
    <2> SUFFICES ASSUME NEW port \in Ports
                 PROVE  \E n \in 1..MaxSockets : sockets[<<port, n>>] = Unused
        OBVIOUS
    <2>1. 1 \in 1..MaxSockets
        BY BridgeAssumption
    <2>2. <<port, 1>> \in Sockets
        BY <2>1 DEF Sockets
    <2> QED BY <2>1, <2>2
<1> QED BY <1>1, <1>2, <1>3

LEMMA InitBridgeInv == Init => BridgeInv
<1> SUFFICES ASSUME Init PROVE BridgeInv
    OBVIOUS
<1>1. desktop \in [port : Ports \cup {None}, key : Keys]
    <2>1. (CHOOSE key \in Keys : TRUE) \in Keys
        BY BridgeAssumption
    <2> QED BY <2>1 DEF Init
<1>2. PICK token \in {None, desktop.key}, auto \in BOOLEAN :
           bridge = Setup([pairToken |-> token, serverUrl |-> DefaultPort,
                           shouldAutoSelectPort |-> auto],
                          [s \in Sockets |-> Unused])
    BY DEF Init
<1> DEFINE stored == [pairToken |-> token, serverUrl |-> DefaultPort,
                      shouldAutoSelectPort |-> auto]
           sockets == [s \in Sockets |-> Unused]
<1>3. stored \in Stored
    BY <1>1, BridgeAssumption DEF Stored
<1>4. /\ sockets \in [Sockets -> Socket] /\ Clean(sockets)
      /\ \A s \in Sockets : sockets[s].mine = "none"
      /\ \A port \in Ports : \E n \in 1..MaxSockets : sockets[<<port, n>>] = Unused
    BY UnusedSockets
<1> HIDE DEF stored, sockets
<1>5. InOrder(Setup(stored, sockets))
    BY <1>3, <1>4, SetupKeeps
<1> QED BY <1>1, <1>2, <1>5 DEF BridgeInv, stored, sockets

\* Reading what is on the way to the bridge or to the program.
LEMMA ReadingIsTidy ==
    ASSUME NEW g, Tidy(g), NEW s \in Sockets
    PROVE  /\ g[s].in # <<>> => /\ Head(g[s].in) \in Message
                                /\ Tidy([g EXCEPT ![s].in = Tail(@)])
                                /\ SameEnds([g EXCEPT ![s].in = Tail(@)], g)
           /\ g[s].out # <<>> => /\ Head(g[s].out) \in Message
                                 /\ Tidy([g EXCEPT ![s].out = Tail(@)])
                                 /\ SameEnds([g EXCEPT ![s].out = Tail(@)], g)
                                 /\ [g EXCEPT ![s].out = Tail(@)][s].theirs = g[s].theirs
<1>1. g[s] \in Socket /\ CleanAt(g[s])
    BY SocketIsTidy
<1>2. ASSUME g[s].in # <<>>
      PROVE  /\ Head(g[s].in) \in Message
             /\ Tidy([g EXCEPT ![s].in = Tail(@)])
             /\ SameEnds([g EXCEPT ![s].in = Tail(@)], g)
    <2> DEFINE x == [g[s] EXCEPT !.in = Tail(@)]
    <2>1. Head(g[s].in) \in Message /\ Tail(g[s].in) \in Seq(Message)
        BY <1>1, <1>2, HeadTailProperties DEF Socket
    <2>2. x \in Socket /\ CleanAt(x) /\ x.mine = g[s].mine
        BY <1>1, <1>2, <2>1 DEF Socket, CleanAt
    <2> HIDE DEF x
    <2>3. Tidy([g EXCEPT ![s] = x]) /\ SameEnds([g EXCEPT ![s] = x], g)
        BY <2>2, OneIsTidy
    <2> QED BY <2>1, <2>3 DEF x
<1>3. ASSUME g[s].out # <<>>
      PROVE  /\ Head(g[s].out) \in Message
             /\ Tidy([g EXCEPT ![s].out = Tail(@)])
             /\ SameEnds([g EXCEPT ![s].out = Tail(@)], g)
             /\ [g EXCEPT ![s].out = Tail(@)][s].theirs = g[s].theirs
    <2> DEFINE x == [g[s] EXCEPT !.out = Tail(@)]
    <2>1. Head(g[s].out) \in Message /\ Tail(g[s].out) \in Seq(Message)
        BY <1>1, <1>3, HeadTailProperties DEF Socket
    <2>2. /\ x \in Socket /\ CleanAt(x) /\ x.mine = g[s].mine
          /\ x.theirs = g[s].theirs
        BY <1>1, <1>3, <2>1 DEF Socket, CleanAt
    <2> HIDE DEF x
    <2>3. /\ Tidy([g EXCEPT ![s] = x]) /\ SameEnds([g EXCEPT ![s] = x], g)
          /\ [g EXCEPT ![s] = x][s] = x
        BY <2>2, OneIsTidy
    <2> QED BY <2>1, <2>2, <2>3 DEF x
<1> QED BY <1>2, <1>3

LEMMA SocketEventBridgeInv == BridgeInv /\ SocketEvent => BridgeInv'
<1> SUFFICES ASSUME BridgeInv, NEW s \in Sockets,
                    SocketOpens(s) \/ SocketFails(s) \/ MessageArrives(s) \/ SocketCloses(s)
             PROVE  BridgeInv'
    BY DEF SocketEvent
<1>b. /\ InOrder(bridge) /\ bridge \in Bridges /\ Tidy(bridge.sockets)
      /\ bridge.sockets[s] \in Socket
    BY DEF BridgeInv, InOrder, Bridges, Tidy
<1>1. CASE SocketOpens(s)
    <2> DEFINE x == [bridge.sockets[s] EXCEPT !.mine = "open", !.theirs = "open"]
               q == WithSockets(bridge, [bridge.sockets EXCEPT ![s] = x])
    <2>1. x \in Socket /\ CleanAt(x) /\ x.theirs = "open"
          /\ (x.mine = "none" <=> bridge.sockets[s].mine = "none")
        BY <1>b, <1>1 DEF SocketOpens, Socket, CleanAt
    <2>2. [bridge EXCEPT !.sockets[s].mine = "open", !.sockets[s].theirs = "open"] = q
        BY <1>b DEF WithSockets, Bridges
    <2> HIDE DEF x
    <2>3. InOrder(q) /\ q.sockets = [bridge.sockets EXCEPT ![s] = x]
        BY <1>b, <2>1, RewiringOneKeeps
    <2>4. q.sockets[s].theirs # "none"
        BY <1>b, <2>1, <2>3 DEF Bridges
    <2> HIDE DEF q
    <2>5. InOrder(OnOpen(q, s))
        BY <2>3, <2>4, OnOpenKeeps
    <2> QED BY <1>1, <2>2, <2>5 DEF SocketOpens, Handle, BridgeInv
<1>2. CASE SocketFails(s)
    <2>1. InOrder(OnClose(bridge, s, TRUE))
        BY <1>b, <1>2, OnCloseKeeps DEF SocketFails
    <2> QED BY <1>2, <2>1 DEF SocketFails, Handle, BridgeInv
<1>3. CASE MessageArrives(s)
    <2> DEFINE f == [bridge.sockets EXCEPT ![s].in = Tail(@)]
               q == [bridge EXCEPT !.sockets = f]
    <2>1. [bridge EXCEPT !.sockets[s].in = Tail(@)] = q
        BY <1>b DEF Bridges
    <2>2. /\ Head(bridge.sockets[s].in) \in Message
          /\ Tidy(f) /\ SameEnds(f, bridge.sockets)
        BY <1>b, <1>3, ReadingIsTidy DEF MessageArrives
    <2> HIDE DEF f
    <2>3. InOrder(q)
        BY <1>b, <2>2, RewiredKeeps
    <2> HIDE DEF q
    <2>4. InOrder(OnMessage(q, s, Head(bridge.sockets[s].in)))
        BY <2>2, <2>3, OnMessageKeeps
    <2> QED BY <1>3, <2>1, <2>4 DEF MessageArrives, Handle, BridgeInv
<1>4. CASE SocketCloses(s)
    <2>1. \A failed \in BOOLEAN : InOrder(OnClose(bridge, s, failed))
        BY <1>b, <1>4, OnCloseKeeps DEF SocketCloses
    <2> QED BY <1>4, <2>1 DEF SocketCloses, Handle, BridgeInv
<1> QED BY <1>1, <1>2, <1>3, <1>4

LEMMA TimersBridgeInv ==
    BridgeInv /\ (HeadStartEnds \/ PairingTimesOut \/ ReconnectTimerFires \/ Alarm) => BridgeInv'
<1> SUFFICES ASSUME BridgeInv,
                    HeadStartEnds \/ PairingTimesOut \/ ReconnectTimerFires \/ Alarm
             PROVE  BridgeInv'
    OBVIOUS
<1>b. InOrder(bridge) /\ bridge \in Bridges /\ bridge.probe.reached \in BOOLEAN
    BY DEF BridgeInv, InOrder, Bridges, Probe
<1>1. CASE HeadStartEnds
    <2>1. InOrder(StartFallbacks(bridge))
        BY <1>b, <1>1, FallingBackKeeps DEF HeadStartEnds
    <2> QED BY <1>1, <2>1 DEF HeadStartEnds, Handle, BridgeInv
<1>2. CASE PairingTimesOut
    <2>1. InOrder(PairingFailed(CancelProbe(bridge), bridge.probe.reached))
        BY <1>b, CancellingKeeps, FailingKeeps
    <2> QED BY <1>2, <2>1 DEF PairingTimesOut, Handle, BridgeInv
<1>3. CASE ReconnectTimerFires
    <2> DEFINE q == [bridge EXCEPT !.reconnectTimer = FALSE]
    <2>1. /\ q \in Bridges /\ q.sockets = bridge.sockets /\ q.probe = bridge.probe
          /\ q.desktopSocket = bridge.desktopSocket
        BY <1>b DEF Bridges
    <2> HIDE DEF q
    <2>2. InOrder(q)
        BY <1>b, <2>1, Redecorated
    <2>3. CanProbe(q)
        BY <1>b, <1>3, <2>1, <2>2, RoomStays DEF ReconnectTimerFires
    <2>4. InOrder(Connect(q, FALSE))
        BY <2>2, <2>3, ConnectKeeps
    <2> QED BY <1>3, <2>4 DEF ReconnectTimerFires, Handle, BridgeInv, q
<1>4. CASE Alarm
    <2>1. InOrder(Connect(bridge, FALSE)) /\ InOrder(RequestPairing(bridge))
        BY <1>b, <1>4, ConnectKeeps, RequestPairingKeeps DEF Alarm
    <2> QED BY <1>4, <2>1 DEF Alarm, Handle, BridgeInv
<1> QED BY <1>1, <1>2, <1>3, <1>4

LEMMA StorageBridgeInv == BridgeInv /\ (SaveEnds \/ ChangeArrives) => BridgeInv'
<1> SUFFICES ASSUME BridgeInv, SaveEnds \/ ChangeArrives PROVE BridgeInv'
    OBVIOUS
<1>b. /\ InOrder(bridge) /\ bridge \in Bridges
      /\ bridge.saves \in Seq(Settings) /\ bridge.changes \in Seq(Changes)
    BY DEF BridgeInv, InOrder, Bridges
<1>1. CASE SaveEnds
    <2> DEFINE q == [bridge EXCEPT !.saves = Tail(@)]
    <2>1. Tail(bridge.saves) \in Seq(Settings)
        BY <1>b, <1>1, HeadTailProperties DEF SaveEnds
    <2>2. /\ q \in Bridges /\ q.sockets = bridge.sockets /\ q.probe = bridge.probe
          /\ q.desktopSocket = bridge.desktopSocket
        BY <1>b, <2>1 DEF Bridges
    <2> HIDE DEF q
    <2>3. InOrder(q)
        BY <1>b, <2>2, Redecorated
    <2>4. CanProbe(q)
        BY <1>b, <1>1, <2>2, <2>3, RoomStays DEF SaveEnds
    <2>5. InOrder(AfterSave(q, Head(bridge.saves)))
        BY <2>3, <2>4, AfterSaveKeeps
    <2> QED BY <1>1, <2>5 DEF SaveEnds, BridgeInv, q
<1>2. CASE ChangeArrives
    <2> DEFINE q == [bridge EXCEPT !.changes = Tail(@)]
    <2>1. Tail(bridge.changes) \in Seq(Changes) /\ Head(bridge.changes) \in Changes
        BY <1>b, <1>2, HeadTailProperties DEF ChangeArrives
    <2>2. /\ q \in Bridges /\ q.sockets = bridge.sockets /\ q.probe = bridge.probe
          /\ q.desktopSocket = bridge.desktopSocket
        BY <1>b, <2>1 DEF Bridges
    <2> HIDE DEF q
    <2>3. InOrder(q)
        BY <1>b, <2>2, Redecorated
    <2>4. CanProbe(q)
        BY <1>b, <1>2, <2>2, <2>3, RoomStays DEF ChangeArrives
    <2>5. InOrder(OnChange(q, Head(bridge.changes)))
        BY <2>1, <2>3, <2>4, OnChangeKeeps
    <2> QED BY <1>2, <2>5 DEF ChangeArrives, Handle, BridgeInv, q
<1> QED BY <1>1, <1>2

LEMMA RestartBridgeInv == BridgeInv /\ Restart => BridgeInv'
<1> SUFFICES ASSUME BridgeInv, Restart PROVE BridgeInv'
    OBVIOUS
<1> DEFINE c == Closed(bridge, Sockets)
<1>1. bridge \in Bridges /\ Clean(bridge.sockets) /\ bridge.stored \in Stored
    BY DEF BridgeInv, InOrder, Bridges
<1>2. /\ c \in Bridges /\ Clean(c.sockets)
      /\ \A s \in Sockets : c.sockets[s].mine = "none"
    BY <1>1, ClosingKeeps
<1>3. HasRoom(c, Ports)
    BY DEF Restart
<1> HIDE DEF c
<1>4. \A port \in Ports : \E n \in 1..MaxSockets : c.sockets[<<port, n>>] = Unused
    BY <1>3 DEF HasRoom, Free
<1>5. c.sockets \in [Sockets -> Socket]
    BY <1>2 DEF Bridges
<1>6. InOrder(Setup(bridge.stored, c.sockets))
    BY <1>1, <1>2, <1>4, <1>5, SetupKeeps
<1> QED BY <1>6 DEF Restart, BridgeInv, c

LEMMA UserBridgeInv == BridgeInv /\ User => BridgeInv'
<1> SUFFICES ASSUME BridgeInv, User PROVE BridgeInv'
    OBVIOUS
<1>b. InOrder(bridge) /\ bridge \in Bridges
    BY DEF BridgeInv, InOrder
<1>1. CASE Refresh
    <2>1. InOrder(Connect(bridge, TRUE))
        BY <1>b, <1>1, ConnectKeeps DEF Refresh, Command
    <2> QED BY <1>1, <2>1 DEF Refresh, Command, BridgeInv
<1>2. CASE Pair
    <2>1. InOrder(RequestPairing(bridge))
        BY <1>b, <1>2, RequestPairingKeeps DEF Pair, Command
    <2> QED BY <1>2, <2>1 DEF Pair, Command, BridgeInv
<1>3. CASE EnterToken
    <2>1. \A token \in {None} \cup Keys : InOrder(SetToken(bridge, token))
        BY <1>b, SettingTokenKeeps
    <2> QED BY <1>3, <2>1 DEF EnterToken, Command, BridgeInv
<1>4. CASE EnterUrl
    <2>1. ASSUME NEW url \in Ports
          PROVE  InOrder(Saved([bridge EXCEPT !.serverUrl = url], "serverUrl", url))
        <3> DEFINE q == [bridge EXCEPT !.serverUrl = url]
        <3>1. /\ q \in Bridges /\ q.sockets = bridge.sockets /\ q.probe = bridge.probe
              /\ q.desktopSocket = bridge.desktopSocket
            BY <1>b DEF Bridges
        <3>2. [key |-> "serverUrl", value |-> url] \in Changes
            BY DEF Changes
        <3> HIDE DEF q
        <3>3. InOrder(Saved(q, "serverUrl", url))
            BY <1>b, <3>1, <3>2, Redecorated, SavingKeeps
        <3> QED BY <3>3 DEF q
    <2> QED BY <1>4, <2>1 DEF EnterUrl, Command, BridgeInv
<1>5. CASE SwitchAutoSelect
    <2> DEFINE value == ~bridge.stored.shouldAutoSelectPort
    <2>1. [key |-> "shouldAutoSelectPort", value |-> value] \in Changes
        BY DEF Changes
    <2> HIDE DEF value
    <2>2. InOrder(SavedAside(bridge, "shouldAutoSelectPort", value))
        BY <1>b, <2>1, SavingKeeps
    <2> QED BY <1>5, <2>2 DEF SwitchAutoSelect, Command, BridgeInv, value
<1> QED BY <1>1, <1>2, <1>3, <1>4, <1>5 DEF User

\* The program reads what a session has sent.
LEMMA ReceivingBridgeInv == ASSUME BridgeInv, NEW s \in Sockets, Receive(s) PROVE BridgeInv'
<1> DEFINE m == Head(bridge.sockets[s].out)
           read == [bridge.sockets EXCEPT ![s].out = Tail(@)]
           known == [read EXCEPT ![s].authenticated = TRUE]
           told == Answered(read, s, [is |-> "error"])
           dropped == [told EXCEPT ![s].theirs = "closing"]
           asking == [read EXCEPT ![s].asks = TRUE]
           refused == Answered(read, s, [is |-> "refused"])
<1>b. InOrder(bridge) /\ bridge \in Bridges /\ Tidy(bridge.sockets)
    BY DEF BridgeInv, InOrder, Bridges, Tidy
<1>1. Tidy(read) /\ SameEnds(read, bridge.sockets) /\ read[s].theirs # "none"
    BY <1>b, ReadingIsTidy DEF Receive
<1>2. bridge' = [bridge EXCEPT !.sockets =
            IF m.is = "hello"
            THEN IF m.token = desktop.key THEN Answered(known, s, [is |-> "ack"]) ELSE dropped
            ELSE IF \E t \in Sockets \ {s} : read[t].asks THEN refused ELSE asking]
      /\ desktop' = desktop
    BY DEF Receive, Handle, OnHello, OnPairRequested
<1> HIDE DEF read, m
<1>3. /\ [is |-> "error"] \in Message /\ [is |-> "ack"] \in Message
      /\ [is |-> "refused"] \in Message
    BY DEF Message
<1>4. read[s] \in Socket /\ CleanAt(read[s])
    BY <1>1, SocketIsTidy
<1>5. Tidy(known) /\ SameEnds(known, read)
    <2> DEFINE x == [read[s] EXCEPT !.authenticated = TRUE]
    <2>1. x \in Socket /\ CleanAt(x) /\ x.mine = read[s].mine
        BY <1>1, <1>4 DEF Socket, CleanAt
    <2> HIDE DEF x
    <2>2. Tidy([read EXCEPT ![s] = x]) /\ SameEnds([read EXCEPT ![s] = x], read)
        BY <1>1, <2>1, OneIsTidy
    <2> QED BY <2>2 DEF x
<1>6. Tidy(asking) /\ SameEnds(asking, read)
    <2> DEFINE x == [read[s] EXCEPT !.asks = TRUE]
    <2>1. x \in Socket /\ CleanAt(x) /\ x.mine = read[s].mine
        BY <1>1, <1>4 DEF Socket, CleanAt
    <2> HIDE DEF x
    <2>2. Tidy([read EXCEPT ![s] = x]) /\ SameEnds([read EXCEPT ![s] = x], read)
        BY <1>1, <2>1, OneIsTidy
    <2> QED BY <2>2 DEF x
<1>7. Tidy(told) /\ SameEnds(told, read)
    BY <1>1, <1>3, AnsweringIsTidy
<1>8. Tidy(refused) /\ SameEnds(refused, read)
    BY <1>1, <1>3, AnsweringIsTidy
<1> HIDE DEF known
<1>9. Tidy(Answered(known, s, [is |-> "ack"])) /\ SameEnds(Answered(known, s, [is |-> "ack"]), known)
    BY <1>3, <1>5, AnsweringIsTidy
<1> HIDE DEF told
<1>10. Tidy(dropped) /\ SameEnds(dropped, told)
    <2> DEFINE x == [told[s] EXCEPT !.theirs = "closing"]
    <2>0. told[s] \in Socket /\ CleanAt(told[s])
        BY <1>7, SocketIsTidy
    <2>1. x \in Socket /\ CleanAt(x) /\ x.mine = told[s].mine
        BY <2>0 DEF Socket, CleanAt
    <2> HIDE DEF x
    <2>2. Tidy([told EXCEPT ![s] = x]) /\ SameEnds([told EXCEPT ![s] = x], told)
        BY <1>7, <2>1, OneIsTidy
    <2> QED BY <2>2 DEF x
<1> HIDE DEF refused, asking, dropped
<1>11. ASSUME NEW f \in {Answered(known, s, [is |-> "ack"]), dropped, refused, asking}
       PROVE  InOrder([bridge EXCEPT !.sockets = f])
    <2>1. Tidy(f) /\ SameEnds(f, bridge.sockets)
        BY <1>1, <1>5, <1>6, <1>7, <1>8, <1>9, <1>10 DEF SameEnds
    <2> QED BY <1>b, <2>1, RewiredKeeps
<1> QED BY <1>2, <1>11 DEF BridgeInv

\* What is left of a session the program has dropped.
LEMMA ForgettingIsTidy ==
    ASSUME NEW x \in Socket, CleanAt(x)
    PROVE  /\ Forgotten(x) \in Socket /\ CleanAt(Forgotten(x))
           /\ Forgotten(x).mine = x.mine
<1> <<>> \in Seq(Message)
    BY EmptySeq
<1> QED BY DEF Forgotten, Socket, CleanAt

LEMMA ProgramBridgeInv == BridgeInv /\ Program => BridgeInv'
<1> SUFFICES ASSUME BridgeInv, Program PROVE BridgeInv'
    OBVIOUS
<1>b. /\ InOrder(bridge) /\ bridge \in Bridges /\ Tidy(bridge.sockets)
      /\ desktop \in [port : Ports \cup {None}, key : Keys]
      /\ bridge.sockets \in [Sockets -> Socket]
    BY DEF BridgeInv, InOrder, Bridges, Tidy
<1>1. ASSUME NEW s \in Sockets, Receive(s) PROVE BridgeInv'
    BY <1>1, ReceivingBridgeInv
<1>2. ASSUME NEW s \in Sockets, Notice(s) PROVE BridgeInv'
    <2> DEFINE x == Forgotten(bridge.sockets[s])
               f == [bridge.sockets EXCEPT ![s] = x]
    <2>1. x \in Socket /\ CleanAt(x) /\ x.mine = bridge.sockets[s].mine
        BY <1>b, SocketIsTidy, ForgettingIsTidy
    <2>2. bridge' = [bridge EXCEPT !.sockets = f] /\ desktop' = desktop
        BY <1>b, <1>2 DEF Notice, Handle, Bridges
    <2> HIDE DEF x
    <2>3. Tidy(f) /\ SameEnds(f, bridge.sockets)
        BY <1>b, <2>1, OneIsTidy
    <2> HIDE DEF f
    <2>4. InOrder([bridge EXCEPT !.sockets = f])
        BY <1>b, <2>3, RewiredKeeps
    <2> QED BY <2>2, <2>4 DEF BridgeInv
<1>3. ASSUME NEW s \in Sockets, DecidePair(s) PROVE BridgeInv'
    <2> DEFINE x == [bridge.sockets[s] EXCEPT !.asks = FALSE]
               g == [bridge.sockets EXCEPT ![s] = x]
    <2>1. PICK answer \in {[is |-> "paired", token |-> desktop.key], [is |-> "refused"]} :
            /\ bridge' = [bridge EXCEPT !.sockets = Answered(g, s, answer)]
            /\ desktop' = desktop
        BY <1>b, <1>3 DEF DecidePair, Handle, Bridges
    <2>2. answer \in Message
        BY <1>b DEF Message
    <2>3. x \in Socket /\ CleanAt(x) /\ x.mine = bridge.sockets[s].mine
        <3> bridge.sockets[s] \in Socket /\ CleanAt(bridge.sockets[s])
            BY <1>b, SocketIsTidy
        <3> QED BY DEF Socket, CleanAt
    <2> HIDE DEF x
    <2>4. Tidy(g) /\ SameEnds(g, bridge.sockets)
        BY <1>b, <2>3, OneIsTidy
    <2> HIDE DEF g
    <2>5. Tidy(Answered(g, s, answer)) /\ SameEnds(Answered(g, s, answer), g)
        BY <2>2, <2>4, AnsweringIsTidy
    <2>6. InOrder([bridge EXCEPT !.sockets = Answered(g, s, answer)])
        <3> SameEnds(Answered(g, s, answer), bridge.sockets)
            BY <2>4, <2>5 DEF SameEnds
        <3> QED BY <1>b, <2>5, RewiredKeeps
    <2> QED BY <2>1, <2>6 DEF BridgeInv
<1>4. CASE RegenerateToken
    <2> DEFINE y(socket) == [socket EXCEPT !.theirs = "closing", !.authenticated = FALSE]
               f == [s \in Sockets |->
                        IF bridge.sockets[s].theirs # "open" THEN bridge.sockets[s]
                        ELSE y(bridge.sockets[s])]
    <2>1. bridge' = [bridge EXCEPT !.sockets = f]
        BY <1>b, <1>4 DEF RegenerateToken, Bridges
    <2>2. desktop' \in [port : Ports \cup {None}, key : Keys]
        BY <1>b, <1>4 DEF RegenerateToken
    <2>3. ASSUME NEW s \in Sockets
          PROVE  f[s] \in Socket /\ CleanAt(f[s]) /\ f[s].mine = bridge.sockets[s].mine
        <3>1. bridge.sockets[s] \in Socket /\ CleanAt(bridge.sockets[s])
            BY <1>b, SocketIsTidy
        <3>2. /\ y(bridge.sockets[s]) \in Socket
              /\ y(bridge.sockets[s]).mine = bridge.sockets[s].mine
              /\ CleanAt(y(bridge.sockets[s]))
            BY <3>1 DEF Socket, CleanAt
        <3> HIDE DEF y
        <3> QED BY <3>1, <3>2
    <2>4. f \in [Sockets -> Socket]
        <3> f = [s \in Sockets |-> f[s]]
            OBVIOUS
        <3> HIDE DEF f
        <3> QED BY <2>3
    <2> HIDE DEF f
    <2>5. Tidy(f) /\ SameEnds(f, bridge.sockets)
        BY <2>3, <2>4 DEF Tidy, SameEnds, Clean, CleanAt
    <2>6. InOrder([bridge EXCEPT !.sockets = f])
        BY <1>b, <2>5, RewiredKeeps
    <2> QED BY <2>1, <2>2, <2>6 DEF BridgeInv
<1>5. CASE Stop
    <2> DEFINE f == [s \in Sockets |-> Forgotten(bridge.sockets[s])]
    <2>1. bridge' = [bridge EXCEPT !.sockets = f]
        BY <1>b, <1>5 DEF Stop, Bridges
    <2>2. desktop' \in [port : Ports \cup {None}, key : Keys]
        BY <1>b, <1>5 DEF Stop
    <2>3. ASSUME NEW s \in Sockets
          PROVE  f[s] \in Socket /\ CleanAt(f[s]) /\ f[s].mine = bridge.sockets[s].mine
        BY <1>b, SocketIsTidy, ForgettingIsTidy
    <2>4. f \in [Sockets -> Socket]
        <3> f = [s \in Sockets |-> f[s]]
            OBVIOUS
        <3> HIDE DEF f
        <3> QED BY <2>3
    <2> HIDE DEF f
    <2>5. Tidy(f) /\ SameEnds(f, bridge.sockets)
        BY <2>3, <2>4 DEF Tidy, SameEnds, Clean, CleanAt
    <2>6. InOrder([bridge EXCEPT !.sockets = f])
        BY <1>b, <2>5, RewiredKeeps
    <2> QED BY <2>1, <2>2, <2>6 DEF BridgeInv
<1>6. CASE Listen
    <2>1. desktop' \in [port : Ports \cup {None}, key : Keys]
        BY <1>b, <1>6 DEF Listen
    <2> QED BY <1>b, <1>6, <2>1 DEF Listen, BridgeInv
<1> QED BY <1>1, <1>2, <1>3, <1>4, <1>5, <1>6 DEF Program, ProgramEvent

-----------------------------------------------------------------------------
(* The theorems.                                                           *)

LEMMA NextBridgeInv == BridgeInv /\ [Next]_vars => BridgeInv'
<1>1. BridgeInv /\ Browser => BridgeInv'
    BY SocketEventBridgeInv, TimersBridgeInv, StorageBridgeInv, RestartBridgeInv DEF Browser
<1>2. BridgeInv /\ UNCHANGED vars => BridgeInv'
    BY DEF vars, BridgeInv
<1> QED BY <1>1, <1>2, UserBridgeInv, ProgramBridgeInv DEF Next

LEMMA BridgeInvAlways == Spec => []BridgeInv
BY InitBridgeInv, NextBridgeInv, PTL DEF Spec

\* The memory of both ends keeps its types whatever the user, the network and
\* the two programs do, and a socket both have done with can be taken again.
THEOREM BridgeTypes == Spec => []TypeOK
<1>1. BridgeInv => TypeOK
    <2> SUFFICES ASSUME BridgeInv PROVE TypeOK
        OBVIOUS
    <2>1. InOrder(bridge) /\ bridge \in Bridges /\ Clean(bridge.sockets)
        BY DEF BridgeInv, InOrder
    <2>2. ASSUME NEW s \in Sockets,
                 bridge.sockets[s].mine = "none", bridge.sockets[s].theirs = "none"
          PROVE  bridge.sockets[s] = Unused
        <3>1. bridge.sockets[s] \in Socket
            BY <2>1 DEF Bridges
        <3> QED BY <2>1, <2>2, <3>1 DEF Socket, Clean, Unused
    <2> QED BY <2>1, <2>2 DEF BridgeInv, TypeOK, Bridges, States
<1> QED BY <1>1, BridgeInvAlways, PTL

\* No socket is left behind by a probe, a pairing, a new connection or a start
\* of the service worker: connect, requestPairing, cancelProbe and the listeners
\* of desktop-bridge.ts close every socket they stop to keep.
THEOREM NothingIsLeftOpen == Spec => []NoStraySocket
<1>1. BridgeInv => NoStraySocket
    BY DEF BridgeInv, InOrder, Owned, NoStraySocket
<1> QED BY <1>1, BridgeInvAlways, PTL

-----------------------------------------------------------------------------
(* Second part: DesktopBridge implements Link, shows "connected" only when *)
(* it is true, and lets one pair request be shown at a time.  All three    *)
(* rest on one fact, that a socket is asked one thing and answers once.    *)

Ringing == [Unused EXCEPT !.mine = "connecting"]

\* Nothing comes in before a socket is open.
Fresh(socket) == socket.mine = "connecting" => socket.theirs = "none" /\ socket.in = <<>>

Known(socket) == socket.authenticated \/ socket.theirs # "open"

Hello(token) == [is |-> "hello", token |-> token]

\* A socket of connect() has sent its hello, or it has the answer, or neither.
Asked(socket) ==
    \/ socket.out = <<>>
    \/ socket.in = <<>> /\ \E token \in Keys \cup {None} : socket.out = <<Hello(token)>>

Told(socket) ==
    \/ socket.in = <<>>
    \/ socket.in = <<[is |-> "error"]>>
    \/ Known(socket) /\ socket.in = <<[is |-> "ack"]>>

Probing(socket) == ~socket.asks /\ Asked(socket) /\ Told(socket)

\* The connection has been asked and has answered.
Linked(socket) == socket.mine = "open" /\ socket.in = <<>> /\ socket.out = <<>> /\ ~socket.asks

ProbesTalk(b) ==
    /\ b.probe.kind = "none" => b.probe.active = {} /\ ~b.probe.headStart
    /\ b.probe.kind = "connect" => \A s \in b.probe.active : Probing(b.sockets[s])

LinkIsQuiet(b) == b.desktopSocket # NoSocket => Linked(b.sockets[b.desktopSocket])

ShownIsTrue(b) ==
    b.connectionState = "connected" =>
        b.desktopSocket # NoSocket /\ Known(b.sockets[b.desktopSocket])

AllFresh(sockets) == \A s \in Sockets : Fresh(sockets[s])
OneAsks(sockets) == \A s, t \in Sockets : sockets[s].asks /\ sockets[t].asks => s = t

Talks(b) ==
    /\ ProbesTalk(b) /\ LinkIsQuiet(b) /\ ShownIsTrue(b)
    /\ AllFresh(b.sockets) /\ OneAsks(b.sockets)

Orderly(b) == InOrder(b) /\ Talks(b)

\* What makes the three properties inductive.
TalkInv == BridgeInv /\ Talks(bridge)

\* No function but Adopt makes a connection that works.
Quieter(b, q) == q.connectionState = "connected" => b.connectionState = "connected"

-----------------------------------------------------------------------------
(* Functions on the bridge.                                                *)

\* What is neither a socket nor the probe nor the connection may change.
LEMMA TalksOn ==
    ASSUME NEW b, Talks(b), NEW q,
           q.sockets = b.sockets, q.desktopSocket = b.desktopSocket,
           q.probe.active = b.probe.active, q.probe.kind = b.probe.kind,
           q.probe.headStart => b.probe.headStart, Quieter(b, q)
    PROVE  Talks(q)
BY DEF Talks, ProbesTalk, LinkIsQuiet, ShownIsTrue, Quieter

LEMMA UnusedTalks ==
    /\ Fresh(Unused) /\ ~Unused.asks
    /\ Fresh(Ringing) /\ ~Ringing.asks /\ Probing(Ringing) /\ Ringing.mine = "connecting"
    /\ Unused.mine = "none" /\ Unused.theirs = "none"
BY DEF Unused, Ringing, Fresh, Probing, Asked, Told

LEMMA ClosingTalks ==
    ASSUME NEW b, Orderly(b), NEW S
    PROVE  /\ AllFresh(Closed(b, S).sockets) /\ OneAsks(Closed(b, S).sockets)
           /\ \A s \in Sockets : s \notin S => Closed(b, S).sockets[s] = b.sockets[s]
<1> DEFINE c == Closed(b, S)
<1>1. /\ \A s \in Sockets : s \notin S => c.sockets[s] = b.sockets[s]
      /\ \A s \in Sockets : s \in S =>
            \/ c.sockets[s] = Unused
            \/ /\ b.sockets[s].theirs # "none"
               /\ c.sockets[s] = Silenced(b.sockets[s])
    BY ClosedSockets DEF Orderly, InOrder
<1> HIDE DEF c
<1>2. ASSUME NEW s \in Sockets
      PROVE  Fresh(c.sockets[s]) /\ (c.sockets[s].asks => b.sockets[s].asks)
    <2>1. b.sockets[s] \in Socket /\ Fresh(b.sockets[s])
        BY DEF Orderly, InOrder, Bridges, Talks, AllFresh
    <2>2. Fresh(Silenced(b.sockets[s])) /\ Silenced(b.sockets[s]).asks = b.sockets[s].asks
        BY <2>1 DEF Socket, Silenced, Fresh
    <2> QED BY <1>1, <2>1, <2>2, UnusedTalks
<1>3. AllFresh(c.sockets) /\ OneAsks(c.sockets)
    BY <1>2 DEF AllFresh, OneAsks, Orderly, Talks
<1> QED BY <1>1, <1>3 DEF c

LEMMA CancellingTalks ==
    ASSUME NEW b, Orderly(b)
    PROVE  Orderly(CancelProbe(b)) /\ CancelProbe(b).connectionState = b.connectionState
<1> DEFINE c == Closed(b, b.probe.active)
           q == CancelProbe(b)
<1>1. c \in Bridges /\ c.connectionState = b.connectionState
    BY ClosedSockets, ClosingFields DEF Orderly, InOrder
<1>2. /\ AllFresh(c.sockets) /\ OneAsks(c.sockets)
      /\ \A s \in Sockets : s \notin b.probe.active => c.sockets[s] = b.sockets[s]
    BY ClosingTalks
<1>3. q = [c EXCEPT !.probe = NoProbe]
    BY DEF CancelProbe
<1>4. InOrder(q) /\ q.probe = NoProbe /\ q.desktopSocket = b.desktopSocket /\ q.sockets = c.sockets
    BY CancellingKeeps DEF Orderly
<1> HIDE DEF c
<1>5. q.connectionState = c.connectionState
    BY <1>1, <1>3 DEF Bridges
<1> HIDE DEF q
<1>6. NoProbe.active = {} /\ NoProbe.kind = "none" /\ ~NoProbe.headStart
    BY DEF NoProbe
<1>7. b.desktopSocket # NoSocket =>
        b.desktopSocket \in Sockets /\ q.sockets[b.desktopSocket] = b.sockets[b.desktopSocket]
    BY <1>2, <1>4 DEF Orderly, InOrder, Bridges, Apart
<1>8. LinkIsQuiet(q) /\ ShownIsTrue(q)
    BY <1>1, <1>4, <1>5, <1>7 DEF Orderly, Talks, LinkIsQuiet, ShownIsTrue
<1>9. ProbesTalk(q)
    BY <1>4, <1>6 DEF ProbesTalk
<1> QED BY <1>1, <1>2, <1>4, <1>5, <1>8, <1>9 DEF Orderly, Talks, q

LEMMA DroppingTalks ==
    ASSUME NEW b, Orderly(b), NEW state \in States, state # "connected"
    PROVE  LET q == [Closed(b, {b.desktopSocket}) EXCEPT !.desktopSocket = NoSocket,
                                                         !.connectionState = state]
           IN  Orderly(q) /\ q.connectionState = state /\ q.desktopSocket = NoSocket
<1> DEFINE c == Closed(b, {b.desktopSocket})
           q == [c EXCEPT !.desktopSocket = NoSocket, !.connectionState = state]
<1>1. c \in Bridges /\ c.probe = b.probe
    BY ClosedSockets, ClosingFields DEF Orderly, InOrder
<1>2. /\ AllFresh(c.sockets) /\ OneAsks(c.sockets)
      /\ \A s \in Sockets : s # b.desktopSocket => c.sockets[s] = b.sockets[s]
    BY ClosingTalks
<1>3. InOrder(q)
    BY DroppingKeeps DEF Orderly
<1> HIDE DEF c
<1>4. /\ q.sockets = c.sockets /\ q.probe = c.probe /\ q.desktopSocket = NoSocket
      /\ q.connectionState = state
    BY <1>1 DEF Bridges
<1> HIDE DEF q
<1>5. \A s \in b.probe.active : s \in Sockets /\ s # b.desktopSocket
    BY DEF Orderly, InOrder, Bridges, Probe, Apart
<1>6. ProbesTalk(q)
    BY <1>1, <1>2, <1>4, <1>5 DEF Orderly, Talks, ProbesTalk
<1>7. LinkIsQuiet(q) /\ ShownIsTrue(q)
    BY <1>4 DEF LinkIsQuiet, ShownIsTrue
<1>8. Orderly(q)
    BY <1>2, <1>3, <1>4, <1>6, <1>7 DEF Orderly, Talks
<1> QED BY <1>4, <1>8 DEF q, c

\* What new WebSocket does to each socket.
LEMMA DialledSockets ==
    ASSUME NEW b, InOrder(b), NEW ports \in SUBSET Ports, HasRoom(b, ports)
    PROVE  LET q == Dialled(b, ports)
           IN  /\ q.desktopSocket = b.desktopSocket /\ q.connectionState = b.connectionState
               /\ q.probe.kind = b.probe.kind
               /\ \A s \in Sockets : \/ q.sockets[s] = b.sockets[s]
                                     \/ b.sockets[s] = Unused /\ q.sockets[s] = Ringing
               /\ \A s \in q.probe.active : s \in b.probe.active \/ q.sockets[s] = Ringing
<1> DEFINE C == {<<port, CHOOSE n \in Free(b, port) : \A k \in Free(b, port) : n <= k>> :
                   port \in ports}
           f == [s \in Sockets |-> IF s \in C THEN Ringing ELSE b.sockets[s]]
           p == [b.probe EXCEPT !.active = @ \cup C]
           q == [b EXCEPT !.probe = p, !.sockets = f]
<1>b. b \in Bridges /\ b.probe \in Probe
    BY DEF InOrder, Bridges
<1>1. ASSUME NEW s \in C PROVE s \in Sockets /\ b.sockets[s] = Unused
    <2>1. PICK port \in ports :
            s = <<port, CHOOSE n \in Free(b, port) : \A k \in Free(b, port) : n <= k>>
        OBVIOUS
    <2>2. Free(b, port) # {}
        BY DEF HasRoom
    <2>3. PICK n \in Free(b, port) : s = <<port, n>>
        BY <2>1, <2>2, LeastFree
    <2> QED BY <2>3 DEF Free, Sockets
<1>2. Dialled(b, ports) = q
    BY <1>b DEF Dialled, Bridges, Probe, Ringing
<1> HIDE DEF C
<1>3. p.kind = b.probe.kind /\ p.active = b.probe.active \cup C
    BY <1>b DEF Probe
<1>4. \A s \in Sockets : f[s] = IF s \in C THEN Ringing ELSE b.sockets[s]
    OBVIOUS
<1> HIDE DEF f, p
<1>5. /\ q.probe = p /\ q.sockets = f /\ q.desktopSocket = b.desktopSocket
      /\ q.connectionState = b.connectionState
    BY <1>b DEF Bridges
<1> HIDE DEF q
<1>6. \A s \in Sockets : \/ q.sockets[s] = b.sockets[s]
                         \/ b.sockets[s] = Unused /\ q.sockets[s] = Ringing
    BY <1>1, <1>4, <1>5
<1>7. \A s \in q.probe.active : s \in b.probe.active \/ q.sockets[s] = Ringing
    BY <1>1, <1>3, <1>4, <1>5
<1> QED BY <1>2, <1>3, <1>5, <1>6, <1>7

LEMMA DiallingTalks ==
    ASSUME NEW b, Orderly(b), b.probe.kind # "none", NEW ports \in SUBSET Ports, HasRoom(b, ports)
    PROVE  /\ Orderly(Dialled(b, ports)) /\ Dialled(b, ports).connectionState = b.connectionState
           /\ Dialled(b, ports).desktopSocket = b.desktopSocket
<1> DEFINE q == Dialled(b, ports)
<1>1. InOrder(q)
    BY DiallingKeeps DEF Orderly
<1>2. /\ q.desktopSocket = b.desktopSocket /\ q.connectionState = b.connectionState
      /\ q.probe.kind = b.probe.kind
      /\ \A s \in Sockets : \/ q.sockets[s] = b.sockets[s]
                            \/ b.sockets[s] = Unused /\ q.sockets[s] = Ringing
      /\ \A s \in q.probe.active : s \in b.probe.active \/ q.sockets[s] = Ringing
    BY DialledSockets DEF Orderly
<1> HIDE DEF q
<1>3. \A s \in Sockets : s \in b.probe.active \cup {b.desktopSocket} => q.sockets[s] = b.sockets[s]
    BY <1>2, UnusedTalks DEF Orderly, InOrder, Owned
<1>4. AllFresh(q.sockets) /\ OneAsks(q.sockets)
    BY <1>2, UnusedTalks DEF Orderly, Talks, AllFresh, OneAsks
<1>5. b.probe.active \subseteq Sockets
    BY DEF Orderly, InOrder, Bridges, Probe
<1>6. ProbesTalk(q)
    BY <1>2, <1>3, <1>5, UnusedTalks DEF Orderly, Talks, ProbesTalk
<1>7. b.desktopSocket # NoSocket =>
        b.desktopSocket \in Sockets /\ q.sockets[b.desktopSocket] = b.sockets[b.desktopSocket]
    BY <1>3 DEF Orderly, InOrder, Bridges
<1>8. LinkIsQuiet(q) /\ ShownIsTrue(q)
    BY <1>2, <1>7 DEF Orderly, Talks, LinkIsQuiet, ShownIsTrue
<1> QED BY <1>1, <1>2, <1>4, <1>6, <1>8 DEF Orderly, Talks, q

LEMMA StartingTalks ==
    ASSUME NEW b, Orderly(b), b.probe = NoProbe, HasRoom(b, Ports),
           NEW kind \in {"connect", "pair"}, kind = "connect" => b.desktopSocket = NoSocket
    PROVE  /\ Orderly(StartProbe(b, kind))
           /\ StartProbe(b, kind).connectionState = b.connectionState
           /\ StartProbe(b, kind).desktopSocket = b.desktopSocket
<1> DEFINE others == IF b.shouldAutoSelectPort THEN Ports \ {b.serverUrl} ELSE {}
           p == [NoProbe EXCEPT !.kind = kind, !.primary = b.serverUrl,
                                !.fallbacks = others, !.headStart = others # {}]
           q == [b EXCEPT !.probe = p]
<1>1. StartProbe(b, kind) = Dialled(q, {b.serverUrl})
    BY DEF StartProbe
<1>b. b \in Bridges /\ b.serverUrl \in Ports
    BY DEF Orderly, InOrder, Bridges
<1>2. p \in Probe /\ p.active = {} /\ p.kind = kind
    BY <1>b DEF NoProbe, Probe
<1> HIDE DEF p
<1>3. /\ q \in Bridges /\ q.probe = p /\ q.sockets = b.sockets
      /\ q.desktopSocket = b.desktopSocket /\ q.connectionState = b.connectionState
    BY <1>b, <1>2 DEF Bridges
<1> HIDE DEF q
<1>4. b.probe.active = {}
    BY DEF NoProbe
<1>5. InOrder(q)
    BY <1>2, <1>3, <1>4 DEF Orderly, InOrder, Owned, Apart
<1>6. Talks(q)
    <2>1. ProbesTalk(q)
        BY <1>2, <1>3 DEF ProbesTalk
    <2> QED BY <1>3, <2>1 DEF Orderly, Talks, LinkIsQuiet, ShownIsTrue
<1>7. HasRoom(q, {b.serverUrl})
    <2>1. \A port \in Ports : Free(q, port) = Free(b, port)
        BY <1>3 DEF Free
    <2> QED BY <1>b, <2>1 DEF HasRoom
<1>8. /\ Orderly(Dialled(q, {b.serverUrl}))
      /\ Dialled(q, {b.serverUrl}).connectionState = q.connectionState
      /\ Dialled(q, {b.serverUrl}).desktopSocket = q.desktopSocket
    <2>1. {b.serverUrl} \in SUBSET Ports
        BY <1>b
    <2>2. Orderly(q) /\ q.probe.kind # "none"
        BY <1>2, <1>3, <1>5, <1>6 DEF Orderly
    <2> QED BY <1>7, <2>1, <2>2, DiallingTalks
<1> QED BY <1>1, <1>3, <1>8

LEMMA FallingBackTalks ==
    ASSUME NEW b, Orderly(b), CanFallBack(b), b.probe.kind # "none"
    PROVE  /\ Orderly(StartFallbacks(b))
           /\ StartFallbacks(b).connectionState = b.connectionState
<1> DEFINE p == [b.probe EXCEPT !.fallbacks = {}, !.headStart = FALSE]
           q == [b EXCEPT !.probe = p]
<1>b. b \in Bridges /\ b.probe \in Probe /\ b.probe.fallbacks \in SUBSET Ports
    BY DEF Orderly, InOrder, Bridges, Probe
<1>1. StartFallbacks(b) = Dialled(q, b.probe.fallbacks)
    BY <1>b DEF StartFallbacks, Bridges, Probe
<1>2. p \in Probe /\ p.active = b.probe.active /\ p.kind = b.probe.kind /\ ~p.headStart
    BY <1>b DEF Probe
<1> HIDE DEF p
<1>3. /\ q \in Bridges /\ q.probe = p /\ q.sockets = b.sockets
      /\ q.desktopSocket = b.desktopSocket /\ q.connectionState = b.connectionState
    BY <1>b, <1>2 DEF Bridges
<1> HIDE DEF q
<1>4. /\ InOrder(q)
      /\ \A P \in SUBSET Ports : HasRoom(b, P) => HasRoom(q, P)
    BY <1>2, <1>3, Redecorated DEF Orderly
<1>5. Orderly(q) /\ q.probe.kind # "none"
    BY <1>2, <1>3, <1>4, TalksOn DEF Orderly, Quieter
<1>6. HasRoom(q, b.probe.fallbacks)
    BY <1>b, <1>4 DEF CanFallBack
<1>7. /\ Orderly(Dialled(q, b.probe.fallbacks))
      /\ Dialled(q, b.probe.fallbacks).connectionState = q.connectionState
    BY <1>b, <1>5, <1>6, DiallingTalks
<1> QED BY <1>1, <1>3, <1>7

LEMMA FailingTalks ==
    ASSUME NEW b, Orderly(b), NEW reached \in BOOLEAN
    PROVE  /\ Orderly(PairingFailed(b, reached))
           /\ PairingFailed(b, reached).connectionState # "connected"
           /\ PairingFailed(b, reached).desktopSocket = b.desktopSocket
<1> DEFINE q == PairingFailed(b, reached)
<1>1. /\ q.sockets = b.sockets /\ q.probe = b.probe
      /\ q.desktopSocket = b.desktopSocket /\ q.connectionState # "connected"
    BY DEF PairingFailed, Orderly, InOrder, Bridges
<1>2. InOrder(q)
    BY FailingKeeps DEF Orderly
<1> HIDE DEF q
<1>3. Talks(q)
    BY <1>1, TalksOn DEF Orderly, Quieter
<1> QED BY <1>1, <1>2, <1>3 DEF q, Orderly

LEMMA AfterCancelTalks ==
    ASSUME NEW b, InOrder(b), NEW after, Orderly(after)
    PROVE  /\ Orderly(AfterCancel(b, after)) /\ Quieter(after, AfterCancel(b, after))
           /\ AfterCancel(b, after).desktopSocket = after.desktopSocket
<1> b.probe.reached \in BOOLEAN
    BY DEF InOrder, Bridges, Probe
<1> QED BY FailingTalks DEF AfterCancel, Quieter

LEMMA RequestPairingTalks ==
    ASSUME NEW b, Orderly(b), CanProbe(b)
    PROVE  /\ Orderly(RequestPairing(b)) /\ Quieter(b, RequestPairing(b))
           /\ RequestPairing(b).desktopSocket = b.desktopSocket
<1> DEFINE c == CancelProbe(b)
           q == [c EXCEPT !.reconnectTimer = FALSE, !.connectionState = "connecting"]
           r == StartProbe(q, "pair")
<1>1. Orderly(c) /\ c.probe = NoProbe /\ HasRoom(c, Ports) /\ c.desktopSocket = b.desktopSocket
    BY CancellingKeeps, CancellingTalks DEF CanProbe, Orderly
<1> HIDE DEF c
<1>2. /\ q \in Bridges /\ q.sockets = c.sockets /\ q.probe = c.probe
      /\ q.desktopSocket = c.desktopSocket /\ q.connectionState = "connecting"
    BY <1>1 DEF Orderly, InOrder, Bridges, States
<1> HIDE DEF q
<1>3. InOrder(q) /\ q.probe = NoProbe /\ HasRoom(q, Ports)
    BY <1>1, <1>2, Redecorated DEF Orderly
<1>4. Orderly(q)
    BY <1>1, <1>2, <1>3, TalksOn DEF Orderly, Quieter
<1>5. Orderly(r) /\ r.connectionState = "connecting" /\ r.desktopSocket = b.desktopSocket
    BY <1>1, <1>2, <1>3, <1>4, StartingTalks
<1> HIDE DEF r
<1>6. /\ Orderly(AfterCancel(b, r)) /\ AfterCancel(b, r).connectionState # "connected"
      /\ AfterCancel(b, r).desktopSocket = b.desktopSocket
    BY <1>5, AfterCancelTalks DEF Orderly, Quieter
<1> QED BY <1>6 DEF RequestPairing, Quieter, c, q, r

LEMMA ConnectTalks ==
    ASSUME NEW b, Orderly(b), CanProbe(b), NEW force \in BOOLEAN
    PROVE  /\ Orderly(Connect(b, force)) /\ Quieter(b, Connect(b, force))
           /\ b.desktopSocket = NoSocket => Connect(b, force).desktopSocket = NoSocket
<1>1. CASE b.pairToken = None
    <2> DEFINE c == CancelProbe(b)
               q == [c EXCEPT !.connectionState = "missing_token"]
    <2>1. Orderly(c) /\ c.desktopSocket = b.desktopSocket
        BY CancellingTalks, CancellingKeeps DEF Orderly
    <2> HIDE DEF c
    <2>2. /\ q \in Bridges /\ q.sockets = c.sockets /\ q.probe = c.probe
          /\ q.desktopSocket = c.desktopSocket /\ q.connectionState = "missing_token"
        BY <2>1 DEF Orderly, InOrder, Bridges, States
    <2> HIDE DEF q
    <2>3. Orderly(q)
        BY <2>1, <2>2, Redecorated, TalksOn DEF Orderly, Quieter
    <2>4. /\ Orderly(AfterCancel(b, q)) /\ AfterCancel(b, q).connectionState # "connected"
          /\ AfterCancel(b, q).desktopSocket = b.desktopSocket
        BY <2>1, <2>2, <2>3, AfterCancelTalks DEF Orderly, Quieter
    <2> QED BY <1>1, <2>4 DEF Connect, Quieter, c, q
<1>2. CASE b.pairToken # None
    <2> DEFINE c == Closed(b, {b.desktopSocket})
               e == Closed(c, c.probe.active)
               q == Relinked(b)
               r == StartProbe(q, "connect")
    <2>1. c \in Bridges /\ AllFresh(c.sockets) /\ OneAsks(c.sockets)
        BY ClosedSockets, ClosingTalks DEF Orderly, InOrder
    <2>2. /\ InOrder(q) /\ HasRoom(q, Ports) /\ q.probe = NoProbe /\ q.desktopSocket = NoSocket
          /\ q.connectionState = "connecting" /\ q.sockets = e.sockets
        BY RelinkingKeeps DEF Orderly
    <2> HIDE DEF c, q
    <2>3. AllFresh(e.sockets) /\ OneAsks(e.sockets)
        <3>1. /\ \A s \in Sockets : s \notin c.probe.active => e.sockets[s] = c.sockets[s]
              /\ \A s \in Sockets : s \in c.probe.active =>
                    \/ e.sockets[s] = Unused
                    \/ /\ c.sockets[s].theirs # "none"
                       /\ e.sockets[s] = Silenced(c.sockets[s])
            BY <2>1, ClosedSockets
        <3> HIDE DEF e
        <3>2. ASSUME NEW s \in Sockets
              PROVE  Fresh(e.sockets[s]) /\ (e.sockets[s].asks => c.sockets[s].asks)
            <4>1. c.sockets[s] \in Socket /\ Fresh(c.sockets[s])
                BY <2>1 DEF Bridges, AllFresh
            <4>2. Fresh(Silenced(c.sockets[s])) /\ Silenced(c.sockets[s]).asks = c.sockets[s].asks
                BY <4>1 DEF Socket, Silenced, Fresh
            <4> QED BY <3>1, <4>1, <4>2, UnusedTalks
        <3> QED BY <2>1, <3>2 DEF AllFresh, OneAsks
    <2>4. NoProbe.active = {} /\ NoProbe.kind = "none" /\ ~NoProbe.headStart
        BY DEF NoProbe
    <2>5. Orderly(q)
        <3>1. Talks(q)
            BY <2>2, <2>3, <2>4 DEF Talks, ProbesTalk, LinkIsQuiet, ShownIsTrue
        <3> QED BY <2>2, <3>1 DEF Orderly
    <2>6. Orderly(r) /\ r.connectionState = "connecting" /\ r.desktopSocket = NoSocket
        BY <2>2, <2>5, StartingTalks
    <2> HIDE DEF r
    <2>7. /\ Orderly(AfterCancel(b, r)) /\ AfterCancel(b, r).connectionState # "connected"
          /\ AfterCancel(b, r).desktopSocket = NoSocket
        BY <2>6, AfterCancelTalks DEF Orderly, Quieter
    <2> QED BY <1>2, <2>7 DEF Connect, Relinked, Quieter, c, q, r
<1> QED BY <1>1, <1>2

\* Writing a setting is not about the connection.
LEMMA SavingTalks ==
    ASSUME NEW b, Orderly(b), NEW key, NEW value, [key |-> key, value |-> value] \in Changes
    PROVE  /\ Orderly(Saved(b, key, value)) /\ Quieter(b, Saved(b, key, value))
           /\ Orderly(SavedAside(b, key, value)) /\ Quieter(b, SavedAside(b, key, value))
           /\ SavedAside(b, key, value).connectionState = b.connectionState
<1> DEFINE st == [b.stored EXCEPT ![key] = value]
           sv == Append(b.saves, key)
           ch == Append(b.changes, [key |-> key, value |-> value])
           p == [b EXCEPT !.stored = st, !.saves = sv, !.changes = ch]
           q == [b EXCEPT !.stored = st, !.changes = ch]
<1>b. b \in Bridges
    BY DEF Orderly, InOrder
<1>1. Saved(b, key, value) = p /\ SavedAside(b, key, value) = q
    BY <1>b DEF Saved, SavedAside, Bridges
<1> HIDE DEF st, sv, ch
<1>2. /\ p.sockets = b.sockets /\ p.probe = b.probe /\ p.desktopSocket = b.desktopSocket
      /\ p.connectionState = b.connectionState
    BY <1>b DEF Bridges
<1>3. /\ q.sockets = b.sockets /\ q.probe = b.probe /\ q.desktopSocket = b.desktopSocket
      /\ q.connectionState = b.connectionState
    BY <1>b DEF Bridges
<1> HIDE DEF p, q
<1>4. Talks(p) /\ Talks(q)
    BY <1>2, <1>3, TalksOn DEF Orderly, Quieter
<1>5. InOrder(p) /\ InOrder(q)
    BY <1>1, SavingKeeps DEF Orderly
<1> QED BY <1>1, <1>2, <1>3, <1>4, <1>5 DEF Orderly, Quieter

LEMMA RememberingTalks ==
    ASSUME NEW b, Orderly(b), NEW url \in Ports
    PROVE  /\ Orderly(RememberUrl(b, url))
           /\ RememberUrl(b, url).connectionState = b.connectionState
<1> DEFINE q == [b EXCEPT !.serverUrl = url]
<1>1. /\ q \in Bridges /\ q.sockets = b.sockets /\ q.probe = b.probe
      /\ q.desktopSocket = b.desktopSocket /\ q.connectionState = b.connectionState
    BY DEF Orderly, InOrder, Bridges
<1>2. [key |-> "serverUrl", value |-> url] \in Changes
    BY DEF Changes
<1> HIDE DEF q
<1>3. Orderly(q)
    BY <1>1, Redecorated, TalksOn DEF Orderly, Quieter
<1>4. /\ Orderly(SavedAside(q, "serverUrl", url))
      /\ SavedAside(q, "serverUrl", url).connectionState = q.connectionState
    BY <1>2, <1>3, SavingTalks
<1>5. RememberUrl(b, url) = IF url = b.serverUrl THEN b ELSE SavedAside(q, "serverUrl", url)
    BY DEF RememberUrl, q
<1> QED BY <1>1, <1>4, <1>5

LEMMA SettingTokenTalks ==
    ASSUME NEW b, Orderly(b), NEW token \in Keys \cup {None}
    PROVE  Orderly(SetToken(b, token)) /\ Quieter(b, SetToken(b, token))
<1> DEFINE q == [b EXCEPT !.pairToken = token]
<1>1. /\ q \in Bridges /\ q.sockets = b.sockets /\ q.probe = b.probe
      /\ q.desktopSocket = b.desktopSocket /\ q.connectionState = b.connectionState
    BY DEF Orderly, InOrder, Bridges
<1>2. [key |-> "pairToken", value |-> token] \in Changes
    BY DEF Changes
<1> HIDE DEF q
<1>3. Orderly(q)
    BY <1>1, Redecorated, TalksOn DEF Orderly, Quieter
<1>4. Orderly(Saved(q, "pairToken", token)) /\ Quieter(q, Saved(q, "pairToken", token))
    BY <1>2, <1>3, SavingTalks
<1> QED BY <1>1, <1>4 DEF SetToken, Quieter, q

LEMMA AfterSaveTalks ==
    ASSUME NEW b, Orderly(b), CanProbe(b), NEW key
    PROVE  Orderly(AfterSave(b, key)) /\ Quieter(b, AfterSave(b, key))
<1> DEFINE q == [Closed(b, {b.desktopSocket}) EXCEPT !.desktopSocket = NoSocket,
                                                    !.connectionState = "missing_token"]
<1>1. Orderly(Connect(b, TRUE)) /\ Quieter(b, Connect(b, TRUE))
    BY ConnectTalks
<1>2. Orderly(q) /\ q.connectionState = "missing_token"
    BY DroppingTalks DEF States
<1> HIDE DEF q
<1>3. AfterSave(b, key) = IF key = "serverUrl" \/ b.pairToken # None THEN Connect(b, TRUE) ELSE q
    BY DEF AfterSave, q
<1> QED BY <1>1, <1>2, <1>3 DEF Quieter

-----------------------------------------------------------------------------
(* The listeners.                                                          *)

LEMMA OnDesktopMessageTalks ==
    ASSUME NEW b, Orderly(b), NEW m, b.desktopSocket # NoSocket,
           m.is = "ack" => Known(b.sockets[b.desktopSocket])
    PROVE  Orderly(OnDesktopMessage(b, m))
<1> DEFINE q == [b EXCEPT !.connectionState = "connected"]
           r == [Closed(b, {b.desktopSocket}) EXCEPT !.desktopSocket = NoSocket,
                                                    !.connectionState = "unauthorized"]
<1>1. ASSUME m.is = "ack" PROVE Orderly(q)
    <2>1. /\ q \in Bridges /\ q.sockets = b.sockets /\ q.probe = b.probe
          /\ q.desktopSocket = b.desktopSocket
        BY DEF Orderly, InOrder, Bridges, States
    <2> HIDE DEF q
    <2>2. InOrder(q)
        BY <2>1, Redecorated DEF Orderly
    <2>3. Talks(q)
        BY <1>1, <2>1 DEF Orderly, Talks, ProbesTalk, LinkIsQuiet, ShownIsTrue
    <2> QED BY <2>2, <2>3 DEF Orderly
<1>2. Orderly(r)
    BY DroppingTalks DEF States
<1>3. OnDesktopMessage(b, m) = IF m.is = "ack" THEN q
                               ELSE IF m.is = "error" /\ b.connectionState = "authenticating" THEN r
                               ELSE b
    BY DEF OnDesktopMessage
<1> HIDE DEF q, r
<1> QED BY <1>1, <1>2, <1>3

LEMMA AdoptingTalks ==
    ASSUME NEW b, Orderly(b), NEW s \in b.probe.active, b.probe.kind = "connect",
           Linked(b.sockets[s])
    PROVE  /\ Orderly(Adopt(b, s)) /\ Adopt(b, s).desktopSocket = s
           /\ Adopt(b, s).sockets[s] = b.sockets[s]
<1> DEFINE c == Closed(b, b.probe.active \ {s})
           q == Adopt(b, s)
<1>1. c \in Bridges /\ c.connectionState = b.connectionState
    BY ClosedSockets, ClosingFields DEF Orderly, InOrder
<1>2. s \in Sockets /\ b.desktopSocket = NoSocket
    BY DEF Orderly, InOrder, Bridges, Probe, Apart
<1>3. AllFresh(c.sockets) /\ OneAsks(c.sockets) /\ c.sockets[s] = b.sockets[s]
    BY <1>2, ClosingTalks
<1>4. InOrder(q)
    BY AdoptingKeeps DEF Orderly
<1>5. q = [c EXCEPT !.probe = NoProbe, !.desktopSocket = s]
    BY DEF Adopt
<1> HIDE DEF c, q
<1>6. /\ q.probe = NoProbe /\ q.desktopSocket = s /\ q.sockets = c.sockets
      /\ q.connectionState = b.connectionState
    BY <1>1, <1>5 DEF Bridges
<1>7. NoProbe.active = {} /\ NoProbe.kind = "none" /\ ~NoProbe.headStart
    BY DEF NoProbe
<1>8. b.connectionState # "connected"
    BY <1>2 DEF Orderly, Talks, ShownIsTrue
<1>9. Talks(q)
    BY <1>3, <1>6, <1>7, <1>8 DEF Talks, ProbesTalk, LinkIsQuiet, ShownIsTrue
<1> QED BY <1>3, <1>4, <1>6, <1>9 DEF Orderly, q

\* A message of a socket that is not the connection.
LEMMA OnMessageTalks ==
    ASSUME NEW b, Orderly(b), NEW s \in Sockets, NEW m \in Message, s # b.desktopSocket,
           s \in b.probe.active /\ b.probe.kind = "connect" =>
                Linked(b.sockets[s]) /\ (m.is = "ack" => Known(b.sockets[s]))
    PROVE  /\ Orderly(OnMessage(b, s, m))
           /\ b.desktopSocket = NoSocket \/ Quieter(b, OnMessage(b, s, m))
<1> DEFINE port == PortOf(s)
           a == OnDesktopMessage(RememberUrl(Adopt(b, s), port), m)
           c == CancelProbe(RememberUrl(b, port))
           q == [c EXCEPT !.shouldRetryPairing = FALSE]
           f == PairingFailed(c, b.probe.reached)
           t == SetToken(q, m.token)
<1>b. b.probe.reached \in BOOLEAN /\ port \in Ports
    BY SocketFacts DEF Orderly, InOrder, Bridges, Probe
<1>1. ASSUME s \in b.probe.active, b.probe.kind = "connect"
      PROVE  Orderly(a) /\ b.desktopSocket = NoSocket
    <2> DEFINE d == Adopt(b, s)
               r == RememberUrl(d, port)
    <2>1. Orderly(d) /\ d.desktopSocket = s /\ d.sockets[s] = b.sockets[s]
        BY <1>1, AdoptingTalks
    <2> HIDE DEF d
    <2>2. Orderly(r) /\ r.desktopSocket = s /\ r.sockets[s] = b.sockets[s]
        BY <1>b, <2>1, RememberingKeeps, RememberingTalks DEF Orderly
    <2> HIDE DEF r
    <2>3. Orderly(OnDesktopMessage(r, m))
        BY <1>1, <2>2, SocketFacts, OnDesktopMessageTalks
    <2>4. b.desktopSocket = NoSocket
        BY <1>1 DEF Orderly, InOrder, Apart
    <2> QED BY <2>3, <2>4 DEF r, d
<1>2. Orderly(c) /\ c.connectionState = b.connectionState
    BY <1>b, RememberingTalks, CancellingTalks
<1> HIDE DEF c
<1>3. Orderly(f) /\ f.connectionState # "connected"
    BY <1>b, <1>2, FailingTalks
<1>4. /\ q \in Bridges /\ q.sockets = c.sockets /\ q.probe = c.probe
      /\ q.desktopSocket = c.desktopSocket /\ q.connectionState = c.connectionState
    BY <1>2 DEF Orderly, InOrder, Bridges
<1> HIDE DEF q
<1>5. Orderly(q)
    BY <1>2, <1>4, Redecorated, TalksOn DEF Orderly, Quieter
<1>6. ASSUME m.is = "paired" PROVE Orderly(t) /\ Quieter(b, t)
    <2>1. m.token \in Keys \cup {None}
        BY <1>6 DEF Message
    <2> QED BY <1>2, <1>4, <1>5, <2>1, SettingTokenTalks DEF Quieter
<1>7. OnMessage(b, s, m) =
        IF s \notin b.probe.active THEN b
        ELSE IF b.probe.kind = "connect" /\ m.is \in {"ack", "error"} THEN a
        ELSE IF b.probe.kind = "pair" /\ m.is = "refused" THEN f
        ELSE IF b.probe.kind = "pair" /\ m.is = "paired" THEN t
        ELSE b
    BY DEF OnMessage, c, q
<1> HIDE DEF a, f, t
<1> QED BY <1>1, <1>3, <1>6, <1>7 DEF Quieter

\* One socket changes, and keeps its part.
LEMMA OneTalks ==
    ASSUME NEW b, Orderly(b), NEW s \in Sockets, NEW y, NEW q,
           q.sockets = [b.sockets EXCEPT ![s] = y], q.desktopSocket = b.desktopSocket,
           q.probe.active = b.probe.active, q.probe.kind = b.probe.kind,
           q.probe.headStart => b.probe.headStart, Quieter(b, q),
           Fresh(y),
           b.probe.kind = "connect" /\ s \in b.probe.active => Probing(y),
           s = b.desktopSocket => Linked(y) /\ (Known(b.sockets[s]) => Known(y)),
           y.asks => \A t \in Sockets \ {s} : ~b.sockets[t].asks
    PROVE  Talks(q)
<1>b. /\ b.sockets \in [Sockets -> Socket] /\ b.probe.active \subseteq Sockets
      /\ b.desktopSocket # NoSocket => b.desktopSocket \in Sockets
    BY DEF Orderly, InOrder, Bridges, Probe
<1>1. q.sockets[s] = y /\ \A t \in Sockets \ {s} : q.sockets[t] = b.sockets[t]
    BY <1>b
<1>2. ProbesTalk(q)
    BY <1>b, <1>1 DEF Orderly, Talks, ProbesTalk
<1>3. LinkIsQuiet(q)
    BY <1>b, <1>1 DEF Orderly, Talks, LinkIsQuiet
<1>4. ShownIsTrue(q)
    BY <1>b, <1>1 DEF Orderly, Talks, ShownIsTrue, Quieter
<1>5. AllFresh(q.sockets)
    BY <1>1 DEF Orderly, Talks, AllFresh
<1>6. OneAsks(q.sockets)
    BY <1>1 DEF Orderly, Talks, OneAsks
<1> QED BY <1>2, <1>3, <1>4, <1>5, <1>6 DEF Talks

LEMMA SchedulingTalks ==
    ASSUME NEW b, Orderly(b)
    PROVE  /\ Orderly(ScheduleReconnect(b))
           /\ ScheduleReconnect(b).connectionState = b.connectionState
<1> DEFINE q == ScheduleReconnect(b)
<1>1. /\ q.sockets = b.sockets /\ q.probe = b.probe
      /\ q.desktopSocket = b.desktopSocket /\ q.connectionState = b.connectionState
    BY DEF ScheduleReconnect, Orderly, InOrder, Bridges
<1>2. InOrder(q)
    BY SchedulingKeeps DEF Orderly
<1> HIDE DEF q
<1> QED BY <1>1, <1>2, TalksOn DEF q, Orderly, Quieter

LEMMA OnConnectionClosedTalks ==
    ASSUME NEW b, Orderly(b), NEW failed \in BOOLEAN
    PROVE  LET q == OnConnectionClosed(b, b.desktopSocket, failed)
           IN  Orderly(q) /\ q.connectionState # "connected"
<1> DEFINE state == IF failed /\ b.connectionState # "unauthorized" THEN "disconnected"
                    ELSE b.connectionState
           c == Closed(b, {b.desktopSocket})
           after == [c EXCEPT !.desktopSocket = NoSocket, !.connectionState = state]
           q == [after EXCEPT !.connectionState = "disconnected"]
           r == [c EXCEPT !.desktopSocket = NoSocket, !.connectionState = "disconnected"]
<1>1. state \in States
    BY DEF Orderly, InOrder, Bridges, States
<1>2. Orderly(r) /\ r.connectionState = "disconnected"
    BY DroppingTalks DEF States
<1>3. state # "connected" => Orderly(after) /\ after.connectionState = state
    <2> HIDE DEF state
    <2> QED BY <1>1, DroppingTalks
<1>4. c \in Bridges /\ c.connectionState = b.connectionState
    BY ClosedSockets, ClosingFields DEF Orderly, InOrder
<1>5. OnConnectionClosed(b, b.desktopSocket, failed) =
        IF after.connectionState \in Halted THEN after ELSE ScheduleReconnect(q)
    <2> HIDE DEF c
    <2>1. after = [c EXCEPT !.desktopSocket = NoSocket,
                            !.connectionState = IF failed /\ @ # "unauthorized" THEN "disconnected"
                                                ELSE @]
        BY <1>4 DEF Bridges
    <2> HIDE DEF after
    <2> QED BY <2>1 DEF OnConnectionClosed, c
<1> HIDE DEF c, state
<1>6. q = r /\ after.connectionState = state
    BY <1>4 DEF Bridges
<1> HIDE DEF q, r, after
<1>7. Orderly(ScheduleReconnect(q)) /\ ScheduleReconnect(q).connectionState = "disconnected"
    BY <1>2, <1>6, SchedulingTalks
<1> QED BY <1>3, <1>5, <1>6, <1>7 DEF Halted

LEMMA OnProbeFailedTalks ==
    ASSUME NEW b, Orderly(b), CanFallBack(b), NEW s \in b.probe.active
    PROVE  Orderly(OnProbeFailed(b, s)) /\ Quieter(b, OnProbeFailed(b, s))
<1> DEFINE primary == PortOf(s) = b.probe.primary /\ (b.probe.kind = "connect" \/ ~b.probe.reached)
           c == Closed(b, {s})
           pr == [b.probe EXCEPT !.active = @ \ {s}]
           without == [c EXCEPT !.probe.active = @ \ {s}]
           after == IF primary THEN StartFallbacks(without) ELSE without
           q == [after EXCEPT !.probe = NoProbe, !.connectionState = "disconnected"]
           f == PairingFailed(CancelProbe(after), b.probe.reached)
<1>b. /\ b \in Bridges /\ b.probe \in Probe /\ b.probe.reached \in BOOLEAN /\ s \in Sockets
      /\ b.probe.active \subseteq Sockets
    BY DEF Orderly, InOrder, Bridges, Probe
<1>k. b.probe.kind # "none"
    BY DEF Orderly, Talks, ProbesTalk
<1>1. /\ c \in Bridges /\ Clean(c.sockets) /\ c.probe = b.probe /\ c.desktopSocket = b.desktopSocket
      /\ c.connectionState = b.connectionState
      /\ \A t \in Sockets : c.sockets[t].mine = IF t = s THEN "none" ELSE b.sockets[t].mine
      /\ \A P \in SUBSET Ports : HasRoom(b, P) => HasRoom(c, P)
    BY <1>b, ClosingKeeps, ClosingFields DEF Orderly, InOrder
<1>2. /\ AllFresh(c.sockets) /\ OneAsks(c.sockets)
      /\ \A t \in Sockets : t # s => c.sockets[t] = b.sockets[t]
    BY ClosingTalks
<1> HIDE DEF c
<1>3. pr \in Probe /\ pr.active = b.probe.active \ {s} /\ pr.kind = b.probe.kind
      /\ pr.fallbacks = b.probe.fallbacks
    BY <1>b DEF Probe
<1>4. without = [c EXCEPT !.probe = pr]
    BY <1>1 DEF Bridges, Probe
<1> HIDE DEF pr, without
<1>5. /\ without \in Bridges /\ without.probe = pr /\ without.sockets = c.sockets
      /\ without.desktopSocket = c.desktopSocket /\ without.connectionState = b.connectionState
    BY <1>1, <1>3, <1>4 DEF Bridges
<1>6. s # b.desktopSocket
    BY DEF Orderly, InOrder, Apart
<1>7. InOrder(without)
    <2>1. Owned(without)
        BY <1>1, <1>3, <1>5, <1>6 DEF Orderly, InOrder, Owned
    <2>2. Apart(without)
        BY <1>1, <1>3, <1>5 DEF Orderly, InOrder, Apart
    <2> QED BY <1>1, <1>5, <2>1, <2>2 DEF InOrder
<1>8. Talks(without)
    <2>1. ProbesTalk(without)
        BY <1>b, <1>k, <1>2, <1>3, <1>5 DEF Orderly, Talks, ProbesTalk
    <2>2. b.desktopSocket # NoSocket =>
            b.desktopSocket \in Sockets /\ c.sockets[b.desktopSocket] = b.sockets[b.desktopSocket]
        BY <1>b, <1>2, <1>6 DEF Bridges
    <2>3. LinkIsQuiet(without) /\ ShownIsTrue(without)
        BY <1>1, <1>5, <2>2 DEF Orderly, Talks, LinkIsQuiet, ShownIsTrue
    <2> QED BY <1>2, <1>5, <2>1, <2>3 DEF Talks
<1>9. CanFallBack(without)
    <2>1. HasRoom(c, b.probe.fallbacks)
        <3> b.probe.fallbacks \in SUBSET Ports
            BY <1>b DEF Probe
        <3> QED BY <1>1 DEF CanFallBack
    <2> QED BY <1>3, <1>5, <2>1 DEF CanFallBack, HasRoom, Free
<1>10. Orderly(after) /\ after.connectionState = b.connectionState
    BY <1>k, <1>3, <1>5, <1>7, <1>8, <1>9, FallingBackTalks DEF Orderly
<1>11. OnProbeFailed(b, s) =
        IF after.probe.active # {} THEN after
        ELSE IF b.probe.kind = "pair" THEN f
        ELSE IF b.connectionState \in Halted THEN after
        ELSE ScheduleReconnect(q)
    BY DEF OnProbeFailed, c, without
<1> HIDE DEF after
<1>12. Orderly(f) /\ f.connectionState # "connected"
    BY <1>b, <1>10, CancellingTalks, FailingTalks
<1>13. ASSUME after.probe.active = {}
       PROVE  Orderly(ScheduleReconnect(q)) /\ ScheduleReconnect(q).connectionState = "disconnected"
    <2>1. /\ q \in Bridges /\ q.sockets = after.sockets /\ q.probe = NoProbe
          /\ q.desktopSocket = after.desktopSocket /\ q.connectionState = "disconnected"
        BY <1>10, SocketFacts DEF Orderly, InOrder, Bridges, States
    <2> HIDE DEF q
    <2>2. NoProbe.active = {} /\ NoProbe.kind = "none" /\ ~NoProbe.headStart
        BY DEF NoProbe
    <2>3. InOrder(q)
        BY <1>10, <1>13, <2>1, <2>2 DEF Orderly, InOrder, Owned, Apart
    <2>4. Talks(q)
        BY <1>10, <2>1, <2>2 DEF Orderly, Talks, ProbesTalk, LinkIsQuiet, ShownIsTrue
    <2> QED BY <2>1, <2>3, <2>4, SchedulingTalks DEF Orderly
<1> HIDE DEF f, q
<1> QED BY <1>10, <1>11, <1>12, <1>13 DEF Quieter

LEMMA OnCloseTalks ==
    ASSUME NEW b, Orderly(b), CanFallBack(b), NEW s \in Sockets, NEW failed \in BOOLEAN
    PROVE  Orderly(OnClose(b, s, failed)) /\ Quieter(b, OnClose(b, s, failed))
<1>1. CASE s = b.desktopSocket
    BY <1>1, OnConnectionClosedTalks DEF OnClose, Quieter
<1>2. CASE s # b.desktopSocket /\ s \in b.probe.active
    BY <1>2, OnProbeFailedTalks DEF OnClose
<1>3. CASE s # b.desktopSocket /\ s \notin b.probe.active
    <2> DEFINE c == Closed(b, {s})
    <2>1. /\ c.probe = b.probe /\ c.desktopSocket = b.desktopSocket
          /\ c.connectionState = b.connectionState
        BY ClosingFields DEF Orderly, InOrder
    <2>2. /\ AllFresh(c.sockets) /\ OneAsks(c.sockets)
          /\ \A t \in Sockets : t # s => c.sockets[t] = b.sockets[t]
        BY ClosingTalks
    <2>3. OnClose(b, s, failed) = c
        BY <1>3 DEF OnClose
    <2>4. InOrder(c)
        BY <2>3, OnCloseKeeps DEF Orderly
    <2> HIDE DEF c
    <2>5. \A t \in Sockets : t \in b.probe.active \cup {b.desktopSocket} =>
            c.sockets[t] = b.sockets[t]
        BY <1>3, <2>2
    <2>6. /\ b.desktopSocket # NoSocket => b.desktopSocket \in Sockets
          /\ b.probe.active \subseteq Sockets
        BY DEF Orderly, InOrder, Bridges, Probe
    <2>7. ProbesTalk(c) /\ LinkIsQuiet(c) /\ ShownIsTrue(c)
        BY <2>1, <2>5, <2>6 DEF Orderly, Talks, ProbesTalk, LinkIsQuiet, ShownIsTrue
    <2> QED BY <2>1, <2>2, <2>3, <2>4, <2>7 DEF Orderly, Talks, Quieter
<1> QED BY <1>1, <1>2, <1>3

LEMMA OnChangeTalks ==
    ASSUME NEW b, Orderly(b), CanProbe(b), NEW change \in Changes
    PROVE  Orderly(OnChange(b, change)) /\ Quieter(b, OnChange(b, change))
<1> DEFINE q == [b EXCEPT ![change.key] = change.value]
<1>b. b \in Bridges
    BY DEF Orderly, InOrder
<1>1. /\ q \in Bridges /\ q.sockets = b.sockets /\ q.probe = b.probe
      /\ q.desktopSocket = b.desktopSocket /\ q.connectionState = b.connectionState
    <2>1. CASE change.key = "pairToken" /\ change.value \in Keys \cup {None}
        <3> q = [b EXCEPT !.pairToken = change.value]
            BY <2>1
        <3> QED BY <1>b, <2>1 DEF Bridges
    <2>2. CASE change.key = "serverUrl" /\ change.value \in Ports
        <3> q = [b EXCEPT !.serverUrl = change.value]
            BY <2>2
        <3> QED BY <1>b, <2>2 DEF Bridges
    <2>3. CASE change.key = "shouldAutoSelectPort" /\ change.value \in BOOLEAN
        <3> q = [b EXCEPT !.shouldAutoSelectPort = change.value]
            BY <2>3
        <3> QED BY <1>b, <2>3 DEF Bridges
    <2> QED BY <2>1, <2>2, <2>3 DEF Changes
<1> HIDE DEF q
<1>2. Orderly(q)
    BY <1>1, Redecorated, TalksOn DEF Orderly, Quieter
<1>3. CanProbe(q)
    BY <1>b, <1>1, <1>2, RoomStays DEF Orderly
<1>4. Orderly(Connect(q, TRUE)) /\ Quieter(q, Connect(q, TRUE))
    BY <1>2, <1>3, ConnectTalks
<1>5. OnChange(b, change) = q \/ OnChange(b, change) = Connect(q, TRUE)
    BY DEF OnChange, q
<1> QED BY <1>1, <1>2, <1>4, <1>5 DEF Quieter

\* The service worker starts with no connection.
LEMMA SetupTalks ==
    ASSUME NEW stored \in Stored, NEW sockets \in [Sockets -> Socket], Clean(sockets),
           \A s \in Sockets : sockets[s].mine = "none", OneAsks(sockets),
           \A port \in Ports : \E n \in 1..MaxSockets : sockets[<<port, n>>] = Unused
    PROVE  /\ Orderly(Setup(stored, sockets))
           /\ Setup(stored, sockets).connectionState # "connected"
           /\ Setup(stored, sockets).desktopSocket = NoSocket
<1> DEFINE b == [pairToken |-> stored.pairToken, serverUrl |-> stored.serverUrl,
              shouldAutoSelectPort |-> stored.shouldAutoSelectPort,
              connectionState |-> "missing_token", desktopSocket |-> NoSocket, probe |-> NoProbe,
              reconnectTimer |-> FALSE, shouldRetryPairing |-> FALSE,
              sockets |-> sockets, stored |-> stored, saves |-> <<>>, changes |-> <<>>]
<1>1. /\ b \in Bridges /\ b.sockets = sockets /\ b.probe = NoProbe /\ b.desktopSocket = NoSocket
      /\ b.connectionState = "missing_token"
    <2> /\ <<>> \in Seq(Settings) /\ <<>> \in Seq(Changes)
        BY EmptySeq
    <2> QED BY SocketFacts DEF Bridges, Stored, States
<1>2. Setup(stored, sockets) = IF b.pairToken = None THEN RequestPairing(b) ELSE Connect(b, FALSE)
    BY DEF Setup
<1> HIDE DEF b
<1>3. NoProbe.active = {} /\ NoProbe.kind = "none" /\ ~NoProbe.headStart
    BY DEF NoProbe
<1>4. InOrder(b)
    BY <1>1, <1>3, SocketFacts DEF InOrder, Owned, Apart
<1>5. Talks(b)
    <2> AllFresh(sockets)
        BY DEF AllFresh, Fresh
    <2> QED BY <1>1, <1>3 DEF Talks, ProbesTalk, LinkIsQuiet, ShownIsTrue
<1>6. CanProbe(b)
    <2>1. CancelProbe(b).sockets = Closed(b, {}).sockets
        BY <1>1, <1>3, <1>4, CancellingKeeps
    <2>2. \A s \in Sockets : Closed(b, {}).sockets[s] = sockets[s]
        BY <1>1, ClosedSockets
    <2>3. ASSUME NEW port \in Ports PROVE Free(CancelProbe(b), port) # {}
        <3>1. PICK n \in 1..MaxSockets : sockets[<<port, n>>] = Unused
            OBVIOUS
        <3>2. <<port, n>> \in Sockets
            BY DEF Sockets
        <3> QED BY <2>1, <2>2, <3>1, <3>2 DEF Free
    <2> QED BY <2>3 DEF CanProbe, HasRoom
<1>7. /\ Orderly(RequestPairing(b)) /\ RequestPairing(b).connectionState # "connected"
      /\ RequestPairing(b).desktopSocket = NoSocket
    BY <1>1, <1>4, <1>5, <1>6, RequestPairingTalks DEF Orderly, Quieter
<1>8. /\ Orderly(Connect(b, FALSE)) /\ Connect(b, FALSE).connectionState # "connected"
      /\ Connect(b, FALSE).desktopSocket = NoSocket
    BY <1>1, <1>4, <1>5, <1>6, ConnectTalks DEF Orderly, Quieter
<1> QED BY <1>2, <1>7, <1>8

-----------------------------------------------------------------------------
(* Each step.  Moves is what a step may do to the link.                    *)

Moves(b, q) == b.desktopSocket = NoSocket \/ q.desktopSocket = NoSocket \/ Quieter(b, q)

Goal == Talks(bridge') /\ Moves(bridge, bridge')

LEMMA InitTalks == Init => TalkInv /\ bridge.desktopSocket = NoSocket
<1> SUFFICES ASSUME Init PROVE TalkInv /\ bridge.desktopSocket = NoSocket
    OBVIOUS
<1>1. BridgeInv
    BY InitBridgeInv
<1>2. PICK token \in {None, desktop.key}, auto \in BOOLEAN :
           bridge = Setup([pairToken |-> token, serverUrl |-> DefaultPort,
                           shouldAutoSelectPort |-> auto],
                          [s \in Sockets |-> Unused])
    BY DEF Init
<1> DEFINE stored == [pairToken |-> token, serverUrl |-> DefaultPort,
                      shouldAutoSelectPort |-> auto]
           sockets == [s \in Sockets |-> Unused]
<1>3. stored \in Stored
    BY <1>1, BridgeAssumption DEF Stored, BridgeInv
<1>4. sockets \in [Sockets -> Socket] /\ Clean(sockets)
    BY SocketFacts DEF Clean, Unused
<1>5. \A s \in Sockets : sockets[s].mine = "none" /\ ~sockets[s].asks
    BY DEF Unused
<1>6. \A port \in Ports : \E n \in 1..MaxSockets : sockets[<<port, n>>] = Unused
    <2> SUFFICES ASSUME NEW port \in Ports
                 PROVE  \E n \in 1..MaxSockets : sockets[<<port, n>>] = Unused
        OBVIOUS
    <2>1. 1 \in 1..MaxSockets
        BY BridgeAssumption
    <2>2. <<port, 1>> \in Sockets
        BY <2>1 DEF Sockets
    <2> QED BY <2>1, <2>2
<1> HIDE DEF stored, sockets
<1>7. OneAsks(sockets)
    BY <1>5 DEF OneAsks
<1>8. Orderly(Setup(stored, sockets)) /\ Setup(stored, sockets).desktopSocket = NoSocket
    BY <1>3, <1>4, <1>5, <1>6, <1>7, SetupTalks
<1> QED BY <1>1, <1>2, <1>8 DEF TalkInv, Orderly, stored, sockets

LEMMA OpeningTalks == ASSUME TalkInv, NEW s \in Sockets, SocketOpens(s) PROVE Goal
<1> DEFINE b == bridge
           x == [b.sockets[s] EXCEPT !.mine = "open", !.theirs = "open"]
           opened == [b EXCEPT !.sockets[s].mine = "open", !.sockets[s].theirs = "open"]
           r == WithSockets(b, [b.sockets EXCEPT ![s] = x])
           m == IF b.probe.kind = "pair" THEN [is |-> "pair"] ELSE Hello(b.pairToken)
           y == [x EXCEPT !.out = <<m>>]
           q == OnOpen(r, s)
<1>b. /\ Orderly(b) /\ b \in Bridges /\ b.sockets \in [Sockets -> Socket] /\ b.probe \in Probe
      /\ b.sockets[s] \in Socket /\ b.pairToken \in Keys \cup {None}
    BY DEF TalkInv, BridgeInv, Orderly, InOrder, Bridges
<1>1. b.sockets[s].mine = "connecting" /\ bridge' = OnOpen(opened, s)
    BY DEF SocketOpens, Handle
<1>2. /\ b.sockets[s].theirs = "none" /\ b.sockets[s].in = <<>> /\ b.sockets[s].out = <<>>
      /\ ~b.sockets[s].asks
    BY <1>b, <1>1 DEF Orderly, InOrder, Clean, Talks, AllFresh, Fresh
<1>3. opened = r
    BY <1>b DEF WithSockets, Bridges
<1>4. /\ x.mine = "open" /\ x.in = <<>> /\ x.out = <<>> /\ ~x.asks /\ x \in Socket
    BY <1>b, <1>2 DEF Socket
<1> HIDE DEF opened, x
<1>5. /\ r.sockets = [b.sockets EXCEPT ![s] = x] /\ r.probe = b.probe
      /\ r.desktopSocket = b.desktopSocket /\ r.connectionState = b.connectionState
      /\ r.pairToken = b.pairToken /\ r \in Bridges
    BY <1>b, <1>4 DEF WithSockets, Bridges
<1> HIDE DEF r
<1>6. /\ y.mine = "open" /\ y.in = <<>> /\ y.out = <<m>> /\ ~y.asks
    BY <1>4 DEF Socket
<1>7. r.sockets[s] = x /\ [r.sockets EXCEPT ![s].out = Append(@, m)] = [b.sockets EXCEPT ![s] = y]
    BY <1>b, <1>4, <1>5
<1> HIDE DEF y
<1>8. /\ q.sockets = [b.sockets EXCEPT ![s] = y] /\ q.desktopSocket = b.desktopSocket
      /\ q.probe.active = b.probe.active /\ q.probe.kind = b.probe.kind /\ Quieter(b, q)
      /\ q.probe.headStart => b.probe.headStart
    <2>1. CASE b.probe.kind = "pair"
        <3> DEFINE p == [r.probe EXCEPT !.reached = TRUE,
                                        !.headStart = @ /\ PortOf(s) # r.probe.primary]
                   f == [r.sockets EXCEPT ![s].out = Append(@, m)]
        <3>1. q = [r EXCEPT !.probe = p, !.sockets = f]
            BY <1>b, <1>5, <2>1 DEF OnOpen, Send, Bridges, Probe
        <3>2. /\ p.active = r.probe.active /\ p.kind = r.probe.kind
              /\ p.headStart => r.probe.headStart
            BY <1>b, <1>5 DEF Probe
        <3> HIDE DEF p, f, q
        <3>3. /\ q.sockets = f /\ q.desktopSocket = r.desktopSocket /\ q.probe = p
              /\ q.connectionState = r.connectionState
            BY <1>5, <3>1 DEF Bridges
        <3> QED BY <1>5, <1>7, <3>2, <3>3 DEF Quieter, f
    <2>2. CASE b.probe.kind # "pair"
        <3> DEFINE state == IF r.connectionState = "connecting" THEN "authenticating"
                            ELSE r.connectionState
                   f == [r.sockets EXCEPT ![s].out = Append(@, m)]
        <3>1. q = [r EXCEPT !.connectionState = state, !.sockets = f]
            BY <1>b, <1>5, <2>2 DEF OnOpen, Send, Bridges, Hello
        <3> HIDE DEF f, q, state
        <3>2. /\ q.sockets = f /\ q.desktopSocket = r.desktopSocket /\ q.probe = r.probe
              /\ q.connectionState = state
            BY <1>5, <3>1 DEF Bridges
        <3>3. state = "connected" => r.connectionState = "connected"
            BY DEF state
        <3> QED BY <1>5, <1>7, <3>2, <3>3 DEF Quieter, f
    <2> QED BY <2>1, <2>2
<1> HIDE DEF q
<1>9. s # b.desktopSocket
    BY <1>b, <1>1, SocketFacts DEF Orderly, Talks, LinkIsQuiet, Linked
<1>10. b.probe.kind = "connect" => Probing(y)
    BY <1>b, <1>6 DEF Probing, Asked, Told
<1>11. Fresh(y)
    BY <1>6 DEF Fresh
<1>12. Talks(q)
    BY <1>b, <1>6, <1>8, <1>9, <1>10, <1>11, OneTalks
<1> QED BY <1>1, <1>3, <1>8, <1>12 DEF Goal, Moves, q

LEMMA ArrivingTalks == ASSUME TalkInv, NEW s \in Sockets, MessageArrives(s) PROVE Goal
<1> DEFINE b == bridge
           m == Head(b.sockets[s].in)
           y == [b.sockets[s] EXCEPT !.in = Tail(@)]
           f == [b.sockets EXCEPT ![s] = y]
           q == [b EXCEPT !.sockets = f]
<1>b. /\ Orderly(b) /\ b \in Bridges /\ b.sockets \in [Sockets -> Socket]
      /\ b.sockets[s] \in Socket
    BY DEF TalkInv, BridgeInv, Orderly, InOrder, Bridges
<1>1. /\ b.sockets[s].mine = "open" /\ b.sockets[s].in # <<>>
      /\ bridge' = OnMessage([b EXCEPT !.sockets[s].in = Tail(@)], s, m)
    BY DEF MessageArrives, Handle
<1>2. [b EXCEPT !.sockets[s].in = Tail(@)] = q
    BY <1>b DEF Bridges
<1>3. /\ m \in Message /\ Tidy(f) /\ SameEnds(f, b.sockets)
    BY <1>b, <1>1, ReadingIsTidy DEF Orderly, InOrder, Tidy
<1>4. y.mine = "open" /\ y.in = Tail(b.sockets[s].in) /\ y.out = b.sockets[s].out
      /\ y.asks = b.sockets[s].asks /\ (Known(b.sockets[s]) => Known(y))
    BY <1>b, <1>1 DEF Socket, Known
<1>5. s # b.desktopSocket
    BY <1>b, <1>1, SocketFacts DEF Orderly, Talks, LinkIsQuiet, Linked
<1>6. ASSUME b.probe.kind = "connect", s \in b.probe.active
      PROVE  Linked(y) /\ (m.is = "ack" => Known(y)) /\ Probing(y)
    <2>1. Probing(b.sockets[s])
        BY <1>b, <1>6 DEF Orderly, Talks, ProbesTalk
    <2>2. \/ b.sockets[s].in = <<[is |-> "error"]>>
          \/ Known(b.sockets[s]) /\ b.sockets[s].in = <<[is |-> "ack"]>>
        BY <1>1, <2>1 DEF Probing, Told
    <2>3. y.in = <<>> /\ (m.is = "ack" => Known(b.sockets[s]))
        <3>1. \A message : Head(<<message>>) = message /\ Tail(<<message>>) = <<>>
            OBVIOUS
        <3>2. CASE b.sockets[s].in = <<[is |-> "error"]>>
            <4>1. m = [is |-> "error"] /\ Tail(b.sockets[s].in) = <<>>
                BY <3>1, <3>2
            <4>2. m.is # "ack"
                BY <4>1
            <4> QED BY <1>4, <4>1, <4>2
        <3>3. CASE Known(b.sockets[s]) /\ b.sockets[s].in = <<[is |-> "ack"]>>
            <4>1. Tail(b.sockets[s].in) = <<>>
                BY <3>1, <3>3
            <4> QED BY <1>4, <3>3, <4>1
        <3> QED BY <2>2, <3>2, <3>3
    <2>4. y.out = <<>> /\ ~y.asks
        BY <1>1, <1>4, <2>1 DEF Probing, Asked
    <2> QED BY <1>4, <2>3, <2>4 DEF Linked, Probing, Asked, Told
<1> HIDE DEF y, m
<1>7. q.sockets = f /\ q.desktopSocket = b.desktopSocket /\ q.probe = b.probe
      /\ q.connectionState = b.connectionState
    BY <1>b DEF Bridges
<1>8. InOrder(q)
    <2> HIDE DEF f
    <2> QED BY <1>b, <1>3, RewiredKeeps DEF Orderly
<1>9. q.sockets[s] = y
    BY <1>b, <1>7
<1> HIDE DEF q
<1>10. Fresh(y) /\ (y.asks => \A t \in Sockets \ {s} : ~b.sockets[t].asks)
    BY <1>b, <1>4 DEF Fresh, Orderly, Talks, OneAsks
<1>11. Talks(q)
    BY <1>b, <1>5, <1>6, <1>7, <1>10, OneTalks DEF Quieter
<1>12. /\ Orderly(OnMessage(q, s, m))
       /\ q.desktopSocket = NoSocket \/ Quieter(q, OnMessage(q, s, m))
    BY <1>3, <1>5, <1>6, <1>7, <1>8, <1>9, <1>11, OnMessageTalks DEF Orderly
<1> QED BY <1>1, <1>2, <1>7, <1>12 DEF Goal, Moves, Orderly, Quieter

LEMMA SocketEventTalks == TalkInv /\ SocketEvent => Goal
<1> SUFFICES ASSUME TalkInv, NEW s \in Sockets,
                    SocketOpens(s) \/ SocketFails(s) \/ MessageArrives(s) \/ SocketCloses(s)
             PROVE  Goal
    BY DEF SocketEvent
<1>b. Orderly(bridge)
    BY DEF TalkInv, BridgeInv, Orderly
<1>1. CASE SocketFails(s)
    <2>1. Orderly(OnClose(bridge, s, TRUE)) /\ Quieter(bridge, OnClose(bridge, s, TRUE))
        BY <1>b, <1>1, OnCloseTalks DEF SocketFails
    <2> QED BY <1>1, <2>1 DEF SocketFails, Handle, Goal, Moves, Orderly
<1>2. CASE SocketCloses(s)
    <2>1. \A failed \in BOOLEAN : /\ Orderly(OnClose(bridge, s, failed))
                                  /\ Quieter(bridge, OnClose(bridge, s, failed))
        BY <1>b, <1>2, OnCloseTalks DEF SocketCloses
    <2> QED BY <1>2, <2>1 DEF SocketCloses, Handle, Goal, Moves, Orderly
<1> QED BY <1>1, <1>2, OpeningTalks, ArrivingTalks

LEMMA TimersTalk ==
    TalkInv /\ (HeadStartEnds \/ PairingTimesOut \/ ReconnectTimerFires \/ Alarm) => Goal
<1> SUFFICES ASSUME TalkInv,
                    HeadStartEnds \/ PairingTimesOut \/ ReconnectTimerFires \/ Alarm
             PROVE  Goal
    OBVIOUS
<1>b. Orderly(bridge) /\ bridge \in Bridges /\ bridge.probe.reached \in BOOLEAN
    BY DEF TalkInv, BridgeInv, Orderly, InOrder, Bridges, Probe
<1>1. CASE HeadStartEnds
    <2>1. bridge.probe.kind # "none"
        BY <1>b, <1>1 DEF HeadStartEnds, Orderly, Talks, ProbesTalk
    <2>2. /\ Orderly(StartFallbacks(bridge))
          /\ StartFallbacks(bridge).connectionState = bridge.connectionState
        BY <1>b, <1>1, <2>1, FallingBackTalks DEF HeadStartEnds
    <2> QED BY <1>1, <2>2 DEF HeadStartEnds, Handle, Goal, Moves, Orderly, Quieter
<1>2. CASE PairingTimesOut
    <2>1. /\ Orderly(PairingFailed(CancelProbe(bridge), bridge.probe.reached))
          /\ PairingFailed(CancelProbe(bridge), bridge.probe.reached).connectionState # "connected"
        BY <1>b, CancellingTalks, FailingTalks
    <2> QED BY <1>2, <2>1 DEF PairingTimesOut, Handle, Goal, Moves, Orderly, Quieter
<1>3. CASE ReconnectTimerFires
    <2> DEFINE q == [bridge EXCEPT !.reconnectTimer = FALSE]
    <2>1. /\ q \in Bridges /\ q.sockets = bridge.sockets /\ q.probe = bridge.probe
          /\ q.desktopSocket = bridge.desktopSocket /\ q.connectionState = bridge.connectionState
        BY <1>b DEF Bridges
    <2> HIDE DEF q
    <2>2. Orderly(q)
        BY <1>b, <2>1, Redecorated, TalksOn DEF Orderly, Quieter
    <2>3. CanProbe(q)
        BY <1>b, <1>3, <2>1, <2>2, RoomStays DEF ReconnectTimerFires, Orderly
    <2>4. Orderly(Connect(q, FALSE)) /\ Quieter(q, Connect(q, FALSE))
        BY <2>2, <2>3, ConnectTalks
    <2> QED BY <1>3, <2>1, <2>4 DEF ReconnectTimerFires, Handle, Goal, Moves, Orderly, Quieter, q
<1>4. CASE Alarm
    <2>1. Orderly(Connect(bridge, FALSE)) /\ Quieter(bridge, Connect(bridge, FALSE))
        BY <1>b, <1>4, ConnectTalks DEF Alarm
    <2>2. Orderly(RequestPairing(bridge)) /\ Quieter(bridge, RequestPairing(bridge))
        BY <1>b, <1>4, RequestPairingTalks DEF Alarm
    <2> QED BY <1>4, <2>1, <2>2 DEF Alarm, Handle, Goal, Moves, Orderly
<1> QED BY <1>1, <1>2, <1>3, <1>4

LEMMA StorageTalks == TalkInv /\ (SaveEnds \/ ChangeArrives) => Goal
<1> SUFFICES ASSUME TalkInv, SaveEnds \/ ChangeArrives PROVE Goal
    OBVIOUS
<1>b. /\ Orderly(bridge) /\ bridge \in Bridges
      /\ bridge.saves \in Seq(Settings) /\ bridge.changes \in Seq(Changes)
    BY DEF TalkInv, BridgeInv, Orderly, InOrder, Bridges
<1>1. CASE SaveEnds
    <2> DEFINE q == [bridge EXCEPT !.saves = Tail(@)]
    <2>1. Tail(bridge.saves) \in Seq(Settings)
        BY <1>b, <1>1, HeadTailProperties DEF SaveEnds
    <2>2. /\ q \in Bridges /\ q.sockets = bridge.sockets /\ q.probe = bridge.probe
          /\ q.desktopSocket = bridge.desktopSocket /\ q.connectionState = bridge.connectionState
        BY <1>b, <2>1 DEF Bridges
    <2> HIDE DEF q
    <2>3. Orderly(q)
        BY <1>b, <2>2, Redecorated, TalksOn DEF Orderly, Quieter
    <2>4. CanProbe(q)
        BY <1>b, <1>1, <2>2, <2>3, RoomStays DEF SaveEnds, Orderly
    <2>5. LET r == AfterSave(q, Head(bridge.saves)) IN Orderly(r) /\ Quieter(q, r)
        BY <2>3, <2>4, AfterSaveTalks
    <2> QED BY <1>1, <2>2, <2>5 DEF SaveEnds, Goal, Moves, Orderly, Quieter, q
<1>2. CASE ChangeArrives
    <2> DEFINE q == [bridge EXCEPT !.changes = Tail(@)]
    <2>1. Tail(bridge.changes) \in Seq(Changes) /\ Head(bridge.changes) \in Changes
        BY <1>b, <1>2, HeadTailProperties DEF ChangeArrives
    <2>2. /\ q \in Bridges /\ q.sockets = bridge.sockets /\ q.probe = bridge.probe
          /\ q.desktopSocket = bridge.desktopSocket /\ q.connectionState = bridge.connectionState
        BY <1>b, <2>1 DEF Bridges
    <2> HIDE DEF q
    <2>3. Orderly(q)
        BY <1>b, <2>2, Redecorated, TalksOn DEF Orderly, Quieter
    <2>4. CanProbe(q)
        BY <1>b, <1>2, <2>2, <2>3, RoomStays DEF ChangeArrives, Orderly
    <2>5. LET r == OnChange(q, Head(bridge.changes)) IN Orderly(r) /\ Quieter(q, r)
        BY <2>1, <2>3, <2>4, OnChangeTalks
    <2> QED BY <1>2, <2>2, <2>5 DEF ChangeArrives, Handle, Goal, Moves, Orderly, Quieter, q
<1> QED BY <1>1, <1>2

LEMMA RestartTalks == TalkInv /\ Restart => Goal
<1> SUFFICES ASSUME TalkInv, Restart PROVE Goal
    OBVIOUS
<1> DEFINE c == Closed(bridge, Sockets)
<1>1. /\ Orderly(bridge) /\ bridge \in Bridges /\ Clean(bridge.sockets)
      /\ bridge.stored \in Stored
    BY DEF TalkInv, BridgeInv, Orderly, InOrder, Bridges
<1>2. /\ c \in Bridges /\ Clean(c.sockets)
      /\ \A s \in Sockets : c.sockets[s].mine = "none"
    BY <1>1, ClosingKeeps
<1>3. HasRoom(c, Ports) /\ OneAsks(c.sockets)
    BY <1>1, ClosingTalks DEF Restart
<1> HIDE DEF c
<1>4. \A port \in Ports : \E n \in 1..MaxSockets : c.sockets[<<port, n>>] = Unused
    BY <1>3 DEF HasRoom, Free
<1>5. c.sockets \in [Sockets -> Socket]
    BY <1>2 DEF Bridges
<1>6. /\ Orderly(Setup(bridge.stored, c.sockets))
      /\ Setup(bridge.stored, c.sockets).connectionState # "connected"
    BY <1>1, <1>2, <1>3, <1>4, <1>5, SetupTalks
<1> QED BY <1>6 DEF Restart, Goal, Moves, Orderly, Quieter, c

LEMMA UserTalks == TalkInv /\ User => Goal
<1> SUFFICES ASSUME TalkInv, User PROVE Goal
    OBVIOUS
<1>b. Orderly(bridge) /\ bridge \in Bridges
    BY DEF TalkInv, BridgeInv, Orderly, InOrder
<1> SUFFICES Orderly(bridge') /\ Quieter(bridge, bridge')
    BY DEF Goal, Moves, Orderly
<1>1. CASE Refresh
    <2>1. Orderly(Connect(bridge, TRUE)) /\ Quieter(bridge, Connect(bridge, TRUE))
        BY <1>b, <1>1, ConnectTalks DEF Refresh, Command
    <2> QED BY <1>1, <2>1 DEF Refresh, Command
<1>2. CASE Pair
    <2>1. Orderly(RequestPairing(bridge)) /\ Quieter(bridge, RequestPairing(bridge))
        BY <1>b, <1>2, RequestPairingTalks DEF Pair, Command
    <2> QED BY <1>2, <2>1 DEF Pair, Command
<1>3. CASE EnterToken
    <2>1. \A token \in {None} \cup Keys : /\ Orderly(SetToken(bridge, token))
                                          /\ Quieter(bridge, SetToken(bridge, token))
        BY <1>b, SettingTokenTalks
    <2> QED BY <1>3, <2>1 DEF EnterToken, Command
<1>4. CASE EnterUrl
    <2>1. ASSUME NEW url \in Ports
          PROVE  LET r == Saved([bridge EXCEPT !.serverUrl = url], "serverUrl", url)
                 IN  Orderly(r) /\ Quieter(bridge, r)
        <3> DEFINE q == [bridge EXCEPT !.serverUrl = url]
        <3>1. /\ q \in Bridges /\ q.sockets = bridge.sockets /\ q.probe = bridge.probe
              /\ q.desktopSocket = bridge.desktopSocket
              /\ q.connectionState = bridge.connectionState
            BY <1>b DEF Bridges
        <3>2. [key |-> "serverUrl", value |-> url] \in Changes
            BY DEF Changes
        <3> HIDE DEF q
        <3>3. Orderly(q)
            BY <1>b, <3>1, Redecorated, TalksOn DEF Orderly, Quieter
        <3>4. /\ Orderly(Saved(q, "serverUrl", url))
              /\ Quieter(q, Saved(q, "serverUrl", url))
            BY <3>2, <3>3, SavingTalks
        <3> QED BY <3>1, <3>4 DEF q, Quieter
    <2> QED BY <1>4, <2>1 DEF EnterUrl, Command
<1>5. CASE SwitchAutoSelect
    <2> DEFINE value == ~bridge.stored.shouldAutoSelectPort
               r == SavedAside(bridge, "shouldAutoSelectPort", value)
    <2>1. [key |-> "shouldAutoSelectPort", value |-> value] \in Changes
        BY DEF Changes
    <2> HIDE DEF value
    <2>2. Orderly(r) /\ Quieter(bridge, r)
        BY <1>b, <2>1, SavingTalks
    <2> QED BY <1>5, <2>2 DEF SwitchAutoSelect, Command, value
<1> QED BY <1>1, <1>2, <1>3, <1>4, <1>5 DEF User

-----------------------------------------------------------------------------
(* The steps of the program.                                               *)

\* _send, for the socket alone.
WithAnswer(socket, m) ==
    IF socket.theirs = "open" /\ socket.mine = "open"
    THEN [socket EXCEPT !.in = Append(@, m)] ELSE socket

LEMMA AnsweringOne ==
    ASSUME NEW g \in [Sockets -> Socket], NEW s \in Sockets, NEW x \in Socket, NEW m
    PROVE  Answered([g EXCEPT ![s] = x], s, m) = [g EXCEPT ![s] = WithAnswer(x, m)]
BY DEF Answered, WithAnswer

LEMMA WithAnswerFields ==
    ASSUME NEW x \in Socket, NEW m
    PROVE  LET y == WithAnswer(x, m)
           IN  /\ y.mine = x.mine /\ y.theirs = x.theirs /\ y.out = x.out /\ y.asks = x.asks
               /\ y.authenticated = x.authenticated
               /\ y.in = x.in \/ (x.mine = "open" /\ y.in = Append(x.in, m))
BY DEF WithAnswer, Socket

\* What the program does to one socket.
LEMMA ProgramTalks ==
    ASSUME TalkInv, NEW s \in Sockets, NEW y,
           bridge' = [bridge EXCEPT !.sockets = [bridge.sockets EXCEPT ![s] = y]],
           Fresh(y),
           bridge.probe.kind = "connect" /\ s \in bridge.probe.active => Probing(y),
           s = bridge.desktopSocket => Linked(y) /\ (Known(bridge.sockets[s]) => Known(y)),
           y.asks => \A t \in Sockets \ {s} : ~bridge.sockets[t].asks
    PROVE  Goal
<1> DEFINE f == [bridge.sockets EXCEPT ![s] = y]
           q == [bridge EXCEPT !.sockets = f]
<1>1. Orderly(bridge) /\ bridge \in Bridges
    BY DEF TalkInv, BridgeInv, Orderly, InOrder
<1>2. /\ q.sockets = f /\ q.desktopSocket = bridge.desktopSocket /\ q.probe = bridge.probe
      /\ q.connectionState = bridge.connectionState
    BY <1>1 DEF Bridges
<1>3. bridge' = q
    OBVIOUS
<1> HIDE DEF q
<1>4. Talks(q)
    BY <1>1, <1>2, OneTalks DEF Quieter
<1> QED BY <1>2, <1>3, <1>4 DEF Goal, Moves, Quieter

LEMMA ReceivingTalks == ASSUME TalkInv, NEW s \in Sockets, Receive(s) PROVE Goal
<1> DEFINE b == bridge
           x == b.sockets[s]
           m == Head(x.out)
           read == [x EXCEPT !.out = Tail(@)]
           f == [b.sockets EXCEPT ![s] = read]
           known == [read EXCEPT !.authenticated = TRUE]
           asking == [read EXCEPT !.asks = TRUE]
           ack == WithAnswer(known, [is |-> "ack"])
           error == WithAnswer(read, [is |-> "error"])
           dropped == [error EXCEPT !.theirs = "closing"]
           refused == WithAnswer(read, [is |-> "refused"])
<1>b. /\ Orderly(b) /\ b.sockets \in [Sockets -> Socket] /\ x \in Socket /\ Fresh(x)
      /\ \A t \in Sockets : b.sockets[t] \in Socket
    BY DEF TalkInv, BridgeInv, Orderly, InOrder, Bridges, Talks, AllFresh
<1>1. /\ x.theirs # "none" /\ x.out # <<>>
      /\ bridge' = [b EXCEPT !.sockets = IF m.is = "hello" THEN OnHello(f, s, m)
                                         ELSE OnPairRequested(f, s)]
    BY <1>b DEF Receive, Handle
<1>2. m \in Message /\ Tail(x.out) \in Seq(Message) /\ x.mine # "connecting"
    BY <1>b, <1>1, HeadTailProperties DEF Socket, Fresh
<1>3. /\ read \in Socket /\ read.mine = x.mine /\ read.theirs = x.theirs /\ read.in = x.in
      /\ read.out = Tail(x.out) /\ read.asks = x.asks /\ read.authenticated = x.authenticated
    BY <1>b, <1>2 DEF Socket
<1>4. s # b.desktopSocket
    BY <1>b, <1>1, SocketFacts DEF Orderly, Talks, LinkIsQuiet, Linked
<1>5. ASSUME b.probe.kind = "connect", s \in b.probe.active
      PROVE  x.in = <<>> /\ Tail(x.out) = <<>> /\ m.is = "hello" /\ ~x.asks
    <2>1. Probing(x)
        BY <1>b, <1>5 DEF Orderly, Talks, ProbesTalk
    <2>2. PICK token \in Keys \cup {None} : x.out = <<Hello(token)>>
        BY <1>1, <2>1 DEF Probing, Asked
    <2>3. m = Hello(token) /\ Tail(x.out) = <<>>
        <3> \A message : Head(<<message>>) = message /\ Tail(<<message>>) = <<>>
            OBVIOUS
        <3> QED BY <2>2
    <2>4. m.is = "hello"
        <3> HIDE DEF m
        <3> QED BY <2>3 DEF Hello
    <2> QED BY <1>1, <2>1, <2>3, <2>4 DEF Probing, Asked
<1> HIDE DEF read, m
<1>6. f[s] = read /\ \A t \in Sockets \ {s} : f[t] = b.sockets[t]
    BY <1>b
<1>7. /\ known \in Socket /\ known.mine = x.mine /\ known.theirs = x.theirs /\ known.in = x.in
      /\ known.out = Tail(x.out) /\ known.asks = x.asks /\ known.authenticated
    BY <1>3 DEF Socket
<1>8. /\ asking.mine = x.mine /\ asking.theirs = x.theirs /\ asking.in = x.in
    BY <1>3 DEF Socket
<1>9. CASE m.is = "hello" /\ m.token = desktop.key
    <2>1. OnHello(f, s, m) = [b.sockets EXCEPT ![s] = ack]
        <3>1. [f EXCEPT ![s].authenticated = TRUE] = [b.sockets EXCEPT ![s] = known]
            BY <1>b, <1>6
        <3> HIDE DEF f, known
        <3>2. Answered([b.sockets EXCEPT ![s] = known], s, [is |-> "ack"])
                = [b.sockets EXCEPT ![s] = ack]
            BY <1>b, <1>7, AnsweringOne
        <3> QED BY <1>9, <3>1, <3>2 DEF OnHello
    <2> HIDE DEF known
    <2>2. /\ ack.mine = x.mine /\ ack.theirs = x.theirs /\ ack.out = Tail(x.out)
          /\ ack.asks = x.asks /\ ack.authenticated
          /\ ack.in = x.in \/ ack.in = Append(x.in, [is |-> "ack"])
        BY <1>7, WithAnswerFields
    <2> HIDE DEF ack
    <2>3. Fresh(ack) /\ (ack.asks => \A t \in Sockets \ {s} : ~b.sockets[t].asks)
        BY <1>b, <1>2, <2>2 DEF Fresh, Orderly, Talks, OneAsks
    <2>4. ASSUME b.probe.kind = "connect", s \in b.probe.active PROVE Probing(ack)
        BY <1>5, <2>2, <2>4 DEF Probing, Asked, Told, Known
    <2>5. bridge' = [b EXCEPT !.sockets = [b.sockets EXCEPT ![s] = ack]]
        BY <1>1, <1>9, <2>1
    <2> HIDE DEF b
    <2> QED BY <1>4, <2>3, <2>4, <2>5, ProgramTalks DEF b
<1>10. CASE m.is = "hello" /\ m.token # desktop.key
    <2>1. OnHello(f, s, m) = [b.sockets EXCEPT ![s] = dropped]
        <3>1. Answered(f, s, [is |-> "error"]) = [b.sockets EXCEPT ![s] = error]
            BY <1>b, <1>3, AnsweringOne
        <3> HIDE DEF f, error
        <3>2. [[b.sockets EXCEPT ![s] = error] EXCEPT ![s].theirs = "closing"]
                = [b.sockets EXCEPT ![s] = dropped]
            BY <1>b
        <3> QED BY <1>10, <3>1, <3>2 DEF OnHello
    <2>2. /\ error.mine = x.mine /\ error.out = Tail(x.out) /\ error.asks = x.asks
          /\ error.in = x.in \/ error.in = Append(x.in, [is |-> "error"])
        BY <1>3, WithAnswerFields
    <2>3. error \in [mine : {x.mine}, theirs : {x.theirs}, authenticated : {x.authenticated},
                     asks : {x.asks}, out : {Tail(x.out)}, in : {x.in, Append(x.in, [is |-> "error"])}]
        BY <1>3 DEF WithAnswer, Socket
    <2> HIDE DEF error
    <2>4. /\ dropped.mine = x.mine /\ dropped.theirs = "closing" /\ dropped.out = Tail(x.out)
          /\ dropped.asks = x.asks
          /\ dropped.in = x.in \/ dropped.in = Append(x.in, [is |-> "error"])
        BY <2>3
    <2> HIDE DEF dropped
    <2>5. Fresh(dropped) /\ (dropped.asks => \A t \in Sockets \ {s} : ~b.sockets[t].asks)
        BY <1>b, <1>2, <2>4 DEF Fresh, Orderly, Talks, OneAsks
    <2>6. ASSUME b.probe.kind = "connect", s \in b.probe.active PROVE Probing(dropped)
        BY <1>5, <2>4, <2>6 DEF Probing, Asked, Told, Known
    <2>7. bridge' = [b EXCEPT !.sockets = [b.sockets EXCEPT ![s] = dropped]]
        BY <1>1, <1>10, <2>1
    <2> HIDE DEF b
    <2> QED BY <1>4, <2>5, <2>6, <2>7, ProgramTalks DEF b
<1>11. CASE m.is # "hello" /\ \E t \in Sockets \ {s} : f[t].asks
    <2>1. OnPairRequested(f, s) = [b.sockets EXCEPT ![s] = refused]
        <3>1. Answered(f, s, [is |-> "refused"]) = [b.sockets EXCEPT ![s] = refused]
            BY <1>b, <1>3, AnsweringOne
        <3> QED BY <1>11, <3>1 DEF OnPairRequested
    <2>2. refused.mine = x.mine /\ refused.asks = x.asks
        BY <1>3, WithAnswerFields
    <2> HIDE DEF refused
    <2>3. Fresh(refused) /\ (refused.asks => \A t \in Sockets \ {s} : ~b.sockets[t].asks)
        BY <1>b, <1>2, <2>2 DEF Fresh, Orderly, Talks, OneAsks
    <2>4. bridge' = [b EXCEPT !.sockets = [b.sockets EXCEPT ![s] = refused]]
        BY <1>1, <1>11, <2>1
    <2> HIDE DEF b
    <2> QED BY <1>4, <1>5, <1>11, <2>3, <2>4, ProgramTalks DEF b
<1>12. CASE m.is # "hello" /\ ~(\E t \in Sockets \ {s} : f[t].asks)
    <2>1. OnPairRequested(f, s) = [b.sockets EXCEPT ![s] = asking]
        <3>1. [f EXCEPT ![s].asks = TRUE] = [b.sockets EXCEPT ![s] = asking]
            BY <1>b, <1>6
        <3> QED BY <1>12, <3>1 DEF OnPairRequested
    <2>2. \A t \in Sockets \ {s} : ~b.sockets[t].asks
        BY <1>6, <1>12
    <2> HIDE DEF asking
    <2>3. Fresh(asking)
        BY <1>2, <1>8 DEF Fresh
    <2>4. bridge' = [b EXCEPT !.sockets = [b.sockets EXCEPT ![s] = asking]]
        BY <1>1, <1>12, <2>1
    <2> HIDE DEF b
    <2> QED BY <1>4, <1>5, <1>12, <2>2, <2>3, <2>4, ProgramTalks DEF b
<1> QED BY <1>9, <1>10, <1>11, <1>12

\* What is left of a session the program drops plays the same part.
LEMMA ForgettingTalks ==
    ASSUME NEW x \in Socket
    PROVE  LET y == Forgotten(x)
           IN  /\ Fresh(x) => Fresh(y)
               /\ Probing(x) => Probing(y)
               /\ Linked(x) => Linked(y)
               /\ Known(y) /\ ~y.asks
<1> DEFINE y == Forgotten(x)
<1>1. /\ y.mine = x.mine /\ y.in = x.in /\ y.theirs = "none" /\ y.out = <<>> /\ ~y.asks
    BY DEF Forgotten, Socket
<1> HIDE DEF y
<1>2. Probing(x) => Probing(y)
    BY <1>1 DEF Probing, Asked, Told, Known
<1> QED BY <1>1, <1>2 DEF Fresh, Linked, Known, y

LEMMA NoticingTalks == ASSUME TalkInv, NEW s \in Sockets, Notice(s) PROVE Goal
<1> DEFINE y == Forgotten(bridge.sockets[s])
<1>b. /\ bridge \in Bridges /\ bridge.sockets[s] \in Socket /\ Fresh(bridge.sockets[s])
      /\ Talks(bridge)
    BY DEF TalkInv, BridgeInv, InOrder, Bridges, Talks, AllFresh
<1>1. bridge' = [bridge EXCEPT !.sockets = [bridge.sockets EXCEPT ![s] = y]]
    BY <1>b DEF Notice, Handle, Bridges
<1>2. /\ Fresh(y) /\ Known(y) /\ ~y.asks
      /\ Probing(bridge.sockets[s]) => Probing(y)
      /\ Linked(bridge.sockets[s]) => Linked(y)
    BY <1>b, ForgettingTalks
<1> HIDE DEF y
<1>3. bridge.probe.kind = "connect" /\ s \in bridge.probe.active => Probing(y)
    BY <1>b, <1>2 DEF Talks, ProbesTalk
<1>4. s = bridge.desktopSocket => Linked(y)
    BY <1>b, <1>2, SocketFacts DEF Talks, LinkIsQuiet
<1> QED BY <1>1, <1>2, <1>3, <1>4, ProgramTalks

LEMMA DecidingTalks == ASSUME TalkInv, NEW s \in Sockets, DecidePair(s) PROVE Goal
<1> DEFINE x == bridge.sockets[s]
           decided == [x EXCEPT !.asks = FALSE]
<1>b. /\ bridge \in Bridges /\ bridge.sockets \in [Sockets -> Socket] /\ x \in Socket /\ Fresh(x)
      /\ Talks(bridge) /\ Clean(bridge.sockets)
    BY DEF TalkInv, BridgeInv, InOrder, Bridges, Talks, AllFresh
<1>1. PICK answer : bridge' = [bridge EXCEPT !.sockets =
                        Answered([bridge.sockets EXCEPT ![s] = decided], s, answer)]
    BY <1>b DEF DecidePair, Handle, Bridges
<1> DEFINE y == WithAnswer(decided, answer)
<1>2. decided \in Socket /\ decided.mine = x.mine /\ ~decided.asks
    BY <1>b DEF Socket
<1>3. x.asks
    BY DEF DecidePair
<1> HIDE DEF decided
<1>4. bridge' = [bridge EXCEPT !.sockets = [bridge.sockets EXCEPT ![s] = y]]
    BY <1>b, <1>1, <1>2, AnsweringOne
<1>5. y.mine = x.mine /\ ~y.asks
    BY <1>2, WithAnswerFields
<1> HIDE DEF y
<1>6. x.mine # "connecting"
    BY <1>b, <1>3 DEF Fresh, Clean
<1>7. Fresh(y)
    BY <1>5, <1>6 DEF Fresh
<1>8. ~(bridge.probe.kind = "connect" /\ s \in bridge.probe.active)
    BY <1>b, <1>3 DEF Talks, ProbesTalk, Probing
<1>9. s # bridge.desktopSocket
    BY <1>b, <1>3, SocketFacts DEF Talks, LinkIsQuiet, Linked
<1> QED BY <1>4, <1>5, <1>7, <1>8, <1>9, ProgramTalks

\* The program changes every socket, and each keeps its part.
LEMMA EachTalks ==
    ASSUME TalkInv, NEW f \in [Sockets -> Socket],
           bridge' = [bridge EXCEPT !.sockets = f],
           \A s \in Sockets : /\ Fresh(bridge.sockets[s]) => Fresh(f[s])
                              /\ Probing(bridge.sockets[s]) => Probing(f[s])
                              /\ Linked(bridge.sockets[s]) => Linked(f[s])
                              /\ Known(bridge.sockets[s]) => Known(f[s])
                              /\ f[s].asks => bridge.sockets[s].asks
    PROVE  Goal
<1> DEFINE q == [bridge EXCEPT !.sockets = f]
<1>1. /\ Talks(bridge) /\ bridge \in Bridges /\ bridge.probe.active \subseteq Sockets
      /\ bridge.desktopSocket # NoSocket => bridge.desktopSocket \in Sockets
    BY DEF TalkInv, BridgeInv, InOrder, Bridges, Probe
<1>2. /\ q.sockets = f /\ q.desktopSocket = bridge.desktopSocket /\ q.probe = bridge.probe
      /\ q.connectionState = bridge.connectionState
    BY <1>1 DEF Bridges
<1>3. bridge' = q
    OBVIOUS
<1> HIDE DEF q
<1>4. ProbesTalk(q)
    BY <1>1, <1>2 DEF Talks, ProbesTalk
<1>5. LinkIsQuiet(q) /\ ShownIsTrue(q)
    BY <1>1, <1>2 DEF Talks, LinkIsQuiet, ShownIsTrue
<1>6. AllFresh(q.sockets) /\ OneAsks(q.sockets)
    BY <1>1, <1>2 DEF Talks, AllFresh, OneAsks
<1> QED BY <1>2, <1>3, <1>4, <1>5, <1>6 DEF Goal, Moves, Quieter, Talks

LEMMA RegeneratingTalks == ASSUME TalkInv, RegenerateToken PROVE Goal
<1> DEFINE y(socket) == [socket EXCEPT !.theirs = "closing", !.authenticated = FALSE]
           f == [s \in Sockets |->
                    IF bridge.sockets[s].theirs # "open" THEN bridge.sockets[s]
                    ELSE y(bridge.sockets[s])]
<1>b. bridge \in Bridges /\ bridge.sockets \in [Sockets -> Socket]
    BY DEF TalkInv, BridgeInv, InOrder, Bridges
<1>1. bridge' = [bridge EXCEPT !.sockets = f]
    BY <1>b DEF RegenerateToken, Bridges
<1>2. ASSUME NEW x \in Socket, x.theirs = "open"
      PROVE  /\ y(x) \in Socket
             /\ Fresh(x) => Fresh(y(x))
             /\ Probing(x) => Probing(y(x))
             /\ Linked(x) => Linked(y(x))
             /\ Known(y(x)) /\ y(x).asks = x.asks
    <2>1. /\ y(x) \in Socket /\ y(x).mine = x.mine /\ y(x).in = x.in /\ y(x).out = x.out
          /\ y(x).theirs = "closing" /\ y(x).asks = x.asks
        BY DEF Socket
    <2> HIDE DEF y
    <2>2. Probing(x) => Probing(y(x))
        BY <2>1 DEF Probing, Asked, Told, Known
    <2> QED BY <1>2, <2>1, <2>2 DEF Fresh, Linked, Known
<1>3. \A s \in Sockets : f[s] = IF bridge.sockets[s].theirs # "open" THEN bridge.sockets[s]
                                ELSE y(bridge.sockets[s])
    OBVIOUS
<1> HIDE DEF y
<1>4. f \in [Sockets -> Socket]
    BY <1>b, <1>2
<1> HIDE DEF f
<1>5. \A s \in Sockets : /\ Fresh(bridge.sockets[s]) => Fresh(f[s])
                         /\ Probing(bridge.sockets[s]) => Probing(f[s])
                         /\ Linked(bridge.sockets[s]) => Linked(f[s])
                         /\ Known(bridge.sockets[s]) => Known(f[s])
                         /\ f[s].asks => bridge.sockets[s].asks
    BY <1>b, <1>2, <1>3
<1> QED BY <1>1, <1>4, <1>5, EachTalks

LEMMA StoppingTalks == ASSUME TalkInv, Stop PROVE Goal
<1> DEFINE f == [s \in Sockets |-> Forgotten(bridge.sockets[s])]
<1>b. bridge \in Bridges /\ bridge.sockets \in [Sockets -> Socket] /\ Tidy(bridge.sockets)
    BY DEF TalkInv, BridgeInv, InOrder, Bridges, Tidy
<1>1. bridge' = [bridge EXCEPT !.sockets = f]
    BY <1>b DEF Stop, Bridges
<1>2. \A s \in Sockets : Forgotten(bridge.sockets[s]) \in Socket
    BY <1>b, SocketIsTidy, ForgettingIsTidy
<1>3. f \in [Sockets -> Socket] /\ \A s \in Sockets : f[s] = Forgotten(bridge.sockets[s])
    BY <1>2
<1> HIDE DEF f
<1>4. \A s \in Sockets : /\ Fresh(bridge.sockets[s]) => Fresh(f[s])
                         /\ Probing(bridge.sockets[s]) => Probing(f[s])
                         /\ Linked(bridge.sockets[s]) => Linked(f[s])
                         /\ Known(bridge.sockets[s]) => Known(f[s])
                         /\ f[s].asks => bridge.sockets[s].asks
    BY <1>b, <1>3, ForgettingTalks
<1> QED BY <1>1, <1>3, <1>4, EachTalks

-----------------------------------------------------------------------------
(* The theorems.                                                           *)

LEMMA NextTalks == TalkInv /\ [Next]_vars => Goal
<1> SUFFICES ASSUME TalkInv, [Next]_vars PROVE Goal
    OBVIOUS
<1>1. CASE Browser
    BY <1>1, SocketEventTalks, TimersTalk, StorageTalks, RestartTalks DEF Browser
<1>2. CASE User
    BY <1>2, UserTalks
<1>3. CASE Program
    <2>1. ASSUME NEW s \in Sockets, Receive(s) \/ Notice(s) \/ DecidePair(s) PROVE Goal
        BY <2>1, ReceivingTalks, NoticingTalks, DecidingTalks
    <2>2. CASE Listen
        BY <2>2 DEF Listen, TalkInv, Goal, Moves, Quieter
    <2> QED BY <1>3, <2>1, <2>2, RegeneratingTalks, StoppingTalks DEF Program, ProgramEvent
<1>4. CASE UNCHANGED vars
    BY <1>4 DEF vars, TalkInv, Goal, Moves, Quieter
<1> QED BY <1>1, <1>2, <1>3, <1>4 DEF Next

LEMMA TalkInvAlways == Spec => []TalkInv
<1>1. TalkInv /\ [Next]_vars => TalkInv'
    BY NextBridgeInv, NextTalks DEF TalkInv, Goal
<1>2. Init => TalkInv
    BY InitTalks
<1> QED BY <1>1, <1>2, PTL DEF Spec

\* "connected" is shown only over a socket the program has authenticated, or
\* that it has closed: hello_ack is the only way in, and a probe that opened
\* with an old token, a pairing in between or a new token never keep it shown.
THEOREM ConnectionShownIsTrue == Spec => []ConnectedIsAuthenticated
<1>1. TalkInv => ConnectedIsAuthenticated
    BY DEF TalkInv, Talks, ShownIsTrue, Known, ConnectedIsAuthenticated
<1> QED BY <1>1, TalkInvAlways, PTL

\* The program shows one pair request at a time, of a session it still has, and
\* the extension waits for the decision or has closed the session.
THEOREM PairRequestsAreAlive == Spec => []PairRequestIsAlive
<1>1. TalkInv => PairRequestIsAlive
    <2> SUFFICES ASSUME TalkInv, NEW s \in Sockets, bridge.sockets[s].asks
                 PROVE  /\ \A t \in Sockets : bridge.sockets[t].asks => t = s
                        /\ bridge.sockets[s].theirs # "none"
                        /\ bridge.sockets[s].mine # "none" =>
                              bridge.probe.kind = "pair" /\ s \in bridge.probe.active
        BY DEF PairRequestIsAlive
    <2>1. /\ Talks(bridge) /\ Clean(bridge.sockets) /\ Owned(bridge)
          /\ bridge.probe.kind \in {"none", "connect", "pair"}
        BY DEF TalkInv, BridgeInv, InOrder, Bridges, Probe
    <2>2. \A t \in Sockets : bridge.sockets[t].asks => t = s
        BY <2>1 DEF Talks, OneAsks
    <2>3. bridge.sockets[s].theirs # "none"
        BY <2>1 DEF Clean
    <2>4. s # bridge.desktopSocket
        BY <2>1, SocketFacts DEF Talks, LinkIsQuiet, Linked
    <2>5. s \in bridge.probe.active => bridge.probe.kind = "pair"
        BY <2>1 DEF Talks, ProbesTalk, Probing
    <2> QED BY <2>1, <2>2, <2>3, <2>4, <2>5 DEF Owned
<1> QED BY <1>1, TalkInvAlways, PTL

\* The rest of the extension sees Link: a connection that works is made in the
\* step of a hello_ack and only where there was none, one that fell mute never
\* works again, and nothing else of the bridge shows.
THEOREM LinkIsImplemented == Spec => ImplementsLink
<1>1. Init => AsLink!Init
    BY InitTalks DEF AsLink!Init, LinkNow
<1>2. TalkInv /\ [Next]_vars => [AsLink!Next]_LinkNow
    <2> SUFFICES ASSUME TalkInv, [Next]_vars PROVE [AsLink!Next]_LinkNow
        OBVIOUS
    <2>1. Moves(bridge, bridge')
        BY NextTalks DEF Goal
    <2>2. ShownIsTrue(bridge')
        BY NextTalks DEF Goal, Talks
    <2> QED BY <2>1, <2>2 DEF AsLink!Next, AsLink!Connects, AsLink!FallsMute,
            AsLink!ConnectsMute, AsLink!Breaks, LinkNow, Moves, Quieter
<1> QED BY <1>1, <1>2, TalkInvAlways, PTL DEF Spec, ImplementsLink, AsLink!Spec

-----------------------------------------------------------------------------
(* A restart of the service worker of the extension finds what the bridge  *)
(* held, once no save and no change is on its way: for any ports, tokens   *)
(* and bounds.  Storage is written at once and heard of later, so an old   *)
(* change can put an old value back in the memory; the last change of the  *)
(* setting, which is still to come, corrects it.                           *)

\* The changes of a setting that the bridge has yet to hear of.
Pending(b, key) == {i \in 1..Len(b.changes) : b.changes[i].key = key}

\* The memory has the stored value, or will have it.
Current(b, key) ==
    \/ Pending(b, key) = {} /\ b[key] = b.stored[key]
    \/ \E i \in Pending(b, key) : /\ b.changes[i].value = b.stored[key]
                                  /\ \A j \in Pending(b, key) : j <= i

Agrees(b) == \A key \in Settings : Current(b, key)

\* What makes MemoryIsStored inductive.
StorageInv == BridgeInv /\ Agrees(bridge)

\* Most functions are not about the settings.
SameMemory(b, q) ==
    /\ q.pairToken = b.pairToken /\ q.serverUrl = b.serverUrl
    /\ q.shouldAutoSelectPort = b.shouldAutoSelectPort
    /\ q.stored = b.stored /\ q.changes = b.changes

-----------------------------------------------------------------------------
(* Functions that are not about the settings.                              *)

LEMMA SameMemoryAgrees ==
    ASSUME NEW b, NEW q, SameMemory(b, q), Agrees(b)
    PROVE  Agrees(q)
<1>1. \A key \in Settings : q[key] = b[key]
    BY DEF SameMemory, Settings
<1>2. \A key \in Settings : Pending(q, key) = Pending(b, key)
    BY DEF SameMemory, Pending
<1> QED BY <1>1, <1>2 DEF SameMemory, Agrees, Current

LEMMA ClosingRemembers ==
    ASSUME NEW b \in Bridges, NEW S
    PROVE  SameMemory(b, Closed(b, S)) /\ Closed(b, S) \in Bridges
<1> DEFINE f == Closed(b, S).sockets
<1>1. Closed(b, S) = WithSockets(b, f) /\ Closed(b, S) \in Bridges
    BY ClosedSockets
<1> HIDE DEF f
<1>2. SameMemory(b, WithSockets(b, f))
    BY DEF SameMemory, WithSockets, Bridges
<1> QED BY <1>1, <1>2

LEMMA CancellingRemembers ==
    ASSUME NEW b, InOrder(b)
    PROVE  SameMemory(b, CancelProbe(b))
<1> DEFINE c == Closed(b, b.probe.active)
<1>1. c \in Bridges /\ SameMemory(b, c)
    BY ClosingRemembers DEF InOrder
<1>2. CancelProbe(b) = [c EXCEPT !.probe = NoProbe]
    BY DEF CancelProbe
<1> HIDE DEF c
<1> QED BY <1>1, <1>2 DEF SameMemory, Bridges

LEMMA DroppingRemembers ==
    ASSUME NEW b, InOrder(b), NEW state
    PROVE  SameMemory(b, [Closed(b, {b.desktopSocket}) EXCEPT !.desktopSocket = NoSocket,
                                                              !.connectionState = state])
<1> DEFINE c == Closed(b, {b.desktopSocket})
<1>1. c \in Bridges /\ SameMemory(b, c)
    BY ClosingRemembers DEF InOrder
<1> HIDE DEF c
<1>2. SameMemory(b, [c EXCEPT !.desktopSocket = NoSocket, !.connectionState = state])
    BY <1>1 DEF SameMemory, Bridges
<1> QED BY <1>2 DEF c

LEMMA DiallingRemembers ==
    ASSUME NEW b \in Bridges, NEW ports
    PROVE  SameMemory(b, Dialled(b, ports))
<1> DEFINE C == {<<port, CHOOSE n \in Free(b, port) : \A k \in Free(b, port) : n <= k>> :
                   port \in ports}
           f == [s \in Sockets |-> IF s \in C THEN [Unused EXCEPT !.mine = "connecting"]
                                   ELSE b.sockets[s]]
           p == [b.probe EXCEPT !.active = @ \cup C]
<1>1. Dialled(b, ports) = [b EXCEPT !.probe = p, !.sockets = f]
    BY DEF Dialled, Bridges, Probe
<1> HIDE DEF C, f, p
<1> QED BY <1>1 DEF SameMemory, Bridges

LEMMA StartingRemembers ==
    ASSUME NEW b \in Bridges, NEW kind \in {"connect", "pair"}
    PROVE  SameMemory(b, StartProbe(b, kind))
<1> DEFINE others == IF b.shouldAutoSelectPort THEN Ports \ {b.serverUrl} ELSE {}
           p == [NoProbe EXCEPT !.kind = kind, !.primary = b.serverUrl,
                                !.fallbacks = others, !.headStart = others # {}]
           q == [b EXCEPT !.probe = p]
<1>1. StartProbe(b, kind) = Dialled(q, {b.serverUrl})
    BY DEF StartProbe
<1>2. p \in Probe
    BY DEF NoProbe, Probe, Bridges
<1> HIDE DEF p
<1>3. q \in Bridges /\ SameMemory(b, q)
    BY <1>2 DEF SameMemory, Bridges
<1> HIDE DEF q
<1>4. SameMemory(q, Dialled(q, {b.serverUrl}))
    BY <1>3, DiallingRemembers
<1> QED BY <1>1, <1>3, <1>4 DEF SameMemory

LEMMA FallingBackRemembers ==
    ASSUME NEW b \in Bridges
    PROVE  SameMemory(b, StartFallbacks(b))
<1> DEFINE p == [b.probe EXCEPT !.fallbacks = {}, !.headStart = FALSE]
           q == [b EXCEPT !.probe = p]
<1>1. StartFallbacks(b) = Dialled(q, b.probe.fallbacks)
    BY DEF StartFallbacks, Bridges, Probe
<1>2. p \in Probe
    BY DEF Bridges, Probe
<1> HIDE DEF p
<1>3. q \in Bridges /\ SameMemory(b, q)
    BY <1>2 DEF SameMemory, Bridges
<1> HIDE DEF q
<1>4. SameMemory(q, Dialled(q, b.probe.fallbacks))
    BY <1>3, DiallingRemembers
<1> QED BY <1>1, <1>3, <1>4 DEF SameMemory

LEMMA FailingRemembers ==
    ASSUME NEW b \in Bridges, NEW reached
    PROVE  SameMemory(b, PairingFailed(b, reached))
BY DEF PairingFailed, SameMemory, Bridges

LEMMA AfterCancelRemembers ==
    ASSUME NEW b, NEW after \in Bridges
    PROVE  SameMemory(after, AfterCancel(b, after))
BY FailingRemembers DEF AfterCancel, SameMemory

LEMMA RequestPairingRemembers ==
    ASSUME NEW b, InOrder(b), CanProbe(b)
    PROVE  SameMemory(b, RequestPairing(b))
<1> DEFINE c == CancelProbe(b)
           q == [c EXCEPT !.reconnectTimer = FALSE, !.connectionState = "connecting"]
           r == StartProbe(q, "pair")
<1>1. InOrder(c) /\ SameMemory(b, c) /\ c.probe = NoProbe /\ HasRoom(c, Ports)
    BY CancellingKeeps, CancellingRemembers DEF CanProbe
<1> HIDE DEF c
<1>2. /\ q \in Bridges /\ SameMemory(c, q) /\ q.sockets = c.sockets /\ q.probe = c.probe
      /\ q.desktopSocket = c.desktopSocket
    BY <1>1 DEF InOrder, SameMemory, Bridges, States
<1> HIDE DEF q
<1>3. InOrder(q) /\ HasRoom(q, Ports)
    BY <1>1, <1>2, Redecorated
<1>4. InOrder(r)
    BY <1>1, <1>2, <1>3, StartingKeeps
<1>5. SameMemory(q, r)
    BY <1>2, StartingRemembers
<1> HIDE DEF r
<1>6. SameMemory(r, AfterCancel(b, r))
    BY <1>4, AfterCancelRemembers DEF InOrder
<1>7. SameMemory(b, AfterCancel(b, r))
    BY <1>1, <1>2, <1>5, <1>6 DEF SameMemory
<1> QED BY <1>7 DEF RequestPairing, c, q, r

LEMMA ConnectRemembers ==
    ASSUME NEW b, InOrder(b), CanProbe(b), NEW force \in BOOLEAN
    PROVE  SameMemory(b, Connect(b, force))
<1>1. CASE b.pairToken = None
    <2> DEFINE c == CancelProbe(b)
               q == [c EXCEPT !.connectionState = "missing_token"]
    <2>1. InOrder(c) /\ SameMemory(b, c)
        BY CancellingKeeps, CancellingRemembers
    <2> HIDE DEF c
    <2>2. q \in Bridges /\ SameMemory(c, q)
        BY <2>1 DEF InOrder, Bridges, States, SameMemory
    <2> HIDE DEF q
    <2>3. SameMemory(q, AfterCancel(b, q))
        BY <2>2, AfterCancelRemembers
    <2>4. SameMemory(b, AfterCancel(b, q))
        BY <2>1, <2>2, <2>3 DEF SameMemory
    <2> QED BY <1>1, <2>4 DEF Connect, c, q
<1>2. CASE b.pairToken # None
    <2> DEFINE c == Closed(b, {b.desktopSocket})
               e == Closed(c, c.probe.active)
               q == Relinked(b)
               r == StartProbe(q, "connect")
    <2>1. c \in Bridges /\ SameMemory(b, c)
        BY ClosingRemembers DEF InOrder
    <2>2. /\ InOrder(q) /\ HasRoom(q, Ports) /\ q.probe = NoProbe /\ q.desktopSocket = NoSocket
        BY RelinkingKeeps
    <2>3. q = [[e EXCEPT !.probe = NoProbe] EXCEPT !.desktopSocket = NoSocket,
                   !.reconnectTimer = FALSE, !.connectionState = "connecting"]
        BY DEF Relinked, CancelProbe
    <2> HIDE DEF c, q
    <2>4. e \in Bridges /\ SameMemory(c, e)
        BY <2>1, ClosingRemembers
    <2> HIDE DEF e
    <2>5. SameMemory(e, q)
        BY <2>3, <2>4 DEF Bridges, SameMemory
    <2>6. InOrder(r) /\ SameMemory(q, r)
        BY <2>2, StartingKeeps, StartingRemembers DEF InOrder
    <2> HIDE DEF r
    <2>7. SameMemory(r, AfterCancel(b, r))
        BY <2>6, AfterCancelRemembers DEF InOrder
    <2>8. SameMemory(b, AfterCancel(b, r))
        BY <2>1, <2>4, <2>5, <2>6, <2>7 DEF SameMemory
    <2>9. SameMemory(b, b)
        BY DEF SameMemory
    <2> QED BY <1>2, <2>8, <2>9 DEF Connect, Relinked, q, r
<1> QED BY <1>1, <1>2

LEMMA SchedulingRemembers ==
    ASSUME NEW b \in Bridges
    PROVE  SameMemory(b, ScheduleReconnect(b))
BY DEF ScheduleReconnect, SameMemory, Bridges

LEMMA OnDesktopMessageRemembers ==
    ASSUME NEW b, InOrder(b), NEW m
    PROVE  SameMemory(b, OnDesktopMessage(b, m))
<1> DEFINE q == [b EXCEPT !.connectionState = "connected"]
<1>1. SameMemory(b, q) /\ SameMemory(b, b)
    BY DEF InOrder, Bridges, SameMemory
<1>2. SameMemory(b, [Closed(b, {b.desktopSocket}) EXCEPT !.desktopSocket = NoSocket,
                                                         !.connectionState = "unauthorized"])
    BY DroppingRemembers
<1> QED BY <1>1, <1>2 DEF OnDesktopMessage

LEMMA AdoptingRemembers ==
    ASSUME NEW b, InOrder(b), NEW s
    PROVE  SameMemory(b, Adopt(b, s))
<1> DEFINE c == Closed(b, b.probe.active \ {s})
<1>1. c \in Bridges /\ SameMemory(b, c)
    BY ClosingRemembers DEF InOrder
<1>2. Adopt(b, s) = [c EXCEPT !.probe = NoProbe, !.desktopSocket = s]
    BY DEF Adopt
<1> HIDE DEF c
<1> QED BY <1>1, <1>2 DEF SameMemory, Bridges

LEMMA SendingRemembers ==
    ASSUME NEW b \in Bridges, NEW s \in Sockets, NEW m
    PROVE  SameMemory(b, Send(b, s, m))
<1> DEFINE f == [b.sockets EXCEPT ![s].out = Append(@, m)]
<1>1. Send(b, s, m) = [b EXCEPT !.sockets = f]
    BY DEF Send, Bridges
<1> HIDE DEF f
<1> QED BY <1>1 DEF SameMemory, Bridges

LEMMA OnOpenRemembers ==
    ASSUME NEW b \in Bridges, NEW s \in Sockets
    PROVE  SameMemory(b, OnOpen(b, s))
<1> DEFINE pr == [b.probe EXCEPT !.reached = TRUE,
                                 !.headStart = @ /\ PortOf(s) # b.probe.primary]
           p == [b EXCEPT !.probe = pr]
           q == [b EXCEPT !.connectionState = IF @ = "connecting" THEN "authenticating" ELSE @]
           hello == [is |-> "hello", token |-> b.pairToken]
<1>1. OnOpen(b, s) = IF b.probe.kind = "pair" THEN Send(p, s, [is |-> "pair"])
                     ELSE Send(q, s, hello)
    BY DEF OnOpen, Bridges, Probe
<1>2. pr \in Probe
    BY DEF Bridges, Probe
<1> HIDE DEF pr
<1>3. p \in Bridges /\ SameMemory(b, p) /\ q \in Bridges /\ SameMemory(b, q)
    BY <1>2 DEF Bridges, States, SameMemory
<1> HIDE DEF p, q, hello
<1>4. SameMemory(p, Send(p, s, [is |-> "pair"])) /\ SameMemory(q, Send(q, s, hello))
    BY <1>3, SendingRemembers
<1> QED BY <1>1, <1>3, <1>4 DEF SameMemory

LEMMA OnConnectionClosedRemembers ==
    ASSUME NEW b, InOrder(b), NEW failed \in BOOLEAN
    PROVE  SameMemory(b, OnConnectionClosed(b, b.desktopSocket, failed))
<1> DEFINE c == Closed(b, {b.desktopSocket})
           after == [c EXCEPT !.desktopSocket = NoSocket,
                              !.connectionState = IF failed /\ @ # "unauthorized"
                                                  THEN "disconnected" ELSE @]
           q == [after EXCEPT !.connectionState = "disconnected"]
<1>1. c \in Bridges /\ SameMemory(b, c)
    BY ClosingRemembers DEF InOrder
<1>2. OnConnectionClosed(b, b.desktopSocket, failed) =
        IF after.connectionState \in Halted THEN after ELSE ScheduleReconnect(q)
    BY DEF OnConnectionClosed
<1> HIDE DEF c
<1>3. after \in Bridges /\ SameMemory(c, after)
    BY <1>1 DEF Bridges, States, SameMemory
<1> HIDE DEF after
<1>4. q \in Bridges /\ SameMemory(after, q)
    BY <1>3 DEF Bridges, States, SameMemory
<1> HIDE DEF q
<1>5. SameMemory(q, ScheduleReconnect(q))
    BY <1>4, SchedulingRemembers
<1> QED BY <1>1, <1>2, <1>3, <1>4, <1>5 DEF SameMemory

LEMMA OnProbeFailedRemembers ==
    ASSUME NEW b, InOrder(b), CanFallBack(b), NEW s \in b.probe.active
    PROVE  SameMemory(b, OnProbeFailed(b, s))
<1> DEFINE c == Closed(b, {s})
           pr == [b.probe EXCEPT !.active = @ \ {s}]
           without == [c EXCEPT !.probe.active = @ \ {s}]
           after == Bereft(b, s)
           q == [after EXCEPT !.probe = NoProbe, !.connectionState = "disconnected"]
<1>1. c \in Bridges /\ SameMemory(b, c) /\ c.probe = b.probe
    BY ClosingRemembers, ClosingFields DEF InOrder
<1>2. OnProbeFailed(b, s) =
        IF after.probe.active # {} THEN after
        ELSE IF b.probe.kind = "pair" THEN PairingFailed(CancelProbe(after), b.probe.reached)
        ELSE IF b.connectionState \in Halted THEN after
        ELSE ScheduleReconnect(q)
    BY DEF OnProbeFailed, Bereft
<1>3. after \in {StartFallbacks(without), without}
    BY DEF Bereft
<1> HIDE DEF c
<1>4. without = [c EXCEPT !.probe = pr] /\ pr \in Probe
    BY <1>1 DEF Bridges, Probe
<1> HIDE DEF pr
<1>5. without \in Bridges /\ SameMemory(c, without)
    BY <1>4, <1>1 DEF Bridges, SameMemory
<1> HIDE DEF without, after
<1>6. SameMemory(without, after)
    <2>1. SameMemory(without, without)
        BY DEF SameMemory
    <2> QED BY <1>3, <1>5, <2>1, FallingBackRemembers
<1>7. InOrder(after)
    BY LosingAProbeKeeps DEF after
<1>8. SameMemory(after, CancelProbe(after)) /\ CancelProbe(after) \in Bridges
    BY <1>7, CancellingRemembers, CancellingKeeps DEF InOrder
<1>9. SameMemory(CancelProbe(after), PairingFailed(CancelProbe(after), b.probe.reached))
    BY <1>8, FailingRemembers
<1>10. q \in Bridges /\ SameMemory(after, q)
    BY <1>7, SocketFacts DEF InOrder, Bridges, States, SameMemory
<1> HIDE DEF q
<1>11. SameMemory(q, ScheduleReconnect(q))
    BY <1>10, SchedulingRemembers
<1> QED BY <1>1, <1>2, <1>5, <1>6, <1>8, <1>9, <1>10, <1>11 DEF SameMemory

LEMMA OnCloseRemembers ==
    ASSUME NEW b, InOrder(b), CanFallBack(b), NEW s \in Sockets, NEW failed \in BOOLEAN
    PROVE  SameMemory(b, OnClose(b, s, failed))
<1>1. CASE s = b.desktopSocket
    BY <1>1, OnConnectionClosedRemembers DEF OnClose
<1>2. CASE s # b.desktopSocket /\ s \in b.probe.active
    BY <1>2, OnProbeFailedRemembers DEF OnClose
<1>3. CASE s # b.desktopSocket /\ s \notin b.probe.active
    BY <1>3, ClosingRemembers DEF OnClose, InOrder
<1> QED BY <1>1, <1>2, <1>3

-----------------------------------------------------------------------------
(* Functions that store a setting, and the changes that are heard of.      *)

\* A setting is stored: its change is the last on the way.  The memory of this
\* setting may be anything.
LEMMA StoringAgrees ==
    ASSUME NEW b \in Bridges, NEW q, NEW key \in Settings, NEW value, Agrees(b),
           q.changes = Append(b.changes, [key |-> key, value |-> value]),
           q.stored = [b.stored EXCEPT ![key] = value],
           \A k \in Settings \ {key} : q[k] = b[k]
    PROVE  Agrees(q)
<1> DEFINE n == Len(b.changes)
<1>1. /\ n \in Nat /\ Len(q.changes) = n + 1
      /\ \A i \in 1..n : q.changes[i] = b.changes[i]
      /\ q.changes[n + 1] = [key |-> key, value |-> value]
    <2> DEFINE change == [key |-> key, value |-> value]
    <2>1. b.changes \in Seq(Changes) /\ q.changes = Append(b.changes, change)
        BY DEF Bridges
    <2> HIDE DEF change
    <2>2. /\ Len(q.changes) = n + 1 /\ q.changes[n + 1] = change
          /\ \A i \in 1..n : q.changes[i] = b.changes[i]
        BY <2>1
    <2> QED BY <2>1, <2>2 DEF change
<1>2. /\ q.stored[key] = value
      /\ \A k \in Settings \ {key} : q.stored[k] = b.stored[k]
    BY DEF Bridges, Stored, Settings
<1> HIDE DEF n
<1>3. Current(q, key)
    <2>1. n + 1 \in Pending(q, key) /\ \A j \in Pending(q, key) : j <= n + 1
        BY <1>1 DEF Pending
    <2> QED BY <1>1, <1>2, <2>1 DEF Current
<1>4. ASSUME NEW k \in Settings \ {key} PROVE Current(q, k)
    <2>1. Pending(q, k) = Pending(b, k)
        <3>1. n + 1 \notin Pending(q, k)
            BY <1>1 DEF Pending
        <3>2. Pending(b, k) \subseteq 1..n /\ Pending(q, k) \subseteq 1..(n + 1)
            BY <1>1 DEF Pending, n
        <3>3. \A i \in 1..n : i \in Pending(q, k) <=> i \in Pending(b, k)
            BY <1>1 DEF Pending, n
        <3>4. Pending(q, k) \subseteq 1..n
            <4> \A i \in 1..(n + 1) : i = n + 1 \/ i \in 1..n
                BY <1>1
            <4> QED BY <3>1, <3>2
        <3> QED BY <3>2, <3>3, <3>4
    <2>2. Current(b, k)
        BY DEF Agrees
    <2>3. \A i \in Pending(b, k) : q.changes[i] = b.changes[i]
        BY <1>1 DEF Pending, n
    <2> QED BY <1>2, <2>1, <2>2, <2>3 DEF Current
<1> QED BY <1>3, <1>4 DEF Agrees

\* A change is heard of: the bridge takes its value.
LEMMA HearingAgrees ==
    ASSUME NEW b \in Bridges, NEW q, b.changes # <<>>, Agrees(b),
           q.changes = Tail(b.changes), q.stored = b.stored,
           \A k \in Settings :
               q[k] = IF k = Head(b.changes).key THEN Head(b.changes).value ELSE b[k]
    PROVE  Agrees(q)
<1> DEFINE n == Len(b.changes)
<1>1. /\ n \in Nat \ {0} /\ Len(q.changes) = n - 1 /\ Head(b.changes) = b.changes[1]
      /\ \A i \in 1..(n - 1) : q.changes[i] = b.changes[i + 1]
    <2>1. b.changes \in Seq(Changes)
        BY DEF Bridges
    <2> QED BY <2>1
<1> SUFFICES ASSUME NEW k \in Settings PROVE Current(q, k)
    BY DEF Agrees
<1>2. /\ \A i \in Pending(q, k) : i + 1 \in Pending(b, k)
      /\ \A i \in Pending(b, k) : i = 1 \/ i - 1 \in Pending(q, k)
      /\ Pending(b, k) \subseteq 1..n
      /\ Pending(q, k) \subseteq 1..(n - 1)
    BY <1>1 DEF Pending
<1>3. CASE Pending(b, k) = {} /\ b[k] = b.stored[k]
    <2>1. Pending(q, k) = {}
        BY <1>2, <1>3
    <2>2. k # Head(b.changes).key
        <3> 1 \in 1..n
            BY <1>1
        <3> QED BY <1>1, <1>3 DEF Pending
    <2> QED BY <1>3, <2>1, <2>2 DEF Current
<1>4. ASSUME NEW i \in Pending(b, k), b.changes[i].value = b.stored[k],
             \A j \in Pending(b, k) : j <= i
      PROVE  Current(q, k)
    <2>1. CASE i = 1
        <3>1. Pending(q, k) = {}
            BY <1>1, <1>2, <1>4, <2>1
        <3>2. k = Head(b.changes).key
            BY <1>1, <1>4, <2>1 DEF Pending
        <3> QED BY <1>1, <1>4, <2>1, <3>1, <3>2 DEF Current
    <2>2. CASE i # 1
        <3>1. i - 1 \in Pending(q, k)
            BY <1>2, <1>4, <2>2
        <3>2. q.changes[i - 1].value = q.stored[k]
            BY <1>1, <1>2, <1>4, <3>1
        <3>3. \A j \in Pending(q, k) : j <= i - 1
            BY <1>1, <1>2, <1>4
        <3> QED BY <3>1, <3>2, <3>3 DEF Current
    <2> QED BY <2>1, <2>2
<1>5. Current(b, k)
    BY DEF Agrees
<1> QED BY <1>3, <1>4, <1>5 DEF Current

LEMMA RememberingAgrees ==
    ASSUME NEW b \in Bridges, Agrees(b), NEW url
    PROVE  Agrees(RememberUrl(b, url))
<1>1. CASE url = b.serverUrl
    BY <1>1 DEF RememberUrl
<1>2. CASE url # b.serverUrl
    <2> DEFINE q == SavedAside([b EXCEPT !.serverUrl = url], "serverUrl", url)
    <2>1. /\ q.changes = Append(b.changes, [key |-> "serverUrl", value |-> url])
          /\ q.stored = [b.stored EXCEPT !["serverUrl"] = url]
          /\ \A k \in Settings \ {"serverUrl"} : q[k] = b[k]
        BY DEF SavedAside, Bridges, Settings
    <2> HIDE DEF q
    <2>2. Agrees(q)
        BY <2>1, StoringAgrees DEF Settings
    <2> QED BY <1>2, <2>2 DEF RememberUrl, q
<1> QED BY <1>1, <1>2

LEMMA SettingTokenAgrees ==
    ASSUME NEW b \in Bridges, Agrees(b), NEW token
    PROVE  Agrees(SetToken(b, token))
<1> DEFINE q == SetToken(b, token)
<1>1. /\ q.changes = Append(b.changes, [key |-> "pairToken", value |-> token])
      /\ q.stored = [b.stored EXCEPT !["pairToken"] = token]
      /\ \A k \in Settings \ {"pairToken"} : q[k] = b[k]
    BY DEF SetToken, Saved, Bridges, Settings
<1> HIDE DEF q
<1> QED BY <1>1, StoringAgrees DEF Settings, q

LEMMA AfterSaveRemembers ==
    ASSUME NEW b, InOrder(b), CanProbe(b), NEW key
    PROVE  SameMemory(b, AfterSave(b, key))
<1>1. SameMemory(b, Connect(b, TRUE))
    BY ConnectRemembers
<1>2. SameMemory(b, [Closed(b, {b.desktopSocket}) EXCEPT !.desktopSocket = NoSocket,
                                                         !.connectionState = "missing_token"])
    BY DroppingRemembers
<1> QED BY <1>1, <1>2 DEF AfterSave

LEMMA OnMessageAgrees ==
    ASSUME NEW b, InOrder(b), Agrees(b), NEW s \in Sockets, NEW m \in Message
    PROVE  Agrees(OnMessage(b, s, m))
<1> DEFINE port == PortOf(s)
           a == Adopt(b, s)
           r == RememberUrl(b, port)
           c == CancelProbe(r)
           q == [c EXCEPT !.shouldRetryPairing = FALSE]
<1>b. b \in Bridges /\ port \in Ports
    BY SocketFacts DEF InOrder
<1>1. Agrees(OnDesktopMessage(b, m))
    BY OnDesktopMessageRemembers, SameMemoryAgrees
<1>2. ASSUME s \in b.probe.active, b.probe.kind = "connect"
      PROVE  Agrees(OnDesktopMessage(RememberUrl(a, port), m))
    <2>1. InOrder(a) /\ Agrees(a)
        BY <1>2, AdoptingKeeps, AdoptingRemembers, SameMemoryAgrees
    <2> HIDE DEF a
    <2>2. InOrder(RememberUrl(a, port)) /\ Agrees(RememberUrl(a, port))
        BY <1>b, <2>1, RememberingKeeps, RememberingAgrees DEF InOrder
    <2> QED BY <2>2, OnDesktopMessageRemembers, SameMemoryAgrees
<1>3. InOrder(r) /\ Agrees(r)
    BY <1>b, RememberingKeeps, RememberingAgrees
<1> HIDE DEF r
<1>4. c \in Bridges /\ Agrees(c)
    BY <1>3, CancellingKeeps, CancellingRemembers, SameMemoryAgrees DEF InOrder
<1> HIDE DEF c
<1>5. Agrees(PairingFailed(c, b.probe.reached))
    BY <1>4, FailingRemembers, SameMemoryAgrees
<1>6. q \in Bridges /\ SameMemory(c, q)
    BY <1>4 DEF Bridges, SameMemory
<1> HIDE DEF q
<1>7. Agrees(SetToken(q, m.token))
    BY <1>4, <1>6, SameMemoryAgrees, SettingTokenAgrees
<1> QED BY <1>1, <1>2, <1>5, <1>7 DEF OnMessage, a, port, r, c, q

\* The start of the service worker reads the storage.
LEMMA SetupAgrees ==
    ASSUME NEW stored \in Stored, NEW sockets \in [Sockets -> Socket], Clean(sockets),
           \A s \in Sockets : sockets[s].mine = "none",
           \A port \in Ports : \E n \in 1..MaxSockets : sockets[<<port, n>>] = Unused
    PROVE  Agrees(Setup(stored, sockets))
<1> DEFINE b == Started(stored, sockets)
<1>1. InOrder(b) /\ CanProbe(b)
    BY BeginningKeeps
<1>2. Setup(stored, sockets) = IF b.pairToken = None THEN RequestPairing(b) ELSE Connect(b, FALSE)
    BY DEF Setup, Started
<1>3. Agrees(b)
    BY DEF Agrees, Current, Pending, Settings, Started
<1> HIDE DEF b
<1>4. Agrees(RequestPairing(b)) /\ Agrees(Connect(b, FALSE))
    BY <1>1, <1>3, RequestPairingRemembers, ConnectRemembers, SameMemoryAgrees
<1> QED BY <1>2, <1>4

-----------------------------------------------------------------------------
(* Each step keeps the memory and the storage together.                    *)

LEMMA InitAgrees == Init => Agrees(bridge)
<1> SUFFICES ASSUME Init PROVE Agrees(bridge)
    OBVIOUS
<1>1. PICK token \in {None, desktop.key}, auto \in BOOLEAN :
           bridge = Setup([pairToken |-> token, serverUrl |-> DefaultPort,
                           shouldAutoSelectPort |-> auto],
                          [s \in Sockets |-> Unused])
    BY DEF Init
<1> DEFINE stored == [pairToken |-> token, serverUrl |-> DefaultPort,
                      shouldAutoSelectPort |-> auto]
           sockets == [s \in Sockets |-> Unused]
<1>2. stored \in Stored
    <2>1. (CHOOSE key \in Keys : TRUE) \in Keys
        BY BridgeAssumption
    <2> QED BY <2>1, BridgeAssumption DEF Stored, Init
<1>3. /\ sockets \in [Sockets -> Socket] /\ Clean(sockets)
      /\ \A s \in Sockets : sockets[s].mine = "none"
      /\ \A port \in Ports : \E n \in 1..MaxSockets : sockets[<<port, n>>] = Unused
    BY UnusedSockets
<1> HIDE DEF stored, sockets
<1>4. Agrees(Setup(stored, sockets))
    BY <1>2, <1>3, SetupAgrees
<1> QED BY <1>1, <1>4 DEF stored, sockets

LEMMA SocketEventAgrees == StorageInv /\ SocketEvent => Agrees(bridge')
<1> SUFFICES ASSUME StorageInv, NEW s \in Sockets,
                    SocketOpens(s) \/ SocketFails(s) \/ MessageArrives(s) \/ SocketCloses(s)
             PROVE  Agrees(bridge')
    BY DEF SocketEvent
<1>b. /\ InOrder(bridge) /\ bridge \in Bridges /\ Agrees(bridge) /\ Tidy(bridge.sockets)
    BY DEF StorageInv, BridgeInv, InOrder, Bridges, Tidy
<1>1. CASE SocketOpens(s)
    <2> DEFINE x == [bridge.sockets[s] EXCEPT !.mine = "open", !.theirs = "open"]
               q == [bridge EXCEPT !.sockets = [bridge.sockets EXCEPT ![s] = x]]
    <2>1. x \in Socket
        BY <1>b DEF Tidy, Socket
    <2>2. [bridge EXCEPT !.sockets[s].mine = "open", !.sockets[s].theirs = "open"] = q
        BY <1>b DEF Bridges, Tidy
    <2> HIDE DEF x
    <2>3. q \in Bridges /\ SameMemory(bridge, q)
        BY <1>b, <2>1 DEF Bridges, SameMemory
    <2> HIDE DEF q
    <2>4. Agrees(OnOpen(q, s))
        BY <1>b, <2>3, OnOpenRemembers, SameMemoryAgrees
    <2> QED BY <1>1, <2>2, <2>4 DEF SocketOpens, Handle
<1>2. CASE SocketFails(s)
    BY <1>b, <1>2, OnCloseRemembers, SameMemoryAgrees DEF SocketFails, Handle
<1>3. CASE MessageArrives(s)
    <2> DEFINE f == [bridge.sockets EXCEPT ![s].in = Tail(@)]
               q == [bridge EXCEPT !.sockets = f]
    <2>1. [bridge EXCEPT !.sockets[s].in = Tail(@)] = q
        BY <1>b DEF Bridges
    <2>2. /\ Head(bridge.sockets[s].in) \in Message
          /\ Tidy(f) /\ SameEnds(f, bridge.sockets)
        BY <1>b, <1>3, ReadingIsTidy DEF MessageArrives
    <2> HIDE DEF f
    <2>3. InOrder(q) /\ SameMemory(bridge, q)
        BY <1>b, <2>2, RewiredKeeps DEF Bridges, SameMemory
    <2> HIDE DEF q
    <2>4. Agrees(OnMessage(q, s, Head(bridge.sockets[s].in)))
        BY <1>b, <2>2, <2>3, SameMemoryAgrees, OnMessageAgrees
    <2> QED BY <1>3, <2>1, <2>4 DEF MessageArrives, Handle
<1>4. CASE SocketCloses(s)
    BY <1>b, <1>4, OnCloseRemembers, SameMemoryAgrees DEF SocketCloses, Handle
<1> QED BY <1>1, <1>2, <1>3, <1>4

LEMMA TimersAgree ==
    StorageInv /\ (HeadStartEnds \/ PairingTimesOut \/ ReconnectTimerFires \/ Alarm)
        => Agrees(bridge')
<1> SUFFICES ASSUME StorageInv,
                    HeadStartEnds \/ PairingTimesOut \/ ReconnectTimerFires \/ Alarm
             PROVE  Agrees(bridge')
    OBVIOUS
<1>b. InOrder(bridge) /\ bridge \in Bridges /\ Agrees(bridge)
    BY DEF StorageInv, BridgeInv, InOrder
<1>1. CASE HeadStartEnds
    BY <1>b, <1>1, FallingBackRemembers, SameMemoryAgrees DEF HeadStartEnds, Handle
<1>2. CASE PairingTimesOut
    <2> DEFINE c == CancelProbe(bridge)
    <2>1. c \in Bridges /\ Agrees(c)
        BY <1>b, CancellingKeeps, CancellingRemembers, SameMemoryAgrees DEF InOrder
    <2> HIDE DEF c
    <2>2. Agrees(PairingFailed(c, bridge.probe.reached))
        BY <2>1, FailingRemembers, SameMemoryAgrees
    <2> QED BY <1>2, <2>2 DEF PairingTimesOut, Handle, c
<1>3. CASE ReconnectTimerFires
    <2> DEFINE q == [bridge EXCEPT !.reconnectTimer = FALSE]
    <2>1. /\ q \in Bridges /\ q.sockets = bridge.sockets /\ q.probe = bridge.probe
          /\ q.desktopSocket = bridge.desktopSocket /\ SameMemory(bridge, q)
        BY <1>b DEF Bridges, SameMemory
    <2> HIDE DEF q
    <2>2. InOrder(q) /\ Agrees(q)
        BY <1>b, <2>1, Redecorated, SameMemoryAgrees
    <2>3. CanProbe(q)
        BY <1>b, <1>3, <2>1, <2>2, RoomStays DEF ReconnectTimerFires
    <2>4. Agrees(Connect(q, FALSE))
        BY <2>2, <2>3, ConnectRemembers, SameMemoryAgrees
    <2> QED BY <1>3, <2>4 DEF ReconnectTimerFires, Handle, q
<1>4. CASE Alarm
    <2>1. Agrees(Connect(bridge, FALSE)) /\ Agrees(RequestPairing(bridge))
        BY <1>b, <1>4, ConnectRemembers, RequestPairingRemembers, SameMemoryAgrees DEF Alarm
    <2> QED BY <1>4, <2>1 DEF Alarm, Handle
<1> QED BY <1>1, <1>2, <1>3, <1>4

LEMMA StorageAgrees == StorageInv /\ (SaveEnds \/ ChangeArrives) => Agrees(bridge')
<1> SUFFICES ASSUME StorageInv, SaveEnds \/ ChangeArrives PROVE Agrees(bridge')
    OBVIOUS
<1>b. /\ InOrder(bridge) /\ bridge \in Bridges /\ Agrees(bridge)
      /\ bridge.saves \in Seq(Settings) /\ bridge.changes \in Seq(Changes)
    BY DEF StorageInv, BridgeInv, InOrder, Bridges
<1>1. CASE SaveEnds
    <2> DEFINE q == [bridge EXCEPT !.saves = Tail(@)]
    <2>1. Tail(bridge.saves) \in Seq(Settings)
        BY <1>b, <1>1, HeadTailProperties DEF SaveEnds
    <2>2. /\ q \in Bridges /\ q.sockets = bridge.sockets /\ q.probe = bridge.probe
          /\ q.desktopSocket = bridge.desktopSocket /\ SameMemory(bridge, q)
        BY <1>b, <2>1 DEF Bridges, SameMemory
    <2> HIDE DEF q
    <2>3. InOrder(q) /\ Agrees(q)
        BY <1>b, <2>2, Redecorated, SameMemoryAgrees
    <2>4. CanProbe(q)
        BY <1>b, <1>1, <2>2, <2>3, RoomStays DEF SaveEnds
    <2>5. Agrees(AfterSave(q, Head(bridge.saves)))
        BY <2>3, <2>4, AfterSaveRemembers, SameMemoryAgrees
    <2> QED BY <1>1, <2>5 DEF SaveEnds, q
<1>2. CASE ChangeArrives
    <2> DEFINE change == Head(bridge.changes)
               p == [bridge EXCEPT !.changes = Tail(@)]
               q == [p EXCEPT ![change.key] = change.value]
    <2>1. /\ bridge.changes # <<>> /\ CanProbe(bridge) /\ bridge' = OnChange(p, change)
          /\ Tail(bridge.changes) \in Seq(Changes) /\ change \in Changes
        BY <1>b, <1>2, HeadTailProperties DEF ChangeArrives, Handle
    <2>2. p \in Bridges /\ change.key \in Settings
        BY <1>b, <2>1 DEF Bridges, Changes, Settings
    <2>3. /\ \A k \in Settings :
                q[k] = IF k = Head(bridge.changes).key THEN Head(bridge.changes).value
                       ELSE bridge[k]
          /\ q.changes = Tail(bridge.changes) /\ q.stored = bridge.stored
          /\ q.sockets = bridge.sockets /\ q.probe = bridge.probe
          /\ q.desktopSocket = bridge.desktopSocket
        BY <1>b, <2>1, <2>2 DEF Bridges, Settings
    <2>4. q \in Bridges
        <3> HIDE DEF p
        <3>1. CASE change.key = "pairToken" /\ change.value \in Keys \cup {None}
            <4> q = [p EXCEPT !.pairToken = change.value]
                BY <3>1
            <4> QED BY <2>2, <3>1 DEF Bridges
        <3>2. CASE change.key = "serverUrl" /\ change.value \in Ports
            <4> q = [p EXCEPT !.serverUrl = change.value]
                BY <3>2
            <4> QED BY <2>2, <3>2 DEF Bridges
        <3>3. CASE change.key = "shouldAutoSelectPort" /\ change.value \in BOOLEAN
            <4> q = [p EXCEPT !.shouldAutoSelectPort = change.value]
                BY <3>3
            <4> QED BY <2>2, <3>3 DEF Bridges
        <3> QED BY <2>1, <3>1, <3>2, <3>3 DEF Changes
    <2>5. OnChange(p, change) \in {q, Connect(q, TRUE)}
        BY DEF OnChange
    <2> HIDE DEF q
    <2>6. Agrees(q)
        BY <1>b, <2>1, <2>3, HearingAgrees
    <2>7. InOrder(q) /\ CanProbe(q)
        BY <1>b, <2>1, <2>3, <2>4, Redecorated, RoomStays
    <2>8. Agrees(Connect(q, TRUE))
        BY <2>6, <2>7, ConnectRemembers, SameMemoryAgrees
    <2> QED BY <2>1, <2>5, <2>6, <2>8
<1> QED BY <1>1, <1>2

LEMMA RestartAgrees == StorageInv /\ Restart => Agrees(bridge')
<1> SUFFICES ASSUME StorageInv, Restart PROVE Agrees(bridge')
    OBVIOUS
<1> DEFINE c == Closed(bridge, Sockets)
<1>1. bridge \in Bridges /\ Clean(bridge.sockets) /\ bridge.stored \in Stored
    BY DEF StorageInv, BridgeInv, InOrder, Bridges
<1>2. /\ c \in Bridges /\ Clean(c.sockets)
      /\ \A s \in Sockets : c.sockets[s].mine = "none"
    BY <1>1, ClosingKeeps
<1>3. HasRoom(c, Ports) /\ bridge' = Setup(bridge.stored, c.sockets)
    BY DEF Restart
<1> HIDE DEF c
<1>4. \A port \in Ports : \E n \in 1..MaxSockets : c.sockets[<<port, n>>] = Unused
    BY <1>3 DEF HasRoom, Free
<1>5. c.sockets \in [Sockets -> Socket]
    BY <1>2 DEF Bridges
<1> QED BY <1>1, <1>2, <1>3, <1>4, <1>5, SetupAgrees

LEMMA UserAgrees == StorageInv /\ User => Agrees(bridge')
<1> SUFFICES ASSUME StorageInv, User PROVE Agrees(bridge')
    OBVIOUS
<1>b. InOrder(bridge) /\ bridge \in Bridges /\ Agrees(bridge)
    BY DEF StorageInv, BridgeInv, InOrder
<1>1. CASE Refresh
    BY <1>b, <1>1, ConnectRemembers, SameMemoryAgrees DEF Refresh, Command
<1>2. CASE Pair
    BY <1>b, <1>2, RequestPairingRemembers, SameMemoryAgrees DEF Pair, Command
<1>3. CASE EnterToken
    BY <1>b, <1>3, SettingTokenAgrees DEF EnterToken, Command
<1>4. CASE EnterUrl
    <2> PICK url \in Ports :
            bridge' = Saved([bridge EXCEPT !.serverUrl = url], "serverUrl", url)
        BY <1>4 DEF EnterUrl, Command
    <2>1. /\ bridge'.changes = Append(bridge.changes, [key |-> "serverUrl", value |-> url])
          /\ bridge'.stored = [bridge.stored EXCEPT !["serverUrl"] = url]
          /\ \A k \in Settings \ {"serverUrl"} : bridge'[k] = bridge[k]
        BY <1>b DEF Saved, Bridges, Settings
    <2> QED BY <1>b, <2>1, StoringAgrees DEF Settings
<1>5. CASE SwitchAutoSelect
    <2> DEFINE key == "shouldAutoSelectPort"
               value == ~bridge.stored.shouldAutoSelectPort
    <2>1. bridge' = SavedAside(bridge, key, value)
        BY <1>5 DEF SwitchAutoSelect, Command
    <2> HIDE DEF value
    <2>2. /\ bridge'.changes = Append(bridge.changes, [key |-> key, value |-> value])
          /\ bridge'.stored = [bridge.stored EXCEPT ![key] = value]
          /\ \A k \in Settings \ {key} : bridge'[k] = bridge[k]
        BY <1>b, <2>1 DEF SavedAside, Bridges, Settings
    <2> QED BY <1>b, <2>2, StoringAgrees DEF Settings
<1> QED BY <1>1, <1>2, <1>3, <1>4, <1>5 DEF User

\* The program changes only its own memory and the sockets.
LEMMA ProgramAgrees == StorageInv /\ Program => Agrees(bridge')
<1> SUFFICES ASSUME StorageInv, Program PROVE Agrees(bridge')
    OBVIOUS
<1>b. bridge \in Bridges /\ Agrees(bridge)
    BY DEF StorageInv, BridgeInv, InOrder
<1>1. bridge' = bridge \/ \E f : bridge' = [bridge EXCEPT !.sockets = f]
    <2>1. ASSUME NEW s \in Sockets, Receive(s)
          PROVE  \E f : bridge' = [bridge EXCEPT !.sockets = f]
        BY <2>1 DEF Receive, Handle
    <2>2. ASSUME NEW s \in Sockets, Notice(s)
          PROVE  \E f : bridge' = [bridge EXCEPT !.sockets = f]
        <3> DEFINE f == [bridge.sockets EXCEPT ![s] = Forgotten(@)]
        <3> bridge' = [bridge EXCEPT !.sockets = f]
            BY <1>b, <2>2 DEF Notice, Handle, Bridges
        <3> QED OBVIOUS
    <2>3. ASSUME NEW s \in Sockets, DecidePair(s)
          PROVE  \E f : bridge' = [bridge EXCEPT !.sockets = f]
        <3> PICK answer : bridge' = [bridge EXCEPT !.sockets =
                                        Answered([@ EXCEPT ![s].asks = FALSE], s, answer)]
            BY <2>3 DEF DecidePair, Handle
        <3> DEFINE f == Answered([bridge.sockets EXCEPT ![s].asks = FALSE], s, answer)
        <3> bridge' = [bridge EXCEPT !.sockets = f]
            BY <1>b DEF Bridges
        <3> QED OBVIOUS
    <2>4. CASE RegenerateToken
        <3> DEFINE f == [s \in Sockets |->
                IF bridge.sockets[s].theirs # "open" THEN bridge.sockets[s]
                ELSE [bridge.sockets[s] EXCEPT !.theirs = "closing", !.authenticated = FALSE]]
        <3> bridge' = [bridge EXCEPT !.sockets = f]
            BY <1>b, <2>4 DEF RegenerateToken, Bridges
        <3> QED OBVIOUS
    <2>5. CASE Stop
        <3> DEFINE f == [s \in Sockets |-> Forgotten(bridge.sockets[s])]
        <3> bridge' = [bridge EXCEPT !.sockets = f]
            BY <1>b, <2>5 DEF Stop, Bridges
        <3> QED OBVIOUS
    <2>6. CASE Listen
        BY <2>6 DEF Listen
    <2> QED BY <2>1, <2>2, <2>3, <2>4, <2>5, <2>6 DEF Program, ProgramEvent
<1>2. SameMemory(bridge, bridge')
    BY <1>b, <1>1 DEF Bridges, SameMemory
<1> QED BY <1>b, <1>2, SameMemoryAgrees

-----------------------------------------------------------------------------
(* The theorem.                                                            *)

\* Whatever pairs, edits, answers and stale changes come in whatever order, the
\* service worker can be stopped once its saves and changes are through: setToken,
\* setServerUrl, the port that answered and onLocalStorageChanged leave the
\* storage and the memory with the same settings.
THEOREM StorageIsKept == Spec => []MemoryIsStored
<1>1. Init => StorageInv
    BY InitBridgeInv, InitAgrees DEF StorageInv
<1>2. StorageInv /\ [Next]_vars => StorageInv'
    <2> SUFFICES ASSUME StorageInv, [Next]_vars PROVE StorageInv'
        OBVIOUS
    <2>1. BridgeInv'
        BY NextBridgeInv DEF StorageInv
    <2>2. CASE UNCHANGED vars
        <3> bridge' = bridge
            BY <2>2 DEF vars
        <3> QED BY <2>1 DEF StorageInv, Agrees, Current, Pending
    <2>3. CASE Browser
        <3> Agrees(bridge')
            BY <2>3, SocketEventAgrees, TimersAgree, StorageAgrees, RestartAgrees DEF Browser
        <3> QED BY <2>1 DEF StorageInv, Agrees, Current, Pending
    <2>4. CASE User \/ Program
        <3> Agrees(bridge')
            BY <2>4, UserAgrees, ProgramAgrees
        <3> QED BY <2>1 DEF StorageInv, Agrees, Current, Pending
    <2> QED BY <2>2, <2>3, <2>4 DEF Next
<1>3. StorageInv => MemoryIsStored
    <2> SUFFICES ASSUME StorageInv, bridge.changes = <<>>
                 PROVE  \A key \in DOMAIN bridge.stored : bridge[key] = bridge.stored[key]
        BY DEF MemoryIsStored
    <2>1. DOMAIN bridge.stored = Settings
        BY DEF StorageInv, BridgeInv, InOrder, Bridges, Stored, Settings
    <2>2. \A key \in Settings : Pending(bridge, key) = {}
        BY DEF Pending
    <2> QED BY <2>1, <2>2 DEF StorageInv, Agrees, Current
<1> QED BY <1>1, <1>2, <1>3, PTL DEF Spec
=============================================================================
