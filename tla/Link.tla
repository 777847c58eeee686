-------------------------------- MODULE Link --------------------------------
(***************************************************************************)
(* What the rest of the extension sees of the Desktop Bridge: whether it   *)
(* isReady, and whether an answer can still arrive.                        *)
(*                                                                         *)
(*   "down"  there is no connection;                                       *)
(*   "up"    isReady: requests are sent and answered;                      *)
(*   "mute"  a connection is there but isReady is false: nothing is sent,  *)
(*           answers to what was sent still arrive.                        *)
(*                                                                         *)
(* DesktopBridge implements this specification; TaskRelay is built on it.  *)
(***************************************************************************)

VARIABLE link

States == {"down", "up", "mute"}

Init == link = "down"

\* hello_ack of a probe; onConnected is called in this step.
Connects == link = "down" /\ link' = "up"

\* A pairing was asked for on a connection that works.
FallsMute == link = "up" /\ link' = "mute"

\* An answer that is no hello_ack made the probe the connection.
ConnectsMute == link = "down" /\ link' = "mute"

\* The connection closed, or was closed to make another one.
Breaks == link # "down" /\ link' = "down"

Next == Connects \/ FallsMute \/ ConnectsMute \/ Breaks

Spec == Init /\ [][Next]_link
=============================================================================
