---------------------------- MODULE WorkContract ----------------------------
(***************************************************************************)
(* What a caller of CoroutineRunner relies on, for each work:              *)
(*  - a live work is reported once, with its result or with its error, or  *)
(*    it is withdrawn and then never reported;                             *)
(*  - the body of a withdrawn work ends; only then does the caller hear    *)
(*    `finished`, once, and the body never runs again.                     *)
(***************************************************************************)
CONSTANT Work

VARIABLES
    phase,   \* "unborn", "live", "stopping" (withdrawn, body not over), "over"
    told     \* the callbacks posted to the caller or called, for each work

Init ==
    /\ phase = [w \in Work |-> "unborn"]
    /\ told = [w \in Work |-> {}]

Accept(w) ==
    /\ phase[w] = "unborn"
    /\ phase' = [phase EXCEPT ![w] = "live"]
    /\ UNCHANGED told

Report(w, kind) ==
    /\ phase[w] = "live"
    /\ phase' = [phase EXCEPT ![w] = "over"]
    /\ told' = [told EXCEPT ![w] = @ \cup {kind}]

\* The caller (or the shutdown) withdraws works; a body that had not started,
\* or had just returned, is over at once.
Withdraw(W) ==
    /\ \A w \in W : phase[w] = "live"
    /\ \E to \in [W -> {"stopping", "over"}] :
        phase' = [w \in Work |-> IF w \in W THEN to[w] ELSE phase[w]]
    /\ UNCHANGED told

BodyEnds(w) ==
    /\ phase[w] = "stopping"
    /\ phase' = [phase EXCEPT ![w] = "over"]
    /\ UNCHANGED told

\* `finished`: the work is over, or is withdrawn before it started.
Finish(w) ==
    /\ phase[w] \in {"live", "over"}
    /\ "finished" \notin told[w]
    /\ phase' = [phase EXCEPT ![w] = "over"]
    /\ told' = [told EXCEPT ![w] = @ \cup {"finished"}]

Next ==
    \/ \E w \in Work :
        \/ Accept(w) \/ BodyEnds(w) \/ Finish(w)
        \/ \E kind \in {"done", "failed"} : Report(w, kind)
    \/ \E W \in SUBSET Work : Withdraw(W)

Spec == Init /\ [][Next]_<<phase, told>>
=============================================================================
