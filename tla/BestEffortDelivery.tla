------------------------- MODULE BestEffortDelivery -------------------------
(***************************************************************************)
(* What the browser client promises for each event, whatever its queue,    *)
(* timers and transport do: an event is held until it is sent, it is sent  *)
(* at most MaxSends times, and once it is gone -- delivered or discarded --*)
(* it never comes back.  Events are independent; a batch, a revocation or  *)
(* destroy() moves several of them in one step.                            *)
(***************************************************************************)
EXTENDS Naturals

CONSTANTS Event, MaxSends

VARIABLES stage, tries
vars == <<stage, tries>>

Stage == {"new", "validating", "held", "sending", "gone"}

(* From which stage to which an event may move without being sent. *)
Moves == {<<"new", "validating">>, <<"validating", "held">>,
          <<"validating", "gone">>, <<"held", "gone">>, <<"sending", "gone">>}

Move(e) == <<stage[e], stage'[e]>> \in Moves /\ tries'[e] = tries[e]
Stay(e) == stage'[e] = stage[e] /\ tries'[e] = tries[e]
Send(e) ==
    /\ stage[e] = "held"
    /\ tries[e] < MaxSends
    /\ stage'[e] = "sending"
    /\ tries'[e] = tries[e] + 1
TakeBack(e) ==
    /\ stage[e] = "sending"
    /\ tries[e] < MaxSends
    /\ stage'[e] = "held"
    /\ tries'[e] = tries[e]

Init ==
    /\ stage = [e \in Event |-> "new"]
    /\ tries = [e \in Event |-> 0]

Next ==
    /\ stage' \in [Event -> Stage]
    /\ tries' \in [Event -> 0 .. MaxSends]
    /\ \A e \in Event : Stay(e) \/ Move(e) \/ Send(e) \/ TakeBack(e)

Spec == Init /\ [][Next]_vars
=============================================================================
