------------------------- MODULE MCScopedAcceptance -------------------------
(***************************************************************************)
(* Instances of ScopedAcceptance for TLC: which requests there are and     *)
(* which batches they may submit.                                          *)
(***************************************************************************)
EXTENDS ScopedAcceptance, TLC

CONSTANTS r1, r2, r3, a, b, x, y

Of(e, p) == [id |-> e, payload |-> p, ours |-> TRUE]
Foreign(e, p) == [id |-> e, payload |-> p, ours |-> FALSE]

(* Two events in both orders, a changed payload, a repeated event and an   *)
(* envelope of another site.                                               *)
Batches ==
    {<<Of(a, x), Of(b, x)>>,
     <<Of(b, x), Of(a, x)>>,
     <<Of(a, y)>>,
     <<Foreign(b, x), Of(b, x), Of(b, x)>>}

(* One event each. *)
PlainBatches == {<<Of(a, x)>>, <<Of(b, x)>>}

(* An empty database, or a is stored already. *)
EmptyOrUsed == {NoRows, [NoRows EXCEPT ![a] = x]}
Empty == {NoRows}

Two == {r1, r2}
Three == {r1, r2, r3}
None == {}
OnlyThird == {r3}
=============================================================================
