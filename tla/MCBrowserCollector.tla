------------------------- MODULE MCBrowserCollector -------------------------
(***************************************************************************)
(* Instances of BrowserCollector for TLC: which batches are posted.        *)
(***************************************************************************)
EXTENDS BrowserCollector, TLC

CONSTANTS r1, r2, r3, a, b, x, y

Of(e, p) == [id |-> e, payload |-> p, fit |-> TRUE]
Unfit(e, p) == [id |-> e, payload |-> p, fit |-> FALSE]

(* A batch, the same events in another order with a changed payload next   *)
(* to the first one, a repeated item behind an unfit one, and one item too *)
(* many.                                                                   *)
Batches ==
    {<<Of(a, x), Of(b, x)>>,
     <<Of(b, x), Of(a, y), Of(a, x)>>,
     <<Unfit(b, x), Of(a, y), Of(a, y)>>,
     <<Of(a, x), Of(a, x), Of(b, x), Of(b, x)>>}

Requests == Permutations(Request)
=============================================================================
