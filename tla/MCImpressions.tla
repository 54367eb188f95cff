--------------------------- MODULE MCImpressions ---------------------------
(***************************************************************************)
(* Instances of Impressions for TLC: two cards of the same listing, or one *)
(* card that is observed anew for another listing.                         *)
(***************************************************************************)
EXTENDS Impressions, TLC

CONSTANTS e1, e2, o1, o2

Alike == Permutations({e1, e2}) \cup Permutations({o1, o2})
=============================================================================
