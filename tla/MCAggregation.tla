---------------------------- MODULE MCAggregation ----------------------------
(***************************************************************************)
(* Instances of Aggregation for TLC: two civil days of two ticks each, and *)
(* events whose producer time is on the day of reception, a day off and    *)
(* further away than the skew allows.                                      *)
(***************************************************************************)
EXTENDS Aggregation, TLC

CONSTANTS a, b, j1

Starts == 0 :> 1 @@ 1 :> 3 @@ 2 :> 5
OccurredAt == a :> 1 @@ b :> 3

Policy(r, i, g) == [raw |-> r, inbox |-> i, aggregates |-> g]
(* Raw rows go before, after or without inbox rows; the last is not valid. *)
AllPolicies ==
    {Policy(1, 2, NoLimit), Policy(2, NoLimit, 2), Policy(NoLimit, 2, NoLimit),
     Policy(1, 1, NoLimit)}
RawPolicy == {Policy(1, 2, NoLimit)}
=============================================================================
