----------------------------- MODULE MCSessions -----------------------------
(***************************************************************************)
(* An instance of Sessions for TLC: page views of one path.                *)
(***************************************************************************)
EXTENDS Sessions

CONSTANTS c1, c2, home

Calls == {c1, c2}
Paths == {home}
CallPath == [c \in Calls |-> home]
=============================================================================
