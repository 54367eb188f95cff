------------------------------ MODULE MCOutbox ------------------------------
(***************************************************************************)
(* An instance of Outbox for TLC.                                          *)
(***************************************************************************)
EXTENDS Outbox

CONSTANTS w1, w2, r1, e1, e2, x, y, bad

Workers == {w1, w2}
Requests == {r1}
Entries == {e1, e2}
Payloads == {x, y, bad}
Good == {x, y}

(* The second job asks for an event that is not registered. *)
JobRecords == {[entry |-> e1, payload |-> x], [entry |-> e2, payload |-> bad]}

(* The record of the first job: posted again, changed, changed at a        *)
(* collector with a writer, and not allowed.                               *)
JobPosts ==
    {[entry |-> e1, payload |-> x, fault |-> "none", writer |-> FALSE],
     [entry |-> e1, payload |-> y, fault |-> "none", writer |-> FALSE],
     [entry |-> e1, payload |-> y, fault |-> "none", writer |-> TRUE],
     [entry |-> e1, payload |-> y, fault |-> "forged", writer |-> FALSE]}
=============================================================================
