--------------------------- MODULE FirstWriteWins ---------------------------
(***************************************************************************)
(* What storing a batch promises, as one atomic step per request: the      *)
(* first payload committed under an event id is the fact, and every        *)
(* verdict the request gets is true of the facts at that one moment.  A    *)
(* request may also come to nothing, and old facts may be forgotten.       *)
(***************************************************************************)
EXTENDS Naturals, Sequences

CONSTANTS Request, Event, Payload, NoPayload

VARIABLES
    fact,     \* the payload stored for each event
    seen,     \* every payload that was ever a fact of the event
    verdicts  \* per request, its items with their verdicts, once decided
vars == <<fact, seen, verdicts>>

Init ==
    /\ fact \in [Event -> Payload \cup {NoPayload}]
    /\ seen = [e \in Event |-> {fact[e]} \ {NoPayload}]
    /\ verdicts = [r \in Request |-> <<>>]

(* The first item of v with the id of item i, among those of this site.    *)
Earlier(v, i) == {j \in 1 .. i - 1 : v[j].ours /\ v[j].id = v[i].id}
First(v, i) == CHOOSE j \in Earlier(v, i) : \A k \in Earlier(v, i) : j <= k

(* A repeated id within a batch is judged by the first item that had it.   *)
Repeated(v, i) ==
    v[i].verdict = IF v[First(v, i)].payload = v[i].payload
                   THEN "duplicate" ELSE "conflict"

(* Any other item is judged by the facts.  A row that retention takes away *)
(* while the request looks at it is reported as unknown.                   *)
Judged(item) ==
    CASE item.verdict = "new"       -> fact[item.id] = NoPayload
      [] item.verdict = "duplicate" -> fact[item.id] = item.payload
      [] item.verdict = "conflict"  -> seen[item.id] \ {item.payload} # {}
      [] item.verdict = "unknown"   -> seen[item.id] # {}

True(v) ==
    \A i \in DOMAIN v :
        CASE ~v[i].ours             -> v[i].verdict = "unknown"
          [] v[i].ours /\ Earlier(v, i) # {} -> Repeated(v, i)
          [] OTHER                  -> Judged(v[i])

(* A site that is not registered: nothing of the batch is looked at.       *)
Refused(v) == \A i \in DOMAIN v : v[i].verdict = "unknown"

Fresh(v, e) ==
    {v[i].payload : i \in {j \in DOMAIN v : v[j].id = e /\ v[j].verdict = "new"}}

(* All of the batch is decided and all of its new items stored, at once.   *)
Decide(r) ==
    LET v == verdicts'[r] IN
    /\ verdicts[r] = <<>>
    /\ verdicts' = [verdicts EXCEPT ![r] = v]
    /\ True(v) \/ Refused(v)
    /\ \A e \in Event :
         /\ IF Fresh(v, e) = {} THEN fact'[e] = fact[e]
            ELSE fact'[e] \in Fresh(v, e)
         /\ seen'[e] = seen[e] \cup Fresh(v, e)

Forget(e) ==
    /\ fact' = [fact EXCEPT ![e] = NoPayload]
    /\ UNCHANGED <<seen, verdicts>>

Next == (\E r \in Request : Decide(r)) \/ (\E e \in Event : Forget(e))

Spec == Init /\ [][Next]_vars
=============================================================================
