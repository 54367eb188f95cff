--------------------------- MODULE EventQueueLoops ---------------------------
(***************************************************************************)
(* The loops of browser/event-queue.ts, one iteration at a time, and what  *)
(* it means that the closed forms of EventQueue are their results.  Each   *)
(* loop is a function from the number of iterations done to what the code  *)
(* has by then.                                                            *)
(***************************************************************************)
EXTENDS EventQueue

(* enqueue() and requeue(): the queue, and the events that were shifted    *)
(* out of it and reported.                                                 *)
EnqueueStep(q, e) ==
    LET shifted == IF Len(q) >= MaxEvents /\ q # <<>> THEN Tail(q) ELSE q
    IN  Append(shifted, e)
ShiftStep(acc, e) ==
    [q    |-> EnqueueStep(acc.q, e),
     gone |-> acc.gone \cup (IF Len(acc.q) >= MaxEvents /\ acc.q # <<>>
                             THEN {Head(acc.q).id} ELSE {})]
RequeueLoop(q, es) ==
    LET after[i \in 0 .. Len(es)] ==
            IF i = 0 THEN [q |-> q, gone |-> {}] ELSE ShiftStep(after[i - 1], es[i])
    IN  after[Len(es)]

(* takeBatch() *)
TakeStep(nowMs, acc, e) ==
    IF nowMs - e.at > MaxEventAge
    THEN [acc EXCEPT !.expired = @ \cup {e.id}]
    ELSE IF Len(acc.batch) < MaxBatchSize
         THEN [acc EXCEPT !.batch = Append(@, e)]
         ELSE [acc EXCEPT !.rest = Append(@, e)]
TakeLoop(q, nowMs) ==
    LET after[i \in 0 .. Len(q)] ==
            IF i = 0 THEN [batch |-> <<>>, rest |-> <<>>, expired |-> {}]
            ELSE TakeStep(nowMs, after[i - 1], q[i])
    IN  after[Len(q)]

(* removeByIds() and removeByPurpose() walk the array backwards and splice *)
(* out what matches; the latter reports it.                                *)
SpliceStep(drop, acc, k) ==
    IF acc.q[k].id \in drop
    THEN [q    |-> SubSeq(acc.q, 1, k - 1) \o SubSeq(acc.q, k + 1, Len(acc.q)),
          gone |-> acc.gone \cup {acc.q[k].id}]
    ELSE acc
WalkBack(q, drop) ==
    LET after[i \in 0 .. Len(q)] ==
            IF i = 0 THEN [q |-> q, gone |-> {}]
            ELSE SpliceStep(drop, after[i - 1], Len(q) - i + 1)
    IN  after[Len(q)]
OfPurpose(p) == {e \in Event : PurposeOf[e] = p}

(* The closed forms keep, drop and report what the loops do, even when     *)
(* more entries come back than the queue holds ...                         *)
RequeueIsItsLoop(q, es) ==
    RequeueLoop(q, es) = [q |-> Requeue(q, es), gone |-> Evicted(q, es)]

(* ... with expired entries in any place of the queue ...                  *)
TakeBatchIsItsLoop(q, nowMs) ==
    TakeLoop(q, nowMs) = [batch   |-> Batch(q, nowMs),
                          rest    |-> Remaining(q, nowMs),
                          expired |-> Expired(q, nowMs)]

(* ... and although the array shrinks while it is walked; purposes are     *)
(* removed one after the other.                                            *)
RemovalsAreTheirLoops(q) ==
    /\ \A ids \in SUBSET Event : WalkBack(q, ids).q = RemoveByIds(q, ids)
    /\ RemoveByPurposes(q, {}) = q
    /\ \A P \in SUBSET Purpose : \A p \in Purpose \ P :
        WalkBack(RemoveByPurposes(q, P), OfPurpose(p)) =
            [q    |-> RemoveByPurposes(q, P \cup {p}),
             gone |-> Revoked(q, P \cup {p}) \ Revoked(q, P)]
=============================================================================
