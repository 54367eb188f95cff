----------------------------- MODULE EventQueue -----------------------------
(***************************************************************************)
(* The in-memory queue of the browser client (browser/event-queue.ts) as   *)
(* operators on sequences of entries.  The code loops over an array; here  *)
(* every method is a closed form over sets of positions, so that the same  *)
(* definitions are model-checked and reasoned about in proofs.             *)
(* EventQueueLoops has the loops, EventQueueProofs that they are the same. *)
(*                                                                         *)
(* An entry is reduced to what the queue looks at: the event id, the time  *)
(* of its first enqueue and its retry count.  The purpose of an event      *)
(* never changes, so it is the constant PurposeOf.                         *)
(***************************************************************************)
EXTENDS Integers, Sequences, FiniteSets

CONSTANTS
    Event,         \* event ids; the client makes a fresh one per capture
    PurposeOf,     \* the collection purpose of each event
    MaxEvents,     \* QueueLimits.maxEvents
    MaxBatchSize,  \* QueueLimits.maxBatchSize
    MaxEventAge    \* QueueLimits.maxEventAgeMs, in ticks of the model's clock

Purpose == {"necessary", "analytics", "measurement"}

ASSUME QueueAssumption ==
    /\ IsFiniteSet(Event)
    /\ PurposeOf \in [Event -> Purpose]
    /\ MaxEvents \in Nat
    /\ MaxBatchSize \in Nat
    /\ MaxEventAge \in Nat

Entry == [id : Event, at : Nat, attempt : Nat]

(* The events that have an entry in q. *)
Ids(q) == {q[i].id : i \in DOMAIN q}
NoDuplicates(q) == \A i, j \in DOMAIN q : q[i].id = q[j].id => i = j

(* The k-th smallest member of a finite set of positions. *)
Nth(I, k) == CHOOSE i \in I : Cardinality({j \in I : j <= i}) = k

(* The entries of q at the positions I, in the order of q. *)
At(q, I) == [k \in 1 .. Cardinality(I) |-> q[Nth(I, k)]]

(* enqueue() shifts before it pushes, so one entry fits even when the      *)
(* limit is zero.                                                          *)
Capacity == IF MaxEvents = 0 THEN 1 ELSE MaxEvents

(* requeue(): enqueue() for each entry in turn.  Entries go to the BACK,   *)
(* and the oldest ones are shifted out when the queue is full.             *)
LateExcess(q, es) ==   \* mutant: shifts only when the limit is exceeded by two
    IF Len(q) + Len(es) > Capacity + 1 THEN Len(q) + Len(es) - Capacity - 1 ELSE 0
Excess(q, es) ==
    IF Len(q) + Len(es) > Capacity THEN Len(q) + Len(es) - Capacity ELSE 0
Requeue(q, es) ==
    SubSeq(q \o es, Excess(q, es) + 1, Len(q) + Len(es))

(* The events that requeue() reports with "queue-full". *)
Evicted(q, es) == Ids(SubSeq(q \o es, 1, Excess(q, es)))

(* enqueue() *)
Enqueue(q, e) == Requeue(q, <<e>>)

(* takeBatch(): expired entries are dropped wherever they stand, the first *)
(* MaxBatchSize live ones are taken and the others stay.                   *)
EarlyLive(q, nowMs) ==   \* mutant: expires an entry at its age limit
    {i \in DOMAIN q : nowMs - q[i].at < MaxEventAge}
Live(q, nowMs) == {i \in DOMAIN q : nowMs - q[i].at <= MaxEventAge}
Taken(q, nowMs) ==
    {i \in Live(q, nowMs) :
        Cardinality({j \in Live(q, nowMs) : j <= i}) <= MaxBatchSize}

Batch(q, nowMs) == At(q, Taken(q, nowMs))
Remaining(q, nowMs) == At(q, Live(q, nowMs) \ Taken(q, nowMs))
(* The events that takeBatch() reports with "event-expired". *)
Expired(q, nowMs) == {q[i].id : i \in DOMAIN q \ Live(q, nowMs)}

(* removeByIds() *)
RemoveByIds(q, ids) == At(q, {i \in DOMAIN q : q[i].id \notin ids})

(* removeByPurpose(), for each purpose of a set; the events it reports     *)
(* with "consent-revoked".                                                 *)
SkippingRemove(q, P) ==   \* mutant: splices forwards and skips the next entry
    At(q, {i \in DOMAIN q : \/ PurposeOf[q[i].id] \notin P
                            \/ i > 1 /\ PurposeOf[q[i - 1].id] \in P})
RemoveByPurposes(q, P) ==
    At(q, {i \in DOMAIN q : PurposeOf[q[i].id] \notin P})
Revoked(q, P) == {e \in Ids(q) : PurposeOf[e] \in P}
=============================================================================
