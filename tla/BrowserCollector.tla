-------------------------- MODULE BrowserCollector --------------------------
(***************************************************************************)
(* The collector that browsers post to: createBrowserCollectHandler()      *)
(* (server/browser-collector.ts) with createMemoryRateLimiter()            *)
(* (server/rate-limit.ts) and an adapter that stores the batch, either the *)
(* one in memory (server/memory-batch.ts), step by step, or the one for    *)
(* Postgres, as the single step that ScopedAcceptance implements.          *)
(*                                                                         *)
(* Requests run at the same time in one process: what happens between two  *)
(* awaits is one action, and a value read before an await is kept in       *)
(* `read`.  One site and one client address, so one bucket of the limiter. *)
(***************************************************************************)
EXTENDS Naturals, Sequences, FiniteSets

CONSTANTS
    Request,        \* calls of the handler
    Event,          \* event ids
    Payload,        \* what an envelope says: equal payloads, equal content
    NoEnvelope,     \* nothing is stored
    Body,           \* the batches that are posted
    Adapters,       \* batchAcceptance: "memory", "postgres"
    MaxBatchEvents, \* limits.maxBatchEvents
    Limits,         \* maxRequests of the limiter, per window
    Window,         \* windowMs
    MaxNow,         \* bound on the clock
    MaxFailures     \* bound on failures of the Postgres adapter

(* fit: the item itself gives no reason to refuse it. *)
Item == [id : Event, payload : Payload, fit : BOOLEAN]

ASSUME CollectorAssumption ==
    /\ IsFiniteSet(Request)
    /\ NoEnvelope \notin Payload
    /\ Body \subseteq Seq(Item)
    /\ Adapters \subseteq {"memory", "postgres"}
    /\ Limits \cup {MaxBatchEvents, Window} \subseteq Nat \ {0}
    /\ {MaxNow, MaxFailures} \subseteq Nat

VARIABLES
    adapter,     \* the adapter of this collector
    maxRequests, \* the limit of this collector
    lookup,      \* whether the host's envelopeStore.get() sees what is stored
    store,       \* the envelope stored for each event
    bucket,      \* the limiter's bucket
    now,
    pc,          \* where each request stands
    body,        \* its items
    outcomes,    \* the outcomes so far; the next item is the one after
    envelopes,   \* the envelopes it passes to acceptBatch()
    read,        \* the value of its last get()
    stored,      \* the outcomes of acceptBatch() so far
    admitted,    \* history: when the limiter let it pass
    failures

request == <<body, outcomes, envelopes, read, stored>>
limiter == <<bucket, now, admitted>>
host == <<adapter, maxRequests, lookup>>
vars == <<host, store, limiter, pc, request, failures>>

Outcome == {"new", "duplicate", "conflict", "invalid", "storage-error"}
Accepted == {"new", "duplicate"}
Busy == {"items", "compare", "judge", "accept", "append"}
(* The responses, by what they say: 202, 503, 4xx, 429 and 413. *)
Answered == {"outcomes", "storage-error", "refused", "rate-limited", "too-large"}
Never == MaxNow + 1
Stored == Payload \cup {NoEnvelope}

TypeOK ==
    /\ adapter \in Adapters
    /\ maxRequests \in Limits
    /\ lookup \in BOOLEAN
    /\ store \in [Event -> Stored]
    /\ bucket \in [count : 0 .. maxRequests, resetAt : Nat]
    /\ now \in 0 .. MaxNow
    /\ pc \in [Request -> {"new"} \cup Busy \cup Answered]
    /\ body \in [Request -> Body \cup {<<>>}]
    /\ {outcomes, stored} \subseteq [Request -> Seq(Outcome)]
    /\ envelopes \in [Request -> Seq(Item)]
    /\ read \in [Request -> Stored]
    /\ admitted \in [Request -> 0 .. Never]
    /\ failures \in 0 .. MaxFailures

Init ==
    /\ adapter \in Adapters
    /\ maxRequests \in Limits
    /\ lookup \in BOOLEAN
    /\ store = [e \in Event |-> NoEnvelope]
    /\ bucket = [count |-> 0, resetAt |-> 0]
    /\ now = 0
    /\ pc = [r \in Request |-> "new"]
    /\ body = [r \in Request |-> <<>>]
    /\ outcomes = [r \in Request |-> <<>>]
    /\ envelopes = [r \in Request |-> <<>>]
    /\ read = [r \in Request |-> NoEnvelope]
    /\ stored = [r \in Request |-> <<>>]
    /\ admitted = [r \in Request |-> Never]
    /\ failures = 0

Goto(r, label) == pc' = [pc EXCEPT ![r] = label]
Extend(f, r, x) == [f EXCEPT ![r] = Append(@, x)]

(***************************************************************************)
(* Admission                                                               *)
(***************************************************************************)

(* Method, content type, size, JSON, site or origin: no state is touched.  *)
Refuse(r) ==
    /\ pc[r] = "new"
    /\ Goto(r, "refused")
    /\ UNCHANGED <<host, store, limiter, request, failures>>

UncountedFirst ==   \* mutant: the request that opens a window is not counted
    IF now >= bucket.resetAt
    THEN [count |-> 0, resetAt |-> now + Window]
    ELSE [bucket EXCEPT !.count = @ + 1]
OneMore == now >= bucket.resetAt \/ bucket.count <= maxRequests   \* mutant: <= for <
(* rateLimiter.check() *)
Allowed == now >= bucket.resetAt \/ bucket.count < maxRequests
Counted ==
    IF now >= bucket.resetAt
    THEN [count |-> 1, resetAt |-> now + Window]
    ELSE [bucket EXCEPT !.count = @ + 1]

Limit(r) ==
    /\ pc[r] = "new"
    /\ ~Allowed
    /\ Goto(r, "rate-limited")
    /\ UNCHANGED <<host, store, limiter, request, failures>>

(* extractBatchItems() *)
TooLarge(b) == Len(b) > MaxBatchEvents

(* The limiter lets it pass, and counts it even if the batch is too large. *)
Admit(r, b) ==
    /\ pc[r] = "new"
    /\ Allowed
    /\ bucket' = Counted
    /\ admitted' = [admitted EXCEPT ![r] = now]
    /\ body' = [body EXCEPT ![r] = b]
    /\ Goto(r, IF TooLarge(b) THEN "too-large" ELSE "items")
    /\ UNCHANGED <<host, store, now, outcomes, envelopes, read, stored, failures>>

(***************************************************************************)
(* The items, one after the other                                          *)
(***************************************************************************)

Current(r) == body[r][Len(outcomes[r]) + 1]
AllJudged(r) == Len(outcomes[r]) = Len(body[r])

Found(e) == IF lookup THEN store[e] ELSE NoEnvelope

Conclude(r, outcome) ==
    /\ outcomes' = Extend(outcomes, r, outcome)
    /\ read' = [read EXCEPT ![r] = NoEnvelope]
    /\ Goto(r, "items")

Against(p, q) == IF p = q THEN "duplicate" ELSE "conflict"

(* prepareBrowserSubmitted(), the identity policy, and                     *)
(* prepareContractEnvelope() up to its get().                              *)
Prepare(r) ==
    /\ pc[r] = "items"
    /\ ~AllJudged(r)
    /\ IF Current(r).fit
       THEN /\ read' = [read EXCEPT ![r] = Found(Current(r).id)]
            /\ Goto(r, "compare")
            /\ UNCHANGED outcomes
       ELSE Conclude(r, "invalid")
    /\ UNCHANGED <<host, store, limiter, body, envelopes, stored, failures>>

(* Where this batch already has the event: batchByEventId. *)
PriorInBatch(r) == {i \in DOMAIN envelopes[r] : envelopes[r][i].id = Current(r).id}

(* The rest of prepareContractEnvelope(), the look at batchByEventId, and  *)
(* the handler's own get().                                                *)
Compare(r) ==
    /\ pc[r] = "compare"
    /\ IF read[r] \notin {NoEnvelope, Current(r).payload}
       THEN Conclude(r, "conflict")
       ELSE IF PriorInBatch(r) # {}
       THEN \E i \in PriorInBatch(r) :
              Conclude(r, Against(envelopes[r][i].payload, Current(r).payload))
       ELSE /\ read' = [read EXCEPT ![r] = Found(Current(r).id)]
            /\ Goto(r, "judge")
            /\ UNCHANGED outcomes
    /\ UNCHANGED <<host, store, limiter, body, envelopes, stored, failures>>

Judge(r) ==
    /\ pc[r] = "judge"
    /\ IF read[r] # NoEnvelope
       THEN /\ Conclude(r, Against(read[r], Current(r).payload))
            /\ UNCHANGED envelopes
       ELSE /\ Conclude(r, "new")
            /\ envelopes' = Extend(envelopes, r, Current(r))
    /\ UNCHANGED <<host, store, limiter, body, stored, failures>>

(* Nothing is left to store, or acceptBatch() is called. *)
Submit(r) ==
    /\ pc[r] = "items"
    /\ AllJudged(r)
    /\ Goto(r, IF envelopes[r] = <<>> THEN "outcomes" ELSE "accept")
    /\ UNCHANGED <<host, store, limiter, request, failures>>

(***************************************************************************)
(* acceptBatch() in memory                                                 *)
(***************************************************************************)

Envelope(r) == envelopes[r][Len(stored[r]) + 1]
AllStored(r) == Len(stored[r]) = Len(envelopes[r])

Earlier(r) == {i \in DOMAIN stored[r] : envelopes[r][i].id = Envelope(r).id}

(* The look at batchPayloadHashById, then store.get(). *)
TakeEnvelope(r) ==
    /\ pc[r] = "accept"
    /\ adapter = "memory"
    /\ ~AllStored(r)
    /\ IF Earlier(r) # {}
       THEN /\ \E i \in Earlier(r) :
                 stored' = Extend(stored, r,
                     Against(envelopes[r][i].payload, Envelope(r).payload))
            /\ UNCHANGED <<pc, read>>
       ELSE /\ read' = [read EXCEPT ![r] = store[Envelope(r).id]]
            /\ Goto(r, "append")
            /\ UNCHANGED stored
    /\ UNCHANGED <<host, store, limiter, body, outcomes, envelopes, failures>>

UncheckedAppend(r) ==   \* mutant: append() does not look whether the id is there
    /\ pc[r] = "append"
    /\ LET e == Envelope(r) IN
         IF read[r] # NoEnvelope
         THEN /\ stored' = Extend(stored, r, Against(read[r], e.payload))
              /\ UNCHANGED store
         ELSE /\ store' = [store EXCEPT ![e.id] = e.payload]
              /\ stored' = Extend(stored, r, "new")
    /\ read' = [read EXCEPT ![r] = NoEnvelope]
    /\ Goto(r, "accept")
    /\ UNCHANGED <<host, limiter, body, outcomes, envelopes, failures>>
(* What get() found, or else store.append(), which may find the event      *)
(* after all: another request stored it during the await.                  *)
StoreEnvelope(r) ==
    /\ pc[r] = "append"
    /\ LET e == Envelope(r) IN
         IF read[r] # NoEnvelope
         THEN /\ stored' = Extend(stored, r, Against(read[r], e.payload))
              /\ UNCHANGED store
         ELSE IF store[e.id] # NoEnvelope
         THEN /\ stored' = Extend(stored, r, Against(store[e.id], e.payload))
              /\ UNCHANGED store
         ELSE /\ store' = [store EXCEPT ![e.id] = e.payload]
              /\ stored' = Extend(stored, r, "new")
    /\ read' = [read EXCEPT ![r] = NoEnvelope]
    /\ Goto(r, "accept")
    /\ UNCHANGED <<host, limiter, body, outcomes, envelopes, failures>>

(***************************************************************************)
(* acceptBatch() in Postgres: the batch takes effect at once.  A failure   *)
(* is answered with storage-error, and may come after the COMMIT.          *)
(***************************************************************************)

Taken(r) ==
    LET new == {item \in Item : store[item.id] = NoEnvelope
                  /\ \E i \in DOMAIN envelopes[r] : envelopes[r][i] = item}
    IN  store' = [e \in Event |->
                    IF \E item \in new : item.id = e
                    THEN (CHOOSE item \in new : item.id = e).payload ELSE store[e]]

AcceptBatch(r) ==
    /\ pc[r] = "accept"
    /\ adapter = "postgres"
    /\ stored[r] = <<>>
    /\ Taken(r)
    /\ stored' = [stored EXCEPT ![r] =
         [i \in DOMAIN envelopes[r] |->
            LET e == envelopes[r][i] IN
            IF store[e.id] = NoEnvelope THEN "new"
            ELSE Against(store[e.id], e.payload)]]
    /\ UNCHANGED <<host, limiter, pc, body, outcomes, envelopes, read, failures>>

AcceptFails(r) ==
    /\ pc[r] = "accept"
    /\ adapter = "postgres"
    /\ stored[r] = <<>>
    /\ failures < MaxFailures
    /\ failures' = failures + 1
    /\ Taken(r) \/ UNCHANGED store
    /\ envelopes' = [envelopes EXCEPT ![r] = <<>>]
    /\ Goto(r, "storage-error")
    /\ UNCHANGED <<host, limiter, body, outcomes, read, stored>>

(***************************************************************************)
(* The answer                                                              *)
(***************************************************************************)

OptimisticMerge(r, i) ==   \* mutant: what was accepted before storing stays accepted
    outcomes[r][i]
MergeAll(r, i) ==   \* mutant: rejected items are looked up as well
    LET same == {j \in DOMAIN stored[r] : envelopes[r][j].id = body[r][i].id} IN
    IF same = {} THEN "storage-error"
    ELSE stored[r][CHOOSE j \in same : TRUE]
(* mergeOutcomes() for item i. *)
MergedOutcome(r, i) ==
    LET same == {j \in DOMAIN stored[r] : envelopes[r][j].id = body[r][i].id} IN
    IF outcomes[r][i] \notin Accepted THEN outcomes[r][i]
    ELSE IF same = {} THEN "storage-error"
    ELSE stored[r][CHOOSE j \in same : \A k \in same : k <= j]

Answer(r) ==
    /\ pc[r] = "accept"
    /\ AllStored(r)
    /\ outcomes' = [outcomes EXCEPT ![r] =
                      [i \in DOMAIN body[r] |-> MergedOutcome(r, i)]]
    /\ envelopes' = [envelopes EXCEPT ![r] = <<>>]
    /\ stored' = [stored EXCEPT ![r] = <<>>]
    /\ Goto(r, "outcomes")
    /\ UNCHANGED <<host, store, limiter, body, read, failures>>

Tick ==
    /\ now < MaxNow
    /\ now' = now + 1
    /\ UNCHANGED <<host, store, bucket, admitted, pc, request, failures>>

Handle(r) ==
    \/ Prepare(r)
    \/ Compare(r)
    \/ Judge(r)
    \/ Submit(r)
    \/ TakeEnvelope(r)
    \/ StoreEnvelope(r)
    \/ AcceptBatch(r)
    \/ AcceptFails(r)
    \/ Answer(r)

Next ==
    \/ \E r \in Request :
         Refuse(r) \/ Limit(r) \/ (\E b \in Body : Admit(r, b)) \/ Handle(r)
    \/ Tick

Spec == Init /\ [][Next]_vars

(***************************************************************************)
(* Properties                                                              *)
(***************************************************************************)

Said(r, i, outcome) ==
    pc[r] = "outcomes" /\ i \in DOMAIN body[r] /\ outcomes[r][i] = outcome

(* What a 202 calls accepted is stored, with the payload that was posted:  *)
(* also when another request stored the event with another payload between *)
(* the handler's look at the store and the adapter's.                      *)
AcceptedIsStored ==
    \A r \in Request : \A i \in DOMAIN body[r] :
        Said(r, i, "new") \/ Said(r, i, "duplicate")
          => store[body[r][i].id] = body[r][i].payload

(* No two requests are told that they stored the same event first.         *)
OneRequestIsFirst ==
    \A r, s \in Request :
        r # s => \A i \in DOMAIN body[r], j \in DOMAIN body[s] :
            body[r][i].id = body[s][j].id
              => ~(Said(r, i, "new") /\ Said(s, j, "new"))

(* A fit item is refused for a reason: for a conflict only if another      *)
(* payload came first, in the store or in its batch; and one that is       *)
(* answered storage-error, which the browser does not send again, is       *)
(* stored, so that nothing is lost by it.                                  *)
RefusedForCause ==
    \A r \in Request : \A i \in DOMAIN body[r] :
        LET item == body[r][i] IN
        /\ Said(r, i, "conflict") =>
             /\ store[item.id] # NoEnvelope
             /\ \/ store[item.id] # item.payload
                \/ \E j \in 1 .. i - 1 : body[r][j].id = item.id
                                         /\ body[r][j].payload # item.payload
        /\ Said(r, i, "storage-error") => store[item.id] = item.payload

(* Since the open window began, no more than maxRequests have passed; and  *)
(* within the length of a window, across the end of one and the start of   *)
(* the next, fewer than twice as many.                                     *)
AdmissionsBounded ==
    LET During(T) == Cardinality({r \in Request : admitted[r] \in T}) IN
    /\ During({t \in 0 .. now : t + Window >= bucket.resetAt}) <= maxRequests
    /\ \A t \in 0 .. now : During((t .. t + Window - 1) \cap (0 .. now)) < 2 * maxRequests
=============================================================================
