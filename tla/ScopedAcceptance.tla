-------------------------- MODULE ScopedAcceptance --------------------------
(***************************************************************************)
(* Storing envelopes in Postgres for one tenant and site: acceptBatch()    *)
(* (postgres/scoped-batch-acceptance.ts), acceptEnvelope() for a single    *)
(* envelope (scoped-store.ts) and the writes both share                    *)
(* (scoped-accept-write.ts).                                               *)
(*                                                                         *)
(* Requests run at the same time and every SQL statement is a step.  What  *)
(* Postgres does is taken at READ COMMITTED: a statement sees what is      *)
(* committed when it starts; an INSERT meeting the uncommitted row of      *)
(* another transaction waits for it; FOR UPDATE waits for a row lock and   *)
(* keeps it to the end of the transaction, unless a savepoint is rolled    *)
(* back; a cycle of waiting transactions is broken by failing one of them. *)
(*                                                                         *)
(* Equal hashes are taken to mean equal payloads.                          *)
(***************************************************************************)
EXTENDS Naturals, Sequences, FiniteSets

CONSTANTS
    Request,     \* calls of acceptBatch() or acceptEnvelope()
    Single,      \* those that call acceptEnvelope()
    Event,       \* event ids
    Payload,     \* what an envelope says, as far as its hash tells
    NoPayload,   \* no row
    Batch,       \* the batches that are submitted
    InitialRows, \* what may be stored before the first of these calls
    MaxCalls,    \* bound on the calls that are made
    RecordOps,   \* options.recordOps
    PoolSize,    \* connections of the pg pool
    MaxFailures, \* bound on failing statements, connections and processes
    MaxPurges    \* bound on the inbox rows that retention deletes

Item == [id : Event, payload : Payload, ours : BOOLEAN]

ASSUME AcceptanceAssumption ==
    /\ IsFiniteSet(Request)
    /\ IsFiniteSet(Event)
    /\ Single \subseteq Request
    /\ NoPayload \notin Payload
    /\ Batch \subseteq Seq(Item) \ {<<>>}
    /\ InitialRows \subseteq [Event -> Payload \cup {NoPayload}]
    /\ RecordOps \in BOOLEAN
    /\ PoolSize \in Nat \ {0}
    /\ {MaxCalls, MaxFailures} \subseteq Nat
    /\ MaxPurges \in Nat

VARIABLES
    registered,  \* whether tracking.sites has the row of this site
    inbox,       \* tracking.event_inbox, as committed: the payload per event
    events,      \* tracking.events, as committed
    pc,          \* where each request stands
    batch,       \* its envelopes
    outcomes,    \* the verdicts so far; the next envelope is the one after
    ownInbox,    \* the inbox rows it has inserted and not committed
    ownEvents,   \* the event rows it has inserted and not committed
    locked,      \* the committed inbox rows it holds FOR UPDATE
    counted,     \* how many of its outcomes are in the ops counters
    ops,         \* tracking.ops_site_counters
    committed,   \* history: the requests whose COMMIT took effect
    ever,        \* history: the payloads ever committed for each event
    stored,      \* history: how many event rows were ever committed
    failures, purges

work == <<batch, outcomes, ownInbox, ownEvents, locked>>
tables == <<registered, inbox, events>>
history == <<committed, ever, stored>>
vars == <<tables, pc, work, counted, ops, history, failures, purges>>

Verdict == {"new", "duplicate", "conflict", "unknown"}
Metric == {"ingest_accepted", "ingest_duplicate", "ingest_conflict",
           "ingest_rejected", "ingest_storage_failed", "ingest_retry"}

InTransaction == {"next", "insertInbox", "select", "insertEvent"}
(* A request keeps its connection until its finally block. *)
Holding == InTransaction \cup {"counting", "failing", "retrying"}
Over == {"ok", "storage-error", "thrown", "gone"}

NoRows == [e \in Event |-> NoPayload]

TypeOK ==
    /\ registered \in BOOLEAN
    /\ {inbox, events} \subseteq [Event -> Payload \cup {NoPayload}]
    /\ pc \in [Request -> {"new"} \cup Holding \cup Over]
    /\ batch \in [Request -> Batch \cup {<<>>}]
    /\ outcomes \in [Request -> Seq(Verdict)]
    /\ {ownInbox, ownEvents} \subseteq
         [Request -> [Event -> Payload \cup {NoPayload}]]
    /\ locked \in [Request -> SUBSET Event]
    /\ counted \in [Request -> Nat]
    /\ ops \in [Metric -> Nat]
    /\ committed \in SUBSET Request
    /\ ever \in [Event -> SUBSET Payload]
    /\ stored \in Nat
    /\ failures \in Nat
    /\ purges \in Nat

Rows(own) == {e \in Event : own[e] # NoPayload}

Init ==
    /\ inbox \in InitialRows
    /\ events = inbox
    /\ registered \in {TRUE, inbox # NoRows}   \* a foreign key
    /\ pc = [r \in Request |-> "new"]
    /\ batch = [r \in Request |-> <<>>]
    /\ outcomes = [r \in Request |-> <<>>]
    /\ ownInbox = [r \in Request |-> NoRows]
    /\ ownEvents = [r \in Request |-> NoRows]
    /\ locked = [r \in Request |-> {}]
    /\ counted = [r \in Request |-> 0]
    /\ ops = [m \in Metric |-> 0]
    /\ committed = {}
    /\ ever = [e \in Event |-> {inbox[e]} \ {NoPayload}]
    /\ stored = Cardinality(Rows(inbox))
    /\ failures = 0
    /\ purges = 0

PoolFree == Cardinality({r \in Request : pc[r] \in Holding}) < PoolSize

Goto(r, label) == pc' = [pc EXCEPT ![r] = label]

(* The envelope a request is at. *)
Current(r) == batch[r][Len(outcomes[r]) + 1]
AllDone(r) == Len(outcomes[r]) = Len(batch[r])

(* pool.connect(), BEGIN and siteIsRegistered(). *)
Start(r, b) ==
    /\ pc[r] = "new"
    /\ Cardinality({s \in Request : pc[s] # "new"}) < MaxCalls
    /\ PoolFree
    /\ r \in Single => Len(b) = 1
    /\ batch' = [batch EXCEPT ![r] = b]
    /\ IF registered
       THEN Goto(r, "next") /\ UNCHANGED outcomes
       ELSE /\ outcomes' = [outcomes EXCEPT ![r] = [i \in DOMAIN b |-> "unknown"]]
            /\ Goto(r, "ok")
    /\ UNCHANGED <<tables, ownInbox, ownEvents, locked, counted, ops, history,
                   failures, purges>>

(* The verdict on the current envelope.  acceptEnvelope() rolls back and   *)
(* returns at once unless it is accepted.                                  *)
Conclude(r, verdict) ==
    /\ outcomes' = [outcomes EXCEPT ![r] = Append(@, verdict)]
    /\ Goto(r, IF r \in Single /\ verdict \in {"conflict", "unknown"}
               THEN "ok" ELSE "next")

(* The positions before the current envelope that batchPayloadHashById     *)
(* knows its event from.                                                   *)
Prior(r) ==
    {i \in 1 .. Len(outcomes[r]) :
        batch[r][i].ours /\ batch[r][i].id = Current(r).id}
PriorPayload(r) ==
    batch[r][CHOOSE i \in Prior(r) : \A j \in Prior(r) : i <= j].payload

(* The checks that need no statement: the scope of the envelope, and the   *)
(* same event earlier in the batch.                                        *)
TakeEnvelope(r) ==
    /\ pc[r] = "next"
    /\ ~AllDone(r)
    /\ IF ~Current(r).ours THEN Conclude(r, "unknown")
       ELSE IF Prior(r) # {}
       THEN Conclude(r, IF PriorPayload(r) = Current(r).payload
                        THEN "duplicate" ELSE "conflict")
       ELSE Goto(r, "insertInbox") /\ UNCHANGED outcomes
    /\ UNCHANGED <<tables, batch, ownInbox, ownEvents, locked, counted, ops,
                   history, failures, purges>>

(* r waits for s: to learn the fate of a row s inserted, or for a lock.    *)
WaitsFor(r, s) ==
    /\ r # s
    /\ \/ pc[r] = "insertInbox" /\ ownInbox[s][Current(r).id] # NoPayload
       \/ pc[r] = "select" /\ Current(r).id \in locked[s]
Waiting(r) == \E s \in Request : WaitsFor(r, s)

(* INSERT INTO event_inbox ... ON CONFLICT DO NOTHING. *)
ImpatientInsert(r) ==   \* mutant: no unique key makes the insert wait
    /\ pc[r] = "insertInbox"
    /\ IF inbox[Current(r).id] = NoPayload
       THEN /\ ownInbox' =
                 [ownInbox EXCEPT ![r][Current(r).id] = Current(r).payload]
            /\ Goto(r, "insertEvent")
       ELSE Goto(r, "select") /\ UNCHANGED ownInbox
    /\ UNCHANGED <<tables, batch, outcomes, ownEvents, locked, counted, ops,
                   history, failures, purges>>
InsertInbox(r) ==
    /\ pc[r] = "insertInbox"
    /\ ~Waiting(r)
    /\ IF inbox[Current(r).id] = NoPayload
       THEN /\ ownInbox' =
                 [ownInbox EXCEPT ![r][Current(r).id] = Current(r).payload]
            /\ Goto(r, "insertEvent")
       ELSE Goto(r, "select") /\ UNCHANGED ownInbox
    /\ UNCHANGED <<tables, batch, outcomes, ownEvents, locked, counted, ops,
                   history, failures, purges>>

UnlockedSelect(r) ==   \* mutant: SELECT without FOR UPDATE
    /\ pc[r] = "select"
    /\ Conclude(r, CASE inbox[Current(r).id] = NoPayload -> "unknown"
                     [] inbox[Current(r).id] = Current(r).payload -> "duplicate"
                     [] OTHER -> "conflict")
    /\ UNCHANGED <<tables, batch, ownInbox, ownEvents, locked, counted, ops,
                   history, failures, purges>>
UnseenMissing(r) ==   \* mutant: takes a row that is gone for an equal one
    /\ pc[r] = "select"
    /\ ~Waiting(r)
    /\ locked' = [locked EXCEPT ![r] = @ \cup {Current(r).id}]
    /\ Conclude(r, IF inbox[Current(r).id] = NoPayload THEN "missing" ELSE "duplicate")
    /\ UNCHANGED <<tables, batch, ownInbox, ownEvents, counted, ops, history,
                   failures, purges>>
(* SELECT payload_hash ... FOR UPDATE.  Rolling back to the savepoint      *)
(* gives the lock up; only a duplicate keeps it.                           *)
SelectExisting(r) ==
    /\ pc[r] = "select"
    /\ ~Waiting(r)
    /\ LET e == Current(r).id IN
         CASE inbox[e] = NoPayload ->
                Conclude(r, "unknown") /\ UNCHANGED locked
           [] inbox[e] = Current(r).payload ->
                /\ locked' = [locked EXCEPT ![r] = @ \cup {e}]
                /\ Conclude(r, "duplicate")
           [] OTHER -> Conclude(r, "conflict") /\ UNCHANGED locked
    /\ UNCHANGED <<tables, batch, ownInbox, ownEvents, counted, ops, history,
                   failures, purges>>

(* INSERT INTO events. *)
InsertEvent(r) ==
    /\ pc[r] = "insertEvent"
    /\ ownEvents' = [ownEvents EXCEPT ![r][Current(r).id] = Current(r).payload]
    /\ Conclude(r, "new")
    /\ UNCHANGED <<tables, batch, ownInbox, locked, counted, ops, history,
                   failures, purges>>

(***************************************************************************)
(* The end of a transaction                                                *)
(***************************************************************************)

KeepsLocks(r) ==   \* mutant: the client is released without ending the transaction
    /\ ownInbox' = [ownInbox EXCEPT ![r] = NoRows]
    /\ ownEvents' = [ownEvents EXCEPT ![r] = NoRows]
    /\ UNCHANGED locked
(* What it wrote is gone from it, committed or not, and so are its locks.  *)
EndTransaction(r) ==
    /\ ownInbox' = [ownInbox EXCEPT ![r] = NoRows]
    /\ ownEvents' = [ownEvents EXCEPT ![r] = NoRows]
    /\ locked' = [locked EXCEPT ![r] = {}]

Merged(table, own) ==
    [e \in Event |-> IF own[e] # NoPayload THEN own[e] ELSE table[e]]

TakeEffect(r) ==
    /\ pc[r] = "next"
    /\ AllDone(r)
    /\ inbox' = Merged(inbox, ownInbox[r])
    /\ events' = Merged(events, ownEvents[r])
    /\ ever' = [e \in Event |->
                  ever[e] \cup ({ownEvents[r][e]} \ {NoPayload})]
    /\ stored' = stored + Cardinality(Rows(ownEvents[r]))
    /\ committed' = committed \cup {r}
    /\ EndTransaction(r)

Commit(r) ==
    /\ TakeEffect(r)
    /\ Goto(r, IF RecordOps /\ r \notin Single THEN "counting" ELSE "ok")
    /\ UNCHANGED <<registered, batch, outcomes, counted, ops, failures, purges>>

(* The connection breaks while COMMIT is answered: ROLLBACK then throws in *)
(* the catch block, and so does the call.                                  *)
CommitUnacknowledged(r) ==
    /\ failures < MaxFailures
    /\ TakeEffect(r)
    /\ Goto(r, "thrown")
    /\ failures' = failures + 1
    /\ UNCHANGED <<registered, batch, outcomes, counted, ops, purges>>

Rollback(r, label) ==
    /\ EndTransaction(r)
    /\ Goto(r, label)
    /\ UNCHANGED <<tables, batch, outcomes, counted, ops, history, purges>>

(* The catch block: acceptEnvelope() throws the error on. *)
AfterError(r) ==
    IF r \in Single THEN "thrown" ELSE IF RecordOps THEN "failing" ELSE "storage-error"

StatementFails(r) ==
    /\ pc[r] \in InTransaction
    /\ failures < MaxFailures
    /\ Rollback(r, AfterError(r))
    /\ failures' = failures + 1

(* Postgres fails one member of a cycle of waiting transactions. *)
Deadlocked(r) ==
    \E S \in SUBSET Request :
        /\ r \in S
        /\ \A s \in S : (\E t \in S : WaitsFor(s, t)) /\ (\E t \in S : WaitsFor(t, s))
DeadlockVictim(r) ==
    /\ Deadlocked(r)
    /\ Rollback(r, AfterError(r))
    /\ UNCHANGED failures

(* The connection breaks, or the process ends; Postgres rolls back.        *)
Interrupted(r) ==
    /\ failures < MaxFailures
    /\ \/ pc[r] \in InTransaction /\ Rollback(r, "thrown")
       \/ pc[r] \in Holding /\ Rollback(r, "gone")
    /\ failures' = failures + 1

(***************************************************************************)
(* Ops counters: recordBatchIngestOps() and recordIngestStorageFailureOps() *)
(* run statements of their own, each on another connection of the pool.    *)
(***************************************************************************)

RepeatedMetricOf(verdict) ==   \* mutant: duplicates count as accepted
    CASE verdict \in {"new", "duplicate"} -> "ingest_accepted"
      [] verdict = "conflict" -> "ingest_conflict"
      [] verdict = "unknown" -> "ingest_rejected"
MetricOf(verdict) ==
    CASE verdict = "new" -> "ingest_accepted"
      [] verdict = "duplicate" -> "ingest_duplicate"
      [] verdict = "conflict" -> "ingest_conflict"
      [] verdict = "unknown" -> "ingest_rejected"

CountOutcome(r) ==
    /\ pc[r] = "counting"
    /\ PoolFree
    /\ ops' = [ops EXCEPT ![MetricOf(outcomes[r][counted[r] + 1])] = @ + 1]
    /\ counted' = [counted EXCEPT ![r] = @ + 1]
    /\ IF counted'[r] = Len(batch[r]) THEN Goto(r, "ok") ELSE UNCHANGED pc
    /\ UNCHANGED <<tables, work, history, failures, purges>>

(* A failing counter lands in the same catch block as a failing write.     *)
CountFails(r) ==
    /\ pc[r] = "counting"
    /\ failures < MaxFailures
    /\ failures' = failures + 1
    /\ Goto(r, "failing")
    /\ UNCHANGED <<tables, work, counted, ops, history, purges>>

CountFailure(r) ==
    /\ pc[r] \in {"failing", "retrying"}
    /\ PoolFree
    /\ IF pc[r] = "failing"
       THEN /\ ops' = [ops EXCEPT !["ingest_storage_failed"] = @ + Len(batch[r])]
            /\ Goto(r, "retrying")
       ELSE /\ ops' = [ops EXCEPT !["ingest_retry"] = @ + 1]
            /\ Goto(r, "storage-error")
    /\ UNCHANGED <<tables, work, counted, history, failures, purges>>

CountFailureFails(r) ==
    /\ pc[r] \in {"failing", "retrying"}
    /\ failures < MaxFailures
    /\ failures' = failures + 1
    /\ Goto(r, "thrown")
    /\ UNCHANGED <<tables, work, counted, ops, history, purges>>

(***************************************************************************)
(* Others: the host registers the site; retention deletes old rows, the    *)
(* inbox row only when the event row that refers to it is gone.            *)
(***************************************************************************)

RegisterSite ==
    /\ ~registered
    /\ registered' = TRUE
    /\ UNCHANGED <<inbox, events, pc, work, counted, ops, history, failures, purges>>

PurgeEvent(e) ==
    /\ purges < MaxPurges
    /\ events[e] # NoPayload
    /\ events' = [events EXCEPT ![e] = NoPayload]
    /\ UNCHANGED <<registered, inbox, pc, work, counted, ops, history, failures,
                   purges>>

PurgeInbox(e) ==
    /\ purges < MaxPurges
    /\ inbox[e] # NoPayload
    /\ events[e] = NoPayload
    /\ \A r \in Request : e \notin locked[r]
    /\ inbox' = [inbox EXCEPT ![e] = NoPayload]
    /\ purges' = purges + 1
    /\ UNCHANGED <<registered, events, pc, work, counted, ops, history, failures>>

Proceed(r) ==
    \/ TakeEnvelope(r)
    \/ InsertInbox(r)
    \/ SelectExisting(r)
    \/ InsertEvent(r)
    \/ Commit(r)
    \/ DeadlockVictim(r)
    \/ CountOutcome(r)
    \/ CountFailure(r)

Break(r) ==
    \/ CommitUnacknowledged(r)
    \/ StatementFails(r)
    \/ Interrupted(r)
    \/ CountFails(r)
    \/ CountFailureFails(r)

Next ==
    \/ \E r \in Request, b \in Batch : Start(r, b)
    \/ \E r \in Request : Proceed(r) \/ Break(r)
    \/ RegisterSite
    \/ \E e \in Event : PurgeEvent(e) \/ PurgeInbox(e)

Spec == Init /\ [][Next]_vars

(* Every statement of a request is eventually answered, by its result or   *)
(* by the deadlock detector; the pool hands out free connections in order. *)
FairSpec ==
    /\ Spec
    /\ \A r \in Request : WF_vars(Proceed(r))

(***************************************************************************)
(* Properties                                                              *)
(***************************************************************************)

(* No event is stored twice and no batch by half: all event rows ever      *)
(* committed are those whose inbox row is there or was deleted by          *)
(* retention.  Concurrent requests with one event, repeated batches,       *)
(* failing statements and interrupted commits included.                    *)
StoredOnce == stored = Cardinality(Rows(inbox)) + purges

(* The events that the committed batches of acceptBatch() have stored. *)
StoredInBatches ==
    Cardinality(UNION {{r} \X {i \in DOMAIN outcomes[r] : outcomes[r][i] = "new"}
                       : r \in committed \ Single})

(* ingest_accepted never counts an event that is not stored, and counts    *)
(* each when nothing failed.                                               *)
CountersMatchFacts ==
    /\ ops["ingest_accepted"] <= StoredInBatches
    /\ (\A r \in Request : pc[r] \in {"new", "ok"}) /\ RecordOps /\ failures = 0
         => ops["ingest_accepted"] = StoredInBatches

(* A request is decided when its COMMIT takes effect, or when it returns   *)
(* without one: a site that is unknown, a single envelope that is refused. *)
Decided(r) == r \in committed \/ pc[r] = "ok"
Verdicts(r) ==
    IF Decided(r)
    THEN [i \in DOMAIN outcomes[r] |->
            [id |-> batch[r][i].id, payload |-> batch[r][i].payload,
             ours |-> batch[r][i].ours, verdict |-> outcomes[r][i]]]
    ELSE <<>>

Store == INSTANCE FirstWriteWins
    WITH fact <- inbox, seen <- ever,
         verdicts <- [r \in Request |-> Verdicts(r)]

(* Batches take effect one after the other, each as a whole, and every     *)
(* verdict is true of the moment its request takes effect.                 *)
ImplementsFirstWriteWins == Store!Spec

(* Every request that has a connection comes to an end: waiting for rows   *)
(* is never for ever, and (with more connections than requests) neither is *)
(* waiting for the counters' connection.                                   *)
EveryRequestEnds ==
    \A r \in Request : pc[r] \in Holding ~> pc[r] \in Over

(* Somebody can always go on: the requests with a connection never all     *)
(* wait, for rows of each other or for the counters' connection, unless    *)
(* Postgres finds a cycle among them.  This needs more connections than    *)
(* calls: a request keeps its own while it asks for the counters'.         *)
Able(r) ==
    \/ pc[r] \in InTransaction /\ (Waiting(r) => Deadlocked(r))
    \/ pc[r] \in {"counting", "failing", "retrying"} /\ PoolFree
NoStandstill ==
    (\E r \in Request : pc[r] \in Holding) => \E r \in Request : Able(r)

(* docs/observability.md: ingest_* metrics after each batch commit.        *)
CommitsAreCounted ==
    \A r \in Request \ Single : r \in committed ~> counted[r] = Len(batch[r])
=============================================================================
