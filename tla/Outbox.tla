------------------------------- MODULE Outbox -------------------------------
(***************************************************************************)
(* Trusted server events: the transactional outbox and its workers         *)
(* (examples/server-outbox-postgres/domain-outbox-worker.mjs), the server  *)
(* collector that takes the same records over HTTP                         *)
(* (server/server-collector.ts), and the preparation both share            *)
(* (server/outbox-prepare.ts, prepareContractEnvelope()).                  *)
(*                                                                         *)
(* Workers and requests run at the same time; a step is what the code does *)
(* between two awaits.  Storing is one step with the verdicts of           *)
(* FirstWriteWins, which ScopedAcceptance implements.  The event id is a   *)
(* hash of the outbox id, so an entry stands for both.                     *)
(***************************************************************************)
EXTENDS Naturals, Sequences, FiniteSets

CONSTANTS
    Worker,      \* worker processes, each with its id
    Request,     \* posts to the server collector
    Entry,       \* outbox ids
    Payload,     \* what a record says
    Registered,  \* the payloads that the registry accepts
    NoPayload,   \* no record
    None,        \* no envelope
    Jobs,        \* the jobs that may be created, with the record of each
    Posts,       \* the posts that may arrive, some at a collector with a writer
    MaxTrouble   \* bound on crashes, failures, purges, revocations and
                 \* deployments with another collector context, together

(* How a post can be refused before its record is looked at: without the   *)
(* token; too large; no record; a browser producer; a foreign app or site. *)
Refusal == {"unauthorized", "oversized", "malformed", "forged", "foreign"}

Process == Worker \cup Request
Context == 0 .. MaxTrouble

(* What deduplication compares of an envelope: the record, and the rule    *)
(* and policy versions of the collector that built it.                     *)
Content == [payload : Payload, context : Context]

ASSUME OutboxAssumption ==
    /\ Worker \cap Request = {}
    /\ IsFiniteSet(Entry)
    /\ Registered \subseteq Payload
    /\ NoPayload \notin Payload
    /\ Jobs \subseteq [entry : Entry, payload : Payload]
    /\ Posts \subseteq [entry : Entry, payload : Payload,
                        fault : Refusal \cup {"none"}, writer : BOOLEAN]
    /\ None \notin Worker /\ None \notin Posts /\ None \notin Content
    /\ MaxTrouble \in Nat

VARIABLES
    outbox,      \* the rows, in the order of insertion
    row,         \* what the row of each entry says: its record, its status,
                 \* and the worker whose lease on it has not ended
    fact,        \* the envelopes stored, by event id
    ever,        \* history: all contents ever stored under each event id
    handed,      \* what the host's OutboxEventWriter has taken
    granted,     \* consent for the purpose of these events
    context,     \* the collector context of this deployment
    task,        \* what each process is at
    post,        \* the post each request carries
    response,    \* the status code it is answered with
    overran,     \* history: whether a lease ever ended under its worker
    revocations, failures, crashes, purges

bounds == <<revocations, failures, crashes, purges>>
tables == <<outbox, row>>
store == <<fact, ever>>
setting == <<granted, context>>
web == <<post, response, handed>>
vars == <<tables, store, web, setting, task, overran, bounds>>

Status == {"pending", "processing", "failed", "published", "quarantined"}
Settled == {"published", "quarantined"}
Verdict == {"new", "duplicate", "conflict", "unregistered", "denied", "storage-error"}
Code == {0, 202, 400, 401, 403, 409, 413, 500, 503}
Label == {"idle", "look", "build", "accept", "settle"}

Row == [payload : Payload \cup {NoPayload}, status : Status,
        lease : Worker \cup {None}]
Task == [at : Label, entry : Entry \cup {None}, payload : Payload \cup {NoPayload},
         read : Content \cup {None}, verdict : Verdict \cup {None}]

Trouble == revocations + failures + crashes + purges + context

NoRow == [payload |-> NoPayload, status |-> "pending", lease |-> None]
Idle == [at |-> "idle", entry |-> None, payload |-> NoPayload, read |-> None,
         verdict |-> None]

TypeOK ==
    /\ outbox \in Seq(Entry)
    /\ row \in [Entry -> Row]
    /\ fact \in [Entry -> Content \cup {None}]
    /\ ever \in [Entry -> SUBSET Content]
    /\ handed \in [Entry -> Content \cup {None}]
    /\ granted \in BOOLEAN
    /\ context \in Context
    /\ task \in [Process -> Task]
    /\ post \in [Request -> Posts \cup {None}]
    /\ response \in [Request -> Code]
    /\ overran \in BOOLEAN
    /\ revocations \in Nat /\ failures \in Nat /\ crashes \in Nat /\ purges \in Nat

Init ==
    /\ outbox = <<>>
    /\ row = [e \in Entry |-> NoRow]
    /\ fact = [e \in Entry |-> None]
    /\ ever = [e \in Entry |-> {}]
    /\ handed = [e \in Entry |-> None]
    /\ granted = TRUE
    /\ context = 0
    /\ task = [p \in Process |-> Idle]
    /\ post = [r \in Request |-> None]
    /\ response = [r \in Request |-> 0]
    /\ overran = FALSE
    /\ revocations = 0 /\ failures = 0 /\ crashes = 0 /\ purges = 0

(* createJobWithOutboxEntry(): the job and its row, or neither when the    *)
(* domain transaction rolls back.                                          *)
JobExists(e) == row[e].payload # NoPayload

CreateJobWithOutboxEntry(e, p) ==
    /\ ~JobExists(e)
    /\ outbox' = Append(outbox, e)
    /\ row' = [row EXCEPT ![e] = [NoRow EXCEPT !.payload = p]]
    /\ UNCHANGED <<store, web, setting, task, overran, bounds>>

(* claimNext(): the first row that is not settled and not under the lease  *)
(* of another worker.  Rows that failed are taken again at once.           *)
AnyLease(w, e) ==   \* mutant: leases are not looked at
    row[e].status \notin Settled
PendingOnly(w, e) ==   \* mutant: rows left in processing are not reclaimed
    /\ row[e].status \in {"pending", "failed"}
    /\ row[e].lease \in {None, w}
Reopening(w, e) ==   \* mutant: quarantined rows are retried
    /\ row[e].status # "published"
    /\ row[e].lease \in {None, w}
Claimable(w, e) ==
    /\ row[e].status \notin Settled
    /\ row[e].lease \in {None, w}

ClaimNext(w) ==
    /\ task[w].at = "idle"
    /\ \E i \in DOMAIN outbox :
        LET e == outbox[i] IN
        /\ Claimable(w, e)
        /\ \A j \in 1 .. i - 1 : ~Claimable(w, outbox[j])
        /\ row' = [row EXCEPT ![e].status = "processing", ![e].lease = w]
        /\ task' = [task EXCEPT ![w] = [Idle EXCEPT !.at = "look", !.entry = e,
                                                    !.payload = row[e].payload]]
    /\ UNCHANGED <<outbox, store, web, setting, overran, bounds>>

(* Date.now() passes the leaseUntil of a row. *)
Delivering(w, e) == task[w].at # "idle" /\ task[w].entry = e

LeaseEnds(e) ==
    /\ row[e].lease # None
    /\ row' = [row EXCEPT ![e].lease = None]
    /\ overran' = (overran \/ Delivering(row[e].lease, e))
    /\ UNCHANGED <<outbox, store, web, setting, task, bounds>>

(***************************************************************************)
(* prepareContractEnvelope() and acceptBatch(), for worker and request     *)
(***************************************************************************)

Refuse(p, verdict) ==
    task' = [task EXCEPT ![p].at = "settle", ![p].verdict = verdict,
                         ![p].read = None]

(* Up to the await of envelopeStore.get(). *)
Look(p) ==
    /\ task[p].at = "look"
    /\ IF task[p].payload \notin Registered
       THEN Refuse(p, "unregistered")
       ELSE task' = [task EXCEPT ![p].at = "build",
                                 ![p].read = fact[task[p].entry]]
    /\ UNCHANGED <<tables, store, web, setting, overran, bounds>>

(* buildEnvelopeFromSubmitted(), which takes neither its id nor the time   *)
(* of delivery into what is compared.                                      *)
TimedEnvelope(p) ==   \* mutant: received_at is part of the content
    [payload |-> task[p].payload, context |-> (context + crashes) % (MaxTrouble + 1)]
Envelope(p) == [payload |-> task[p].payload, context |-> context]

(* Consent is checked before the stored envelope is compared.  What is     *)
(* handed on when they are the same is the stored one.                     *)
Build(p) ==
    /\ task[p].at = "build"
    /\ IF ~granted THEN Refuse(p, "denied")
       ELSE IF task[p].read \notin {None, Envelope(p)} THEN Refuse(p, "conflict")
       ELSE task' = [task EXCEPT ![p].at = "accept", ![p].read = Envelope(p)]
    /\ UNCHANGED <<tables, store, web, setting, overran, bounds>>

Judge(stored, content) ==
    IF stored = None THEN "new"
    ELSE IF stored = content THEN "duplicate" ELSE "conflict"

Stored(p) ==
    LET e == task[p].entry
        isNew == fact[e] = None
    IN  /\ fact' = IF isNew THEN [fact EXCEPT ![e] = task[p].read] ELSE fact
        /\ ever' = IF isNew THEN [ever EXCEPT ![e] = @ \cup {task[p].read}] ELSE ever

(* A collector with a writer does not use the batch acceptance. *)
ToWriter(p) == p \in Request /\ post[p].writer

AcceptBatch(p) ==
    /\ task[p].at = "accept"
    /\ ~ToWriter(p)
    /\ Stored(p)
    /\ Refuse(p, Judge(fact[task[p].entry], task[p].read))
    /\ UNCHANGED <<tables, web, setting, overran, bounds>>

(* A storage error, before the commit or after it. *)
AcceptBatchFails(p) ==
    /\ task[p].at = "accept"
    /\ ~ToWriter(p)
    /\ Trouble < MaxTrouble
    /\ failures' = failures + 1
    /\ Stored(p) \/ UNCHANGED store
    /\ Refuse(p, "storage-error")
    /\ UNCHANGED <<tables, web, setting, overran, revocations, crashes, purges>>

(***************************************************************************)
(* The end of deliverEntry(): what the worker writes to its row, whoever   *)
(* holds it by now.  A quarantined row keeps its lease.                    *)
(***************************************************************************)

Report(w, status, lease) ==
    /\ row' = [row EXCEPT ![task[w].entry].status = status,
                          ![task[w].entry].lease = lease]
    /\ task' = [task EXCEPT ![w] = Idle]
    /\ UNCHANGED <<outbox, store, web, setting, overran, bounds>>

Deliver(w, verdicts) == task[w].at = "settle" /\ task[w].verdict \in verdicts

HastyPublish(w) ==   \* mutant: acknowledged without looking at stored.ok
    /\ Deliver(w, {"new", "duplicate", "storage-error"})
    /\ Report(w, "published", None)
Publish(w) ==
    /\ Deliver(w, {"new", "duplicate"})
    /\ Report(w, "published", None)

FailToRetry(w) ==   \* mutant: a status that claimNext() does not know
    /\ Deliver(w, {"storage-error"})
    /\ Report(w, "retry", None)
Fail(w) ==
    /\ Deliver(w, {"storage-error"})
    /\ Report(w, "failed", None)

Quarantine(w) ==
    /\ Deliver(w, {"conflict", "unregistered", "denied"})
    /\ Report(w, "quarantined", row[task[w].entry].lease)

(* The process ends, or an awaited call throws, at any point: what is      *)
(* stored stays, the row stays in processing.                              *)
Crash(w) ==
    /\ task[w].at # "idle"
    /\ Trouble < MaxTrouble
    /\ crashes' = crashes + 1
    /\ task' = [task EXCEPT ![w] = Idle]
    /\ UNCHANGED <<tables, store, web, setting, overran, revocations, failures,
                   purges>>

(***************************************************************************)
(* createServerCollectHandler()                                            *)
(***************************************************************************)

RefusalCode(fault) ==
    CASE fault = "unauthorized" -> 401
      [] fault = "oversized"    -> 413
      [] fault = "forged"       -> 403
      [] fault \in {"malformed", "foreign"} -> 400

(* statusForServerCollectReject(), and 202. *)
StatusFor(verdict) ==
    CASE verdict \in {"new", "duplicate"} -> 202
      [] verdict = "conflict"      -> 409
      [] verdict = "unregistered"  -> 400
      [] verdict = "denied"        -> 403
      [] verdict = "storage-error" -> 503

Receive(r, q) ==
    /\ post[r] = None
    /\ post' = [post EXCEPT ![r] = q]
    /\ IF q.fault # "none"
       THEN response' = [response EXCEPT ![r] = RefusalCode(q.fault)] /\ UNCHANGED task
       ELSE /\ task' = [task EXCEPT ![r] = [Idle EXCEPT !.at = "look",
                                !.entry = q.entry, !.payload = q.payload]]
            /\ UNCHANGED response
    /\ UNCHANGED <<tables, store, handed, setting, overran, bounds>>

(* outboxWriter.write(), which the host provides: the first one wins. *)
Write(r) ==
    /\ task[r].at = "accept"
    /\ ToWriter(r)
    /\ LET e == task[r].entry IN
        /\ handed' = IF handed[e] = None
                     THEN [handed EXCEPT ![e] = task[r].read] ELSE handed
        /\ Refuse(r, Judge(handed[e], task[r].read))
    /\ UNCHANGED <<tables, store, post, response, setting, overran, bounds>>

WriteFails(r) ==
    /\ task[r].at = "accept"
    /\ ToWriter(r)
    /\ Trouble < MaxTrouble
    /\ failures' = failures + 1
    /\ Refuse(r, "storage-error")
    /\ UNCHANGED <<tables, store, web, setting, overran, revocations, crashes,
                   purges>>

UnreadOutcome(r) ==   \* mutant: outcomes[0] is not looked at
    /\ task[r].at = "settle"
    /\ response' = [response EXCEPT ![r] =
          IF task[r].verdict = "conflict" THEN 202 ELSE StatusFor(task[r].verdict)]
    /\ task' = [task EXCEPT ![r] = Idle]
    /\ UNCHANGED <<tables, store, post, handed, setting, overran, bounds>>
Respond(r) ==
    /\ task[r].at = "settle"
    /\ response' = [response EXCEPT ![r] = StatusFor(task[r].verdict)]
    /\ task' = [task EXCEPT ![r] = Idle]
    /\ UNCHANGED <<tables, store, post, handed, setting, overran, bounds>>

(* An awaited call throws: so does the handler, and its server answers.    *)
Throw(r) ==
    /\ task[r].at # "idle"
    /\ Trouble < MaxTrouble
    /\ crashes' = crashes + 1
    /\ task' = [task EXCEPT ![r] = Idle]
    /\ response' = [response EXCEPT ![r] = 500]
    /\ UNCHANGED <<tables, store, post, handed, setting, overran, revocations,
                   failures, purges>>

(***************************************************************************)
(* Others: recordConsent(), a deployment with other rule or policy         *)
(* versions, and retention, which forgets that an event was stored.        *)
(***************************************************************************)

Revoke ==
    /\ granted
    /\ Trouble < MaxTrouble
    /\ granted' = FALSE
    /\ revocations' = revocations + 1
    /\ UNCHANGED <<tables, store, web, context, task, overran,
                   failures, crashes, purges>>

Grant ==
    /\ ~granted
    /\ granted' = TRUE
    /\ UNCHANGED <<tables, store, web, context, task, overran, bounds>>

Redeploy ==
    /\ Trouble < MaxTrouble
    /\ context' = context + 1
    /\ UNCHANGED <<tables, store, web, granted, task, overran, bounds>>

Purge(e) ==
    /\ Trouble < MaxTrouble
    /\ fact[e] # None
    /\ fact' = [fact EXCEPT ![e] = None]
    /\ purges' = purges + 1
    /\ UNCHANGED <<tables, ever, web, setting, task, overran, revocations,
                   failures, crashes>>

Step(p) == Look(p) \/ Build(p) \/ AcceptBatch(p)
Work(w) == ClaimNext(w) \/ Step(w) \/ Publish(w) \/ Fail(w) \/ Quarantine(w)

Next ==
    \/ \E j \in Jobs : CreateJobWithOutboxEntry(j.entry, j.payload)
    \/ \E w \in Worker : Work(w) \/ AcceptBatchFails(w) \/ Crash(w)
    \/ \E r \in Request :
        \/ \E q \in Posts : Receive(r, q)
        \/ Step(r) \/ AcceptBatchFails(r)
        \/ Write(r) \/ WriteFails(r) \/ Respond(r) \/ Throw(r)
    \/ Revoke \/ Grant \/ Redeploy
    \/ \E e \in Entry : LeaseEnds(e) \/ Purge(e)

Spec == Init /\ [][Next]_vars

(* Workers go on claiming and delivering, every await is answered, and     *)
(* time passes.                                                            *)
FairSpec ==
    /\ Spec
    /\ \A w \in Worker : WF_vars(Work(w))
    /\ \A e \in Entry : WF_vars(LeaseEnds(e))

(***************************************************************************)
(* Properties                                                              *)
(***************************************************************************)

(* As long as no lease ended under its worker, claimNext() never gives two *)
(* workers the same entry, across crashes, failed deliveries and workers   *)
(* that take their own entry again.                                        *)
OneDeliverer ==
    ~overran =>
        \A e \in Entry, v, w \in Worker :
            Delivering(v, e) /\ Delivering(w, e) => v = w

(* A row that is published or quarantined stays so, as long as no lease    *)
(* ended under its worker.                                                 *)
SettledStays ==
    [][\A e \in Entry :
        ~overran' /\ row[e].status \in Settled => row'[e].status = row[e].status]_vars

(* Quarantine is for permanent errors: crashes, storage errors, workers    *)
(* that are late and envelopes that were stored before never put a good    *)
(* entry there.                                                            *)
Contested(e) ==
    \E r \in Request : post[r] # None /\ post[r].fault = "none"
                       /\ post[r].entry = e /\ post[r].payload # row[e].payload
NoFalseQuarantine ==
    \A e \in Entry :
        row[e].status = "quarantined" =>
            \/ row[e].payload \notin Registered
            \/ revocations > 0
            \/ context > 0
            \/ Contested(e)

(* The status code is true: 202 only when this payload is stored or handed *)
(* to the writer, 409 only when another one is, 403 and 400 only for a     *)
(* record that is refused, 503 only after a failure.                       *)
Taken(e) == ever[e] \cup ({handed[e]} \ {None})
AnswersTrue ==
    \A r \in Request :
        LET q == post[r] IN
        /\ response[r] = 202 =>
             q.fault = "none" /\ \E c \in Taken(q.entry) : c.payload = q.payload
        /\ response[r] = 409 =>
             \E c \in Taken(q.entry) : c.payload # q.payload \/ context > 0
        /\ response[r] = 403 => q.fault = "forged" \/ revocations > 0
        /\ response[r] = 400 =>
             q.fault \in {"malformed", "foreign"} \/ q.payload \notin Registered
        /\ response[r] = 503 => failures > 0

(* Every committed job's entry is settled in the end, whatever crashes,    *)
(* failures and overlapping deliveries there were.                         *)
EventuallySettled ==
    <>[](\A e \in Entry : JobExists(e) => row[e].status \in Settled)

Asked(e) ==
    {post[r].payload : r \in {s \in Request : post[s] # None
                                 /\ post[s].fault = "none" /\ post[s].entry = e}}
Promise == INSTANCE TransactionalOutbox
    WITH job <- [e \in Entry |-> row[e].payload],
         wanted <- [e \in Entry |->
                      ({row[e].payload} \ {NoPayload}) \cup Asked(e)],
         seen <- ever,
         told <- {e \in Entry : row[e].status = "published"}

(* Nothing is stored that no committed job and no authorised post asked    *)
(* for, nothing stored is replaced, and "published" is never written       *)
(* before the payload of the entry is stored.                              *)
ImplementsTransactionalOutbox == Promise!Spec
=============================================================================
