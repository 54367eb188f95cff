---------------------------- MODULE BrowserClient ----------------------------
(***************************************************************************)
(* Delivery in the browser client: createBrowserTracker (browser/client.ts)*)
(* with its event queue, its transport and the timers of its host page.    *)
(*                                                                         *)
(* JavaScript runs one callback at a time, so an action is the code        *)
(* between two awaits.  capture() suspends while the envelope is validated,*)
(* legacy track()/pageView() suspend while the local pipeline stores the   *)
(* event, and a flush suspends while the transport sends: anything else -- *)
(* a consent change, destroy(), another capture, a timer -- may run there. *)
(*                                                                         *)
(* This module follows the events.  The session id, the page-impression    *)
(* set and the view lifecycle, which the same handlers reset, are no part  *)
(* of it.                                                                  *)
(***************************************************************************)
EXTENDS EventQueueLoops

CONSTANTS
    Legacy,      \* the events of legacy track()/pageView() (no registry)
    Toggled,     \* the purposes whose consent the host changes
    MaxRetries,  \* options.maxRetries
    Transport,   \* which transport the tracker was created with
    HasBeacon,   \* whether the collector transport has a sendBeacon
    MaxNow,      \* bound on the clock
    MaxChain     \* bound on the flushes the host lets pile up

ASSUME ClientAssumption ==
    /\ Legacy \subseteq Event
    /\ Toggled \subseteq Purpose
    /\ MaxRetries \in Nat \ {0}
    /\ Transport \in {"collector", "legacy", "custom"}
    /\ HasBeacon \in BOOLEAN
    /\ MaxNow \in Nat
    /\ MaxChain \in Nat

VARIABLES
    queue,       \* items of the event queue, oldest first
    consent,     \* the consent store, per purpose
    sending,     \* capturePolicy.networkSendingEnabled
    destroyed,   \* destroyed and sendingStopped: destroy() sets both
    timer,       \* whether retryTimer is armed
    flushChain,  \* flushes waiting on the promise chain: their unload flags
    inFlight,    \* the batch the running flush has handed to the transport
    unloading,   \* the unload flag of the running flush
    response,    \* what sendBatch() has come to, while the flush awaits it
    call,        \* where each event's capture or track call stands
    now,         \* the clock
    sends,       \* history: how often each event was handed to the transport
    fate         \* history: how each event left the client

vars == <<queue, consent, sending, destroyed, timer, flushChain, inFlight,
          unloading, response, call, now, sends, fate>>
(* Groups of variables that most handlers leave alone. *)
policy == <<consent, sending, destroyed>>
flushing == <<inFlight, unloading, response>>

ConsentState == {"unknown", "granted", "denied"}
CallState == {"none", "building", "built", "appending", "returned"}
Fate == {"none", "accepted", "browser-accepted", "server-rejected", "offline",
         "queue-full", "event-expired", "consent-revoked",
         "validation-failed", "consent-denied", "cleared", "lost"}

(* A response: its kind and, when verified, an outcome per covered event. *)
Verdict == {"accepted", "permanent", "transient"}
NoVerdicts == [e \in {} |-> "accepted"]
Answer(kind) == [kind |-> kind, verdicts |-> NoVerdicts]
Verified(verdicts) == [kind |-> "verified", verdicts |-> verdicts]
Idle == Answer("idle")
Waiting == Answer("waiting")

(* What sendBatch() can come to.  The collector transport turns network    *)
(* errors, 429, 5xx and incomplete bodies into "retryable" and other       *)
(* statuses into "fatal"; it reports "verified" only when every event of   *)
(* the batch has an outcome.  The adapter around a legacy Transport        *)
(* reports every event accepted as soon as one is, and lets an exception   *)
(* through.  A custom CollectorTransport may do any of it.                 *)
Answers(batch) ==
    CASE Transport = "collector" ->
            {Answer("retryable"), Answer("fatal")}
              \cup {Verified(v) : v \in [Ids(batch) -> Verdict]}
      [] Transport = "legacy" ->
            {Answer("retryable"), Answer("thrown"),
             Verified([e \in Ids(batch) |-> "accepted"])}
      [] Transport = "custom" ->
            {Answer("retryable"), Answer("fatal"), Answer("thrown"),
             Answer("browser-accepted")}
              \cup {Verified(v) :
                      v \in UNION {[S -> Verdict] : S \in SUBSET Ids(batch)}}
(* sendBeacon() answers at once; a fetch is awaited. *)
FirstAnswers(unload) ==
    IF Transport = "collector" /\ unload /\ HasBeacon
    THEN {Answer("browser-accepted"), Answer("retryable")}
    ELSE {Waiting}

(* isCollectionAllowed() on the current consent state. *)
Allowed(e) ==
    \/ PurposeOf[e] = "necessary"
    \/ consent[PurposeOf[e]] = "granted"

TypeOK ==
    /\ queue \in Seq(Entry)
    /\ consent \in [Purpose -> ConsentState]
    /\ sending \in BOOLEAN
    /\ destroyed \in BOOLEAN
    /\ timer \in BOOLEAN
    /\ flushChain \in Seq(BOOLEAN)
    /\ inFlight \in Seq(Entry)
    /\ unloading \in BOOLEAN
    /\ response.kind \in {"idle", "waiting", "verified", "browser-accepted",
                          "retryable", "fatal", "thrown"}
    /\ \A e \in DOMAIN response.verdicts : response.verdicts[e] \in Verdict
    /\ call \in [Event -> CallState]
    /\ now \in Nat
    /\ sends \in [Event -> Nat]
    /\ fate \in [Event -> Fate]

Init ==
    /\ queue = <<>>
    /\ consent \in {c \in [Purpose -> ConsentState] :
                      \A p \in Purpose \ Toggled : c[p] = "granted"}
    /\ sending \in BOOLEAN
    /\ destroyed = FALSE
    /\ timer = FALSE
    /\ flushChain = <<>>
    /\ inFlight = <<>>
    /\ unloading = FALSE
    /\ response = Idle
    /\ call = [e \in Event |-> "none"]
    /\ now = 0
    /\ sends = [e \in Event |-> 0]
    /\ fate = [e \in Event |-> "none"]

(***************************************************************************)
(* Capturing                                                               *)
(***************************************************************************)

(* Every event of S leaves the client for the reason f. *)
Settled(S, f) == [e \in Event |-> IF e \in S THEN f ELSE fate[e]]

(* queue.enqueue() of a new event, then a flush if one may be sent. *)
EnqueueNew(e, mayFlush) ==
    LET entry == [id |-> e, at |-> now, attempt |-> 0]
    IN  /\ queue' = Enqueue(queue, entry)
        /\ fate' = Settled(Evicted(queue, <<entry>>), "queue-full")
        /\ flushChain' = IF mayFlush THEN Append(flushChain, FALSE)
                         ELSE flushChain

(* capture() up to the await of prepareContractEnvelope(). *)
CaptureBegin(e) ==
    /\ e \notin Legacy
    /\ call[e] = "none"
    /\ ~destroyed
    /\ Allowed(e)
    /\ call' = [call EXCEPT ![e] = "building"]
    /\ UNCHANGED <<queue, policy, timer, flushChain, flushing, now, sends, fate>>

(* prepareContractEnvelope() after its own await: the envelope is built    *)
(* and the consent checked, or the event is reported "validation-failed".  *)
CaptureBuild(e) ==
    /\ call[e] = "building"
    /\ \/ /\ Allowed(e)
          /\ call' = [call EXCEPT ![e] = "built"]
          /\ UNCHANGED fate
       \/ /\ call' = [call EXCEPT ![e] = "returned"]
          /\ fate' = Settled({e}, "validation-failed")
    /\ UNCHANGED <<queue, policy, timer, flushChain, flushing, now, sends>>

(* The rest of capture(): consent is checked once more, then               *)
(* enqueueValidated().  Whether the client was destroyed meanwhile is not. *)
UncheckedFinish(e) ==   \* mutant: does not look at the consent again
    /\ call[e] = "built"
    /\ call' = [call EXCEPT ![e] = "returned"]
    /\ EnqueueNew(e, sending /\ ~destroyed)
    /\ UNCHANGED <<policy, timer, flushing, now, sends>>
CaptureFinish(e) ==
    /\ call[e] = "built"
    /\ call' = [call EXCEPT ![e] = "returned"]
    /\ IF Allowed(e)
       THEN EnqueueNew(e, sending /\ ~destroyed)
       ELSE /\ fate' = Settled({e}, "consent-denied")
            /\ UNCHANGED <<queue, flushChain>>
    /\ UNCHANGED <<policy, timer, flushing, now, sends>>

(* legacyTrack() and legacyPageView(): pipeline.ingest() checks consent    *)
(* and suspends in store.append().                                         *)
LegacyBegin(e) ==
    /\ e \in Legacy
    /\ call[e] = "none"
    /\ Allowed(e)
    /\ call' = [call EXCEPT ![e] = "appending"]
    /\ UNCHANGED <<queue, policy, timer, flushChain, flushing, now, sends, fate>>

(* After the await the event is enqueued without another check. *)
LegacyFinish(e) ==
    /\ call[e] = "appending"
    /\ call' = [call EXCEPT ![e] = "returned"]
    /\ EnqueueNew(e, sending)
    /\ UNCHANGED <<policy, timer, flushing, now, sends>>

(***************************************************************************)
(* The host: consent, configuration, flush, teardown                       *)
(***************************************************************************)

(* abortRegistry.abortAll(): a fetch still waiting ends, retryable unless  *)
(* a 4xx status had already come in.  Other transports take no signal.     *)
AbortAll ==
    IF response = Waiting /\ Transport = "collector"
    THEN response' \in {Answer("retryable"), Answer("fatal")}
    ELSE UNCHANGED response

(* revokeSideEffects() for the purposes P: their queued events are         *)
(* dropped, the one retry timer is cleared and every fetch aborted.        *)
RevokeSideEffects(P) ==
    /\ queue' = RemoveByPurposes(queue, P)
    /\ fate' = Settled(Revoked(queue, P), "consent-revoked")
    /\ timer' = FALSE
    /\ AbortAll

(* setConsent() and revokeCapture(). *)
SetConsent(p, state) ==
    /\ consent' = [consent EXCEPT ![p] = state]
    /\ IF state = "denied" THEN RevokeSideEffects({p})
       ELSE UNCHANGED <<queue, fate, timer, response>>
    /\ UNCHANGED <<sending, destroyed, flushChain, inFlight, unloading, call,
                   now, sends>>

(* adoptExternalConsent(): a snapshot of several purposes at once; only    *)
(* analytics and measurement have side effects when denied.                *)
AdoptExternalConsent(snapshot) ==
    LET denied == {p \in DOMAIN snapshot \cap {"analytics", "measurement"} :
                     snapshot[p] = "denied"}
    IN  /\ consent' = [p \in Purpose |-> IF p \in DOMAIN snapshot
                                         THEN snapshot[p] ELSE consent[p]]
        /\ IF denied # {} THEN RevokeSideEffects(denied)
           ELSE UNCHANGED <<queue, fate, timer, response>>
        /\ UNCHANGED <<sending, destroyed, flushChain, inFlight, unloading,
                       call, now, sends>>

(* configureCapture({ enableNetworkSending }) *)
ConfigureCapture(enable) ==
    /\ Len(flushChain) < MaxChain
    /\ sending' = enable
    /\ flushChain' = IF enable /\ ~destroyed THEN Append(flushChain, FALSE)
                     ELSE flushChain
    /\ UNCHANGED <<queue, consent, destroyed, timer, flushing, call, now, sends,
                   fate>>

(* flush() and the pagehide / visibilitychange hook *)
Flush(unload) ==
    /\ Len(flushChain) < MaxChain
    /\ flushChain' = Append(flushChain, unload)
    /\ UNCHANGED <<queue, policy, timer, flushing, call, now, sends, fate>>

Destroy ==
    /\ ~destroyed
    /\ destroyed' = TRUE
    /\ queue' = <<>>
    /\ fate' = Settled(Ids(queue), "cleared")
    /\ timer' = FALSE
    /\ AbortAll
    /\ UNCHANGED <<consent, sending, flushChain, inFlight, unloading, call, now,
                   sends>>

(***************************************************************************)
(* Flushing                                                                *)
(***************************************************************************)

(* runOneFlush() up to the await of transport.sendBatch(): the next flush  *)
(* of the chain starts when the one before it has finished.                *)
RunFlush ==
    /\ flushChain # <<>>
    /\ inFlight = <<>>
    /\ flushChain' = Tail(flushChain)
    /\ IF destroyed \/ ~sending
       THEN UNCHANGED <<queue, fate, flushing, sends>>
       ELSE LET batch == Batch(queue, now)
            IN  /\ queue' = Remaining(queue, now)
                /\ fate' = Settled(Expired(queue, now), "event-expired")
                /\ IF batch = <<>> THEN UNCHANGED <<flushing, sends>>
                   ELSE /\ inFlight' = batch
                        /\ unloading' = Head(flushChain)
                        /\ response' \in FirstAnswers(Head(flushChain))
                        /\ sends' = [e \in Event |->
                             IF e \in Ids(batch) THEN sends[e] + 1 ELSE sends[e]]
    /\ UNCHANGED <<policy, timer, call, now>>

(* The network answers. *)
Respond ==
    /\ response = Waiting
    /\ response' \in Answers(inFlight)
    /\ UNCHANGED <<queue, policy, timer, flushChain, inFlight, unloading, call,
                   now, sends, fate>>

(* The entries of the batch at positions I, on their next attempt. *)
Retried(I) ==
    LET es == At(inFlight, I)
    IN  [k \in DOMAIN es |-> [es[k] EXCEPT !.attempt = @ + 1]]

(* queue.requeue() and scheduleRetry(), which does nothing once destroyed. *)
ScheduleAlways(q, retries) ==   \* mutant: arms the timer once destroyed, too
    /\ queue' = Requeue(q, retries)
    /\ timer' = IF retries # <<>> THEN TRUE ELSE timer
Unscheduled(q, retries) ==   \* mutant: leaves the retry to the next capture
    /\ queue' = Requeue(q, retries)
    /\ UNCHANGED timer
RequeueAndSchedule(q, retries) ==
    /\ queue' = Requeue(q, retries)
    /\ timer' = IF retries # <<>> /\ ~destroyed THEN TRUE ELSE timer

(* The running flush is over. *)
FinishFlush ==
    /\ inFlight' = <<>>
    /\ unloading' = FALSE
    /\ response' = Idle
    /\ UNCHANGED <<policy, call, now, sends>>

(* The events of a verified answer with verdict v, and those of the batch  *)
(* that it does not mention.                                               *)
With(v) == {e \in DOMAIN response.verdicts : response.verdicts[e] = v}
Uncovered == Ids(inFlight) \ DOMAIN response.verdicts
(* Which entries of the batch have a retry left; for the events S, those   *)
(* that come back and those that are given up.                             *)
OneMoreRetry == {i \in DOMAIN inFlight : inFlight[i].attempt <= MaxRetries} \* mutant
MayRetry == {i \in DOMAIN inFlight : inFlight[i].attempt < MaxRetries}
Again(S) == Retried({i \in MayRetry : inFlight[i].id \in S})
Forgotten(S) == {}   \* mutant: an exhausted event is dropped without a report
GivenUp(S) ==
    {e \in S : \E i \in DOMAIN inFlight \ MayRetry : inFlight[i].id = e}

(* A verified answer.  Transient rejects come back first, then the events  *)
(* that have no outcome; when nothing comes back and the queue holds more, *)
(* another flush follows.                                                  *)
SettleVerified ==
    /\ response.kind = "verified"
    /\ LET retries == Again(With("transient")) \o Again(Uncovered)
           rest == RemoveByIds(queue, With("accepted"))
       IN  /\ RequeueAndSchedule(rest, retries)
           /\ fate' = [e \in Event |->
                CASE e \in With("accepted") -> "accepted"
                  [] e \in With("permanent") \cup GivenUp(With("transient"))
                       -> "server-rejected"
                  [] e \in GivenUp(Uncovered) -> "offline"
                  [] e \in Evicted(rest, retries) -> "queue-full"
                  [] OTHER -> fate[e]]
           /\ flushChain' = IF retries = <<>> /\ rest # <<>>
                            THEN Append(flushChain, unloading)
                            ELSE flushChain
    /\ FinishFlush

(* The beacon was queued by the browser: the batch is dropped unverified. *)
SettleBeacon ==
    /\ response.kind = "browser-accepted"
    /\ queue' = RemoveByIds(queue, Ids(inFlight))
    /\ fate' = Settled(Ids(inFlight), "browser-accepted")
    /\ UNCHANGED <<timer, flushChain>>
    /\ FinishFlush

(* requeueBatchForRetry(): every entry is counted up first, and given up   *)
(* when that exceeds the limit.                                            *)
Exhausted == {i \in DOMAIN inFlight : inFlight[i].attempt + 1 > MaxRetries}

SettleRetryable ==
    /\ response.kind = "retryable"
    /\ LET retries == Retried(DOMAIN inFlight \ Exhausted)
       IN  /\ RequeueAndSchedule(queue, retries)
           /\ fate' = [e \in Event |->
                CASE e \in {inFlight[i].id : i \in Exhausted} -> "offline"
                  [] e \in Evicted(queue, retries) -> "queue-full"
                  [] OTHER -> fate[e]]
    /\ UNCHANGED flushChain
    /\ FinishFlush

SettleFatal ==
    /\ response.kind = "fatal"
    /\ fate' = Settled(Ids(inFlight), "server-rejected")
    /\ UNCHANGED <<queue, timer, flushChain>>
    /\ FinishFlush

(* sendBatch() threw: the chain swallows the error and the batch is gone. *)
SettleThrown ==
    /\ response.kind = "thrown"
    /\ fate' = Settled(Ids(inFlight), "lost")
    /\ UNCHANGED <<queue, timer, flushChain>>
    /\ FinishFlush

(* The retry timer calls flushInternal(). *)
TimerForgets ==   \* mutant: the timer fires and no flush follows
    /\ timer
    /\ timer' = FALSE
    /\ UNCHANGED <<queue, policy, flushChain, flushing, call, now, sends, fate>>
TimerFires ==
    /\ timer
    /\ timer' = FALSE
    /\ flushChain' = Append(flushChain, FALSE)
    /\ UNCHANGED <<queue, policy, flushing, call, now, sends, fate>>

Tick ==
    /\ now < MaxNow
    /\ now' = now + 1
    /\ UNCHANGED <<queue, policy, timer, flushChain, flushing, call, sends, fate>>

Snapshots == UNION {[P -> {"granted", "denied"}] : P \in SUBSET Toggled}

Host ==
    \/ \E e \in Event : CaptureBegin(e) \/ LegacyBegin(e)
    \/ \E p \in Toggled, s \in {"granted", "denied"} : SetConsent(p, s)
    \/ \E snapshot \in Snapshots : AdoptExternalConsent(snapshot)
    \/ \E b \in BOOLEAN : ConfigureCapture(b)
    \/ \E b \in BOOLEAN : Flush(b)
    \/ Destroy

Validation ==
    \E e \in Event : CaptureBuild(e) \/ CaptureFinish(e) \/ LegacyFinish(e)

Settle ==
    \/ SettleVerified
    \/ SettleBeacon
    \/ SettleRetryable
    \/ SettleFatal
    \/ SettleThrown

Next == Host \/ Validation \/ RunFlush \/ Respond \/ Settle \/ TimerFires \/ Tick

Spec == Init /\ [][Next]_vars

(* Promise continuations and due timers are run by the event loop, and the *)
(* network is taken to answer (there is no request timeout in the code).   *)
(* Nothing is assumed of the host.                                         *)
FairSpec ==
    /\ Spec
    /\ \A e \in Event : WF_vars(CaptureBuild(e) \/ CaptureFinish(e)
                                \/ LegacyFinish(e))
    /\ WF_vars(RunFlush)
    /\ WF_vars(Respond)
    /\ WF_vars(Settle)
    /\ WF_vars(TimerFires)

(***************************************************************************)
(* Properties                                                              *)
(***************************************************************************)

Gone == {e \in Event : fate[e] # "none"}
Returned == {e \in Event : call[e] = "returned"}

(* No event is lost or doubled: once its call has returned, an event is in *)
(* the queue, or in the batch in flight, or it has left the client for a   *)
(* reason the code knows -- in exactly one of these, and once.             *)
Accounted ==
    /\ NoDuplicates(queue)
    /\ NoDuplicates(inFlight)
    /\ Ids(queue) \cap Ids(inFlight) = {}
    /\ Ids(queue) \cap Gone = {}
    /\ Ids(inFlight) \cap Gone = {}
    /\ Returned = Ids(queue) \cup Ids(inFlight) \cup Gone

(* The queue never outgrows its limit, although batches come back into it. *)
QueueBounded == Len(queue) <= Capacity

(* The closed forms that the handlers use make of the queue what the loops *)
(* of event-queue.ts make of it, whatever it holds, whatever batch may     *)
(* come back into it, and at any time until its entries have expired.      *)
QueueIsItsLoops ==
    /\ RequeueIsItsLoop(queue, inFlight)
    /\ \A nowMs \in now .. now + MaxEventAge + 1 : TakeBatchIsItsLoop(queue, nowMs)
    /\ RemovalsAreTheirLoops(queue)

(* The retry count of an entry is the number of times it was really sent,  *)
(* and no event is sent more than MaxRetries + 1 times, whatever mixture   *)
(* of aborts, beacons and partial answers it meets.                        *)
AttemptsCounted ==
    /\ \A i \in DOMAIN queue :
         sends[queue[i].id] = queue[i].attempt /\ queue[i].attempt <= MaxRetries
    /\ \A i \in DOMAIN inFlight :
         /\ sends[inFlight[i].id] = inFlight[i].attempt + 1
         /\ inFlight[i].attempt <= MaxRetries
    /\ \A e \in Event : sends[e] <= MaxRetries + 1
    /\ \A e \in Event \ Returned : sends[e] = 0

(* A flush awaits an answer exactly while it has a batch, and an answer    *)
(* speaks only of events of that batch.                                    *)
FlightTracked ==
    /\ response.kind = "idle" <=> inFlight = <<>>
    /\ DOMAIN response.verdicts \subseteq Ids(inFlight)

(* A captured event that was never sent is in the queue only while its     *)
(* purpose may be collected, wherever in capture() a revocation fell.      *)
UnsentHaveConsent ==
    \A i \in DOMAIN queue :
        queue[i].attempt = 0 /\ queue[i].id \notin Legacy => Allowed(queue[i].id)

(* No queued event is left without a flush or a timer that will come for   *)
(* it.  This needs batches as large as the queue, and that no purpose is   *)
(* revoked but the one all events have: a revocation clears the one timer. *)
NotStranded ==
    queue # <<>> /\ sending /\ ~destroyed
        => timer \/ flushChain # <<>> \/ inFlight # <<>>

(* destroy() is final: nothing is sent and no timer armed after it, even   *)
(* by a flush or a capture that was suspended when it was called.          *)
QuietOnceDestroyed ==
    [][destroyed => sends' = sends /\ timer' = FALSE]_vars

(* When sending stays enabled and the client alive, every returned capture *)
(* is eventually settled: retries end and the queue drains (under the      *)
(* conditions of NotStranded).                                             *)
Drains ==
    <>[](sending /\ ~destroyed)
        => \A e \in Event : call[e] = "returned" ~> fate[e] # "none"

(* The client implements the per-event promise of BestEffortDelivery. *)
Stage(e) ==
    IF fate[e] # "none" THEN "gone"
    ELSE IF e \in Ids(inFlight) THEN "sending"
    ELSE IF e \in Ids(queue) THEN "held"
    ELSE IF call[e] # "none" THEN "validating"
    ELSE "new"

Delivery == INSTANCE BestEffortDelivery
    WITH MaxSends <- MaxRetries + 1,
         stage <- [e \in Event |-> Stage(e)],
         tries <- sends

ImplementsDelivery == Delivery!Spec

(* docs/operational-guarantees.md "Revocation": in-flight retry state of a *)
(* denied purpose is dropped, so none of its events waits for a retry.     *)
RevocationDropsRetries ==
    \A i \in DOMAIN queue :
        queue[i].attempt > 0 => consent[PurposeOf[queue[i].id]] # "denied"
=============================================================================
