------------------------- MODULE BrowserClientProofs -------------------------
(***************************************************************************)
(* Theorems about BrowserClient, for any set of events, any limits of the  *)
(* queue, any number of retries and each kind of transport: its invariants *)
(* and that it implements BestEffortDelivery.                              *)
(***************************************************************************)
EXTENDS BrowserClient, EventQueueProofs

(* Retried(I) carries the entries of the batch at the positions I, each on *)
(* its next attempt.                                                       *)
LEMMA RetriedProperties ==
    ASSUME inFlight \in Seq(Entry), NEW I \in SUBSET DOMAIN inFlight
    PROVE  /\ Retried(I) \in Seq(Entry)
           /\ Ids(Retried(I)) = {inFlight[i].id : i \in I}
           /\ NoDuplicates(inFlight) => NoDuplicates(Retried(I))
           /\ Retried(I) = <<>> <=> I = {}
           /\ \A k \in DOMAIN Retried(I) : \E i \in I :
                /\ Retried(I)[k].id = inFlight[i].id
                /\ Retried(I)[k].attempt = inFlight[i].attempt + 1
<1> DEFINE es == At(inFlight, I)
           r == Retried(I)
<1>1. /\ es \in Seq(Entry)
      /\ Ids(es) = {inFlight[i].id : i \in I}
      /\ NoDuplicates(inFlight) => NoDuplicates(es)
      /\ es = <<>> <=> I = {}
      /\ \A k \in DOMAIN es : \E i \in I : es[k] = inFlight[i]
  BY AtIds
<1>2. r = [k \in DOMAIN es |-> [es[k] EXCEPT !.attempt = @ + 1]]
  BY DEF Retried
<1> HIDE DEF es, r
<1>3. Len(es) \in Nat /\ DOMAIN es = 1 .. Len(es)
  BY <1>1
<1>4. \A k \in DOMAIN es : es[k] \in Entry
  BY <1>1, ElementOfSeq, <1>3
<1>5. \A k \in DOMAIN es : /\ r[k] \in Entry
                           /\ r[k].id = es[k].id
                           /\ r[k].attempt = es[k].attempt + 1
  <2> SUFFICES ASSUME NEW k \in DOMAIN es
               PROVE  /\ r[k] \in Entry
                      /\ r[k].id = es[k].id
                      /\ r[k].attempt = es[k].attempt + 1
    OBVIOUS
  <2> DEFINE x == es[k]
  <2>1. x \in Entry
    BY <1>4
  <2>2. r[k] = [x EXCEPT !.attempt = @ + 1]
    BY <1>2
  <2> HIDE DEF x
  <2>3. /\ r[k] = [id |-> x.id, at |-> x.at, attempt |-> x.attempt + 1]
        /\ x.attempt \in Nat
    BY <2>1, <2>2 DEF Entry
  <2>4. r[k] \in Entry /\ r[k].id = x.id /\ r[k].attempt = x.attempt + 1
    BY <2>1, <2>3 DEF Entry
  <2> QED
    BY <2>4 DEF x
<1>6. r \in Seq(Entry) /\ Len(r) = Len(es) /\ DOMAIN r = DOMAIN es
  <2>1. r = [k \in 1 .. Len(es) |-> [es[k] EXCEPT !.attempt = @ + 1]]
    BY <1>2, <1>3
  <2>2. \A k \in 1 .. Len(es) : [es[k] EXCEPT !.attempt = @ + 1] \in Entry
    BY <1>3, <1>5, <2>1
  <2> QED
    BY <1>3, <2>1, <2>2, IsASeq
<1>7. Ids(r) = Ids(es)
  BY <1>5, <1>6 DEF Ids
<1>8. NoDuplicates(es) => NoDuplicates(r)
  BY <1>5, <1>6 DEF NoDuplicates
<1>9. r = <<>> <=> es = <<>>
  BY <1>1, <1>6, EmptySeq
<1> QED
  BY <1>1, <1>5, <1>6, <1>7, <1>8, <1>9 DEF r

(* A new event enters the queue as one fresh entry. *)
LEMMA FreshEntry ==
    ASSUME NEW e \in Event, TypeOK
    PROVE  LET entry == [id |-> e, at |-> now, attempt |-> 0]
           IN  /\ <<entry>> \in Seq(Entry)
               /\ Ids(<<entry>>) = {e}
               /\ NoDuplicates(<<entry>>)
               /\ \A i \in DOMAIN <<entry>> : <<entry>>[i] = entry
<1> DEFINE entry == [id |-> e, at |-> now, attempt |-> 0]
<1>1. entry \in Entry /\ entry.id = e
  BY DEF Entry, TypeOK
<1> HIDE DEF entry
<1>2. <<entry>> \in Seq(Entry) /\ DOMAIN <<entry>> = {1} /\ <<entry>>[1] = entry
  BY <1>1
<1> QED
  BY <1>1, <1>2 DEF Ids, NoDuplicates, entry

(***************************************************************************)
(* Type correctness                                                        *)
(***************************************************************************)

LEMMA AnswersType ==
    ASSUME NEW batch, NEW r \in Answers(batch)
    PROVE  /\ r.kind \in {"verified", "browser-accepted", "retryable", "fatal",
                          "thrown"}
           /\ DOMAIN r.verdicts \subseteq Ids(batch)
           /\ \A e \in DOMAIN r.verdicts : r.verdicts[e] \in Verdict
<1>1. \A k : Answer(k).kind = k /\ DOMAIN Answer(k).verdicts = {}
  BY DEF Answer, NoVerdicts
<1>2. ASSUME NEW S \in SUBSET Ids(batch), NEW v \in [S -> Verdict]
      PROVE  /\ Verified(v).kind = "verified"
             /\ DOMAIN Verified(v).verdicts \subseteq Ids(batch)
             /\ \A e \in DOMAIN Verified(v).verdicts :
                  Verified(v).verdicts[e] \in Verdict
  BY DEF Verified
<1>3. CASE Transport = "collector"
  <2>1. \/ r \in {Answer("retryable"), Answer("fatal")}
        \/ \E v \in [Ids(batch) -> Verdict] : r = Verified(v)
    BY <1>3 DEF Answers
  <2> QED
    BY <1>1, <1>2, <2>1
<1>4. CASE Transport = "legacy"
  <2>1. \/ r \in {Answer("retryable"), Answer("thrown")}
        \/ r = Verified([e \in Ids(batch) |-> "accepted"])
    BY <1>4 DEF Answers
  <2>2. [e \in Ids(batch) |-> "accepted"] \in [Ids(batch) -> Verdict]
    BY DEF Verdict
  <2> QED
    BY <1>1, <1>2, <2>1, <2>2
<1>5. CASE Transport = "custom"
  <2>1. \/ r \in {Answer("retryable"), Answer("fatal"), Answer("thrown"),
                  Answer("browser-accepted")}
        \/ \E S \in SUBSET Ids(batch) : \E v \in [S -> Verdict] : r = Verified(v)
    BY <1>5 DEF Answers
  <2> QED
    BY <1>1, <1>2, <2>1
<1> QED
  BY <1>3, <1>4, <1>5, ClientAssumption

LEMMA FirstAnswersType ==
    ASSUME NEW b \in BOOLEAN, NEW r \in FirstAnswers(b)
    PROVE  /\ r.kind \in {"waiting", "browser-accepted", "retryable"}
           /\ DOMAIN r.verdicts = {}
  BY DEF FirstAnswers, Waiting, Answer, NoVerdicts

LEMMA AbortType ==
    ASSUME AbortAll
    PROVE  /\ \/ UNCHANGED response
              \/ response.kind = "waiting" /\ response'.kind \in {"retryable", "fatal"}
           /\ DOMAIN response'.verdicts \subseteq DOMAIN response.verdicts
           /\ \A e \in DOMAIN response'.verdicts :
                response'.verdicts[e] = response.verdicts[e]
  BY DEF AbortAll, Waiting, Answer, NoVerdicts

(* What a revocation, of whichever purposes, does to the queue. *)
LEMMA RevokeType ==
    ASSUME TypeOK, NEW P, RevokeSideEffects(P)
    PROVE  /\ queue' \in Seq(Entry)
           /\ timer' \in BOOLEAN
           /\ fate' \in [Event -> Fate]
           /\ response'.kind \in {"idle", "waiting", "verified", "browser-accepted",
                                  "retryable", "fatal", "thrown"}
           /\ \A e \in DOMAIN response'.verdicts : response'.verdicts[e] \in Verdict
<1>1. queue' \in Seq(Entry)
  BY RemoveByPurposesProperties DEF RevokeSideEffects, TypeOK
<1>2. fate' \in [Event -> Fate]
  BY DEF RevokeSideEffects, Settled, Fate, TypeOK
<1>3. timer' \in BOOLEAN
  BY DEF RevokeSideEffects
<1>4. AbortAll
  BY DEF RevokeSideEffects
<1> QED
  BY <1>1, <1>2, <1>3, <1>4, AbortType DEF TypeOK

(* Any number of flushes may be added to the chain. *)
LEMMA ChainType ==
    ASSUME NEW c \in Seq(BOOLEAN), NEW b \in BOOLEAN
    PROVE  Append(c, b) \in Seq(BOOLEAN)
  BY AppendProperties, Zenon

LEMMA EnqueueType ==
    ASSUME TypeOK, NEW e \in Event, NEW b \in BOOLEAN, EnqueueNew(e, b)
    PROVE  /\ queue' \in Seq(Entry)
           /\ fate' \in [Event -> Fate]
           /\ flushChain' \in Seq(BOOLEAN)
<1> DEFINE entry == [id |-> e, at |-> now, attempt |-> 0]
<1>1. <<entry>> \in Seq(Entry)
  BY FreshEntry
<1> HIDE DEF entry
<1>2. /\ queue' = Requeue(queue, <<entry>>)
      /\ fate' = Settled(Evicted(queue, <<entry>>), "queue-full")
      /\ flushChain' = IF b THEN Append(flushChain, FALSE) ELSE flushChain
  BY DEF EnqueueNew, Enqueue, entry
<1>3. queue' \in Seq(Entry)
  BY <1>1, <1>2, RequeueProperties DEF TypeOK
<1>4. fate' \in [Event -> Fate]
  BY <1>2 DEF Settled, Fate, TypeOK
<1>5. flushChain' \in Seq(BOOLEAN)
  <2>1. flushChain \in Seq(BOOLEAN) /\ FALSE \in BOOLEAN
    BY DEF TypeOK
  <2>2. Append(flushChain, FALSE) \in Seq(BOOLEAN)
    BY <2>1, ChainType
  <2> QED
    BY <1>2, <2>1, <2>2, Zenon
<1> QED
  BY <1>3, <1>4, <1>5

(* The retries of a settled batch, for each way it comes back. *)
LEMMA AgainProperties ==
    ASSUME TypeOK, NEW S
    PROVE  /\ Again(S) \in Seq(Entry)
           /\ Ids(Again(S)) \subseteq S \cap Ids(inFlight)
           /\ NoDuplicates(inFlight) => NoDuplicates(Again(S))
           /\ S \cap Ids(inFlight) \subseteq Ids(Again(S)) \cup GivenUp(S)
           /\ NoDuplicates(inFlight) => Ids(Again(S)) \cap GivenUp(S) = {}
           /\ \A k \in DOMAIN Again(S) : \E i \in DOMAIN inFlight :
                /\ inFlight[i].attempt < MaxRetries
                /\ Again(S)[k].id = inFlight[i].id
                /\ Again(S)[k].attempt = inFlight[i].attempt + 1
<1> DEFINE I == {i \in MayRetry : inFlight[i].id \in S}
<1>1. I \in SUBSET DOMAIN inFlight /\ Again(S) = Retried(I)
  BY DEF MayRetry, Again
<1>2. \A i \in I : inFlight[i].attempt < MaxRetries /\ inFlight[i].id \in S
  BY DEF MayRetry
<1>3. ASSUME NEW e \in S \cap Ids(inFlight)
      PROVE  e \in {inFlight[i].id : i \in I} \cup GivenUp(S)
  BY DEF GivenUp, Ids
<1>4. ASSUME NoDuplicates(inFlight)
      PROVE  {inFlight[i].id : i \in I} \cap GivenUp(S) = {}
  BY <1>4 DEF NoDuplicates, GivenUp, MayRetry
<1> HIDE DEF I
<1>5. /\ Retried(I) \in Seq(Entry)
      /\ Ids(Retried(I)) = {inFlight[i].id : i \in I}
      /\ NoDuplicates(inFlight) => NoDuplicates(Retried(I))
      /\ \A k \in DOMAIN Retried(I) : \E i \in I :
           /\ Retried(I)[k].id = inFlight[i].id
           /\ Retried(I)[k].attempt = inFlight[i].attempt + 1
  BY <1>1, RetriedProperties DEF TypeOK
<1>6. {inFlight[i].id : i \in I} \subseteq S \cap Ids(inFlight)
  BY <1>1, <1>2 DEF Ids
<1> QED
  BY <1>1, <1>2, <1>3, <1>4, <1>5, <1>6
LEMMA InitType == Init => TypeOK
<1> SUFFICES ASSUME Init PROVE TypeOK
  OBVIOUS
<1>1. consent \in [Purpose -> ConsentState]
  BY DEF Init
<1>2. <<>> \in Seq(Entry) /\ <<>> \in Seq(BOOLEAN)
  BY EmptySeq
<1>3. response.kind = "idle" /\ DOMAIN response.verdicts = {}
  BY DEF Init, Idle, Answer, NoVerdicts
<1> QED
  BY <1>1, <1>2, <1>3 DEF Init, TypeOK, CallState, Fate

LEMMA StepType == TypeOK /\ [Next]_vars => TypeOK'
<1> SUFFICES ASSUME TypeOK, [Next]_vars PROVE TypeOK'
  OBVIOUS
<1> DEFINE ResponseOK ==
             /\ response.kind \in {"idle", "waiting", "verified", "browser-accepted",
                                   "retryable", "fatal", "thrown"}
             /\ \A e \in DOMAIN response.verdicts : response.verdicts[e] \in Verdict
<1>1. ASSUME NEW e \in Event, CaptureBegin(e) PROVE TypeOK'
  BY <1>1 DEF CaptureBegin, TypeOK, CallState, policy, flushing
<1>2. ASSUME NEW e \in Event, LegacyBegin(e) PROVE TypeOK'
  BY <1>2 DEF LegacyBegin, TypeOK, CallState, policy, flushing
<1>3. ASSUME NEW e \in Event, CaptureBuild(e) PROVE TypeOK'
  <2>1. call' \in [Event -> CallState]
    BY <1>3 DEF CaptureBuild, TypeOK, CallState
  <2>2. fate' \in [Event -> Fate]
    BY <1>3 DEF CaptureBuild, Settled, TypeOK, Fate
  <2> QED
    BY <1>3, <2>1, <2>2 DEF CaptureBuild, TypeOK, policy, flushing
<1>4. ASSUME NEW e \in Event, CaptureFinish(e) PROVE TypeOK'
  <2>1. call' \in [Event -> CallState]
    BY <1>4 DEF CaptureFinish, TypeOK, CallState
  <2>2. /\ queue' \in Seq(Entry)
        /\ fate' \in [Event -> Fate]
        /\ flushChain' \in Seq(BOOLEAN)
    <3>1. CASE Allowed(e)
      <4>1. EnqueueNew(e, sending /\ ~destroyed)
        BY <1>4, <3>1 DEF CaptureFinish
      <4>2. (sending /\ ~destroyed) \in BOOLEAN
        BY Zenon
      <4> QED
        BY <4>1, <4>2, EnqueueType
    <3>2. CASE ~Allowed(e)
      BY <1>4, <3>2 DEF CaptureFinish, Settled, TypeOK, Fate
    <3> QED
      BY <3>1, <3>2
  <2> QED
    BY <1>4, <2>1, <2>2 DEF CaptureFinish, TypeOK, policy, flushing
<1>5. ASSUME NEW e \in Event, LegacyFinish(e) PROVE TypeOK'
  <2>1. call' \in [Event -> CallState]
    BY <1>5 DEF LegacyFinish, TypeOK, CallState
  <2>2. /\ queue' \in Seq(Entry)
        /\ fate' \in [Event -> Fate]
        /\ flushChain' \in Seq(BOOLEAN)
    <3>1. EnqueueNew(e, sending) /\ sending \in BOOLEAN
      BY <1>5 DEF LegacyFinish, TypeOK
    <3> QED
      BY <3>1, EnqueueType
  <2> QED
    BY <1>5, <2>1, <2>2 DEF LegacyFinish, TypeOK, policy, flushing
<1>6. ASSUME NEW p \in Toggled, NEW s \in {"granted", "denied"}, SetConsent(p, s)
      PROVE  TypeOK'
  <2>1. consent' \in [Purpose -> ConsentState]
    BY <1>6, ClientAssumption DEF SetConsent, TypeOK, ConsentState
  <2>2. CASE s = "denied"
    <3>1. RevokeSideEffects({p})
      BY <1>6, <2>2 DEF SetConsent
    <3> QED
      BY <1>6, <2>1, <3>1, RevokeType DEF SetConsent, TypeOK
  <2>3. CASE s # "denied"
    BY <1>6, <2>1, <2>3 DEF SetConsent, TypeOK
  <2> QED
    BY <2>2, <2>3
<1>7. ASSUME NEW snapshot \in Snapshots, AdoptExternalConsent(snapshot)
      PROVE  TypeOK'
  <2> DEFINE denied == {p \in DOMAIN snapshot \cap {"analytics", "measurement"} :
                          snapshot[p] = "denied"}
  <2>1. consent' \in [Purpose -> ConsentState]
    BY <1>7 DEF AdoptExternalConsent, Snapshots, TypeOK, ConsentState
  <2>2. CASE denied # {}
    <3>1. RevokeSideEffects(denied)
      BY <1>7, <2>2 DEF AdoptExternalConsent
    <3> HIDE DEF denied
    <3> QED
      BY <1>7, <2>1, <3>1, RevokeType DEF AdoptExternalConsent, TypeOK
  <2>3. CASE denied = {}
    BY <1>7, <2>1, <2>3 DEF AdoptExternalConsent, TypeOK
  <2> QED
    BY <2>2, <2>3
<1>8. ASSUME NEW b \in BOOLEAN, ConfigureCapture(b) PROVE TypeOK'
  <2>1. flushChain' \in Seq(BOOLEAN)
    <3>1. flushChain \in Seq(BOOLEAN) /\ FALSE \in BOOLEAN
      BY DEF TypeOK
    <3>2. Append(flushChain, FALSE) \in Seq(BOOLEAN)
      BY <3>1, ChainType
    <3>3. flushChain' \in {flushChain, Append(flushChain, FALSE)}
      BY <1>8 DEF ConfigureCapture
    <3> QED
      BY <3>1, <3>2, <3>3, Zenon
  <2> QED
    BY <1>8, <2>1 DEF ConfigureCapture, TypeOK, flushing
<1>9. ASSUME NEW b \in BOOLEAN, Flush(b) PROVE TypeOK'
  <2>1. flushChain' \in Seq(BOOLEAN)
    BY <1>9, ChainType DEF Flush, TypeOK
  <2> QED
    BY <1>9, <2>1 DEF Flush, TypeOK, policy, flushing
<1>10. CASE Destroy
  <2>1. queue' \in Seq(Entry) /\ fate' \in [Event -> Fate]
    BY <1>10 DEF Destroy, Settled, TypeOK, Fate
  <2>2. ResponseOK'
    BY <1>10, AbortType DEF Destroy, TypeOK
  <2> QED
    BY <1>10, <2>1, <2>2 DEF Destroy, TypeOK
<1>11. CASE RunFlush
  <2>1. flushChain' \in Seq(BOOLEAN) /\ Head(flushChain) \in BOOLEAN
    BY <1>11, HeadTailProperties, Zenon DEF RunFlush, TypeOK
  <2>2. CASE destroyed \/ ~sending
    BY <1>11, <2>1, <2>2 DEF RunFlush, TypeOK, policy, flushing
  <2>3. CASE ~(destroyed \/ ~sending)
    <3>1. Batch(queue, now) \in Seq(Entry) /\ Remaining(queue, now) \in Seq(Entry)
      BY TakeBatchProperties DEF TypeOK
    <3>2. fate' \in [Event -> Fate]
      BY <1>11, <2>3 DEF RunFlush, Settled, TypeOK, Fate
    <3>3. /\ inFlight' \in Seq(Entry) /\ unloading' \in BOOLEAN
          /\ ResponseOK' /\ sends' \in [Event -> Nat]
      <4>1. CASE Batch(queue, now) = <<>>
        BY <1>11, <2>3, <4>1 DEF RunFlush, TypeOK, flushing
      <4>2. CASE Batch(queue, now) # <<>>
        <5>1. ResponseOK'
          BY <1>11, <2>1, <2>3, <4>2, FirstAnswersType DEF RunFlush
        <5>2. sends' \in [Event -> Nat]
          BY <1>11, <2>3, <4>2 DEF RunFlush, TypeOK
        <5> QED
          BY <1>11, <2>1, <2>3, <3>1, <4>2, <5>1, <5>2 DEF RunFlush
      <4> QED
        BY <4>1, <4>2
    <3> QED
      BY <1>11, <2>1, <2>3, <3>1, <3>2, <3>3 DEF RunFlush, TypeOK, policy
  <2> QED
    BY <2>2, <2>3
<1>12. CASE Respond
  <2>1. ResponseOK'
    BY <1>12, AnswersType DEF Respond
  <2> QED
    BY <1>12, <2>1 DEF Respond, TypeOK, policy
<1>13. ASSUME FinishFlush
       PROVE  inFlight' \in Seq(Entry) /\ ResponseOK' /\ unloading' \in BOOLEAN
  BY <1>13, EmptySeq DEF FinishFlush, Idle, Answer, NoVerdicts
<1>14. CASE SettleVerified
  <2> DEFINE retries == Again(With("transient")) \o Again(Uncovered)
             rest == RemoveByIds(queue, With("accepted"))
  <2>1. retries \in Seq(Entry) /\ rest \in Seq(Entry)
    BY AgainProperties, ConcatIds, RemoveByIdsProperties DEF TypeOK
  <2>2. RequeueAndSchedule(rest, retries)
    BY <1>14 DEF SettleVerified
  <2>3. fate' \in [Event -> Fate]
    BY <1>14 DEF SettleVerified, TypeOK, Fate
  <2>4. flushChain' \in Seq(BOOLEAN)
    <3>1. flushChain \in Seq(BOOLEAN) /\ unloading \in BOOLEAN
      BY DEF TypeOK
    <3>2. Append(flushChain, unloading) \in Seq(BOOLEAN)
      BY <3>1, ChainType
    <3>3. flushChain' \in {flushChain, Append(flushChain, unloading)}
      BY <1>14 DEF SettleVerified
    <3> QED
      BY <3>1, <3>2, <3>3, Zenon
  <2> HIDE DEF retries, rest
  <2>5. queue' \in Seq(Entry) /\ timer' \in BOOLEAN
    BY <2>1, <2>2, RequeueProperties DEF RequeueAndSchedule, TypeOK
  <2>6. FinishFlush
    BY <1>14 DEF SettleVerified
  <2> QED
    BY <1>13, <2>3, <2>4, <2>5, <2>6 DEF TypeOK, FinishFlush, policy
<1>15. CASE SettleBeacon
  <2>1. queue' \in Seq(Entry) /\ fate' \in [Event -> Fate]
    BY <1>15, RemoveByIdsProperties DEF SettleBeacon, Settled, TypeOK, Fate
  <2>2. FinishFlush
    BY <1>15 DEF SettleBeacon
  <2> QED
    BY <1>13, <1>15, <2>1, <2>2 DEF SettleBeacon, FinishFlush, TypeOK, policy
<1>16. CASE SettleRetryable
  <2> DEFINE retries == Retried(DOMAIN inFlight \ Exhausted)
  <2>1. retries \in Seq(Entry)
    BY RetriedProperties DEF TypeOK
  <2>2. RequeueAndSchedule(queue, retries)
    BY <1>16 DEF SettleRetryable
  <2>3. fate' \in [Event -> Fate]
    BY <1>16 DEF SettleRetryable, TypeOK, Fate
  <2> HIDE DEF retries
  <2>4. queue' \in Seq(Entry) /\ timer' \in BOOLEAN
    BY <2>1, <2>2, RequeueProperties DEF RequeueAndSchedule, TypeOK
  <2>5. FinishFlush /\ UNCHANGED flushChain
    BY <1>16 DEF SettleRetryable
  <2> QED
    BY <1>13, <2>3, <2>4, <2>5 DEF TypeOK, FinishFlush, policy
<1>17. CASE SettleFatal \/ SettleThrown
  <2>1. fate' \in [Event -> Fate]
    BY <1>17 DEF SettleFatal, SettleThrown, Settled, TypeOK, Fate
  <2>2. FinishFlush /\ UNCHANGED <<queue, timer, flushChain>>
    BY <1>17 DEF SettleFatal, SettleThrown
  <2> QED
    BY <1>13, <2>1, <2>2 DEF TypeOK, FinishFlush, policy
<1>18. CASE TimerFires
  <2>1. flushChain' \in Seq(BOOLEAN)
    BY <1>18, ChainType DEF TimerFires, TypeOK
  <2> QED
    BY <1>18, <2>1 DEF TimerFires, TypeOK, policy, flushing
<1>19. CASE Tick
  BY <1>19 DEF Tick, TypeOK, policy, flushing
<1>20. CASE UNCHANGED vars
  BY <1>20 DEF vars, TypeOK
<1> QED
  BY <1>1, <1>2, <1>3, <1>4, <1>5, <1>6, <1>7, <1>8, <1>9, <1>10, <1>11, <1>12,
     <1>14, <1>15, <1>16, <1>17, <1>18, <1>19, <1>20
     DEF Next, Host, Validation, Settle

(* The state of the client stays well-typed whatever the host, the event   *)
(* loop and the network do.                                                *)
THEOREM TypeCorrect == Spec => []TypeOK
<1> QED
  BY InitType, StepType, PTL DEF Spec

(***************************************************************************)
(* Accounting: no event is lost or doubled, and its retries are counted    *)
(***************************************************************************)

(* The invariant that is inductive: the accounting needs to know that an   *)
(* answer speaks only of the batch in flight (FlightTracked), and the      *)
(* bound on the queue that it never starts above its capacity.             *)
IInv == TypeOK /\ Accounted /\ QueueBounded /\ AttemptsCounted /\ FlightTracked

(* The end of a flush: the events R come back into the queue, the events   *)
(* out are settled, and ev are evicted by those that come back.            *)
LEMMA SettleAccounted ==
    ASSUME Accounted, NEW R, NEW out, NEW ev,
           NoDuplicates(queue'),
           Ids(queue') \cup ev = Ids(queue) \cup R,
           Ids(queue') \cap ev = {},
           R \cup out = Ids(inFlight),
           R \cap out = {},
           Gone' = Gone \cup out \cup ev,
           inFlight' = <<>>,
           call' = call
    PROVE  Accounted'
<1>1. Ids(inFlight') = {} /\ NoDuplicates(inFlight')
  BY DEF Ids, NoDuplicates
<1>2. Returned' = Returned
  BY DEF Returned
<1>3. /\ Ids(queue) \cap Ids(inFlight) = {}
      /\ Ids(queue) \cap Gone = {}
      /\ Ids(inFlight) \cap Gone = {}
      /\ Returned = Ids(queue) \cup Ids(inFlight) \cup Gone
  BY DEF Accounted
<1>4. Ids(queue') \cap Gone' = {}
  BY <1>3
<1>5. Returned' = Ids(queue') \cup Gone'
  BY <1>2, <1>3
<1> QED
  BY <1>1, <1>4, <1>5 DEF Accounted

(* The same for the retry counts: what comes back was in the batch and has *)
(* been counted up by one.                                                 *)
OnlyRetriesComeIn ==
    \A k \in DOMAIN queue' :
        \/ \E i \in DOMAIN queue : queue'[k] = queue[i]
        \/ \E i \in DOMAIN inFlight :
             /\ inFlight[i].attempt < MaxRetries
             /\ queue'[k].id = inFlight[i].id
             /\ queue'[k].attempt = inFlight[i].attempt + 1

LEMMA SettleCounted ==
    ASSUME TypeOK, AttemptsCounted, OnlyRetriesComeIn,
           inFlight' = <<>>,
           UNCHANGED <<call, sends>>
    PROVE  AttemptsCounted'
<1>1. \A i \in DOMAIN inFlight : inFlight[i].attempt \in Nat
  BY EntryOf DEF TypeOK
<1>2. MaxRetries \in Nat
  BY ClientAssumption
<1>3. ASSUME NEW k \in DOMAIN queue'
      PROVE  /\ sends[queue'[k].id] = queue'[k].attempt
             /\ queue'[k].attempt <= MaxRetries
  BY <1>1, <1>2 DEF AttemptsCounted, OnlyRetriesComeIn
<1>4. DOMAIN inFlight' = {}
  OBVIOUS
<1>5. Returned' = Returned
  BY DEF Returned
<1> QED
  BY <1>3, <1>4, <1>5 DEF AttemptsCounted

(* A capture or track call ends with its event in the queue. *)
LEMMA EnqueueAccounted ==
    ASSUME IInv, NEW e \in Event \ Returned, NEW b, EnqueueNew(e, b),
           call' = [call EXCEPT ![e] = "returned"],
           UNCHANGED <<inFlight, sends, response>>
    PROVE  Accounted' /\ QueueBounded' /\ AttemptsCounted' /\ FlightTracked'
<1> DEFINE entry == [id |-> e, at |-> now, attempt |-> 0]
           ev == Evicted(queue, <<entry>>)
<1>1. /\ <<entry>> \in Seq(Entry) /\ Ids(<<entry>>) = {e}
      /\ NoDuplicates(<<entry>>)
      /\ \A i \in DOMAIN <<entry>> : <<entry>>[i] = entry
  BY FreshEntry DEF IInv
<1>2. entry.id = e /\ entry.attempt = 0
  OBVIOUS
<1> HIDE DEF entry
<1>3. queue' = Requeue(queue, <<entry>>) /\ fate' = Settled(ev, "queue-full")
  BY DEF EnqueueNew, Enqueue, entry
<1>4. /\ NoDuplicates(queue) /\ NoDuplicates(inFlight)
      /\ Ids(queue) \cap Ids(inFlight) = {}
      /\ Ids(queue) \cap Gone = {} /\ Ids(inFlight) \cap Gone = {}
      /\ Returned = Ids(queue) \cup Ids(inFlight) \cup Gone
  BY DEF IInv, Accounted
<1>5. Ids(queue) \cap Ids(<<entry>>) = {}
  BY <1>1, <1>4
<1>6. /\ Len(queue') <= Capacity
      /\ NoDuplicates(queue')
      /\ Ids(queue) \cup {e} = Ids(queue') \cup ev
      /\ Ids(queue') \cap ev = {}
      /\ \A k \in DOMAIN queue' :
           \/ \E i \in DOMAIN queue : queue'[k] = queue[i]
           \/ queue'[k] = entry
  <2> DEFINE r == Requeue(queue, <<entry>>)
  <2>1. queue \in Seq(Entry)
    BY DEF IInv, TypeOK
  <2>2. /\ Len(r) <= Capacity
        /\ NoDuplicates(r)
        /\ Ids(queue) \cup Ids(<<entry>>) = Ids(r) \cup ev
        /\ Ids(r) \cap ev = {}
        /\ \A k \in DOMAIN r :
             \/ \E i \in DOMAIN queue : r[k] = queue[i]
             \/ \E i \in DOMAIN <<entry>> : r[k] = <<entry>>[i]
    BY <1>1, <1>4, <1>5, <2>1, RequeueProperties
  <2> HIDE DEF r
  <2>3. \A k \in DOMAIN r : (\E i \in DOMAIN queue : r[k] = queue[i]) \/ r[k] = entry
    BY <1>1, <2>2
  <2> QED
    BY <1>1, <1>3, <2>2, <2>3 DEF r
<1>7. ev \subseteq Event
  BY <1>4, <1>6 DEF Returned
<1> HIDE DEF ev
<1>8. Gone' = Gone \cup ev
  BY <1>3, <1>7 DEF Gone, Settled
<1>9. Returned' = Returned \cup {e}
  <2>1. call \in [Event -> CallState] /\ e \in Event
    BY DEF IInv, TypeOK
  <2> QED
    BY <2>1 DEF Returned
<1>10. Accounted'
  <2>1. Ids(queue') \cap Ids(inFlight') = {}
    BY <1>4, <1>6
  <2>2. Ids(queue') \cap Gone' = {} /\ Ids(inFlight') \cap Gone' = {}
    BY <1>4, <1>6, <1>8
  <2>3. Returned' = Ids(queue') \cup Ids(inFlight') \cup Gone'
    BY <1>4, <1>6, <1>8, <1>9
  <2> QED
    BY <1>4, <1>6, <2>1, <2>2, <2>3 DEF Accounted
<1>11. AttemptsCounted'
  <2>1. MaxRetries \in Nat /\ sends[e] = 0
    BY ClientAssumption DEF IInv, AttemptsCounted
  <2>2. ASSUME NEW k \in DOMAIN queue'
        PROVE  /\ sends[queue'[k].id] = queue'[k].attempt
               /\ queue'[k].attempt <= MaxRetries
    BY <1>2, <1>6, <2>1 DEF IInv, AttemptsCounted
  <2> QED
    BY <1>9, <2>2 DEF IInv, AttemptsCounted
<1> QED
  BY <1>6, <1>10, <1>11 DEF QueueBounded, FlightTracked, IInv

(* Entries leave the queue and their events are settled; the batch stays.  *)
LEMMA DropAccounted ==
    ASSUME IInv, NEW out,
           NoDuplicates(queue'),
           Len(queue') <= Len(queue),
           Ids(queue') = Ids(queue) \ out,
           out \subseteq Ids(queue),
           \A k \in DOMAIN queue' : \E i \in DOMAIN queue : queue'[k] = queue[i],
           queue' \in Seq(Entry),
           Gone' = Gone \cup out,
           UNCHANGED <<inFlight, call, sends>>
    PROVE  Accounted' /\ QueueBounded' /\ AttemptsCounted'
<1>1. Returned' = Returned
  BY DEF Returned
<1>2. Accounted'
  <2>1. /\ NoDuplicates(inFlight)
        /\ Ids(queue) \cap Ids(inFlight) = {}
        /\ Ids(queue) \cap Gone = {}
        /\ Ids(inFlight) \cap Gone = {}
        /\ Returned = Ids(queue) \cup Ids(inFlight) \cup Gone
    BY DEF IInv, Accounted
  <2>2. /\ Ids(queue') \cap Ids(inFlight') = {}
        /\ Ids(queue') \cap Gone' = {}
        /\ Ids(inFlight') \cap Gone' = {}
        /\ Returned' = Ids(queue') \cup Ids(inFlight') \cup Gone'
    BY <1>1, <2>1
  <2> QED
    BY <2>1, <2>2 DEF Accounted
<1>3. QueueBounded'
  <2>1. /\ Len(queue) \in Nat /\ Len(queue') \in Nat
        /\ Len(queue) <= Capacity /\ Capacity \in Nat
    BY QueueAssumption DEF IInv, TypeOK, QueueBounded, Capacity
  <2> QED
    BY <2>1 DEF QueueBounded
<1>4. AttemptsCounted'
  BY <1>1 DEF IInv, AttemptsCounted
<1> QED
  BY <1>2, <1>3, <1>4

LEMMA RevokeAccounted ==
    ASSUME IInv, NEW P, RevokeSideEffects(P), UNCHANGED <<inFlight, call, sends>>
    PROVE  Accounted' /\ QueueBounded' /\ AttemptsCounted' /\ FlightTracked'
<1>1. queue \in Seq(Entry) /\ NoDuplicates(queue)
  BY DEF IInv, TypeOK, Accounted
<1>2. queue' = RemoveByPurposes(queue, P)
  BY DEF RevokeSideEffects
<1>3. /\ queue' \in Seq(Entry)
      /\ Len(queue') <= Len(queue)
      /\ Ids(queue') = Ids(queue) \ Revoked(queue, P)
      /\ NoDuplicates(queue')
      /\ \A k \in DOMAIN queue' : \E i \in DOMAIN queue : queue'[k] = queue[i]
  BY <1>1, <1>2, RemoveByPurposesProperties
<1>4. Revoked(queue, P) \subseteq Ids(queue)
  BY DEF Revoked
<1>5. Gone' = Gone \cup Revoked(queue, P)
  <2>1. Ids(queue) \subseteq Event
    BY EntryOf, <1>1 DEF Ids
  <2> QED
    BY <1>4, <2>1 DEF RevokeSideEffects, Settled, Gone
<1>6. FlightTracked'
  <2>1. AbortAll
    BY DEF RevokeSideEffects
  <2>2. /\ response'.kind = "idle" <=> response.kind = "idle"
        /\ DOMAIN response'.verdicts \subseteq DOMAIN response.verdicts
    BY <2>1, AbortType
  <2> QED
    BY <2>2 DEF FlightTracked, IInv
<1> QED
  BY <1>1, <1>3, <1>4, <1>5, <1>6, DropAccounted

LEMMA FlushAccounted ==
    ASSUME IInv, RunFlush
    PROVE  Accounted' /\ QueueBounded' /\ AttemptsCounted' /\ FlightTracked'
<1>1. /\ queue \in Seq(Entry) /\ NoDuplicates(queue)
      /\ inFlight = <<>> /\ Ids(inFlight) = {}
      /\ Ids(queue) \cap Gone = {} /\ Returned = Ids(queue) \cup Gone
  BY DEF IInv, TypeOK, Accounted, RunFlush, Ids
<1>2. CASE destroyed \/ ~sending
  BY <1>2 DEF RunFlush, IInv, Accounted, QueueBounded, AttemptsCounted,
              FlightTracked, Returned, Gone, flushing
<1>3. CASE ~(destroyed \/ ~sending)
  <2> DEFINE batch == Batch(queue, now)
             stay == Remaining(queue, now)
             old == Expired(queue, now)
  <2>1. /\ batch \in Seq(Entry) /\ stay \in Seq(Entry) /\ Len(stay) <= Len(queue)
        /\ Ids(queue) = Ids(batch) \cup Ids(stay) \cup old
        /\ NoDuplicates(batch) /\ NoDuplicates(stay)
        /\ Ids(batch) \cap Ids(stay) = {}
        /\ Ids(batch) \cap old = {}
        /\ Ids(stay) \cap old = {}
        /\ \A k \in DOMAIN batch : \E i \in DOMAIN queue : batch[k] = queue[i]
        /\ \A k \in DOMAIN stay : \E i \in DOMAIN queue : stay[k] = queue[i]
    BY <1>1, TakeBatchProperties DEF IInv, TypeOK
  <2>2. queue' = stay /\ fate' = Settled(old, "event-expired") /\ call' = call
    BY <1>3 DEF RunFlush
  <2>3. \/ batch = <<>> /\ UNCHANGED <<inFlight, response, sends>>
        \/ /\ batch # <<>> /\ inFlight' = batch
           /\ response' \in FirstAnswers(Head(flushChain))
           /\ sends' = [e \in Event |-> IF e \in Ids(batch) THEN sends[e] + 1
                                       ELSE sends[e]]
    BY <1>3 DEF RunFlush, flushing
  <2>4. Ids(queue) \subseteq Event
    BY EntryOf, <1>1 DEF Ids
  <2> HIDE DEF batch, stay, old
  <2>5. Gone' = Gone \cup old
    BY <2>1, <2>2, <2>4 DEF Settled, Gone
  <2>6. Returned' = Returned
    BY <2>2 DEF Returned
  <2>7. inFlight' = batch
    BY <1>1, <2>3
  <2>8. Accounted'
    <3>1. /\ Ids(stay) \cap Ids(batch) = {}
          /\ Ids(stay) \cap Gone' = {}
          /\ Ids(batch) \cap Gone' = {}
          /\ Returned' = Ids(stay) \cup Ids(batch) \cup Gone'
      BY <1>1, <2>1, <2>5, <2>6
    <3> QED
      BY <2>1, <2>2, <2>7, <3>1 DEF Accounted
  <2>9. QueueBounded'
    <3>1. /\ Len(queue) \in Nat /\ Len(stay) \in Nat
          /\ Len(queue) <= Capacity /\ Capacity \in Nat
      BY <1>1, <2>1, QueueAssumption DEF IInv, QueueBounded, Capacity
    <3> QED
      BY <2>1, <2>2, <3>1 DEF QueueBounded
  <2>10. AttemptsCounted'
    <3>1. /\ MaxRetries \in Nat /\ sends \in [Event -> Nat]
          /\ \A i \in DOMAIN queue :
               /\ sends[queue[i].id] = queue[i].attempt
               /\ queue[i].attempt <= MaxRetries
               /\ queue[i].attempt \in Nat
               /\ queue[i].id \in Event
          /\ \A e \in Event : sends[e] <= MaxRetries + 1
          /\ \A e \in Event \ Returned : sends[e] = 0
      BY <1>1, EntryOf, ClientAssumption DEF IInv, TypeOK, AttemptsCounted
    <3>2. \A e \in Ids(batch) : e \in Event /\ sends[e] <= MaxRetries
      BY <2>1, <3>1 DEF Ids
    <3>3. \A e \in Event : sends'[e] = IF e \in Ids(batch) THEN sends[e] + 1
                                      ELSE sends[e]
      <4>1. CASE batch = <<>>
        <5>1. Ids(batch) = {} /\ sends' = sends
          BY <2>3, <4>1 DEF Ids
        <5> QED
          BY <5>1
      <4>2. CASE batch # <<>>
        BY <2>3, <4>2
      <4> QED
        BY <4>1, <4>2
    <3>4. ASSUME NEW k \in DOMAIN stay
          PROVE  /\ sends'[stay[k].id] = stay[k].attempt
                 /\ stay[k].attempt <= MaxRetries
      <4>1. PICK i \in DOMAIN queue : stay[k] = queue[i]
        BY <2>1
      <4>2. stay[k].id \in Ids(stay)
        BY DEF Ids
      <4>3. stay[k].id \notin Ids(batch)
        BY <2>1, <4>2
      <4> QED
        BY <3>1, <3>3, <4>1, <4>3
    <3>5. ASSUME NEW k \in DOMAIN batch
          PROVE  /\ sends'[batch[k].id] = batch[k].attempt + 1
                 /\ batch[k].attempt <= MaxRetries
      <4>1. PICK i \in DOMAIN queue : batch[k] = queue[i]
        BY <2>1
      <4>2. batch[k].id \in Ids(batch)
        BY DEF Ids
      <4> QED
        BY <3>1, <3>3, <4>1, <4>2
    <3>6. \A e \in Event : sends'[e] <= MaxRetries + 1
      BY <3>1, <3>2, <3>3
    <3>7. \A e \in Event \ Returned' : sends'[e] = 0
      <4>1. Ids(batch) \subseteq Returned
        BY <1>1, <2>1
      <4> QED
        BY <2>6, <3>1, <3>3, <4>1
    <3> QED
      BY <2>2, <2>7, <3>4, <3>5, <3>6, <3>7 DEF AttemptsCounted
  <2>11. FlightTracked'
    <3>1. CASE batch = <<>>
      BY <1>1, <2>3, <3>1 DEF IInv, FlightTracked, Ids
    <3>2. CASE batch # <<>>
      <4>1. Head(flushChain) \in BOOLEAN
        BY HeadTailProperties, Zenon DEF RunFlush, IInv, TypeOK
      <4>2. response'.kind # "idle" /\ DOMAIN response'.verdicts = {}
        BY <2>3, <3>2, <4>1, FirstAnswersType
      <4> QED
        BY <2>7, <3>2, <4>2 DEF FlightTracked
    <3> QED
      BY <3>1, <3>2
  <2> QED
    BY <2>8, <2>9, <2>10, <2>11
<1> QED
  BY <1>2, <1>3

LEMMA FinishTracked ==
    ASSUME FinishFlush
    PROVE  /\ inFlight' = <<>>
           /\ FlightTracked'
           /\ UNCHANGED <<call, sends>>
  BY DEF FinishFlush, FlightTracked, Idle, Answer, NoVerdicts, Ids

(* The batch of a verified answer: what comes back and what is settled.    *)
LEMMA VerifiedAccounted ==
    ASSUME IInv, SettleVerified
    PROVE  /\ Accounted' /\ QueueBounded' /\ AttemptsCounted' /\ FlightTracked'
           /\ OnlyRetriesComeIn
<1> DEFINE acc == With("accepted")
           perm == With("permanent")
           trans == With("transient")
           back == Again(trans)
           more == Again(Uncovered)
           retries == back \o more
           rest == RemoveByIds(queue, acc)
           ev == Evicted(rest, retries)
           out == acc \cup perm \cup GivenUp(trans) \cup GivenUp(Uncovered)
<1>1. /\ queue \in Seq(Entry) /\ inFlight \in Seq(Entry)
      /\ NoDuplicates(queue) /\ NoDuplicates(inFlight)
      /\ Ids(queue) \cap Ids(inFlight) = {}
  BY DEF IInv, TypeOK, Accounted
<1>2. /\ acc \cup perm \cup trans \cup Uncovered = Ids(inFlight)
      /\ acc \cap perm = {} /\ acc \cap trans = {} /\ acc \cap Uncovered = {}
      /\ perm \cap trans = {} /\ perm \cap Uncovered = {}
      /\ trans \cap Uncovered = {}
  BY DEF IInv, TypeOK, FlightTracked, With, Uncovered, Verdict
<1>3. /\ back \in Seq(Entry) /\ more \in Seq(Entry)
      /\ NoDuplicates(back) /\ NoDuplicates(more)
      /\ Ids(back) \subseteq trans /\ Ids(more) \subseteq Uncovered
      /\ trans \subseteq Ids(back) \cup GivenUp(trans)
      /\ Uncovered \subseteq Ids(more) \cup GivenUp(Uncovered)
      /\ Ids(back) \cap GivenUp(trans) = {}
      /\ Ids(more) \cap GivenUp(Uncovered) = {}
      /\ \A k \in DOMAIN back : \E i \in DOMAIN inFlight :
           /\ inFlight[i].attempt < MaxRetries
           /\ back[k].id = inFlight[i].id
           /\ back[k].attempt = inFlight[i].attempt + 1
      /\ \A k \in DOMAIN more : \E i \in DOMAIN inFlight :
           /\ inFlight[i].attempt < MaxRetries
           /\ more[k].id = inFlight[i].id
           /\ more[k].attempt = inFlight[i].attempt + 1
  <2>1. trans \subseteq Ids(inFlight) /\ Uncovered \subseteq Ids(inFlight) /\ TypeOK
    BY <1>2 DEF IInv
  <2> HIDE DEF trans
  <2> QED
    BY <1>1, <2>1, AgainProperties
<1>4. GivenUp(trans) \subseteq trans /\ GivenUp(Uncovered) \subseteq Uncovered
  BY DEF GivenUp
<1>5. /\ RequeueAndSchedule(rest, retries)
      /\ FinishFlush
      /\ fate' = [e \in Event |->
                CASE e \in acc -> "accepted"
                  [] e \in perm \cup GivenUp(trans) -> "server-rejected"
                  [] e \in GivenUp(Uncovered) -> "offline"
                  [] e \in ev -> "queue-full"
                  [] OTHER -> fate[e]]
  BY DEF SettleVerified
<1> HIDE DEF acc, perm, trans, back, more, rest, ev, retries
<1>6. /\ rest \in Seq(Entry) /\ NoDuplicates(rest)
      /\ Ids(rest) = Ids(queue)
      /\ \A k \in DOMAIN rest : \E i \in DOMAIN queue : rest[k] = queue[i]
  <2>1. /\ rest \in Seq(Entry) /\ NoDuplicates(rest)
        /\ Ids(rest) = Ids(queue) \ acc
        /\ \A k \in DOMAIN rest : \E i \in DOMAIN queue : rest[k] = queue[i]
    BY <1>1, RemoveByIdsProperties DEF rest
  <2> QED
    BY <1>1, <1>2, <2>1
<1>7. /\ retries \in Seq(Entry) /\ NoDuplicates(retries)
      /\ Ids(retries) = Ids(back) \cup Ids(more)
      /\ \A k \in DOMAIN retries :
           \/ \E i \in DOMAIN back : retries[k] = back[i]
           \/ \E i \in DOMAIN more : retries[k] = more[i]
  <2>1. Ids(back) \cap Ids(more) = {}
    BY <1>2, <1>3
  <2> QED
    BY <1>3, <2>1, ConcatIds DEF retries
<1>8. queue' = Requeue(rest, retries)
  BY <1>5 DEF RequeueAndSchedule
<1>9. /\ Len(queue') <= Capacity
      /\ NoDuplicates(queue')
      /\ Ids(queue') \cup ev = Ids(queue) \cup Ids(retries)
      /\ Ids(queue') \cap ev = {}
      /\ \A k \in DOMAIN queue' :
           \/ \E i \in DOMAIN rest : queue'[k] = rest[i]
           \/ \E i \in DOMAIN retries : queue'[k] = retries[i]
  <2> DEFINE r == Requeue(rest, retries)
  <2>1. Ids(rest) \cap Ids(retries) = {}
    BY <1>1, <1>2, <1>3, <1>6, <1>7
  <2>2. /\ Len(r) <= Capacity
        /\ NoDuplicates(r)
        /\ Ids(rest) \cup Ids(retries) = Ids(r) \cup ev
        /\ Ids(r) \cap ev = {}
        /\ \A k \in DOMAIN r :
             \/ \E i \in DOMAIN rest : r[k] = rest[i]
             \/ \E i \in DOMAIN retries : r[k] = retries[i]
    BY <1>6, <1>7, <2>1, RequeueProperties DEF ev
  <2> HIDE DEF r
  <2> QED
    BY <1>6, <1>8, <2>2 DEF r
<1>10. Ids(retries) \cup out = Ids(inFlight) /\ Ids(retries) \cap out = {}
  BY <1>2, <1>3, <1>4, <1>7
<1>11. Gone' = Gone \cup out \cup ev
  <2>1. /\ Ids(queue) \subseteq Event /\ Ids(inFlight) \subseteq Event
        /\ ev \subseteq Ids(queue) \cup Ids(inFlight)
    <3>1. Ids(queue) \subseteq Event /\ Ids(inFlight) \subseteq Event
      BY <1>1, EntryOf DEF Ids
    <3> HIDE DEF out
    <3>2. ev \subseteq Ids(queue) \cup Ids(inFlight)
      BY <1>9, <1>10
    <3> QED
      BY <3>1, <3>2
  <2>2. out \cup ev \subseteq Event
    <3> HIDE DEF out
    <3> QED
      BY <1>10, <2>1
  <2>3. \A e \in Event : fate'[e] # "none" <=> e \in out \cup ev \/ fate[e] # "none"
    BY <1>5
  <2> QED
    BY <2>2, <2>3 DEF Gone
<1>12. inFlight' = <<>> /\ FlightTracked' /\ UNCHANGED <<call, sends>>
  BY <1>5, FinishTracked
<1>13. Accounted'
  <2>1. Accounted
    BY DEF IInv
  <2> HIDE DEF out
  <2> QED
    BY <1>9, <1>10, <1>11, <1>12, <2>1, SettleAccounted
<1>14. OnlyRetriesComeIn
  <2>1. ASSUME NEW k \in DOMAIN queue'
        PROVE  \/ \E i \in DOMAIN queue : queue'[k] = queue[i]
               \/ \E i \in DOMAIN inFlight :
                    /\ inFlight[i].attempt < MaxRetries
                    /\ queue'[k].id = inFlight[i].id
                    /\ queue'[k].attempt = inFlight[i].attempt + 1
    <3>1. CASE \E j \in DOMAIN rest : queue'[k] = rest[j]
      BY <1>6, <3>1
    <3>2. CASE \E j \in DOMAIN retries : queue'[k] = retries[j]
      <4>1. PICK j \in DOMAIN retries : queue'[k] = retries[j]
        BY <3>2
      <4>2. CASE \E m \in DOMAIN back : retries[j] = back[m]
        BY <1>3, <4>1, <4>2
      <4>3. CASE \E m \in DOMAIN more : retries[j] = more[m]
        BY <1>3, <4>1, <4>3
      <4> QED
        BY <1>7, <4>2, <4>3
    <3> QED
      BY <1>9, <3>1, <3>2
  <2> QED
    BY <2>1 DEF OnlyRetriesComeIn
<1>15. AttemptsCounted'
  BY <1>12, <1>14, SettleCounted DEF IInv
<1> QED
  BY <1>9, <1>12, <1>13, <1>14, <1>15 DEF QueueBounded

LEMMA RetryableAccounted ==
    ASSUME IInv, SettleRetryable
    PROVE  /\ Accounted' /\ QueueBounded' /\ AttemptsCounted' /\ FlightTracked'
           /\ OnlyRetriesComeIn
<1> DEFINE I == DOMAIN inFlight \ Exhausted
           retries == Retried(I)
           ev == Evicted(queue, retries)
           out == {inFlight[i].id : i \in Exhausted}
<1>1. /\ queue \in Seq(Entry) /\ inFlight \in Seq(Entry)
      /\ NoDuplicates(queue) /\ NoDuplicates(inFlight)
      /\ Ids(queue) \cap Ids(inFlight) = {}
  BY DEF IInv, TypeOK, Accounted
<1>2. /\ RequeueAndSchedule(queue, retries)
      /\ FinishFlush
      /\ fate' = [e \in Event |->
                CASE e \in out -> "offline"
                  [] e \in ev -> "queue-full"
                  [] OTHER -> fate[e]]
  BY DEF SettleRetryable
<1>3. /\ I \in SUBSET DOMAIN inFlight
      /\ \A i \in I : inFlight[i].attempt < MaxRetries
      /\ {inFlight[i].id : i \in I} \cup out = Ids(inFlight)
      /\ {inFlight[i].id : i \in I} \cap out = {}
  <2>1. \A i \in DOMAIN inFlight : inFlight[i].attempt \in Nat
    BY <1>1, EntryOf
  <2>2. MaxRetries \in Nat
    BY ClientAssumption
  <2>3. \A i \in I : inFlight[i].attempt < MaxRetries
    BY <2>1, <2>2 DEF Exhausted
  <2>4. {inFlight[i].id : i \in I} \cup out = Ids(inFlight)
    BY DEF Exhausted, Ids
  <2>5. {inFlight[i].id : i \in I} \cap out = {}
    BY <1>1 DEF Exhausted, NoDuplicates
  <2> QED
    BY <2>3, <2>4, <2>5
<1> HIDE DEF I, retries, ev, out
<1>4. /\ retries \in Seq(Entry) /\ NoDuplicates(retries)
      /\ Ids(retries) = {inFlight[i].id : i \in I}
      /\ \A k \in DOMAIN retries : \E i \in I :
           /\ retries[k].id = inFlight[i].id
           /\ retries[k].attempt = inFlight[i].attempt + 1
  BY <1>1, <1>3, RetriedProperties DEF retries
<1>5. /\ Len(queue') <= Capacity
      /\ NoDuplicates(queue')
      /\ Ids(queue') \cup ev = Ids(queue) \cup Ids(retries)
      /\ Ids(queue') \cap ev = {}
      /\ \A k \in DOMAIN queue' :
           \/ \E i \in DOMAIN queue : queue'[k] = queue[i]
           \/ \E i \in DOMAIN retries : queue'[k] = retries[i]
  <2> DEFINE r == Requeue(queue, retries)
  <2>1. Ids(queue) \cap Ids(retries) = {}
    BY <1>1, <1>3, <1>4
  <2>2. /\ Len(r) <= Capacity
        /\ NoDuplicates(r)
        /\ Ids(queue) \cup Ids(retries) = Ids(r) \cup ev
        /\ Ids(r) \cap ev = {}
        /\ \A k \in DOMAIN r :
             \/ \E i \in DOMAIN queue : r[k] = queue[i]
             \/ \E i \in DOMAIN retries : r[k] = retries[i]
    BY <1>1, <1>4, <2>1, RequeueProperties DEF ev
  <2>3. queue' = r
    BY <1>2 DEF RequeueAndSchedule
  <2> HIDE DEF r
  <2> QED
    BY <2>2, <2>3
<1>6. Gone' = Gone \cup out \cup ev
  <2>1. /\ Ids(queue) \subseteq Event /\ Ids(inFlight) \subseteq Event
        /\ ev \subseteq Ids(queue) \cup Ids(inFlight)
    BY <1>1, <1>3, <1>4, <1>5, EntryOf DEF Ids
  <2>2. out \cup ev \subseteq Event
    BY <1>3, <2>1
  <2>3. \A e \in Event : fate'[e] # "none" <=> e \in out \cup ev \/ fate[e] # "none"
    BY <1>2
  <2> QED
    BY <2>2, <2>3 DEF Gone
<1>7. inFlight' = <<>> /\ FlightTracked' /\ UNCHANGED <<call, sends>>
  BY <1>2, FinishTracked
<1>8. Accounted'
  <2>1. Accounted /\ Ids(retries) \cup out = Ids(inFlight) /\ Ids(retries) \cap out = {}
    BY <1>3, <1>4 DEF IInv
  <2> QED
    BY <1>5, <1>6, <1>7, <2>1, SettleAccounted
<1>9. OnlyRetriesComeIn
  <2>1. ASSUME NEW k \in DOMAIN queue'
        PROVE  \/ \E i \in DOMAIN queue : queue'[k] = queue[i]
               \/ \E i \in DOMAIN inFlight :
                    /\ inFlight[i].attempt < MaxRetries
                    /\ queue'[k].id = inFlight[i].id
                    /\ queue'[k].attempt = inFlight[i].attempt + 1
    BY <1>3, <1>4, <1>5
  <2> QED
    BY <2>1 DEF OnlyRetriesComeIn
<1>10. AttemptsCounted'
  BY <1>7, <1>9, SettleCounted DEF IInv
<1> QED
  BY <1>5, <1>7, <1>8, <1>9, <1>10 DEF QueueBounded

(* The other answers settle the whole batch. *)
LEMMA WholeBatchAccounted ==
    ASSUME IInv, SettleBeacon \/ SettleFatal \/ SettleThrown
    PROVE  /\ Accounted' /\ QueueBounded' /\ AttemptsCounted' /\ FlightTracked'
           /\ OnlyRetriesComeIn
<1>1. /\ queue \in Seq(Entry) /\ inFlight \in Seq(Entry)
      /\ NoDuplicates(queue) /\ Ids(queue) \cap Ids(inFlight) = {}
      /\ Len(queue) <= Capacity /\ Capacity \in Nat
  BY QueueAssumption DEF IInv, TypeOK, Accounted, QueueBounded, Capacity
<1>2. FinishFlush
  BY DEF SettleBeacon, SettleFatal, SettleThrown
<1>3. inFlight' = <<>> /\ FlightTracked' /\ UNCHANGED <<call, sends>>
  BY <1>2, FinishTracked
<1>4. /\ queue' \in Seq(Entry)
      /\ Len(queue') <= Len(queue)
      /\ Ids(queue') = Ids(queue)
      /\ NoDuplicates(queue')
      /\ \A k \in DOMAIN queue' : \E i \in DOMAIN queue : queue'[k] = queue[i]
  <2>1. CASE SettleBeacon
    <3> DEFINE r == RemoveByIds(queue, Ids(inFlight))
    <3>1. queue' = r
      BY <2>1 DEF SettleBeacon
    <3>2. /\ r \in Seq(Entry)
          /\ Len(r) <= Len(queue)
          /\ Ids(r) = Ids(queue) \ Ids(inFlight)
          /\ NoDuplicates(r)
          /\ \A k \in DOMAIN r : \E i \in DOMAIN queue : r[k] = queue[i]
      BY <1>1, RemoveByIdsProperties
    <3> HIDE DEF r
    <3> QED
      BY <1>1, <3>1, <3>2
  <2>2. CASE SettleFatal \/ SettleThrown
    BY <1>1, <2>2 DEF SettleFatal, SettleThrown
  <2> QED
    BY <2>1, <2>2
<1>5. Gone' = Gone \cup Ids(inFlight)
  <2>1. Ids(inFlight) \subseteq Event
    BY <1>1, EntryOf DEF Ids
  <2>2. \E f \in Fate \ {"none"} : fate' = Settled(Ids(inFlight), f)
    BY DEF SettleBeacon, SettleFatal, SettleThrown, Fate
  <2> QED
    BY <2>1, <2>2 DEF Gone, Settled
<1>6. QueueBounded'
  <2>1. Len(queue') \in Nat /\ Len(queue) \in Nat
    BY <1>1, <1>4
  <2> QED
    BY <1>1, <1>4, <2>1 DEF QueueBounded
<1>7. Accounted'
  <2> DEFINE out == Ids(inFlight)
             none == {}
  <2>1. /\ Accounted
        /\ none \cup out = Ids(inFlight) /\ none \cap out = {}
        /\ NoDuplicates(queue')
        /\ Ids(queue') \cup none = Ids(queue) \cup none
        /\ Ids(queue') \cap none = {}
        /\ Gone' = Gone \cup out \cup none
    BY <1>4, <1>5 DEF IInv
  <2> HIDE DEF out, none
  <2> QED
    BY <1>3, <2>1, SettleAccounted
<1>8. OnlyRetriesComeIn
  BY <1>4 DEF OnlyRetriesComeIn
<1>9. AttemptsCounted'
  BY <1>3, <1>8, SettleCounted DEF IInv
<1> QED
  BY <1>3, <1>6, <1>7, <1>8, <1>9

(* A call ends with its event settled instead of enqueued. *)
LEMMA RefusedAccounted ==
    ASSUME IInv, NEW e \in Event \ Returned, NEW f \in Fate \ {"none"},
           fate' = Settled({e}, f),
           call' = [call EXCEPT ![e] = "returned"],
           UNCHANGED <<queue, inFlight, response, sends>>
    PROVE  Accounted' /\ QueueBounded' /\ AttemptsCounted' /\ FlightTracked'
<1>1. Gone' = Gone \cup {e}
  BY DEF Gone, Settled
<1>2. Returned' = Returned \cup {e}
  <2>1. call \in [Event -> CallState] /\ e \in Event
    BY DEF IInv, TypeOK
  <2> QED
    BY <2>1 DEF Returned
<1>3. Accounted'
  <2>1. /\ Ids(queue) \cap Ids(inFlight) = {}
        /\ Ids(queue) \cap Gone = {} /\ Ids(inFlight) \cap Gone = {}
        /\ NoDuplicates(queue) /\ NoDuplicates(inFlight)
        /\ Returned = Ids(queue) \cup Ids(inFlight) \cup Gone
    BY DEF IInv, Accounted
  <2> QED
    BY <1>1, <1>2, <2>1 DEF Accounted
<1>4. AttemptsCounted'
  BY <1>2 DEF IInv, AttemptsCounted
<1> QED
  BY <1>3, <1>4 DEF IInv, QueueBounded, FlightTracked

(* Steps that move no event. *)
LEMMA StillAccounted ==
    ASSUME IInv, Returned' = Returned, UNCHANGED <<queue, inFlight, fate, sends>>
    PROVE  Accounted' /\ QueueBounded' /\ AttemptsCounted'
<1>1. Gone' = Gone
  BY DEF Gone
<1> QED
  BY <1>1 DEF IInv, Accounted, QueueBounded, AttemptsCounted

(* Steps of a call that is not over yet. *)
LEMMA CallPending ==
    ASSUME TypeOK, NEW e \in Event, NEW c \in CallState \ {"returned"},
           call[e] # "returned", call' = [call EXCEPT ![e] = c]
    PROVE  Returned' = Returned
  BY DEF TypeOK, Returned

LEMMA StepAccounted == IInv /\ [Next]_vars => IInv'
<1> SUFFICES ASSUME IInv, [Next]_vars
             PROVE  Accounted' /\ QueueBounded' /\ AttemptsCounted' /\ FlightTracked'
  BY StepType DEF IInv
<1> USE DEF flushing, policy
<1>1. ASSUME NEW e \in Event, CaptureBegin(e) \/ LegacyBegin(e)
      PROVE  Accounted' /\ QueueBounded' /\ AttemptsCounted' /\ FlightTracked'
  <2>1. Returned' = Returned
    BY <1>1, CallPending DEF CaptureBegin, LegacyBegin, CallState, IInv
  <2> QED
    BY <1>1, <2>1, StillAccounted DEF CaptureBegin, LegacyBegin, FlightTracked, IInv
<1>2. ASSUME NEW e \in Event, CaptureBuild(e)
      PROVE  Accounted' /\ QueueBounded' /\ AttemptsCounted' /\ FlightTracked'
  <2>1. CASE call' = [call EXCEPT ![e] = "built"] /\ UNCHANGED fate
    <3>1. Returned' = Returned
      BY <1>2, <2>1, CallPending DEF CaptureBuild, CallState, IInv
    <3> QED
      BY <1>2, <2>1, <3>1, StillAccounted DEF CaptureBuild, FlightTracked, IInv
  <2>2. CASE /\ call' = [call EXCEPT ![e] = "returned"]
             /\ fate' = Settled({e}, "validation-failed")
    <3>1. e \in Event \ Returned /\ "validation-failed" \in Fate \ {"none"}
      BY <1>2 DEF CaptureBuild, Returned, Fate
    <3> QED
      BY <1>2, <2>2, <3>1, RefusedAccounted DEF CaptureBuild
  <2> QED
    BY <1>2, <2>1, <2>2 DEF CaptureBuild
<1>3. ASSUME NEW e \in Event, CaptureFinish(e)
      PROVE  Accounted' /\ QueueBounded' /\ AttemptsCounted' /\ FlightTracked'
  <2>1. e \in Event \ Returned
    BY <1>3 DEF CaptureFinish, Returned
  <2>2. CASE EnqueueNew(e, sending /\ ~destroyed)
    BY <1>3, <2>1, <2>2, EnqueueAccounted DEF CaptureFinish
  <2>3. CASE /\ fate' = Settled({e}, "consent-denied")
             /\ UNCHANGED <<queue, flushChain>>
    <3>1. "consent-denied" \in Fate \ {"none"}
      BY DEF Fate
    <3> QED
      BY <1>3, <2>1, <2>3, <3>1, RefusedAccounted DEF CaptureFinish
  <2> QED
    BY <1>3, <2>2, <2>3 DEF CaptureFinish
<1>4. ASSUME NEW e \in Event, LegacyFinish(e)
      PROVE  Accounted' /\ QueueBounded' /\ AttemptsCounted' /\ FlightTracked'
  <2>1. e \in Event \ Returned
    BY <1>4 DEF LegacyFinish, Returned
  <2> QED
    BY <1>4, <2>1, EnqueueAccounted DEF LegacyFinish
<1>5. ASSUME NEW P, RevokeSideEffects(P), UNCHANGED <<inFlight, call, sends>>
      PROVE  Accounted' /\ QueueBounded' /\ AttemptsCounted' /\ FlightTracked'
  BY <1>5, RevokeAccounted
<1>6. ASSUME UNCHANGED <<queue, fate, response, inFlight, call, sends>>
      PROVE  Accounted' /\ QueueBounded' /\ AttemptsCounted' /\ FlightTracked'
  <2>1. Returned' = Returned
    BY <1>6 DEF Returned
  <2> QED
    BY <1>6, <2>1, StillAccounted DEF FlightTracked, IInv
<1>7. ASSUME NEW p \in Toggled, NEW s \in {"granted", "denied"}, SetConsent(p, s)
      PROVE  Accounted' /\ QueueBounded' /\ AttemptsCounted' /\ FlightTracked'
  BY <1>5, <1>6, <1>7 DEF SetConsent
<1>8. ASSUME NEW snapshot \in Snapshots, AdoptExternalConsent(snapshot)
      PROVE  Accounted' /\ QueueBounded' /\ AttemptsCounted' /\ FlightTracked'
  BY <1>5, <1>6, <1>8 DEF AdoptExternalConsent
<1>9. CASE Destroy
  <2>1. /\ queue' = <<>> /\ Ids(queue') = {} /\ NoDuplicates(queue')
        /\ DOMAIN queue' = {} /\ Len(queue') = 0 /\ queue' \in Seq(Entry)
    BY <1>9 DEF Destroy, Ids, NoDuplicates
  <2>2. Ids(queue) \subseteq Event
    BY EntryOf DEF Ids, IInv, TypeOK
  <2>3. Gone' = Gone \cup Ids(queue)
    BY <1>9, <2>2 DEF Destroy, Settled, Gone
  <2>4. Len(queue') <= Len(queue)
    <3>1. Len(queue) \in Nat
      BY DEF IInv, TypeOK
    <3> QED
      BY <2>1, <3>1
  <2>5. UNCHANGED <<inFlight, call, sends>> /\ AbortAll
    BY <1>9 DEF Destroy
  <2>6. Accounted' /\ QueueBounded' /\ AttemptsCounted'
    <3> DEFINE out == Ids(queue)
    <3>1. Ids(queue') = Ids(queue) \ out /\ out \subseteq Ids(queue) /\ Gone' = Gone \cup out
      BY <2>1, <2>3
    <3> HIDE DEF out
    <3> QED
      BY <2>1, <2>4, <2>5, <3>1, DropAccounted
  <2>7. FlightTracked'
    BY <2>5, AbortType DEF FlightTracked, IInv
  <2> QED
    BY <2>6, <2>7
<1>10. CASE RunFlush
  BY <1>10, FlushAccounted
<1>11. CASE Respond
  <2>1. UNCHANGED <<queue, inFlight, fate, sends, call>>
    BY <1>11 DEF Respond
  <2>2. Returned' = Returned
    BY <2>1 DEF Returned
  <2>3. FlightTracked'
    <3>1. inFlight # <<>> /\ inFlight \in Seq(Entry)
      BY <1>11 DEF Respond, Waiting, Answer, FlightTracked, IInv, TypeOK
    <3>2. response'.kind # "idle" /\ DOMAIN response'.verdicts \subseteq Ids(inFlight)
      BY <1>11, <3>1, AnswersType DEF Respond
    <3> QED
      BY <2>1, <3>1, <3>2 DEF FlightTracked
  <2> QED
    BY <2>1, <2>2, <2>3, StillAccounted
<1>12. CASE Settle
  BY <1>12, VerifiedAccounted, RetryableAccounted, WholeBatchAccounted DEF Settle
<1>13. CASE TimerFires \/ Tick \/ UNCHANGED vars
  BY <1>6, <1>13 DEF TimerFires, Tick, vars
<1>14. ASSUME NEW b \in BOOLEAN, ConfigureCapture(b) \/ Flush(b)
       PROVE  Accounted' /\ QueueBounded' /\ AttemptsCounted' /\ FlightTracked'
  BY <1>6, <1>14 DEF ConfigureCapture, Flush
<1> HIDE DEF flushing, policy
<1> QED
  BY <1>1, <1>2, <1>3, <1>4, <1>7, <1>8, <1>9, <1>10, <1>11, <1>12, <1>13, <1>14
     DEF Next, Host, Validation

LEMMA InitAccounted == Init => IInv
<1> SUFFICES ASSUME Init PROVE IInv
  OBVIOUS
<1>1. TypeOK
  BY InitType
<1>2. Ids(queue) = {} /\ Ids(inFlight) = {} /\ Gone = {} /\ Returned = {}
  BY DEF Init, Ids, Gone, Returned
<1>3. Accounted
  BY <1>2 DEF Init, Accounted, NoDuplicates
<1>4. QueueBounded
  BY QueueAssumption DEF Init, QueueBounded, Capacity
<1>5. AttemptsCounted
  <2>1. MaxRetries \in Nat
    BY ClientAssumption
  <2> QED
    BY <2>1 DEF Init, AttemptsCounted
<1>6. FlightTracked
  BY <1>2 DEF Init, FlightTracked, Idle, Answer, NoVerdicts
<1> QED
  BY <1>1, <1>3, <1>4, <1>5, <1>6 DEF IInv

LEMMA Invariant == Spec => []IInv
  BY InitAccounted, StepAccounted, PTL DEF Spec

(* Every event whose capture call has returned is in exactly one place:    *)
(* the queue, the batch in flight, or settled for a known reason.          *)
THEOREM NothingLostOrDoubled == Spec => []Accounted
<1>1. IInv => Accounted
  BY DEF IInv
<1> QED
  BY <1>1, Invariant, PTL

(* The retry count stored with an entry is the truth about its sends, and  *)
(* no event is handed to a transport more than MaxRetries + 1 times.       *)
THEOREM RetriesBounded == Spec => []AttemptsCounted
<1>1. IInv => AttemptsCounted
  BY DEF IInv
<1> QED
  BY <1>1, Invariant, PTL

(* The event queue stays within its capacity, requeued batches included. *)
THEOREM QueueWithinCapacity == Spec => []QueueBounded
<1>1. IInv => QueueBounded
  BY DEF IInv
<1> QED
  BY <1>1, Invariant, PTL

(* In every state the operators that the handlers apply to the queue give  *)
(* what the loops of event-queue.ts give.                                  *)
THEOREM QueueOpsAreLoops == Spec => []QueueIsItsLoops
<1>1. IInv => QueueIsItsLoops
  <2> SUFFICES ASSUME IInv PROVE QueueIsItsLoops
    OBVIOUS
  <2>1. /\ queue \in Seq(Entry) /\ inFlight \in Seq(Entry) /\ now \in Nat
        /\ Len(queue) <= Capacity
    BY DEF IInv, TypeOK, QueueBounded
  <2>2. \A nowMs \in now .. now + MaxEventAge + 1 : nowMs \in Nat
    BY <2>1, QueueAssumption
  <2> QED
    BY <2>1, <2>2, QueueMethodsAreLoops DEF QueueIsItsLoops
<1> QED
  BY <1>1, Invariant, PTL

(***************************************************************************)
(* Consent and teardown                                                    *)
(***************************************************************************)

(* Steps after which the queue holds only entries it held before, or       *)
(* retries, and no consent is taken back.                                  *)
LEMMA ConsentKept ==
    ASSUME IInv, UnsentHaveConsent, UNCHANGED consent,
           \A k \in DOMAIN queue' :
              \/ \E i \in DOMAIN queue : queue'[k] = queue[i]
              \/ queue'[k].attempt # 0
    PROVE  UnsentHaveConsent'
  BY DEF UnsentHaveConsent, Allowed

LEMMA EnqueueConsent ==
    ASSUME IInv, UnsentHaveConsent, NEW e \in Event, NEW b, EnqueueNew(e, b),
           e \in Legacy \/ Allowed(e), UNCHANGED consent
    PROVE  UnsentHaveConsent'
<1> DEFINE entry == [id |-> e, at |-> now, attempt |-> 0]
           r == Requeue(queue, <<entry>>)
<1>1. /\ <<entry>> \in Seq(Entry)
      /\ \A i \in DOMAIN <<entry>> : <<entry>>[i] = entry
  BY FreshEntry DEF IInv
<1>2. entry.id = e
  OBVIOUS
<1>3. queue' = r
  BY DEF EnqueueNew, Enqueue
<1> HIDE DEF entry
<1>4. \A k \in DOMAIN r : \/ \E i \in DOMAIN queue : r[k] = queue[i]
                          \/ \E i \in DOMAIN <<entry>> : r[k] = <<entry>>[i]
  BY <1>1, RequeueProperties DEF IInv, TypeOK
<1> HIDE DEF r
<1>5. \A k \in DOMAIN queue' : \/ \E i \in DOMAIN queue : queue'[k] = queue[i]
                               \/ queue'[k].id = e
  BY <1>1, <1>2, <1>3, <1>4
<1> QED
  BY <1>5 DEF UnsentHaveConsent, Allowed

(* Revocation drops the entries of the purposes it denies; consent given   *)
(* to others stays.                                                        *)
LEMMA RevokeConsent ==
    ASSUME IInv, UnsentHaveConsent, NEW P, RevokeSideEffects(P),
           \A p \in Purpose : consent[p] = "granted" /\ p \notin P /\ p # "necessary"
                                => consent'[p] = "granted"
    PROVE  UnsentHaveConsent'
<1>1. queue \in Seq(Entry)
  BY DEF IInv, TypeOK
<1>2. \A k \in DOMAIN queue' : \E i \in DOMAIN queue : queue'[k] = queue[i]
  BY <1>1, RemoveByPurposesProperties DEF RevokeSideEffects
<1>3. Ids(queue') = Ids(queue) \ Revoked(queue, P)
  <2>1. NoDuplicates(queue)
    BY DEF IInv, Accounted
  <2> QED
    BY <1>1, <2>1, RemoveByPurposesProperties DEF RevokeSideEffects
<1> SUFFICES ASSUME NEW k \in DOMAIN queue', queue'[k].attempt = 0,
                    queue'[k].id \notin Legacy
             PROVE  Allowed(queue[k].id)'
  BY DEF UnsentHaveConsent
<1>4. PICK i \in DOMAIN queue : queue'[k] = queue[i]
  BY <1>2
<1>5. Allowed(queue[i].id) /\ queue[i].id \in Event
  BY <1>1, <1>4, EntryOf DEF UnsentHaveConsent
<1>6. PurposeOf[queue[i].id] \notin P
  <2>1. queue'[k].id \in Ids(queue') /\ queue[i].id \in Ids(queue)
    BY DEF Ids
  <2> QED
    BY <1>3, <1>4, <2>1 DEF Revoked
<1>7. PurposeOf[queue[i].id] \in Purpose
  BY <1>5, QueueAssumption
<1> QED
  BY <1>4, <1>5, <1>6, <1>7 DEF Allowed

(* Only legacy calls end without a second look at the consent. *)
LegacyCalls == \A e \in Event : call[e] = "appending" => e \in Legacy

LEMMA LegacyCallsInvariant == Spec => []LegacyCalls
<1>1. Init => LegacyCalls
  BY DEF Init, LegacyCalls
<1>2. TypeOK /\ LegacyCalls /\ [Next]_vars => LegacyCalls'
  BY DEF TypeOK, LegacyCalls, Next, Host, Validation, Settle, vars, CaptureBegin,
         CaptureBuild, CaptureFinish, LegacyBegin, LegacyFinish, SetConsent,
         AdoptExternalConsent, ConfigureCapture, Flush, Destroy, RunFlush, Respond,
         SettleVerified, SettleBeacon, SettleRetryable, SettleFatal, SettleThrown,
         FinishFlush, TimerFires, Tick
<1> QED
  BY <1>1, <1>2, TypeCorrect, PTL DEF Spec

LEMMA StepConsent ==
    IInv /\ LegacyCalls /\ UnsentHaveConsent /\ [Next]_vars => UnsentHaveConsent'
<1> SUFFICES ASSUME IInv, LegacyCalls, UnsentHaveConsent, [Next]_vars
             PROVE  UnsentHaveConsent'
  OBVIOUS
<1> USE DEF policy, flushing
<1>1. CASE UNCHANGED <<queue, consent>>
  BY <1>1 DEF UnsentHaveConsent, Allowed
<1>2. ASSUME NEW e \in Event, CaptureFinish(e)
      PROVE  UnsentHaveConsent'
  BY <1>1, <1>2, EnqueueConsent DEF CaptureFinish
<1>3. ASSUME NEW e \in Event, LegacyFinish(e)
      PROVE  UnsentHaveConsent'
  <2>1. e \in Legacy
    BY <1>3 DEF LegacyFinish, LegacyCalls
  <2> QED
    BY <1>3, <2>1, EnqueueConsent DEF LegacyFinish
<1>4. ASSUME NEW p \in Toggled, NEW s \in {"granted", "denied"}, SetConsent(p, s)
      PROVE  UnsentHaveConsent'
  <2>1. consent \in [Purpose -> ConsentState] /\ p \in Purpose
    BY ClientAssumption DEF IInv, TypeOK
  <2>2. consent' = [consent EXCEPT ![p] = s]
    BY <1>4 DEF SetConsent
  <2>3. CASE s = "denied"
    <3>1. RevokeSideEffects({p})
      BY <1>4, <2>3 DEF SetConsent
    <3>2. \A q \in Purpose : consent[q] = "granted" /\ q \notin {p} /\ q # "necessary"
                               => consent'[q] = "granted"
      BY <2>1, <2>2
    <3> QED
      BY <3>1, <3>2, RevokeConsent
  <2>4. CASE s = "granted"
    <3>1. queue' = queue
      BY <1>4, <2>4 DEF SetConsent
    <3> QED
      BY <2>1, <2>2, <2>4, <3>1 DEF UnsentHaveConsent, Allowed
  <2> QED
    BY <2>3, <2>4
<1>5. ASSUME NEW snapshot \in Snapshots, AdoptExternalConsent(snapshot)
      PROVE  UnsentHaveConsent'
  <2> DEFINE denied == {p \in DOMAIN snapshot \cap {"analytics", "measurement"} :
                          snapshot[p] = "denied"}
  <2>1. /\ \A p \in DOMAIN snapshot : snapshot[p] \in {"granted", "denied"}
        /\ \A p \in Purpose : consent'[p] = IF p \in DOMAIN snapshot
                                            THEN snapshot[p] ELSE consent[p]
    BY <1>5 DEF AdoptExternalConsent, Snapshots
  <2>2. \A p \in Purpose : consent[p] = "granted" /\ p \notin denied /\ p # "necessary"
                             => consent'[p] = "granted"
    BY <2>1 DEF Purpose
  <2>3. CASE denied # {}
    <3>1. RevokeSideEffects(denied)
      BY <1>5, <2>3 DEF AdoptExternalConsent
    <3> HIDE DEF denied
    <3> QED
      BY <2>2, <3>1, RevokeConsent
  <2>4. CASE denied = {}
    <3>1. queue' = queue
      BY <1>5, <2>4 DEF AdoptExternalConsent
    <3>2. ASSUME NEW k \in DOMAIN queue, Allowed(queue[k].id)
          PROVE  Allowed(queue[k].id)'
      <4>1. PurposeOf[queue[k].id] \in Purpose
        BY EntryOf, QueueAssumption DEF IInv, TypeOK
      <4> QED
        BY <2>2, <2>4, <3>1, <3>2, <4>1 DEF Allowed
    <3> QED
      BY <3>1, <3>2 DEF UnsentHaveConsent
  <2> QED
    BY <2>3, <2>4
<1>6. CASE Destroy
  BY <1>6 DEF Destroy, UnsentHaveConsent
<1>7. CASE RunFlush
  <2>1. UNCHANGED consent
    BY <1>7 DEF RunFlush
  <2>2. queue' = queue \/ queue' = Remaining(queue, now)
    BY <1>7 DEF RunFlush
  <2>3. CASE queue' = queue
    BY <2>1, <2>3, ConsentKept
  <2>4. CASE queue' = Remaining(queue, now)
    <3> DEFINE stay == Remaining(queue, now)
    <3>1. \A k \in DOMAIN stay : \E i \in DOMAIN queue : stay[k] = queue[i]
      BY TakeBatchProperties DEF IInv, TypeOK, Accounted
    <3> HIDE DEF stay
    <3> QED
      BY <2>1, <2>4, <3>1, ConsentKept DEF stay
  <2> QED
    BY <2>2, <2>3, <2>4
<1>8. CASE Settle
  <2>1. OnlyRetriesComeIn
    BY <1>8, VerifiedAccounted, RetryableAccounted, WholeBatchAccounted DEF Settle
  <2>2. UNCHANGED consent
    BY <1>8 DEF Settle, SettleVerified, SettleBeacon, SettleRetryable, SettleFatal,
                SettleThrown, FinishFlush
  <2>3. \A i \in DOMAIN inFlight : inFlight[i].attempt \in Nat
    BY EntryOf DEF IInv, TypeOK
  <2>4. ASSUME NEW k \in DOMAIN queue'
        PROVE  \/ \E i \in DOMAIN queue : queue'[k] = queue[i]
               \/ queue'[k].attempt # 0
    BY <2>1, <2>3 DEF OnlyRetriesComeIn
  <2> QED
    BY <2>2, <2>4, ConsentKept
<1> QED
  BY <1>1, <1>2, <1>3, <1>4, <1>5, <1>6, <1>7, <1>8
     DEF Next, Host, Validation, CaptureBegin, CaptureBuild, LegacyBegin,
         ConfigureCapture, Flush, Respond, TimerFires, Tick, vars

(* A captured event that was never sent waits in the queue only while its  *)
(* purpose may be collected, however a revocation interleaves with its     *)
(* validation.                                                             *)
THEOREM UnsentWithConsent == Spec => []UnsentHaveConsent
<1>1. Init => UnsentHaveConsent
  BY DEF Init, UnsentHaveConsent
<1> QED
  BY <1>1, StepConsent, Invariant, LegacyCallsInvariant, PTL DEF Spec

(* destroy() is final: a flush, capture or answer suspended when it was    *)
(* called neither sends nor arms the retry timer.                          *)
THEOREM DestroyIsFinal == Spec => QuietOnceDestroyed
<1> DEFINE Disarmed == destroyed => timer = FALSE
<1>1. Init => Disarmed
  BY DEF Init
<1>2. ASSUME TypeOK, Disarmed, [Next]_vars
      PROVE  (destroyed => sends' = sends /\ timer' = FALSE) /\ Disarmed'
  <2> USE DEF policy, flushing
  <2>1. CASE Host
    <3>1. CASE Destroy
      BY <3>1 DEF Destroy
    <3>2. CASE ~Destroy
      <4>1. UNCHANGED <<sends, destroyed>> /\ timer' \in {timer, FALSE}
        BY <2>1, <3>2 DEF Host, CaptureBegin, LegacyBegin, SetConsent,
           AdoptExternalConsent, ConfigureCapture, Flush, RevokeSideEffects
      <4> QED
        BY <1>2, <4>1, Zenon
    <3> QED
      BY <3>1, <3>2
  <2>2. CASE Validation
    BY <1>2, <2>2 DEF Validation, CaptureBuild, CaptureFinish, LegacyFinish
  <2>3. CASE RunFlush
    BY <1>2, <2>3 DEF RunFlush
  <2>4. CASE Settle
    <3>1. /\ UNCHANGED <<sends, destroyed>>
          /\ \/ timer' = timer
             \/ \E q, r : RequeueAndSchedule(q, r)
      BY <2>4 DEF Settle, SettleVerified, SettleBeacon, SettleRetryable,
                  SettleFatal, SettleThrown, FinishFlush
    <3>2. ASSUME destroyed, NEW q, NEW r, RequeueAndSchedule(q, r)
          PROVE  timer' = timer
      BY <3>2 DEF RequeueAndSchedule
    <3> QED
      BY <1>2, <3>1, <3>2, Zenon
  <2>5. CASE Respond \/ TimerFires \/ Tick \/ UNCHANGED vars
    <3>1. UNCHANGED <<sends, destroyed>> /\ timer' \in {timer, FALSE}
      BY <2>5 DEF Respond, TimerFires, Tick, vars
    <3> QED
      BY <1>2, <3>1, Zenon
  <2> QED
    BY <1>2, <2>1, <2>2, <2>3, <2>4, <2>5 DEF Next
<1> HIDE DEF Disarmed
<1>3. TypeOK /\ Disarmed /\ [Next]_vars
        => [destroyed => sends' = sends /\ timer' = FALSE]_vars /\ Disarmed'
  BY <1>2
<1> QED
  BY <1>1, <1>3, TypeCorrect, PTL DEF Spec, QuietOnceDestroyed

(***************************************************************************)
(* The promise of BestEffortDelivery                                       *)
(***************************************************************************)

(* How a step moves the events, without saying which handler took it.      *)
(* Nothing is sent and nothing joins the batch in flight, or no batch was  *)
(* in flight and one is taken off the queue and sent.                      *)
NothingSent == sends' = sends /\ Ids(inFlight') \subseteq Ids(inFlight)
BatchSent ==
    /\ Ids(inFlight) = {}
    /\ Ids(inFlight') \subseteq Ids(queue)
    /\ sends' = [e \in Event |-> IF e \in Ids(inFlight') THEN sends[e] + 1
                                 ELSE sends[e]]
(* A call runs through validation before it returns, and none is undone.   *)
CallsAdvance ==
    \A e \in Event :
        /\ call[e] = "none" => call'[e] \in {"none", "building", "appending"}
        /\ call[e] # "none" => call'[e] # "none"
        /\ call[e] = "returned" => call'[e] = "returned"
NothingReturns == \A e \in Event : fate[e] # "none" => fate'[e] # "none"

(* Every step of the client is of this form. *)
LEMMA StepShape ==
    ASSUME IInv, [Next]_vars
    PROVE  (NothingSent \/ BatchSent) /\ CallsAdvance /\ NothingReturns
<1> USE DEF policy, flushing
<1>1. call \in [Event -> CallState] /\ fate \in [Event -> Fate]
  BY DEF IInv, TypeOK
<1>2. ASSUME NEW S, NEW f \in Fate \ {"none"}, fate' = Settled(S, f)
      PROVE  NothingReturns
  BY <1>2 DEF NothingReturns, Settled
<1>3. ASSUME fate' = fate PROVE NothingReturns
  BY <1>3 DEF NothingReturns
<1>4. ASSUME UNCHANGED <<sends, inFlight>> PROVE NothingSent
  BY <1>4 DEF NothingSent
<1>5. ASSUME UNCHANGED call PROVE CallsAdvance
  BY <1>5 DEF CallsAdvance
<1>6. ASSUME NEW e \in Event, NEW c \in CallState \ {"none"},
             call' = [call EXCEPT ![e] = c], call[e] # "returned",
             call[e] = "none" => c \in {"building", "appending"}
      PROVE  CallsAdvance
  BY <1>1, <1>6 DEF CallsAdvance
<1>7. ASSUME NEW e \in Event, CaptureBegin(e) \/ LegacyBegin(e)
      PROVE  NothingSent /\ CallsAdvance /\ NothingReturns
  <2>1. UNCHANGED <<sends, inFlight, fate>>
    BY <1>7 DEF CaptureBegin, LegacyBegin
  <2>2. CallsAdvance
    <3>1. \E c \in {"building", "appending"} :
            call[e] = "none" /\ call' = [call EXCEPT ![e] = c]
      BY <1>7 DEF CaptureBegin, LegacyBegin
    <3> QED
      BY <1>6, <3>1 DEF CallState
  <2> QED
    BY <1>3, <1>4, <2>1, <2>2
<1>8. ASSUME NEW e \in Event, CaptureBuild(e) \/ CaptureFinish(e) \/ LegacyFinish(e)
      PROVE  NothingSent /\ CallsAdvance /\ NothingReturns
  <2>1. UNCHANGED <<sends, inFlight>>
    BY <1>8 DEF CaptureBuild, CaptureFinish, LegacyFinish
  <2>2. CallsAdvance
    <3>1. \E c \in {"built", "returned"} :
            /\ call[e] \in {"building", "built", "appending"}
            /\ call' = [call EXCEPT ![e] = c]
      BY <1>8 DEF CaptureBuild, CaptureFinish, LegacyFinish
    <3> QED
      BY <1>6, <3>1 DEF CallState
  <2>3. ASSUME NEW b, EnqueueNew(e, b) PROVE NothingReturns
    BY <1>2, <2>3 DEF EnqueueNew, Fate
  <2>4. NothingReturns
    <3>1. CASE fate' = Settled({e}, "validation-failed")
      BY <1>2, <3>1 DEF Fate
    <3>2. CASE fate' = Settled({e}, "consent-denied")
      BY <1>2, <3>2 DEF Fate
    <3> QED
      BY <1>3, <1>8, <2>3, <3>1, <3>2 DEF CaptureBuild, CaptureFinish, LegacyFinish
  <2> QED
    BY <1>4, <2>1, <2>2, <2>4
<1>9. CASE Host
  <2>1. CASE \E e \in Event : CaptureBegin(e) \/ LegacyBegin(e)
    BY <1>7, <2>1
  <2>2. CASE ~(\E e \in Event : CaptureBegin(e) \/ LegacyBegin(e))
    <3>1. /\ UNCHANGED <<sends, inFlight, call>>
          /\ \/ fate' = fate
             \/ \E P : RevokeSideEffects(P)
             \/ fate' = Settled(Ids(queue), "cleared")
      BY <1>9, <2>2 DEF Host, SetConsent, AdoptExternalConsent, ConfigureCapture,
                        Flush, Destroy
    <3>2. ASSUME NEW P, RevokeSideEffects(P) PROVE NothingReturns
      BY <1>2, <3>2 DEF RevokeSideEffects, Fate
    <3>3. ASSUME fate' = Settled(Ids(queue), "cleared") PROVE NothingReturns
      BY <1>2, <3>3 DEF Fate
    <3> QED
      BY <1>3, <1>4, <1>5, <3>1, <3>2, <3>3
  <2> QED
    BY <2>1, <2>2
<1>10. CASE Validation
  BY <1>8, <1>10 DEF Validation
<1>11. CASE RunFlush
  <2>1. call' = call /\ inFlight = <<>> /\ Ids(inFlight) = {}
    BY <1>11 DEF RunFlush, Ids
  <2>2. CASE destroyed \/ ~sending
    <3>1. UNCHANGED <<sends, inFlight, fate>>
      BY <1>11, <2>2 DEF RunFlush
    <3> QED
      BY <1>3, <1>4, <1>5, <2>1, <3>1
  <2>3. CASE ~(destroyed \/ ~sending)
    <3> DEFINE batch == Batch(queue, now)
    <3>1. fate' = Settled(Expired(queue, now), "event-expired")
      BY <1>11, <2>3 DEF RunFlush
    <3>2. \/ UNCHANGED <<inFlight, sends>>
          \/ /\ inFlight' = batch
             /\ sends' = [e \in Event |-> IF e \in Ids(batch) THEN sends[e] + 1
                                         ELSE sends[e]]
      BY <1>11, <2>3 DEF RunFlush
    <3>3. Ids(batch) \subseteq Ids(queue)
      BY TakeBatchProperties DEF IInv, TypeOK
    <3> HIDE DEF batch
    <3>4. NothingSent \/ BatchSent
      BY <1>4, <2>1, <3>2, <3>3 DEF BatchSent
    <3>5. NothingReturns
      BY <1>2, <3>1 DEF Fate
    <3> QED
      BY <1>5, <2>1, <3>4, <3>5
  <2> QED
    BY <2>2, <2>3
<1>12. CASE Settle
  <2>1. FinishFlush
    BY <1>12 DEF Settle, SettleVerified, SettleBeacon, SettleRetryable,
                 SettleFatal, SettleThrown
  <2>2. inFlight' = <<>> /\ call' = call /\ sends' = sends /\ Ids(inFlight') = {}
    BY <2>1 DEF FinishFlush, Ids
  <2>3. NothingSent
    BY <2>2 DEF NothingSent
  <2>4. NothingReturns
    <3>1. CASE SettleVerified
      BY <3>1 DEF SettleVerified, NothingReturns
    <3>2. CASE SettleRetryable
      BY <3>2 DEF SettleRetryable, NothingReturns
    <3>3. CASE SettleBeacon \/ SettleFatal \/ SettleThrown
      BY <1>2, <3>3 DEF SettleBeacon, SettleFatal, SettleThrown, Fate
    <3> QED
      BY <1>12, <3>1, <3>2, <3>3 DEF Settle
  <2> QED
    BY <1>5, <2>2, <2>3, <2>4
<1>13. CASE Respond \/ TimerFires \/ Tick \/ UNCHANGED vars
  <2>1. UNCHANGED <<sends, inFlight, fate, call>>
    BY <1>13 DEF Respond, TimerFires, Tick, vars
  <2> QED
    BY <1>3, <1>4, <1>5, <2>1
<1> QED
  BY <1>9, <1>10, <1>11, <1>12, <1>13 DEF Next

(* The stage of an event is the place where Accounted has it. *)
StageIsPlace(e) ==
    /\ Stage(e) \in Delivery!Stage
    /\ e \in Gone <=> Stage(e) = "gone"
    /\ e \in Ids(inFlight) <=> Stage(e) = "sending"
    /\ e \in Ids(queue) <=> Stage(e) = "held"
    /\ e \notin Returned /\ call[e] # "none" <=> Stage(e) = "validating"
    /\ call[e] = "none" <=> Stage(e) = "new"
    /\ sends[e] \in 0 .. MaxRetries + 1
    /\ Stage(e) = "held" => sends[e] < MaxRetries + 1

LEMMA StageOf == IInv => \A e \in Event : StageIsPlace(e)
<1> SUFFICES ASSUME IInv, NEW e \in Event PROVE StageIsPlace(e)
  OBVIOUS
<1>1. /\ Ids(queue) \cap Ids(inFlight) = {}
      /\ Ids(queue) \cap Gone = {}
      /\ Ids(inFlight) \cap Gone = {}
      /\ Returned = Ids(queue) \cup Ids(inFlight) \cup Gone
  BY DEF IInv, Accounted
<1>2. (e \in Gone <=> fate[e] # "none") /\ (e \in Returned <=> call[e] = "returned")
  BY DEF Gone, Returned
<1>3. Stage(e) = IF e \in Gone THEN "gone"
                 ELSE IF e \in Ids(inFlight) THEN "sending"
                 ELSE IF e \in Ids(queue) THEN "held"
                 ELSE IF call[e] # "none" THEN "validating" ELSE "new"
  BY <1>2 DEF Stage
<1>4. /\ sends[e] \in Nat /\ sends[e] <= MaxRetries + 1
      /\ MaxRetries \in Nat
  BY ClientAssumption DEF IInv, TypeOK, AttemptsCounted
<1>5. ASSUME e \in Ids(queue) PROVE sends[e] < MaxRetries + 1
  <2>1. PICK i \in DOMAIN queue : queue[i].id = e
    BY <1>5 DEF Ids
  <2>2. sends[e] <= MaxRetries
    BY <2>1 DEF IInv, AttemptsCounted
  <2> QED
    BY <1>4, <2>2
<1>6. sends[e] \in 0 .. MaxRetries + 1
  BY <1>4
<1> QED
  BY <1>1, <1>2, <1>3, <1>5, <1>6 DEF StageIsPlace, Delivery!Stage

LEMMA InitDelivers == Init => Delivery!Init
<1> SUFFICES ASSUME Init PROVE Delivery!Init
  OBVIOUS
<1>1. Ids(queue) = {} /\ Ids(inFlight) = {}
  BY DEF Init, Ids
<1>2. \A e \in Event : Stage(e) = "new"
  BY <1>1 DEF Init, Stage
<1> QED
  BY <1>2 DEF Init, Delivery!Init

(* Each event, seen alone, stays, moves on, is sent or is taken back. *)
LEMMA StepDelivers == IInv /\ IInv' /\ [Next]_vars => Delivery!Next
<1> SUFFICES ASSUME IInv, IInv', [Next]_vars PROVE Delivery!Next
  OBVIOUS
<1>1. (NothingSent \/ BatchSent) /\ CallsAdvance /\ NothingReturns
  BY StepShape
<1>2. sends \in [Event -> Nat] /\ sends' \in [Event -> Nat]
  BY DEF IInv, TypeOK
<1>3. \A e \in Event : StageIsPlace(e) /\ StageIsPlace(e)'
  <2>1. IInv' => (\A e \in Event : StageIsPlace(e))'
    BY StageOf, PTL
  <2> QED
    BY <2>1, StageOf
<1>4. ASSUME NEW e \in Event
      PROVE  \/ Stage(e)' = Stage(e) /\ sends'[e] = sends[e]
             \/ <<Stage(e), Stage(e)'>> \in Delivery!Moves /\ sends'[e] = sends[e]
             \/ /\ Stage(e) = "held" /\ sends[e] < MaxRetries + 1
                /\ Stage(e)' = "sending" /\ sends'[e] = sends[e] + 1
             \/ /\ Stage(e) = "sending" /\ sends[e] < MaxRetries + 1
                /\ Stage(e)' = "held" /\ sends'[e] = sends[e]
  <2> DEFINE s == Stage(e)
             t == Stage(e)'
  <2>1. /\ s \in {"new", "validating", "held", "sending", "gone"}
        /\ t \in {"new", "validating", "held", "sending", "gone"}
        /\ s = "gone" => t = "gone"
        /\ s # "new" => t # "new"
        /\ s \in {"held", "sending"} => t \in {"held", "sending", "gone"}
        /\ s = "new" => t \in {"new", "validating"}
    <3>1. e \in Gone => e \in Gone'
      BY <1>1 DEF Gone, NothingReturns
    <3>2. e \in Returned => e \in Returned'
      BY <1>1 DEF Returned, CallsAdvance
    <3>3. Stage(e) \in {"held", "sending"} => e \in Returned
      <4>1. Returned = Ids(queue) \cup Ids(inFlight) \cup Gone
        BY DEF IInv, Accounted
      <4> QED
        BY <1>3, <4>1 DEF StageIsPlace
    <3>4. call[e] = "none" => call'[e] \in {"none", "building", "appending"}
      BY <1>1 DEF CallsAdvance
    <3>5. call[e] # "none" => call'[e] # "none"
      BY <1>1 DEF CallsAdvance
    <3> QED
      BY <1>3, <3>1, <3>2, <3>3, <3>4, <3>5 DEF StageIsPlace, Returned, Delivery!Stage
  <2>2. CASE NothingSent
    <3>1. sends'[e] = sends[e] /\ (t = "sending" => s = "sending")
      BY <1>3, <2>2 DEF NothingSent, StageIsPlace
    <3>2. t = "held" => sends[e] < MaxRetries + 1
      BY <1>3, <3>1 DEF StageIsPlace
    <3> HIDE DEF s, t
    <3>3. \/ t = s
          \/ <<s, t>> \in Delivery!Moves
          \/ s = "sending" /\ t = "held"
      BY <2>1, <3>1 DEF Delivery!Moves
    <3> QED
      BY <3>1, <3>2, <3>3 DEF s, t
  <2>3. CASE BatchSent
    <3>1. /\ s # "sending"
          /\ t = "sending" => s = "held" /\ sends'[e] = sends[e] + 1
          /\ t # "sending" => sends'[e] = sends[e]
      BY <1>3, <2>3 DEF BatchSent, StageIsPlace
    <3>2. s = "held" => sends[e] < MaxRetries + 1
      BY <1>3 DEF StageIsPlace
    <3> HIDE DEF s, t
    <3>3. t # "sending" => t = s \/ <<s, t>> \in Delivery!Moves
      BY <2>1, <3>1 DEF Delivery!Moves
    <3> QED
      BY <3>1, <3>2, <3>3 DEF s, t
  <2> QED
    BY <1>1, <2>2, <2>3
<1>5. [e \in Event |-> Stage(e)]' \in [Event -> Delivery!Stage]
  BY <1>3 DEF StageIsPlace
<1>6. sends' \in [Event -> 0 .. MaxRetries + 1]
  BY <1>2, <1>3 DEF StageIsPlace
<1> QED
  BY <1>4, <1>5, <1>6 DEF Delivery!Next, Delivery!Stay, Delivery!Move,
                          Delivery!Send, Delivery!TakeBack

(* The client keeps the promise of BestEffortDelivery: an event is held    *)
(* until it is sent, sent at most MaxRetries + 1 times, and once delivered *)
(* or discarded it never comes back, whatever the transport and the host   *)
(* do between the awaits.                                                  *)
THEOREM ClientKeepsPromise == Spec => ImplementsDelivery
<1>1. IInv /\ IInv' /\ [Next]_vars => [Delivery!Next]_(Delivery!vars)
  BY StepDelivers
<1> QED
  BY <1>1, InitDelivers, Invariant, PTL DEF Spec, ImplementsDelivery, Delivery!Spec

(***************************************************************************)
(* No queued event is left behind                                          *)
(***************************************************************************)

(* What the host must grant: a batch can hold the whole queue, and every   *)
(* purpose the host may revoke is the one all events have, so that neither *)
(* a flush nor a revocation leaves entries behind with no timer.           *)
OneBatchOnePurpose ==
    /\ Capacity <= MaxBatchSize
    /\ \A p \in Toggled, e \in Event : PurposeOf[e] = p

(* NotStranded does not survive the end of a flush by itself: the answers  *)
(* that schedule nothing rely on what was pending while the batch was out. *)
(* So the flush or the timer has to be there in every state.               *)
ComesForQueue ==
    queue # <<>> /\ sending /\ ~destroyed => timer \/ flushChain # <<>>

(* A queue no longer than a batch is emptied by one takeBatch(). *)
LEMMA NothingRemains ==
    ASSUME NEW q \in Seq(Entry), NEW t \in Nat, Len(q) <= MaxBatchSize
    PROVE  Remaining(q, t) = <<>>
<1> DEFINE live == Live(q, t)
<1>1. live \subseteq 1 .. Len(q) /\ Len(q) \in Nat /\ MaxBatchSize \in Nat
  BY QueueAssumption DEF Live
<1>2. IsFiniteSet(live) /\ Cardinality(live) <= Len(q) /\ Cardinality(live) \in Nat
  <2>1. IsFiniteSet(1 .. Len(q)) /\ Cardinality(1 .. Len(q)) = Len(q)
    <3> DEFINE n == Len(q)
    <3>1. 1 \in Int /\ n \in Int /\ n \in Nat
      BY <1>1
    <3> HIDE DEF n
    <3>2. /\ IsFiniteSet(1 .. n)
          /\ Cardinality(1 .. n) = IF 1 > n THEN 0 ELSE n - 1 + 1
      BY <3>1, FS_Interval
    <3>3. IsFiniteSet(1 .. n) /\ Cardinality(1 .. n) = n
      BY <3>1, <3>2
    <3> QED
      BY <3>3 DEF n
  <2> HIDE DEF live
  <2> QED
    BY <1>1, <2>1, FS_Subset, FS_CardinalityType
<1> HIDE DEF live
<1>3. ASSUME NEW i \in live
      PROVE  Cardinality({j \in live : j <= i}) <= MaxBatchSize
  <2> DEFINE S == {j \in live : j <= i}
  <2>1. S \subseteq live
    OBVIOUS
  <2> HIDE DEF S
  <2>2. Cardinality(S) <= Cardinality(live) /\ Cardinality(S) \in Nat
    BY <1>2, <2>1, FS_Subset, FS_CardinalityType
  <2>3. Cardinality(S) <= MaxBatchSize
    BY <1>1, <1>2, <2>2
  <2> QED
    BY <2>3 DEF S
<1>4. live \ Taken(q, t) = {}
  BY <1>3 DEF Taken, live
<1>5. {} \in SUBSET DOMAIN q /\ Remaining(q, t) = At(q, {})
  BY <1>4 DEF Remaining, live
<1> QED
  BY <1>5, AtIds

(* Revoking the only purpose there is empties the queue. *)
LEMMA AllRevoked ==
    ASSUME NEW q \in Seq(Entry), NEW P, \A e \in Event : PurposeOf[e] \in P
    PROVE  RemoveByPurposes(q, P) = <<>>
<1>1. {i \in DOMAIN q : PurposeOf[q[i].id] \notin P} = {}
  BY EntryOf
<1>2. {} \in SUBSET DOMAIN q /\ RemoveByPurposes(q, P) = At(q, {})
  BY <1>1 DEF RemoveByPurposes
<1> QED
  BY <1>2, AtIds

LEMMA RequeueOfNothing == Requeue(<<>>, <<>>) = <<>>
<1>1. Excess(<<>>, <<>>) = 0
  BY QueueAssumption DEF Excess, Capacity
<1>2. Requeue(<<>>, <<>>) = SubSeq(<<>> \o <<>>, 1, 0)
  BY <1>1 DEF Requeue
<1> QED
  BY <1>2

(* What an answer puts back has the timer, or nothing was put back. *)
LEMMA ScheduledOrSame ==
    ASSUME NEW q, NEW retries, RequeueAndSchedule(q, retries),
           ~destroyed, queue' # <<>>
    PROVE  timer' \/ (retries = <<>> /\ q # <<>> /\ timer' = timer)
<1>1. CASE retries # <<>>
  BY <1>1 DEF RequeueAndSchedule
<1>2. CASE retries = <<>>
  BY <1>2, RequeueOfNothing DEF RequeueAndSchedule
<1> QED
  BY <1>1, <1>2

LEMMA StepComes ==
    ASSUME OneBatchOnePurpose, IInv, ComesForQueue, [Next]_vars,
           queue' # <<>>, sending', ~destroyed'
    PROVE  timer' \/ flushChain' # <<>>
<1> USE DEF policy, flushing
<1>1. queue \in Seq(Entry) /\ now \in Nat /\ flushChain \in Seq(BOOLEAN)
  BY DEF IInv, TypeOK
<1>2. ASSUME NEW b PROVE Append(flushChain, b) # <<>>
  BY <1>1
<1>3. ASSUME UNCHANGED <<queue, sending, destroyed, timer, flushChain>>
      PROVE  timer' \/ flushChain' # <<>>
  BY <1>3 DEF ComesForQueue
<1>4. ASSUME NEW P, RevokeSideEffects(P), \A e \in Event : PurposeOf[e] \in P
      PROVE  FALSE
  BY <1>1, <1>4, AllRevoked DEF RevokeSideEffects
<1>5. CASE Host
  <2>1. ASSUME NEW e \in Event, CaptureBegin(e) \/ LegacyBegin(e)
        PROVE  timer' \/ flushChain' # <<>>
    BY <1>3, <2>1 DEF CaptureBegin, LegacyBegin
  <2>2. ASSUME NEW p \in Toggled, NEW s \in {"granted", "denied"}, SetConsent(p, s)
        PROVE  timer' \/ flushChain' # <<>>
    <3>1. \A e \in Event : PurposeOf[e] \in {p}
      BY DEF OneBatchOnePurpose
    <3> QED
      BY <1>3, <1>4, <2>2, <3>1 DEF SetConsent
  <2>3. ASSUME NEW snapshot \in Snapshots, AdoptExternalConsent(snapshot)
        PROVE  timer' \/ flushChain' # <<>>
    <3> DEFINE denied == {p \in DOMAIN snapshot \cap {"analytics", "measurement"} :
                            snapshot[p] = "denied"}
    <3>1. DOMAIN snapshot \subseteq Toggled
      BY DEF Snapshots
    <3>2. denied # {} => \A e \in Event : PurposeOf[e] \in denied
      BY <3>1 DEF OneBatchOnePurpose
    <3>3. IF denied # {} THEN RevokeSideEffects(denied)
          ELSE UNCHANGED <<queue, fate, timer, response>>
      BY <2>3 DEF AdoptExternalConsent
    <3>4. UNCHANGED <<sending, destroyed, flushChain>>
      BY <2>3 DEF AdoptExternalConsent
    <3> HIDE DEF denied
    <3> QED
      BY <1>3, <1>4, <3>2, <3>3, <3>4
  <2>4. ASSUME NEW b \in BOOLEAN, ConfigureCapture(b) \/ Flush(b)
        PROVE  timer' \/ flushChain' # <<>>
    <3>1. CASE ConfigureCapture(b)
      <4>1. b /\ ~destroyed
        BY <3>1, Zenon DEF ConfigureCapture
      <4>2. flushChain' = Append(flushChain, FALSE)
        BY <3>1, <4>1, Zenon DEF ConfigureCapture
      <4> QED
        BY <1>2, <4>2
    <3>2. CASE Flush(b)
      BY <1>2, <3>2 DEF Flush
    <3> QED
      BY <2>4, <3>1, <3>2
  <2>5. CASE Destroy
    BY <2>5 DEF Destroy
  <2> QED
    BY <1>5, <2>1, <2>2, <2>3, <2>4, <2>5 DEF Host
<1>6. CASE Validation
  <2>1. ASSUME NEW e \in Event, CaptureBuild(e)
        PROVE  timer' \/ flushChain' # <<>>
    BY <1>3, <2>1 DEF CaptureBuild
  <2>2. ASSUME NEW e, NEW b, EnqueueNew(e, b), b
        PROVE  flushChain' # <<>>
    BY <1>2, <2>2 DEF EnqueueNew
  <2>3. ASSUME NEW e \in Event, CaptureFinish(e)
        PROVE  timer' \/ flushChain' # <<>>
    BY <1>3, <2>2, <2>3 DEF CaptureFinish
  <2>4. ASSUME NEW e \in Event, LegacyFinish(e)
        PROVE  timer' \/ flushChain' # <<>>
    BY <2>2, <2>4 DEF LegacyFinish
  <2> QED
    BY <1>6, <2>1, <2>3, <2>4 DEF Validation
<1>7. CASE RunFlush
  <2>1. ~(destroyed \/ ~sending)
    BY <1>7 DEF RunFlush
  <2>2. queue' = Remaining(queue, now)
    BY <1>7, <2>1 DEF RunFlush
  <2>3. Len(queue) <= MaxBatchSize
    <3>1. /\ Len(queue) <= Capacity /\ Capacity <= MaxBatchSize
          /\ Len(queue) \in Nat /\ Capacity \in Nat /\ MaxBatchSize \in Nat
      BY <1>1, QueueAssumption DEF IInv, QueueBounded, OneBatchOnePurpose, Capacity
    <3> QED
      BY <3>1
  <2> QED
    BY <1>1, <2>2, <2>3, NothingRemains
<1>8. CASE Settle
  <2>1. FinishFlush
    BY <1>8 DEF Settle, SettleVerified, SettleBeacon, SettleRetryable,
                SettleFatal, SettleThrown
  <2>2. sending /\ ~destroyed
    BY <2>1 DEF FinishFlush
  <2>3. CASE SettleVerified
    <3> DEFINE retries == Again(With("transient")) \o Again(Uncovered)
               rest == RemoveByIds(queue, With("accepted"))
    <3>1. /\ RequeueAndSchedule(rest, retries)
          /\ retries = <<>> /\ rest # <<>>
               => flushChain' = Append(flushChain, unloading)
      BY <2>3 DEF SettleVerified
    <3> HIDE DEF retries, rest
    <3> QED
      BY <1>2, <2>2, <3>1, ScheduledOrSame
  <2>4. CASE SettleRetryable
    <3> DEFINE retries == Retried(DOMAIN inFlight \ Exhausted)
    <3>1. RequeueAndSchedule(queue, retries) /\ flushChain' = flushChain
      BY <2>4 DEF SettleRetryable
    <3> HIDE DEF retries
    <3> QED
      BY <2>2, <3>1, ScheduledOrSame DEF ComesForQueue
  <2>5. CASE SettleBeacon
    <3>1. /\ queue' = RemoveByIds(queue, Ids(inFlight))
          /\ UNCHANGED <<timer, flushChain>>
      BY <2>5 DEF SettleBeacon
    <3>2. queue # <<>>
      <4>1. SUFFICES ASSUME queue = <<>> PROVE queue' = <<>>
        OBVIOUS
      <4>2. /\ {i \in DOMAIN queue : queue[i].id \notin Ids(inFlight)} = {}
            /\ {} \in SUBSET DOMAIN queue
        BY <4>1
      <4>3. queue' = At(queue, {})
        BY <3>1, <4>2 DEF RemoveByIds
      <4> QED
        BY <1>1, <4>2, <4>3, AtIds
    <3> QED
      BY <2>2, <3>1, <3>2 DEF ComesForQueue
  <2>6. CASE SettleFatal \/ SettleThrown
    BY <1>3, <2>2, <2>6 DEF SettleFatal, SettleThrown, FinishFlush
  <2> QED
    BY <1>8, <2>3, <2>4, <2>5, <2>6 DEF Settle
<1>9. CASE TimerFires
  BY <1>2, <1>9 DEF TimerFires
<1>10. CASE Respond \/ Tick \/ UNCHANGED vars
  BY <1>3, <1>10 DEF Respond, Tick, vars
<1> QED
  BY <1>5, <1>6, <1>7, <1>8, <1>9, <1>10 DEF Next

(* While sending is enabled, no queued event is without a flush or a timer *)
(* that will come for it, whatever the answers were, on a host that grants *)
(* OneBatchOnePurpose.                                                     *)
THEOREM NoneStranded ==
    ASSUME OneBatchOnePurpose
    PROVE  Spec => []NotStranded
<1>1. Init => ComesForQueue
  BY DEF Init, ComesForQueue
<1>2. IInv /\ ComesForQueue /\ [Next]_vars => ComesForQueue'
  <2> SUFFICES ASSUME IInv, ComesForQueue, [Next]_vars,
                      queue' # <<>>, sending', ~destroyed'
               PROVE  timer' \/ flushChain' # <<>>
    BY DEF ComesForQueue
  <2> QED
    BY StepComes
<1>3. ComesForQueue => NotStranded
  BY DEF ComesForQueue, NotStranded
<1> QED
  BY <1>1, <1>2, <1>3, Invariant, PTL DEF Spec
=============================================================================
