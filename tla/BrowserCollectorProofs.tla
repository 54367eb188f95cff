------------------------ MODULE BrowserCollectorProofs ------------------------
(***************************************************************************)
(* Proofs about BrowserCollector: types, what an answer says of the store, *)
(* who is told to be the first, and the bound of the limiter, for any      *)
(* requests, batches, limits, windows and failures.                        *)
(***************************************************************************)
EXTENDS BrowserCollector, FiniteSetTheorems, TLAPS

(***************************************************************************)
(* Types                                                                   *)
(***************************************************************************)
Label == {"new"} \cup Busy \cup Answered
Judging == {"items", "compare", "judge"}
Storing == {"accept", "append"}

(* How far a request is in its batch and in what it stores of it. *)
Placed(r) ==
    /\ pc[r] = "new" => outcomes[r] = <<>> /\ envelopes[r] = <<>> /\ admitted[r] = Never
    /\ pc[r] \in {"new"} \cup Judging => stored[r] = <<>>
    /\ pc[r] = "items" => Len(outcomes[r]) <= Len(body[r])
    /\ pc[r] \in {"compare", "judge"} => Len(outcomes[r]) < Len(body[r])
    /\ pc[r] \in Storing => /\ Len(outcomes[r]) = Len(body[r])
                            /\ Len(stored[r]) <= Len(envelopes[r])
    /\ pc[r] = "append" => Len(stored[r]) < Len(envelopes[r])
    /\ pc[r] = "outcomes" => Len(outcomes[r]) = Len(body[r])

(* An event is at most once among the envelopes of a request. *)
Distinct(r) ==
    /\ \A j, k \in 1 .. Len(envelopes[r]) :
         envelopes[r][j].id = envelopes[r][k].id => j = k
    /\ pc[r] = "judge" => PriorInBatch(r) = {}

TypeInv == TypeOK /\ \A r \in Request : Placed(r) /\ Distinct(r)

LEMMA Labels ==
    /\ Label = {"new", "items", "compare", "judge", "accept", "append", "outcomes",
                "storage-error", "refused", "rate-limited", "too-large"}
    /\ Busy = Judging \cup Storing
    /\ Outcome = {"new", "duplicate", "conflict", "invalid", "storage-error"}
  BY DEF Label, Busy, Answered, Judging, Storing, Outcome

LEMMA PcTyped == TypeInv => pc \in [Request -> Label]
  BY DEF TypeInv, TypeOK, Label

LEMMA AgainstIs ==
    ASSUME NEW p, NEW q
    PROVE  /\ Against(p, q) \in {"duplicate", "conflict"}
           /\ Against(p, q) = "duplicate" <=> p = q
  BY DEF Against

(* What the sequences of a request hold. *)
LEMMA Sequenced ==
    ASSUME TypeInv, NEW r \in Request
    PROVE  /\ body[r] \in Seq(Item) /\ envelopes[r] \in Seq(Item)
           /\ outcomes[r] \in Seq(Outcome) /\ stored[r] \in Seq(Outcome)
           /\ Len(body[r]) \in Nat /\ Len(envelopes[r]) \in Nat
           /\ Len(outcomes[r]) \in Nat /\ Len(stored[r]) \in Nat
           /\ \A i \in 1 .. Len(body[r]) : body[r][i] \in Item
           /\ \A k \in 1 .. Len(envelopes[r]) : envelopes[r][k] \in Item
           /\ Len(outcomes[r]) < Len(body[r]) => Current(r) \in Item
           /\ Len(stored[r]) < Len(envelopes[r]) => Envelope(r) \in Item
  <1>1. body[r] \in Seq(Item)
    <2>1. body[r] \in Body \cup {<<>>}
      BY DEF TypeInv, TypeOK
    <2>2. Body \subseteq Seq(Item) /\ <<>> \in Seq(Item)
      BY CollectorAssumption
    <2> QED BY <2>1, <2>2
  <1>2. envelopes[r] \in Seq(Item) /\ outcomes[r] \in Seq(Outcome)
        /\ stored[r] \in Seq(Outcome)
    BY DEF TypeInv, TypeOK
  <1>3. /\ Len(body[r]) \in Nat /\ Len(envelopes[r]) \in Nat
        /\ Len(outcomes[r]) \in Nat /\ Len(stored[r]) \in Nat
    BY <1>1, <1>2
  <1>4. /\ \A i \in 1 .. Len(body[r]) : body[r][i] \in Item
        /\ \A k \in 1 .. Len(envelopes[r]) : envelopes[r][k] \in Item
    BY <1>1, <1>2
  <1>5. Len(outcomes[r]) < Len(body[r]) => Current(r) \in Item
    BY <1>3, <1>4 DEF Current
  <1>6. Len(stored[r]) < Len(envelopes[r]) => Envelope(r) \in Item
    BY <1>3, <1>4 DEF Envelope
  <1> QED BY <1>1, <1>2, <1>3, <1>4, <1>5, <1>6

LEMMA ItemsAre ==
    ASSUME NEW item \in Item
    PROVE  item.id \in Event /\ item.payload \in Payload /\ item.payload # NoEnvelope
  BY CollectorAssumption DEF Item

(* Where the request of an action may stand. *)
LEMMA Places ==
    ASSUME TypeInv, NEW r \in Request
    PROVE  /\ pc[r] = "items" /\ ~AllJudged(r) => Len(outcomes[r]) < Len(body[r])
           /\ pc[r] = "accept" /\ ~AllStored(r) => Len(stored[r]) < Len(envelopes[r])
           /\ DOMAIN envelopes[r] = 1 .. Len(envelopes[r])
           /\ DOMAIN stored[r] = 1 .. Len(stored[r])
           /\ DOMAIN body[r] = 1 .. Len(body[r])
  BY Sequenced DEF TypeInv, Placed, AllJudged, AllStored, Storing

(* A request changes what is its own, and nothing of the others. *)
Others(r) ==
    \A s \in Request \ {r} :
        /\ pc'[s] = pc[s] /\ body'[s] = body[s] /\ outcomes'[s] = outcomes[s]
        /\ envelopes'[s] = envelopes[s] /\ read'[s] = read[s] /\ stored'[s] = stored[s]
        /\ admitted'[s] = admitted[s]

LEMMA OthersStay ==
    ASSUME TypeInv, NEW r \in Request,
           \/ Refuse(r) \/ Limit(r) \/ (\E b \in Body : Admit(r, b)) \/ Handle(r)
    PROVE  Others(r)
  <1> USE DEF limiter, request, Goto, Extend, Others, TypeInv, TypeOK
  <1>1. CASE Refuse(r) \/ Limit(r)
    BY <1>1 DEF Refuse, Limit
  <1>2. ASSUME NEW b \in Body, Admit(r, b) PROVE Others(r)
    BY <1>2 DEF Admit
  <1>3. CASE Prepare(r)
    BY <1>3 DEF Prepare, Conclude
  <1>4. CASE Compare(r)
    BY <1>4 DEF Compare, Conclude
  <1>5. CASE Judge(r)
    BY <1>5 DEF Judge, Conclude
  <1>6. CASE Submit(r)
    BY <1>6 DEF Submit
  <1>7. CASE TakeEnvelope(r)
    BY <1>7 DEF TakeEnvelope
  <1>8. CASE StoreEnvelope(r)
    BY <1>8 DEF StoreEnvelope
  <1>9. CASE AcceptBatch(r)
    BY <1>9 DEF AcceptBatch
  <1>10. CASE AcceptFails(r)
    BY <1>10 DEF AcceptFails
  <1>11. CASE Answer(r)
    BY <1>11 DEF Answer
  <1> QED BY <1>1, <1>2, <1>3, <1>4, <1>5, <1>6, <1>7, <1>8, <1>9, <1>10, <1>11
          DEF Handle

LEMMA OwnPlaceSuffices ==
    ASSUME TypeInv, NEW r \in Request, Others(r), Placed(r)', Distinct(r)'
    PROVE  \A s \in Request : Placed(s)' /\ Distinct(s)'
  <1> SUFFICES ASSUME NEW s \in Request \ {r} PROVE Placed(s)' /\ Distinct(s)'
    OBVIOUS
  <1>1. Placed(s)'
    BY DEF TypeInv, Others, Placed, Never
  <1>2. PriorInBatch(s)' = PriorInBatch(s)
    BY DEF Others, PriorInBatch, Current
  <1>3. Distinct(s)'
    BY <1>2 DEF TypeInv, Others, Distinct
  <1> QED BY <1>1, <1>3

LEMMA TypeInit == Init => TypeInv
  <1> SUFFICES ASSUME Init PROVE TypeInv
    OBVIOUS
  <1>1. /\ Never \in 0 .. Never /\ now \in 0 .. MaxNow /\ failures \in 0 .. MaxFailures
        /\ bucket \in [count : 0 .. maxRequests, resetAt : Nat]
    BY CollectorAssumption DEF Init, Never
  <1>2. <<>> \in Seq(Outcome) /\ <<>> \in Seq(Item)
    OBVIOUS
  <1>3. TypeOK
    BY <1>1, <1>2 DEF Init, TypeOK, Stored
  <1>4. \A r \in Request : Placed(r) /\ Distinct(r)
    BY DEF Init, Placed, Distinct, Judging, Storing
  <1> QED BY <1>3, <1>4 DEF TypeInv

(* An outcome, and on to the next item. *)
LEMMA Concluded ==
    ASSUME TypeInv, NEW r \in Request, NEW o \in Outcome, Conclude(r, o),
           Len(outcomes[r]) < Len(body[r])
    PROVE  /\ outcomes' \in [Request -> Seq(Outcome)]
           /\ Len(outcomes'[r]) = Len(outcomes[r]) + 1
           /\ outcomes'[r][Len(outcomes[r]) + 1] = o
           /\ \A i \in 1 .. Len(outcomes[r]) : outcomes'[r][i] = outcomes[r][i]
           /\ pc' \in [Request -> Label] /\ pc'[r] = "items"
           /\ read' \in [Request -> Stored] /\ read'[r] = NoEnvelope
  <1>1. /\ outcomes \in [Request -> Seq(Outcome)] /\ outcomes[r] \in Seq(Outcome)
        /\ read \in [Request -> Stored] /\ NoEnvelope \in Stored
    BY DEF TypeInv, TypeOK, Stored
  <1>2. /\ outcomes' = [outcomes EXCEPT ![r] = Append(outcomes[r], o)]
        /\ Append(outcomes[r], o) \in Seq(Outcome)
    BY <1>1 DEF Conclude, Extend
  <1>3. outcomes'[r] = Append(outcomes[r], o) /\ outcomes' \in [Request -> Seq(Outcome)]
    BY <1>1, <1>2
  <1>4. /\ Len(outcomes'[r]) = Len(outcomes[r]) + 1
        /\ outcomes'[r][Len(outcomes[r]) + 1] = o
        /\ \A i \in 1 .. Len(outcomes[r]) : outcomes'[r][i] = outcomes[r][i]
    BY <1>1, <1>3
  <1>5. pc' \in [Request -> Label] /\ pc'[r] = "items"
    BY PcTyped, Labels DEF Conclude, Goto
  <1>6. read' \in [Request -> Stored] /\ read'[r] = NoEnvelope
    BY <1>1 DEF Conclude
  <1> QED BY <1>3, <1>4, <1>5, <1>6

(* One more outcome of acceptBatch(). *)
LEMMA StoredOne ==
    ASSUME TypeInv, NEW r \in Request, NEW o \in Outcome, stored' = Extend(stored, r, o)
    PROVE  /\ stored' \in [Request -> Seq(Outcome)]
           /\ Len(stored'[r]) = Len(stored[r]) + 1
           /\ stored'[r][Len(stored[r]) + 1] = o
           /\ \A i \in 1 .. Len(stored[r]) : stored'[r][i] = stored[r][i]
  <1>1. stored \in [Request -> Seq(Outcome)] /\ stored[r] \in Seq(Outcome)
    BY DEF TypeInv, TypeOK
  <1>2. /\ stored' = [stored EXCEPT ![r] = Append(stored[r], o)]
        /\ Append(stored[r], o) \in Seq(Outcome)
    BY <1>1 DEF Extend
  <1>3. stored'[r] = Append(stored[r], o) /\ stored' \in [Request -> Seq(Outcome)]
    BY <1>1, <1>2
  <1> QED BY <1>1, <1>3

LEMMA FoundTyped ==
    ASSUME TypeInv, NEW e \in Event
    PROVE  Found(e) \in Stored
  BY DEF Found, Stored, TypeInv, TypeOK

(* Nothing but its place changes. *)
LEMMA EntryTyped ==
    ASSUME TypeInv, NEW r \in Request, Refuse(r) \/ Limit(r)
    PROVE  TypeInv'
  <1> USE DEF limiter, request, host
  <1>1. /\ pc' \in [Request -> Label] /\ pc'[r] \in {"refused", "rate-limited"}
        /\ pc[r] = "new"
    BY PcTyped, Labels DEF Refuse, Limit, Goto
  <1>2. TypeOK'
    BY <1>1 DEF Refuse, Limit, TypeInv, TypeOK, Label
  <1>3. Placed(r)' /\ Distinct(r)'
    BY <1>1 DEF Refuse, Limit, TypeInv, Placed, Distinct, Judging, Storing
  <1> QED BY <1>2, <1>3, OthersStay, OwnPlaceSuffices DEF TypeInv

LEMMA AdmitTyped ==
    ASSUME TypeInv, NEW r \in Request, NEW b \in Body, Admit(r, b)
    PROVE  TypeInv'
  <1> USE DEF host
  <1>1. b \in Seq(Item) /\ Len(b) \in Nat
    BY CollectorAssumption
  <1>2. /\ pc' \in [Request -> Label] /\ pc'[r] \in {"items", "too-large"}
        /\ pc[r] = "new"
    BY PcTyped, Labels DEF Admit, Goto
  <1>3. /\ body' \in [Request -> Body \cup {<<>>}] /\ body'[r] = b
    BY DEF Admit, TypeInv, TypeOK
  <1>4. /\ maxRequests \in Nat \ {0} /\ now \in Nat /\ Window \in Nat
        /\ bucket.count \in 0 .. maxRequests /\ bucket.resetAt \in Nat
        /\ bucket \in [count : 0 .. maxRequests, resetAt : Nat]
    BY CollectorAssumption DEF TypeInv, TypeOK
  <1>5. bucket' \in [count : 0 .. maxRequests, resetAt : Nat]
    <2>1. CASE now >= bucket.resetAt
      BY <1>4, <2>1 DEF Admit, Counted
    <2>2. CASE ~(now >= bucket.resetAt)
      <3>1. bucket.count < maxRequests
        BY <2>2 DEF Admit, Allowed
      <3>2. bucket' = [bucket EXCEPT !.count = bucket.count + 1]
        BY <2>2 DEF Admit, Counted
      <3> QED BY <1>4, <3>1, <3>2
    <2> QED BY <2>1, <2>2
  <1>6. admitted' \in [Request -> 0 .. Never]
    BY CollectorAssumption DEF Admit, TypeInv, TypeOK, Never
  <1>7. TypeOK'
    BY <1>2, <1>3, <1>5, <1>6 DEF Admit, TypeInv, TypeOK, Label
  <1>8. Placed(r)' /\ Distinct(r)'
    BY <1>1, <1>2, <1>3 DEF Admit, TypeInv, Placed, Distinct, Judging, Storing
  <1> QED BY <1>7, <1>8, OthersStay, OwnPlaceSuffices DEF TypeInv

(* A look at the store. *)
LEMMA Looked ==
    ASSUME TypeInv, NEW r \in Request, NEW label \in Label, Goto(r, label),
           Len(outcomes[r]) < Len(body[r]),
           read' = [read EXCEPT ![r] = Found(Current(r).id)]
    PROVE  /\ read' \in [Request -> Stored] /\ read'[r] = Found(Current(r).id)
           /\ pc' \in [Request -> Label] /\ pc'[r] = label
  <1>1. Found(Current(r).id) \in Stored
    BY Sequenced, ItemsAre, FoundTyped
  <1>2. read \in [Request -> Stored] /\ pc \in [Request -> Label]
    BY PcTyped DEF TypeInv, TypeOK
  <1> QED BY <1>1, <1>2 DEF Goto

(* The steps between the items. *)
LEMMA PrepareTyped ==
    ASSUME TypeInv, NEW r \in Request, Prepare(r)
    PROVE  TypeInv'
  <1> USE DEF host, limiter
  <1>1. /\ pc[r] = "items" /\ Len(outcomes[r]) < Len(body[r])
        /\ UNCHANGED <<body, envelopes, stored>>
    BY Places DEF Prepare
  <1>2. /\ outcomes' \in [Request -> Seq(Outcome)] /\ read' \in [Request -> Stored]
        /\ pc' \in [Request -> Label]
        /\ \/ pc'[r] = "compare" /\ outcomes'[r] = outcomes[r]
           \/ pc'[r] = "items" /\ Len(outcomes'[r]) = Len(outcomes[r]) + 1
    <2>1. CASE Current(r).fit
      <3>1. /\ read' = [read EXCEPT ![r] = Found(Current(r).id)]
            /\ Goto(r, "compare") /\ UNCHANGED outcomes
        BY <2>1 DEF Prepare
      <3>2. "compare" \in Label /\ outcomes \in [Request -> Seq(Outcome)]
        BY Labels DEF TypeInv, TypeOK
      <3> QED BY <1>1, <3>1, <3>2, Looked
    <2>2. CASE ~Current(r).fit
      <3>1. Conclude(r, "invalid") /\ "invalid" \in Outcome
        BY <2>2, Labels DEF Prepare
      <3> QED BY <1>1, <3>1, Concluded
    <2> QED BY <2>1, <2>2
  <1>3. TypeOK'
    BY <1>1, <1>2 DEF Prepare, TypeInv, TypeOK, Label
  <1>4. Placed(r)'
    BY <1>1, <1>2, Sequenced DEF TypeInv, Placed, Judging, Storing
  <1>5. Distinct(r)'
    BY <1>1, <1>2 DEF TypeInv, Distinct
  <1> QED BY <1>3, <1>4, <1>5, OthersStay, OwnPlaceSuffices DEF TypeInv, Handle

(* What the second look can come to. *)
LEMMA Compared ==
    ASSUME NEW r \in Request, Compare(r)
    PROVE  \/ /\ read[r] \notin {NoEnvelope, Current(r).payload}
              /\ Conclude(r, "conflict")
           \/ /\ read[r] \in {NoEnvelope, Current(r).payload}
              /\ \E i \in PriorInBatch(r) :
                   Conclude(r, Against(envelopes[r][i].payload, Current(r).payload))
           \/ /\ read[r] \in {NoEnvelope, Current(r).payload} /\ PriorInBatch(r) = {}
              /\ read' = [read EXCEPT ![r] = Found(Current(r).id)]
              /\ Goto(r, "judge") /\ UNCHANGED outcomes
  BY DEF Compare

LEMMA CompareTyped ==
    ASSUME TypeInv, NEW r \in Request, Compare(r)
    PROVE  TypeInv'
  <1> USE DEF host, limiter
  <1>1. /\ pc[r] = "compare" /\ Len(outcomes[r]) < Len(body[r])
        /\ UNCHANGED <<body, envelopes, stored>>
    BY DEF Compare, TypeInv, Placed
  <1>2. ASSUME NEW o \in Outcome, Conclude(r, o)
        PROVE  /\ outcomes' \in [Request -> Seq(Outcome)] /\ read' \in [Request -> Stored]
               /\ pc' \in [Request -> Label] /\ pc'[r] = "items"
               /\ Len(outcomes'[r]) = Len(outcomes[r]) + 1
    BY <1>1, <1>2, Concluded
  <1>3. ASSUME PriorInBatch(r) = {}, UNCHANGED outcomes, Goto(r, "judge"),
               read' = [read EXCEPT ![r] = Found(Current(r).id)]
        PROVE  /\ outcomes' \in [Request -> Seq(Outcome)] /\ read' \in [Request -> Stored]
               /\ pc' \in [Request -> Label] /\ pc'[r] = "judge"
    <2>1. "judge" \in Label /\ outcomes \in [Request -> Seq(Outcome)]
      BY Labels DEF TypeInv, TypeOK
    <2> QED BY <1>1, <1>3, <2>1, Looked
  <1>4. /\ outcomes' \in [Request -> Seq(Outcome)] /\ read' \in [Request -> Stored]
        /\ pc' \in [Request -> Label]
        /\ \/ pc'[r] = "items" /\ Len(outcomes'[r]) = Len(outcomes[r]) + 1
           \/ pc'[r] = "judge" /\ outcomes'[r] = outcomes[r] /\ PriorInBatch(r) = {}
    BY <1>2, <1>3, Compared, AgainstIs, Labels
  <1>5. TypeOK'
    BY <1>1, <1>4 DEF Compare, TypeInv, TypeOK, Label
  <1>6. Placed(r)'
    <2>1. /\ stored'[r] = <<>> /\ body'[r] = body[r]
          /\ Len(outcomes[r]) \in Nat /\ Len(body[r]) \in Nat
      BY <1>1, Sequenced DEF TypeInv, Placed, Judging
    <2>2. CASE pc'[r] = "items" /\ Len(outcomes'[r]) = Len(outcomes[r]) + 1
      BY <1>1, <2>1, <2>2 DEF Placed, Judging, Storing
    <2>3. CASE pc'[r] = "judge" /\ outcomes'[r] = outcomes[r]
      BY <1>1, <2>1, <2>3 DEF Placed, Judging, Storing
    <2> QED BY <1>4, <2>2, <2>3
  <1>7. Distinct(r)'
    BY <1>1, <1>4 DEF TypeInv, Distinct, PriorInBatch, Current
  <1> QED BY <1>5, <1>6, <1>7, OthersStay, OwnPlaceSuffices DEF TypeInv, Handle

(* The outcome after the second look. *)
LEMMA JudgedAs ==
    ASSUME NEW r \in Request, Judge(r)
    PROVE  \/ /\ read[r] # NoEnvelope /\ UNCHANGED envelopes
              /\ Conclude(r, Against(read[r], Current(r).payload))
           \/ /\ read[r] = NoEnvelope /\ Conclude(r, "new")
              /\ envelopes' = Extend(envelopes, r, Current(r))
  BY DEF Judge

LEMMA EnvelopeAdded ==
    ASSUME TypeInv, NEW r \in Request, pc[r] = "judge",
           envelopes' = Extend(envelopes, r, Current(r))
    PROVE  /\ envelopes' \in [Request -> Seq(Item)]
           /\ Len(envelopes'[r]) = Len(envelopes[r]) + 1
           /\ envelopes'[r][Len(envelopes[r]) + 1] = Current(r)
           /\ \A k \in 1 .. Len(envelopes[r]) :
                envelopes'[r][k] = envelopes[r][k] /\ envelopes[r][k].id # Current(r).id
  <1>1. /\ envelopes \in [Request -> Seq(Item)] /\ envelopes[r] \in Seq(Item)
        /\ Current(r) \in Item
    BY Sequenced DEF TypeInv, TypeOK, Placed
  <1>2. /\ envelopes' = [envelopes EXCEPT ![r] = Append(envelopes[r], Current(r))]
        /\ Append(envelopes[r], Current(r)) \in Seq(Item)
    BY <1>1 DEF Extend
  <1>3. /\ envelopes'[r] = Append(envelopes[r], Current(r))
        /\ envelopes' \in [Request -> Seq(Item)]
    BY <1>1, <1>2
  <1>4. \A k \in 1 .. Len(envelopes[r]) : envelopes[r][k].id # Current(r).id
    BY Places DEF TypeInv, Distinct, PriorInBatch
  <1> QED BY <1>1, <1>3, <1>4

LEMMA JudgeTyped ==
    ASSUME TypeInv, NEW r \in Request, Judge(r)
    PROVE  TypeInv'
  <1> USE DEF host, limiter
  <1>1. /\ pc[r] = "judge" /\ Len(outcomes[r]) < Len(body[r])
        /\ UNCHANGED <<body, stored>>
    BY DEF Judge, TypeInv, Placed
  <1>2. \E o \in Outcome : Conclude(r, o)
    BY JudgedAs, AgainstIs, Labels
  <1>3. /\ outcomes' \in [Request -> Seq(Outcome)] /\ read' \in [Request -> Stored]
        /\ pc' \in [Request -> Label] /\ pc'[r] = "items"
        /\ Len(outcomes'[r]) = Len(outcomes[r]) + 1
    BY <1>1, <1>2, Concluded
  <1>4. /\ envelopes' \in [Request -> Seq(Item)]
        /\ \A j, k \in 1 .. Len(envelopes'[r]) :
             envelopes'[r][j].id = envelopes'[r][k].id => j = k
    <2>1. CASE UNCHANGED envelopes
      BY <2>1 DEF TypeInv, TypeOK, Distinct
    <2>2. CASE envelopes' = Extend(envelopes, r, Current(r))
      <3>1. Len(envelopes[r]) \in Nat
        BY Sequenced
      <3>2. \A j, k \in 1 .. Len(envelopes[r]) :
              envelopes[r][j].id = envelopes[r][k].id => j = k
        BY DEF TypeInv, Distinct
      <3>3. PICK n \in Nat : n = Len(envelopes[r]) + 1
        BY <3>1
      <3>4. /\ envelopes' \in [Request -> Seq(Item)]
            /\ Len(envelopes'[r]) = n /\ envelopes'[r][n] = Current(r)
            /\ \A k \in 1 .. Len(envelopes[r]) :
                 envelopes'[r][k] = envelopes[r][k] /\ envelopes[r][k].id # Current(r).id
        BY <1>1, <2>2, <3>3, EnvelopeAdded
      <3>5. 1 .. n = (1 .. Len(envelopes[r])) \cup {n}
        BY <3>1, <3>3
      <3>6. ASSUME NEW j \in 1 .. n, NEW k \in 1 .. n,
                   envelopes'[r][j].id = envelopes'[r][k].id
            PROVE  j = k
        <4>1. CASE j = n \/ k = n
          BY <3>4, <3>5, <3>6, <4>1
        <4>2. CASE j # n /\ k # n
          <5>1. j \in 1 .. Len(envelopes[r]) /\ k \in 1 .. Len(envelopes[r])
            BY <3>5, <4>2
          <5>2. envelopes[r][j].id = envelopes[r][k].id
            BY <3>4, <3>6, <5>1
          <5> QED BY <3>2, <5>1, <5>2
        <4> QED BY <4>1, <4>2
      <3> QED BY <3>4, <3>6
    <2> QED BY <2>1, <2>2, JudgedAs
  <1>5. TypeOK'
    BY <1>1, <1>3, <1>4 DEF Judge, TypeInv, TypeOK, Label
  <1>6. Placed(r)'
    BY <1>1, <1>3, Sequenced DEF TypeInv, Placed, Judging, Storing
  <1>7. Distinct(r)'
    BY <1>3, <1>4 DEF Distinct
  <1> QED BY <1>5, <1>6, <1>7, OthersStay, OwnPlaceSuffices DEF TypeInv, Handle

LEMMA SubmitTyped ==
    ASSUME TypeInv, NEW r \in Request, Submit(r)
    PROVE  TypeInv'
  <1> USE DEF host, limiter, request
  <1>1. /\ pc[r] = "items" /\ Len(outcomes[r]) = Len(body[r])
        /\ pc' \in [Request -> Label] /\ pc'[r] \in {"outcomes", "accept"}
    BY PcTyped, Labels DEF Submit, Goto, AllJudged
  <1>2. TypeOK'
    BY <1>1 DEF Submit, TypeInv, TypeOK, Label
  <1>3. Placed(r)'
    BY <1>1, Sequenced DEF Submit, TypeInv, Placed, Judging, Storing
  <1>4. Distinct(r)'
    BY <1>1 DEF Submit, TypeInv, Distinct
  <1> QED BY <1>2, <1>3, <1>4, OthersStay, OwnPlaceSuffices DEF TypeInv, Handle

(* In memory, the look at batchPayloadHashById finds nothing: the handler  *)
(* has sorted out repeated events before.                                  *)
LEMMA NoneEarlier ==
    ASSUME TypeInv, NEW r \in Request, Len(stored[r]) < Len(envelopes[r])
    PROVE  Earlier(r) = {}
  <1>1. Len(stored[r]) \in Nat /\ Len(envelopes[r]) \in Nat
        /\ DOMAIN stored[r] = 1 .. Len(stored[r])
    BY Sequenced, Places
  <1>2. ASSUME NEW k \in 1 .. Len(stored[r]), envelopes[r][k].id = Envelope(r).id
        PROVE  FALSE
    BY <1>1, <1>2 DEF TypeInv, Distinct, Envelope
  <1> QED BY <1>1, <1>2 DEF Earlier

LEMMA TakeTyped ==
    ASSUME TypeInv, NEW r \in Request, TakeEnvelope(r)
    PROVE  TypeInv'
  <1> USE DEF host, limiter
  <1>1. /\ pc[r] = "accept" /\ Len(stored[r]) < Len(envelopes[r])
        /\ UNCHANGED <<body, outcomes, envelopes, stored>>
        /\ read' = [read EXCEPT ![r] = store[Envelope(r).id]] /\ Goto(r, "append")
    BY Places, NoneEarlier DEF TakeEnvelope
  <1>2. Envelope(r).id \in Event
    BY <1>1, Sequenced, ItemsAre
  <1>3. /\ read' \in [Request -> Stored] /\ pc' \in [Request -> Label]
        /\ pc'[r] = "append"
    BY <1>1, <1>2, PcTyped, Labels DEF Goto, TypeInv, TypeOK
  <1>4. TypeOK'
    BY <1>1, <1>3 DEF TakeEnvelope, TypeInv, TypeOK, Label
  <1>5. Placed(r)'
    BY <1>1, <1>3 DEF TypeInv, Placed, Judging, Storing
  <1>6. Distinct(r)'
    BY <1>1, <1>3 DEF TypeInv, Distinct
  <1> QED BY <1>4, <1>5, <1>6, OthersStay, OwnPlaceSuffices DEF TypeInv, Handle

(* What append() comes to. *)
LEMMA Appended ==
    ASSUME TypeInv, NEW r \in Request, StoreEnvelope(r), NEW e, e = Envelope(r)
    PROVE  \/ /\ read[r] # NoEnvelope /\ UNCHANGED store
              /\ stored' = Extend(stored, r, Against(read[r], e.payload))
           \/ /\ read[r] = NoEnvelope /\ store[e.id] # NoEnvelope /\ UNCHANGED store
              /\ stored' = Extend(stored, r, Against(store[e.id], e.payload))
           \/ /\ read[r] = NoEnvelope /\ store[e.id] = NoEnvelope
              /\ store' = [store EXCEPT ![e.id] = e.payload]
              /\ stored' = Extend(stored, r, "new")
  BY DEF StoreEnvelope

LEMMA StoreTyped ==
    ASSUME TypeInv, NEW r \in Request, StoreEnvelope(r)
    PROVE  TypeInv'
  <1> USE DEF host, limiter
  <1>1. /\ pc[r] = "append" /\ Len(stored[r]) < Len(envelopes[r])
        /\ UNCHANGED <<body, outcomes, envelopes>>
    BY DEF StoreEnvelope, TypeInv, Placed
  <1>2. PICK e : e = Envelope(r)
    OBVIOUS
  <1>3. e \in Item /\ e.id \in Event /\ e.payload \in Payload
    BY <1>1, <1>2, Sequenced, ItemsAre
  <1>4. store' \in [Event -> Stored]
    <2>1. UNCHANGED store \/ store' = [store EXCEPT ![e.id] = e.payload]
      BY <1>2, Appended
    <2>2. store \in [Event -> Stored] /\ e.payload \in Stored
      BY <1>3 DEF TypeInv, TypeOK, Stored
    <2> QED BY <1>3, <2>1, <2>2
  <1>5. \E o \in Outcome : stored' = Extend(stored, r, o)
    BY <1>2, Appended, AgainstIs, Labels
  <1>6. /\ stored' \in [Request -> Seq(Outcome)]
        /\ Len(stored'[r]) = Len(stored[r]) + 1
    BY <1>5, StoredOne
  <1>7. /\ read' \in [Request -> Stored] /\ pc' \in [Request -> Label]
        /\ pc'[r] = "accept"
    BY PcTyped, Labels DEF StoreEnvelope, Goto, TypeInv, TypeOK, Stored
  <1>8. TypeOK'
    BY <1>1, <1>4, <1>6, <1>7 DEF StoreEnvelope, TypeInv, TypeOK, Label
  <1>9. Placed(r)'
    BY <1>1, <1>6, <1>7, Sequenced DEF TypeInv, Placed, Judging, Storing
  <1>10. Distinct(r)'
    BY <1>1, <1>7 DEF TypeInv, Distinct
  <1> QED BY <1>8, <1>9, <1>10, OthersStay, OwnPlaceSuffices DEF TypeInv, Handle

(* What a batch puts into the store at once. *)
LEMMA TakenIs ==
    ASSUME TypeInv, NEW r \in Request, Taken(r)
    PROVE  /\ store' \in [Event -> Stored]
           /\ \A e \in Event : store[e] # NoEnvelope => store'[e] = store[e]
           /\ \A k \in 1 .. Len(envelopes[r]) :
                store[envelopes[r][k].id] = NoEnvelope
                  => store'[envelopes[r][k].id] = envelopes[r][k].payload
           /\ \A e \in Event :
                \/ store'[e] = store[e]
                \/ \E k \in 1 .. Len(envelopes[r]) : envelopes[r][k].id = e
  <1>1. PICK new : /\ new = {item \in Item : store[item.id] = NoEnvelope
                              /\ \E i \in DOMAIN envelopes[r] : envelopes[r][i] = item}
                   /\ store' = [e \in Event |->
                        IF \E item \in new : item.id = e
                        THEN (CHOOSE item \in new : item.id = e).payload ELSE store[e]]
    BY DEF Taken
  <1>2. \A item \in new :
          /\ item \in Item /\ store[item.id] = NoEnvelope
          /\ \E k \in 1 .. Len(envelopes[r]) : envelopes[r][k] = item
    BY <1>1, Places
  <1>3. \A k \in 1 .. Len(envelopes[r]) :
          store[envelopes[r][k].id] = NoEnvelope => envelopes[r][k] \in new
    BY <1>1, Places, Sequenced
  <1>4. \A e \in Event :
          (\E item \in new : item.id = e)
            => \E item \in new : item.id = e /\ store'[e] = item.payload
    BY <1>1
  <1>5. \A e \in Event : ~(\E item \in new : item.id = e) => store'[e] = store[e]
    BY <1>1
  <1>6. store' \in [Event -> Stored]
    <2>1. store \in [Event -> Stored] /\ DOMAIN store' = Event
          /\ store' = [e \in Event |-> store'[e]]
      BY <1>1 DEF TypeInv, TypeOK
    <2>2. \A e \in Event : store'[e] \in Stored
      BY <1>2, <1>4, <1>5, <2>1, ItemsAre DEF Stored
    <2> QED BY <2>1, <2>2
  <1>7. \A e \in Event : store[e] # NoEnvelope => store'[e] = store[e]
    BY <1>2, <1>5
  <1>8. ASSUME NEW k \in 1 .. Len(envelopes[r]), store[envelopes[r][k].id] = NoEnvelope
        PROVE  store'[envelopes[r][k].id] = envelopes[r][k].payload
    <2>1. envelopes[r][k] \in new /\ envelopes[r][k].id \in Event
      BY <1>3, <1>8, Sequenced, ItemsAre
    <2>2. PICK item \in new : item.id = envelopes[r][k].id
                              /\ store'[envelopes[r][k].id] = item.payload
      BY <1>4, <2>1
    <2>3. PICK j \in 1 .. Len(envelopes[r]) : envelopes[r][j] = item
      BY <1>2
    <2>4. j = k
      BY <2>2, <2>3 DEF TypeInv, Distinct
    <2> QED BY <2>2, <2>3, <2>4
  <1>9. \A e \in Event : \/ store'[e] = store[e]
                         \/ \E k \in 1 .. Len(envelopes[r]) : envelopes[r][k].id = e
    BY <1>2, <1>5
  <1> QED BY <1>6, <1>7, <1>8, <1>9

LEMMA AcceptedAs ==
    ASSUME TypeInv, NEW r \in Request, AcceptBatch(r)
    PROVE  /\ stored' \in [Request -> Seq(Outcome)]
           /\ Len(stored'[r]) = Len(envelopes[r])
           /\ \A k \in 1 .. Len(envelopes[r]) :
                stored'[r][k] = IF store[envelopes[r][k].id] = NoEnvelope THEN "new"
                                ELSE Against(store[envelopes[r][k].id],
                                             envelopes[r][k].payload)
  <1>1. PICK s : /\ s = [i \in 1 .. Len(envelopes[r]) |->
                          IF store[envelopes[r][i].id] = NoEnvelope THEN "new"
                          ELSE Against(store[envelopes[r][i].id], envelopes[r][i].payload)]
                 /\ stored' = [stored EXCEPT ![r] = s]
    BY Places DEF AcceptBatch
  <1>2. s \in Seq(Outcome) /\ Len(s) = Len(envelopes[r])
    <2>1. \A i \in 1 .. Len(envelopes[r]) : s[i] \in Outcome
      BY <1>1, AgainstIs, Labels
    <2>2. s \in [1 .. Len(envelopes[r]) -> Outcome] /\ Len(envelopes[r]) \in Nat
      BY <1>1, <2>1, Sequenced
    <2> QED BY <2>2
  <1>3. stored'[r] = s /\ stored' \in [Request -> Seq(Outcome)]
    BY <1>1, <1>2 DEF TypeInv, TypeOK
  <1> QED BY <1>1, <1>2, <1>3

LEMMA AcceptTyped ==
    ASSUME TypeInv, NEW r \in Request, AcceptBatch(r)
    PROVE  TypeInv'
  <1> USE DEF host, limiter
  <1>1. /\ pc[r] = "accept" /\ Taken(r)
        /\ UNCHANGED <<pc, body, outcomes, envelopes>>
    BY DEF AcceptBatch
  <1>2. /\ store' \in [Event -> Stored] /\ stored' \in [Request -> Seq(Outcome)]
        /\ Len(stored'[r]) = Len(envelopes[r])
    BY <1>1, TakenIs, AcceptedAs
  <1>3. TypeOK'
    BY <1>1, <1>2 DEF AcceptBatch, TypeInv, TypeOK
  <1>4. Placed(r)'
    BY <1>1, <1>2, Sequenced DEF TypeInv, Placed, Judging, Storing
  <1>5. Distinct(r)'
    BY <1>1 DEF TypeInv, Distinct
  <1> QED BY <1>3, <1>4, <1>5, OthersStay, OwnPlaceSuffices DEF TypeInv, Handle

LEMMA FailTyped ==
    ASSUME TypeInv, NEW r \in Request, AcceptFails(r)
    PROVE  TypeInv'
  <1> USE DEF host, limiter
  <1>1. /\ pc' \in [Request -> Label] /\ pc'[r] = "storage-error"
    BY PcTyped, Labels DEF AcceptFails, Goto
  <1>2. store' \in [Event -> Stored]
    BY TakenIs DEF AcceptFails, TypeInv, TypeOK
  <1>3. /\ envelopes' \in [Request -> Seq(Item)] /\ envelopes'[r] = <<>>
    BY DEF AcceptFails, TypeInv, TypeOK
  <1>4. failures' \in 0 .. MaxFailures
    BY CollectorAssumption DEF AcceptFails, TypeInv, TypeOK
  <1>5. TypeOK'
    BY <1>1, <1>2, <1>3, <1>4 DEF AcceptFails, TypeInv, TypeOK, Label
  <1>6. Placed(r)' /\ Distinct(r)'
    BY <1>1, <1>3 DEF Placed, Distinct, Judging, Storing
  <1> QED BY <1>5, <1>6, OthersStay, OwnPlaceSuffices DEF TypeInv, Handle

(* The merge: what acceptBatch() says of an item stands. *)
LEMMA MergedAs ==
    ASSUME TypeInv, NEW r \in Request, pc[r] = "accept", AllStored(r),
           NEW i \in 1 .. Len(body[r])
    PROVE  /\ outcomes[r][i] \notin Accepted => MergedOutcome(r, i) = outcomes[r][i]
           /\ \A k \in 1 .. Len(envelopes[r]) :
                outcomes[r][i] \in Accepted /\ envelopes[r][k].id = body[r][i].id
                  => MergedOutcome(r, i) = stored[r][k]
           /\ \/ outcomes[r][i] \notin Accepted
              \/ \E k \in 1 .. Len(envelopes[r]) : envelopes[r][k].id = body[r][i].id
              \/ MergedOutcome(r, i) = "storage-error"
  <1>1. DOMAIN stored[r] = 1 .. Len(envelopes[r]) /\ Len(envelopes[r]) \in Nat
    BY Places, Sequenced DEF AllStored
  <1>2. ASSUME NEW k \in 1 .. Len(envelopes[r]), outcomes[r][i] \in Accepted,
               envelopes[r][k].id = body[r][i].id
        PROVE  MergedOutcome(r, i) = stored[r][k]
    <2>1. PICK same : same = {j \in DOMAIN stored[r] :
                                envelopes[r][j].id = body[r][i].id}
      OBVIOUS
    <2>2. same = {k}
      BY <1>1, <1>2, <2>1 DEF TypeInv, Distinct
    <2>3. (CHOOSE j \in same : \A m \in same : m <= j) = k
      BY <1>1, <2>2
    <2> QED BY <1>2, <2>1, <2>2, <2>3 DEF MergedOutcome
  <1>3. ASSUME outcomes[r][i] \in Accepted,
               ~(\E k \in 1 .. Len(envelopes[r]) : envelopes[r][k].id = body[r][i].id)
        PROVE  MergedOutcome(r, i) = "storage-error"
    BY <1>1, <1>3 DEF MergedOutcome
  <1> QED BY <1>2, <1>3 DEF MergedOutcome

LEMMA AnsweredAs ==
    ASSUME TypeInv, NEW r \in Request, Answer(r)
    PROVE  /\ outcomes' \in [Request -> Seq(Outcome)]
           /\ Len(outcomes'[r]) = Len(body[r])
           /\ \A i \in 1 .. Len(body[r]) : outcomes'[r][i] = MergedOutcome(r, i)
  <1>1. /\ pc[r] = "accept" /\ AllStored(r) /\ Len(outcomes[r]) = Len(body[r])
        /\ Len(stored[r]) = Len(envelopes[r])
    BY DEF Answer, TypeInv, Placed, Storing, AllStored
  <1>2. /\ \A i \in 1 .. Len(body[r]) : outcomes[r][i] \in Outcome
        /\ \A k \in 1 .. Len(envelopes[r]) : stored[r][k] \in Outcome
    BY <1>1, Sequenced
  <1>3. \A i \in 1 .. Len(body[r]) : MergedOutcome(r, i) \in Outcome
    BY <1>1, <1>2, MergedAs, Labels
  <1>4. PICK s : /\ s = [i \in 1 .. Len(body[r]) |-> MergedOutcome(r, i)]
                 /\ outcomes' = [outcomes EXCEPT ![r] = s]
    BY Places DEF Answer
  <1>5. s \in Seq(Outcome) /\ Len(s) = Len(body[r])
    <2>1. s \in [1 .. Len(body[r]) -> Outcome] /\ Len(body[r]) \in Nat
      BY <1>3, <1>4, Sequenced
    <2> QED BY <2>1
  <1>6. outcomes'[r] = s /\ outcomes' \in [Request -> Seq(Outcome)]
    BY <1>4, <1>5 DEF TypeInv, TypeOK
  <1> QED BY <1>4, <1>5, <1>6

LEMMA AnswerTyped ==
    ASSUME TypeInv, NEW r \in Request, Answer(r)
    PROVE  TypeInv'
  <1> USE DEF host, limiter
  <1>1. /\ outcomes' \in [Request -> Seq(Outcome)]
        /\ Len(outcomes'[r]) = Len(body[r])
    BY AnsweredAs
  <1>2. pc' \in [Request -> Label] /\ pc'[r] = "outcomes"
    BY PcTyped, Labels DEF Answer, Goto
  <1>3. /\ envelopes' \in [Request -> Seq(Item)] /\ envelopes'[r] = <<>>
        /\ stored' \in [Request -> Seq(Outcome)]
    BY DEF Answer, TypeInv, TypeOK
  <1>4. TypeOK'
    BY <1>1, <1>2, <1>3 DEF Answer, TypeInv, TypeOK, Label
  <1>5. Placed(r)' /\ Distinct(r)'
    BY <1>1, <1>2, <1>3 DEF Answer, Placed, Distinct, Judging, Storing
  <1> QED BY <1>4, <1>5, OthersStay, OwnPlaceSuffices DEF TypeInv, Handle

LEMMA TypeStep == TypeInv /\ [Next]_vars => TypeInv'
  <1> SUFFICES ASSUME TypeInv, [Next]_vars PROVE TypeInv'
    OBVIOUS
  <1>1. CASE UNCHANGED vars
    BY <1>1 DEF vars, host, limiter, request, TypeInv, TypeOK, Placed, Distinct,
                PriorInBatch, Current
  <1>2. CASE Tick
    <2>1. now' \in 0 .. MaxNow
      BY <1>2, CollectorAssumption DEF Tick, TypeInv, TypeOK
    <2> QED BY <1>2, <2>1 DEF Tick, host, request, TypeInv, TypeOK, Placed, Distinct,
                             PriorInBatch, Current
  <1> QED BY <1>1, <1>2, EntryTyped, AdmitTyped, PrepareTyped, CompareTyped, JudgeTyped,
             SubmitTyped, TakeTyped, StoreTyped, AcceptTyped, FailTyped, AnswerTyped
          DEF Next, Handle

(* Every variable keeps its type, and no request looks past its batch. *)
THEOREM TypeCorrect == Spec => []TypeOK
  <1>1. TypeInv => TypeOK
    BY DEF TypeInv
  <1> QED BY <1>1, TypeInit, TypeStep, PTL DEF Spec

(***************************************************************************)
(* Why the answers will be true                                            *)
(***************************************************************************)

(* The envelope of the batch with the event of item i, if it has one.      *)
Has(r, i) == \E k \in 1 .. Len(envelopes[r]) : envelopes[r][k].id = body[r][i].id
(* An earlier item says something else of the same event.                  *)
Contradicted(r, i) ==
    \E j \in 1 .. i - 1 :
        body[r][j].id = body[r][i].id /\ body[r][j].payload # body[r][i].payload

(* What the outcome of an item rests on before anything is stored: an      *)
(* envelope of this batch with the same payload, or what lookup has seen.  *)
Settled(r, i) ==
    LET item == body[r][i]
        o == outcomes[r][i]
    IN  /\ o # "storage-error"
        /\ o = "new" => Has(r, i)
        /\ o \in Accepted /\ Has(r, i) =>
             \A k \in 1 .. Len(envelopes[r]) :
                 envelopes[r][k].id = item.id => envelopes[r][k].payload = item.payload
        /\ o \in Accepted /\ ~Has(r, i) => lookup /\ store[item.id] = item.payload
        /\ o = "conflict" => \/ store[item.id] \notin {NoEnvelope, item.payload}
                             \/ Has(r, i) /\ Contradicted(r, i)

(* What the last get() returned is still there. *)
ReadTrue(r) ==
    /\ pc[r] \in {"compare", "judge"} /\ read[r] # NoEnvelope =>
         lookup /\ store[Current(r).id] = read[r]
    /\ pc[r] = "append" /\ read[r] # NoEnvelope => store[Envelope(r).id] = read[r]

(* An envelope that is about to be added has not been accepted before. *)
FirstOfBatch(r) ==
    pc[r] = "judge" /\ read[r] = NoEnvelope =>
        \A i \in 1 .. Len(outcomes[r]) :
            body[r][i].id = Current(r).id => outcomes[r][i] \notin Accepted

(* Envelopes are items that have been judged. *)
FromBody(r) ==
    \A k \in 1 .. Len(envelopes[r]) :
        \E j \in 1 .. Len(outcomes[r]) : body[r][j] = envelopes[r][k]

(* What acceptBatch() has said so far. *)
StoredTrue(r) ==
    \A k \in 1 .. Len(stored[r]) :
        LET e == envelopes[r][k] IN
        /\ stored[r][k] \in {"new", "duplicate", "conflict"}
        /\ stored[r][k] \in Accepted => store[e.id] = e.payload
        /\ stored[r][k] = "conflict" => store[e.id] \notin {NoEnvelope, e.payload}

(* What the answer says of item i. *)
AnswerTrue(r, i) ==
    LET item == body[r][i]
        o == outcomes[r][i]
    IN  /\ o \in Accepted \cup {"storage-error"} => store[item.id] = item.payload
        /\ o = "conflict" => /\ store[item.id] # NoEnvelope
                             /\ store[item.id] # item.payload \/ Contradicted(r, i)

Truth(r) ==
    /\ pc[r] \in Busy =>
         /\ \A i \in 1 .. Len(outcomes[r]) : Settled(r, i)
         /\ FromBody(r)
    /\ ReadTrue(r)
    /\ FirstOfBatch(r)
    /\ pc[r] \in Storing => StoredTrue(r)
    /\ pc[r] = "outcomes" => \A i \in 1 .. Len(body[r]) : AnswerTrue(r, i)

TruthInv == \A r \in Request : Truth(r)

(* What is stored stays. *)
Grows ==
    /\ lookup' = lookup
    /\ \A e \in Event : store[e] # NoEnvelope => store'[e] = store[e]

(* The events of the items and the envelopes of a request. *)
LEMMA EventsOf ==
    ASSUME TypeInv, NEW r \in Request
    PROVE  /\ \A i \in 1 .. Len(body[r]) :
                /\ body[r][i].id \in Event /\ body[r][i].payload \in Payload
                /\ body[r][i].payload # NoEnvelope
           /\ \A k \in 1 .. Len(envelopes[r]) :
                /\ envelopes[r][k].id \in Event /\ envelopes[r][k].payload \in Payload
                /\ envelopes[r][k].payload # NoEnvelope
           /\ Len(outcomes[r]) < Len(body[r]) => Current(r).id \in Event
           /\ Len(stored[r]) < Len(envelopes[r]) => Envelope(r).id \in Event
           /\ pc[r] \in Busy => Len(outcomes[r]) <= Len(body[r])
  <1>1. pc[r] \in Busy => Len(outcomes[r]) <= Len(body[r])
    BY Sequenced, Labels DEF TypeInv, Placed, Judging, Storing
  <1> QED BY <1>1, Sequenced, ItemsAre

(* A settled item stays settled while its envelopes stay. *)
LEMMA SettledStays ==
    ASSUME TypeInv, NEW r \in Request, Grows, NEW i \in 1 .. Len(body[r]), Settled(r, i),
           body'[r] = body[r], envelopes'[r] = envelopes[r],
           outcomes'[r][i] = outcomes[r][i]
    PROVE  Settled(r, i)'
  <1>1. body[r][i].id \in Event /\ body[r][i].payload # NoEnvelope
    BY EventsOf
  <1>2. (Has(r, i)' <=> Has(r, i)) /\ (Contradicted(r, i)' <=> Contradicted(r, i))
    BY DEF Has, Contradicted
  <1> QED BY <1>1, <1>2 DEF Settled, Grows

LEMMA StoredStays ==
    ASSUME TypeInv, NEW r \in Request, Grows, StoredTrue(r), pc[r] \in Storing,
           envelopes'[r] = envelopes[r],
           NEW k \in 1 .. Len(stored[r]), stored'[r][k] = stored[r][k]
    PROVE  LET e == envelopes'[r][k] IN
           /\ stored'[r][k] \in {"new", "duplicate", "conflict"}
           /\ stored'[r][k] \in Accepted => store'[e.id] = e.payload
           /\ stored'[r][k] = "conflict" => store'[e.id] \notin {NoEnvelope, e.payload}
  <1>1. Len(stored[r]) \in Nat /\ Len(envelopes[r]) \in Nat
        /\ Len(stored[r]) <= Len(envelopes[r])
    BY Sequenced DEF TypeInv, Placed
  <1>2. PICK e : e = envelopes[r][k]
    OBVIOUS
  <1>3. e.id \in Event /\ e.payload # NoEnvelope
    BY <1>1, <1>2, EventsOf
  <1> QED BY <1>2, <1>3 DEF StoredTrue, Grows

LEMMA AnswerStays ==
    ASSUME TypeInv, NEW r \in Request, Grows, NEW i \in 1 .. Len(body[r]), AnswerTrue(r, i),
           body'[r] = body[r], outcomes'[r] = outcomes[r]
    PROVE  AnswerTrue(r, i)'
  <1>1. body[r][i].id \in Event /\ body[r][i].payload # NoEnvelope
    BY EventsOf
  <1>2. Contradicted(r, i)' <=> Contradicted(r, i)
    BY DEF Contradicted
  <1> QED BY <1>1, <1>2 DEF AnswerTrue, Grows

(* A request that another one passes by. *)
LEMMA TruthStays ==
    ASSUME TypeInv, NEW r \in Request, Truth(r), Grows,
           pc'[r] = pc[r], body'[r] = body[r], outcomes'[r] = outcomes[r],
           envelopes'[r] = envelopes[r], read'[r] = read[r], stored'[r] = stored[r]
    PROVE  Truth(r)'
  <1>1. Current(r)' = Current(r) /\ Envelope(r)' = Envelope(r)
    BY DEF Current, Envelope
  <1>2. pc[r] \in Busy => /\ \A i \in 1 .. Len(outcomes'[r]) : Settled(r, i)'
                          /\ FromBody(r)'
    <2>1. ASSUME pc[r] \in Busy, NEW i \in 1 .. Len(outcomes[r]) PROVE Settled(r, i)'
      <3>1. i \in 1 .. Len(body[r])
        BY <2>1, EventsOf, Sequenced
      <3> QED BY <2>1, <3>1, SettledStays DEF Truth
    <2> QED BY <2>1 DEF Truth, FromBody
  <1>3. ReadTrue(r)'
    <2>1. /\ pc[r] \in {"compare", "judge"} => Current(r).id \in Event
          /\ pc[r] = "append" => Envelope(r).id \in Event
      BY EventsOf DEF TypeInv, Placed
    <2> QED BY <1>1, <2>1 DEF Truth, ReadTrue, Grows
  <1>4. FirstOfBatch(r)'
    BY <1>1 DEF Truth, FirstOfBatch
  <1>5. pc[r] \in Storing => StoredTrue(r)'
    <2>1. ASSUME pc[r] \in Storing PROVE StoredTrue(r)'
      BY <2>1, StoredStays DEF Truth, StoredTrue
    <2> QED BY <2>1
  <1>6. pc[r] = "outcomes" => \A i \in 1 .. Len(body'[r]) : AnswerTrue(r, i)'
    BY AnswerStays DEF Truth
  <1> QED BY <1>2, <1>3, <1>4, <1>5, <1>6 DEF Truth

(* Only the store of a request changes what the others rely on, and only   *)
(* by adding to it.                                                        *)
LEMMA StoreGrows ==
    ASSUME TypeInv, NEW r \in Request,
           \/ Refuse(r) \/ Limit(r) \/ (\E b \in Body : Admit(r, b)) \/ Handle(r)
    PROVE  Grows
  <1> USE DEF host, Grows
  <1>1. CASE Refuse(r) \/ Limit(r) \/ \E b \in Body : Admit(r, b)
    BY <1>1 DEF Refuse, Limit, Admit
  <1>2. CASE Prepare(r) \/ Compare(r) \/ Judge(r) \/ Submit(r) \/ TakeEnvelope(r) \/ Answer(r)
    BY <1>2 DEF Prepare, Compare, Judge, Submit, TakeEnvelope, Answer
  <1>3. CASE StoreEnvelope(r)
    <2>1. PICK e : e = Envelope(r)
      OBVIOUS
    <2>2. \/ UNCHANGED store
          \/ store[e.id] = NoEnvelope /\ store' = [store EXCEPT ![e.id] = e.payload]
      BY <1>3, <2>1, Appended
    <2> QED BY <1>3, <2>2 DEF StoreEnvelope, TypeInv, TypeOK
  <1>4. CASE AcceptBatch(r) \/ AcceptFails(r)
    BY <1>4, TakenIs DEF AcceptBatch, AcceptFails
  <1> QED BY <1>1, <1>2, <1>3, <1>4 DEF Handle

LEMMA OwnTruthSuffices ==
    ASSUME TypeInv, TruthInv, NEW r \in Request, Others(r), Grows, Truth(r)'
    PROVE  TruthInv'
  <1> SUFFICES ASSUME NEW s \in Request \ {r} PROVE Truth(s)'
    BY DEF TruthInv
  <1> QED BY TruthStays DEF TruthInv, Others

LEMMA SettledItems ==
    ASSUME TypeInv, TruthInv, NEW r \in Request, pc[r] \in Busy
    PROVE  /\ FromBody(r)
           /\ \A i \in 1 .. Len(outcomes[r]) : i \in 1 .. Len(body[r]) /\ Settled(r, i)
  <1>1. /\ Len(outcomes[r]) \in Nat /\ Len(body[r]) \in Nat
        /\ Len(outcomes[r]) <= Len(body[r])
    BY Sequenced, EventsOf
  <1> QED BY <1>1 DEF TruthInv, Truth

(* A request that has one more outcome. *)
LEMMA ConcludeTrue ==
    ASSUME TypeInv, NEW r \in Request, NEW o \in Outcome, Conclude(r, o),
           Len(outcomes[r]) < Len(body[r]),
           NEW n \in Nat, n = Len(outcomes[r]) + 1,
           \A i \in 1 .. Len(outcomes[r]) : Settled(r, i)', Settled(r, n)', FromBody(r)'
    PROVE  Truth(r)'
  <1>1. Len(outcomes'[r]) = n /\ pc'[r] = "items"
    BY Concluded
  <1>2. \A i \in 1 .. Len(outcomes'[r]) : Settled(r, i)'
    <2>1. 1 .. n = (1 .. Len(outcomes[r])) \cup {n}
      BY Sequenced
    <2> QED BY <1>1, <2>1
  <1> QED BY <1>1, <1>2 DEF Truth, ReadTrue, FirstOfBatch, Storing

LEMMA ConcludeSame ==
    ASSUME TypeInv, TruthInv, NEW r \in Request, NEW o \in Outcome, Conclude(r, o),
           Len(outcomes[r]) < Len(body[r]), pc[r] \in Judging, Grows,
           UNCHANGED <<body, envelopes>>,
           NEW n \in Nat, n = Len(outcomes[r]) + 1, Settled(r, n)'
    PROVE  Truth(r)'
  <1>1. /\ Len(outcomes'[r]) = n /\ Len(outcomes[r]) \in Nat /\ Len(body[r]) \in Nat
        /\ \A i \in 1 .. Len(outcomes[r]) : outcomes'[r][i] = outcomes[r][i]
    BY Concluded, Sequenced
  <1>2. \A i \in 1 .. Len(outcomes[r]) : Settled(r, i)'
    <2> SUFFICES ASSUME NEW i \in 1 .. Len(outcomes[r]) PROVE Settled(r, i)'
      OBVIOUS
    <2>1. i \in 1 .. Len(body[r]) /\ Settled(r, i)
      BY Labels, SettledItems
    <2> QED BY <1>1, <2>1, SettledStays
  <1>3. FromBody(r)'
    <2>1. FromBody(r) /\ 1 .. Len(outcomes[r]) \subseteq 1 .. n
      BY <1>1, Labels DEF TruthInv, Truth
    <2> QED BY <1>1, <2>1 DEF FromBody
  <1> QED BY <1>2, <1>3, ConcludeTrue

LEMMA PrepareTrue ==
    ASSUME TypeInv, TruthInv, NEW r \in Request, Prepare(r)
    PROVE  Truth(r)'
  <1>1. /\ pc[r] = "items" /\ Len(outcomes[r]) < Len(body[r]) /\ Grows
        /\ UNCHANGED <<body, envelopes, stored, store, lookup>>
    BY Places, StoreGrows DEF Prepare, Handle, host
  <1>2. CASE Current(r).fit
    <2>1. /\ read' = [read EXCEPT ![r] = Found(Current(r).id)]
          /\ Goto(r, "compare") /\ UNCHANGED outcomes
      BY <1>2 DEF Prepare
    <2>2. pc'[r] = "compare" /\ read'[r] = Found(Current(r).id)
      BY <1>1, <2>1, Looked, Labels
    <2>3. ReadTrue(r)'
      BY <1>1, <2>1, <2>2 DEF ReadTrue, Found, Current
    <2>4. /\ \A i \in 1 .. Len(outcomes'[r]) : Settled(r, i)'
          /\ FromBody(r)'
      <3>1. \A i \in 1 .. Len(outcomes[r]) : i \in 1 .. Len(body[r]) /\ Settled(r, i)
        BY <1>1, SettledItems, Labels DEF Judging
      <3>2. \A i \in 1 .. Len(outcomes[r]) : Settled(r, i)'
        BY <1>1, <2>1, <3>1, SettledStays
      <3>3. FromBody(r)'
        BY <1>1, <2>1, Labels DEF TruthInv, Truth, FromBody, Judging
      <3> QED BY <2>1, <3>2, <3>3
    <2> QED BY <2>2, <2>3, <2>4 DEF Truth, FirstOfBatch, Storing
  <1>3. CASE ~Current(r).fit
    <2>1. Conclude(r, "invalid") /\ "invalid" \in Outcome
      BY <1>3, Labels DEF Prepare
    <2>2. PICK n \in Nat : n = Len(outcomes[r]) + 1
      BY Sequenced
    <2>3. outcomes'[r][n] = "invalid"
      BY <1>1, <2>1, <2>2, Concluded
    <2>4. Settled(r, n)'
      BY <2>3 DEF Settled, Accepted
    <2> QED BY <1>1, <2>1, <2>2, <2>4, ConcludeSame DEF Judging
  <1> QED BY <1>2, <1>3

LEMMA CompareTrue ==
    ASSUME TypeInv, TruthInv, NEW r \in Request, Compare(r)
    PROVE  Truth(r)'
  <1>1. /\ pc[r] = "compare" /\ Len(outcomes[r]) < Len(body[r]) /\ Grows
        /\ UNCHANGED <<body, envelopes, stored, store, lookup>>
    BY StoreGrows DEF Compare, Handle, host, TypeInv, Placed
  <1>2. PICK n \in Nat : n = Len(outcomes[r]) + 1
    BY Sequenced
  <1>3. /\ Current(r) = body[r][n] /\ n - 1 = Len(outcomes[r])
        /\ Current(r).id \in Event
        /\ Truth(r)
    BY <1>1, <1>2, EventsOf, Sequenced DEF Current, TruthInv
  <1>4. ASSUME read[r] \notin {NoEnvelope, Current(r).payload}, Conclude(r, "conflict")
        PROVE  Truth(r)'
    <2>1. store[Current(r).id] = read[r]
      BY <1>1, <1>3, <1>4 DEF Truth, ReadTrue
    <2>2. outcomes'[r][n] = "conflict" /\ "conflict" \in Outcome
      BY <1>1, <1>2, <1>4, Concluded, Labels
    <2>3. Settled(r, n)'
      BY <1>1, <1>3, <1>4, <2>1, <2>2 DEF Settled, Accepted
    <2> QED BY <1>1, <1>2, <1>4, <2>2, <2>3, ConcludeSame DEF Judging
  <1>5. ASSUME NEW k \in PriorInBatch(r),
               Conclude(r, Against(envelopes[r][k].payload, Current(r).payload))
        PROVE  Truth(r)'
    <2>1. k \in 1 .. Len(envelopes[r]) /\ envelopes[r][k].id = Current(r).id
      BY Places DEF PriorInBatch
    <2>2. PICK o : o = Against(envelopes[r][k].payload, Current(r).payload)
      OBVIOUS
    <2>3. /\ o \in Outcome /\ o \in {"duplicate", "conflict"}
          /\ o = "duplicate" <=> envelopes[r][k].payload = Current(r).payload
      BY <2>2, AgainstIs, Labels
    <2>4. outcomes'[r][n] = o
      BY <1>1, <1>2, <1>5, <2>2, <2>3, Concluded
    <2>5. Has(r, n)'
      BY <1>1, <1>3, <2>1 DEF Has
    <2>6. o = "conflict" => Contradicted(r, n)'
      <3>1. PICK j \in 1 .. Len(outcomes[r]) : body[r][j] = envelopes[r][k]
        BY <1>1, <1>3, <2>1, Labels DEF Truth, FromBody, Judging
      <3> QED BY <1>1, <1>3, <2>1, <2>3, <3>1 DEF Contradicted
    <2>7. \A j \in 1 .. Len(envelopes[r]) :
            envelopes[r][j].id = Current(r).id => j = k
      BY <2>1 DEF TypeInv, Distinct
    <2>8. o \in Accepted => \A j \in 1 .. Len(envelopes'[r]) :
            envelopes'[r][j].id = body'[r][n].id
              => envelopes'[r][j].payload = body'[r][n].payload
      BY <1>1, <1>3, <2>3, <2>7 DEF Accepted
    <2>9. Settled(r, n)'
      BY <2>3, <2>4, <2>5, <2>6, <2>8 DEF Settled
    <2> QED BY <1>1, <1>2, <1>5, <2>2, <2>3, <2>9, ConcludeSame DEF Judging
  <1>6. ASSUME read[r] \in {NoEnvelope, Current(r).payload}, PriorInBatch(r) = {},
               read' = [read EXCEPT ![r] = Found(Current(r).id)],
               Goto(r, "judge"), UNCHANGED outcomes
        PROVE  Truth(r)'
    <2>1. pc'[r] = "judge" /\ read'[r] = Found(Current(r).id)
      BY <1>1, <1>6, Looked, Labels
    <2>2. Current(r)' = Current(r)
      BY <1>1, <1>6 DEF Current
    <2>3. ReadTrue(r)'
      BY <1>1, <2>1, <2>2 DEF ReadTrue, Found
    <2>4. \A i \in 1 .. Len(outcomes[r]) :
            i \in 1 .. Len(body[r]) /\ Settled(r, i) /\ Settled(r, i)'
      <3>1. \A i \in 1 .. Len(outcomes[r]) : i \in 1 .. Len(body[r]) /\ Settled(r, i)
        BY <1>1, SettledItems, Labels DEF Judging
      <3> QED BY <1>1, <1>6, <3>1, SettledStays
    <2>5. FromBody(r)'
      BY <1>1, <1>3, <1>6, Labels DEF Truth, FromBody, Judging
    <2>6. FirstOfBatch(r)'
      <3> SUFFICES ASSUME read'[r] = NoEnvelope, NEW i \in 1 .. Len(outcomes[r]),
                          body[r][i].id = Current(r).id, outcomes[r][i] \in Accepted
                   PROVE  FALSE
        BY <1>1, <1>6, <2>2 DEF FirstOfBatch
      <3>1. ~Has(r, i)
        BY <1>6, Places DEF Has, PriorInBatch
      <3>2. lookup /\ store[body[r][i].id] = body[r][i].payload
        BY <2>4, <3>1 DEF Settled
      <3>3. body[r][i].payload # NoEnvelope
        BY <2>4, EventsOf
      <3> QED BY <2>1, <3>2, <3>3 DEF Found
    <2> QED BY <1>6, <2>1, <2>3, <2>4, <2>5, <2>6 DEF Truth, Storing
  <1> QED BY <1>4, <1>5, <1>6, Compared

LEMMA JudgeTrue ==
    ASSUME TypeInv, TruthInv, NEW r \in Request, Judge(r)
    PROVE  Truth(r)'
  <1>1. /\ pc[r] = "judge" /\ Len(outcomes[r]) < Len(body[r]) /\ Grows
        /\ UNCHANGED <<body, stored, store, lookup>>
    BY StoreGrows DEF Judge, Handle, host, TypeInv, Placed
  <1>2. PICK n \in Nat : n = Len(outcomes[r]) + 1
    BY Sequenced
  <1>3. /\ Current(r) = body[r][n] /\ n - 1 = Len(outcomes[r])
        /\ Current(r).id \in Event
        /\ Truth(r)
    BY <1>1, <1>2, EventsOf, Sequenced DEF Current, TruthInv
  <1>4. \A k \in 1 .. Len(envelopes[r]) : envelopes[r][k].id # Current(r).id
    BY <1>1, Places DEF TypeInv, Distinct, PriorInBatch
  <1>5. ASSUME read[r] # NoEnvelope, UNCHANGED envelopes,
               Conclude(r, Against(read[r], Current(r).payload))
        PROVE  Truth(r)'
    <2>1. lookup /\ store[Current(r).id] = read[r]
      BY <1>1, <1>3, <1>5 DEF Truth, ReadTrue
    <2>2. PICK o : o = Against(read[r], Current(r).payload)
      OBVIOUS
    <2>3. /\ o \in Outcome /\ o \in {"duplicate", "conflict"}
          /\ o = "duplicate" <=> read[r] = Current(r).payload
      BY <2>2, AgainstIs, Labels
    <2>4. outcomes'[r][n] = o
      BY <1>1, <1>2, <1>5, <2>2, <2>3, Concluded
    <2>5. ~Has(r, n)'
      BY <1>1, <1>3, <1>4, <1>5 DEF Has
    <2>6. Settled(r, n)'
      BY <1>1, <1>3, <1>5, <2>1, <2>3, <2>4, <2>5 DEF Settled, Accepted
    <2> QED BY <1>1, <1>2, <1>5, <2>2, <2>3, <2>6, ConcludeSame DEF Judging
  <1>6. ASSUME read[r] = NoEnvelope, Conclude(r, "new"),
               envelopes' = Extend(envelopes, r, Current(r))
        PROVE  Truth(r)'
    <2>1. PICK m \in Nat : m = Len(envelopes[r]) + 1
      BY Sequenced
    <2>2. /\ Len(envelopes'[r]) = m /\ envelopes'[r][m] = Current(r)
          /\ \A k \in 1 .. m - 1 : envelopes'[r][k] = envelopes[r][k]
          /\ m - 1 = Len(envelopes[r])
          /\ 1 .. m = (1 .. m - 1) \cup {m}
      BY <1>1, <1>6, <2>1, EnvelopeAdded, Sequenced
    <2>3. /\ "new" \in Outcome /\ outcomes'[r][n] = "new"
          /\ \A i \in 1 .. Len(outcomes[r]) : outcomes'[r][i] = outcomes[r][i]
          /\ Len(outcomes'[r]) = n
      BY <1>1, <1>2, <1>6, Concluded, Labels
    <2>4. \A i : Has(r, i)' <=> Has(r, i) \/ body[r][i].id = Current(r).id
      BY <1>1, <2>2 DEF Has
    <2>5. \A i \in 1 .. Len(outcomes[r]) : Settled(r, i)'
      <3> SUFFICES ASSUME NEW i \in 1 .. Len(outcomes[r]) PROVE Settled(r, i)'
        OBVIOUS
      <3>1. Settled(r, i) /\ i \in 1 .. Len(body[r]) /\ outcomes'[r][i] = outcomes[r][i]
        BY <1>1, <2>3, SettledItems, Labels DEF Judging
      <3>2. Contradicted(r, i)' <=> Contradicted(r, i)
        BY <1>1 DEF Contradicted
      <3>3. CASE body[r][i].id = Current(r).id
        <4>1. outcomes[r][i] \notin Accepted
          BY <1>1, <1>3, <1>6, <3>3 DEF Truth, FirstOfBatch
        <4>2. outcomes[r][i] # "new"
          BY <4>1 DEF Accepted
        <4> QED BY <1>1, <2>4, <3>1, <3>2, <3>3, <4>1, <4>2 DEF Settled
      <3>4. CASE body[r][i].id # Current(r).id
        <4>1. Has(r, i)' <=> Has(r, i)
          BY <2>4, <3>4
        <4>2. (\A k \in 1 .. Len(envelopes[r]) :
                 envelopes[r][k].id = body[r][i].id
                   => envelopes[r][k].payload = body[r][i].payload)
              => \A k \in 1 .. Len(envelopes'[r]) :
                   envelopes'[r][k].id = body'[r][i].id
                     => envelopes'[r][k].payload = body'[r][i].payload
          BY <1>1, <2>2, <3>4
        <4> QED BY <1>1, <3>1, <3>2, <4>1, <4>2 DEF Settled
      <3> QED BY <3>3, <3>4
    <2>6. Settled(r, n)'
      <3>1. Has(r, n)'
        BY <1>3, <2>4
      <3>2. \A k \in 1 .. Len(envelopes'[r]) :
              envelopes'[r][k].id = body'[r][n].id
                => envelopes'[r][k].payload = body'[r][n].payload
        BY <1>1, <1>3, <1>4, <2>2
      <3> QED BY <2>3, <3>1, <3>2 DEF Settled
    <2>7. FromBody(r)'
      <3>1. FromBody(r) /\ 1 .. Len(outcomes[r]) \subseteq 1 .. n /\ n \in 1 .. n
        BY <1>1, <1>2, <1>3, SettledItems, Labels DEF Judging
      <3> QED BY <1>1, <1>3, <2>2, <2>3, <3>1 DEF FromBody
    <2> QED BY <1>1, <1>2, <1>6, <2>3, <2>5, <2>6, <2>7, ConcludeTrue
  <1> QED BY <1>5, <1>6, JudgedAs

LEMMA SubmitTrue ==
    ASSUME TypeInv, TruthInv, NEW r \in Request, Submit(r)
    PROVE  Truth(r)'
  <1>1. /\ pc[r] = "items" /\ Len(outcomes[r]) = Len(body[r]) /\ stored[r] = <<>>
        /\ UNCHANGED <<body, outcomes, envelopes, stored, store, lookup>> /\ Grows
        /\ pc'[r] = IF envelopes[r] = <<>> THEN "outcomes" ELSE "accept"
    BY StoreGrows, PcTyped
       DEF Submit, Handle, host, request, AllJudged, Goto, TypeInv, Placed, Judging
  <1>2. \A i \in 1 .. Len(outcomes[r]) : i \in 1 .. Len(body[r]) /\ Settled(r, i)
    BY <1>1, SettledItems, Labels DEF Judging
  <1>3. CASE envelopes[r] = <<>>
    <2>1. \A i : ~Has(r, i)
      BY <1>3 DEF Has
    <2>2. ASSUME NEW i \in 1 .. Len(body[r]) PROVE AnswerTrue(r, i)'
      <3>1. Settled(r, i) /\ (Contradicted(r, i)' <=> Contradicted(r, i))
        BY <1>1, <1>2 DEF Contradicted
      <3> QED BY <1>1, <2>1, <3>1 DEF Settled, AnswerTrue
    <2> QED BY <1>1, <1>3, <2>2, Labels DEF Truth, ReadTrue, FirstOfBatch, Storing, Judging
  <1>4. CASE envelopes[r] # <<>>
    <2>1. pc'[r] = "accept" /\ StoredTrue(r)'
      BY <1>1, <1>4 DEF StoredTrue
    <2>2. \A i \in 1 .. Len(outcomes[r]) : Settled(r, i)'
      BY <1>1, <1>2, SettledStays
    <2>3. FromBody(r)'
      BY <1>1, SettledItems, Labels DEF FromBody, Judging
    <2> QED BY <1>1, <2>1, <2>2, <2>3 DEF Truth, ReadTrue, FirstOfBatch
  <1> QED BY <1>3, <1>4

(* Steps of a batch that is being stored: the items stay as they are.      *)
LEMMA StoringTrue ==
    ASSUME TypeInv, TruthInv, NEW r \in Request, pc[r] \in Storing, pc'[r] \in Storing,
           Grows, UNCHANGED <<body, outcomes, envelopes>>, ReadTrue(r)', StoredTrue(r)'
    PROVE  Truth(r)'
  <1>1. \A i \in 1 .. Len(outcomes[r]) : Settled(r, i)'
    BY SettledItems, SettledStays, Labels
  <1>2. FromBody(r)'
    BY SettledItems, Labels DEF FromBody
  <1> QED BY <1>1, <1>2 DEF Truth, FirstOfBatch, Storing

LEMMA TakeTrue ==
    ASSUME TypeInv, TruthInv, NEW r \in Request, TakeEnvelope(r)
    PROVE  Truth(r)'
  <1>1. /\ pc[r] = "accept" /\ Len(stored[r]) < Len(envelopes[r]) /\ Grows
        /\ UNCHANGED <<body, outcomes, envelopes, stored, store>>
        /\ read' = [read EXCEPT ![r] = store[Envelope(r).id]] /\ Goto(r, "append")
    BY Places, NoneEarlier, StoreGrows DEF TakeEnvelope, Handle
  <1>2. pc'[r] = "append" /\ read'[r] = store[Envelope(r).id]
    BY <1>1, PcTyped DEF Goto, TypeInv, TypeOK
  <1>3. ReadTrue(r)'
    BY <1>1, <1>2 DEF ReadTrue, Envelope
  <1>4. StoredTrue(r)'
    BY <1>1 DEF TruthInv, Truth, StoredTrue, Storing
  <1> QED BY <1>1, <1>2, <1>3, <1>4, StoringTrue DEF Storing

LEMMA StoreTrue ==
    ASSUME TypeInv, TruthInv, NEW r \in Request, StoreEnvelope(r)
    PROVE  Truth(r)'
  <1>1. /\ pc[r] = "append" /\ Len(stored[r]) < Len(envelopes[r]) /\ Grows
        /\ UNCHANGED <<body, outcomes, envelopes>>
        /\ pc'[r] = "accept"
    BY StoreGrows, PcTyped DEF StoreEnvelope, Handle, Goto, TypeInv, Placed
  <1>2. PICK n \in Nat : n = Len(stored[r]) + 1
    BY Sequenced
  <1>3. PICK e : e = envelopes[r][n]
    OBVIOUS
  <1>4. /\ e = Envelope(r) /\ n - 1 = Len(stored[r]) /\ 1 .. n = (1 .. n - 1) \cup {n}
        /\ e.id \in Event /\ e.payload # NoEnvelope
    BY <1>1, <1>2, <1>3, EventsOf, Sequenced, ItemsAre DEF Envelope
  <1>5. read[r] # NoEnvelope => store[e.id] = read[r]
    BY <1>1, <1>4 DEF TruthInv, Truth, ReadTrue
  <1>6. PICK o \in Outcome :
          /\ stored' = Extend(stored, r, o)
          /\ o \in {"new", "duplicate", "conflict"}
          /\ o \in Accepted => store'[e.id] = e.payload
          /\ o = "conflict" => store'[e.id] \notin {NoEnvelope, e.payload}
    <2>1. ASSUME NEW p, p # NoEnvelope, store[e.id] = p, UNCHANGED store,
                 stored' = Extend(stored, r, Against(p, e.payload))
          PROVE  \E o \in Outcome :
                   /\ stored' = Extend(stored, r, o)
                   /\ o \in {"new", "duplicate", "conflict"}
                   /\ o \in Accepted => store'[e.id] = e.payload
                   /\ o = "conflict" => store'[e.id] \notin {NoEnvelope, e.payload}
      BY <2>1, AgainstIs, Labels DEF Accepted
    <2>2. ASSUME store' = [store EXCEPT ![e.id] = e.payload],
                 stored' = Extend(stored, r, "new")
          PROVE  \E o \in Outcome :
                   /\ stored' = Extend(stored, r, o)
                   /\ o \in {"new", "duplicate", "conflict"}
                   /\ o \in Accepted => store'[e.id] = e.payload
                   /\ o = "conflict" => store'[e.id] \notin {NoEnvelope, e.payload}
      <3>1. store'[e.id] = e.payload /\ "new" \in Outcome
        BY <1>4, <2>2, Labels DEF TypeInv, TypeOK
      <3> QED BY <2>2, <3>1
    <2> QED BY <1>4, <1>5, <2>1, <2>2, Appended
  <1>7. /\ Len(stored'[r]) = n /\ stored'[r][n] = o
        /\ \A k \in 1 .. n - 1 : stored'[r][k] = stored[r][k]
    BY <1>2, <1>4, <1>6, StoredOne
  <1>8. StoredTrue(r)'
    <2>1. \A k \in 1 .. n - 1 :
            /\ stored'[r][k] \in {"new", "duplicate", "conflict"}
            /\ stored'[r][k] \in Accepted =>
                 store'[envelopes'[r][k].id] = envelopes'[r][k].payload
            /\ stored'[r][k] = "conflict" =>
                 store'[envelopes'[r][k].id] \notin {NoEnvelope, envelopes'[r][k].payload}
      BY <1>1, <1>4, <1>7, StoredStays DEF TruthInv, Truth, Storing
    <2>2. envelopes'[r][n] = e /\ stored'[r][n] = o
      BY <1>1, <1>3, <1>7
    <2>3. \A k \in 1 .. Len(stored'[r]) : k \in 1 .. n - 1 \/ k = n
      BY <1>4, <1>7
    <2> QED BY <1>6, <2>1, <2>2, <2>3 DEF StoredTrue
  <1>9. ReadTrue(r)'
    BY <1>1 DEF ReadTrue
  <1> QED BY <1>1, <1>8, <1>9, StoringTrue DEF Storing

LEMMA AcceptTrue ==
    ASSUME TypeInv, TruthInv, NEW r \in Request, AcceptBatch(r)
    PROVE  Truth(r)'
  <1>1. /\ pc[r] = "accept" /\ pc'[r] = "accept" /\ Taken(r) /\ Grows
        /\ UNCHANGED <<body, outcomes, envelopes>>
    BY StoreGrows DEF AcceptBatch, Handle
  <1>2. StoredTrue(r)'
    <2> SUFFICES ASSUME NEW k \in 1 .. Len(envelopes[r])
                 PROVE  /\ stored'[r][k] \in {"new", "duplicate", "conflict"}
                        /\ stored'[r][k] \in Accepted =>
                             store'[envelopes[r][k].id] = envelopes[r][k].payload
                        /\ stored'[r][k] = "conflict" =>
                             store'[envelopes[r][k].id] \notin
                                 {NoEnvelope, envelopes[r][k].payload}
      BY <1>1, AcceptedAs DEF StoredTrue
    <2>1. PICK e : e = envelopes[r][k]
      OBVIOUS
    <2>2. /\ e.id \in Event /\ e.payload # NoEnvelope
          /\ stored'[r][k] = IF store[e.id] = NoEnvelope THEN "new"
                             ELSE Against(store[e.id], e.payload)
      BY <2>1, EventsOf, AcceptedAs
    <2>3. CASE store[e.id] = NoEnvelope
      BY <1>1, <2>1, <2>2, <2>3, TakenIs
    <2>4. CASE store[e.id] # NoEnvelope
      <3>1. store'[e.id] = store[e.id]
        BY <1>1, <2>2, <2>4 DEF Grows
      <3> QED BY <2>1, <2>2, <2>4, <3>1, AgainstIs DEF Accepted
    <2> QED BY <2>3, <2>4
  <1>3. ReadTrue(r)'
    BY <1>1 DEF ReadTrue
  <1> QED BY <1>1, <1>2, <1>3, StoringTrue DEF Storing

LEMMA AnswerIsTrue ==
    ASSUME TypeInv, TruthInv, NEW r \in Request, Answer(r)
    PROVE  Truth(r)'
  <1>1. /\ pc[r] = "accept" /\ pc'[r] = "outcomes" /\ AllStored(r)
        /\ Len(outcomes[r]) = Len(body[r]) /\ Len(stored[r]) = Len(envelopes[r])
        /\ UNCHANGED <<body, store>>
    BY PcTyped DEF Answer, Goto, TypeInv, Placed, Storing, AllStored
  <1>2. ASSUME NEW i \in 1 .. Len(body[r]) PROVE AnswerTrue(r, i)'
    <2>1. Settled(r, i) /\ (Contradicted(r, i)' <=> Contradicted(r, i))
      BY <1>1, SettledItems, Labels DEF Contradicted, Storing
    <2>2. outcomes'[r][i] = MergedOutcome(r, i)
      BY AnsweredAs
    <2>3. CASE outcomes[r][i] \notin Accepted
      <3>1. outcomes'[r][i] = outcomes[r][i] /\ outcomes[r][i] # "storage-error"
        BY <1>1, <2>1, <2>2, <2>3, MergedAs DEF Settled
      <3>2. outcomes[r][i] = "conflict" =>
              store[body[r][i].id] # NoEnvelope
              /\ (store[body[r][i].id] # body[r][i].payload \/ Contradicted(r, i))
        <4>1. CASE Has(r, i)
          <5>1. PICK k \in 1 .. Len(envelopes[r]) : envelopes[r][k].id = body[r][i].id
            BY <4>1 DEF Has
          <5>2. store[body[r][i].id] # NoEnvelope
            <6>1. StoredTrue(r) /\ k \in 1 .. Len(stored[r])
              BY <1>1, <5>1 DEF TruthInv, Truth, Storing
            <6>2. envelopes[r][k].payload # NoEnvelope
              BY <5>1, EventsOf
            <6> QED BY <5>1, <6>1, <6>2 DEF StoredTrue, Accepted
          <5> QED BY <2>1, <5>2 DEF Settled
        <4>2. CASE ~Has(r, i)
          BY <2>1, <4>2 DEF Settled
        <4> QED BY <4>1, <4>2
      <3> QED BY <1>1, <2>1, <2>3, <3>1, <3>2 DEF AnswerTrue
    <2>4. CASE outcomes[r][i] \in Accepted /\ Has(r, i)
      <3>1. PICK k \in 1 .. Len(envelopes[r]) : envelopes[r][k].id = body[r][i].id
        BY <2>4 DEF Has
      <3>2. outcomes'[r][i] = stored[r][k]
        BY <1>1, <2>2, <2>4, <3>1, MergedAs
      <3>3. envelopes[r][k].payload = body[r][i].payload
        BY <2>1, <2>4, <3>1 DEF Settled
      <3>4. StoredTrue(r) /\ k \in 1 .. Len(stored[r])
        BY <1>1, <3>1 DEF TruthInv, Truth, Storing
      <3> QED BY <1>1, <3>1, <3>2, <3>3, <3>4 DEF StoredTrue, AnswerTrue
    <2>5. CASE outcomes[r][i] \in Accepted /\ ~Has(r, i)
      <3>1. outcomes'[r][i] = "storage-error"
        BY <1>1, <2>2, <2>5, MergedAs DEF Has
      <3>2. store[body[r][i].id] = body[r][i].payload
        BY <2>1, <2>5 DEF Settled
      <3> QED BY <1>1, <3>1, <3>2 DEF AnswerTrue
    <2> QED BY <2>3, <2>4, <2>5
  <1> QED BY <1>1, <1>2, Labels DEF Truth, ReadTrue, FirstOfBatch, Storing, Judging

LEMMA TruthInit == Init => TruthInv
  BY Labels DEF Init, TruthInv, Truth, ReadTrue, FirstOfBatch, Storing, Judging

LEMMA TruthStep ==
    ASSUME TypeInv, TruthInv, [Next]_vars
    PROVE  TruthInv'
  <1>1. CASE Tick \/ UNCHANGED vars
    <2>1. UNCHANGED <<store, lookup, pc, body, outcomes, envelopes, read, stored>>
      BY <1>1 DEF Tick, vars, host, request
    <2> QED BY <2>1, TruthStays DEF TruthInv, Grows
  <1>2. ASSUME NEW r \in Request, Handle(r) PROVE TruthInv'
    <2>1. CASE AcceptFails(r)
      <3>1. pc'[r] = "storage-error"
        BY <2>1, PcTyped DEF AcceptFails, Goto
      <3>2. Truth(r)'
        BY <3>1, Labels DEF Truth, ReadTrue, FirstOfBatch, Storing, Judging
      <3> QED BY <1>2, <3>2, StoreGrows, OthersStay, OwnTruthSuffices
    <2>2. CASE ~AcceptFails(r)
      <3>1. Truth(r)'
        BY <1>2, <2>2, PrepareTrue, CompareTrue, JudgeTrue, SubmitTrue, TakeTrue,
           StoreTrue, AcceptTrue, AnswerIsTrue DEF Handle
      <3> QED BY <1>2, <3>1, StoreGrows, OthersStay, OwnTruthSuffices
    <2> QED BY <2>1, <2>2
  <1>3. ASSUME NEW r \in Request, Refuse(r) \/ Limit(r) \/ \E b \in Body : Admit(r, b)
        PROVE  TruthInv'
    <2>1. /\ pc[r] = "new" /\ outcomes'[r] = <<>> /\ envelopes'[r] = <<>>
          /\ pc'[r] \in {"refused", "rate-limited", "too-large", "items"}
      BY <1>3, PcTyped DEF Refuse, Limit, Admit, request, Goto, TypeInv, Placed
    <2>2. Truth(r)'
      BY <2>1, Labels DEF Truth, ReadTrue, FirstOfBatch, FromBody, Storing, Judging
    <2> QED BY <1>3, <2>2, StoreGrows, OthersStay, OwnTruthSuffices
  <1> QED BY <1>1, <1>2, <1>3 DEF Next

LEMMA Inductive == Spec => [](TypeInv /\ TruthInv)
  <1>1. TypeInv /\ TruthInv /\ [Next]_vars => (TypeInv /\ TruthInv)'
    BY TypeStep, TruthStep
  <1> QED BY <1>1, TypeInit, TruthInit, PTL DEF Spec

(* What a 202 calls accepted is stored, with the payload that was posted,  *)
(* whatever other requests store between the handler's look at the store   *)
(* and the adapter's.                                                      *)
THEOREM AcceptedMeansStored == Spec => []AcceptedIsStored
  <1>1. TypeInv /\ TruthInv => AcceptedIsStored
    <2> SUFFICES ASSUME TypeInv, TruthInv, NEW r \in Request, NEW i \in DOMAIN body[r],
                        pc[r] = "outcomes", outcomes[r][i] \in Accepted
                 PROVE  store[body[r][i].id] = body[r][i].payload
      BY DEF AcceptedIsStored, Said, Accepted
    <2>1. AnswerTrue(r, i)
      BY Places DEF TruthInv, Truth
    <2> QED BY <2>1 DEF AnswerTrue
  <1> QED BY <1>1, Inductive, PTL

(* A fit item is refused for a reason, and an item that is answered        *)
(* storage-error in a 202 is stored.                                       *)
THEOREM RefusalsHaveCause == Spec => []RefusedForCause
  <1>1. TypeInv /\ TruthInv => RefusedForCause
    <2> SUFFICES ASSUME TypeInv, TruthInv, NEW r \in Request, NEW i \in DOMAIN body[r],
                        pc[r] = "outcomes"
                 PROVE  /\ outcomes[r][i] = "conflict" =>
                             /\ store[body[r][i].id] # NoEnvelope
                             /\ \/ store[body[r][i].id] # body[r][i].payload
                                \/ Contradicted(r, i)
                        /\ outcomes[r][i] = "storage-error" =>
                             store[body[r][i].id] = body[r][i].payload
      BY DEF RefusedForCause, Said, Contradicted
    <2>1. AnswerTrue(r, i)
      BY Places DEF TruthInv, Truth
    <2> QED BY <2>1 DEF AnswerTrue
  <1> QED BY <1>1, Inductive, PTL

(***************************************************************************)
(* Who is told to be the first                                             *)
(***************************************************************************)

(* The events that a request has stored, or has been told it has stored.   *)
Claims(r, e) ==
    \/ /\ pc[r] \in Storing
       /\ \E k \in 1 .. Len(stored[r]) :
            stored[r][k] = "new" /\ envelopes[r][k].id = e
    \/ /\ pc[r] = "outcomes"
       /\ \E i \in 1 .. Len(body[r]) : outcomes[r][i] = "new" /\ body[r][i].id = e

ClaimInv ==
    \A r \in Request, e \in Event :
        Claims(r, e) => /\ store[e] # NoEnvelope
                        /\ \A s \in Request \ {r} : ~Claims(s, e)

(* A step by which a request claims only what it has claimed before, or    *)
(* what was not stored and is now.                                         *)
LEMMA ClaimsStay ==
    ASSUME TypeInv, ClaimInv, NEW r \in Request, Others(r), Grows,
           \A e \in Event : Claims(r, e)' =>
               Claims(r, e) \/ (store[e] = NoEnvelope /\ store'[e] # NoEnvelope)
    PROVE  ClaimInv'
  <1>1. \A s \in Request \ {r}, e \in Event : Claims(s, e)' <=> Claims(s, e)
    BY DEF Others, Claims
  <1>2. \A s \in Request, e \in Event : Claims(s, e) => store[e] # NoEnvelope
    BY DEF ClaimInv
  <1> SUFFICES ASSUME NEW s \in Request, NEW e \in Event, Claims(s, e)'
               PROVE  /\ store'[e] # NoEnvelope
                      /\ \A t \in Request \ {s} : ~Claims(t, e)'
    BY DEF ClaimInv
  <1>3. store'[e] # NoEnvelope
    BY <1>1, <1>2 DEF Grows
  <1>4. ASSUME NEW t \in Request \ {s}, Claims(t, e)' PROVE FALSE
    <2>1. CASE s # r /\ t # r
      BY <1>1, <1>4, <2>1 DEF ClaimInv
    <2>2. CASE s = r
      BY <1>1, <1>2, <1>4, <2>2 DEF ClaimInv
    <2>3. CASE t = r
      BY <1>1, <1>2, <1>4, <2>3 DEF ClaimInv
    <2> QED BY <2>1, <2>2, <2>3
  <1> QED BY <1>3, <1>4

LEMMA StoreClaims ==
    ASSUME TypeInv, NEW r \in Request, StoreEnvelope(r), NEW e \in Event, Claims(r, e)'
    PROVE  Claims(r, e) \/ (store[e] = NoEnvelope /\ store'[e] # NoEnvelope)
  <1>1. /\ pc[r] = "append" /\ Len(stored[r]) < Len(envelopes[r])
        /\ UNCHANGED envelopes /\ pc'[r] = "accept"
    BY PcTyped DEF StoreEnvelope, Goto, TypeInv, Placed
  <1>2. PICK n \in Nat : n = Len(stored[r]) + 1
    BY Sequenced
  <1>3. PICK item : item = Envelope(r)
    OBVIOUS
  <1>4. /\ item = envelopes[r][n] /\ n - 1 = Len(stored[r])
        /\ item.id \in Event /\ item.payload # NoEnvelope
    BY <1>1, <1>2, <1>3, EventsOf, Sequenced, ItemsAre DEF Envelope
  <1>5. PICK o \in Outcome :
          /\ stored' = Extend(stored, r, o)
          /\ o = "new" => store[item.id] = NoEnvelope /\ store'[item.id] # NoEnvelope
    <2>1. ASSUME NEW p, stored' = Extend(stored, r, Against(p, item.payload))
          PROVE  \E o \in Outcome : stored' = Extend(stored, r, o) /\ o # "new"
      BY <2>1, AgainstIs, Labels
    <2>2. ASSUME store[item.id] = NoEnvelope, stored' = Extend(stored, r, "new"),
                 store' = [store EXCEPT ![item.id] = item.payload]
          PROVE  /\ "new" \in Outcome
                 /\ store[item.id] = NoEnvelope /\ store'[item.id] # NoEnvelope
      BY <1>4, <2>2, Labels DEF TypeInv, TypeOK
    <2> QED BY <1>3, <2>1, <2>2, Appended
  <1>6. /\ Len(stored'[r]) = n /\ stored'[r][n] = o
        /\ \A k \in 1 .. n - 1 : stored'[r][k] = stored[r][k]
    BY <1>2, <1>4, <1>5, StoredOne
  <1>7. PICK k \in 1 .. n : stored'[r][k] = "new" /\ envelopes[r][k].id = e
    BY <1>1, <1>6 DEF Claims
  <1>8. CASE k = n
    BY <1>4, <1>5, <1>6, <1>7, <1>8
  <1>9. CASE k \in 1 .. n - 1
    BY <1>1, <1>4, <1>6, <1>7, <1>9 DEF Claims, Storing
  <1> QED BY <1>2, <1>8, <1>9

LEMMA AcceptClaims ==
    ASSUME TypeInv, NEW r \in Request, AcceptBatch(r), NEW e \in Event, Claims(r, e)'
    PROVE  store[e] = NoEnvelope /\ store'[e] # NoEnvelope
  <1>1. pc[r] = "accept" /\ pc'[r] = "accept" /\ Taken(r) /\ UNCHANGED envelopes
    BY DEF AcceptBatch
  <1>2. PICK k \in 1 .. Len(envelopes[r]) : stored'[r][k] = "new" /\ envelopes[r][k].id = e
    BY <1>1, AcceptedAs DEF Claims
  <1>3. store[e] = NoEnvelope
    BY <1>2, AcceptedAs, AgainstIs
  <1>4. envelopes[r][k].payload # NoEnvelope
    BY EventsOf
  <1> QED BY <1>1, <1>2, <1>3, <1>4, TakenIs

LEMMA AnswerClaims ==
    ASSUME TypeInv, TruthInv, NEW r \in Request, Answer(r), NEW e \in Event, Claims(r, e)'
    PROVE  Claims(r, e)
  <1>1. /\ pc[r] = "accept" /\ pc'[r] = "outcomes" /\ AllStored(r)
        /\ Len(outcomes[r]) = Len(body[r]) /\ Len(stored[r]) = Len(envelopes[r])
        /\ UNCHANGED body
    BY PcTyped DEF Answer, Goto, TypeInv, Placed, Storing, AllStored
  <1>2. PICK i \in 1 .. Len(body[r]) : outcomes'[r][i] = "new" /\ body[r][i].id = e
    BY <1>1 DEF Claims, Storing
  <1>3. MergedOutcome(r, i) = "new" /\ Settled(r, i)
    BY <1>1, <1>2, AnsweredAs, SettledItems, Labels DEF Storing
  <1>4. outcomes[r][i] \in Accepted
    BY <1>1, <1>3, MergedAs DEF Accepted
  <1>5. PICK k \in 1 .. Len(envelopes[r]) : envelopes[r][k].id = body[r][i].id
    BY <1>1, <1>3, <1>4, MergedAs
  <1>6. stored[r][k] = "new"
    BY <1>1, <1>3, <1>4, <1>5, MergedAs
  <1> QED BY <1>1, <1>2, <1>5, <1>6 DEF Claims, Storing

LEMMA SubmitClaims ==
    ASSUME TypeInv, TruthInv, NEW r \in Request, Submit(r), NEW e \in Event
    PROVE  ~Claims(r, e)'
  <1>1. /\ pc[r] = "items" /\ Len(outcomes[r]) = Len(body[r]) /\ stored[r] = <<>>
        /\ UNCHANGED <<body, outcomes, stored>>
        /\ pc'[r] = IF envelopes[r] = <<>> THEN "outcomes" ELSE "accept"
    BY PcTyped DEF Submit, request, AllJudged, Goto, TypeInv, Placed, Judging
  <1>2. envelopes[r] = <<>> => \A i \in 1 .. Len(body[r]) : outcomes[r][i] # "new"
    BY <1>1, SettledItems, Labels DEF Judging, Settled, Has
  <1> QED BY <1>1, <1>2 DEF Claims, Storing

LEMMA ClaimInit == Init => ClaimInv
  BY DEF Init, ClaimInv, Claims, Storing

LEMMA ClaimStep ==
    ASSUME TypeInv, TruthInv, ClaimInv, [Next]_vars
    PROVE  ClaimInv'
  <1>1. CASE Tick \/ UNCHANGED vars
    <2>1. UNCHANGED <<store, pc, body, outcomes, envelopes, stored>>
      BY <1>1 DEF Tick, vars, host, request
    <2> QED BY <2>1 DEF ClaimInv, Claims
  <1>2. ASSUME NEW r \in Request, ~Submit(r),
               Refuse(r) \/ Limit(r) \/ (\E b \in Body : Admit(r, b)) \/ Handle(r),
               NEW e \in Event, Claims(r, e)'
        PROVE  Claims(r, e) \/ (store[e] = NoEnvelope /\ store'[e] # NoEnvelope)
    <2>1. CASE Refuse(r) \/ Limit(r) \/ \E b \in Body : Admit(r, b)
      <3>1. pc'[r] \in {"refused", "rate-limited", "too-large", "items"}
        BY <2>1, PcTyped DEF Refuse, Limit, Admit, Goto
      <3> QED BY <1>2, <3>1 DEF Claims, Storing
    <2>2. CASE Prepare(r) \/ Compare(r) \/ Judge(r) \/ AcceptFails(r)
      <3>1. pc'[r] \in {"items", "compare", "judge", "storage-error"}
        BY <2>2, PcTyped DEF Prepare, Compare, Judge, AcceptFails, Conclude, Goto
      <3> QED BY <1>2, <3>1 DEF Claims, Storing
    <2>3. CASE TakeEnvelope(r)
      <3>1. /\ pc[r] = "accept" /\ pc'[r] \in {"accept", "append"}
            /\ UNCHANGED <<stored, envelopes>>
        BY <2>3, PcTyped, NoneEarlier, Places DEF TakeEnvelope, Goto
      <3> QED BY <1>2, <3>1 DEF Claims, Storing
    <2>4. CASE StoreEnvelope(r)
      BY <1>2, <2>4, StoreClaims
    <2>5. CASE AcceptBatch(r)
      BY <1>2, <2>5, AcceptClaims
    <2>6. CASE Answer(r)
      BY <1>2, <2>6, AnswerClaims
    <2> QED BY <1>2, <2>1, <2>2, <2>3, <2>4, <2>5, <2>6 DEF Handle
  <1>3. ASSUME NEW r \in Request,
               Refuse(r) \/ Limit(r) \/ (\E b \in Body : Admit(r, b)) \/ Handle(r)
        PROVE  ClaimInv'
    <2>1. \A e \in Event : Claims(r, e)' =>
               Claims(r, e) \/ (store[e] = NoEnvelope /\ store'[e] # NoEnvelope)
      BY <1>2, <1>3, SubmitClaims
    <2> QED BY <1>3, <2>1, ClaimsStay, OthersStay, StoreGrows
  <1> QED BY <1>1, <1>3 DEF Next

(* No two requests are told that they stored the same event first. *)
THEOREM FirstIsOne == Spec => []OneRequestIsFirst
  <1>1. TypeInv /\ TruthInv /\ ClaimInv /\ [Next]_vars => ClaimInv'
    BY ClaimStep
  <1>2. TypeInv /\ ClaimInv => OneRequestIsFirst
    <2> SUFFICES ASSUME TypeInv, ClaimInv, NEW r \in Request, NEW s \in Request, r # s,
                        NEW i \in DOMAIN body[r], NEW j \in DOMAIN body[s],
                        body[r][i].id = body[s][j].id, Said(r, i, "new"), Said(s, j, "new")
                 PROVE  FALSE
      BY DEF OneRequestIsFirst
    <2>1. body[r][i].id \in Event
      BY Places, EventsOf
    <2>2. Claims(r, body[r][i].id) /\ Claims(s, body[r][i].id)
      BY Places DEF Said, Claims
    <2> QED BY <2>1, <2>2 DEF ClaimInv
  <1> QED BY <1>1, <1>2, ClaimInit, Inductive, PTL DEF Spec

(***************************************************************************)
(* The limiter                                                             *)
(***************************************************************************)

(* Who was admitted from t on and before u; who was admitted since t.      *)
Between(t, u) == {r \in Request : t <= admitted[r] /\ admitted[r] < u}
Since(t) == {r \in Request : t <= admitted[r] /\ admitted[r] <= now}

Opened == bucket.resetAt # 0
Start == bucket.resetAt - Window

(* Everybody was admitted before the window ends, the first of them when   *)
(* it began; those of one window's length before it are fewer than the     *)
(* limit, since the one that opened their window came too early to be      *)
(* among them.                                                             *)
WindowInv ==
    /\ \A r \in Request : admitted[r] <= now \/ admitted[r] = Never
    /\ ~Opened => \A r \in Request : admitted[r] = Never
    /\ Opened =>
         /\ 0 <= Start /\ Start <= now
         /\ \A r \in Request : admitted[r] # Never => admitted[r] < bucket.resetAt
         /\ \E r \in Request : admitted[r] = Start
         /\ Cardinality(Since(Start)) <= bucket.count
         /\ \A t \in 0 .. now :
              t > Start - Window => Cardinality(Between(t, Start)) < maxRequests

Crowd(t) == {r \in Request : admitted[r] \in (t .. t + Window - 1) \cap (0 .. now)}
CrowdInv == \A t \in 0 .. now : Cardinality(Crowd(t)) < 2 * maxRequests

LEMMA Counts ==
    ASSUME NEW S, S \subseteq Request
    PROVE  IsFiniteSet(S) /\ Cardinality(S) \in Nat
  BY CollectorAssumption, FS_Subset, FS_CardinalityType

LEMMA Numbers ==
    ASSUME TypeInv
    PROVE  /\ now \in Nat /\ now <= MaxNow /\ MaxNow \in Nat /\ Never = MaxNow + 1
           /\ Window \in Nat /\ Window > 0
           /\ bucket.resetAt \in Nat /\ bucket.count \in Nat
           /\ bucket.count <= maxRequests /\ maxRequests \in Nat /\ maxRequests > 0
           /\ \A r \in Request : admitted[r] \in Nat /\ admitted[r] <= Never
  <1>1. MaxNow \in Nat /\ Window \in Nat \ {0} /\ Limits \subseteq Nat \ {0}
    BY CollectorAssumption
  <1>2. /\ now \in 0 .. MaxNow /\ maxRequests \in Limits
        /\ bucket \in [count : 0 .. maxRequests, resetAt : Nat]
        /\ admitted \in [Request -> 0 .. Never]
    BY DEF TypeInv, TypeOK
  <1>3. \A r \in Request : admitted[r] \in 0 .. Never
    BY <1>2
  <1> QED BY <1>1, <1>2, <1>3 DEF Never

(* Only admissions and the clock are seen by the limiter. *)
LEMMA WindowStays ==
    ASSUME WindowInv, CrowdInv, UNCHANGED <<bucket, now, admitted, maxRequests>>
    PROVE  WindowInv' /\ CrowdInv'
  BY DEF WindowInv, CrowdInv, Opened, Start, Since, Between, Crowd

LEMMA TickWindow ==
    ASSUME TypeInv, WindowInv, CrowdInv, Tick
    PROVE  WindowInv' /\ CrowdInv'
  <1>1. /\ now' = now + 1 /\ now' <= MaxNow
        /\ UNCHANGED <<bucket, admitted, maxRequests>>
    BY Numbers DEF Tick, host
  <1>2. \A r \in Request : admitted[r] # now'
    BY <1>1, Numbers DEF WindowInv
  <1>3. \A r \in Request : admitted[r] <= now' <=> admitted[r] <= now
    BY <1>1, <1>2, Numbers
  <1>4. Start' = Start /\ (Opened' <=> Opened) /\ Since(Start)' = Since(Start)
    BY <1>1, <1>3 DEF Start, Opened, Since
  <1>5. \A t \in 0 .. now' : t \in 0 .. now \/ t = now'
    BY <1>1, Numbers
  <1>6. Cardinality({}) = 0
    BY FS_EmptySet
  <1>7. WindowInv'
    <2>1. Opened => \A t \in 0 .. now' :
            t > Start - Window => Cardinality(Between(t, Start)') < maxRequests
      <3>1. \A t : Between(t, Start)' = Between(t, Start)
        BY <1>1, <1>4 DEF Between
      <3>2. Opened => Between(now', Start) = {}
        BY <1>1, Numbers DEF Between, WindowInv, Start
      <3> QED BY <1>5, <1>6, <3>1, <3>2, Numbers DEF WindowInv
    <2> QED BY <1>1, <1>3, <1>4, <2>1, Numbers DEF WindowInv
  <1>8. CrowdInv'
    <2>1. \A t \in 0 .. now : Crowd(t)' = Crowd(t)
      BY <1>1, <1>3, Numbers DEF Crowd
    <2>2. ASSUME NEW t \in Nat, t = now' PROVE Crowd(t)' = {}
      BY <1>1, <1>2, <2>2, Numbers DEF Crowd
    <2> SUFFICES ASSUME NEW t \in 0 .. now'
                 PROVE  Cardinality(Crowd(t)') < 2 * maxRequests
      BY <1>1 DEF CrowdInv
    <2>3. CASE t \in 0 .. now
      BY <2>1, <2>3 DEF CrowdInv
    <2>4. CASE t = now'
      BY <1>1, <1>6, <2>2, <2>4, Numbers
    <2> QED BY <1>5, <2>3, <2>4
  <1> QED BY <1>7, <1>8

(* Of a window nobody is counted twice, and who opened it is none of those *)
(* admitted later.                                                         *)
LEMMA Later ==
    ASSUME TypeInv, WindowInv, Opened, NEW t \in Nat, t > Start, NEW u \in Nat,
           \A r \in Request : admitted[r] < u => admitted[r] <= now
    PROVE  Cardinality(Between(t, u)) < maxRequests
  <1>1. PICK r \in Request : admitted[r] = Start
    BY DEF WindowInv
  <1>2. r \in Since(Start) /\ Start <= now
    BY <1>1, Numbers DEF Since, WindowInv, Start
  <1>3. /\ Since(Start) \subseteq Request
        /\ Between(t, u) \in SUBSET (Since(Start) \ {r})
    BY <1>1, Numbers DEF Since, Between, Start
  <1>4. Cardinality(Since(Start) \ {r}) = Cardinality(Since(Start)) - 1
    BY <1>2, <1>3, Counts, FS_RemoveElement
  <1>5. Cardinality(Between(t, u)) <= Cardinality(Since(Start) \ {r})
    BY <1>3, Counts, FS_Subset
  <1>6. /\ Cardinality(Since(Start)) \in Nat /\ Cardinality(Between(t, u)) \in Nat
        /\ Cardinality(Since(Start)) <= bucket.count
    BY <1>3, Counts DEF WindowInv, Between
  <1> QED BY <1>4, <1>5, <1>6, Numbers

LEMMA AdmitWindow ==
    ASSUME TypeInv, TypeInv', WindowInv, NEW r \in Request, NEW b \in Body, Admit(r, b)
    PROVE  WindowInv'
  <1>1. /\ admitted[r] = Never /\ UNCHANGED <<now, maxRequests>> /\ Never > now
        /\ admitted'[r] = now
        /\ \A s \in Request \ {r} : admitted'[s] = admitted[s]
    BY Numbers DEF Admit, host, TypeInv, TypeOK, Placed
  <1>2. \A s \in Request : admitted'[s] <= now \/ admitted'[s] = Never
    BY <1>1, Numbers DEF WindowInv
  <1>3. CASE now >= bucket.resetAt
    <2>1. /\ bucket'.count = 1 /\ bucket'.resetAt = now + Window
          /\ Opened' /\ Start' = now
      BY <1>1, <1>3, Numbers DEF Admit, Counted, Opened, Start
    <2>2. \A s \in Request : admitted[s] # Never => admitted[s] < now
      BY <1>3, Numbers DEF WindowInv, Opened
    <2>3. Since(Start)' = {r}
      BY <1>1, <2>1, <2>2, Numbers DEF Since
    <2>4. Cardinality(Since(Start)') <= 1
      BY <2>3, FS_Singleton
    <2>5. ASSUME NEW t \in 0 .. now, t > now - Window
          PROVE  Cardinality(Between(t, Start)') < maxRequests
      <3>1. Between(t, Start)' = Between(t, now)
        BY <1>1, <2>1, Numbers DEF Between
      <3>2. CASE Opened
        <4>1. t > Start /\ t \in Nat
          BY <1>3, <2>5, Numbers DEF Start
        <4>2. \A s \in Request : admitted[s] < now => admitted[s] <= now
          BY Numbers
        <4> QED BY <3>1, <3>2, <4>1, <4>2, Later, Numbers
      <3>3. CASE ~Opened
        <4>1. Between(t, now) = {}
          BY <1>1, <3>3, Numbers DEF Between, WindowInv
        <4> QED BY <3>1, <4>1, FS_EmptySet, Numbers
      <3> QED BY <3>2, <3>3
    <2>6. \A s \in Request : admitted'[s] # Never => admitted'[s] < bucket'.resetAt
      BY <1>1, <1>2, <2>1, Numbers
    <2> QED BY <1>1, <1>2, <2>1, <2>4, <2>5, <2>6, Numbers DEF WindowInv
  <1>4. CASE ~(now >= bucket.resetAt)
    <2>1. /\ bucket'.count = bucket.count + 1 /\ bucket'.resetAt = bucket.resetAt
          /\ Opened /\ Opened' /\ Start' = Start /\ now < bucket.resetAt
      BY <1>1, <1>4, Numbers DEF Admit, Counted, Opened, Start, TypeInv, TypeOK
    <2>2. Since(Start)' = Since(Start) \cup {r} /\ Since(Start) \subseteq Request
      BY <1>1, <2>1, Numbers DEF Since, WindowInv, Start
    <2>3. Cardinality(Since(Start)') <= bucket'.count
      <3>1. /\ Cardinality(Since(Start)) \in Nat
            /\ Cardinality(Since(Start)) <= bucket.count
        BY <2>1, <2>2, Counts DEF WindowInv
      <3>2. Cardinality(Since(Start) \cup {r}) <= Cardinality(Since(Start)) + 1
        BY <2>2, <3>1, Counts, FS_AddElement
      <3>3. Cardinality(Since(Start) \cup {r}) \in Nat
        BY <2>2, Counts
      <3> QED BY <2>1, <2>2, <3>1, <3>2, <3>3, Numbers
    <2>4. \A t : Between(t, Start)' = Between(t, Start)
      BY <1>1, <2>1, Numbers DEF Between, WindowInv, Start
    <2>5. \E s \in Request : admitted'[s] = Start
      <3>1. PICK s \in Request : admitted[s] = Start
        BY <2>1 DEF WindowInv
      <3>2. s # r
        BY <1>1, <2>1, <3>1, Numbers DEF WindowInv, Start
      <3> QED BY <1>1, <3>1, <3>2
    <2>6. \A s \in Request : admitted'[s] # Never => admitted'[s] < bucket'.resetAt
      BY <1>1, <2>1, Numbers DEF WindowInv
    <2> QED BY <1>1, <1>2, <2>1, <2>3, <2>4, <2>5, <2>6, Numbers DEF WindowInv
  <1> QED BY <1>3, <1>4

(* Within one window's length of now: those of the open window and those   *)
(* shortly before it.                                                      *)
RecentCrowd ==
    \A t \in 0 .. now : t > now - Window => Cardinality(Crowd(t)) < 2 * maxRequests

LEMMA CrowdNow == TypeInv /\ WindowInv => RecentCrowd
  <1> SUFFICES ASSUME TypeInv, WindowInv, NEW t \in 0 .. now, t > now - Window
               PROVE  Cardinality(Crowd(t)) < 2 * maxRequests
    BY DEF RecentCrowd
  <1>1. CASE ~Opened
    <2>1. Crowd(t) = {}
      BY <1>1, Numbers DEF Crowd, WindowInv
    <2> QED BY <2>1, FS_EmptySet, Numbers
  <1>2. CASE Opened
    <2>1. t > Start - Window
      BY <1>2, Numbers DEF WindowInv, Start
    <2>2. /\ Between(t, Start) \subseteq Request /\ Since(Start) \subseteq Request
          /\ Crowd(t) \in SUBSET (Between(t, Start) \cup Since(Start))
      BY Numbers DEF Between, Since, Crowd, Start
    <2>3. /\ Cardinality(Between(t, Start)) < maxRequests
          /\ Cardinality(Since(Start)) <= bucket.count
      BY <1>2, <2>1 DEF WindowInv
    <2>4. PICK p, q, both, c :
            /\ p = Cardinality(Between(t, Start)) /\ p \in Nat
            /\ q = Cardinality(Since(Start)) /\ q \in Nat
            /\ both = Cardinality(Between(t, Start) \cap Since(Start)) /\ both \in Nat
            /\ c = Cardinality(Crowd(t)) /\ c \in Nat
      <3>1. /\ Between(t, Start) \cap Since(Start) \subseteq Request
            /\ Crowd(t) \subseteq Request
        BY <2>2 DEF Crowd
      <3> QED BY <2>2, <3>1, Counts
    <2>5. /\ IsFiniteSet(Between(t, Start) \cup Since(Start))
          /\ Cardinality(Between(t, Start) \cup Since(Start)) = p + q - both
      BY <2>2, <2>4, Counts, FS_Union
    <2>6. c <= p + q - both
      BY <2>2, <2>4, <2>5, FS_Subset
    <2> QED BY <2>3, <2>4, <2>6, Numbers
  <1> QED BY <1>1, <1>2

LEMMA CrowdThen == TypeInv' /\ WindowInv' => RecentCrowd'
  BY CrowdNow, PTL

LEMMA AdmitCrowd ==
    ASSUME TypeInv, TypeInv', WindowInv, CrowdInv, NEW r \in Request, NEW b \in Body,
           Admit(r, b)
    PROVE  CrowdInv'
  <1>1. /\ admitted[r] = Never /\ UNCHANGED <<now, maxRequests>>
        /\ admitted'[r] = now /\ Never > now
        /\ \A s \in Request \ {r} : admitted'[s] = admitted[s]
    BY Numbers DEF Admit, host, TypeInv, TypeOK, Placed
  <1> SUFFICES ASSUME NEW t \in 0 .. now PROVE Cardinality(Crowd(t)') < 2 * maxRequests
    BY <1>1 DEF CrowdInv
  <1>2. CASE t > now - Window
    <2>1. WindowInv'
      BY AdmitWindow
    <2>2. t \in 0 .. now' /\ t > now' - Window
      BY <1>1, <1>2
    <2>3. Cardinality(Crowd(t)') < 2 * maxRequests'
      BY <2>1, <2>2, CrowdThen DEF RecentCrowd
    <2> QED BY <1>1, <2>3
  <1>3. CASE ~(t > now - Window)
    <2>1. Crowd(t)' = Crowd(t)
      BY <1>1, <1>3, Numbers DEF Crowd
    <2> QED BY <2>1 DEF CrowdInv
  <1> QED BY <1>2, <1>3

LEMMA WindowInit == Init => WindowInv /\ CrowdInv
  <1> SUFFICES ASSUME Init PROVE WindowInv /\ CrowdInv
    OBVIOUS
  <1>1. /\ bucket.resetAt = 0 /\ now = 0 /\ \A r \in Request : admitted[r] = Never
        /\ TypeInv
    BY TypeInit DEF Init
  <1>2. WindowInv
    BY <1>1 DEF WindowInv, Opened
  <1>3. \A t \in 0 .. now : Crowd(t) = {}
    BY <1>1, Numbers DEF Crowd
  <1>4. Cardinality({}) = 0 /\ 0 < 2 * maxRequests
    BY <1>1, FS_EmptySet, Numbers
  <1>5. CrowdInv
    BY <1>3, <1>4 DEF CrowdInv
  <1> QED BY <1>2, <1>5

LEMMA LimiterStep ==
    ASSUME TypeInv, WindowInv, CrowdInv, [Next]_vars
    PROVE  WindowInv' /\ CrowdInv'
  <1>1. TypeInv'
    BY TypeStep
  <1>2. CASE UNCHANGED vars
    BY <1>2, WindowStays DEF vars, host, limiter
  <1>3. CASE Tick
    BY <1>3, TickWindow
  <1>4. ASSUME NEW r \in Request, NEW b \in Body, Admit(r, b)
        PROVE  WindowInv' /\ CrowdInv'
    BY <1>1, <1>4, AdmitWindow, AdmitCrowd
  <1>5. ASSUME NEW r \in Request, Refuse(r) \/ Limit(r) \/ Handle(r)
        PROVE  WindowInv' /\ CrowdInv'
    <2>1. UNCHANGED <<bucket, now, admitted, maxRequests>>
      BY <1>5 DEF Refuse, Limit, Handle, Prepare, Compare, Judge, Submit, TakeEnvelope,
         StoreEnvelope, AcceptBatch, AcceptFails, Answer, host, limiter
    <2> QED BY <2>1, WindowStays
  <1> QED BY <1>2, <1>3, <1>4, <1>5 DEF Next

(* Since the open window began, no more than maxRequests have passed the   *)
(* limiter; and within the length of a window, across the end of one and   *)
(* the start of the next, fewer than twice as many.                        *)
THEOREM AdmissionsAreBounded == Spec => []AdmissionsBounded
  <1>1. WindowInv /\ CrowdInv /\ TypeInv /\ [Next]_vars => (WindowInv /\ CrowdInv)'
    BY LimiterStep
  <1>2. TypeInv /\ WindowInv /\ CrowdInv => AdmissionsBounded
    <2> SUFFICES ASSUME TypeInv, WindowInv, CrowdInv PROVE AdmissionsBounded
      OBVIOUS
    <2> DEFINE Open == {t \in 0 .. now : t + Window >= bucket.resetAt}
               Admissions == {r \in Request : admitted[r] \in Open}
    <2>1. Cardinality(Admissions) <= maxRequests
      <3>1. CASE Opened
        <4>1. Admissions = Since(Start)
          BY <3>1, Numbers DEF Since, Start, WindowInv
        <4>2. /\ Since(Start) \subseteq Request
              /\ Cardinality(Since(Start)) <= bucket.count
          BY <3>1 DEF WindowInv, Since
        <4> QED BY <4>1, <4>2, Counts, Numbers
      <3>2. CASE ~Opened
        <4>1. Admissions = {}
          BY <3>2, Numbers DEF WindowInv
        <4> QED BY <4>1, FS_EmptySet, Numbers
      <3> QED BY <3>1, <3>2
    <2>2. \A t \in 0 .. now : Cardinality(Crowd(t)) < 2 * maxRequests
      BY DEF CrowdInv
    <2> QED BY <2>1, <2>2 DEF AdmissionsBounded, Crowd
  <1> QED BY <1>1, <1>2, TypeInit, WindowInit, Inductive, PTL DEF Spec
=============================================================================
