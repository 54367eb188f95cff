------------------------ MODULE ScopedAcceptanceProofs ------------------------
(***************************************************************************)
(* Proofs about ScopedAcceptance: types, that no event is stored twice,    *)
(* that it implements FirstWriteWins, that the counter of accepted events  *)
(* is right, and that the requests never all wait unless the pool is used  *)
(* up, for any requests, batches, payloads, pool sizes and failures.       *)
(***************************************************************************)
EXTENDS ScopedAcceptance, FiniteSetTheorems, WellFoundedInduction, TLAPS

(***************************************************************************)
(* Types                                                                   *)
(***************************************************************************)
(* What follows one envelope: how far a request is in its batch. *)
Writing == {"insertInbox", "select", "insertEvent"}

Bounded(r) ==
    /\ pc[r] = "new" => outcomes[r] = <<>>
    /\ pc[r] = "next" => Len(outcomes[r]) <= Len(batch[r])
    /\ pc[r] \in Writing => Len(outcomes[r]) < Len(batch[r])
    /\ r \in Single /\ pc[r] \in InTransaction => Len(batch[r]) = 1

TypeInv == TypeOK /\ \A r \in Request : Bounded(r)

Label == {"new"} \cup Holding \cup Over

LEMMA Labels ==
    /\ {"new", "next", "insertInbox", "select", "insertEvent", "counting",
        "failing", "retrying", "ok", "storage-error", "thrown", "gone"} = Label
    /\ InTransaction = {"next", "insertInbox", "select", "insertEvent"}
    /\ InTransaction = {"next"} \cup Writing
    /\ Holding = InTransaction \cup {"counting", "failing", "retrying"}
  BY DEF Label, Holding, InTransaction, Over, Writing

LEMMA BatchItems ==
    ASSUME TypeInv, NEW r \in Request
    PROVE  /\ batch[r] \in Seq(Item) /\ outcomes[r] \in Seq(Verdict)
           /\ Len(outcomes[r]) \in Nat /\ Len(batch[r]) \in Nat
           /\ \A i \in 1 .. Len(batch[r]) : batch[r][i] \in Item
           /\ pc[r] = "next" /\ ~AllDone(r) => Len(outcomes[r]) < Len(batch[r])
           /\ Len(outcomes[r]) < Len(batch[r]) => Current(r) \in Item
  <1>1. batch[r] \in Seq(Item) /\ outcomes[r] \in Seq(Verdict)
    <2>1. batch[r] \in Batch \cup {<<>>} /\ outcomes[r] \in Seq(Verdict)
      BY DEF TypeInv, TypeOK
    <2>2. Batch \subseteq Seq(Item) /\ <<>> \in Seq(Item)
      BY AcceptanceAssumption
    <2> QED BY <2>1, <2>2
  <1>2. Len(outcomes[r]) \in Nat /\ Len(batch[r]) \in Nat
    BY <1>1
  <1>3. \A i \in 1 .. Len(batch[r]) : batch[r][i] \in Item
    BY <1>1
  <1>4. pc[r] = "next" /\ ~AllDone(r) => Len(outcomes[r]) < Len(batch[r])
    BY <1>2 DEF TypeInv, Bounded, AllDone
  <1>5. Len(outcomes[r]) < Len(batch[r]) => Current(r) \in Item
    BY <1>2, <1>3 DEF Current
  <1> QED BY <1>1, <1>2, <1>3, <1>4, <1>5

(* A request changes what is its own, and nothing of the others. *)
Others(r) ==
    \A s \in Request \ {r} :
        /\ pc'[s] = pc[s] /\ batch'[s] = batch[s] /\ outcomes'[s] = outcomes[s]
        /\ ownInbox'[s] = ownInbox[s] /\ ownEvents'[s] = ownEvents[s]
        /\ locked'[s] = locked[s]

LEMMA OthersStay ==
    ASSUME TypeInv, NEW r \in Request,
           (\E b \in Batch : Start(r, b)) \/ Proceed(r) \/ Break(r)
    PROVE  Others(r)
  <1> USE DEF tables, work, history, Goto, Others, TypeInv, TypeOK
  <1>1. ASSUME NEW b \in Batch, Start(r, b) PROVE Others(r)
    BY <1>1 DEF Start
  <1>2. CASE TakeEnvelope(r)
    BY <1>2 DEF TakeEnvelope, Conclude
  <1>3. CASE InsertInbox(r)
    BY <1>3 DEF InsertInbox
  <1>4. CASE SelectExisting(r)
    BY <1>4 DEF SelectExisting, Conclude
  <1>5. CASE InsertEvent(r)
    BY <1>5 DEF InsertEvent, Conclude
  <1>6. CASE Commit(r) \/ CommitUnacknowledged(r)
    BY <1>6 DEF Commit, CommitUnacknowledged, TakeEffect, EndTransaction
  <1>7. CASE StatementFails(r) \/ DeadlockVictim(r) \/ Interrupted(r)
    BY <1>7 DEF StatementFails, DeadlockVictim, Interrupted, Rollback, EndTransaction
  <1>8. CASE CountOutcome(r) \/ CountFails(r) \/ CountFailure(r) \/ CountFailureFails(r)
    BY <1>8 DEF CountOutcome, CountFails, CountFailure, CountFailureFails
  <1> QED BY <1>1, <1>2, <1>3, <1>4, <1>5, <1>6, <1>7, <1>8 DEF Proceed, Break

(* The verdict on an envelope, and where the request goes. *)
LEMMA Concluded ==
    ASSUME TypeInv, NEW r \in Request, NEW v \in Verdict, Conclude(r, v),
           pc[r] \in InTransaction, Len(outcomes[r]) < Len(batch[r]),
           UNCHANGED batch
    PROVE  /\ outcomes' \in [Request -> Seq(Verdict)]
           /\ outcomes'[r] = Append(outcomes[r], v)
           /\ Len(outcomes'[r]) = Len(outcomes[r]) + 1
           /\ outcomes'[r][Len(outcomes[r]) + 1] = v
           /\ \A i \in 1 .. Len(outcomes[r]) : outcomes'[r][i] = outcomes[r][i]
           /\ pc' \in [Request -> Label]
           /\ pc'[r] = IF r \in Single /\ v \in {"conflict", "unknown"}
                       THEN "ok" ELSE "next"
           /\ Bounded(r)'
  <1>1. /\ pc \in [Request -> Label] /\ outcomes \in [Request -> Seq(Verdict)]
        /\ outcomes[r] \in Seq(Verdict) /\ Len(outcomes[r]) \in Nat /\ Len(batch[r]) \in Nat
    BY BatchItems DEF TypeInv, TypeOK, Label
  <1>2. outcomes'[r] = Append(outcomes[r], v) /\ Append(outcomes[r], v) \in Seq(Verdict)
    BY <1>1 DEF Conclude
  <1>3. /\ Len(outcomes'[r]) = Len(outcomes[r]) + 1
        /\ outcomes'[r][Len(outcomes[r]) + 1] = v
        /\ \A i \in 1 .. Len(outcomes[r]) : outcomes'[r][i] = outcomes[r][i]
    BY <1>1, <1>2
  <1>4. outcomes' \in [Request -> Seq(Verdict)]
    BY <1>1, <1>2 DEF Conclude
  <1>5. /\ pc'[r] = IF r \in Single /\ v \in {"conflict", "unknown"} THEN "ok" ELSE "next"
        /\ pc' \in [Request -> Label]
    BY <1>1, Labels DEF Conclude, Goto
  <1>6. Bounded(r)'
    BY <1>1, <1>3, <1>5, Labels DEF Bounded, TypeInv, Writing
  <1> QED BY <1>2, <1>3, <1>4, <1>5, <1>6

LEMMA TakenVerdict ==
    ASSUME TypeInv, NEW r \in Request, TakeEnvelope(r)
    PROVE  \/ \E v \in Verdict : Conclude(r, v)
           \/ Goto(r, "insertInbox") /\ UNCHANGED outcomes
  BY DEF TakeEnvelope, Verdict

LEMMA TypeInit == Init => TypeInv
  <1> SUFFICES ASSUME Init PROVE TypeInv
    OBVIOUS
  <1>1. inbox \in [Event -> Payload \cup {NoPayload}]
    BY AcceptanceAssumption DEF Init
  <1>2. Rows(inbox) \subseteq Event /\ IsFiniteSet(Rows(inbox))
    BY AcceptanceAssumption, FS_Subset DEF Rows
  <1>3. stored \in Nat
    BY <1>2, FS_CardinalityType DEF Init
  <1>4. NoRows \in [Event -> Payload \cup {NoPayload}]
    BY DEF NoRows
  <1>5. <<>> \in Seq(Verdict)
    OBVIOUS
  <1>6. \A r \in Request : Bounded(r)
    BY Labels DEF Init, Bounded, Writing
  <1>7. TypeOK
    BY <1>1, <1>3, <1>4, <1>5 DEF Init, TypeOK
  <1> QED BY <1>6, <1>7 DEF TypeInv

LEMMA PcTyped == TypeInv => pc \in [Request -> Label]
  BY DEF TypeInv, TypeOK, Label

LEMMA NoRowsTyped == NoRows \in [Event -> Payload \cup {NoPayload}]
  BY DEF NoRows

(* Bounds of a request that is not in a transaction any more. *)
LEMMA OverBounded ==
    ASSUME NEW r \in Request, pc'[r] \in Label \ ({"new"} \cup InTransaction)
    PROVE  Bounded(r)'
  BY Labels DEF Bounded

LEMMA OwnBoundsSuffice ==
    ASSUME TypeInv, NEW r \in Request, Others(r), Bounded(r)'
    PROVE  \A s \in Request : Bounded(s)'
  BY DEF TypeInv, Others, Bounded

LEMMA StartTyped ==
    ASSUME TypeInv, NEW r \in Request, NEW b \in Batch, Start(r, b)
    PROVE  TypeInv'
  <1> USE DEF tables, history
  <1>1. /\ b \in Seq(Item) /\ b # <<>> /\ Len(b) \in Nat /\ DOMAIN b = 1 .. Len(b)
        /\ b \in Batch
    BY AcceptanceAssumption
  <1>2. [i \in DOMAIN b |-> "unknown"] \in Seq(Verdict)
    BY <1>1 DEF Verdict
  <1>3. /\ batch' = [batch EXCEPT ![r] = b] /\ batch'[r] = b
        /\ batch' \in [Request -> Batch \cup {<<>>}]
    BY <1>1 DEF Start, TypeInv, TypeOK
  <1>4. /\ outcomes' \in [Request -> Seq(Verdict)]
        /\ pc' \in [Request -> Label] /\ pc'[r] \in {"next", "ok"}
        /\ pc'[r] = "next" => outcomes'[r] = <<>>
    <2>1. outcomes \in [Request -> Seq(Verdict)] /\ pc[r] = "new" /\ outcomes[r] = <<>>
      BY DEF Start, TypeInv, TypeOK, Bounded
    <2>2. CASE registered
      BY <2>1, <2>2, PcTyped, Labels DEF Start, Goto
    <2>3. CASE ~registered
      BY <1>2, <2>1, <2>3, PcTyped, Labels DEF Start, Goto
    <2> QED BY <2>2, <2>3
  <1>5. Bounded(r)'
    <2>1. CASE pc'[r] = "ok"
      BY <2>1, Labels, OverBounded
    <2>2. CASE pc'[r] = "next"
      BY <2>2, <1>1, <1>3, <1>4, Labels DEF Bounded, Writing, Start
    <2> QED BY <1>4, <2>1, <2>2
  <1>6. TypeOK'
    BY <1>3, <1>4 DEF Start, TypeInv, TypeOK, Label
  <1> QED BY <1>5, <1>6, OthersStay, OwnBoundsSuffice DEF TypeInv

LEMMA TakeTyped ==
    ASSUME TypeInv, NEW r \in Request, TakeEnvelope(r)
    PROVE  TypeInv'
  <1> USE DEF tables, history
  <1>1. pc[r] = "next" /\ Len(outcomes[r]) < Len(batch[r]) /\ UNCHANGED batch
    BY BatchItems DEF TakeEnvelope
  <1>2. /\ outcomes' \in [Request -> Seq(Verdict)] /\ pc' \in [Request -> Label]
        /\ Bounded(r)'
    <2>1. CASE \E v \in Verdict : Conclude(r, v)
      BY <1>1, <2>1, Concluded, Labels
    <2>2. CASE Goto(r, "insertInbox") /\ UNCHANGED outcomes
      BY <1>1, <2>2, Labels DEF Goto, TypeInv, TypeOK, Label, Bounded, Writing
    <2> QED BY <2>1, <2>2, TakenVerdict
  <1>3. TypeOK'
    BY <1>2 DEF TakeEnvelope, TypeInv, TypeOK, Label
  <1> QED BY <1>2, <1>3, OthersStay, OwnBoundsSuffice DEF TypeInv, Proceed

LEMMA InsertTyped ==
    ASSUME TypeInv, NEW r \in Request, InsertInbox(r)
    PROVE  TypeInv'
  <1> USE DEF tables, history
  <1>1. /\ pc[r] = "insertInbox" /\ Len(outcomes[r]) < Len(batch[r])
        /\ Current(r) \in Item
    BY BatchItems DEF InsertInbox, TypeInv, Bounded, Writing
  <1>2. /\ pc' \in [Request -> Label] /\ pc'[r] \in {"insertEvent", "select"}
    BY Labels, PcTyped DEF InsertInbox, Goto
  <1>3. ownInbox' \in [Request -> [Event -> Payload \cup {NoPayload}]]
    <2>1. Current(r).id \in Event /\ Current(r).payload \in Payload
      BY <1>1 DEF Item
    <2>2. ownInbox \in [Request -> [Event -> Payload \cup {NoPayload}]]
      BY DEF TypeInv, TypeOK
    <2>3. CASE UNCHANGED ownInbox
      BY <2>2, <2>3
    <2>4. CASE ownInbox' = [ownInbox EXCEPT ![r][Current(r).id] = Current(r).payload]
      <3> DEFINE own == [ownInbox[r] EXCEPT ![Current(r).id] = Current(r).payload]
      <3>1. own \in [Event -> Payload \cup {NoPayload}]
        BY <2>1, <2>2
      <3>2. ownInbox' = [ownInbox EXCEPT ![r] = own]
        BY <2>4
      <3> HIDE DEF own
      <3> QED BY <2>2, <3>1, <3>2
    <2> QED BY <2>3, <2>4 DEF InsertInbox
  <1>4. Bounded(r)'
    BY <1>1, <1>2, Labels DEF InsertInbox, TypeInv, Bounded, Writing
  <1>5. TypeOK'
    BY <1>2, <1>3 DEF InsertInbox, TypeInv, TypeOK, Label
  <1> QED BY <1>4, <1>5, OthersStay, OwnBoundsSuffice DEF TypeInv, Proceed

(* What SELECT ... FOR UPDATE finds. *)
LEMMA Selected ==
    ASSUME NEW r \in Request, SelectExisting(r), Current(r) \in Item,
           NEW e, e = Current(r).id
    PROVE  \/ inbox[e] = NoPayload /\ Conclude(r, "unknown") /\ UNCHANGED locked
           \/ /\ inbox[e] # NoPayload /\ inbox[e] = Current(r).payload
              /\ Conclude(r, "duplicate")
              /\ locked' = [locked EXCEPT ![r] = @ \cup {e}]
           \/ /\ inbox[e] # NoPayload /\ inbox[e] # Current(r).payload
              /\ Conclude(r, "conflict") /\ UNCHANGED locked
  <1>1. Current(r).payload # NoPayload
    BY AcceptanceAssumption DEF Item
  <1>2. CASE inbox[e] = NoPayload
    BY <1>1, <1>2 DEF SelectExisting
  <1>3. CASE inbox[e] = Current(r).payload
    BY <1>1, <1>3 DEF SelectExisting
  <1>4. CASE inbox[e] # NoPayload /\ inbox[e] # Current(r).payload
    BY <1>4 DEF SelectExisting
  <1> QED BY <1>2, <1>3, <1>4

LEMMA SelectTyped ==
    ASSUME TypeInv, NEW r \in Request, SelectExisting(r)
    PROVE  TypeInv'
  <1> USE DEF tables, history
  <1>1. /\ pc[r] = "select" /\ Len(outcomes[r]) < Len(batch[r])
        /\ Current(r) \in Item /\ UNCHANGED batch
    BY BatchItems DEF SelectExisting, TypeInv, Bounded, Writing
  <1>2. \E v \in Verdict : Conclude(r, v)
    BY <1>1, Selected DEF Verdict
  <1>3. /\ outcomes' \in [Request -> Seq(Verdict)] /\ pc' \in [Request -> Label]
        /\ Bounded(r)'
    BY <1>1, <1>2, Concluded, Labels
  <1>4. locked' \in [Request -> SUBSET Event]
    <2>1. locked \in [Request -> SUBSET Event] /\ Current(r).id \in Event
      BY <1>1 DEF TypeInv, TypeOK, Item
    <2>2. \/ UNCHANGED locked
          \/ locked' = [locked EXCEPT ![r] = @ \cup {Current(r).id}]
      BY <1>1, Selected
    <2> QED BY <2>1, <2>2
  <1>5. TypeOK'
    BY <1>3, <1>4 DEF SelectExisting, TypeInv, TypeOK, Label
  <1> QED BY <1>3, <1>5, OthersStay, OwnBoundsSuffice DEF TypeInv, Proceed

LEMMA EventTyped ==
    ASSUME TypeInv, NEW r \in Request, InsertEvent(r)
    PROVE  TypeInv'
  <1> USE DEF tables, history
  <1>1. /\ pc[r] = "insertEvent" /\ Len(outcomes[r]) < Len(batch[r])
        /\ Current(r) \in Item /\ UNCHANGED batch
    BY BatchItems DEF InsertEvent, TypeInv, Bounded, Writing
  <1>2. "new" \in Verdict /\ Conclude(r, "new")
    BY DEF Verdict, InsertEvent
  <1>3. /\ outcomes' \in [Request -> Seq(Verdict)] /\ pc' \in [Request -> Label]
        /\ Bounded(r)'
    BY <1>1, <1>2, Concluded, Labels
  <1>4. ownEvents' \in [Request -> [Event -> Payload \cup {NoPayload}]]
    <2>1. Current(r).id \in Event /\ Current(r).payload \in Payload
      BY <1>1 DEF Item
    <2>2. ownEvents \in [Request -> [Event -> Payload \cup {NoPayload}]]
      BY DEF TypeInv, TypeOK
    <2> DEFINE own == [ownEvents[r] EXCEPT ![Current(r).id] = Current(r).payload]
    <2>3. own \in [Event -> Payload \cup {NoPayload}]
      BY <2>1, <2>2
    <2>4. ownEvents' = [ownEvents EXCEPT ![r] = own]
      BY DEF InsertEvent
    <2> HIDE DEF own
    <2> QED BY <2>2, <2>3, <2>4
  <1>5. TypeOK'
    BY <1>3, <1>4 DEF InsertEvent, TypeInv, TypeOK, Label
  <1> QED BY <1>3, <1>5, OthersStay, OwnBoundsSuffice DEF TypeInv, Proceed

LEMMA EndTyped ==
    ASSUME TypeInv, NEW r \in Request, EndTransaction(r)
    PROVE  /\ {ownInbox', ownEvents'} \subseteq
                [Request -> [Event -> Payload \cup {NoPayload}]]
           /\ locked' \in [Request -> SUBSET Event]
           /\ ownInbox'[r] = NoRows /\ ownEvents'[r] = NoRows /\ locked'[r] = {}
  BY NoRowsTyped DEF EndTransaction, TypeInv, TypeOK

LEMMA CommitTyped ==
    ASSUME TypeInv, NEW r \in Request, Commit(r) \/ CommitUnacknowledged(r)
    PROVE  TypeInv'
  <1>1. TakeEffect(r) /\ EndTransaction(r) /\ UNCHANGED <<registered, batch,
          outcomes, counted, ops, purges>>
    BY DEF Commit, CommitUnacknowledged, TakeEffect
  <1>2. /\ inbox' \in [Event -> Payload \cup {NoPayload}]
        /\ events' \in [Event -> Payload \cup {NoPayload}]
        /\ ever' \in [Event -> SUBSET Payload]
        /\ committed' \in SUBSET Request
    BY <1>1 DEF TakeEffect, Merged, TypeInv, TypeOK
  <1>3. stored' \in Nat
    <2>1. Rows(ownEvents[r]) \subseteq Event
      BY DEF Rows
    <2>2. Cardinality(Rows(ownEvents[r])) \in Nat
      BY <2>1, AcceptanceAssumption, FS_Subset, FS_CardinalityType
    <2> QED BY <1>1, <2>2 DEF TakeEffect, TypeInv, TypeOK
  <1>4. failures' \in Nat
    BY DEF Commit, CommitUnacknowledged, TypeInv, TypeOK
  <1>5. pc' \in [Request -> Label] /\ pc'[r] \in {"counting", "ok", "thrown"}
    BY Labels DEF Commit, CommitUnacknowledged, Goto, TypeInv, TypeOK, Label
  <1>6. Bounded(r)'
    BY <1>5, Labels, OverBounded
  <1>7. TypeOK'
    BY <1>1, <1>2, <1>3, <1>4, <1>5, EndTyped DEF TypeInv, TypeOK, Label
  <1> QED BY <1>6, <1>7, OthersStay, OwnBoundsSuffice DEF TypeInv, Proceed, Break

(* A transaction that comes to nothing. *)
Abandons(r) ==
    /\ EndTransaction(r)
    /\ pc[r] \in Holding
    /\ \E label \in {"thrown", "failing", "storage-error", "gone"} : Goto(r, label)
    /\ UNCHANGED <<tables, batch, outcomes, counted, ops, history, purges>>

LEMMA Abandoned ==
    ASSUME TypeInv, NEW r \in Request,
           StatementFails(r) \/ DeadlockVictim(r) \/ Interrupted(r)
    PROVE  Abandons(r) /\ failures' \in Nat
  <1>1. failures' \in Nat
    BY DEF StatementFails, DeadlockVictim, Interrupted, TypeInv, TypeOK
  <1>2. AfterError(r) \in {"thrown", "failing", "storage-error"}
    BY DEF AfterError
  <1>3. \E label \in {"thrown", "failing", "storage-error", "gone"} : Rollback(r, label)
    BY <1>2 DEF StatementFails, DeadlockVictim, Interrupted
  <1>4. pc[r] \in Holding
    <2>1. CASE DeadlockVictim(r)
      <3>1. \E s \in Request : WaitsFor(r, s)
        BY <2>1 DEF DeadlockVictim, Deadlocked
      <3> QED BY <3>1, Labels DEF WaitsFor
    <2> QED BY <2>1, Labels DEF StatementFails, Interrupted
  <1> QED BY <1>1, <1>3, <1>4 DEF Abandons, Rollback

LEMMA AbandonTyped ==
    ASSUME TypeInv, NEW r \in Request,
           StatementFails(r) \/ DeadlockVictim(r) \/ Interrupted(r)
    PROVE  TypeInv'
  <1> USE DEF tables, history
  <1>1. Abandons(r) /\ failures' \in Nat
    BY Abandoned
  <1>2. /\ pc' \in [Request -> Label]
        /\ pc'[r] \in {"thrown", "failing", "storage-error", "gone"}
    BY <1>1, Labels DEF Abandons, Goto, TypeInv, TypeOK, Label
  <1>3. Bounded(r)'
    BY <1>2, Labels, OverBounded
  <1>4. TypeOK'
    BY <1>1, <1>2, EndTyped DEF Abandons, TypeInv, TypeOK, Label
  <1> QED BY <1>3, <1>4, OthersStay, OwnBoundsSuffice DEF TypeInv, Proceed, Break

(* The counters touch no table, and only a committed batch ends well. *)
Counts(r) ==
    /\ pc[r] \in {"counting", "failing", "retrying"}
    /\ pc'[r] \in {"counting", "ok", "failing", "retrying", "storage-error", "thrown"}
    /\ pc'[r] \in {"counting", "ok"} => pc[r] = "counting"
    /\ UNCHANGED <<tables, work, history, purges>>

LEMMA Counted ==
    ASSUME TypeInv, NEW r \in Request,
           CountOutcome(r) \/ CountFails(r) \/ CountFailure(r) \/ CountFailureFails(r)
    PROVE  /\ Counts(r)
           /\ pc' \in [Request -> Label]
           /\ ops' \in [Metric -> Nat] /\ counted' \in [Request -> Nat]
           /\ failures' \in Nat
  <1>1. pc \in [Request -> Label] /\ failures \in Nat
    BY DEF TypeInv, TypeOK, Label
  <1>2. /\ Counts(r) /\ pc' \in [Request -> Label] /\ failures' \in Nat
    BY <1>1, Labels
       DEF Counts, CountOutcome, CountFails, CountFailure, CountFailureFails, Goto
  <1>3. Len(batch[r]) \in Nat
    BY BatchItems
  <1>4. ops' \in [Metric -> Nat] /\ counted' \in [Request -> Nat]
    <2>1. ops \in [Metric -> Nat] /\ counted \in [Request -> Nat]
      BY DEF TypeInv, TypeOK
    <2>2. CASE CountOutcome(r)
      <3> DEFINE m == MetricOf(outcomes[r][counted[r] + 1])
      <3>1. ops' = [ops EXCEPT ![m] = @ + 1] /\ counted' = [counted EXCEPT ![r] = @ + 1]
        BY <2>2 DEF CountOutcome
      <3> HIDE DEF m
      <3>2. \A n \in Metric : ops'[n] \in Nat
        BY <2>1, <3>1
      <3>3. ops' = [n \in Metric |-> ops'[n]]
        BY <2>1, <3>1
      <3>4. counted' \in [Request -> Nat]
        BY <2>1, <3>1
      <3>5. [n \in Metric |-> ops'[n]] \in [Metric -> Nat]
        BY <3>2
      <3> QED BY <3>3, <3>4, <3>5
    <2>3. CASE CountFailure(r)
      BY <1>3, <2>1, <2>3 DEF CountFailure
    <2> QED BY <2>1, <2>2, <2>3 DEF CountFails, CountFailureFails
  <1> QED BY <1>2, <1>4

LEMMA CountTyped ==
    ASSUME TypeInv, NEW r \in Request,
           CountOutcome(r) \/ CountFails(r) \/ CountFailure(r) \/ CountFailureFails(r)
    PROVE  TypeInv'
  <1> USE DEF tables, work, history
  <1>1. Counts(r) /\ Bounded(r)'
    BY Counted, Labels, OverBounded DEF Counts
  <1>2. TypeOK'
    BY Counted DEF Counts, TypeInv, TypeOK, Label
  <1> QED BY <1>1, <1>2, OthersStay, OwnBoundsSuffice DEF TypeInv, Proceed, Break

LEMMA TypeStep == TypeInv /\ [Next]_vars => TypeInv'
  <1> SUFFICES ASSUME TypeInv, [Next]_vars PROVE TypeInv'
    OBVIOUS
  <1> USE DEF tables, work, history
  <1>1. CASE UNCHANGED vars
    BY <1>1 DEF vars, TypeInv, TypeOK, Bounded
  <1>2. CASE RegisterSite
    BY <1>2 DEF RegisterSite, TypeInv, TypeOK, Bounded
  <1>3. ASSUME NEW e \in Event, PurgeEvent(e) PROVE TypeInv'
    BY <1>3 DEF PurgeEvent, TypeInv, TypeOK, Bounded
  <1>4. ASSUME NEW e \in Event, PurgeInbox(e) PROVE TypeInv'
    BY <1>4 DEF PurgeInbox, TypeInv, TypeOK, Bounded
  <1> QED BY <1>1, <1>2, <1>3, <1>4, StartTyped, TakeTyped, InsertTyped, SelectTyped,
             EventTyped, CommitTyped, AbandonTyped, CountTyped
          DEF Next, Proceed, Break

(* Every variable keeps its type, and a request never looks past its batch.*)
THEOREM TypeCorrect == Spec => []TypeOK
  <1>1. TypeInv => TypeOK
    BY DEF TypeInv
  <1> QED BY <1>1, TypeInit, TypeStep, PTL DEF Spec

(***************************************************************************)
(* What is written and not committed                                       *)
(***************************************************************************)

(* An event row follows its inbox row. *)
Paired(r) ==
    \A e \in Event :
        ownInbox[r][e] = IF pc[r] = "insertEvent" /\ e = Current(r).id
                         THEN Current(r).payload ELSE ownEvents[r][e]
(* An inbox row that is not committed is the only one of its event.        *)
Exclusive(r) ==
    \A e \in Event :
        ownInbox[r][e] # NoPayload =>
            /\ inbox[e] = NoPayload
            /\ \A s \in Request \ {r} : ownInbox[s][e] = NoPayload
Known == \A e \in Event : inbox[e] # NoPayload => inbox[e] \in ever[e]

WriteInv ==
    /\ Known
    /\ \A r \in Request : Paired(r) /\ Exclusive(r)

LEMMA OthersPaired ==
    ASSUME WriteInv, NEW r \in Request, Others(r), NEW s \in Request \ {r}
    PROVE  Paired(s)'
  <1>1. Current(s)' = Current(s)
    BY DEF Others, Current
  <1> QED BY <1>1 DEF WriteInv, Paired, Others

(* Steps between two rows. *)
LEMMA NothingWritten ==
    ASSUME WriteInv, NEW r \in Request, Others(r),
           pc[r] # "insertEvent", pc'[r] # "insertEvent",
           UNCHANGED <<inbox, ever, ownInbox, ownEvents>>
    PROVE  WriteInv'
  <1>1. Paired(r)'
    BY DEF WriteInv, Paired
  <1>2. Known' /\ \A s \in Request : Exclusive(s)'
    BY DEF WriteInv, Known, Exclusive
  <1> QED BY <1>1, <1>2, OthersPaired DEF WriteInv

LEMMA InboxRowWritten ==
    ASSUME TypeInv, WriteInv, NEW r \in Request, InsertInbox(r)
    PROVE  WriteInv'
  <1> USE DEF tables, history
  <1>1. Others(r) /\ pc[r] = "insertInbox" /\ UNCHANGED <<inbox, ever, ownEvents, batch, outcomes>>
    BY OthersStay DEF Proceed, InsertInbox
  <1>2. CASE inbox[Current(r).id] # NoPayload
    <2>1. pc'[r] = "select" /\ UNCHANGED ownInbox
      BY <1>2, PcTyped DEF InsertInbox, Goto
    <2> QED BY <1>1, <2>1, NothingWritten
  <1>3. CASE inbox[Current(r).id] = NoPayload
    <2> DEFINE e0 == Current(r).id
               p0 == Current(r).payload
    <2>0. Current(r)' = Current(r)
      BY <1>1 DEF Current
    <2>1. pc'[r] = "insertEvent"
      BY <1>3, PcTyped DEF InsertInbox, Goto
    <2>2. \A e \in Event : ownInbox'[r][e] = IF e = e0 THEN p0 ELSE ownInbox[r][e]
      BY <1>3 DEF InsertInbox, TypeInv, TypeOK
    <2>3. \A s \in Request \ {r} : ownInbox'[s] = ownInbox[s] /\ ownInbox[s][e0] = NoPayload
      BY <1>1 DEF Others, InsertInbox, Waiting, WaitsFor
    <2> HIDE DEF e0, p0
    <2>4. Paired(r)'
      <3>1. \A e \in Event : ownInbox[r][e] = ownEvents[r][e]
        BY <1>1 DEF WriteInv, Paired
      <3> QED BY <1>1, <2>0, <2>1, <2>2, <3>1 DEF Paired, e0, p0
    <2>5. inbox[e0] = NoPayload
      BY <1>3 DEF e0
    <2>6. ASSUME NEW s \in Request PROVE Exclusive(s)'
      <3>1. CASE s = r
        BY <1>1, <2>2, <2>3, <2>5, <3>1 DEF WriteInv, Exclusive
      <3>2. CASE s # r
        BY <1>1, <2>2, <2>3, <3>2 DEF WriteInv, Exclusive
      <3> QED BY <3>1, <3>2
    <2>7. Known'
      BY <1>1 DEF WriteInv, Known
    <2> QED BY <1>1, <2>4, <2>6, <2>7, OthersPaired DEF WriteInv
  <1> QED BY <1>2, <1>3

LEMMA EventRowWritten ==
    ASSUME TypeInv, WriteInv, NEW r \in Request, InsertEvent(r)
    PROVE  WriteInv'
  <1> USE DEF tables, history
  <1>1. /\ Others(r) /\ pc[r] = "insertEvent"
        /\ UNCHANGED <<inbox, ever, ownInbox, batch>>
        /\ Len(outcomes[r]) < Len(batch[r])
    BY OthersStay, Labels DEF Proceed, InsertEvent, TypeInv, Bounded, Writing
  <1>2. pc'[r] = "next"
    BY PcTyped DEF InsertEvent, Conclude, Goto
  <1>3. \A e \in Event : ownEvents'[r][e] = IF e = Current(r).id THEN Current(r).payload
                                            ELSE ownEvents[r][e]
    BY DEF InsertEvent, TypeInv, TypeOK
  <1>4. Paired(r)'
    <2>1. \A e \in Event : ownInbox[r][e] = ownEvents'[r][e]
      BY <1>1, <1>3 DEF WriteInv, Paired
    <2> QED BY <1>1, <1>2, <2>1 DEF Paired
  <1>5. Known' /\ \A s \in Request : Exclusive(s)'
    BY <1>1 DEF WriteInv, Known, Exclusive
  <1> QED BY <1>1, <1>4, <1>5, OthersPaired DEF WriteInv

LEMMA EndedPaired ==
    ASSUME TypeInv, NEW r \in Request, EndTransaction(r), pc'[r] # "insertEvent"
    PROVE  /\ Paired(r)'
           /\ \A e \in Event : ownInbox'[r][e] = NoPayload
  BY EndTyped DEF Paired, NoRows

LEMMA NothingLeft ==
    ASSUME TypeInv, WriteInv, NEW r \in Request, Abandons(r), Others(r)
    PROVE  WriteInv'
  <1> USE DEF tables, history
  <1>1. pc'[r] \in {"thrown", "failing", "storage-error", "gone"}
    BY PcTyped DEF Abandons, Goto
  <1>2. /\ Paired(r)' /\ \A e \in Event : ownInbox'[r][e] = NoPayload
        /\ UNCHANGED <<inbox, ever>>
    BY <1>1, EndedPaired DEF Abandons
  <1>3. \A s \in Request : Exclusive(s)'
    BY <1>2 DEF WriteInv, Exclusive, Others
  <1> QED BY <1>2, <1>3, OthersPaired DEF WriteInv, Known

Commits(r) ==
    /\ TakeEffect(r)
    /\ pc'[r] \in {"counting", "ok", "thrown"}
    /\ UNCHANGED <<batch, outcomes, purges>>

LEMMA CommitsIs ==
    ASSUME TypeInv, NEW r \in Request, Commit(r) \/ CommitUnacknowledged(r)
    PROVE  Commits(r) /\ Others(r)
  BY PcTyped, OthersStay DEF Commit, CommitUnacknowledged, Goto, Commits, Proceed, Break

(* At COMMIT every event has its inbox row and its event row, or neither.  *)
LEMMA RowsAtCommit ==
    ASSUME TypeInv, WriteInv, NEW r \in Request, Commits(r)
    PROVE  /\ \A e \in Event :
                /\ ownInbox[r][e] = ownEvents[r][e]
                /\ inbox'[e] = IF ownEvents[r][e] # NoPayload THEN ownEvents[r][e]
                               ELSE inbox[e]
                /\ ever'[e] = ever[e] \cup ({ownEvents[r][e]} \ {NoPayload})
                /\ ownEvents[r][e] # NoPayload =>
                     /\ inbox[e] = NoPayload
                     /\ \A s \in Request \ {r} : ownInbox[s][e] = NoPayload
           /\ pc[r] = "next" /\ AllDone(r)
  <1>1. \A e \in Event : ownInbox[r][e] = ownEvents[r][e]
    BY DEF Commits, TakeEffect, WriteInv, Paired
  <1>2. ASSUME NEW e \in Event
        PROVE  /\ inbox'[e] = IF ownEvents[r][e] # NoPayload THEN ownEvents[r][e]
                              ELSE inbox[e]
               /\ ever'[e] = ever[e] \cup ({ownEvents[r][e]} \ {NoPayload})
    BY <1>1 DEF Commits, TakeEffect, Merged
  <1> QED BY <1>1, <1>2 DEF WriteInv, Exclusive, Commits, TakeEffect

LEMMA RowsCommitted ==
    ASSUME TypeInv, WriteInv, NEW r \in Request, Commits(r), Others(r)
    PROVE  WriteInv'
  <1>1. Known'
    BY RowsAtCommit DEF WriteInv, Known
  <1>2. /\ Paired(r)' /\ \A e \in Event : ownInbox'[r][e] = NoPayload
    BY EndedPaired DEF Commits, TakeEffect
  <1>3. ASSUME NEW s \in Request PROVE Exclusive(s)'
    <2>1. CASE s = r
      BY <1>2, <2>1 DEF Exclusive
    <2>2. CASE s # r
      BY <1>2, <2>2, RowsAtCommit DEF WriteInv, Exclusive, Others
    <2> QED BY <2>1, <2>2
  <1> QED BY <1>1, <1>2, <1>3, OthersPaired DEF WriteInv

LEMMA WriteInit == Init => WriteInv
  <1> SUFFICES ASSUME Init PROVE WriteInv
    OBVIOUS
  <1>1. \A r \in Request : Paired(r) /\ Exclusive(r)
    BY DEF Init, Paired, Exclusive, NoRows
  <1>2. Known
    BY DEF Init, Known
  <1> QED BY <1>1, <1>2 DEF WriteInv

LEMMA WriteStep ==
    ASSUME TypeInv, WriteInv, [Next]_vars
    PROVE  WriteInv'
  <1> USE DEF tables, work, history
  <1>1. CASE UNCHANGED <<inbox, ever, pc, work>>
    BY <1>1 DEF WriteInv, Paired, Exclusive, Known, Current
  <1>2. ASSUME NEW r \in Request, NEW b \in Batch, Start(r, b) PROVE WriteInv'
    <2>1. pc[r] = "new" /\ pc'[r] \in {"next", "ok"}
      BY <1>2, PcTyped DEF Start, Goto
    <2> QED BY <1>2, <2>1, OthersStay, NothingWritten DEF Start
  <1>3. ASSUME NEW r \in Request, TakeEnvelope(r) PROVE WriteInv'
    <2>1. pc[r] = "next" /\ pc'[r] # "insertEvent"
      BY <1>3, PcTyped DEF TakeEnvelope, Conclude, Goto
    <2> QED BY <1>3, <2>1, OthersStay, NothingWritten DEF TakeEnvelope, Proceed
  <1>4. ASSUME NEW r \in Request, SelectExisting(r) PROVE WriteInv'
    <2>1. Current(r) \in Item /\ pc[r] = "select"
      BY <1>4, BatchItems, Labels DEF SelectExisting, TypeInv, Bounded, Writing
    <2>2. \E v \in Verdict : Conclude(r, v)
      BY <1>4, <2>1, Selected DEF Verdict
    <2>3. pc'[r] # "insertEvent"
      BY <2>2, PcTyped DEF Conclude, Goto
    <2> QED BY <1>4, <2>1, <2>3, OthersStay, NothingWritten DEF SelectExisting, Proceed
  <1>5. ASSUME NEW r \in Request, Commit(r) \/ CommitUnacknowledged(r) PROVE WriteInv'
    BY <1>5, CommitsIs, RowsCommitted
  <1>6. ASSUME NEW r \in Request, StatementFails(r) \/ DeadlockVictim(r) \/ Interrupted(r)
        PROVE  WriteInv'
    BY <1>6, Abandoned, OthersStay, NothingLeft DEF Proceed, Break
  <1>7. ASSUME NEW r \in Request,
               CountOutcome(r) \/ CountFails(r) \/ CountFailure(r) \/ CountFailureFails(r)
        PROVE  WriteInv'
    <2>1. Counts(r) /\ Others(r)
      BY <1>7, Counted, OthersStay DEF Proceed, Break
    <2> QED BY <2>1, NothingWritten DEF Counts
  <1>8. ASSUME NEW e \in Event, PurgeInbox(e) PROVE WriteInv'
    <2>1. /\ UNCHANGED <<ever, pc, work>>
          /\ \A f \in Event : inbox'[f] = IF f = e THEN NoPayload ELSE inbox[f]
      BY <1>8 DEF PurgeInbox, TypeInv, TypeOK
    <2> QED BY <2>1 DEF WriteInv, Paired, Exclusive, Known, Current
  <1>9. RegisterSite \/ UNCHANGED vars \/ (\E e \in Event : PurgeEvent(e))
          => UNCHANGED <<inbox, ever, pc, work>>
    BY DEF RegisterSite, PurgeEvent, vars
  <1> QED BY <1>1, <1>2, <1>3, <1>4, <1>5, <1>6, <1>7, <1>8, <1>9, InboxRowWritten,
             EventRowWritten DEF Next, Proceed, Break

(***************************************************************************)
(* Stored once                                                             *)
(***************************************************************************)

LEMMA RowsFinite ==
    ASSUME NEW own
    PROVE  IsFiniteSet(Rows(own)) /\ Cardinality(Rows(own)) \in Nat
  <1>1. Rows(own) \subseteq Event
    BY DEF Rows
  <1> QED BY <1>1, AcceptanceAssumption, FS_Subset, FS_CardinalityType

LEMMA StoredByCommit ==
    ASSUME TypeInv, WriteInv, StoredOnce, NEW r \in Request, Commits(r)
    PROVE  StoredOnce'
  <1> DEFINE A == Rows(inbox)
             B == Rows(ownEvents[r])
  <1>1. Rows(inbox)' = A \cup B /\ A \cap B = {}
    BY RowsAtCommit DEF Rows
  <1>2. IsFiniteSet(A) /\ IsFiniteSet(B) /\ Cardinality(A) \in Nat /\ Cardinality(B) \in Nat
    BY RowsFinite
  <1>3. Cardinality(A \cup B) = Cardinality(A) + Cardinality(B)
    <2>1. Cardinality({}) = 0
      BY FS_EmptySet
    <2>2. Cardinality(A \cup B) = Cardinality(A) + Cardinality(B) - Cardinality(A \cap B)
      BY <1>2, FS_Union
    <2>3. Cardinality(A \cap B) = 0
      BY <1>1, <2>1
    <2> HIDE DEF A, B
    <2> QED BY <1>2, <2>2, <2>3
  <1>4. stored' = stored + Cardinality(B) /\ purges' = purges /\ purges \in Nat
    BY DEF Commits, TakeEffect, TypeInv, TypeOK
  <1> QED BY <1>1, <1>2, <1>3, <1>4 DEF StoredOnce

LEMMA StoredStep ==
    ASSUME TypeInv, WriteInv, StoredOnce, [Next]_vars
    PROVE  StoredOnce'
  <1> USE DEF tables, work, history
  <1>1. CASE UNCHANGED <<inbox, stored, purges>>
    BY <1>1 DEF StoredOnce, Rows
  <1>2. ASSUME NEW e \in Event, PurgeInbox(e) PROVE StoredOnce'
    <2>1. Rows(inbox)' = Rows(inbox) \ {e} /\ e \in Rows(inbox)
      BY <1>2 DEF PurgeInbox, Rows, TypeInv, TypeOK
    <2>2. Cardinality(Rows(inbox) \ {e}) = Cardinality(Rows(inbox)) - 1
      BY <2>1, RowsFinite, FS_RemoveElement
    <2>3. stored' = stored /\ purges' = purges + 1 /\ purges \in Nat
      BY <1>2 DEF PurgeInbox, TypeInv, TypeOK
    <2> QED BY <2>1, <2>2, <2>3, RowsFinite DEF StoredOnce
  <1>3. ASSUME NEW r \in Request, Commit(r) \/ CommitUnacknowledged(r) PROVE StoredOnce'
    BY <1>3, CommitsIs, StoredByCommit
  <1>4. ASSUME NEW r \in Request,
               \/ StatementFails(r) \/ DeadlockVictim(r) \/ Interrupted(r)
               \/ CountOutcome(r) \/ CountFails(r) \/ CountFailure(r) \/ CountFailureFails(r)
        PROVE  StoredOnce'
    BY <1>1, <1>4, Abandoned, Counted DEF Abandons, Counts
  <1>5. ASSUME NEW r \in Request,
               \/ \E b \in Batch : Start(r, b)
               \/ TakeEnvelope(r) \/ InsertInbox(r) \/ SelectExisting(r) \/ InsertEvent(r)
        PROVE  StoredOnce'
    BY <1>1, <1>5 DEF Start, TakeEnvelope, InsertInbox, SelectExisting, InsertEvent
  <1>6. RegisterSite \/ UNCHANGED vars \/ (\E e \in Event : PurgeEvent(e))
          => UNCHANGED <<inbox, stored, purges>>
    BY DEF RegisterSite, PurgeEvent, vars
  <1> QED BY <1>1, <1>2, <1>3, <1>4, <1>5, <1>6 DEF Next, Proceed, Break

(* No event is stored twice and no batch by half: all event rows ever      *)
(* committed are those whose inbox row is there or was purged, whatever    *)
(* overlaps, fails or is interrupted.                                      *)
THEOREM EachStoredOnce == Spec => []StoredOnce
  <1>1. Init => StoredOnce
    <2> SUFFICES ASSUME Init PROVE StoredOnce
      OBVIOUS
    <2>1. stored = Cardinality(Rows(inbox)) /\ purges = 0
      BY DEF Init
    <2>2. Cardinality(Rows(inbox)) \in Nat
      BY RowsFinite
    <2> QED BY <2>1, <2>2 DEF StoredOnce
  <1>2. TypeInv /\ WriteInv /\ StoredOnce /\ [Next]_vars
          => TypeInv' /\ WriteInv' /\ StoredOnce'
    BY TypeStep, WriteStep, StoredStep
  <1> QED BY <1>1, <1>2, TypeInit, WriteInit, PTL DEF Spec

(***************************************************************************)
(* Why the verdicts will be true                                           *)
(***************************************************************************)

FirstOf(S) == CHOOSE i \in S : \A j \in S : i <= j
EarlierOf(r, i) ==
    {j \in 1 .. i - 1 : batch[r][j].ours /\ batch[r][j].id = batch[r][i].id}

(* What each verdict of an open transaction rests on: its own row, a row   *)
(* it holds, a fact of the past, or an item before.                        *)
Grounded(r, i) ==
    LET item == batch[r][i]
        verdict == outcomes[r][i]
    IN  IF ~item.ours THEN verdict = "unknown"
        ELSE IF EarlierOf(r, i) # {}
        THEN verdict = IF batch[r][FirstOf(EarlierOf(r, i))].payload = item.payload
                       THEN "duplicate" ELSE "conflict"
        ELSE /\ verdict = "new" => ownEvents[r][item.id] = item.payload
             /\ verdict = "duplicate" =>
                  item.id \in locked[r] /\ inbox[item.id] = item.payload
             /\ verdict = "conflict" => ever[item.id] \ {item.payload} # {}
             /\ verdict = "unknown" => ever[item.id] # {}

Written(r) ==
    \A e \in Event :
        ownEvents[r][e] # NoPayload =>
            \E i \in 1 .. Len(outcomes[r]) :
                batch[r][i].id = e /\ outcomes[r][i] = "new"

Open(r) ==
    pc[r] \in InTransaction =>
        /\ r \notin committed
        /\ \A i \in 1 .. Len(outcomes[r]) : Grounded(r, i)
        /\ Written(r)
        /\ pc[r] \in Writing => Current(r).ours /\ Prior(r) = {}
        /\ pc[r] = "select" => ever[Current(r).id] # {}
Closed(r) ==
    /\ pc[r] = "new" =>
         r \notin committed /\ \A e \in Event : ownEvents[r][e] = NoPayload
    /\ pc[r] = "counting" => r \in committed

TruthInv == \A r \in Request : Open(r) /\ Closed(r)

(* The items a request has a verdict on, and the one it is at. *)
LEMMA JudgedItems ==
    ASSUME TypeInv, NEW r \in Request, pc[r] \in InTransaction
    PROVE  /\ Len(outcomes[r]) <= Len(batch[r])
           /\ \A i \in 1 .. Len(outcomes[r]) :
                /\ batch[r][i] \in Item
                /\ batch[r][i].id \in Event
                /\ batch[r][i].payload \in Payload
                /\ batch[r][i].payload # NoPayload
           /\ pc[r] \in Writing =>
                /\ Current(r).id \in Event /\ Current(r).payload \in Payload
                /\ Current(r).payload # NoPayload
  <1>1. Len(outcomes[r]) \in Nat /\ Len(batch[r]) \in Nat
    BY BatchItems
  <1>2. Len(outcomes[r]) <= Len(batch[r])
    BY <1>1, Labels DEF TypeInv, Bounded
  <1>3. \A i \in 1 .. Len(outcomes[r]) : batch[r][i] \in Item
    BY <1>1, <1>2, BatchItems
  <1>4. pc[r] \in Writing => Current(r) \in Item
    BY BatchItems DEF TypeInv, Bounded
  <1>5. \A item \in Item : item.id \in Event /\ item.payload \in Payload
                           /\ item.payload # NoPayload
    BY AcceptanceAssumption DEF Item
  <1> QED BY <1>2, <1>3, <1>4, <1>5

(* A verdict stays grounded while facts are only added, its row is its own *)
(* and what it holds stays.                                                *)
Stays(r) ==
    /\ batch'[r] = batch[r]
    /\ \A e \in Event :
        /\ ever[e] \subseteq ever'[e]
        /\ e \in locked[r] => e \in locked'[r]
                              /\ (inbox[e] # NoPayload => inbox'[e] = inbox[e])

LEMMA GroundedStays ==
    ASSUME TypeInv, NEW r \in Request, pc[r] \in InTransaction, Stays(r),
           NEW i \in 1 .. Len(outcomes[r]), Grounded(r, i),
           outcomes'[r][i] = outcomes[r][i],
           outcomes[r][i] = "new" =>
               ownEvents'[r][batch[r][i].id] = ownEvents[r][batch[r][i].id]
    PROVE  Grounded(r, i)'
  <1>1. batch[r][i].id \in Event /\ batch[r][i].payload # NoPayload
    BY JudgedItems
  <1>2. EarlierOf(r, i)' = EarlierOf(r, i) /\ batch'[r] = batch[r]
    BY DEF EarlierOf, Stays
  <1>3. CASE ~batch[r][i].ours \/ EarlierOf(r, i) # {}
    BY <1>2, <1>3 DEF Grounded
  <1>4. CASE batch[r][i].ours /\ EarlierOf(r, i) = {}
    BY <1>1, <1>2, <1>4 DEF Grounded, Stays
  <1> QED BY <1>3, <1>4

(* A request that another one passes by. *)
LEMMA OpenStays ==
    ASSUME TypeInv, TruthInv, NEW r \in Request, Stays(r),
           pc'[r] = pc[r], outcomes'[r] = outcomes[r], ownEvents'[r] = ownEvents[r],
           r \in committed' <=> r \in committed
    PROVE  Open(r)' /\ Closed(r)'
  <1>1. Closed(r)'
    BY DEF TruthInv, Closed
  <1>2. CASE pc[r] \notin InTransaction
    BY <1>1, <1>2 DEF Open
  <1>3. CASE pc[r] \in InTransaction
    <2>1. \A i \in 1 .. Len(outcomes'[r]) : Grounded(r, i)'
      BY <1>3, GroundedStays DEF TruthInv, Open
    <2>2. Current(r)' = Current(r) /\ Prior(r)' = Prior(r)
      BY DEF Current, Prior, Stays
    <2>3. Written(r)'
      BY <1>3 DEF TruthInv, Open, Written, Stays
    <2>4. pc[r] = "select" => ever'[Current(r).id] # {}
      BY <1>3, JudgedItems DEF TruthInv, Open, Stays, Writing
    <2> QED BY <1>1, <1>3, <2>1, <2>2, <2>3, <2>4 DEF TruthInv, Open
  <1> QED BY <1>2, <1>3

(* A request that leaves its transaction. *)
LEMMA LeftClosed ==
    ASSUME NEW r \in Request, pc'[r] \in Label \ ({"new"} \cup InTransaction),
           pc'[r] = "counting" => r \in committed'
    PROVE  Open(r)' /\ Closed(r)'
  BY Labels DEF Open, Closed

(* A request that has one more verdict. *)
LEMMA VerdictGrounded ==
    ASSUME TypeInv, TruthInv, NEW r \in Request, pc[r] \in InTransaction,
           Len(outcomes[r]) < Len(batch[r]), Stays(r),
           NEW v \in Verdict, Conclude(r, v), UNCHANGED <<batch, committed>>,
           \A i \in 1 .. Len(outcomes[r]) : outcomes[r][i] = "new" =>
               ownEvents'[r][batch[r][i].id] = ownEvents[r][batch[r][i].id],
           \A e \in Event : ownEvents'[r][e] = ownEvents[r][e]
                            \/ (v = "new" /\ e = Current(r).id),
           NEW n \in Nat, n = Len(outcomes[r]) + 1, Grounded(r, n)'
    PROVE  Open(r)' /\ Closed(r)'
  <1>1. /\ Len(outcomes'[r]) = n /\ outcomes'[r][n] = v
        /\ \A i \in 1 .. Len(outcomes[r]) : outcomes'[r][i] = outcomes[r][i]
        /\ pc'[r] \in {"ok", "next"}
    BY Concluded
  <1>2. Len(outcomes[r]) \in Nat /\ 1 .. n = (1 .. Len(outcomes[r])) \cup {n}
    BY BatchItems
  <1>3. \A i \in 1 .. Len(outcomes'[r]) : Grounded(r, i)'
    <2>1. ASSUME NEW i \in 1 .. Len(outcomes[r]) PROVE Grounded(r, i)'
      BY <1>1, GroundedStays DEF TruthInv, Open
    <2> QED BY <1>1, <1>2, <2>1
  <1>4. Written(r)'
    <2> SUFFICES ASSUME NEW e \in Event, ownEvents'[r][e] # NoPayload
                 PROVE  \E i \in 1 .. n : batch'[r][i].id = e /\ outcomes'[r][i] = "new"
      BY <1>1 DEF Written
    <2>1. CASE v = "new" /\ e = Current(r).id
      BY <1>1, <1>2, <2>1 DEF Current
    <2>2. CASE ownEvents'[r][e] = ownEvents[r][e]
      BY <1>1, <1>2, <2>2 DEF TruthInv, Open, Written
    <2> QED BY <2>1, <2>2
  <1>5. r \notin committed'
    BY DEF TruthInv, Open
  <1> QED BY <1>1, <1>3, <1>4, <1>5, Labels DEF Open, Closed, Writing

LEMMA PriorIs ==
    ASSUME TypeInv, NEW r \in Request
    PROVE  /\ Prior(r) = EarlierOf(r, Len(outcomes[r]) + 1)
           /\ PriorPayload(r) = batch[r][FirstOf(EarlierOf(r, Len(outcomes[r]) + 1))].payload
  <1>1. Len(outcomes[r]) \in Nat
    BY BatchItems
  <1>2. Prior(r) = EarlierOf(r, Len(outcomes[r]) + 1)
    BY <1>1 DEF Prior, EarlierOf, Current
  <1> QED BY <1>2 DEF PriorPayload, FirstOf

LEMMA EverGrows ==
    ASSUME TypeInv, WriteInv, [Next]_vars
    PROVE  \A e \in Event : ever[e] \subseteq ever'[e]
  <1> USE DEF tables, work, history
  <1>1. CASE UNCHANGED ever
    BY <1>1
  <1>2. ASSUME NEW r \in Request, Commit(r) \/ CommitUnacknowledged(r)
        PROVE  \A e \in Event : ever[e] \subseteq ever'[e]
    BY <1>2, CommitsIs, RowsAtCommit
  <1>3. ASSUME NEW r \in Request,
               \/ StatementFails(r) \/ DeadlockVictim(r) \/ Interrupted(r)
               \/ CountOutcome(r) \/ CountFails(r) \/ CountFailure(r) \/ CountFailureFails(r)
        PROVE  UNCHANGED ever
    BY <1>3, Abandoned, Counted DEF Abandons, Counts
  <1>4. ASSUME NEW r \in Request,
               \/ \E b \in Batch : Start(r, b)
               \/ TakeEnvelope(r) \/ InsertInbox(r) \/ SelectExisting(r) \/ InsertEvent(r)
        PROVE  UNCHANGED ever
    BY <1>4 DEF Start, TakeEnvelope, InsertInbox, SelectExisting, InsertEvent
  <1>5. RegisterSite \/ UNCHANGED vars \/ (\E e \in Event : PurgeEvent(e) \/ PurgeInbox(e))
          => UNCHANGED ever
    BY DEF RegisterSite, PurgeEvent, PurgeInbox, vars
  <1> QED BY <1>1, <1>2, <1>3, <1>4, <1>5 DEF Next, Proceed, Break

(* The requests that do not take the step. *)
LEMMA OthersTrue ==
    ASSUME TypeInv, WriteInv, TruthInv, [Next]_vars, NEW r \in Request, Others(r),
           UNCHANGED inbox, committed' \in {committed, committed \cup {r}},
           NEW s \in Request \ {r}
    PROVE  Open(s)' /\ Closed(s)'
  <1>1. Stays(s)
    BY EverGrows DEF Stays, Others
  <1> QED BY <1>1, OpenStays DEF Others

LEMMA StartTrue ==
    ASSUME TypeInv, TruthInv, NEW r \in Request, NEW b \in Batch, Start(r, b)
    PROVE  Open(r)' /\ Closed(r)'
  <1> USE DEF tables, history
  <1>1. /\ pc[r] = "new" /\ pc'[r] \in {"next", "ok"} /\ UNCHANGED <<ownEvents, committed>>
        /\ pc'[r] = "next" => outcomes'[r] = <<>>
    BY PcTyped DEF Start, Goto, TypeInv, Bounded
  <1>2. CASE pc'[r] = "ok"
    BY <1>2, Labels, LeftClosed
  <1>3. CASE pc'[r] = "next"
    <2>1. outcomes'[r] = <<>> /\ 1 .. Len(outcomes'[r]) = {}
      BY <1>1, <1>3
    <2>2. r \notin committed /\ \A e \in Event : ownEvents'[r][e] = NoPayload
      BY <1>1 DEF TruthInv, Closed
    <2>3. Written(r)'
      BY <2>2 DEF Written
    <2> QED BY <1>1, <1>3, <2>1, <2>2, <2>3, Labels DEF Open, Closed, Writing
  <1> QED BY <1>1, <1>2, <1>3

LEMMA TakeTrue ==
    ASSUME TypeInv, TruthInv, NEW r \in Request, TakeEnvelope(r)
    PROVE  Open(r)' /\ Closed(r)'
  <1> USE DEF tables, history
  <1>n. PICK n \in Nat : n = Len(outcomes[r]) + 1
    BY BatchItems
  <1>1. /\ pc[r] = "next" /\ Len(outcomes[r]) < Len(batch[r]) /\ pc[r] \in InTransaction
        /\ UNCHANGED <<inbox, ever, batch, ownEvents, locked, committed>>
        /\ n \in Nat /\ Current(r) = batch[r][n]
    BY <1>n, BatchItems, Labels DEF TakeEnvelope, Current
  <1>2. Stays(r)
    BY <1>1 DEF Stays
  <1>3. EarlierOf(r, n)' = EarlierOf(r, n) /\ Prior(r) = EarlierOf(r, n)
        /\ PriorPayload(r) = batch[r][FirstOf(EarlierOf(r, n))].payload
    BY <1>n, <1>1, PriorIs DEF EarlierOf
  <1>4. ASSUME NEW v \in Verdict, Conclude(r, v),
               \/ ~Current(r).ours /\ v = "unknown"
               \/ /\ Current(r).ours /\ Prior(r) # {}
                  /\ v = IF PriorPayload(r) = Current(r).payload
                         THEN "duplicate" ELSE "conflict"
        PROVE  Open(r)' /\ Closed(r)'
    <2>1. outcomes'[r][n] = v
      BY <1>n, <1>1, <1>4, Concluded
    <2>2. Grounded(r, n)'
      BY <1>1, <1>3, <1>4, <2>1 DEF Grounded
    <2>3. /\ \A i \in 1 .. Len(outcomes[r]) : outcomes[r][i] = "new" =>
               ownEvents'[r][batch[r][i].id] = ownEvents[r][batch[r][i].id]
          /\ \A e \in Event : ownEvents'[r][e] = ownEvents[r][e]
                              \/ (v = "new" /\ e = Current(r).id)
      BY <1>1
    <2>4. UNCHANGED <<batch, committed>> /\ Conclude(r, v)
      BY <1>1, <1>4
    <2> QED BY ONLY TypeInv, TruthInv, <1>n, <1>1, <1>2, <2>2, <2>3, <2>4, VerdictGrounded
  <1>5. CASE Current(r).ours /\ Prior(r) = {} /\ Goto(r, "insertInbox") /\ UNCHANGED outcomes
    <2>1. pc'[r] = "insertInbox"
      BY <1>5, PcTyped DEF Goto
    <2>2. Current(r)' = Current(r) /\ Prior(r)' = Prior(r)
      BY <1>1, <1>5 DEF Current, Prior
    <2>3. \A i \in 1 .. Len(outcomes'[r]) : Grounded(r, i)'
      BY <1>1, <1>2, <1>5, GroundedStays DEF TruthInv, Open
    <2>4. Written(r)'
      BY <1>1, <1>5 DEF TruthInv, Open, Written
    <2> QED BY <1>1, <1>5, <2>1, <2>2, <2>3, <2>4, Labels DEF TruthInv, Open, Closed
  <1> QED BY <1>4, <1>5 DEF TakeEnvelope, Verdict

LEMMA InsertTrue ==
    ASSUME TypeInv, WriteInv, TruthInv, NEW r \in Request, InsertInbox(r)
    PROVE  Open(r)' /\ Closed(r)'
  <1> USE DEF tables, history
  <1>1. /\ pc[r] = "insertInbox" /\ pc[r] \in InTransaction /\ pc[r] \in Writing
        /\ UNCHANGED <<inbox, ever, batch, outcomes, ownEvents, locked, committed>>
    BY Labels DEF InsertInbox, Writing
  <1>2. /\ pc'[r] \in {"insertEvent", "select"}
        /\ pc'[r] = "select" => inbox[Current(r).id] # NoPayload
    BY PcTyped DEF InsertInbox, Goto
  <1>3. pc'[r] = "select" => ever[Current(r).id] # {}
    BY <1>1, <1>2, JudgedItems DEF WriteInv, Known
  <1>4. Current(r)' = Current(r) /\ Prior(r)' = Prior(r) /\ Stays(r)
    BY <1>1 DEF Current, Prior, Stays
  <1>5. \A i \in 1 .. Len(outcomes'[r]) : Grounded(r, i)'
    BY <1>1, <1>4, GroundedStays DEF TruthInv, Open
  <1>6. Written(r)'
    BY <1>1 DEF TruthInv, Open, Written
  <1> QED BY <1>1, <1>2, <1>3, <1>4, <1>5, <1>6, Labels DEF TruthInv, Open, Closed

LEMMA SelectTrue ==
    ASSUME TypeInv, WriteInv, TruthInv, NEW r \in Request, SelectExisting(r)
    PROVE  Open(r)' /\ Closed(r)'
  <1> USE DEF tables, history
  <1>n. PICK n \in Nat : n = Len(outcomes[r]) + 1
    BY BatchItems
  <1>e. PICK e : e = Current(r).id
    OBVIOUS
  <1>1. /\ pc[r] = "select" /\ Len(outcomes[r]) < Len(batch[r])
        /\ pc[r] \in InTransaction /\ pc[r] \in Writing /\ Current(r) \in Item
        /\ UNCHANGED <<inbox, ever, batch, ownEvents, committed>>
        /\ n \in Nat /\ Current(r) = batch[r][n]
    BY <1>n, BatchItems, Labels DEF SelectExisting, Current, TypeInv, Bounded, Writing
  <1>2. Current(r).ours /\ Prior(r) = {} /\ ever[e] # {} /\ e \in Event
    BY <1>e, <1>1, JudgedItems DEF TruthInv, Open
  <1>3. EarlierOf(r, n)' = {}
    BY <1>n, <1>1, <1>2, PriorIs DEF EarlierOf
  <1>4. PICK v \in Verdict :
          /\ Conclude(r, v)
          /\ \/ v = "unknown" /\ UNCHANGED locked
             \/ /\ v = "duplicate" /\ inbox[e] = Current(r).payload
                /\ locked' = [locked EXCEPT ![r] = @ \cup {e}]
             \/ /\ v = "conflict" /\ inbox[e] # NoPayload
                /\ inbox[e] # Current(r).payload /\ UNCHANGED locked
    BY <1>e, <1>1, Selected DEF Verdict
  <1>5. locked \in [Request -> SUBSET Event]
    BY DEF TypeInv, TypeOK
  <1>6. Stays(r)
    BY <1>1, <1>4, <1>5 DEF Stays
  <1>7. outcomes'[r][n] = v
    BY <1>n, <1>1, <1>4, Concluded
  <1>8. v = "conflict" => ever[e] \ {Current(r).payload} # {}
    BY <1>2, <1>4 DEF WriteInv, Known
  <1>9. v = "duplicate" => e \in locked'[r]
    BY <1>4, <1>5
  <1>10. Grounded(r, n)'
    <2>1. batch'[r][n] = Current(r) /\ Current(r).id = e
      BY <1>e, <1>1
    <2> QED BY <1>1, <1>2, <1>3, <1>4, <1>7, <1>8, <1>9, <2>1 DEF Grounded
  <1> QED BY <1>n, <1>1, <1>4, <1>6, <1>10, VerdictGrounded

LEMMA EventTrue ==
    ASSUME TypeInv, WriteInv, TruthInv, NEW r \in Request, InsertEvent(r)
    PROVE  Open(r)' /\ Closed(r)'
  <1> USE DEF tables, history
  <1>n. PICK n \in Nat : n = Len(outcomes[r]) + 1
    BY BatchItems
  <1>e. PICK e : e = Current(r).id
    OBVIOUS
  <1>1. /\ pc[r] = "insertEvent" /\ Len(outcomes[r]) < Len(batch[r])
        /\ pc[r] \in InTransaction /\ pc[r] \in Writing
        /\ UNCHANGED <<inbox, ever, batch, locked, committed>> /\ Conclude(r, "new")
        /\ n \in Nat /\ Current(r) = batch[r][n] /\ "new" \in Verdict
    BY <1>n, BatchItems, Labels
       DEF InsertEvent, Current, TypeInv, Bounded, Writing, Verdict
  <1>2. Current(r).ours /\ Prior(r) = {} /\ e \in Event
    BY <1>e, <1>1, JudgedItems DEF TruthInv, Open
  <1>3. EarlierOf(r, n)' = {} /\ EarlierOf(r, n) = {}
    BY <1>n, <1>1, <1>2, PriorIs DEF EarlierOf
  <1>4. \A f \in Event : ownEvents'[r][f] = IF f = e THEN Current(r).payload
                                            ELSE ownEvents[r][f]
    BY <1>e DEF InsertEvent, TypeInv, TypeOK
  <1>5. ASSUME NEW i \in 1 .. Len(outcomes[r]), outcomes[r][i] = "new"
        PROVE  batch[r][i].id # e /\ batch[r][i].id \in Event
    <2>1. batch[r][i].ours
      BY <1>1, <1>5 DEF TruthInv, Open, Grounded
    <2>2. i \notin EarlierOf(r, n) /\ i \in 1 .. n - 1
      BY <1>n, <1>3, <1>1, BatchItems
    <2> QED BY <1>e, <1>1, <2>1, <2>2, JudgedItems DEF EarlierOf
  <1>6. Stays(r)
    BY <1>1 DEF Stays
  <1>7. outcomes'[r][n] = "new"
    BY <1>n, <1>1, Concluded
  <1>8. Grounded(r, n)'
    <2>1. batch'[r][n] = Current(r) /\ Current(r).id = e
      BY <1>e, <1>1
    <2> QED BY <1>1, <1>2, <1>3, <1>4, <1>7, <2>1 DEF Grounded
  <1> QED BY <1>n, <1>e, <1>1, <1>4, <1>5, <1>6, <1>8, VerdictGrounded

LEMMA TruthInit == Init => TruthInv
  BY Labels DEF Init, TruthInv, Open, Closed, NoRows

LEMMA TruthStep ==
    ASSUME TypeInv, WriteInv, TruthInv, [Next]_vars
    PROVE  TruthInv'
  <1> USE DEF tables, work, history
  <1>1. CASE UNCHANGED <<ever, pc, work, committed>>
             /\ \A e \in Event, r \in Request : e \in locked[r] => inbox'[e] = inbox[e]
    <2>1. \A r \in Request : Stays(r)
      BY <1>1 DEF Stays
    <2> QED BY <1>1, <2>1, OpenStays DEF TruthInv
  <1>2. ASSUME NEW r \in Request, NEW b \in Batch, Start(r, b) PROVE TruthInv'
    BY <1>2, OthersStay, OthersTrue, StartTrue DEF TruthInv, Start
  <1>3. ASSUME NEW r \in Request, TakeEnvelope(r) PROVE TruthInv'
    BY <1>3, OthersStay, OthersTrue, TakeTrue DEF TruthInv, TakeEnvelope, Proceed
  <1>4. ASSUME NEW r \in Request, InsertInbox(r) PROVE TruthInv'
    BY <1>4, OthersStay, OthersTrue, InsertTrue DEF TruthInv, InsertInbox, Proceed
  <1>5. ASSUME NEW r \in Request, SelectExisting(r) PROVE TruthInv'
    BY <1>5, OthersStay, OthersTrue, SelectTrue DEF TruthInv, SelectExisting, Proceed
  <1>6. ASSUME NEW r \in Request, InsertEvent(r) PROVE TruthInv'
    BY <1>6, OthersStay, OthersTrue, EventTrue DEF TruthInv, InsertEvent, Proceed
  <1>7. ASSUME NEW r \in Request, Commit(r) \/ CommitUnacknowledged(r) PROVE TruthInv'
    <2>1. Commits(r) /\ Others(r) /\ committed' = committed \cup {r}
      BY <1>7, CommitsIs DEF Commits, TakeEffect
    <2>2. Open(r)' /\ Closed(r)'
      BY <2>1, Labels, LeftClosed DEF Commits
    <2>3. ASSUME NEW s \in Request \ {r} PROVE Open(s)' /\ Closed(s)'
      <3>1. Stays(s)
        BY <2>1, RowsAtCommit DEF Stays, Others
      <3> QED BY <2>1, <3>1, OpenStays DEF Others
    <2> QED BY <2>2, <2>3 DEF TruthInv
  <1>8. ASSUME NEW r \in Request, StatementFails(r) \/ DeadlockVictim(r) \/ Interrupted(r)
        PROVE  TruthInv'
    <2>1. Abandons(r) /\ Others(r)
      BY <1>8, Abandoned, OthersStay DEF Proceed, Break
    <2>2. pc'[r] \in {"thrown", "failing", "storage-error", "gone"}
      BY <2>1, PcTyped DEF Abandons, Goto
    <2>3. Open(r)' /\ Closed(r)'
      BY <2>2, Labels, LeftClosed
    <2> QED BY <2>1, <2>3, OthersTrue DEF TruthInv, Abandons
  <1>9. ASSUME NEW r \in Request,
               CountOutcome(r) \/ CountFails(r) \/ CountFailure(r) \/ CountFailureFails(r)
        PROVE  TruthInv'
    <2>1. Counts(r) /\ Others(r)
      BY <1>9, Counted, OthersStay DEF Proceed, Break
    <2>2. pc'[r] = "counting" => r \in committed'
      BY <2>1 DEF Counts, TruthInv, Closed
    <2>3. Open(r)' /\ Closed(r)'
      BY <2>1, <2>2, Labels, LeftClosed DEF Counts
    <2> QED BY <2>1, <2>3, OthersTrue DEF TruthInv, Counts
  <1>10. ASSUME NEW e \in Event, PurgeInbox(e) PROVE TruthInv'
    <2>1. \A f \in Event, r \in Request : f \in locked[r] => inbox'[f] = inbox[f]
      BY <1>10 DEF PurgeInbox, TypeInv, TypeOK
    <2> QED BY <1>1, <1>10, <2>1 DEF PurgeInbox
  <1>11. RegisterSite \/ UNCHANGED vars \/ (\E e \in Event : PurgeEvent(e))
           => UNCHANGED <<inbox, ever, pc, work, committed>>
    BY DEF RegisterSite, PurgeEvent, vars
  <1> QED BY <1>1, <1>2, <1>3, <1>4, <1>5, <1>6, <1>7, <1>8, <1>9, <1>10, <1>11
          DEF Next, Proceed, Break

IInv == TypeInv /\ WriteInv /\ TruthInv

LEMMA Inductive ==
    /\ Init => IInv
    /\ IInv /\ [Next]_vars => IInv'
  BY TypeInit, TypeStep, WriteInit, WriteStep, TruthInit, TruthStep DEF IInv

(***************************************************************************)
(* Refinement                                                              *)
(***************************************************************************)

VerdictsOf == [r \in Request |-> Verdicts(r)]

LEMMA StoreVarsIs == UNCHANGED <<inbox, ever, VerdictsOf>> => UNCHANGED Store!vars
  BY DEF VerdictsOf, Store!vars

(* Nobody is decided by the step of another request, *)
LEMMA OthersVerdicts ==
    ASSUME NEW r \in Request, Others(r), committed' \in {committed, committed \cup {r}},
           NEW s \in Request \ {r}
    PROVE  Verdicts(s)' = Verdicts(s)
  <1>1. pc'[s] = pc[s] /\ outcomes'[s] = outcomes[s] /\ batch'[s] = batch[s]
    BY DEF Others
  <1>2. s \in committed' <=> s \in committed
    OBVIOUS
  <1> QED BY <1>1, <1>2 DEF Verdicts, Decided

(* and a step that stores nothing and decides nothing is not seen.         *)
LEMMA Unseen ==
    ASSUME NEW r \in Request, Others(r), UNCHANGED <<inbox, ever, committed>>,
           \/ ~Decided(r) /\ ~Decided(r)'
           \/ /\ Decided(r)' <=> Decided(r)
              /\ outcomes'[r] = outcomes[r] /\ batch'[r] = batch[r]
    PROVE  UNCHANGED Store!vars
  <1>1. Verdicts(r)' = Verdicts(r)
    BY DEF Verdicts
  <1>2. VerdictsOf' = VerdictsOf
    BY <1>1, OthersVerdicts DEF VerdictsOf
  <1> QED BY <1>2, StoreVarsIs

LEMMA OpenUndecided ==
    ASSUME TruthInv, NEW r \in Request, pc[r] \in {"new"} \cup InTransaction
    PROVE  ~Decided(r)
  BY Labels DEF TruthInv, Open, Closed, Decided

(* A step that decides a request. *)
LEMMA DecideIs ==
    ASSUME NEW r \in Request, Others(r), committed' \in {committed, committed \cup {r}},
           ~Decided(r), NEW v, v = Verdicts(r)',
           Store!True(v) \/ Store!Refused(v),
           \A e \in Event :
               /\ IF Store!Fresh(v, e) = {} THEN inbox'[e] = inbox[e]
                  ELSE inbox'[e] \in Store!Fresh(v, e)
               /\ ever'[e] = ever[e] \cup Store!Fresh(v, e)
    PROVE  [Store!Next]_(Store!vars)
  <1>1. VerdictsOf[r] = <<>>
    BY DEF VerdictsOf, Verdicts
  <1>2. VerdictsOf' = [VerdictsOf EXCEPT ![r] = v] /\ VerdictsOf'[r] = v
    BY OthersVerdicts DEF VerdictsOf
  <1>3. Store!Decide(r)
    BY <1>1, <1>2 DEF Store!Decide, VerdictsOf
  <1> QED BY <1>3 DEF Store!Next

(* The verdicts of a request that is decided, item by item. *)
LEMMA DecidedVerdicts ==
    ASSUME NEW r \in Request, Decided(r)', outcomes'[r] \in Seq(Verdict)
    PROVE  /\ DOMAIN Verdicts(r)' = 1 .. Len(outcomes'[r])
           /\ \A i \in 1 .. Len(outcomes'[r]) :
                /\ Verdicts(r)'[i].id = batch'[r][i].id
                /\ Verdicts(r)'[i].payload = batch'[r][i].payload
                /\ Verdicts(r)'[i].ours = batch'[r][i].ours
                /\ Verdicts(r)'[i].verdict = outcomes'[r][i]
  BY DEF Verdicts

LEMMA RefusalDecides ==
    ASSUME NEW v, \A i \in DOMAIN v : v[i].verdict # "new"
    PROVE  \A e \in Event : Store!Fresh(v, e) = {}
  BY DEF Store!Fresh

LEMMA StartSimulated ==
    ASSUME IInv, NEW r \in Request, NEW b \in Batch, Start(r, b)
    PROVE  [Store!Next]_(Store!vars)
  <1> USE DEF tables, history, IInv
  <1>1. /\ Others(r) /\ ~Decided(r) /\ UNCHANGED <<inbox, ever, committed>>
        /\ pc' \in [Request -> Label] /\ r \notin committed
    BY OthersStay, OpenUndecided, StartTyped, Labels
       DEF Start, Decided, TypeInv, TypeOK, Label
  <1>2. CASE registered
    <2>1. pc'[r] = "next"
      BY <1>2, PcTyped DEF Start, Goto
    <2> QED BY <1>1, <2>1, Unseen DEF Decided
  <1>3. CASE ~registered
    <2>1. Decided(r)' /\ outcomes'[r] = [i \in DOMAIN b |-> "unknown"]
      BY <1>3, PcTyped DEF Start, Goto, Decided, TypeInv, TypeOK
    <2>2. outcomes'[r] \in Seq(Verdict) /\ b \in Seq(Item)
      BY StartTyped, AcceptanceAssumption DEF TypeInv, TypeOK
    <2>3. \A i \in DOMAIN Verdicts(r)' : Verdicts(r)'[i].verdict = "unknown"
      BY <2>1, <2>2 DEF Verdicts
    <2>4. PICK v : v = Verdicts(r)'
      OBVIOUS
    <2>5. Store!Refused(v) /\ \A e \in Event : Store!Fresh(v, e) = {}
      BY <2>3, <2>4, RefusalDecides DEF Store!Refused
    <2> QED BY <1>1, <2>4, <2>5, DecideIs
  <1> QED BY <1>2, <1>3

(* acceptEnvelope() that returns without a commit. *)
LEMMA SingleSimulated ==
    ASSUME IInv, NEW r \in Request, Others(r), UNCHANGED <<inbox, ever, batch, committed>>,
           pc[r] \in InTransaction, Len(outcomes[r]) < Len(batch[r]),
           NEW v \in {"conflict", "unknown"}, Conclude(r, v), r \in Single,
           IF ~Current(r).ours THEN v = "unknown"
           ELSE /\ v = "conflict" => ever[Current(r).id] \ {Current(r).payload} # {}
                /\ v = "unknown" => ever[Current(r).id] # {}
    PROVE  [Store!Next]_(Store!vars)
  <1> USE DEF IInv
  <1>1. /\ Len(outcomes[r]) = 0 /\ Len(batch[r]) = 1 /\ Current(r) = batch[r][1]
    BY BatchItems DEF TypeInv, Bounded, Current
  <1>2. /\ outcomes'[r] \in Seq(Verdict) /\ Len(outcomes'[r]) = 1 /\ outcomes'[r][1] = v
        /\ pc'[r] = "ok"
    <2>1. v \in Verdict
      BY DEF Verdict
    <2>2. /\ outcomes' \in [Request -> Seq(Verdict)]
          /\ Len(outcomes'[r]) = Len(outcomes[r]) + 1
          /\ outcomes'[r][Len(outcomes[r]) + 1] = v
          /\ pc'[r] = "ok"
      BY <2>1, Concluded
    <2> QED BY <1>1, <2>2
  <1>3. Decided(r)' /\ ~Decided(r)
    BY <1>2, OpenUndecided DEF Decided
  <1>4. PICK w : w = Verdicts(r)'
    OBVIOUS
  <1>5. /\ DOMAIN w = {1} /\ w[1].id = Current(r).id /\ w[1].payload = Current(r).payload
        /\ w[1].ours = Current(r).ours /\ w[1].verdict = v
    BY <1>1, <1>2, <1>3, <1>4, DecidedVerdicts
  <1>6. Store!True(w)
    <2>1. Store!Earlier(w, 1) = {}
      BY DEF Store!Earlier
    <2>2. CASE ~w[1].ours
      BY <1>5, <2>2 DEF Store!True
    <2>3. CASE w[1].ours
      <3>1. Store!Judged(w[1])
        <4>1. CASE v = "conflict"
          BY <1>5, <2>3, <4>1 DEF Store!Judged
        <4>2. CASE v = "unknown"
          BY <1>5, <2>3, <4>2 DEF Store!Judged
        <4> QED BY <4>1, <4>2
      <3> QED BY <1>5, <2>1, <2>3, <3>1 DEF Store!True
    <2> QED BY <2>2, <2>3
  <1>7. \A e \in Event : Store!Fresh(w, e) = {}
    BY <1>5, RefusalDecides
  <1> QED BY <1>3, <1>4, <1>6, <1>7, DecideIs

LEMMA ConcludeSimulated ==
    ASSUME IInv, NEW r \in Request, Others(r), UNCHANGED <<inbox, ever, batch, committed>>,
           pc[r] \in InTransaction, Len(outcomes[r]) < Len(batch[r]),
           NEW v \in Verdict, Conclude(r, v),
           IF ~Current(r).ours THEN v = "unknown"
           ELSE r \in Single =>
                /\ v = "conflict" => ever[Current(r).id] \ {Current(r).payload} # {}
                /\ v = "unknown" => ever[Current(r).id] # {}
    PROVE  [Store!Next]_(Store!vars)
  <1> USE DEF IInv
  <1>1. CASE r \in Single /\ v \in {"conflict", "unknown"}
    BY <1>1, SingleSimulated
  <1>2. CASE ~(r \in Single /\ v \in {"conflict", "unknown"})
    <2>1. pc'[r] = "next" /\ r \notin committed'
      BY <1>2, Concluded DEF TruthInv, Open
    <2> QED BY <2>1, OpenUndecided, Unseen DEF Decided
  <1> QED BY <1>1, <1>2

LEMMA TakeSimulated ==
    ASSUME IInv, NEW r \in Request, TakeEnvelope(r)
    PROVE  [Store!Next]_(Store!vars)
  <1> USE DEF tables, history, IInv
  <1>1. /\ pc[r] = "next" /\ Len(outcomes[r]) < Len(batch[r]) /\ pc[r] \in InTransaction
        /\ UNCHANGED <<inbox, ever, batch, committed>> /\ Others(r)
    BY BatchItems, Labels, OthersStay DEF TakeEnvelope, Proceed
  <1>2. ASSUME ~Current(r).ours, Conclude(r, "unknown")
        PROVE  [Store!Next]_(Store!vars)
    BY <1>1, <1>2, ConcludeSimulated DEF Verdict
  <1>3. ASSUME NEW v \in {"duplicate", "conflict"}, Current(r).ours, Prior(r) # {},
               Conclude(r, v)
        PROVE  [Store!Next]_(Store!vars)
    <2>1. r \notin Single
      <3>1. r \in Single => Len(outcomes[r]) = 0
        BY <1>1, BatchItems DEF TypeInv, Bounded
      <3>2. Len(outcomes[r]) = 0 => Prior(r) = {}
        BY DEF Prior
      <3> QED BY <1>3, <3>1, <3>2
    <2> QED BY <1>1, <1>3, <2>1, ConcludeSimulated DEF Verdict
  <1>4. CASE Goto(r, "insertInbox") /\ UNCHANGED outcomes
    <2>1. pc'[r] = "insertInbox" /\ r \notin committed'
      BY <1>1, <1>4, PcTyped DEF Goto, TruthInv, Open
    <2> QED BY <1>1, <2>1, OpenUndecided, Unseen DEF Decided
  <1> QED BY <1>2, <1>3, <1>4 DEF TakeEnvelope

LEMMA SelectSimulated ==
    ASSUME IInv, NEW r \in Request, SelectExisting(r)
    PROVE  [Store!Next]_(Store!vars)
  <1> USE DEF tables, history, IInv
  <1>1. /\ pc[r] = "select" /\ Len(outcomes[r]) < Len(batch[r]) /\ pc[r] \in InTransaction
        /\ pc[r] \in Writing /\ Current(r) \in Item
        /\ UNCHANGED <<inbox, ever, batch, committed>> /\ Others(r)
    BY BatchItems, Labels, OthersStay
       DEF SelectExisting, Proceed, TypeInv, Bounded, Writing
  <1>2. /\ Current(r).ours /\ ever[Current(r).id] # {} /\ Current(r).id \in Event
    BY <1>1, JudgedItems DEF TruthInv, Open
  <1>3. PICK v \in Verdict :
          /\ Conclude(r, v)
          /\ v = "conflict" => /\ inbox[Current(r).id] # NoPayload
                               /\ inbox[Current(r).id] # Current(r).payload
    BY <1>1, Selected DEF Verdict
  <1>4. v = "conflict" => ever[Current(r).id] \ {Current(r).payload} # {}
    BY <1>2, <1>3 DEF WriteInv, Known
  <1> QED BY <1>1, <1>2, <1>3, <1>4, ConcludeSimulated

(* The first of a set of positions is one of them. *)
LEMMA FirstIn ==
    ASSUME NEW n \in Nat, NEW i \in 1 .. n, NEW S, S \subseteq 1 .. i - 1, S # {}
    PROVE  FirstOf(S) \in 1 .. n
  <1>1. i \in Nat /\ 1 .. i - 1 \subseteq 1 .. n
    OBVIOUS
  <1>2. S \subseteq 1 .. n /\ S \subseteq Nat
    BY <1>1
  <1>3. PICK k \in S : \A j \in S : ~(<<j, k>> \in OpToRel(<, Nat))
    BY <1>2, NatLessThanWellFounded, WFMin
  <1>4. \A j \in S : k <= j
    <2> SUFFICES ASSUME NEW j \in S PROVE ~(j < k)
      BY <1>2
    <2>1. <<j, k>> \in Nat \X Nat
      BY <1>2
    <2>2. <<j, k>> \notin OpToRel(<, Nat)
      BY <1>3
    <2> QED BY <2>1, <2>2 DEF OpToRel
  <1>5. FirstOf(S) \in S
    BY <1>4 DEF FirstOf
  <1> QED BY <1>2, <1>5

(* All of the batch at once. *)
LEMMA CommitSimulated ==
    ASSUME IInv, NEW r \in Request, Commits(r), Others(r)
    PROVE  [Store!Next]_(Store!vars)
  <1> USE DEF IInv
  <1>1. /\ pc[r] = "next" /\ pc[r] \in InTransaction /\ committed' = committed \cup {r}
        /\ batch'[r] = batch[r] /\ outcomes'[r] = outcomes[r]
        /\ outcomes[r] \in Seq(Verdict) /\ Len(outcomes[r]) \in Nat
    BY Labels, BatchItems DEF Commits, TakeEffect
  <1>2. /\ \A i \in 1 .. Len(outcomes[r]) : Grounded(r, i)
        /\ Written(r)
    BY <1>1 DEF TruthInv, Open
  <1>3. Decided(r)' /\ ~Decided(r)
    BY <1>1, OpenUndecided DEF Decided
  <1>4. PICK v : v = Verdicts(r)'
    OBVIOUS
  <1>5. /\ DOMAIN v = 1 .. Len(outcomes[r])
        /\ \A i \in 1 .. Len(outcomes[r]) :
             /\ v[i].id = batch[r][i].id
             /\ v[i].payload = batch[r][i].payload
             /\ v[i].ours = batch[r][i].ours
             /\ v[i].verdict = outcomes[r][i]
    BY <1>1, <1>3, <1>4, DecidedVerdicts
  <1>6. ASSUME NEW i \in 1 .. Len(outcomes[r])
        PROVE  /\ v[i].id \in Event /\ v[i].payload # NoPayload
               /\ v[i].verdict \in Verdict
               /\ v[i].verdict = "new" => ownEvents[r][v[i].id] = v[i].payload
    <2>1. v[i].id \in Event /\ v[i].payload # NoPayload /\ v[i].verdict \in Verdict
      BY <1>1, <1>5, JudgedItems
    <2>2. v[i].verdict = "new" => ownEvents[r][v[i].id] = v[i].payload
      BY <1>2, <1>5 DEF Grounded
    <2> QED BY <2>1, <2>2
  <1>7. Store!True(v)
    <2> SUFFICES ASSUME NEW i \in 1 .. Len(outcomes[r])
                 PROVE  CASE ~v[i].ours -> v[i].verdict = "unknown"
                          [] v[i].ours /\ Store!Earlier(v, i) # {} -> Store!Repeated(v, i)
                          [] OTHER -> Store!Judged(v[i])
      BY <1>5 DEF Store!True
    <2>1. Grounded(r, i)
      BY <1>2
    <2>2. Store!Earlier(v, i) = EarlierOf(r, i)
      BY <1>1, <1>5 DEF Store!Earlier, EarlierOf
    <2>3. CASE ~v[i].ours
      BY <1>5, <2>1, <2>3 DEF Grounded
    <2>4. CASE v[i].ours /\ EarlierOf(r, i) # {}
      <3>1. Store!First(v, i) = FirstOf(EarlierOf(r, i))
        BY <2>2 DEF Store!First, FirstOf
      <3>2. FirstOf(EarlierOf(r, i)) \in 1 .. Len(outcomes[r])
        <4>1. EarlierOf(r, i) \subseteq 1 .. i - 1
          BY DEF EarlierOf
        <4> QED BY <1>1, <2>4, <4>1, FirstIn
      <3>3. v[FirstOf(EarlierOf(r, i))].payload
              = batch[r][FirstOf(EarlierOf(r, i))].payload
        BY <1>5, <3>2
      <3>4. Store!Repeated(v, i)
        BY <1>5, <2>1, <2>4, <3>1, <3>3 DEF Grounded, Store!Repeated
      <3> QED BY <2>2, <2>4, <3>4
    <2>5. CASE v[i].ours /\ EarlierOf(r, i) = {}
      <3>1. /\ v[i].verdict = "new" => inbox[v[i].id] = NoPayload
            /\ v[i].verdict = "duplicate" => inbox[v[i].id] = v[i].payload
            /\ v[i].verdict = "conflict" => ever[v[i].id] \ {v[i].payload} # {}
            /\ v[i].verdict = "unknown" => ever[v[i].id] # {}
        <4>1. v[i].verdict = "new" => inbox[v[i].id] = NoPayload
          BY <1>6, RowsAtCommit
        <4> QED BY <1>5, <2>1, <2>5, <4>1 DEF Grounded
      <3>2. Store!Judged(v[i])
        BY <1>6, <3>1 DEF Store!Judged, Verdict
      <3> QED BY <2>2, <2>5, <3>2
    <2> QED BY <2>3, <2>4, <2>5, <1>5
  <1>8. ASSUME NEW e \in Event
        PROVE  Store!Fresh(v, e) = {ownEvents[r][e]} \ {NoPayload}
    <2>1. Store!Fresh(v, e) \subseteq {ownEvents[r][e]} \ {NoPayload}
      BY <1>5, <1>6 DEF Store!Fresh
    <2>2. ASSUME ownEvents[r][e] # NoPayload PROVE ownEvents[r][e] \in Store!Fresh(v, e)
      <3>1. PICK i \in 1 .. Len(outcomes[r]) : v[i].id = e /\ v[i].verdict = "new"
        BY <1>2, <1>5, <2>2 DEF Written
      <3> QED BY <1>5, <1>6, <3>1 DEF Store!Fresh
    <2> QED BY <2>1, <2>2
  <1>9. \A e \in Event :
          /\ IF Store!Fresh(v, e) = {} THEN inbox'[e] = inbox[e]
             ELSE inbox'[e] \in Store!Fresh(v, e)
          /\ ever'[e] = ever[e] \cup Store!Fresh(v, e)
    BY <1>8, RowsAtCommit
  <1> QED BY <1>1, <1>3, <1>4, <1>7, <1>9, DecideIs

LEMMA StepSimulated ==
    ASSUME IInv, [Next]_vars
    PROVE  [Store!Next]_(Store!vars)
  <1> USE DEF tables, work, history, IInv
  <1>1. CASE UNCHANGED <<inbox, ever, pc, work, committed>>
    <2>1. \A r \in Request : Verdicts(r)' = Verdicts(r)
      BY <1>1 DEF Verdicts, Decided
    <2> QED BY <1>1, <2>1, StoreVarsIs DEF VerdictsOf
  <1>2. ASSUME NEW r \in Request, InsertInbox(r) \/ InsertEvent(r)
        PROVE  [Store!Next]_(Store!vars)
    <2>1. /\ Others(r) /\ UNCHANGED <<inbox, ever, committed>>
          /\ pc[r] \in InTransaction /\ pc'[r] \in {"next", "select", "insertEvent"}
          /\ r \notin committed
      BY <1>2, OthersStay, Labels, PcTyped
         DEF Proceed, InsertInbox, InsertEvent, Conclude, Goto, TruthInv, Open
    <2> QED BY <2>1, OpenUndecided, Unseen DEF Decided
  <1>3. ASSUME NEW r \in Request, Commit(r) \/ CommitUnacknowledged(r)
        PROVE  [Store!Next]_(Store!vars)
    BY <1>3, CommitsIs, CommitSimulated
  <1>4. ASSUME NEW r \in Request, StatementFails(r) \/ DeadlockVictim(r) \/ Interrupted(r)
        PROVE  [Store!Next]_(Store!vars)
    <2>1. Abandons(r) /\ Others(r)
      BY <1>4, Abandoned, OthersStay DEF Proceed, Break
    <2>2. pc[r] # "ok" /\ pc'[r] # "ok"
      BY <2>1, PcTyped, Labels DEF Abandons, Goto
    <2> QED BY <2>1, <2>2, Unseen DEF Abandons, Decided
  <1>5. ASSUME NEW r \in Request,
               CountOutcome(r) \/ CountFails(r) \/ CountFailure(r) \/ CountFailureFails(r)
        PROVE  [Store!Next]_(Store!vars)
    <2>1. Counts(r) /\ Others(r)
      BY <1>5, Counted, OthersStay DEF Proceed, Break
    <2>2. Decided(r)' <=> Decided(r)
      BY <2>1 DEF Counts, Decided, TruthInv, Closed
    <2> QED BY <2>1, <2>2, Unseen DEF Counts
  <1>6. ASSUME NEW e \in Event, PurgeInbox(e) PROVE [Store!Next]_(Store!vars)
    <2>1. VerdictsOf' = VerdictsOf
      BY <1>6 DEF PurgeInbox, VerdictsOf, Verdicts, Decided
    <2>2. Store!Forget(e)
      BY <1>6, <2>1 DEF PurgeInbox, Store!Forget, VerdictsOf
    <2> QED BY <2>2 DEF Store!Next
  <1>7. RegisterSite \/ UNCHANGED vars \/ (\E e \in Event : PurgeEvent(e))
          => UNCHANGED <<inbox, ever, pc, work, committed>>
    BY DEF RegisterSite, PurgeEvent, vars
  <1> QED BY <1>1, <1>2, <1>3, <1>4, <1>5, <1>6, <1>7, StartSimulated, TakeSimulated,
             SelectSimulated DEF Next, Proceed, Break

LEMMA InitSimulated == Init => Store!Init
  <1> SUFFICES ASSUME Init PROVE Store!Init
    OBVIOUS
  <1>1. inbox \in [Event -> Payload \cup {NoPayload}]
    BY AcceptanceAssumption DEF Init
  <1>2. \A r \in Request : Verdicts(r) = <<>>
    BY DEF Init, Verdicts, Decided
  <1> QED BY <1>1, <1>2 DEF Init, Store!Init

(* Batches take effect one after the other, each as a whole or not at all, *)
(* and every verdict is true of the moment its request takes effect.       *)
THEOREM FirstWriteIsKept == Spec => ImplementsFirstWriteWins
  <1>1. IInv /\ [Next]_vars => [Store!Next]_(Store!vars)
    BY StepSimulated
  <1> QED BY <1>1, InitSimulated, Inductive, PTL
        DEF Spec, ImplementsFirstWriteWins, Store!Spec

(***************************************************************************)
(* The counter of accepted events                                          *)
(***************************************************************************)

(* The accepted events that are in the counter: a request counts its       *)
(* outcomes in order, one statement each, after its COMMIT.                *)
Tally ==
    {p \in (Request \ Single) \X (Nat \ {0}) :
        p[2] <= counted[p[1]] /\ outcomes[p[1]][p[2]] = "new"}

(* How far a request is with counting.  The last conjunct is the one that  *)
(* CountersMatchFacts ends with: what was committed is counted or about to *)
(* be, unless something failed.                                            *)
Tallied(r) ==
    /\ pc[r] \in {"new"} \cup InTransaction => r \notin committed /\ counted[r] = 0
    /\ pc[r] \in InTransaction => Len(batch[r]) > 0
    /\ counted[r] > 0 => r \in committed \ Single
    /\ counted[r] <= Len(outcomes[r])
    /\ pc[r] = "counting" => r \in committed \ Single /\ counted[r] < Len(batch[r])
    /\ r \in committed => Len(outcomes[r]) = Len(batch[r])
    /\ r \in committed \ Single /\ RecordOps /\ failures = 0
         => \/ pc[r] = "counting"
            \/ pc[r] = "ok" /\ counted[r] = Len(batch[r])

TallyInv ==
    /\ \A r \in Request : Tallied(r)
    /\ IsFiniteSet(Tally)
    /\ ops["ingest_accepted"] = Cardinality(Tally)

LEMMA TallyInit == Init => TallyInv
  <1> SUFFICES ASSUME Init PROVE TallyInv
    OBVIOUS
  <1>1. \A r \in Request : Tallied(r)
    BY Labels DEF Init, Tallied
  <1>2. Tally = {}
    BY DEF Init, Tally
  <1>3. ops["ingest_accepted"] = 0
    BY DEF Init, Metric
  <1> QED BY <1>1, <1>2, <1>3, FS_EmptySet DEF TallyInv

(* What is counted stands while only outcomes change of which none is.     *)
LEMMA TallyStands ==
    ASSUME TypeInv, TallyInv, UNCHANGED counted,
           ops'["ingest_accepted"] = ops["ingest_accepted"],
           \A r \in Request : outcomes'[r] = outcomes[r] \/ counted[r] = 0
    PROVE  IsFiniteSet(Tally') /\ ops'["ingest_accepted"] = Cardinality(Tally')
  <1>1. ASSUME NEW r \in Request, NEW i \in Nat \ {0}
        PROVE  i <= counted[r] /\ outcomes'[r][i] = "new"
                 <=> i <= counted[r] /\ outcomes[r][i] = "new"
    <2>1. CASE outcomes'[r] = outcomes[r]
      BY <2>1
    <2>2. CASE counted[r] = 0
      BY <2>2
    <2> QED BY <2>1, <2>2
  <1>2. Tally' = Tally
    BY <1>1 DEF Tally
  <1> QED BY <1>2 DEF TallyInv

LEMMA OthersTallied ==
    ASSUME TallyInv, NEW r \in Request, Others(r), NEW s \in Request \ {r},
           s \in committed' <=> s \in committed,
           counted'[s] = counted[s],
           failures' = 0 => failures = 0
    PROVE  Tallied(s)'
  BY DEF TallyInv, Tallied, Others

(* A request that has not committed has nothing to count yet. *)
LEMMA NothingToCount ==
    ASSUME TypeInv, TallyInv, NEW r \in Request, Others(r),
           pc[r] \in {"new"} \cup InTransaction, pc'[r] \in Label \ {"counting"},
           pc'[r] \in InTransaction => Len(batch'[r]) > 0,
           Len(outcomes'[r]) \in Nat,
           UNCHANGED <<counted, committed, ops>>,
           failures' = 0 => failures = 0
    PROVE  TallyInv'
  <1>1. r \notin committed' /\ counted'[r] = 0
    BY DEF TallyInv, Tallied
  <1>2. Tallied(r)'
    BY <1>1 DEF Tallied
  <1>3. \A s \in Request : outcomes'[s] = outcomes[s] \/ counted[s] = 0
    BY <1>1 DEF Others
  <1> QED BY <1>2, <1>3, OthersTallied, TallyStands DEF TallyInv

(* A request that does not count any more, or never did. *)
LEMMA NothingCounted ==
    ASSUME TypeInv, TallyInv, NEW r \in Request, Others(r),
           pc'[r] \in {"failing", "retrying", "storage-error", "thrown", "gone"},
           failures' # 0 \/ pc[r] \in {"failing", "retrying"},
           UNCHANGED <<counted, committed, outcomes, batch>>,
           ops'["ingest_accepted"] = ops["ingest_accepted"],
           failures' = 0 => failures = 0
    PROVE  TallyInv'
  <1>1. Tallied(r)'
    BY Labels DEF TallyInv, Tallied
  <1> QED BY <1>1, OthersTallied, TallyStands DEF TallyInv

LEMMA CommitTallied ==
    ASSUME TypeInv, TallyInv, NEW r \in Request, Commit(r) \/ CommitUnacknowledged(r)
    PROVE  TallyInv'
  <1>1. /\ Commits(r) /\ Others(r) /\ pc[r] = "next" /\ AllDone(r)
        /\ UNCHANGED <<counted, ops, outcomes, batch>>
        /\ committed' = committed \cup {r}
    BY CommitsIs DEF Commits, TakeEffect, Commit, CommitUnacknowledged
  <1>2. /\ counted[r] = 0 /\ Len(batch[r]) > 0 /\ Len(outcomes[r]) = Len(batch[r])
        /\ Len(batch[r]) \in Nat
    BY <1>1, Labels, BatchItems DEF TallyInv, Tallied, AllDone
  <1>3. CASE Commit(r)
    <2>1. /\ pc'[r] = IF RecordOps /\ r \notin Single THEN "counting" ELSE "ok"
          /\ failures' = failures
      BY <1>3, PcTyped DEF Commit, Goto
    <2>2. Tallied(r)'
      BY <1>1, <1>2, <2>1, Labels DEF Tallied
    <2> QED BY <1>1, <2>1, <2>2, OthersTallied, TallyStands DEF TallyInv
  <1>4. CASE CommitUnacknowledged(r)
    <2>1. pc'[r] = "thrown" /\ failures' = failures + 1 /\ failures \in Nat
      BY <1>4, PcTyped DEF CommitUnacknowledged, Goto, TypeInv, TypeOK
    <2>2. Tallied(r)'
      BY <1>1, <1>2, <2>1, Labels DEF Tallied
    <2> QED BY <1>1, <2>1, <2>2, OthersTallied, TallyStands DEF TallyInv
  <1> QED BY <1>3, <1>4

(* One more outcome is counted, each once and under its own metric. *)
LEMMA CountTallied ==
    ASSUME TypeInv, TallyInv, NEW r \in Request, CountOutcome(r)
    PROVE  TallyInv'
  <1> USE DEF work, history
  <1> DEFINE i == counted[r] + 1
             m == MetricOf(outcomes[r][i])
  <1>1. /\ pc[r] = "counting" /\ r \in committed \ Single
        /\ counted[r] \in Nat /\ Len(batch[r]) \in Nat /\ Len(outcomes[r]) = Len(batch[r])
        /\ counted[r] < Len(batch[r])
    BY BatchItems DEF CountOutcome, TallyInv, Tallied, TypeInv, TypeOK
  <1>2. i \in 1 .. Len(outcomes[r]) /\ outcomes[r][i] \in Verdict
    <2>1. i \in 1 .. Len(outcomes[r]) /\ outcomes[r] \in Seq(Verdict)
      BY <1>1, BatchItems
    <2> QED BY <2>1
  <1>3. /\ ops' = [ops EXCEPT ![m] = @ + 1]
        /\ counted' = [counted EXCEPT ![r] = @ + 1]
        /\ UNCHANGED <<outcomes, batch, committed, failures>>
        /\ IF counted'[r] = Len(batch[r]) THEN Goto(r, "ok") ELSE UNCHANGED pc
    BY DEF CountOutcome
  <1>4. Others(r)
    BY OthersStay DEF Proceed
  <1>5. counted'[r] = i /\ \A s \in Request \ {r} : counted'[s] = counted[s]
    BY <1>3 DEF TypeInv, TypeOK
  <1>6. m = "ingest_accepted" <=> outcomes[r][i] = "new"
    BY <1>2 DEF MetricOf, Verdict
  <1>7. ops'["ingest_accepted"] = IF outcomes[r][i] = "new"
                                  THEN ops["ingest_accepted"] + 1
                                  ELSE ops["ingest_accepted"]
    <2>1. "ingest_accepted" \in Metric /\ ops \in [Metric -> Nat]
      BY DEF Metric, TypeInv, TypeOK
    <2> HIDE DEF m
    <2> QED BY <1>3, <1>6, <2>1
  <1>8. Tallied(r)'
    <2>1. \/ pc'[r] = "ok" /\ i = Len(batch[r])
          \/ pc'[r] = "counting" /\ i # Len(batch[r])
      BY <1>1, <1>3, <1>5, PcTyped DEF Goto
    <2> HIDE DEF m
    <2> QED BY <1>1, <1>2, <1>3, <1>5, <2>1, Labels DEF Tallied
  <1>9. ~(<<r, i>> \in Tally)
    BY <1>1 DEF Tally
  <1>10. Tally' = IF outcomes[r][i] = "new" THEN Tally \cup {<<r, i>>} ELSE Tally
    <2>1. ASSUME NEW s \in Request \ Single, NEW j \in Nat \ {0}
          PROVE  j <= counted'[s] <=> j <= counted[s] \/ (s = r /\ j = i)
      <3>1. CASE s = r
        BY <1>1, <1>5, <3>1
      <3>2. CASE s # r
        BY <1>5, <3>2
      <3> QED BY <3>1, <3>2
    <2>2. r \in Request \ Single /\ i \in Nat \ {0}
      BY <1>1
    <2> HIDE DEF i, m
    <2>3. Tally' = {p \in (Request \ Single) \X (Nat \ {0}) :
                      /\ p[2] <= counted[p[1]] \/ (p[1] = r /\ p[2] = i)
                      /\ outcomes[p[1]][p[2]] = "new"}
      BY <1>3, <2>1 DEF Tally
    <2> QED BY <2>2, <2>3 DEF Tally
  <1>11. IsFiniteSet(Tally') /\ ops'["ingest_accepted"] = Cardinality(Tally')
    <2> DEFINE x == <<r, i>>
    <2>1. CASE outcomes[r][i] = "new"
      <3>1. /\ IsFiniteSet(Tally \cup {x})
            /\ Cardinality(Tally \cup {x}) = IF x \in Tally THEN Cardinality(Tally)
                                             ELSE Cardinality(Tally) + 1
        <4> HIDE DEF x
        <4> QED BY FS_AddElement DEF TallyInv
      <3> QED BY <1>7, <1>9, <1>10, <2>1, <3>1 DEF TallyInv
    <2>2. CASE outcomes[r][i] # "new"
      BY <1>7, <1>10, <2>2 DEF TallyInv
    <2> QED BY <2>1, <2>2
  <1> QED BY <1>3, <1>4, <1>5, <1>8, <1>11, OthersTallied DEF TallyInv

LEMMA TallyStep == TypeInv /\ TallyInv /\ [Next]_vars => TallyInv'
  <1> SUFFICES ASSUME TypeInv, TallyInv, [Next]_vars PROVE TallyInv'
    OBVIOUS
  <1> USE DEF tables, work, history
  <1>1. CASE UNCHANGED <<pc, batch, outcomes, counted, ops, committed, failures>>
    BY <1>1 DEF TallyInv, Tallied, Tally
  <1>2. ASSUME NEW r \in Request, NEW b \in Batch, Start(r, b) PROVE TallyInv'
    <2>1. Others(r) /\ pc[r] = "new" /\ UNCHANGED <<counted, committed, ops, failures>>
      BY <1>2, OthersStay DEF Start
    <2>2. pc'[r] \in {"next", "ok"}
      BY <1>2, PcTyped DEF Start, Goto
    <2>3. batch'[r] = b /\ Len(b) > 0
      <3>1. b \in Seq(Item) /\ b # <<>>
        BY AcceptanceAssumption
      <3>2. Len(b) > 0
        BY <3>1
      <3> QED BY <1>2, <3>2 DEF Start, TypeInv, TypeOK
    <2>4. Len(outcomes'[r]) \in Nat
      BY <1>2, StartTyped DEF TypeInv, TypeOK
    <2> QED BY <2>1, <2>2, <2>3, <2>4, Labels, NothingToCount
  <1>3. ASSUME NEW r \in Request,
               TakeEnvelope(r) \/ InsertInbox(r) \/ SelectExisting(r) \/ InsertEvent(r)
        PROVE  TallyInv'
    <2>1. /\ Others(r) /\ pc[r] \in InTransaction
          /\ UNCHANGED <<counted, committed, ops, failures, batch>>
      BY <1>3, OthersStay, Labels
         DEF Proceed, TakeEnvelope, InsertInbox, SelectExisting, InsertEvent
    <2>2. pc'[r] \in Label \ {"counting"}
      <3>1. pc'[r] \in {"ok", "next", "insertInbox", "select", "insertEvent"}
        BY <1>3, PcTyped
           DEF TakeEnvelope, InsertInbox, SelectExisting, InsertEvent, Conclude, Goto
      <3> QED BY <3>1, Labels
    <2>3. Len(outcomes'[r]) \in Nat
      BY <1>3, TakeTyped, InsertTyped, SelectTyped, EventTyped DEF TypeInv, TypeOK
    <2>4. Len(batch'[r]) > 0
      BY <2>1 DEF TallyInv, Tallied
    <2> QED BY <2>1, <2>2, <2>3, <2>4, NothingToCount
  <1>4. ASSUME NEW r \in Request, StatementFails(r) \/ DeadlockVictim(r) \/ Interrupted(r)
        PROVE  TallyInv'
    <2>1. /\ Abandons(r) /\ Others(r)
          /\ UNCHANGED <<counted, committed, ops, outcomes, batch>>
      BY <1>4, Abandoned, OthersStay DEF Proceed, Break, Abandons
    <2>2. pc'[r] \in {"failing", "storage-error", "thrown", "gone"}
      BY <2>1, PcTyped DEF Abandons, Goto
    <2>3. /\ pc[r] \in InTransaction \/ failures' = failures + 1
          /\ failures' = failures \/ failures' = failures + 1
          /\ failures \in Nat
      <3>1. DeadlockVictim(r) => pc[r] \in InTransaction
        BY Labels DEF DeadlockVictim, Deadlocked, WaitsFor
      <3> QED BY <1>4, <3>1 DEF StatementFails, DeadlockVictim, Interrupted, TypeInv, TypeOK
    <2>4. CASE pc[r] \in InTransaction
      <3>1. Len(outcomes'[r]) \in Nat
        BY <2>1, BatchItems
      <3> QED BY <2>1, <2>2, <2>3, <2>4, <3>1, Labels, NothingToCount
    <2>5. CASE failures' = failures + 1
      BY <2>1, <2>2, <2>3, <2>5, NothingCounted
    <2> QED BY <2>3, <2>4, <2>5
  <1>5. ASSUME NEW r \in Request, CountFails(r) \/ CountFailure(r) \/ CountFailureFails(r)
        PROVE  TallyInv'
    <2>1. Others(r) /\ UNCHANGED <<counted, committed, outcomes, batch>>
      BY <1>5, OthersStay DEF Proceed, Break, CountFails, CountFailure, CountFailureFails
    <2>2. /\ pc'[r] \in {"failing", "retrying", "storage-error", "thrown"}
          /\ failures' # 0 \/ pc[r] \in {"failing", "retrying"}
          /\ failures' = 0 => failures = 0
      BY <1>5, PcTyped
         DEF CountFails, CountFailure, CountFailureFails, Goto, TypeInv, TypeOK
    <2>3. ops'["ingest_accepted"] = ops["ingest_accepted"]
      BY <1>5 DEF CountFails, CountFailure, CountFailureFails, TypeInv, TypeOK, Metric
    <2> QED BY <2>1, <2>2, <2>3, NothingCounted
  <1>6. RegisterSite \/ UNCHANGED vars \/ (\E e \in Event : PurgeEvent(e) \/ PurgeInbox(e))
          => UNCHANGED <<pc, batch, outcomes, counted, ops, committed, failures>>
    BY DEF RegisterSite, PurgeEvent, PurgeInbox, vars
  <1> QED BY <1>1, <1>2, <1>3, <1>4, <1>5, <1>6, CommitTallied, CountTallied
          DEF Next, Proceed, Break

(* The events whose batch is committed: those that ought to be counted.    *)
LEMMA StoredIsFinite ==
    ASSUME TypeInv
    PROVE  IsFiniteSet(UNION {{r} \X {i \in DOMAIN outcomes[r] : outcomes[r][i] = "new"}
                              : r \in committed \ Single})
  <1> DEFINE R == committed \ Single
             f == [r \in R |-> {r} \X {i \in DOMAIN outcomes[r] : outcomes[r][i] = "new"}]
             F == {f[r] : r \in R}
  <1>1. IsFiniteSet(R)
    <2>1. R \subseteq Request
      BY DEF TypeInv, TypeOK
    <2> QED BY <2>1, AcceptanceAssumption, FS_Subset
  <1>2. IsFiniteSet(F)
    <2>1. f \in Surjection(R, F)
      BY DEF Surjection
    <2> HIDE DEF f, F, R
    <2> QED BY <1>1, <2>1, FS_Surjection
  <1>3. ASSUME NEW r \in R PROVE IsFiniteSet(f[r])
    <2> DEFINE I == {i \in DOMAIN outcomes[r] : outcomes[r][i] = "new"}
               n == Len(outcomes[r])
    <2>1. r \in Request /\ n \in Nat /\ DOMAIN outcomes[r] = 1 .. n
      <3>1. r \in Request
        BY DEF TypeInv, TypeOK
      <3> QED BY <3>1, BatchItems
    <2>2. I \subseteq 1 .. n
      BY <2>1
    <2>3. IsFiniteSet(1 .. n)
      <3>1. 1 \in Int /\ n \in Int
        BY <2>1
      <3> QED BY ONLY <3>1, FS_Interval
    <2>4. IsFiniteSet(I)
      BY <2>2, <2>3, FS_Subset
    <2>5. IsFiniteSet({r})
      BY FS_Singleton
    <2>6. IsFiniteSet({r} \X I)
      BY <2>4, <2>5, FS_Product
    <2> QED BY <2>6
  <1>4. \A T \in F : IsFiniteSet(T)
    BY <1>3
  <1>5. IsFiniteSet(UNION F)
    <2> HIDE DEF F
    <2> QED BY <1>2, <1>4, FS_UNION
  <1>6. F = {{r} \X {i \in DOMAIN outcomes[r] : outcomes[r][i] = "new"} : r \in R}
    OBVIOUS
  <1> QED BY <1>5, <1>6

(* ingest_accepted never counts an event that is not stored, and when      *)
(* nothing failed and no request is running it counts every one of them:   *)
(* the statements that count run outside the transaction they count for.   *)
THEOREM CountersAreTrue == Spec => []CountersMatchFacts
  <1>1. TypeInv /\ TallyInv => CountersMatchFacts
    <2> SUFFICES ASSUME TypeInv, TallyInv PROVE CountersMatchFacts
      OBVIOUS
    <2> DEFINE Stored ==
          UNION {{r} \X {i \in DOMAIN outcomes[r] : outcomes[r][i] = "new"}
                 : r \in committed \ Single}
    <2>1. ASSUME NEW r \in Request
          PROVE  /\ DOMAIN outcomes[r] = 1 .. Len(outcomes[r])
                 /\ Len(outcomes[r]) \in Nat /\ counted[r] \in Nat
      BY BatchItems DEF TypeInv, TypeOK
    <2>2. \A r \in Request : /\ counted[r] > 0 => r \in committed \ Single
                             /\ counted[r] <= Len(outcomes[r])
      BY DEF TallyInv, Tallied
    <2>3. Tally \subseteq Stored
      <3> SUFFICES ASSUME NEW r \in Request \ Single, NEW i \in Nat \ {0},
                          i <= counted[r], outcomes[r][i] = "new"
                   PROVE  <<r, i>> \in Stored
        BY DEF Tally
      <3>1. r \in committed \ Single /\ i \in 1 .. Len(outcomes[r])
        BY <2>1, <2>2
      <3>2. i \in {j \in DOMAIN outcomes[r] : outcomes[r][j] = "new"}
        BY <2>1, <3>1
      <3>3. <<r, i>> \in {r} \X {j \in DOMAIN outcomes[r] : outcomes[r][j] = "new"}
        BY <3>2
      <3> QED BY <3>1, <3>3
    <2>4. ASSUME \A r \in Request : pc[r] \in {"new", "ok"}, RecordOps, failures = 0
          PROVE  Stored \subseteq Tally
      <3> SUFFICES ASSUME NEW r \in committed \ Single, NEW i \in DOMAIN outcomes[r],
                          outcomes[r][i] = "new"
                   PROVE  <<r, i>> \in Tally
        OBVIOUS
      <3>1. r \in Request
        BY DEF TypeInv, TypeOK
      <3>2. counted[r] = Len(outcomes[r])
        BY <2>4, <3>1 DEF TallyInv, Tallied
      <3>3. i \in Nat \ {0} /\ i <= counted[r]
        BY <2>1, <3>1, <3>2
      <3> QED BY <3>1, <3>3 DEF Tally
    <2>5. IsFiniteSet(Stored) /\ StoredInBatches = Cardinality(Stored)
      BY StoredIsFinite DEF StoredInBatches
    <2> HIDE DEF Stored
    <2>6. Cardinality(Tally) <= Cardinality(Stored)
      BY <2>3, <2>5, FS_Subset
    <2>7. ops["ingest_accepted"] <= StoredInBatches
      BY <2>5, <2>6 DEF TallyInv
    <2>8. (\A r \in Request : pc[r] \in {"new", "ok"}) /\ RecordOps /\ failures = 0
            => ops["ingest_accepted"] = StoredInBatches
      <3> SUFFICES ASSUME \A r \in Request : pc[r] \in {"new", "ok"}, RecordOps,
                          failures = 0
                   PROVE  ops["ingest_accepted"] = StoredInBatches
        OBVIOUS
      <3>1. Tally = Stored
        BY <2>3, <2>4
      <3> QED BY <2>5, <3>1 DEF TallyInv
    <2> QED BY <2>7, <2>8 DEF CountersMatchFacts
  <1> QED BY <1>1, TypeInit, TypeStep, TallyInit, TallyStep, PTL DEF Spec

(***************************************************************************)
(* Nobody waits for ever                                                   *)
(***************************************************************************)

(* Rows and locks belong to open transactions only, and to none that has   *)
(* no verdict yet: the refusals after which acceptEnvelope() returns.      *)
Unheld(r) == locked[r] = {} /\ \A e \in Event : ownInbox[r][e] = NoPayload
LockInv ==
    \A r \in Request :
        pc[r] \notin InTransaction \/ (outcomes[r] = <<>> /\ pc[r] # "insertEvent")
            => Unheld(r)

Begun == {r \in Request : pc[r] # "new"}
CallsBounded == Cardinality(Begun) <= MaxCalls

LEMMA OthersUnheld ==
    ASSUME LockInv, NEW r \in Request, Others(r), Unheld(r)'
    PROVE  LockInv'
  BY DEF LockInv, Unheld, Others

LEMMA OthersLock ==
    ASSUME LockInv, NEW r \in Request, Others(r),
           pc'[r] \in InTransaction, outcomes'[r] # <<>> \/ pc'[r] = "insertEvent"
    PROVE  LockInv'
  BY DEF LockInv, Unheld, Others

(* A verdict is given: the transaction goes on, or a single envelope is    *)
(* refused, which then had no row and no lock.                             *)
LEMMA VerdictLocks ==
    ASSUME TypeInv, LockInv, NEW r \in Request, Others(r),
           NEW v \in Verdict, Conclude(r, v),
           pc[r] \in {"next", "select", "insertEvent"},
           Len(outcomes[r]) < Len(batch[r]), UNCHANGED <<batch, ownInbox>>,
           v \in {"conflict", "unknown"} => UNCHANGED locked /\ pc[r] # "insertEvent"
    PROVE  LockInv'
  <1>1. /\ outcomes'[r] = Append(outcomes[r], v) /\ outcomes[r] \in Seq(Verdict)
        /\ pc'[r] = IF r \in Single /\ v \in {"conflict", "unknown"}
                    THEN "ok" ELSE "next"
    BY Concluded, Labels DEF TypeInv, TypeOK
  <1>2. CASE r \in Single /\ v \in {"conflict", "unknown"}
    <2>1. outcomes[r] = <<>>
      <3>1. Len(outcomes[r]) = 0
        BY <1>1, <1>2, Labels, BatchItems DEF TypeInv, Bounded
      <3> QED BY <1>1, <3>1
    <2>2. Unheld(r)
      BY <1>2, <2>1 DEF LockInv
    <2> QED BY <1>2, <2>2, OthersUnheld DEF Unheld
  <1>3. CASE ~(r \in Single /\ v \in {"conflict", "unknown"})
    <2>1. Len(outcomes'[r]) = Len(outcomes[r]) + 1 /\ Len(outcomes[r]) \in Nat
      BY <1>1
    <2>2. outcomes'[r] # <<>>
      BY <2>1
    <2> QED BY <1>1, <1>3, <2>2, OthersLock, Labels
  <1> QED BY <1>2, <1>3

LEMMA LockStep == TypeInv /\ LockInv /\ [Next]_vars => LockInv'
  <1> SUFFICES ASSUME TypeInv, LockInv, [Next]_vars PROVE LockInv'
    OBVIOUS
  <1> USE DEF tables, work, history
  <1>1. CASE UNCHANGED <<pc, outcomes, locked, ownInbox>>
    BY <1>1 DEF LockInv, Unheld
  <1>2. ASSUME NEW r \in Request, NEW b \in Batch, Start(r, b) PROVE LockInv'
    <2>1. Others(r) /\ pc[r] = "new" /\ UNCHANGED <<locked, ownInbox>>
      BY <1>2, OthersStay DEF Start
    <2>2. Unheld(r)
      BY <2>1, Labels DEF LockInv
    <2> QED BY <2>1, <2>2, OthersUnheld DEF Unheld
  <1>3. ASSUME NEW r \in Request, TakeEnvelope(r) PROVE LockInv'
    <2>1. /\ Others(r) /\ pc[r] = "next" /\ UNCHANGED <<batch, locked, ownInbox>>
          /\ Len(outcomes[r]) < Len(batch[r])
      BY <1>3, OthersStay, BatchItems DEF Proceed, TakeEnvelope
    <2>2. CASE Goto(r, "insertInbox") /\ UNCHANGED outcomes
      <3>1. pc'[r] = "insertInbox"
        BY <2>2, PcTyped DEF Goto
      <3>2. CASE outcomes[r] = <<>>
        <4>1. Unheld(r)
          BY <2>1, <3>2 DEF LockInv
        <4> QED BY <2>1, <4>1, OthersUnheld DEF Unheld
      <3>3. CASE outcomes[r] # <<>>
        BY <2>1, <2>2, <3>1, <3>3, OthersLock, Labels
      <3> QED BY <3>2, <3>3
    <2>3. CASE \E v \in Verdict : Conclude(r, v)
      BY <2>1, <2>3, VerdictLocks
    <2> QED BY <1>3, <2>2, <2>3, TakenVerdict
  <1>4. ASSUME NEW r \in Request, InsertInbox(r) PROVE LockInv'
    <2>1. /\ Others(r) /\ pc[r] = "insertInbox" /\ UNCHANGED <<outcomes, locked>>
          /\ \/ pc'[r] = "insertEvent"
             \/ pc'[r] = "select" /\ UNCHANGED ownInbox
      BY <1>4, OthersStay, PcTyped DEF Proceed, InsertInbox, Goto
    <2>2. CASE pc'[r] = "insertEvent"
      BY <2>1, <2>2, OthersLock, Labels
    <2>3. CASE pc'[r] = "select" /\ UNCHANGED ownInbox
      <3>1. CASE outcomes[r] = <<>>
        <4>1. Unheld(r)
          BY <2>1, <3>1 DEF LockInv
        <4> QED BY <2>1, <2>3, <4>1, OthersUnheld DEF Unheld
      <3>2. CASE outcomes[r] # <<>>
        BY <2>1, <2>3, <3>2, OthersLock, Labels
      <3> QED BY <3>1, <3>2
    <2> QED BY <2>1, <2>2, <2>3
  <1>5. ASSUME NEW r \in Request, SelectExisting(r) PROVE LockInv'
    <2>1. /\ Others(r) /\ pc[r] = "select" /\ UNCHANGED <<batch, ownInbox>>
          /\ Len(outcomes[r]) < Len(batch[r]) /\ Current(r) \in Item
      BY <1>5, OthersStay, BatchItems, Labels
         DEF Proceed, SelectExisting, TypeInv, Bounded, Writing
    <2>2. \E v \in Verdict :
            Conclude(r, v) /\ (v \in {"conflict", "unknown"} => UNCHANGED locked)
      BY <1>5, <2>1, Selected DEF Verdict
    <2> QED BY <2>1, <2>2, VerdictLocks
  <1>6. ASSUME NEW r \in Request, InsertEvent(r) PROVE LockInv'
    <2>1. /\ Others(r) /\ pc[r] = "insertEvent" /\ UNCHANGED <<batch, ownInbox>>
          /\ Len(outcomes[r]) < Len(batch[r]) /\ Conclude(r, "new") /\ "new" \in Verdict
      BY <1>6, OthersStay, Labels
         DEF Proceed, InsertEvent, TypeInv, Bounded, Writing, Verdict
    <2> QED BY <2>1, VerdictLocks
  <1>7. ASSUME NEW r \in Request, Others(r), EndTransaction(r) PROVE LockInv'
    BY <1>7, EndTyped, OthersUnheld DEF Unheld, NoRows
  <1>8. ASSUME NEW r \in Request,
               \/ Commit(r) \/ CommitUnacknowledged(r)
               \/ StatementFails(r) \/ DeadlockVictim(r) \/ Interrupted(r)
        PROVE  LockInv'
    <2>1. Others(r)
      BY <1>8, OthersStay DEF Proceed, Break
    <2>2. EndTransaction(r)
      BY <1>8 DEF Commit, CommitUnacknowledged, TakeEffect, StatementFails,
                  DeadlockVictim, Interrupted, Rollback
    <2> QED BY <1>7, <2>1, <2>2
  <1>9. ASSUME NEW r \in Request,
               CountOutcome(r) \/ CountFails(r) \/ CountFailure(r) \/ CountFailureFails(r)
        PROVE  LockInv'
    <2>1. Counts(r) /\ Others(r)
      BY <1>9, Counted, OthersStay DEF Proceed, Break
    <2>2. Unheld(r)
      BY <2>1, Labels DEF Counts, LockInv
    <2> QED BY <2>1, <2>2, OthersUnheld DEF Counts, Unheld
  <1>10. RegisterSite \/ UNCHANGED vars \/ (\E e \in Event : PurgeEvent(e) \/ PurgeInbox(e))
           => UNCHANGED <<pc, outcomes, locked, ownInbox>>
    BY DEF RegisterSite, PurgeEvent, PurgeInbox, vars
  <1> QED BY <1>1, <1>2, <1>3, <1>4, <1>5, <1>6, <1>8, <1>9, <1>10
          DEF Next, Proceed, Break

LEMMA BegunFinite == IsFiniteSet(Begun) /\ Cardinality(Begun) \in Nat
  <1>1. Begun \subseteq Request
    BY DEF Begun
  <1> QED BY <1>1, AcceptanceAssumption, FS_Subset, FS_CardinalityType

LEMMA CallsStep == TypeInv /\ CallsBounded /\ [Next]_vars => CallsBounded'
  <1> SUFFICES ASSUME TypeInv, CallsBounded, [Next]_vars PROVE CallsBounded'
    OBVIOUS
  <1> USE DEF tables, work, history
  <1>0. MaxCalls \in Nat
    BY AcceptanceAssumption
  <1>1. ASSUME Begun' = Begun PROVE CallsBounded'
    BY <1>1 DEF CallsBounded
  <1>2. ASSUME NEW r \in Request, NEW b \in Batch, Start(r, b) PROVE CallsBounded'
    <2>1. Begun' = Begun \cup {r} /\ r \notin Begun
      BY <1>2, PcTyped, Labels DEF Start, Goto, Begun
    <2>2. Cardinality(Begun) < MaxCalls
      BY <1>2 DEF Start, Begun
    <2>3. Cardinality(Begun \cup {r}) = Cardinality(Begun) + 1
      BY <2>1, BegunFinite, FS_AddElement
    <2>4. Cardinality(Begun') <= MaxCalls
      BY <1>0, <2>1, <2>2, <2>3, BegunFinite
    <2> QED BY <2>4 DEF CallsBounded
  <1>3. ASSUME NEW r \in Request, Proceed(r) \/ Break(r) PROVE CallsBounded'
    <2>1. Others(r)
      BY <1>3, OthersStay
    <2>2. pc[r] # "new"
      <3>1. DeadlockVictim(r) => pc[r] # "new"
        BY DEF DeadlockVictim, Deadlocked, WaitsFor
      <3> QED BY <1>3, <3>1, Labels
              DEF Proceed, Break, TakeEnvelope, InsertInbox, SelectExisting, InsertEvent,
                  Commit, CommitUnacknowledged, TakeEffect, CountOutcome, CountFailure,
                  StatementFails, Interrupted, CountFails, CountFailureFails
    <2>3. pc'[r] # "new"
      BY <1>3, <2>2, PcTyped
         DEF Proceed, Break, TakeEnvelope, InsertInbox, SelectExisting, InsertEvent,
             Commit, CommitUnacknowledged, DeadlockVictim, CountOutcome, CountFailure,
             StatementFails, Interrupted, CountFails, CountFailureFails, Conclude,
             Rollback, Goto, AfterError
    <2> QED BY <1>1, <2>1, <2>2, <2>3 DEF Others, Begun
  <1>4. RegisterSite \/ UNCHANGED vars \/ (\E e \in Event : PurgeEvent(e) \/ PurgeInbox(e))
          => UNCHANGED pc
    BY DEF RegisterSite, PurgeEvent, PurgeInbox, vars
  <1>5. UNCHANGED pc => Begun' = Begun
    BY DEF Begun
  <1> QED BY <1>1, <1>2, <1>3, <1>4, <1>5 DEF Next

(* A waiting transaction waits for another one that is open. *)
LEMMA WaitsForOpen ==
    ASSUME TypeInv, LockInv, NEW r \in Request, NEW s \in Request, WaitsFor(r, s)
    PROVE  pc[r] \in InTransaction /\ pc[s] \in InTransaction /\ r # s
  <1>1. pc[r] \in Writing /\ r # s
    BY DEF WaitsFor, Writing
  <1>2. Current(r).id \in Event
    BY <1>1, BatchItems, Labels DEF TypeInv, Bounded, Item
  <1>3. ~Unheld(s)
    BY <1>2 DEF WaitsFor, Unheld
  <1> QED BY <1>1, <1>3, Labels DEF LockInv

(* When every open transaction waits, some of them wait in a cycle: of the *)
(* sets in which each waits for a member take a smallest one; then each of *)
(* it is also waited for, which is what Deadlocked asks.                   *)
LEMMA CycleFound ==
    ASSUME TypeInv, LockInv,
           NEW r0 \in Request, pc[r0] \in InTransaction,
           \A r \in Request : pc[r] \in InTransaction => Waiting(r)
    PROVE  \E r \in Request : pc[r] \in InTransaction /\ Deadlocked(r)
  <1> DEFINE T == {r \in Request : pc[r] \in InTransaction}
             F == {S \in SUBSET T : S # {} /\ \A s \in S : \E t \in S : WaitsFor(s, t)}
             N == {Cardinality(S) : S \in F}
  <1>1. \A S \in SUBSET T : IsFiniteSet(S) /\ Cardinality(S) \in Nat
    <2>1. \A S \in SUBSET T : S \subseteq Request
      OBVIOUS
    <2> QED BY <2>1, AcceptanceAssumption, FS_Subset, FS_CardinalityType
  <1>2. T \in F
    <2>1. ASSUME NEW s \in T PROVE \E t \in T : WaitsFor(s, t)
      BY <2>1, WaitsForOpen DEF Waiting
    <2> QED BY <2>1
  <1>3. N # {} /\ N \subseteq Nat
    <2> HIDE DEF T
    <2> QED BY <1>1, <1>2
  <1>4. PICK n \in N : \A m \in N : ~(m < n)
    <2>1. PICK n \in N : \A m \in N : ~(<<m, n>> \in OpToRel(<, Nat))
      <3> HIDE DEF N
      <3> QED BY <1>3, NatLessThanWellFounded, WFMin
    <2>2. ASSUME NEW m \in N PROVE ~(m < n)
      <3>1. <<m, n>> \in Nat \X Nat
        <4> HIDE DEF N
        <4> QED BY <1>3
      <3> QED BY <2>1, <3>1 DEF OpToRel
    <2> HIDE DEF N
    <2> QED BY <2>1, <2>2
  <1>5. PICK S \in F : Cardinality(S) = n
    OBVIOUS
  <1>6. S \in SUBSET T /\ S # {} /\ \A s \in S : \E t \in S : WaitsFor(s, t)
    BY <1>5
  <1>7. ASSUME NEW s \in S PROVE \E t \in S : WaitsFor(t, s)
    <2> SUFFICES ASSUME \A t \in S : ~WaitsFor(t, s) PROVE FALSE
      OBVIOUS
    <2> DEFINE U == S \ {s}
    <2>1. \A t, u \in S : WaitsFor(t, u) => t # u
      BY DEF WaitsFor
    <2>2. \A u \in U : \E t \in U : WaitsFor(u, t)
      BY <1>6
    <2>3. U # {}
      BY <1>6, <2>1
    <2>4. U \in F
      BY <1>6, <2>2, <2>3
    <2>5. Cardinality(U) = Cardinality(S) - 1 /\ Cardinality(S) \in Nat
      <3>1. IsFiniteSet(S) /\ Cardinality(S) \in Nat
        BY <1>1, <1>6
      <3> QED BY <3>1, FS_RemoveElement
    <2>6. Cardinality(U) \in N
      BY <2>4
    <2>7. ~(Cardinality(U) < Cardinality(S))
      BY <1>4, <1>5, <2>6
    <2> HIDE DEF U, F, N, T
    <2> QED BY <2>5, <2>7
  <1>8. PICK s \in S : s \in Request /\ pc[s] \in InTransaction
    BY <1>6
  <1>9. S \in SUBSET Request
    BY <1>6
  <1> HIDE DEF T, F, N
  <1>10. Deadlocked(s)
    BY <1>6, <1>7, <1>9 DEF Deadlocked
  <1> QED BY <1>8, <1>10

(* The one standstill there is: every connection of the pool is held by a  *)
(* request whose transaction is over and that asks for another connection, *)
(* to count.                                                               *)
PoolExhausted ==
    /\ ~PoolFree
    /\ \A r \in Request :
         pc[r] \in Holding => pc[r] \in {"counting", "failing", "retrying"}

LEMMA GoesOnOrExhausted == TypeInv /\ LockInv => NoStandstill \/ PoolExhausted
  <1> SUFFICES ASSUME TypeInv, LockInv, NEW r \in Request, pc[r] \in Holding,
                      ~PoolExhausted
               PROVE  \E s \in Request : Able(s)
    BY DEF NoStandstill
  <1>1. CASE \E s \in Request : pc[s] \in InTransaction
    <2>1. PICK s \in Request : pc[s] \in InTransaction
      BY <1>1
    <2>2. CASE \A t \in Request : pc[t] \in InTransaction => Waiting(t)
      BY <2>1, <2>2, CycleFound DEF Able
    <2>3. CASE ~(\A t \in Request : pc[t] \in InTransaction => Waiting(t))
      BY <2>3 DEF Able
    <2> QED BY <2>2, <2>3
  <1>2. CASE \A s \in Request : pc[s] \notin InTransaction
    <2>1. \A s \in Request :
            pc[s] \in Holding => pc[s] \in {"counting", "failing", "retrying"}
      BY <1>2, Labels
    <2>2. PoolFree
      BY <2>1 DEF PoolExhausted
    <2> QED BY <2>1, <2>2 DEF Able
  <1> QED BY <1>1, <1>2

LEMMA LockInit == Init => LockInv
  BY DEF Init, LockInv, Unheld, NoRows

(* For any pool: the requests that hold a connection never all wait for    *)
(* rows or locks of each other without a cycle that Postgres breaks; if    *)
(* all stand still, it is for connections alone.                           *)
THEOREM OnlyThePoolStands == Spec => [](NoStandstill \/ PoolExhausted)
  <1> QED BY GoesOnOrExhausted, TypeInit, TypeStep, LockInit, LockStep, PTL DEF Spec

(* With more connections than calls somebody can always go on. *)
THEOREM SomebodyGoesOn ==
    ASSUME MaxCalls < PoolSize
    PROVE  Spec => []NoStandstill
  <1>1. CallsBounded => ~PoolExhausted
    <2> SUFFICES ASSUME CallsBounded PROVE PoolFree
      BY DEF PoolExhausted
    <2> DEFINE H == {s \in Request : pc[s] \in Holding}
    <2>1. H \subseteq Begun
      BY Labels DEF Begun
    <2> HIDE DEF H
    <2>2. Cardinality(H) <= Cardinality(Begun) /\ Cardinality(H) \in Nat
      BY <2>1, BegunFinite, FS_Subset, FS_CardinalityType
    <2>3. MaxCalls \in Nat /\ PoolSize \in Nat
      BY AcceptanceAssumption
    <2>4. Cardinality(H) < PoolSize
      BY <2>2, <2>3, BegunFinite DEF CallsBounded
    <2> QED BY <2>4 DEF PoolFree, H
  <1>2. Init => CallsBounded
    <2> SUFFICES ASSUME Init PROVE CallsBounded
      OBVIOUS
    <2>1. Begun = {}
      BY DEF Init, Begun
    <2>2. Cardinality({}) = 0 /\ MaxCalls \in Nat
      BY AcceptanceAssumption, FS_EmptySet
    <2> QED BY <2>1, <2>2 DEF CallsBounded
  <1>3. Spec => []TypeInv
    BY TypeInit, TypeStep, PTL DEF Spec
  <1>4. Spec => []CallsBounded
    BY <1>2, <1>3, TypeInit, TypeStep, CallsStep, PTL DEF Spec
  <1> QED BY <1>1, <1>4, OnlyThePoolStands, PTL

=============================================================================
