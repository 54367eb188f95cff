-------------------------- MODULE AggregationProofs --------------------------
(***************************************************************************)
(* Theorems about Aggregation, for any events, number and length of days,  *)
(* skew, number of jobs, retention policies and length of a history.       *)
(***************************************************************************)
EXTENDS Aggregation, TLAPS

LEMMA ConstantsTyped ==
    /\ MaxSkew \in Nat /\ MaxPast \in Nat
    /\ LastDay \in Nat
    /\ \A d \in Day : /\ d \in Nat /\ d <= LastDay
                      /\ DayStart[d] \in Int /\ DayStart[d + 1] \in Int
    /\ \A e \in Event : Occurred[e] \in Int
<1>1. \A d \in Day : d \in 0 .. LastDay + 1 /\ d + 1 \in 0 .. LastDay + 1
  BY AggregationAssumption DEF Day
<1> QED
  BY <1>1, AggregationAssumption DEF Day

(***************************************************************************)
(* Days and instants                                                       *)
(***************************************************************************)
LEMMA BucketIsAnInstant ==
    ASSUME NEW e \in Event, received[e] \in Nat
    PROVE  /\ BucketInstant(e) \in {Occurred[e], received[e]}
           /\ BucketInstant(e) = received[e] \/ received[e] >= Occurred[e] - MaxSkew
BY ConstantsTyped DEF BucketInstant, Adjusted, Skew

(* The candidate query misses no event of its day. *)
LEMMA EventsOfIsComplete ==
    ASSUME NEW d \in Day, NEW e \in raw \cap Event, received[e] \in Nat, InBucket(e, d)
    PROVE  e \in EventsOf(d)
<1> DEFINE t == BucketInstant(e)
<1>1. t \in {Occurred[e], received[e]} /\ Occurred[e] \in Int
  BY BucketIsAnInstant, ConstantsTyped
<1>2. DayStart[d] <= t /\ t < DayStart[d + 1]
  BY DEF InBucket, InDay
<1> HIDE DEF t
<1>3. Within(t, DayStart[d] - MaxSkew, DayStart[d + 1] + MaxSkew)
  BY <1>1, <1>2, ConstantsTyped DEF Within
<1> QED
  BY <1>1, <1>3 DEF EventsOf, Candidates

(* An event of a day that begins after the boundary and the skew was       *)
(* received after the boundary.                                            *)
LEMMA ReceivedAfter ==
    ASSUME NEW d \in Day, NEW e \in Event, received[e] \in Nat, InBucket(e, d),
           NEW boundary \in Nat, DayStart[d] - MaxSkew >= boundary
    PROVE  received[e] >= boundary
<1> DEFINE t == BucketInstant(e)
<1>1. /\ t \in {Occurred[e], received[e]}
      /\ t = received[e] \/ received[e] >= Occurred[e] - MaxSkew
  BY BucketIsAnInstant
<1>2. DayStart[d] <= t
  BY DEF InBucket, InDay
<1> HIDE DEF t
<1> QED
  BY <1>1, <1>2, ConstantsTyped

LEMMA BucketKept ==
    ASSUME NEW e, received'[e] = received[e]
    PROVE  \A d : InBucket(e, d)' <=> InBucket(e, d)
BY DEF InBucket, InDay, BucketInstant, Adjusted, Skew

(***************************************************************************)
(* Type correctness                                                        *)
(***************************************************************************)

Locked == {"dirty", "select", "commit"}

(* The advisory lock: one job at a time rebuilds a day. *)
LockOfADay == \A j \in Job : pc[j] \in Locked => day[j] \in Day
LocksExclude ==
    \A j, k \in Job : j # k /\ pc[j] \in Locked /\ pc[k] \in Locked => day[j] # day[k]

StoreTyped ==
    /\ now \in Nat
    /\ raw \in SUBSET Event
    /\ inbox \in SUBSET Event
    /\ received \in [Event -> Nat]
    /\ rows \in [Day -> SUBSET Event]
    /\ dirty \in [Day -> Nat]
    /\ unmarked \in SUBSET Event
    /\ floor \in Nat
    /\ gaps \in SUBSET Day
    /\ retention \in {"none", "completed", "rejected", "failed"}
    /\ failures \in Nat
    /\ dropped \in SUBSET Day
JobTyped ==
    /\ pc \in [Job -> JobState]
    /\ day \in [Job -> 0 .. LastDay + 1]
    /\ until \in [Job -> Day]
    /\ seenFloor \in [Job -> Nat]
    /\ seenGaps \in [Job -> SUBSET Day]
    /\ generation \in [Job -> Nat]
    /\ found \in [Job -> SUBSET Event]

LEMMA TypeParts ==
    /\ TypeOK <=> StoreTyped /\ JobTyped
    /\ TypeOK' <=> StoreTyped' /\ JobTyped'
BY Zenon DEF TypeOK, StoreTyped, JobTyped

Typed == TypeOK /\ LockOfADay /\ LocksExclude

LEMMA InitTyped == Init => Typed
<1> SUFFICES ASSUME Init PROVE Typed
  OBVIOUS
<1>1. 0 \in Day
  BY ConstantsTyped DEF Day
<1>2. StoreTyped
  BY DEF Init, StoreTyped
<1>3. JobTyped
  BY <1>1, ConstantsTyped DEF Init, JobTyped, JobState
<1>4. LockOfADay /\ LocksExclude
  BY DEF Init, LockOfADay, LocksExclude, Locked
<1> QED
  BY <1>2, <1>3, <1>4, TypeParts DEF Typed

(* What retention changes. *)
LEMMA PurgeTyped ==
    ASSUME TypeOK, NEW p \in Policies, PurgeRows(p)
    PROVE  /\ raw' = raw \ Older(p.raw) /\ inbox' \subseteq Event
           /\ floor' \in Nat /\ floor' >= floor
           /\ p.raw # NoLimit => p.raw \in Nat /\ floor' >= now - p.raw
           /\ gaps' \subseteq Day
           /\ rows' \in [Day -> SUBSET Event]
           /\ dropped' \subseteq Day
           /\ dropped \subseteq dropped'
           /\ \A d \in Day : rows'[d] = rows[d] \/ (rows'[d] = {} /\ d \in dropped')
<1>1. /\ p.raw \in Nat \cup {NoLimit}
      /\ NoLimit \notin Nat
  BY AggregationAssumption
<1>2. PICK days \in OldDays(p.aggregates) :
        /\ rows' = [d \in Day |-> IF d \in days THEN {} ELSE rows[d]]
        /\ dropped' = dropped \cup days
  BY DEF PurgeRows
<1>3. days \subseteq Day
  BY <1>2 DEF OldDays
<1>4. /\ floor' \in Nat /\ floor' >= floor
      /\ p.raw # NoLimit => p.raw \in Nat /\ floor' >= now - p.raw
  <2> DEFINE limit == p.raw
  <2>1. floor' = IF limit # NoLimit /\ now - limit > floor THEN now - limit ELSE floor
    BY DEF PurgeRows, Floor
  <2>2. limit \in Nat \cup {NoLimit} /\ now \in Nat /\ floor \in Nat
    BY <1>1 DEF TypeOK
  <2> HIDE DEF limit
  <2>3. /\ floor' \in Nat /\ floor' >= floor
        /\ limit # NoLimit => limit \in Nat /\ floor' >= now - limit
    BY <2>1, <2>2
  <2> QED
    BY <2>3 DEF limit
<1>5. gaps' \subseteq Day /\ raw' = raw \ Older(p.raw) /\ inbox' \subseteq Event
  BY DEF PurgeRows, SplitDays, TypeOK
<1> QED
  BY <1>2, <1>3, <1>4, <1>5 DEF TypeOK

LEMMA StoreStepTyped ==
    ASSUME Typed, [Next]_vars
    PROVE  StoreTyped'
<1>1. TypeOK
  BY DEF Typed
<1> USE DEF store, marks, coverage
<1>2. ASSUME NEW e \in Event, Ingest(e)
      PROVE  StoreTyped'
  BY <1>1, <1>2 DEF Ingest, StoreTyped, TypeOK
<1>3. ASSUME NEW e \in Event, MarkDirty(e)
      PROVE  StoreTyped'
  BY <1>1, <1>3 DEF MarkDirty, StoreTyped, TypeOK
<1>4. ASSUME NEW j \in Job, CommitDay(j)
      PROVE  StoreTyped'
  <2>1. day[j] \in Day /\ found[j] \subseteq Event
    BY <1>1, <1>4 DEF CommitDay, Typed, LockOfADay, Locked, TypeOK
  <2>2. rows' \in [Day -> SUBSET Event] /\ dirty' \in [Day -> Nat]
    BY <1>1, <1>4, <2>1 DEF CommitDay, Cleared, TypeOK
  <2> QED
    BY <1>1, <1>4, <2>2 DEF CommitDay, StoreTyped, TypeOK
<1>5. ASSUME NEW p \in Policies, RunRetention(p)
      PROVE  StoreTyped'
  <2>1. CASE PurgeRows(p) /\ retention' = "completed"
    <3>1. UNCHANGED <<now, received, dirty, unmarked, failures>>
      BY <1>5 DEF RunRetention
    <3> QED
      BY <1>1, <2>1, <3>1, PurgeTyped DEF StoreTyped, TypeOK
  <2>2. CASE retention' = "failed" /\ UNCHANGED <<raw, inbox, coverage, rows, dropped>>
    BY <1>1, <1>5, <2>2 DEF RunRetention, StoreTyped, TypeOK
  <2> QED
    BY <1>5, <2>1, <2>2 DEF RunRetention
<1>6. ASSUME NEW p \in Policies, RejectPolicy(p)
      PROVE  StoreTyped'
  BY <1>1, <1>6 DEF RejectPolicy, StoreTyped, TypeOK
<1>7. CASE Tick
  BY <1>1, <1>7 DEF Tick, StoreTyped, TypeOK
<1>8. ASSUME NEW j \in Job,
             \/ \E from \in Day : \E to \in from .. LastDay : StartJob(j, from, to)
             \/ ReadGaps(j) \/ NextDay(j) \/ ReadDirty(j) \/ SelectEvents(j)
             \/ FinishJob(j) \/ FailJob(j)
      PROVE  StoreTyped'
  <2>1. /\ UNCHANGED <<now, store, rows, marks, coverage, retention, dropped>>
        /\ failures' \in {failures, failures + 1}
    BY <1>8 DEF StartJob, ReadGaps, NextDay, ReadDirty, SelectEvents, FinishJob,
                FailJob, EndJob
  <2> QED
    BY <1>1, <2>1 DEF StoreTyped, TypeOK
<1>9. CASE UNCHANGED vars
  BY <1>1, <1>9 DEF vars, StoreTyped, TypeOK
<1> QED
  BY <1>2, <1>3, <1>4, <1>5, <1>6, <1>7, <1>8, <1>9 DEF Next, Rebuild

LEMMA JobStepTyped ==
    ASSUME Typed, [Next]_vars
    PROVE  JobTyped' /\ LockOfADay' /\ LocksExclude'
<1> DEFINE Goal == JobTyped' /\ LockOfADay' /\ LocksExclude'
<1>1. TypeOK /\ LockOfADay /\ LocksExclude
  BY DEF Typed
<1>2. LastDay \in Nat /\ Day \subseteq 0 .. LastDay + 1 /\ 0 \in Day
  BY ConstantsTyped DEF Day
<1>3. ASSUME UNCHANGED job
      PROVE  Goal
  BY <1>1, <1>3 DEF job, JobTyped, LockOfADay, LocksExclude, TypeOK
<1>4. ASSUME NEW j \in Job, NEW from \in Day, NEW to \in from .. LastDay,
             StartJob(j, from, to)
      PROVE  Goal
  <2>1. to \in Day
    BY ConstantsTyped DEF Day
  <2>2. /\ pc' = [pc EXCEPT ![j] = "gaps"]
        /\ day' = [day EXCEPT ![j] = from]
        /\ until' = [until EXCEPT ![j] = to]
        /\ seenFloor' = [seenFloor EXCEPT ![j] = floor]
        /\ UNCHANGED <<seenGaps, generation, found>>
    BY <1>4 DEF StartJob, Goto
  <2>3. JobTyped'
    BY <1>1, <1>2, <2>1, <2>2 DEF JobTyped, JobState, TypeOK
  <2>4. \A k \in Job : pc'[k] \in Locked => pc[k] \in Locked /\ day'[k] = day[k]
    BY <1>1, <2>2 DEF Locked, TypeOK
  <2> QED
    BY <1>1, <2>3, <2>4 DEF LockOfADay, LocksExclude
<1>5. ASSUME NEW j \in Job, ReadGaps(j)
      PROVE  Goal
  <2>1. /\ pc' = [pc EXCEPT ![j] = "day"]
        /\ seenGaps' = [seenGaps EXCEPT ![j] = gaps \cap (day[j] .. until[j])]
        /\ UNCHANGED <<day, until, seenFloor, generation, found>>
    BY <1>5 DEF ReadGaps, Goto
  <2>2. JobTyped'
    BY <1>1, <2>1 DEF JobTyped, JobState, TypeOK
  <2>3. \A k \in Job : pc'[k] \in Locked => pc[k] \in Locked
    BY <1>1, <2>1 DEF Locked, TypeOK
  <2> QED
    BY <1>1, <2>1, <2>2, <2>3 DEF LockOfADay, LocksExclude
<1>6. ASSUME NEW j \in Job, NextDay(j)
      PROVE  Goal
  <2>1. /\ pc[j] = "day" /\ day[j] <= until[j]
        /\ UNCHANGED <<until, seenFloor, seenGaps, generation, found>>
    BY <1>6 DEF NextDay
  <2>2. day[j] \in Day
    <3>1. day[j] \in 0 .. LastDay + 1 /\ until[j] \in 0 .. LastDay
      BY <1>1 DEF TypeOK, Day
    <3> QED
      BY <2>1, <3>1, ConstantsTyped DEF Day
  <2>3. CASE /\ \A other \in Job : ~HasLock(other, day[j])
             /\ pc' = [pc EXCEPT ![j] = "dirty"]
             /\ UNCHANGED day
    <3>1. JobTyped'
      BY <1>1, <2>1, <2>3 DEF JobTyped, JobState, TypeOK
    <3>2. \A k \in Job : pc'[k] = IF k = j THEN "dirty" ELSE pc[k]
      BY <1>1, <2>3 DEF TypeOK
    <3>3. \A k \in Job : pc[k] \in Locked => day[k] # day[j]
      BY <2>3 DEF HasLock, Locked
    <3> QED
      BY <1>1, <2>2, <2>3, <3>1, <3>2, <3>3 DEF LockOfADay, LocksExclude
  <2>4. CASE day' = [day EXCEPT ![j] = @ + 1] /\ UNCHANGED pc
    <3>1. day[j] + 1 \in 0 .. LastDay + 1
      BY <2>2, ConstantsTyped DEF Day
    <3>2. JobTyped'
      BY <1>1, <2>1, <2>4, <3>1 DEF JobTyped, TypeOK
    <3>3. \A k \in Job : pc'[k] \in Locked => pc[k] \in Locked /\ day'[k] = day[k]
      BY <1>1, <2>1, <2>4 DEF Locked, TypeOK
    <3> QED
      BY <1>1, <3>2, <3>3 DEF LockOfADay, LocksExclude
  <2> QED
    BY <1>6, <2>3, <2>4 DEF NextDay, Goto
<1>7. ASSUME NEW j \in Job, ReadDirty(j) \/ SelectEvents(j)
      PROVE  Goal
  <2>1. /\ pc[j] \in Locked
        /\ \E l \in Locked : pc' = [pc EXCEPT ![j] = l]
        /\ generation' = [generation EXCEPT ![j] = dirty[day[j]]] \/ UNCHANGED generation
        /\ found' = [found EXCEPT ![j] = EventsOf(day[j])] \/ UNCHANGED found
        /\ UNCHANGED <<day, until, seenFloor, seenGaps>>
    BY <1>7 DEF ReadDirty, SelectEvents, Goto, Locked
  <2>2. dirty[day[j]] \in Nat /\ EventsOf(day[j]) \subseteq Event
    BY <1>1, <2>1 DEF LockOfADay, TypeOK, EventsOf, Candidates
  <2>3. JobTyped'
    BY <1>1, <2>1, <2>2 DEF JobTyped, JobState, Locked, TypeOK
  <2>4. \A k \in Job : pc'[k] \in Locked => pc[k] \in Locked
    BY <1>1, <2>1 DEF TypeOK
  <2> QED
    BY <1>1, <2>1, <2>3, <2>4 DEF LockOfADay, LocksExclude
<1>8. ASSUME NEW j \in Job, CommitDay(j)
      PROVE  Goal
  <2>1. /\ pc[j] = "commit"
        /\ pc' = [pc EXCEPT ![j] = "day"]
        /\ day' = [day EXCEPT ![j] = @ + 1]
        /\ generation' = [generation EXCEPT ![j] = 0]
        /\ found' = [found EXCEPT ![j] = {}]
        /\ UNCHANGED <<until, seenFloor, seenGaps>>
    BY <1>8 DEF CommitDay, Goto
  <2>2. day[j] + 1 \in 0 .. LastDay + 1
    <3>1. day[j] \in Day
      BY <1>1, <2>1 DEF LockOfADay, Locked
    <3> QED
      BY <3>1, ConstantsTyped DEF Day
  <2>3. JobTyped'
    BY <1>1, <2>1, <2>2 DEF JobTyped, JobState, TypeOK
  <2>4. \A k \in Job : pc'[k] \in Locked => pc[k] \in Locked /\ day'[k] = day[k]
    BY <1>1, <2>1 DEF Locked, TypeOK
  <2> QED
    BY <1>1, <2>3, <2>4 DEF LockOfADay, LocksExclude
<1>9. ASSUME NEW j \in Job, FinishJob(j) \/ FailJob(j)
      PROVE  Goal
  <2>1. EndJob(j)
    BY <1>9 DEF FinishJob, FailJob
  <2>2. JobTyped'
    BY <1>1, <1>2, <2>1 DEF EndJob, Goto, JobTyped, JobState, TypeOK
  <2>3. \A k \in Job : pc'[k] \in Locked => pc[k] \in Locked /\ day'[k] = day[k]
    BY <1>1, <2>1 DEF EndJob, Goto, Locked, TypeOK
  <2> QED
    BY <1>1, <2>2, <2>3 DEF LockOfADay, LocksExclude
<1>10. CASE \/ \E e \in Event : Ingest(e) \/ MarkDirty(e)
            \/ \E p \in Policies : RejectPolicy(p) \/ RunRetention(p)
            \/ Tick \/ UNCHANGED vars
  <2>1. UNCHANGED job
    BY <1>10 DEF Ingest, MarkDirty, RejectPolicy, RunRetention, Tick, vars
  <2> QED
    BY <1>3, <2>1
<1> QED
  BY <1>4, <1>5, <1>6, <1>7, <1>8, <1>9, <1>10 DEF Next, Rebuild

LEMMA AlwaysTyped == Spec => []Typed
<1>1. Typed /\ [Next]_vars => Typed'
  BY StoreStepTyped, JobStepTyped, TypeParts DEF Typed
<1> QED
  BY <1>1, InitTyped, PTL DEF Spec

(* Every variable keeps its type: no job leaves the days it was given, and *)
(* no purge takes the boundary below zero.                                 *)
THEOREM TypeCorrect == Spec => []TypeOK
<1>1. Typed => TypeOK
  BY DEF Typed
<1> QED
  BY <1>1, AlwaysTyped, PTL

(***************************************************************************)
(* The recompute boundary                                                  *)
(***************************************************************************)

LEMMA FloorStep ==
    ASSUME Typed, FloorComplete, [Next]_vars
    PROVE  FloorComplete'
<1>1. TypeOK
  BY DEF Typed
<1>2. CASE UNCHANGED <<received, raw, floor>>
  BY <1>2 DEF FloorComplete
<1>3. ASSUME NEW e \in Event, Ingest(e)
      PROVE  FloorComplete'
  BY <1>1, <1>3 DEF Ingest, coverage, FloorComplete, TypeOK
<1>4. ASSUME NEW p \in Policies, RunRetention(p)
      PROVE  FloorComplete'
  <2>1. CASE PurgeRows(p)
    <3>1. /\ raw' = raw \ Older(p.raw) /\ received' = received
          /\ floor' \in Nat /\ floor' >= floor
          /\ p.raw # NoLimit => p.raw \in Nat /\ floor' >= now - p.raw
      BY <1>1, <1>4, <2>1, PurgeTyped DEF RunRetention
    <3>2. ASSUME NEW e \in Event, received[e] # 0, received[e] >= floor'
          PROVE  e \in raw'
      <4>1. received[e] \in Nat /\ floor \in Nat /\ now \in Nat
        BY <1>1 DEF TypeOK
      <4>2. e \in raw
        BY <3>1, <3>2, <4>1 DEF FloorComplete
      <4>3. p.raw # NoLimit => ~(received[e] < now - p.raw)
        BY <3>1, <3>2, <4>1
      <4> QED
        BY <3>1, <4>2, <4>3 DEF Older
    <3> QED
      BY <3>1, <3>2 DEF FloorComplete
  <2>2. CASE UNCHANGED <<raw, coverage>>
    BY <1>4, <2>2 DEF RunRetention, coverage, FloorComplete
  <2> QED
    BY <1>4, <2>1, <2>2 DEF RunRetention
<1>5. CASE \/ \E e \in Event : MarkDirty(e)
           \/ \E j \in Job : \E from \in Day : \E to \in from .. LastDay : StartJob(j, from, to)
           \/ \E j \in Job : Rebuild(j) \/ FailJob(j)
           \/ \E p \in Policies : RejectPolicy(p)
           \/ Tick \/ UNCHANGED vars
  <2>1. UNCHANGED <<received, raw, floor>>
    BY <1>5 DEF MarkDirty, StartJob, Rebuild, ReadGaps, NextDay, ReadDirty, SelectEvents,
       CommitDay, FinishJob, FailJob, EndJob, RejectPolicy, Tick, vars, store, coverage
  <2> QED
    BY <1>2, <2>1
<1> QED
  BY <1>3, <1>4, <1>5 DEF Next

(* Whatever policies purge raw events, in whatever order, every event that *)
(* was received at or after the recompute boundary is still stored.        *)
THEOREM FloorIsComplete == Spec => []FloorComplete
<1>1. Init => FloorComplete
  BY DEF Init, FloorComplete
<1> QED
  BY <1>1, FloorStep, AlwaysTyped, PTL DEF Spec

(***************************************************************************)
(* No late event is missed                                                 *)
(***************************************************************************)

(* Inductive beside NothingMissed: what a rebuild has selected covers what *)
(* it is about to replace, and if it is to delete the dirty marker, all    *)
(* events of the day but those the host has yet to mark.                   *)
Received == {e \in Event : received[e] # 0}
Covers(j) ==
    /\ \A e \in raw : e \in rows[day[j]] /\ InBucket(e, day[j]) => e \in found[j]
    /\ generation[j] > 0 =>
         \A e \in raw : InBucket(e, day[j]) => e \in found[j] \/ e \in unmarked
SelectionCovers == \A j \in Job : pc[j] = "commit" => Covers(j)
SelectionReceived == \A j \in Job : found[j] \subseteq Received
MissedInv ==
    /\ now > 0
    /\ raw \subseteq Received
    /\ \A d \in Day : rows[d] \subseteq Received
    /\ unmarked \subseteq Received
    /\ SelectionCovers
    /\ SelectionReceived
    /\ NothingMissed

(* A step that selects nothing and brings nothing in. *)
LEMMA MissedKept ==
    ASSUME Typed, MissedInv,
           now' > 0,
           raw' \subseteq raw,
           UNCHANGED <<received, unmarked>>,
           \A d \in Day : rows'[d] = rows[d] \/ (rows'[d] = {} /\ d \in dropped'),
           \A d \in Day : dirty[d] > 0 => dirty'[d] > 0,
           dropped \subseteq dropped',
           \A j \in Job : found'[j] \in {found[j], {}},
           \A j \in Job : pc'[j] = "commit" =>
              /\ pc[j] = "commit"
              /\ day'[j] = day[j] /\ generation'[j] = generation[j]
              /\ found'[j] = found[j]
    PROVE  MissedInv'
<1>1. \A e \in Event : \A d : InBucket(e, d)' <=> InBucket(e, d)
  BY BucketKept
<1>2. raw \subseteq Event
  BY DEF Typed, TypeOK
<1>3. SelectionCovers'
  <2> SUFFICES ASSUME NEW j \in Job, pc'[j] = "commit"
               PROVE  Covers(j)'
    BY DEF SelectionCovers
  <2>1. Covers(j) /\ day[j] \in Day /\ day'[j] = day[j]
    BY DEF MissedInv, SelectionCovers, Typed, LockOfADay, Locked
  <2> QED
    BY <1>1, <1>2, <2>1 DEF Covers
<1>4. NothingMissed'
  BY <1>1, <1>2 DEF MissedInv, NothingMissed
<1>5. \A d \in Day : rows'[d] \subseteq rows[d]
  OBVIOUS
<1>6. SelectionReceived'
  BY DEF MissedInv, SelectionReceived, Received
<1> QED
  BY <1>3, <1>4, <1>5, <1>6 DEF MissedInv, Received

LEMMA MissedStep ==
    ASSUME Typed, MissedInv, [Next]_vars
    PROVE  MissedInv'
<1>1. /\ TypeOK /\ LockOfADay /\ LocksExclude
      /\ raw \subseteq Event /\ now \in Nat
      /\ raw \subseteq Received /\ SelectionCovers /\ NothingMissed
  BY DEF Typed, TypeOK, MissedInv
<1>2. ASSUME NEW x \in Event, Ingest(x)
      PROVE  MissedInv'
  <2>1. /\ received[x] = 0
        /\ received' = [received EXCEPT ![x] = now]
        /\ raw' = raw \cup {x} /\ unmarked' = unmarked \cup {x}
        /\ UNCHANGED <<now, rows, dirty, job, dropped>>
    BY <1>2 DEF Ingest
  <2>2. \A e \in Event : e # x => received'[e] = received[e] /\ \A d : InBucket(e, d)' <=> InBucket(e, d)
    BY <1>1, <2>1, BucketKept DEF TypeOK
  <2>3. received'[x] # 0 /\ x \notin raw /\ x \notin Received
    BY <1>1, <2>1 DEF TypeOK, Received, MissedInv
  <2>4. Received \subseteq Received'
    BY <2>2, <2>3 DEF Received
  <2>5. SelectionCovers'
    <3> SUFFICES ASSUME NEW j \in Job, pc[j] = "commit"
                 PROVE  Covers(j)'
      BY <2>1 DEF SelectionCovers, job
    <3>1. Covers(j) /\ day[j] \in Day
      BY <1>1 DEF SelectionCovers, LockOfADay, Locked
    <3>2. x \notin rows[day[j]]
      BY <2>3, <3>1 DEF MissedInv
    <3> QED
      BY <1>1, <2>1, <2>2, <2>3, <3>1, <3>2 DEF Covers, job
  <2>6. NothingMissed'
    BY <1>1, <2>1, <2>2 DEF NothingMissed
  <2>7. x \in Received'
    BY <2>3 DEF Received
  <2>8. raw' \subseteq Received' /\ unmarked' \subseteq Received'
    BY <2>1, <2>4, <2>7 DEF MissedInv
  <2>9. (\A d \in Day : rows[d] \subseteq Received)'
    BY <2>1, <2>4 DEF MissedInv
  <2>10. SelectionReceived'
    BY <2>1, <2>4 DEF MissedInv, SelectionReceived, job
  <2>11. now' > 0
    BY <2>1 DEF MissedInv
  <2> QED
    BY <2>5, <2>6, <2>8, <2>9, <2>10, <2>11 DEF MissedInv
<1>3. ASSUME NEW x \in Event, MarkDirty(x)
      PROVE  MissedInv'
  <2>1. /\ unmarked' = unmarked \ {x}
        /\ dirty' = [d \in Day |-> IF InBucket(x, d) THEN dirty[d] + 1 ELSE dirty[d]]
        /\ \A d \in Day : InBucket(x, d) => ~MarkerLocked(d)
        /\ UNCHANGED <<now, received, raw, rows, job, dropped>>
    BY <1>3 DEF MarkDirty, store
  <2>2. \A e \in Event : \A d : InBucket(e, d)' <=> InBucket(e, d)
    BY <2>1, BucketKept
  <2>3. SelectionCovers'
    <3> SUFFICES ASSUME NEW j \in Job, pc[j] = "commit"
                 PROVE  Covers(j)'
      BY <2>1 DEF SelectionCovers, job
    <3>1. Covers(j) /\ day[j] \in Day
      BY <1>1 DEF SelectionCovers, LockOfADay, Locked
    <3>2. generation[j] > 0 => ~InBucket(x, day[j])
      BY <2>1, <3>1 DEF MarkerLocked
    <3> QED
      BY <1>1, <2>1, <2>2, <3>1, <3>2 DEF Covers, job
  <2>4. NothingMissed'
    <3> SUFFICES ASSUME NEW e \in raw, NEW d \in Day \ dropped, InBucket(e, d)
                 PROVE  e \in rows[d] \/ e \in unmarked' \/ dirty'[d] > 0
      BY <1>1, <2>1, <2>2 DEF NothingMissed
    <3>1. e \in rows[d] \/ e \in unmarked \/ dirty[d] > 0
      BY <1>1 DEF NothingMissed
    <3>2. dirty[d] \in Nat /\ dirty'[d] = IF InBucket(x, d) THEN dirty[d] + 1 ELSE dirty[d]
      BY <1>1, <2>1 DEF TypeOK
    <3> QED
      BY <2>1, <3>1, <3>2
  <2>5. SelectionReceived'
    BY <2>1 DEF MissedInv, SelectionReceived, Received, job
  <2> QED
    BY <2>1, <2>3, <2>4, <2>5 DEF MissedInv, Received
<1>4. ASSUME NEW j \in Job, SelectEvents(j)
      PROVE  MissedInv'
  <2>1. /\ pc[j] = "select"
        /\ found' = [found EXCEPT ![j] = EventsOf(day[j])]
        /\ pc' = [pc EXCEPT ![j] = "commit"]
        /\ UNCHANGED <<now, received, raw, rows, dirty, unmarked, day, generation, dropped>>
    BY <1>4 DEF SelectEvents, Goto, store, marks
  <2>2. \A e \in Event : \A d : InBucket(e, d)' <=> InBucket(e, d)
    BY <2>1, BucketKept
  <2>3. day[j] \in Day
    BY <1>1, <2>1 DEF LockOfADay, Locked
  <2>4. \A e \in raw : InBucket(e, day[j]) => e \in EventsOf(day[j])
    BY <1>1, <2>3, EventsOfIsComplete DEF TypeOK
  <2>5. SelectionCovers'
    <3> SUFFICES ASSUME NEW k \in Job, pc'[k] = "commit"
                 PROVE  Covers(k)'
      BY DEF SelectionCovers
    <3>1. CASE k = j
      <4>1. found'[j] = EventsOf(day[j])
        BY <1>1, <2>1 DEF TypeOK
      <4> QED
        BY <1>1, <2>1, <2>2, <2>4, <3>1, <4>1 DEF Covers
    <3>2. CASE k # j
      <4>1. pc[k] = "commit" /\ found'[k] = found[k]
        BY <1>1, <2>1, <3>2 DEF TypeOK
      <4> QED
        BY <1>1, <2>1, <2>2, <4>1 DEF Covers, SelectionCovers
    <3> QED
      BY <3>1, <3>2
  <2>6. NothingMissed'
    BY <1>1, <2>1, <2>2 DEF NothingMissed
  <2>7. SelectionReceived'
    <3>1. EventsOf(day[j]) \subseteq Received
      BY <1>1 DEF EventsOf, Candidates
    <3>2. \A k \in Job : found'[k] \in {found[k], EventsOf(day[j])}
      BY <1>1, <2>1 DEF TypeOK
    <3> QED
      BY <2>1, <3>1, <3>2 DEF MissedInv, SelectionReceived, Received
  <2> QED
    BY <2>1, <2>5, <2>6, <2>7 DEF MissedInv, Received
<1>5. ASSUME NEW j \in Job, CommitDay(j)
      PROVE  MissedInv'
  <2>1. /\ pc[j] = "commit"
        /\ rows' = [rows EXCEPT ![day[j]] = found[j]]
        /\ dirty' = Cleared(j)
        /\ day' = [day EXCEPT ![j] = @ + 1]
        /\ generation' = [generation EXCEPT ![j] = 0]
        /\ found' = [found EXCEPT ![j] = {}]
        /\ pc' = [pc EXCEPT ![j] = "day"]
        /\ UNCHANGED <<now, received, raw, unmarked, dropped>>
    BY <1>5 DEF CommitDay, Goto, store
  <2>2. \A e \in Event : \A d : InBucket(e, d)' <=> InBucket(e, d)
    BY <2>1, BucketKept
  <2>3. day[j] \in Day /\ Covers(j) /\ found[j] \subseteq Event /\ generation[j] \in Nat
    BY <1>1, <2>1 DEF LockOfADay, Locked, SelectionCovers, TypeOK
  <2>4. \A d \in Day : rows'[d] = IF d = day[j] THEN found[j] ELSE rows[d]
    BY <1>1, <2>1 DEF TypeOK
  <2>5. \A d \in Day : \/ dirty'[d] = dirty[d]
                       \/ d = day[j] /\ generation[j] > 0
    BY <1>1, <2>1 DEF Cleared, TypeOK
  <2>6. SelectionCovers'
    <3> SUFFICES ASSUME NEW k \in Job, pc'[k] = "commit"
                 PROVE  Covers(k)'
      BY DEF SelectionCovers
    <3>1. /\ k # j /\ pc[k] = "commit" /\ found'[k] = found[k]
          /\ day'[k] = day[k] /\ generation'[k] = generation[k]
      BY <1>1, <2>1 DEF TypeOK
    <3>2. day[k] \in Day /\ day[k] # day[j] /\ Covers(k)
      BY <1>1, <2>1, <3>1 DEF LockOfADay, LocksExclude, Locked, SelectionCovers
    <3>3. rows'[day[k]] = rows[day[k]]
      BY <2>4, <3>2
    <3> QED
      BY <1>1, <2>1, <2>2, <3>1, <3>2, <3>3 DEF Covers
  <2>7. NothingMissed'
    <3> SUFFICES ASSUME NEW e \in raw, NEW d \in Day \ dropped, InBucket(e, d)
                 PROVE  e \in rows'[d] \/ e \in unmarked \/ dirty'[d] > 0
      BY <1>1, <2>1, <2>2 DEF NothingMissed
    <3>1. e \in rows[d] \/ e \in unmarked \/ dirty[d] > 0
      BY <1>1 DEF NothingMissed
    <3>2. CASE d # day[j]
      BY <2>4, <2>5, <3>1, <3>2
    <3>3. CASE d = day[j]
      BY <2>3, <2>4, <2>5, <3>1, <3>3 DEF Covers
    <3> QED
      BY <3>2, <3>3
  <2>8. \A d \in Day : rows'[d] \subseteq Received
    <3>1. found[j] \subseteq Received
      BY DEF MissedInv, SelectionReceived
    <3> QED
      BY <2>4, <3>1 DEF MissedInv
  <2>9. SelectionReceived'
    <3>1. \A k \in Job : found'[k] \subseteq found[k]
      BY <1>1, <2>1 DEF TypeOK
    <3> QED
      BY <2>1, <3>1 DEF MissedInv, SelectionReceived, Received
  <2> QED
    BY <2>1, <2>6, <2>7, <2>8, <2>9 DEF MissedInv, Received
<1>6. ASSUME NEW p \in Policies, RunRetention(p)
      PROVE  MissedInv'
  <2>1. UNCHANGED <<now, received, dirty, unmarked, job>>
    BY <1>6 DEF RunRetention, marks
  <2>2. /\ raw' \subseteq raw /\ dropped \subseteq dropped'
        /\ \A d \in Day : rows'[d] = rows[d] \/ (rows'[d] = {} /\ d \in dropped')
    BY <1>1, <1>6, PurgeTyped DEF RunRetention
  <2>3. now' > 0
    BY <2>1 DEF MissedInv
  <2> QED
    BY <2>1, <2>2, <2>3, MissedKept DEF job
<1>7. CASE Tick
  <2>1. now' > 0 /\ UNCHANGED <<store, rows, marks, job, dropped>>
    BY <1>1, <1>7 DEF Tick, MissedInv
  <2> QED
    BY <2>1, MissedKept DEF store, marks, job
<1>8. CASE (\E p \in Policies : RejectPolicy(p)) \/ UNCHANGED vars
  <2>1. now' > 0 /\ UNCHANGED <<store, rows, marks, job, dropped>>
    BY <1>8 DEF RejectPolicy, vars, MissedInv
  <2> QED
    BY <2>1, MissedKept DEF store, marks, job
<1>9. ASSUME NEW j \in Job,
             \/ \E from \in Day : \E to \in from .. LastDay : StartJob(j, from, to)
             \/ ReadGaps(j) \/ NextDay(j) \/ ReadDirty(j)
             \/ FinishJob(j) \/ FailJob(j)
      PROVE  MissedInv'
  <2>1. /\ UNCHANGED <<now, received, raw, rows, dirty, unmarked, dropped>>
        /\ \A k \in Job : /\ found'[k] \in {found[k], {}}
                          /\ k # j => /\ pc'[k] = pc[k] /\ day'[k] = day[k]
                                      /\ generation'[k] = generation[k]
                                      /\ found'[k] = found[k]
    BY <1>1, <1>9 DEF StartJob, ReadGaps, NextDay, ReadDirty, FinishJob, FailJob,
                      EndJob, Goto, store, marks, TypeOK
  <2>2. pc'[j] # "commit"
    BY <1>1, <1>9 DEF StartJob, ReadGaps, NextDay, ReadDirty, FinishJob, FailJob,
                      EndJob, Goto, TypeOK
  <2>3. now' > 0
    BY <2>1 DEF MissedInv
  <2> QED
    BY <2>1, <2>2, <2>3, MissedKept
<1> QED
  BY <1>2, <1>3, <1>4, <1>5, <1>6, <1>7, <1>8, <1>9 DEF Next, Rebuild

LEMMA MissedHolds == Spec => []MissedInv
<1>1. Init => MissedInv
  BY DEF Init, MissedInv, SelectionCovers, SelectionReceived, NothingMissed, Received
<1> QED
  BY <1>1, MissedStep, AlwaysTyped, PTL DEF Spec

(* A stored event is counted on its day, or the marker of the day stands,  *)
(* or the host has yet to set it: also for an event that comes in or is    *)
(* marked in the middle of a rebuild, for any number of jobs, and whether  *)
(* or not retention runs at the same time.                                 *)
THEOREM NoEventMissed == Spec => []NothingMissed
<1>1. MissedInv => NothingMissed
  BY DEF MissedInv
<1> QED
  BY <1>1, MissedHolds, PTL

(***************************************************************************)
(* History is kept                                                         *)
(***************************************************************************)

(* Inductive while retention waits for the jobs: a job works with the      *)
(* boundary as it is, on days that begin late enough for every event they  *)
(* count to be stored, so that what it selects holds what it replaces.     *)
CountedOnTheirDay == \A d \in Day : \A e \in rows[d] : InBucket(e, d)
JobKeeps(j) ==
    /\ pc[j] # "idle" => seenFloor[j] = floor
    /\ pc[j] \in Locked => DayStart[day[j]] - MaxSkew >= seenFloor[j]
    /\ pc[j] = "commit" => /\ rows[day[j]] \subseteq found[j]
                           /\ \A e \in found[j] : InBucket(e, day[j])
KeptInv == CountedOnTheirDay /\ \A j \in Job : JobKeeps(j)

(* What is counted of a day that a job may recompute is still stored, and  *)
(* is selected again.                                                      *)
LEMMA CountedIsSelected ==
    ASSUME Typed, MissedInv, FloorComplete, CountedOnTheirDay, NEW d \in Day,
           DayStart[d] - MaxSkew >= floor
    PROVE  rows[d] \subseteq EventsOf(d)
<1> SUFFICES ASSUME NEW e \in rows[d]
             PROVE  e \in EventsOf(d)
  OBVIOUS
<1>1. /\ e \in Event /\ received[e] # 0 /\ InBucket(e, d)
      /\ received[e] \in Nat /\ floor \in Nat
  BY DEF MissedInv, Received, CountedOnTheirDay, Typed, TypeOK
<1>2. received[e] >= floor
  BY <1>1, ReceivedAfter
<1>3. e \in raw
  BY <1>1, <1>2 DEF FloorComplete
<1> QED
  BY <1>1, <1>3, EventsOfIsComplete

(* A step that leaves the rows, the boundary and the selections alone.     *)
LEMMA KeptKept ==
    ASSUME KeptInv, UNCHANGED <<rows, floor>>,
           \A e \in Received : received'[e] = received[e],
           MissedInv,
           \A j \in Job :
              /\ pc'[j] # "idle" => pc[j] # "idle" /\ seenFloor'[j] = seenFloor[j]
              /\ pc'[j] \in Locked => pc[j] \in Locked /\ day'[j] = day[j]
              /\ pc'[j] = "commit" => pc[j] = "commit" /\ found'[j] = found[j],
           LockOfADay
    PROVE  KeptInv'
<1>1. \A e \in Received : \A d : InBucket(e, d)' <=> InBucket(e, d)
  BY BucketKept
<1>2. \A d \in Day : rows[d] \subseteq Received
  BY DEF MissedInv
<1>3. \A j \in Job : found[j] \subseteq Received
  BY DEF MissedInv, SelectionReceived
<1>4. CountedOnTheirDay'
  BY <1>1, <1>2 DEF KeptInv, CountedOnTheirDay
<1>5. ASSUME NEW j \in Job
      PROVE  JobKeeps(j)'
  <2>1. JobKeeps(j) /\ (pc[j] = "commit" => pc[j] \in Locked)
    BY DEF KeptInv, Locked
  <2>2. pc'[j] = "commit" => pc'[j] \in Locked /\ pc'[j] # "idle"
    BY DEF Locked
  <2>3. pc'[j] \in Locked => pc'[j] # "idle"
    BY DEF Locked
  <2> QED
    BY <1>1, <1>3, <2>1, <2>2, <2>3 DEF JobKeeps
<1> QED
  BY <1>4, <1>5 DEF KeptInv

LEMMA KeptStep ==
    ASSUME RetentionAlone, Typed, MissedInv, FloorComplete, KeptInv, [Next]_vars
    PROVE  KeptInv' /\ \A d \in Day : ~(rows[d] \subseteq rows'[d]) => d \in dropped'
<1> DEFINE Goal ==
      KeptInv' /\ \A d \in Day : ~(rows[d] \subseteq rows'[d]) => d \in dropped'
<1>1. TypeOK /\ LockOfADay /\ LocksExclude
  BY DEF Typed
<1>2. ASSUME NEW x \in Event, Ingest(x)
      PROVE  Goal
  <2>1. /\ UNCHANGED <<rows, floor, job>>
        /\ \A e \in Received : received'[e] = received[e]
    BY <1>1, <1>2 DEF Ingest, coverage, Received, TypeOK
  <2> QED
    BY <1>1, <2>1, KeptKept DEF job
<1>3. CASE \/ \E x \in Event : MarkDirty(x)
           \/ \E p \in Policies : RejectPolicy(p)
           \/ Tick \/ UNCHANGED vars
  <2>1. UNCHANGED <<rows, floor, job, received>>
    BY <1>3 DEF MarkDirty, RejectPolicy, Tick, vars, coverage, store
  <2> QED
    BY <1>1, <2>1, KeptKept DEF job
<1>4. ASSUME NEW j \in Job, ReadGaps(j) \/ ReadDirty(j) \/ FinishJob(j) \/ FailJob(j)
      PROVE  Goal
  <2>1. UNCHANGED <<rows, floor, received>>
    BY <1>4 DEF ReadGaps, ReadDirty, FinishJob, FailJob, EndJob, coverage, store
  <2>2. \A k \in Job :
              /\ pc'[k] # "idle" => pc[k] # "idle" /\ seenFloor'[k] = seenFloor[k]
              /\ pc'[k] \in Locked => pc[k] \in Locked /\ day'[k] = day[k]
              /\ pc'[k] = "commit" => pc[k] = "commit" /\ found'[k] = found[k]
    BY <1>1, <1>4 DEF ReadGaps, ReadDirty, FinishJob, FailJob, EndJob, Goto, Locked, TypeOK
  <2> QED
    BY <1>1, <2>1, <2>2, KeptKept
<1>5. ASSUME NEW j \in Job, NEW from \in Day, NEW to \in from .. LastDay,
             StartJob(j, from, to)
      PROVE  Goal
  <2>1. /\ UNCHANGED <<rows, floor, received, found>>
        /\ pc' = [pc EXCEPT ![j] = "gaps"]
        /\ seenFloor' = [seenFloor EXCEPT ![j] = floor]
        /\ day' = [day EXCEPT ![j] = from]
    BY <1>5 DEF StartJob, Goto, coverage, store
  <2>2. \A e \in Event : \A d : InBucket(e, d)' <=> InBucket(e, d)
    BY <2>1, BucketKept
  <2>3. ASSUME NEW k \in Job
        PROVE  JobKeeps(k)'
    <3>1. CASE k = j
      BY <1>1, <2>1, <3>1 DEF JobKeeps, Locked, TypeOK
    <3>2. CASE k # j
      <4>1. /\ pc'[k] = pc[k] /\ seenFloor'[k] = seenFloor[k] /\ day'[k] = day[k]
            /\ found[k] \subseteq Event
        BY <1>1, <2>1, <3>2 DEF TypeOK
      <4> QED
        BY <2>1, <2>2, <4>1 DEF KeptInv, JobKeeps
    <3> QED
      BY <3>1, <3>2
  <2>4. CountedOnTheirDay'
    BY <1>1, <2>1, <2>2 DEF KeptInv, CountedOnTheirDay, TypeOK
  <2> QED
    BY <2>1, <2>3, <2>4 DEF KeptInv
<1>6. ASSUME NEW j \in Job, NextDay(j)
      PROVE  Goal
  <2>1. /\ UNCHANGED <<rows, floor, received, found, seenFloor>>
        /\ pc[j] = "day"
        /\ \/ /\ CanRecompute(day[j], seenFloor[j], seenGaps[j])
              /\ pc' = [pc EXCEPT ![j] = "dirty"] /\ UNCHANGED day
           \/ /\ day' = [day EXCEPT ![j] = @ + 1] /\ UNCHANGED pc
    BY <1>6 DEF NextDay, Goto, coverage, store
  <2>2. \A e \in Event : \A d : InBucket(e, d)' <=> InBucket(e, d)
    BY <2>1, BucketKept
  <2>3. ASSUME NEW k \in Job
        PROVE  JobKeeps(k)'
    <3>1. CASE k = j
      <4>1. seenFloor[j] = floor
        BY <2>1 DEF KeptInv, JobKeeps
      <4>2. CASE /\ CanRecompute(day[j], seenFloor[j], seenGaps[j])
                 /\ pc' = [pc EXCEPT ![j] = "dirty"] /\ UNCHANGED day
        BY <1>1, <2>1, <3>1, <4>1, <4>2 DEF JobKeeps, CanRecompute, TypeOK
      <4>3. CASE UNCHANGED pc
        BY <2>1, <3>1, <4>1, <4>3 DEF JobKeeps, Locked
      <4> QED
        BY <2>1, <4>2, <4>3
    <3>2. CASE k # j
      <4>1. pc'[k] = pc[k] /\ day'[k] = day[k] /\ found[k] \subseteq Event
        BY <1>1, <2>1, <3>2 DEF TypeOK
      <4> QED
        BY <2>1, <2>2, <4>1 DEF KeptInv, JobKeeps
    <3> QED
      BY <3>1, <3>2
  <2>4. CountedOnTheirDay'
    BY <1>1, <2>1, <2>2 DEF KeptInv, CountedOnTheirDay, TypeOK
  <2> QED
    BY <2>1, <2>3, <2>4 DEF KeptInv
<1>7. ASSUME NEW j \in Job, SelectEvents(j)
      PROVE  Goal
  <2>1. /\ UNCHANGED <<rows, floor, received, day, seenFloor>>
        /\ pc[j] = "select"
        /\ pc' = [pc EXCEPT ![j] = "commit"]
        /\ found' = [found EXCEPT ![j] = EventsOf(day[j])]
    BY <1>7 DEF SelectEvents, Goto, coverage, store
  <2>2. \A e \in Event : \A d : InBucket(e, d)' <=> InBucket(e, d)
    BY <2>1, BucketKept
  <2>3. ASSUME NEW k \in Job
        PROVE  JobKeeps(k)'
    <3>1. CASE k = j
      <4>1. /\ seenFloor[j] = floor /\ day[j] \in Day
            /\ DayStart[day[j]] - MaxSkew >= seenFloor[j]
        BY <1>1, <2>1 DEF KeptInv, JobKeeps, LockOfADay, Locked
      <4>2. rows[day[j]] \subseteq EventsOf(day[j])
        BY <4>1, CountedIsSelected DEF KeptInv
      <4>3. found'[j] = EventsOf(day[j]) /\ pc'[j] = "commit"
        BY <1>1, <2>1 DEF TypeOK
      <4>4. \A e \in EventsOf(day[j]) : e \in Event /\ InBucket(e, day[j])
        BY <1>1 DEF EventsOf, Candidates, TypeOK
      <4> QED
        BY <2>1, <2>2, <3>1, <4>1, <4>2, <4>3, <4>4 DEF JobKeeps
    <3>2. CASE k # j
      <4>1. pc'[k] = pc[k] /\ found'[k] = found[k] /\ found[k] \subseteq Event
        BY <1>1, <2>1, <3>2 DEF TypeOK
      <4> QED
        BY <2>1, <2>2, <4>1 DEF KeptInv, JobKeeps
    <3> QED
      BY <3>1, <3>2
  <2>4. CountedOnTheirDay'
    BY <1>1, <2>1, <2>2 DEF KeptInv, CountedOnTheirDay, TypeOK
  <2> QED
    BY <2>1, <2>3, <2>4 DEF KeptInv
<1>8. ASSUME NEW j \in Job, CommitDay(j)
      PROVE  Goal
  <2>1. /\ UNCHANGED <<floor, received, seenFloor>>
        /\ pc[j] = "commit"
        /\ rows' = [rows EXCEPT ![day[j]] = found[j]]
        /\ pc' = [pc EXCEPT ![j] = "day"]
        /\ day' = [day EXCEPT ![j] = @ + 1]
        /\ found' = [found EXCEPT ![j] = {}]
    BY <1>8 DEF CommitDay, Goto, coverage, store
  <2>2. \A e \in Event : \A d : InBucket(e, d)' <=> InBucket(e, d)
    BY <2>1, BucketKept
  <2>3. \A d \in Day : rows'[d] = IF d = day[j] THEN found[j] ELSE rows[d]
    BY <1>1, <2>1 DEF TypeOK
  <2>4. /\ seenFloor[j] = floor /\ rows[day[j]] \subseteq found[j]
        /\ \A e \in found[j] : e \in Event /\ InBucket(e, day[j])
    BY <1>1, <2>1 DEF KeptInv, JobKeeps, TypeOK
  <2>5. ASSUME NEW k \in Job
        PROVE  JobKeeps(k)'
    <3>1. CASE k = j
      BY <1>1, <2>1, <2>4, <3>1 DEF JobKeeps, Locked, TypeOK
    <3>2. CASE k # j
      <4>1. /\ pc'[k] = pc[k] /\ day'[k] = day[k] /\ found'[k] = found[k]
            /\ found[k] \subseteq Event
        BY <1>1, <2>1, <3>2 DEF TypeOK
      <4>2. pc[k] = "commit" => rows'[day[k]] = rows[day[k]]
        BY <1>1, <2>1, <2>3, <3>2 DEF LockOfADay, LocksExclude, Locked
      <4> QED
        BY <2>1, <2>2, <4>1, <4>2 DEF KeptInv, JobKeeps
    <3> QED
      BY <3>1, <3>2
  <2>6. CountedOnTheirDay'
    BY <1>1, <2>2, <2>3, <2>4 DEF KeptInv, CountedOnTheirDay, TypeOK
  <2> QED
    BY <2>3, <2>4, <2>5, <2>6 DEF KeptInv
<1>9. ASSUME NEW p \in Policies, RunRetention(p)
      PROVE  Goal
  <2>1. /\ \A j \in Job : pc[j] = "idle"
        /\ UNCHANGED <<received, job>>
    BY <1>9 DEF RunRetention
  <2>2. \A d \in Day : rows'[d] = rows[d] \/ (rows'[d] = {} /\ d \in dropped')
    BY <1>1, <1>9, PurgeTyped DEF RunRetention
  <2>3. \A e \in Event : \A d : InBucket(e, d)' <=> InBucket(e, d)
    BY <2>1, BucketKept
  <2>4. CountedOnTheirDay'
    BY <1>1, <2>2, <2>3 DEF KeptInv, CountedOnTheirDay, TypeOK
  <2>5. \A j \in Job : JobKeeps(j)'
    BY <2>1 DEF JobKeeps, Locked, job
  <2> QED
    BY <2>2, <2>4, <2>5 DEF KeptInv
<1> QED
  BY <1>2, <1>3, <1>4, <1>5, <1>6, <1>7, <1>8, <1>9 DEF Next, Rebuild

(* Where the host keeps retention and rebuilds apart, no rebuild takes an  *)
(* event out of the aggregates, however many raw events were purged, days  *)
(* were split by a cutoff, and jobs rebuild the same days.                 *)
THEOREM HistoryIsKept ==
    ASSUME RetentionAlone
    PROVE  Spec => HistoryKept
<1> DEFINE Kept == \A d \in Day : ~(rows[d] \subseteq rows'[d]) => d \in dropped'
<1>1. Init => KeptInv
  BY DEF Init, KeptInv, CountedOnTheirDay, JobKeeps, Locked
<1>2. Typed /\ MissedInv /\ FloorComplete /\ KeptInv /\ [Next]_vars
        => KeptInv' /\ Kept
  BY KeptStep
<1> HIDE DEF Kept
<1>3. Typed /\ MissedInv /\ FloorComplete /\ KeptInv /\ [Next]_vars
        => KeptInv' /\ [Kept]_vars
  BY <1>2
<1>4. Spec => [][Kept]_vars
  BY <1>1, <1>3, AlwaysTyped, MissedHolds, FloorIsComplete, PTL DEF Spec
<1> QED
  BY <1>4 DEF HistoryKept, Kept
=============================================================================
