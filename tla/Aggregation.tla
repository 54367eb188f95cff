----------------------------- MODULE Aggregation -----------------------------
(***************************************************************************)
(* Daily aggregates of one tenant, site, purpose, time zone and rule       *)
(* version: the rebuild job (postgres/daily-aggregate.ts) and purpose      *)
(* retention (postgres/retention.ts), while events keep coming in.         *)
(*                                                                         *)
(* The rows of a day are reduced to the set of events they count: every    *)
(* dimension, and the session count, is a function of that set.  Time is   *)
(* counted in ticks, and a civil day is the ticks between two entries of   *)
(* DayStart, so that days may differ in length.                            *)
(*                                                                         *)
(* A statement of a rebuild is a step; retention shows only at its COMMIT. *)
(***************************************************************************)
EXTENDS Integers, FiniteSets

CONSTANTS
    Event,
    Occurred,      \* occurred_at, as the producer of each event says
    Browser,       \* the events that come from a browser
    LastDay,       \* the days are 0 .. LastDay
    DayStart,      \* the tick each day starts at, LastDay + 1 included
    MaxSkew,       \* maxProducerSkewMs
    MaxPast,       \* MAX_PAST_MS of the ingest contract
    MaxFuture,     \* MAX_FUTURE_MS of the ingest contract
    Job,           \* processes that run runDailyCountAggregate()
    Policies,      \* the retention policies the host runs
    NoLimit,       \* null in a policy
    MinInboxRetention,
    RetentionAlone, \* whether the host keeps retention and rebuilds apart
    MaxNow,        \* bound on the clock
    MaxFailures    \* bound on the rebuilds that fail

Day == 0 .. LastDay

ASSUME AggregationAssumption ==
    /\ Occurred \in [Event -> Int]
    /\ Browser \subseteq Event
    /\ LastDay \in Nat
    /\ DayStart \in [0 .. LastDay + 1 -> Int]
    /\ \A d \in Day : DayStart[d] < DayStart[d + 1]
    /\ {MaxSkew, MaxPast, MaxFuture, MinInboxRetention, MaxNow, MaxFailures} \subseteq Nat
    /\ NoLimit \notin Nat
    /\ Policies \subseteq [raw : Nat \cup {NoLimit}, inbox : Nat \cup {NoLimit},
                           aggregates : Nat \cup {NoLimit}]
    /\ RetentionAlone \in BOOLEAN

VARIABLES
    now,
    received,    \* received_at of each event, 0 until it comes in
    raw,         \* the events in tracking.events
    inbox,       \* the events in tracking.event_inbox
    rows,        \* tracking.daily_aggregates: the events counted per day
    dirty,       \* aggregate_dirty_days: the generation per day, 0 without a marker
    unmarked,    \* events whose day the host has yet to mark dirty
    floor,       \* raw_data_watermark.recompute_complete_from_received_at
    gaps,        \* raw_coverage_gaps
    retention,   \* how the last retention run ended
    pc,          \* where each job stands
    day,         \* the day it is at
    until,       \* localDateTo
    seenFloor,   \* the boundary and
    seenGaps,    \* the gaps it read at its start
    generation,  \* the dirty generation it found, 0 for no marker
    found,       \* the events it selected for the day
    failures,
    dropped      \* history: days that aggregate retention has deleted

store == <<received, raw, inbox>>
marks == <<dirty, unmarked>>
coverage == <<floor, gaps>>
job == <<pc, day, until, seenFloor, seenGaps, generation, found>>
vars == <<now, store, rows, marks, coverage, retention, job, failures, dropped>>

(* localDayUtcBounds() and formatLocalDate(). *)
InDay(t, d) == DayStart[d] <= t /\ t < DayStart[d + 1]
Within(t, from, to) == from <= t /\ t < to

(* The trust the ingest contract gives to occurred_at, and the instant     *)
(* selectBucketInstant() puts the event at.                                *)
Adjusted(e) == e \in Browser /\ Occurred[e] < received[e] - MaxPast
Skew(e) == IF received[e] >= Occurred[e] THEN received[e] - Occurred[e]
           ELSE Occurred[e] - received[e]
BucketInstant(e) ==
    IF Adjusted(e) \/ Skew(e) <= MaxSkew THEN Occurred[e] ELSE received[e]
InBucket(e, d) == InDay(BucketInstant(e), d)

(* The candidate query of a day, and those of its events that belong there.*)
Candidates(d) ==
    LET from == DayStart[d] - MaxSkew
        to == DayStart[d + 1] + MaxSkew
    IN  {e \in raw : Within(received[e], from, to) \/ Within(Occurred[e], from, to)}
EventsOf(d) == {e \in Candidates(d) : InBucket(e, d)}

(* dayEndsBeforeRecomputeFloor() and canFullyRecomputeLocalDay(), on the   *)
(* boundary and the gaps a job has read.                                   *)
OnlyEndedDays(d, boundary, missing) ==   \* mutant: skips only days that ended
    DayStart[d + 1] > boundary           \* before the floor
CanRecompute(d, boundary, missing) ==
    /\ DayStart[d + 1] > boundary
    /\ d \notin missing
    /\ DayStart[d] - MaxSkew >= boundary
    /\ ~(boundary > DayStart[d] /\ boundary < DayStart[d + 1])

JobState == {"idle", "gaps", "day", "dirty", "select", "commit"}

TypeOK ==
    /\ now \in Nat
    /\ raw \in SUBSET Event
    /\ inbox \in SUBSET Event
    /\ received \in [Event -> Nat]
    /\ rows \in [Day -> SUBSET Event]
    /\ dirty \in [Day -> Nat]
    /\ unmarked \in SUBSET Event
    /\ floor \in Nat
    /\ gaps \in SUBSET Day
    /\ retention \in {"none", "completed", "rejected", "failed"}
    /\ pc \in [Job -> JobState]
    /\ day \in [Job -> 0 .. LastDay + 1]
    /\ until \in [Job -> Day]
    /\ seenFloor \in [Job -> Nat]
    /\ seenGaps \in [Job -> SUBSET Day]
    /\ generation \in [Job -> Nat]
    /\ found \in [Job -> SUBSET Event]
    /\ failures \in Nat
    /\ dropped \in SUBSET Day

Init ==
    /\ now = 1
    /\ received = [e \in Event |-> 0]
    /\ raw = {}
    /\ inbox = {}
    /\ rows = [d \in Day |-> {}]
    /\ dirty = [d \in Day |-> 0]
    /\ unmarked = {}
    /\ floor = 0
    /\ gaps = {}
    /\ retention = "none"
    /\ pc = [j \in Job |-> "idle"]
    /\ day = [j \in Job |-> 0]
    /\ until = [j \in Job |-> 0]
    /\ seenFloor = [j \in Job |-> 0]
    /\ seenGaps = [j \in Job |-> {}]
    /\ generation = [j \in Job |-> 0]
    /\ found = [j \in Job |-> {}]
    /\ failures = 0
    /\ dropped = {}

(* Events come in; the host marks the day of each one dirty afterwards.    *)
Ingest(e) ==
    /\ e \notin inbox
    /\ received[e] = 0
    /\ Occurred[e] <= now + MaxFuture
    /\ received' = [received EXCEPT ![e] = now]
    /\ raw' = raw \cup {e}
    /\ inbox' = inbox \cup {e}
    /\ unmarked' = unmarked \cup {e}
    /\ UNCHANGED <<now, rows, dirty, coverage, retention, job, failures, dropped>>

(* The marker row of a day is locked by the rebuild that found it. *)
MarkerLocked(d) ==
    \E j \in Job : day[j] = d /\ pc[j] \in {"select", "commit"} /\ generation[j] > 0

(* markAggregateDirtyDay() *)
MarkDirty(e) ==
    /\ e \in unmarked
    /\ unmarked' = unmarked \ {e}
    /\ dirty' = [d \in Day |-> IF InBucket(e, d) THEN dirty[d] + 1 ELSE dirty[d]]
    /\ \A d \in Day : InBucket(e, d) => ~MarkerLocked(d)
    /\ UNCHANGED <<now, store, rows, coverage, retention, job, failures, dropped>>

(***************************************************************************)
(* The rebuild job                                                         *)
(***************************************************************************)

Goto(j, label) == pc' = [pc EXCEPT ![j] = label]

(* readRecomputeBoundary() and then readCoverageGapDates(): once per job,  *)
(* before its transactions.                                                *)
StartJob(j, from, to) ==
    /\ pc[j] = "idle"
    /\ day' = [day EXCEPT ![j] = from]
    /\ until' = [until EXCEPT ![j] = to]
    /\ seenFloor' = [seenFloor EXCEPT ![j] = floor]
    /\ Goto(j, "gaps")
    /\ UNCHANGED <<now, store, rows, marks, coverage, retention, seenGaps,
                   generation, found, failures, dropped>>

ReadGaps(j) ==
    /\ pc[j] = "gaps"
    /\ seenGaps' = [seenGaps EXCEPT ![j] = gaps \cap (day[j] .. until[j])]
    /\ Goto(j, "day")
    /\ UNCHANGED <<now, store, rows, marks, coverage, retention, day, until,
                   seenFloor, generation, found, failures, dropped>>

(* The next day is skipped, or its transaction begins: it waits for the    *)
(* advisory lock of the day.                                               *)
HasLock(j, d) == day[j] = d /\ pc[j] \in {"dirty", "select", "commit"}
NextDay(j) ==
    /\ pc[j] = "day"
    /\ day[j] <= until[j]
    /\ IF CanRecompute(day[j], seenFloor[j], seenGaps[j])
       THEN /\ \A other \in Job : ~HasLock(other, day[j])
            /\ Goto(j, "dirty")
            /\ UNCHANGED day
       ELSE day' = [day EXCEPT ![j] = @ + 1] /\ UNCHANGED pc
    /\ UNCHANGED <<now, store, rows, marks, coverage, retention, until,
                   seenFloor, seenGaps, generation, found, failures, dropped>>

(* SELECT dirty_generation ... FOR UPDATE. *)
ReadDirty(j) ==
    /\ pc[j] = "dirty"
    /\ generation' = [generation EXCEPT ![j] = dirty[day[j]]]
    /\ Goto(j, "select")
    /\ UNCHANGED <<now, store, rows, marks, coverage, retention, day, until,
                   seenFloor, seenGaps, found, failures, dropped>>

(* The candidate query, after the rows of the day were deleted. *)
SelectEvents(j) ==
    /\ pc[j] = "select"
    /\ found' = [found EXCEPT ![j] = EventsOf(day[j])]
    /\ Goto(j, "commit")
    /\ UNCHANGED <<now, store, rows, marks, coverage, retention, day, until,
                   seenFloor, seenGaps, generation, failures, dropped>>

ClearsAny(j) == [dirty EXCEPT ![day[j]] = 0]   \* mutant: whatever the generation
(* The marker is deleted if its generation is the one that was found. *)
Cleared(j) ==
    IF generation[j] > 0 /\ dirty[day[j]] = generation[j]
    THEN [dirty EXCEPT ![day[j]] = 0] ELSE dirty

(* COMMIT: the fresh rows replace the old ones. *)
CommitDay(j) ==
    /\ pc[j] = "commit"
    /\ rows' = [rows EXCEPT ![day[j]] = found[j]]
    /\ dirty' = Cleared(j)
    /\ day' = [day EXCEPT ![j] = @ + 1]
    /\ generation' = [generation EXCEPT ![j] = 0]
    /\ found' = [found EXCEPT ![j] = {}]
    /\ Goto(j, "day")
    /\ UNCHANGED <<now, store, unmarked, coverage, retention, until, seenFloor,
                   seenGaps, failures, dropped>>

(* The job is over: its variables are gone. *)
EndJob(j) ==
    /\ day' = [day EXCEPT ![j] = 0]
    /\ until' = [until EXCEPT ![j] = 0]
    /\ seenFloor' = [seenFloor EXCEPT ![j] = 0]
    /\ seenGaps' = [seenGaps EXCEPT ![j] = {}]
    /\ generation' = [generation EXCEPT ![j] = 0]
    /\ found' = [found EXCEPT ![j] = {}]
    /\ Goto(j, "idle")
    /\ UNCHANGED <<now, store, rows, marks, coverage, retention, dropped>>

ShortOfUntil(j) ==   \* mutant: the loop ends before its last day
    /\ pc[j] = "day"
    /\ day[j] >= until[j]
    /\ EndJob(j)
    /\ UNCHANGED failures
FinishJob(j) ==
    /\ pc[j] = "day"
    /\ day[j] > until[j]
    /\ EndJob(j)
    /\ UNCHANGED failures

(* A statement fails: the day is rolled back and the job throws. *)
FailJob(j) ==
    /\ pc[j] # "idle"
    /\ failures < MaxFailures
    /\ failures' = failures + 1
    /\ EndJob(j)

(***************************************************************************)
(* Retention                                                               *)
(***************************************************************************)

(* validateSiteRetentionPolicy() *)
Valid(p) ==
    /\ p.raw # NoLimit => p.raw >= 1
    /\ p.inbox # NoLimit => p.inbox >= MinInboxRetention
    /\ p.aggregates # NoLimit => p.aggregates >= 1

(* The events received before the cutoff of a phase. *)
Older(limit) ==
    IF limit = NoLimit THEN {} ELSE {e \in Event : received[e] < now - limit}

FallingFloor(limit) ==   \* mutant: without GREATEST
    IF limit = NoLimit THEN floor ELSE now - limit
StandingFloor(limit) == floor   \* mutant: purges without moving the floor
(* advanceRecomputeFloorAfterPurge() *)
Floor(limit) ==
    IF limit # NoLimit /\ now - limit > floor THEN now - limit ELSE floor
(* localDatesAtRetentionCutoff() *)
SplitDays(limit) ==
    IF limit = NoLimit THEN {}
    ELSE {d \in Day : DayStart[d] < now - limit /\ now - limit < DayStart[d + 1]}

(* The day of an instant; -1 before the first day, LastDay + 1 after them. *)
LastStarted(t) == Cardinality({d \in DOMAIN DayStart : DayStart[d] <= t}) - 1
(* Aggregates go by local_date, against the UTC date of the cutoff: that   *)
(* is the local date of the same instant, or the day before or after.      *)
OldDays(limit) ==
    IF limit = NoLimit THEN {{}}
    ELSE LET cutoff == LastStarted(now - limit)
         IN  {{d \in Day : d < date} : date \in cutoff - 1 .. cutoff + 1}

RejectPolicy(p) ==
    /\ ~Valid(p)
    /\ retention' = "rejected"
    /\ UNCHANGED <<now, store, rows, marks, coverage, job, failures, dropped>>

(* runPurposeRetention(), at its COMMIT. *)
PurgeRows(p) ==
    /\ raw' = raw \ Older(p.raw)
    /\ floor' = Floor(p.raw)
    /\ gaps' = gaps \cup SplitDays(p.raw)
    /\ inbox' = inbox \ Older(p.inbox)
    /\ \E days \in OldDays(p.aggregates) :
         /\ rows' = [d \in Day |-> IF d \in days THEN {} ELSE rows[d]]
         /\ dropped' = dropped \cup days
(* An inbox row cannot be deleted while its event row refers to it. *)
KeyHolds(p) == (raw \ Older(p.raw)) \cap Older(p.inbox) = {}

RunRetention(p) ==
    /\ Valid(p)
    /\ RetentionAlone => \A j \in Job : pc[j] = "idle"
    /\ IF KeyHolds(p)
       THEN PurgeRows(p) /\ retention' = "completed"
       ELSE retention' = "failed" /\ UNCHANGED <<raw, inbox, coverage, rows, dropped>>
    /\ UNCHANGED <<now, received, marks, job, failures>>

Tick ==
    /\ now < MaxNow
    /\ now' = now + 1
    /\ UNCHANGED <<store, rows, marks, coverage, retention, job, failures, dropped>>

Rebuild(j) ==
    \/ ReadGaps(j)
    \/ NextDay(j)
    \/ ReadDirty(j)
    \/ SelectEvents(j)
    \/ CommitDay(j)
    \/ FinishJob(j)

Next ==
    \/ \E e \in Event : Ingest(e) \/ MarkDirty(e)
    \/ \E j \in Job : \E from \in Day : \E to \in from .. LastDay : StartJob(j, from, to)
    \/ \E j \in Job : Rebuild(j) \/ FailJob(j)
    \/ \E p \in Policies : RejectPolicy(p) \/ RunRetention(p)
    \/ Tick

Spec == Init /\ [][Next]_vars

(* The host marks the days of its late events, and runs the job for all    *)
(* days again and again.                                                   *)
FairSpec ==
    /\ Spec
    /\ \A e \in Event : SF_vars(MarkDirty(e))
    /\ \A j \in Job : SF_vars(StartJob(j, 0, LastDay)) /\ SF_vars(Rebuild(j))

(***************************************************************************)
(* Properties                                                              *)
(***************************************************************************)

(* No late event is missed: a stored event is counted on its day, or its   *)
(* day is marked dirty, or the host has yet to mark it -- also when it     *)
(* comes in, or is marked, in the middle of a rebuild of that day.         *)
NothingMissed ==
    \A e \in raw : \A d \in Day \ dropped : InBucket(e, d) =>
        e \in rows[d] \/ e \in unmarked \/ dirty[d] > 0

(* The floor is what it says: every event received from there on is still  *)
(* stored, whichever policies ran in whatever order.                       *)
FloorComplete ==
    \A e \in Event : received[e] # 0 /\ received[e] >= floor => e \in raw

(* docs/adr/0009: a rebuild never takes an event out of the aggregates     *)
(* because its raw row was purged; only aggregate retention does.          *)
HistoryKept ==
    [][\A d \in Day : ~(rows[d] \subseteq rows'[d]) => d \in dropped']_vars

(* Every stored event is eventually counted, unless its day can no longer  *)
(* be recomputed or its aggregates are due for deletion.                   *)
EventuallyCounted ==
    \A e \in Event, d \in Day :
        e \in raw /\ InBucket(e, d)
          ~> e \in rows[d] \/ ~CanRecompute(d, floor, gaps) \/ d \in dropped
=============================================================================
