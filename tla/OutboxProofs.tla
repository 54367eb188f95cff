---------------------------- MODULE OutboxProofs ----------------------------
(***************************************************************************)
(* Proofs about Outbox: types, leases, the answers of the collector, and   *)
(* that it implements TransactionalOutbox, for all workers, requests,      *)
(* entries, payloads and bounds.                                           *)
(***************************************************************************)
EXTENDS Outbox, TLAPS

(***************************************************************************)
(* Types                                                                   *)
(***************************************************************************)
TaskTyped(p) ==
    /\ task[p].at # "idle" => task[p].entry \in Entry
    /\ task[p].at \in {"build", "accept"} => task[p].payload \in Payload
    /\ task[p].at = "accept" => task[p].read \in Content
    /\ task[p].at = "settle" => task[p].verdict \in Verdict

TypeInv == TypeOK /\ \A p \in Process : TaskTyped(p)

(* What becomes of the types when one process takes a new task. *)
LEMMA TaskReplaced ==
    ASSUME TypeInv, NEW p \in Process, NEW t \in Task,
           task' = [task EXCEPT ![p] = t],
           t.at # "idle" => t.entry \in Entry,
           t.at \in {"build", "accept"} => t.payload \in Payload,
           t.at = "accept" => t.read \in Content,
           t.at = "settle" => t.verdict \in Verdict
    PROVE  /\ task' \in [Process -> Task]
           /\ \A q \in Process : TaskTyped(q)'
  <1>1. task \in [Process -> Task]
    BY DEF TypeInv, TypeOK
  <1>2. task' \in [Process -> Task]
    BY <1>1
  <1>3. \A q \in Process : TaskTyped(q)'
    <2> TAKE q \in Process
    <2>1. CASE q = p
      BY <1>1, <2>1 DEF TaskTyped
    <2>2. CASE q # p
      BY <1>1, <2>2 DEF TaskTyped, TypeInv
    <2> QED BY <2>1, <2>2
  <1> QED BY <1>2, <1>3

LEMMA RefuseTyped ==
    ASSUME TypeInv, NEW p \in Process, NEW v \in Verdict,
           task[p].at # "idle", Refuse(p, v)
    PROVE  /\ task' \in [Process -> Task]
           /\ \A q \in Process : TaskTyped(q)'
  <1> DEFINE t == [task[p] EXCEPT !.at = "settle", !.verdict = v, !.read = None]
  <1>1. task[p] \in Task /\ TaskTyped(p)
    BY DEF TypeInv, TypeOK
  <1>2. task' = [task EXCEPT ![p] = t]
    BY DEF Refuse, TypeInv, TypeOK
  <1>3. t \in Task /\ t.at = "settle" /\ t.verdict = v /\ t.entry = task[p].entry
    BY <1>1 DEF Task, Label
  <1>4. t.entry \in Entry
    BY <1>1, <1>3 DEF TaskTyped
  <1> HIDE DEF t
  <1> QED BY <1>2, <1>3, <1>4, TaskReplaced

LEMMA StoredTyped ==
    ASSUME TypeInv, NEW p \in Process, task[p].at = "accept", Stored(p)
    PROVE  /\ fact' \in [Entry -> Content \cup {None}]
           /\ ever' \in [Entry -> SUBSET Content]
  <1>1. task[p].entry \in Entry /\ task[p].read \in Content
    BY DEF TypeInv, TaskTyped
  <1>2. /\ fact \in [Entry -> Content \cup {None}]
        /\ ever \in [Entry -> SUBSET Content]
    BY DEF TypeInv, TypeOK
  <1>3. CASE fact[task[p].entry] = None
    <2>1. /\ fact' = [fact EXCEPT ![task[p].entry] = task[p].read]
          /\ ever' = [ever EXCEPT ![task[p].entry] = @ \cup {task[p].read}]
      BY <1>3 DEF Stored
    <2> QED BY <1>1, <1>2, <2>1
  <1>4. CASE fact[task[p].entry] # None
    BY <1>2, <1>4 DEF Stored
  <1> QED BY <1>3, <1>4

LEMMA IdleIsTask == Idle \in Task /\ Idle.at = "idle"
  BY DEF Idle, Task, Label

LEMMA IdleTyped ==
    ASSUME TypeInv, NEW p \in Process, task' = [task EXCEPT ![p] = Idle]
    PROVE  /\ task' \in [Process -> Task]
           /\ \A q \in Process : TaskTyped(q)'
  BY IdleIsTask, TaskReplaced

LEMMA TypeInit == Init => TypeInv
  <1> SUFFICES ASSUME Init PROVE TypeInv
    OBVIOUS
  <1>1. NoRow \in Row
    BY DEF NoRow, Row, Status
  <1>2. TypeOK
    <2>1. outbox \in Seq(Entry)
      BY DEF Init
    <2>2. row \in [Entry -> Row]
      BY <1>1 DEF Init
    <2>3. /\ fact \in [Entry -> Content \cup {None}]
          /\ ever \in [Entry -> SUBSET Content]
          /\ handed \in [Entry -> Content \cup {None}]
      BY DEF Init
    <2>4. context \in Context
      BY OutboxAssumption DEF Init, Context
    <2>5. task \in [Process -> Task]
      BY IdleIsTask DEF Init
    <2>6. /\ post \in [Request -> Posts \cup {None}]
          /\ response \in [Request -> Code]
      BY DEF Init, Code
    <2> QED BY <2>1, <2>2, <2>3, <2>4, <2>5, <2>6 DEF Init, TypeOK
  <1>3. \A p \in Process : TaskTyped(p)
    BY IdleIsTask DEF Init, TaskTyped
  <1> QED BY <1>2, <1>3 DEF TypeInv

LEMMA ReportTyped ==
    ASSUME TypeInv, NEW w \in Worker, NEW s \in Status,
           NEW l \in Worker \cup {None},
           task[w].at = "settle", Report(w, s, l)
    PROVE  TypeInv'
  <1>1. w \in Process
    BY DEF Process
  <1>2. task[w].entry \in Entry
    BY <1>1 DEF TypeInv, TaskTyped
  <1>3. row' \in [Entry -> Row]
    BY <1>2 DEF Report, TypeInv, TypeOK, Row
  <1>4. task' \in [Process -> Task] /\ \A q \in Process : TaskTyped(q)'
    BY <1>1, IdleTyped DEF Report
  <1> QED BY <1>3, <1>4
        DEF Report, TypeInv, TypeOK, store, web, setting, bounds

LEMMA TypeStep == TypeInv /\ [Next]_vars => TypeInv'
  <1> SUFFICES ASSUME TypeInv, [Next]_vars PROVE TypeInv'
    OBVIOUS
  <1> USE DEF tables, store, web, setting, bounds
  <1>types. TypeOK /\ Worker \subseteq Process /\ Request \subseteq Process
    BY DEF TypeInv, Process
  <1>1. ASSUME NEW j \in Jobs, CreateJobWithOutboxEntry(j.entry, j.payload)
        PROVE  TypeInv'
    <2>1. j.entry \in Entry /\ j.payload \in Payload
      BY OutboxAssumption
    <2>2. outbox' \in Seq(Entry)
      BY <1>1, <1>types, <2>1 DEF CreateJobWithOutboxEntry, TypeOK
    <2>3. row' \in [Entry -> Row]
      BY <1>1, <1>types, <2>1
         DEF CreateJobWithOutboxEntry, TypeOK, NoRow, Row, Status
    <2> QED BY <1>1, <2>2, <2>3
          DEF CreateJobWithOutboxEntry, TypeInv, TypeOK, TaskTyped
  <1>2. ASSUME NEW w \in Worker, ClaimNext(w) PROVE TypeInv'
    <2>1. PICK e \in Entry :
            /\ row' = [row EXCEPT ![e].status = "processing", ![e].lease = w]
            /\ task' = [task EXCEPT ![w] = [Idle EXCEPT !.at = "look",
                                      !.entry = e, !.payload = row[e].payload]]
      <3>1. \A i \in DOMAIN outbox : outbox[i] \in Entry
        BY <1>types DEF TypeOK
      <3> QED BY <1>2, <3>1 DEF ClaimNext
    <2>2. row[e] \in Row
      BY <1>types DEF TypeOK
    <2>3. row' \in [Entry -> Row]
      <3> DEFINE r == [row[e] EXCEPT !.status = "processing", !.lease = w]
      <3>1. r \in Row
        BY <2>2 DEF Row, Status
      <3>2. row' = [row EXCEPT ![e] = r]
        BY <1>types, <2>1 DEF TypeOK
      <3> HIDE DEF r
      <3> QED BY <1>types, <3>1, <3>2 DEF TypeOK
    <2> DEFINE t == [Idle EXCEPT !.at = "look", !.entry = e,
                                 !.payload = row[e].payload]
    <2>4. t \in Task /\ t.at = "look" /\ t.entry = e
      BY <2>2 DEF Row, Idle, Task, Label
    <2>5. task' = [task EXCEPT ![w] = t]
      BY <2>1
    <2> HIDE DEF t
    <2>6. task' \in [Process -> Task] /\ \A q \in Process : TaskTyped(q)'
      BY <1>types, <2>2, <2>4, <2>5, TaskReplaced
    <2> QED BY <1>2, <2>3, <2>6 DEF ClaimNext, TypeInv, TypeOK
  <1>3. ASSUME NEW p \in Process, Look(p) PROVE TypeInv'
    <2>1. task' \in [Process -> Task] /\ \A q \in Process : TaskTyped(q)'
      <3>1. CASE task[p].payload \notin Registered
        BY <1>3, <3>1, RefuseTyped DEF Look, Verdict
      <3>2. CASE task[p].payload \in Registered
        <4> DEFINE t == [task[p] EXCEPT !.at = "build",
                                        !.read = fact[task[p].entry]]
        <4>1. task' = [task EXCEPT ![p] = t]
          BY <1>3, <1>types, <3>2 DEF Look, TypeOK
        <4>2. task[p] \in Task /\ task[p].entry \in Entry
          BY <1>3 DEF TypeInv, TypeOK, TaskTyped, Look
        <4>3. /\ t \in Task /\ t.at = "build" /\ t.entry \in Entry
              /\ t.payload \in Payload
          BY <1>types, <3>2, <4>2, OutboxAssumption DEF Task, Label, TypeOK
        <4> HIDE DEF t
        <4> QED BY <4>1, <4>3, TaskReplaced
      <3> QED BY <3>1, <3>2
    <2> QED BY <1>3, <2>1 DEF Look, TypeInv, TypeOK
  <1>4. ASSUME NEW p \in Process, Build(p) PROVE TypeInv'
    <2>1. task' \in [Process -> Task] /\ \A q \in Process : TaskTyped(q)'
      <3>1. CASE ~granted
        BY <1>4, <3>1, RefuseTyped DEF Build, Verdict
      <3>2. CASE granted /\ task[p].read \notin {None, Envelope(p)}
        BY <1>4, <3>2, RefuseTyped DEF Build, Verdict
      <3>3. CASE granted /\ task[p].read \in {None, Envelope(p)}
        <4> DEFINE t == [task[p] EXCEPT !.at = "accept", !.read = Envelope(p)]
        <4>1. task' = [task EXCEPT ![p] = t]
          BY <1>4, <1>types, <3>3 DEF Build, TypeOK
        <4>2. task[p] \in Task /\ task[p].entry \in Entry /\ task[p].payload \in Payload
          BY <1>4 DEF TypeInv, TypeOK, TaskTyped, Build
        <4>3. Envelope(p) \in Content
          BY <1>types, <4>2 DEF Envelope, Content, TypeOK
        <4>4. /\ t \in Task /\ t.at = "accept" /\ t.entry \in Entry
              /\ t.payload \in Payload /\ t.read \in Content
          BY <4>2, <4>3 DEF Task, Label
        <4> HIDE DEF t
        <4> QED BY <4>1, <4>4, TaskReplaced
      <3> QED BY <3>1, <3>2, <3>3
    <2> QED BY <1>4, <2>1 DEF Build, TypeInv, TypeOK
  <1>5. ASSUME NEW p \in Process, AcceptBatch(p) PROVE TypeInv'
    <2>1. Judge(fact[task[p].entry], task[p].read) \in Verdict
      BY DEF Judge, Verdict
    <2>2. task' \in [Process -> Task] /\ \A q \in Process : TaskTyped(q)'
      BY <1>5, <2>1, RefuseTyped DEF AcceptBatch
    <2>3. /\ fact' \in [Entry -> Content \cup {None}]
          /\ ever' \in [Entry -> SUBSET Content]
      BY <1>5, StoredTyped DEF AcceptBatch
    <2> QED BY <1>5, <2>2, <2>3 DEF AcceptBatch, TypeInv, TypeOK
  <1>6. ASSUME NEW p \in Process, AcceptBatchFails(p) PROVE TypeInv'
    <2>1. task' \in [Process -> Task] /\ \A q \in Process : TaskTyped(q)'
      BY <1>6, RefuseTyped DEF AcceptBatchFails, Verdict
    <2>2. /\ fact' \in [Entry -> Content \cup {None}]
          /\ ever' \in [Entry -> SUBSET Content]
      BY <1>6, <1>types, StoredTyped DEF AcceptBatchFails, TypeOK
    <2> QED BY <1>6, <2>1, <2>2 DEF AcceptBatchFails, TypeInv, TypeOK
  <1>7. ASSUME NEW w \in Worker, Publish(w) PROVE TypeInv'
    BY <1>7, ReportTyped DEF Publish, Deliver, Status
  <1>8. ASSUME NEW w \in Worker, Fail(w) PROVE TypeInv'
    BY <1>8, ReportTyped DEF Fail, Deliver, Status
  <1>9. ASSUME NEW w \in Worker, Quarantine(w) PROVE TypeInv'
    <2>1. task[w].entry \in Entry
      BY <1>9, <1>types DEF Quarantine, Deliver, TypeInv, TaskTyped
    <2>2. row[task[w].entry].lease \in Worker \cup {None}
      BY <1>types, <2>1 DEF TypeOK, Row
    <2> QED BY <1>9, <2>2, ReportTyped DEF Quarantine, Deliver, Status
  <1>10. ASSUME NEW w \in Worker, Crash(w) PROVE TypeInv'
    <2>1. task' \in [Process -> Task] /\ \A q \in Process : TaskTyped(q)'
      BY <1>10, <1>types, IdleTyped DEF Crash
    <2> QED BY <1>10, <2>1 DEF Crash, TypeInv, TypeOK
  <1>11. ASSUME NEW r \in Request, NEW q \in Posts, Receive(r, q) PROVE TypeInv'
    <2>1. /\ q.entry \in Entry /\ q.payload \in Payload
          /\ q.fault \in Refusal \cup {"none"}
      BY OutboxAssumption
    <2>2. post' \in [Request -> Posts \cup {None}]
      BY <1>11, <1>types DEF Receive, TypeOK
    <2>3. CASE q.fault # "none"
      <3>1. RefusalCode(q.fault) \in Code
        BY <2>1, <2>3 DEF RefusalCode, Refusal, Code
      <3>2. response' \in [Request -> Code]
        BY <1>11, <1>types, <2>3, <3>1 DEF Receive, TypeOK
      <3> QED BY <1>11, <2>2, <2>3, <3>2
            DEF Receive, TypeInv, TypeOK, TaskTyped
    <2>4. CASE q.fault = "none"
      <3> DEFINE t == [Idle EXCEPT !.at = "look", !.entry = q.entry,
                                   !.payload = q.payload]
      <3>1. task' = [task EXCEPT ![r] = t]
        BY <1>11, <2>4 DEF Receive
      <3>2. t \in Task /\ t.at = "look" /\ t.entry = q.entry
        BY <2>1 DEF Idle, Task, Label
      <3> HIDE DEF t
      <3>3. task' \in [Process -> Task] /\ \A p \in Process : TaskTyped(p)'
        BY <1>types, <2>1, <3>1, <3>2, TaskReplaced
      <3> QED BY <1>11, <2>2, <2>4, <3>3 DEF Receive, TypeInv, TypeOK
    <2> QED BY <2>3, <2>4
  <1>12. ASSUME NEW r \in Request, Write(r) PROVE TypeInv'
    <2>1. Judge(handed[task[r].entry], task[r].read) \in Verdict
      BY DEF Judge, Verdict
    <2>2. task' \in [Process -> Task] /\ \A q \in Process : TaskTyped(q)'
      BY <1>12, <1>types, <2>1, RefuseTyped DEF Write
    <2>3. task[r].entry \in Entry /\ task[r].read \in Content
      BY <1>12, <1>types DEF Write, TypeInv, TaskTyped
    <2>4. handed' \in [Entry -> Content \cup {None}]
      BY <1>12, <1>types, <2>3 DEF Write, TypeOK
    <2> QED BY <1>12, <2>2, <2>4 DEF Write, TypeInv, TypeOK
  <1>13. ASSUME NEW r \in Request, WriteFails(r) PROVE TypeInv'
    <2>1. task' \in [Process -> Task] /\ \A q \in Process : TaskTyped(q)'
      BY <1>13, <1>types, RefuseTyped DEF WriteFails, Verdict
    <2> QED BY <1>13, <2>1 DEF WriteFails, TypeInv, TypeOK
  <1>14. ASSUME NEW r \in Request, Respond(r) PROVE TypeInv'
    <2>1. task' \in [Process -> Task] /\ \A q \in Process : TaskTyped(q)'
      BY <1>14, <1>types, IdleTyped DEF Respond
    <2>2. task[r].verdict \in Verdict
      BY <1>14, <1>types DEF Respond, TypeInv, TaskTyped
    <2>3. StatusFor(task[r].verdict) \in Code
      BY <2>2 DEF StatusFor, Verdict, Code
    <2>4. response' \in [Request -> Code]
      BY <1>14, <1>types, <2>3 DEF Respond, TypeOK
    <2> QED BY <1>14, <2>1, <2>4 DEF Respond, TypeInv, TypeOK
  <1>15. ASSUME NEW r \in Request, Throw(r) PROVE TypeInv'
    <2>1. task' \in [Process -> Task] /\ \A q \in Process : TaskTyped(q)'
      BY <1>15, <1>types, IdleTyped DEF Throw
    <2>2. response' \in [Request -> Code]
      BY <1>15, <1>types DEF Throw, TypeOK, Code
    <2> QED BY <1>15, <2>1, <2>2 DEF Throw, TypeInv, TypeOK
  <1>16. ASSUME Revoke \/ Grant PROVE TypeInv'
    <2>1. CASE Revoke
      <3>1. revocations' \in Nat
        BY <2>1, <1>types DEF Revoke, TypeOK
      <3> QED BY <2>1, <3>1 DEF Revoke, TypeInv, TypeOK, TaskTyped
    <2>2. CASE Grant
      BY <2>2 DEF Grant, TypeInv, TypeOK, TaskTyped
    <2> QED BY <1>16, <2>1, <2>2
  <1>17. ASSUME Redeploy PROVE TypeInv'
    <2>1. context' \in Context
      BY <1>17, <1>types, OutboxAssumption DEF Redeploy, Trouble, Context, TypeOK
    <2> QED BY <1>17, <2>1 DEF Redeploy, TypeInv, TypeOK, TaskTyped
  <1>18. ASSUME NEW e \in Entry, LeaseEnds(e) PROVE TypeInv'
    <2>1. row' \in [Entry -> Row]
      BY <1>18, <1>types DEF LeaseEnds, TypeOK, Row
    <2>2. overran' \in BOOLEAN
      BY <1>18, <1>types DEF LeaseEnds, TypeOK, Delivering
    <2> QED BY <1>18, <2>1, <2>2 DEF LeaseEnds, TypeInv, TypeOK, TaskTyped
  <1>19. ASSUME NEW e \in Entry, Purge(e) PROVE TypeInv'
    <2>1. fact' \in [Entry -> Content \cup {None}]
      BY <1>19, <1>types DEF Purge, TypeOK
    <2> QED BY <1>19, <2>1 DEF Purge, TypeInv, TypeOK, TaskTyped
  <1>20. CASE UNCHANGED vars
    BY <1>20 DEF vars, TypeInv, TypeOK, TaskTyped
  <1> QED
    BY <1>1, <1>2, <1>3, <1>4, <1>5, <1>6, <1>7, <1>8, <1>9, <1>10, <1>11,
       <1>12, <1>13, <1>14, <1>15, <1>16, <1>17, <1>18, <1>19, <1>20, <1>types
       DEF Next, Work, Step

(* Every variable keeps its type. *)
THEOREM TypeCorrect == Spec => []TypeOK
  <1>1. TypeInv => TypeOK
    BY DEF TypeInv
  <1> QED BY <1>1, TypeInit, TypeStep, PTL DEF Spec

(***************************************************************************)
(* Rows and leases                                                         *)
(***************************************************************************)

(* A row exists as soon as a job does, a worker delivers what the row says *)
(* and the claim it works under is in the row until its lease ends.        *)
RowsOfJobs ==
    /\ \A e \in Entry : ~JobExists(e) => row[e].status = "pending"
    /\ \A i \in DOMAIN outbox : JobExists(outbox[i])
DeliversItsRow(w) ==
    task[w].at # "idle" =>
        /\ JobExists(task[w].entry)
        /\ task[w].payload = row[task[w].entry].payload
LeaseHeld(w) ==
    ~overran /\ task[w].at # "idle" =>
        /\ row[task[w].entry].status = "processing"
        /\ row[task[w].entry].lease = w

LeaseInv ==
    /\ RowsOfJobs
    /\ \A w \in Worker : DeliversItsRow(w) /\ LeaseHeld(w)

(* Most steps leave the rows alone, and start no delivery. *)
NoNewDelivery ==
    \A w \in Worker :
        task'[w].at # "idle" =>
            /\ task[w].at # "idle"
            /\ task'[w].entry = task[w].entry
            /\ task'[w].payload = task[w].payload

Elsewhere ==
    \/ \E p \in Process : Look(p) \/ Build(p) \/ AcceptBatch(p) \/ AcceptBatchFails(p)
    \/ \E w \in Worker : Crash(w)
    \/ \E r \in Request :
        \/ \E q \in Posts : Receive(r, q)
        \/ Write(r) \/ WriteFails(r) \/ Respond(r) \/ Throw(r)
    \/ Revoke \/ Grant \/ Redeploy
    \/ \E e \in Entry : Purge(e)
    \/ UNCHANGED vars

LEMMA RefuseKeepsEntry ==
    ASSUME TypeInv, NEW p \in Process, NEW v, Refuse(p, v), task[p].at # "idle"
    PROVE  NoNewDelivery
  <1>1. task \in [Process -> Task] /\ Worker \subseteq Process
    BY DEF TypeInv, TypeOK, Process
  <1>2. /\ task'[p].entry = task[p].entry
        /\ task'[p].payload = task[p].payload
        /\ \A q \in Process : q # p => task'[q] = task[q]
    BY <1>1 DEF Refuse, Task
  <1> QED BY <1>1, <1>2 DEF NoNewDelivery

LEMMA IdleStartsNothing ==
    ASSUME TypeInv, NEW p \in Process, task' = [task EXCEPT ![p] = Idle]
    PROVE  NoNewDelivery
  BY IdleIsTask DEF NoNewDelivery, TypeInv, TypeOK, Process

LEMMA ElsewhereQuiet ==
    ASSUME TypeInv, Elsewhere
    PROVE  NoNewDelivery /\ UNCHANGED <<outbox, row, overran>>
  <1> USE DEF tables, store, web, setting, bounds
  <1>types. /\ task \in [Process -> Task]
            /\ Worker \subseteq Process /\ Request \subseteq Process
            /\ Worker \cap Request = {}
    BY OutboxAssumption DEF TypeInv, TypeOK, Process
  <1>1. ASSUME NEW p \in Process, Look(p)
        PROVE  NoNewDelivery /\ UNCHANGED <<outbox, row, overran>>
    <2>1. CASE task[p].payload \notin Registered
      BY <1>1, <2>1, RefuseKeepsEntry DEF Look
    <2>2. CASE task[p].payload \in Registered
      <3>1. /\ task'[p].entry = task[p].entry
            /\ task'[p].payload = task[p].payload
            /\ \A q \in Process : q # p => task'[q] = task[q]
        BY <1>1, <1>types, <2>2 DEF Look, Task
      <3> QED BY <1>1, <1>types, <3>1 DEF Look, NoNewDelivery
    <2> QED BY <2>1, <2>2
  <1>2. ASSUME NEW p \in Process, Build(p)
        PROVE  NoNewDelivery /\ UNCHANGED <<outbox, row, overran>>
    <2>1. CASE ~granted \/ task[p].read \notin {None, Envelope(p)}
      BY <1>2, <2>1, RefuseKeepsEntry DEF Build
    <2>2. CASE granted /\ task[p].read \in {None, Envelope(p)}
      <3>1. /\ task'[p].entry = task[p].entry
            /\ task'[p].payload = task[p].payload
            /\ \A q \in Process : q # p => task'[q] = task[q]
        BY <1>2, <1>types, <2>2 DEF Build, Task
      <3> QED BY <1>2, <1>types, <3>1 DEF Build, NoNewDelivery
    <2> QED BY <2>1, <2>2
  <1>3. ASSUME NEW p \in Process, AcceptBatch(p)
        PROVE  NoNewDelivery /\ UNCHANGED <<outbox, row, overran>>
    BY <1>3, RefuseKeepsEntry DEF AcceptBatch
  <1>4. ASSUME NEW p \in Process, AcceptBatchFails(p)
        PROVE  NoNewDelivery /\ UNCHANGED <<outbox, row, overran>>
    BY <1>4, RefuseKeepsEntry DEF AcceptBatchFails
  <1>5. ASSUME NEW w \in Worker, Crash(w)
        PROVE  NoNewDelivery /\ UNCHANGED <<outbox, row, overran>>
    BY <1>5, <1>types, IdleStartsNothing DEF Crash
  <1>6. ASSUME NEW r \in Request, NEW q \in Posts, Receive(r, q)
        PROVE  NoNewDelivery /\ UNCHANGED <<outbox, row, overran>>
    <2>1. \A w \in Worker : task'[w] = task[w]
      BY <1>6, <1>types DEF Receive
    <2> QED BY <1>6, <2>1 DEF Receive, NoNewDelivery
  <1>7. ASSUME NEW r \in Request, Write(r)
        PROVE  NoNewDelivery /\ UNCHANGED <<outbox, row, overran>>
    BY <1>7, <1>types, RefuseKeepsEntry DEF Write
  <1>8. ASSUME NEW r \in Request, WriteFails(r)
        PROVE  NoNewDelivery /\ UNCHANGED <<outbox, row, overran>>
    BY <1>8, <1>types, RefuseKeepsEntry DEF WriteFails
  <1>9. ASSUME NEW r \in Request, Respond(r) \/ Throw(r)
        PROVE  NoNewDelivery /\ UNCHANGED <<outbox, row, overran>>
    BY <1>9, <1>types, IdleStartsNothing DEF Respond, Throw
  <1>10. ASSUME Revoke \/ Grant \/ Redeploy \/ UNCHANGED vars
         PROVE  NoNewDelivery /\ UNCHANGED <<outbox, row, overran>>
    BY <1>10 DEF Revoke, Grant, Redeploy, vars, NoNewDelivery
  <1>11. ASSUME NEW e \in Entry, Purge(e)
         PROVE  NoNewDelivery /\ UNCHANGED <<outbox, row, overran>>
    BY <1>11 DEF Purge, NoNewDelivery
  <1> QED
    BY <1>1, <1>2, <1>3, <1>4, <1>5, <1>6, <1>7, <1>8, <1>9, <1>10, <1>11
       DEF Elsewhere

(* The other steps: those that write rows. *)
LEMMA AllSteps ==
    [Next]_vars =>
        \/ Elsewhere
        \/ \E j \in Jobs : CreateJobWithOutboxEntry(j.entry, j.payload)
        \/ \E w \in Worker : ClaimNext(w) \/ Publish(w) \/ Fail(w) \/ Quarantine(w)
        \/ \E e \in Entry : LeaseEnds(e)
  BY DEF Next, Elsewhere, Work, Step, Process

LEMMA QuietKeepsLeases ==
    ASSUME LeaseInv, NoNewDelivery, UNCHANGED <<outbox, row, overran>>
    PROVE  LeaseInv'
  BY DEF LeaseInv, RowsOfJobs, DeliversItsRow, LeaseHeld, NoNewDelivery, JobExists

(* The step of a worker that writes its row. *)
LEMMA ReportKeepsLeases ==
    ASSUME TypeInv, LeaseInv, NEW w \in Worker, NEW s \in Status,
           NEW l \in Worker \cup {None}, task[w].at = "settle", Report(w, s, l)
    PROVE  /\ LeaseInv'
           /\ ~overran => row[task[w].entry].status = "processing"
           /\ \A e \in Entry : e # task[w].entry => row'[e] = row[e]
  <1> DEFINE e0 == task[w].entry
  <1>1. e0 \in Entry /\ row \in [Entry -> Row] /\ task \in [Process -> Task]
    BY DEF TypeInv, TypeOK, TaskTyped, Process
  <1>2. JobExists(e0) /\ LeaseHeld(w)
    BY DEF LeaseInv, DeliversItsRow
  <1>3. /\ row'[e0].payload = row[e0].payload
        /\ \A e \in Entry : e # e0 => row'[e] = row[e]
    BY <1>1 DEF Report, Row
  <1>4. /\ task'[w].at = "idle"
        /\ \A v \in Worker : v # w => task'[v] = task[v]
        /\ UNCHANGED <<outbox, overran>>
    BY <1>1, IdleIsTask DEF Report, Process
  <1>5. RowsOfJobs'
    <2>1. \A e \in Entry : row'[e].payload = row[e].payload
      BY <1>3
    <2>2. \A i \in DOMAIN outbox : outbox[i] \in Entry
      BY DEF TypeInv, TypeOK
    <2>3. \A e \in Entry : JobExists(e)' <=> JobExists(e)
      BY <2>1 DEF JobExists
    <2> QED BY <1>2, <1>3, <1>4, <2>2, <2>3 DEF RowsOfJobs, LeaseInv
  <1>6. ASSUME NEW v \in Worker PROVE DeliversItsRow(v)' /\ LeaseHeld(v)'
    <2>1. CASE v = w
      BY <1>4, <2>1 DEF DeliversItsRow, LeaseHeld
    <2>2. CASE v # w
      <3>1. task'[v] = task[v] /\ DeliversItsRow(v) /\ LeaseHeld(v)
        BY <1>4, <2>2 DEF LeaseInv
      <3>2. task[v].at # "idle" => task[v].entry \in Entry
        BY DEF TypeInv, TaskTyped, Process
      <3>3. DeliversItsRow(v)'
        BY <1>3, <3>1, <3>2 DEF DeliversItsRow, JobExists
      <3>4. CASE task[v].at # "idle" /\ task[v].entry = e0 /\ ~overran
        BY <1>2, <2>2, <3>1, <3>4 DEF LeaseHeld
      <3>5. CASE ~(task[v].at # "idle" /\ task[v].entry = e0 /\ ~overran)
        BY <1>3, <1>4, <3>1, <3>2, <3>3, <3>5 DEF LeaseHeld
      <3> QED BY <3>3, <3>4, <3>5
    <2> QED BY <2>1, <2>2
  <1> QED BY <1>2, <1>3, <1>5, <1>6 DEF LeaseInv, LeaseHeld

LEMMA LeaseInit == Init => LeaseInv
  <1> SUFFICES ASSUME Init PROVE LeaseInv
    OBVIOUS
  <1>1. \A w \in Worker : task[w].at = "idle"
    BY IdleIsTask DEF Init, Process
  <1> QED BY <1>1
        DEF Init, NoRow, LeaseInv, RowsOfJobs, DeliversItsRow, LeaseHeld, JobExists

LEMMA LeaseStep ==
    ASSUME TypeInv, LeaseInv, [Next]_vars
    PROVE  /\ LeaseInv'
           /\ \A e \in Entry :
                ~overran' /\ row[e].status \in Settled => row'[e].status = row[e].status
  <1> DEFINE Stays == \A e \in Entry :
                ~overran' /\ row[e].status \in Settled => row'[e].status = row[e].status
  <1> USE DEF tables, store, web, setting, bounds
  <1>types. /\ row \in [Entry -> Row] /\ task \in [Process -> Task]
            /\ Worker \subseteq Process /\ outbox \in Seq(Entry)
            /\ \A w \in Worker : task[w].at # "idle" => task[w].entry \in Entry
    BY DEF TypeInv, TypeOK, TaskTyped, Process
  <1>1. CASE Elsewhere
    BY <1>1, ElsewhereQuiet, QuietKeepsLeases
  <1>2. ASSUME NEW j \in Jobs, CreateJobWithOutboxEntry(j.entry, j.payload)
        PROVE  LeaseInv' /\ Stays
    <2>1. j.entry \in Entry /\ j.payload \in Payload /\ j.payload # NoPayload
      BY OutboxAssumption
    <2>2. ~JobExists(j.entry) /\ UNCHANGED <<task, overran>>
      BY <1>2 DEF CreateJobWithOutboxEntry
    <2>3. /\ row'[j.entry].payload = j.payload
          /\ \A e \in Entry : e # j.entry => row'[e] = row[e]
      BY <1>2, <1>types, <2>1 DEF CreateJobWithOutboxEntry, NoRow
    <2>4. row[j.entry].status = "pending"
      BY <2>1, <2>2 DEF LeaseInv, RowsOfJobs
    <2>5. \A e \in Entry : JobExists(e) \/ e = j.entry => JobExists(e)'
      BY <2>1, <2>3 DEF JobExists
    <2>6. RowsOfJobs'
      <3>1. \A i \in DOMAIN outbox' : outbox'[i] = j.entry \/ i \in DOMAIN outbox
        BY <1>2, <1>types, <2>1 DEF CreateJobWithOutboxEntry
      <3>2. \A i \in DOMAIN outbox : outbox'[i] = outbox[i] /\ outbox[i] \in Entry
        BY <1>2, <1>types, <2>1 DEF CreateJobWithOutboxEntry
      <3>3. \A i \in DOMAIN outbox' : row'[outbox'[i]].payload # NoPayload
        BY <2>1, <2>5, <3>1, <3>2 DEF LeaseInv, RowsOfJobs, JobExists
      <3>4. \A e \in Entry : ~JobExists(e)' => row'[e].status = "pending"
        BY <2>1, <2>3, <2>5 DEF LeaseInv, RowsOfJobs, JobExists
      <3> QED BY <3>3, <3>4 DEF RowsOfJobs, JobExists
    <2>7. ASSUME NEW w \in Worker PROVE DeliversItsRow(w)' /\ LeaseHeld(w)'
      <3>1. DeliversItsRow(w) /\ LeaseHeld(w)
        BY DEF LeaseInv
      <3>2. task[w].at # "idle" => task[w].entry # j.entry
        BY <2>2, <3>1 DEF DeliversItsRow
      <3> QED BY <1>types, <2>2, <2>3, <3>1, <3>2
            DEF DeliversItsRow, LeaseHeld, JobExists
    <2>8. Stays
      BY <2>3, <2>4 DEF Settled
    <2> QED BY <2>6, <2>7, <2>8 DEF LeaseInv
  <1>3. ASSUME NEW w \in Worker, ClaimNext(w) PROVE LeaseInv' /\ Stays
    <2>1. PICK i \in DOMAIN outbox :
            /\ Claimable(w, outbox[i])
            /\ row' = [row EXCEPT ![outbox[i]].status = "processing",
                                  ![outbox[i]].lease = w]
            /\ task' = [task EXCEPT ![w] = [Idle EXCEPT !.at = "look",
                          !.entry = outbox[i], !.payload = row[outbox[i]].payload]]
      BY <1>3 DEF ClaimNext
    <2> DEFINE e0 == outbox[i]
    <2>2. e0 \in Entry /\ JobExists(e0)
      BY <1>types DEF LeaseInv, RowsOfJobs
    <2>3. /\ row'[e0].payload = row[e0].payload
          /\ row'[e0].status = "processing"
          /\ row'[e0].lease = w
          /\ \A e \in Entry : e # e0 => row'[e] = row[e]
      BY <1>types, <2>1, <2>2 DEF Row
    <2>4. /\ task'[w].entry = e0 /\ task'[w].payload = row[e0].payload
          /\ \A v \in Worker : v # w => task'[v] = task[v]
          /\ UNCHANGED <<outbox, overran>>
      BY <1>3, <1>types, <2>1 DEF Idle, ClaimNext
    <2>5. row[e0].status \notin Settled /\ row[e0].lease \in {None, w}
      BY <2>1 DEF Claimable
    <2> HIDE DEF e0
    <2>6. \A e \in Entry : JobExists(e)' <=> JobExists(e)
      BY <2>3 DEF JobExists
    <2>7. RowsOfJobs'
      BY <1>types, <2>2, <2>3, <2>4, <2>6 DEF LeaseInv, RowsOfJobs
    <2>8. ASSUME NEW v \in Worker PROVE DeliversItsRow(v)' /\ LeaseHeld(v)'
      <3>1. CASE v = w
        BY <2>2, <2>3, <2>4, <2>6, <3>1 DEF DeliversItsRow, LeaseHeld, JobExists
      <3>2. CASE v # w
        <4>1. task'[v] = task[v] /\ DeliversItsRow(v) /\ LeaseHeld(v)
          BY <2>4, <3>2 DEF LeaseInv
        <4>2. DeliversItsRow(v)'
          BY <1>types, <2>3, <4>1 DEF DeliversItsRow, JobExists
        <4>3. LeaseHeld(v)'
          <5>1. CASE task[v].at # "idle" /\ task[v].entry = e0 /\ ~overran
            BY <2>5, <3>2, <4>1, <5>1, OutboxAssumption DEF LeaseHeld
          <5>2. CASE ~(task[v].at # "idle" /\ task[v].entry = e0 /\ ~overran)
            BY <1>types, <2>3, <2>4, <4>1, <5>2 DEF LeaseHeld
          <5> QED BY <5>1, <5>2
        <4> QED BY <4>2, <4>3
      <3> QED BY <3>1, <3>2
    <2>9. Stays
      BY <2>3, <2>5
    <2> QED BY <2>7, <2>8, <2>9 DEF LeaseInv
  <1>4. ASSUME NEW w \in Worker, Publish(w) \/ Fail(w) \/ Quarantine(w)
        PROVE  LeaseInv' /\ Stays
    <2>1. task[w].at = "settle"
      BY <1>4 DEF Publish, Fail, Quarantine, Deliver
    <2>2. row[task[w].entry].lease \in Worker \cup {None}
      BY <1>types, <2>1 DEF Row
    <2>3. PICK s \in Status, l \in Worker \cup {None} : Report(w, s, l)
      BY <1>4, <2>2 DEF Publish, Fail, Quarantine, Status
    <2>4. /\ LeaseInv'
          /\ ~overran => row[task[w].entry].status = "processing"
          /\ \A e \in Entry : e # task[w].entry => row'[e] = row[e]
      BY <2>1, <2>3, ReportKeepsLeases
    <2>5. overran' = overran
      BY <2>3 DEF Report
    <2> QED BY <2>4, <2>5 DEF Settled
  <1>5. ASSUME NEW e \in Entry, LeaseEnds(e) PROVE LeaseInv' /\ Stays
    <2>1. /\ \A f \in Entry : row'[f].payload = row[f].payload
                              /\ row'[f].status = row[f].status
          /\ \A f \in Entry : f # e => row'[f] = row[f]
          /\ UNCHANGED <<outbox, task>>
          /\ overran' = (overran \/ Delivering(row[e].lease, e))
      BY <1>5, <1>types DEF LeaseEnds, Row
    <2>2. \A f \in Entry : JobExists(f)' <=> JobExists(f)
      BY <2>1 DEF JobExists
    <2>3. RowsOfJobs'
      BY <1>types, <2>1, <2>2 DEF LeaseInv, RowsOfJobs
    <2>4. ASSUME NEW w \in Worker PROVE DeliversItsRow(w)' /\ LeaseHeld(w)'
      <3>1. DeliversItsRow(w) /\ LeaseHeld(w)
        BY DEF LeaseInv
      <3>2. DeliversItsRow(w)'
        BY <1>types, <2>1, <2>2, <3>1 DEF DeliversItsRow
      <3>3. CASE task[w].at # "idle" /\ task[w].entry = e /\ ~overran
        BY <2>1, <3>1, <3>2, <3>3 DEF LeaseHeld, Delivering
      <3>4. CASE task[w].at # "idle" /\ task[w].entry # e /\ ~overran
        BY <1>types, <2>1, <3>1, <3>2, <3>4 DEF LeaseHeld
      <3>5. CASE task[w].at = "idle" \/ overran
        BY <2>1, <3>2, <3>5 DEF LeaseHeld
      <3> QED BY <3>2, <3>3, <3>4, <3>5
    <2> QED BY <2>1, <2>3, <2>4 DEF LeaseInv
  <1> QED BY <1>1, <1>2, <1>3, <1>4, <1>5, AllSteps, ElsewhereQuiet

(* Only one worker delivers an entry, until a lease ends under its worker. *)
THEOREM OneWorkerDelivers == Spec => []OneDeliverer
  <1>1. LeaseInv => OneDeliverer
    BY DEF LeaseInv, LeaseHeld, OneDeliverer, Delivering
  <1>2. TypeInv /\ LeaseInv /\ [Next]_vars => TypeInv' /\ LeaseInv'
    BY TypeStep, LeaseStep
  <1> QED BY <1>1, <1>2, TypeInit, LeaseInit, PTL DEF Spec

(* Until then, no step reopens a row that is settled. *)
THEOREM SettledIsFinal == Spec => SettledStays
  <1>1. TypeInv /\ LeaseInv /\ [Next]_vars => TypeInv' /\ LeaseInv'
    BY TypeStep, LeaseStep
  <1>2. TypeInv /\ LeaseInv /\ [Next]_vars =>
          [\A e \in Entry : ~overran' /\ row[e].status \in Settled
                                => row'[e].status = row[e].status]_vars
    BY LeaseStep
  <1> QED BY <1>1, <1>2, TypeInit, LeaseInit, PTL DEF Spec, SettledStays

(***************************************************************************)
(* What processes have read and what they will say is true                 *)
(***************************************************************************)

Wanted(e) == ({row[e].payload} \ {NoPayload}) \cup Asked(e)

(* Everything stored was asked for and comes from a deployment so far.     *)
FactsTrue ==
    \A e \in Entry :
        /\ fact[e] \in ever[e] \cup {None}
        /\ \A c \in ever[e] : c.payload \in Wanted(e) /\ c.context <= context
        /\ handed[e] # None => handed[e].context <= context

(* A request works on what it was posted. *)
Carried(p) ==
    p \in Request /\ task[p].at # "idle" =>
        /\ post[p] # None /\ post[p].fault = "none"
        /\ post[p].entry = task[p].entry
        /\ post[p].payload = task[p].payload

ReadTrue(p) ==
    /\ task[p].at = "build" =>
         /\ task[p].payload \in Registered
         /\ task[p].read \in ever[task[p].entry] \cup {None}
    /\ task[p].at = "accept" =>
         /\ task[p].read.payload = task[p].payload
         /\ task[p].read.context <= context

(* Where the envelope of a process goes. *)
Source(p) == IF p \in Worker THEN ever[task[p].entry] ELSE Taken(task[p].entry)

VerdictTrue(p) ==
    task[p].at = "settle" =>
        /\ task[p].verdict \in {"new", "duplicate"} =>
             \E c \in Source(p) : c.payload = task[p].payload
        /\ task[p].verdict = "conflict" =>
             \E c \in Source(p) : c.payload # task[p].payload \/ context > 0
        /\ task[p].verdict = "unregistered" => task[p].payload \notin Registered
        /\ task[p].verdict = "denied" => revocations > 0
        /\ task[p].verdict = "storage-error" => failures > 0

Consented == granted \/ revocations > 0

TruthInv ==
    /\ FactsTrue
    /\ Consented
    /\ \A p \in Process : Carried(p) /\ ReadTrue(p) /\ VerdictTrue(p)

(* What every step does to what these facts rest on. *)
Grows ==
    /\ \A e \in Entry :
        /\ ever[e] \subseteq ever'[e]
        /\ handed[e] # None => handed'[e] = handed[e]
        /\ JobExists(e) => row'[e].payload = row[e].payload
    /\ \A r \in Request : post[r] # None => post'[r] = post[r]
    /\ context <= context' /\ revocations <= revocations' /\ failures <= failures'

LEMMA AskedGrows ==
    ASSUME Grows, NEW e \in Entry
    PROVE  Asked(e) \subseteq Asked(e)' /\ Wanted(e) \subseteq Wanted(e)'
  <1>1. Asked(e) \subseteq Asked(e)'
    <2> SUFFICES ASSUME NEW r \in Request, post[r] # None,
                        post[r].fault = "none", post[r].entry = e
                 PROVE  post[r].payload \in Asked(e)'
      BY DEF Asked
    <2>1. post'[r] = post[r]
      BY DEF Grows
    <2> QED BY <2>1 DEF Asked
  <1> QED BY <1>1 DEF Grows, Wanted, JobExists

LEMMA TakenGrows ==
    ASSUME Grows, NEW e \in Entry
    PROVE  Taken(e) \subseteq Taken(e)'
  BY DEF Grows, Taken

LEMMA StillTrue ==
    ASSUME TypeInv, TypeInv', Grows, NEW p \in Process, task'[p] = task[p],
           Carried(p), ReadTrue(p), VerdictTrue(p)
    PROVE  Carried(p)' /\ ReadTrue(p)' /\ VerdictTrue(p)'
  <1>1. Carried(p)'
    BY DEF Carried, Grows
  <1>2. /\ context \in Nat /\ context' \in Nat /\ context <= context'
        /\ revocations \in Nat /\ revocations' \in Nat /\ revocations <= revocations'
        /\ failures \in Nat /\ failures' \in Nat /\ failures <= failures'
    BY DEF TypeInv, TypeOK, Context, Grows
  <1>3. TaskTyped(p)
    BY DEF TypeInv
  <1>4. ReadTrue(p)'
    <2>1. CASE task[p].at = "build"
      BY <1>3, <2>1 DEF ReadTrue, Grows, TaskTyped
    <2>2. CASE task[p].at = "accept"
      <3>1. task[p].read.context \in Nat
        BY <1>3, <2>2 DEF TaskTyped, Content, Context
      <3>2. task[p].read.context <= context'
        BY <1>2, <2>2, <3>1 DEF ReadTrue
      <3> QED BY <2>2, <3>2 DEF ReadTrue
    <2>3. CASE task[p].at \notin {"build", "accept"}
      BY <2>3 DEF ReadTrue
    <2> QED BY <2>1, <2>2, <2>3
  <1>5. VerdictTrue(p)'
    <2>1. CASE task[p].at = "settle"
      <3>1. task[p].entry \in Entry
        BY <1>3, <2>1 DEF TaskTyped
      <3>2. Source(p) \subseteq Source(p)'
        BY <3>1, TakenGrows DEF Source, Grows
      <3> QED BY <1>2, <2>1, <3>2 DEF VerdictTrue
    <2>2. CASE task[p].at # "settle"
      BY <2>2 DEF VerdictTrue
    <2> QED BY <2>1, <2>2
  <1> QED BY <1>1, <1>4, <1>5

LEMMA OneMoves ==
    ASSUME TypeInv, TypeInv', TruthInv, Grows, FactsTrue', Consented',
           NEW p \in Process, \A q \in Process : q # p => task'[q] = task[q],
           Carried(p)', ReadTrue(p)', VerdictTrue(p)'
    PROVE  TruthInv'
  <1>1. ASSUME NEW q \in Process
        PROVE  Carried(q)' /\ ReadTrue(q)' /\ VerdictTrue(q)'
    <2>1. CASE q # p
      BY <2>1, StillTrue DEF TruthInv
    <2> QED BY <2>1
  <1> QED BY <1>1 DEF TruthInv

(* Facts stay true while nothing is stored or handed over. *)
LEMMA FactsStay ==
    ASSUME TypeInv, TypeInv', FactsTrue, Grows, UNCHANGED <<ever, handed>>,
           \A e \in Entry : fact'[e] \in {fact[e], None}
    PROVE  FactsTrue'
  <1> SUFFICES ASSUME NEW e \in Entry
      PROVE /\ fact'[e] \in ever'[e] \cup {None}
            /\ \A c \in ever'[e] : c.payload \in Wanted(e)' /\ c.context <= context'
            /\ handed'[e] # None => handed'[e].context <= context'
    BY DEF FactsTrue
  <1>1. context \in Nat /\ context' \in Nat /\ context <= context'
    BY DEF TypeInv, TypeOK, Context, Grows
  <1>2. ever[e] \subseteq Content /\ handed[e] \in Content \cup {None}
    BY DEF TypeInv, TypeOK
  <1>3. \A c \in Content : c.context \in Nat
    BY DEF Content, Context
  <1>4. ASSUME NEW c \in ever'[e]
        PROVE  c.payload \in Wanted(e)' /\ c.context <= context'
    BY <1>1, <1>2, <1>3, AskedGrows DEF FactsTrue
  <1>5. handed'[e] # None => handed'[e].context <= context'
    BY <1>1, <1>2, <1>3 DEF FactsTrue
  <1> QED BY <1>4, <1>5 DEF FactsTrue

LEMMA TruthInit == Init => TruthInv
  <1> SUFFICES ASSUME Init PROVE TruthInv
    OBVIOUS
  <1>1. \A p \in Process : task[p].at = "idle"
    BY IdleIsTask DEF Init
  <1>2. FactsTrue
    BY DEF Init, FactsTrue
  <1>3. Consented
    BY DEF Init, Consented
  <1> QED BY <1>1, <1>2, <1>3 DEF TruthInv, Carried, ReadTrue, VerdictTrue

(* Steps that leave alone all that these facts rest on, but for a consent  *)
(* or a failure that is counted.                                           *)
LEMMA PlainGrows ==
    ASSUME TypeInv, TypeInv', UNCHANGED <<row, ever, handed, post, context>>,
           revocations <= revocations', failures <= failures'
    PROVE  Grows
  BY DEF Grows, TypeInv, TypeOK, Context

LEMMA RefusedTrue ==
    ASSUME TypeInv, NEW p \in Process, NEW v, Refuse(p, v)
    PROVE  /\ task'[p].at = "settle" /\ task'[p].verdict = v
           /\ task'[p].entry = task[p].entry
           /\ task'[p].payload = task[p].payload
           /\ \A q \in Process : q # p => task'[q] = task[q]
  BY DEF Refuse, TypeInv, TypeOK, Task

LEMMA Counts ==
    TypeInv => /\ context \in Nat /\ revocations \in Nat /\ failures \in Nat
               /\ Worker \subseteq Process /\ Request \subseteq Process
               /\ task \in [Process -> Task] /\ row \in [Entry -> Row]
               /\ fact \in [Entry -> Content \cup {None}]
               /\ ever \in [Entry -> SUBSET Content]
               /\ handed \in [Entry -> Content \cup {None}]
               /\ \A p \in Process : TaskTyped(p)
  BY DEF TypeInv, TypeOK, Context, Process

LEMMA TruthStepLook ==
    ASSUME TypeInv, TypeInv', TruthInv, NEW p \in Process, Look(p)
    PROVE  TruthInv' /\ Grows
  <1> USE DEF tables, store, web, setting, bounds
  <1>1. Grows /\ FactsTrue' /\ Consented'
    <2>1. Grows
      BY PlainGrows, Counts DEF Look
    <2> QED BY <2>1, FactsStay DEF Look, TruthInv, Consented
  <1>2. Carried(p)' /\ ReadTrue(p)' /\ VerdictTrue(p)'
        /\ \A q \in Process : q # p => task'[q] = task[q]
    <2>1. CASE task[p].payload \notin Registered
      <3>1. Refuse(p, "unregistered")
        BY <2>1 DEF Look
      <3> QED BY <2>1, <3>1, RefusedTrue
            DEF Look, TruthInv, Carried, ReadTrue, VerdictTrue
    <2>2. CASE task[p].payload \in Registered
      <3>1. /\ task'[p].at = "build" /\ task'[p].entry = task[p].entry
            /\ task'[p].payload = task[p].payload
            /\ task'[p].read = fact[task[p].entry]
            /\ \A q \in Process : q # p => task'[q] = task[q]
        BY <2>2, Counts DEF Look, Task
      <3>2. task[p].at = "look" /\ UNCHANGED <<post, ever>>
        BY DEF Look
      <3>3. task[p].entry \in Entry
        BY <3>2, Counts DEF TaskTyped
      <3>4. Carried(p)'
        BY <3>1, <3>2 DEF TruthInv, Carried
      <3>5. ReadTrue(p)'
        BY <2>2, <3>1, <3>2, <3>3 DEF TruthInv, FactsTrue, ReadTrue
      <3>6. VerdictTrue(p)'
        BY <3>1 DEF VerdictTrue
      <3> QED BY <3>1, <3>4, <3>5, <3>6
    <2> QED BY <2>1, <2>2
  <1> QED BY <1>1, <1>2, OneMoves

LEMMA TruthStepBuild ==
    ASSUME TypeInv, TypeInv', TruthInv, NEW p \in Process, Build(p)
    PROVE  TruthInv' /\ Grows
  <1> USE DEF tables, store, web, setting, bounds
  <1>1. Grows /\ FactsTrue' /\ Consented'
    <2>1. Grows
      BY PlainGrows, Counts DEF Build
    <2> QED BY <2>1, FactsStay DEF Build, TruthInv, Consented
  <1>2. /\ task[p].at = "build" /\ task[p].entry \in Entry
        /\ task[p].payload \in Registered
        /\ task[p].read \in ever[task[p].entry] \cup {None}
        /\ UNCHANGED <<post, ever, handed, context, revocations>>
    BY Counts DEF Build, TruthInv, ReadTrue, TaskTyped
  <1>3. Carried(p)' /\ ReadTrue(p)' /\ VerdictTrue(p)'
        /\ \A q \in Process : q # p => task'[q] = task[q]
    <2>1. CASE ~granted
      <3>1. Refuse(p, "denied") /\ revocations > 0
        BY <2>1 DEF Build, TruthInv, Consented
      <3> QED BY <1>2, <3>1, RefusedTrue
            DEF TruthInv, Carried, ReadTrue, VerdictTrue
    <2>2. CASE granted /\ task[p].read \notin {None, Envelope(p)}
      <3>1. Refuse(p, "conflict")
        BY <2>2 DEF Build
      <3> DEFINE c == task[p].read
      <3>2. /\ c \in ever[task[p].entry] /\ c \in Content /\ c # Envelope(p)
            /\ c.context <= context
        BY <1>2, <2>2, Counts DEF TruthInv, FactsTrue
      <3>3. c.payload # task[p].payload \/ context > 0
        <4>1. c.context \in Nat /\ c = [payload |-> c.payload, context |-> c.context]
          BY <3>2 DEF Content, Context
        <4>2. c.payload = task[p].payload => c.context # context
          BY <3>2, <4>1 DEF Envelope
        <4> QED BY <3>2, <4>1, <4>2, Counts
      <3>4. c \in Source(p)
        BY <1>2, <3>2 DEF Source, Taken
      <3> HIDE DEF c
      <3>5. VerdictTrue(p)'
        <4>1. Source(p)' = Source(p)
          BY <1>2, <3>1, RefusedTrue DEF Source, Taken
        <4> QED BY <1>2, <3>1, <3>3, <3>4, <4>1, RefusedTrue DEF VerdictTrue
      <3>6. Carried(p)' /\ ReadTrue(p)'
        BY <1>2, <3>1, RefusedTrue DEF TruthInv, Carried, ReadTrue
      <3> QED BY <3>1, <3>5, <3>6, RefusedTrue
    <2>3. CASE granted /\ task[p].read \in {None, Envelope(p)}
      <3>1. /\ task'[p].at = "accept" /\ task'[p].entry = task[p].entry
            /\ task'[p].payload = task[p].payload
            /\ task'[p].read = Envelope(p)
            /\ \A q \in Process : q # p => task'[q] = task[q]
        BY <2>3, Counts DEF Build, Task
      <3>2. Carried(p)' /\ ReadTrue(p)' /\ VerdictTrue(p)'
        BY <1>2, <3>1, Counts
           DEF TruthInv, Carried, ReadTrue, VerdictTrue, Envelope
      <3> QED BY <3>1, <3>2
    <2> QED BY <2>1, <2>2, <2>3
  <1> QED BY <1>1, <1>3, OneMoves

(* What a process stores was asked for. *)
LEMMA AcceptedWanted ==
    ASSUME TypeInv, LeaseInv, TruthInv, NEW p \in Process, task[p].at = "accept"
    PROVE  /\ task[p].entry \in Entry /\ task[p].read \in Content
           /\ task[p].payload \in Payload
           /\ task[p].read.payload = task[p].payload
           /\ task[p].read.context <= context
           /\ task[p].payload \in Wanted(task[p].entry)
  <1>1. /\ task[p].entry \in Entry /\ task[p].read \in Content
        /\ task[p].payload \in Payload
        /\ task[p].read.payload = task[p].payload
        /\ task[p].read.context <= context
    BY DEF TypeInv, TaskTyped, TruthInv, ReadTrue
  <1>2. CASE p \in Worker
    BY <1>1, <1>2 DEF LeaseInv, DeliversItsRow, JobExists, Wanted
  <1>3. CASE p \in Request
    <2>1. /\ post[p] # None /\ post[p].fault = "none"
          /\ post[p].entry = task[p].entry /\ post[p].payload = task[p].payload
      BY <1>3 DEF TruthInv, Carried
    <2>2. post[p].payload \in Asked(task[p].entry)
      BY <1>3, <2>1 DEF Asked
    <2> QED BY <1>1, <2>1, <2>2 DEF Wanted
  <1> QED BY <1>1, <1>2, <1>3 DEF Process

LEMMA StoringTrue ==
    ASSUME TypeInv, TypeInv', LeaseInv, TruthInv, NEW p \in Process,
           task[p].at = "accept", Stored(p),
           UNCHANGED <<row, handed, post, context>>,
           revocations <= revocations', failures <= failures'
    PROVE  /\ Grows /\ FactsTrue'
           /\ fact[task[p].entry] = None => task[p].read \in ever'[task[p].entry]
  <1> DEFINE e0 == task[p].entry
  <1>1. /\ e0 \in Entry /\ task[p].read \in Content
        /\ task[p].read.payload \in Wanted(e0)
        /\ task[p].read.context <= context
    BY AcceptedWanted
  <1>2. CASE fact[e0] = None
    <2>1. /\ fact' = [fact EXCEPT ![e0] = task[p].read]
          /\ ever' = [ever EXCEPT ![e0] = @ \cup {task[p].read}]
      BY <1>2 DEF Stored
    <2>2. /\ \A e \in Entry : ever[e] \subseteq ever'[e]
          /\ \A e \in Entry : e # e0 => fact'[e] = fact[e] /\ ever'[e] = ever[e]
          /\ fact'[e0] = task[p].read /\ ever'[e0] = ever[e0] \cup {task[p].read}
      BY <1>1, <2>1, Counts
    <2>3. Grows
      BY <2>2, Counts DEF Grows
    <2>4. \A e \in Entry : Wanted(e) \subseteq Wanted(e)'
      BY <2>3, AskedGrows
    <2>5. FactsTrue'
      <3> SUFFICES ASSUME NEW e \in Entry
          PROVE /\ fact'[e] \in ever'[e] \cup {None}
                /\ \A c \in ever'[e] : c.payload \in Wanted(e)' /\ c.context <= context
                /\ handed'[e] # None => handed'[e].context <= context
        BY DEF FactsTrue
      <3>1. CASE e = e0
        BY <1>1, <2>2, <2>4, <3>1 DEF TruthInv, FactsTrue
      <3>2. CASE e # e0
        BY <2>2, <2>4, <3>2 DEF TruthInv, FactsTrue
      <3> QED BY <3>1, <3>2
    <2> QED BY <2>2, <2>3, <2>5
  <1>3. CASE fact[e0] # None
    <2>1. UNCHANGED store
      BY <1>3 DEF Stored, store
    <2>2. Grows
      BY <2>1, PlainGrows DEF store
    <2>3. FactsTrue'
      BY <2>1, <2>2, FactsStay DEF store, TruthInv
    <2> QED BY <1>3, <2>2, <2>3
  <1> QED BY <1>2, <1>3

(* The comparison says "conflict" only of another record, or of the same   *)
(* one from another deployment.                                            *)
LEMMA JudgeTrue ==
    ASSUME NEW s \in Content \cup {None}, NEW c \in Content, NEW k \in Nat,
           c.context <= k, s # None => s.context <= k
    PROVE  /\ Judge(s, c) \in {"new", "duplicate", "conflict"}
           /\ Judge(s, c) = "new" <=> s = None
           /\ Judge(s, c) = "duplicate" => s = c
           /\ Judge(s, c) = "conflict" =>
                s \in Content /\ (s.payload # c.payload \/ k > 0)
  <1>1. Judge(s, c) = "conflict" => s \in Content /\ (s.payload # c.payload \/ k > 0)
    <2> SUFFICES ASSUME s # None, s # c PROVE s.payload # c.payload \/ k > 0
      BY DEF Judge
    <2>1. /\ s = [payload |-> s.payload, context |-> s.context]
          /\ c = [payload |-> c.payload, context |-> c.context]
          /\ s.context \in Nat /\ c.context \in Nat
      BY DEF Content, Context
    <2> QED BY <2>1
  <1> QED BY <1>1 DEF Judge

LEMMA TruthStepAccept ==
    ASSUME TypeInv, TypeInv', LeaseInv, TruthInv, NEW p \in Process, AcceptBatch(p)
    PROVE  TruthInv' /\ Grows
  <1> USE DEF tables, store, web, setting, bounds
  <1> DEFINE e0 == task[p].entry
             c0 == task[p].read
             v0 == Judge(fact[e0], c0)
  <1>1. /\ task[p].at = "accept" /\ Stored(p) /\ Refuse(p, v0)
        /\ UNCHANGED <<row, handed, post, context, granted, revocations, failures>>
    BY DEF AcceptBatch
  <1>2. /\ Grows /\ FactsTrue' /\ Consented'
        /\ fact[e0] = None => c0 \in ever'[e0]
    BY <1>1, StoringTrue, Counts DEF TruthInv, Consented
  <1>3. /\ e0 \in Entry /\ c0 \in Content /\ c0.payload = task[p].payload
        /\ c0.context <= context
    BY <1>1, AcceptedWanted
  <1>4. /\ fact[e0] \in Content \cup {None}
        /\ fact[e0] # None => fact[e0] \in ever[e0] /\ fact[e0].context <= context
    BY <1>3, Counts DEF TruthInv, FactsTrue
  <1>5. /\ v0 \in {"new", "duplicate", "conflict"}
        /\ v0 = "new" <=> fact[e0] = None
        /\ v0 = "duplicate" => fact[e0] = c0
        /\ v0 = "conflict" => /\ fact[e0] \in Content
                              /\ fact[e0].payload # c0.payload \/ context > 0
    BY <1>3, <1>4, JudgeTrue, Counts
  <1>6. /\ task'[p].at = "settle" /\ task'[p].verdict = v0
        /\ task'[p].entry = e0 /\ task'[p].payload = task[p].payload
        /\ \A q \in Process : q # p => task'[q] = task[q]
    BY <1>1, RefusedTrue
  <1> HIDE DEF v0
  <1>7. ever[e0] \subseteq ever'[e0] /\ ever'[e0] \subseteq Source(p)'
    BY <1>2, <1>3, <1>6 DEF Grows, Source, Taken
  <1>8. VerdictTrue(p)'
    <2>1. CASE v0 = "new"
      BY <1>2, <1>3, <1>5, <1>6, <1>7, <2>1 DEF VerdictTrue
    <2>2. CASE v0 = "duplicate"
      BY <1>3, <1>4, <1>5, <1>6, <1>7, <2>2 DEF VerdictTrue
    <2>3. CASE v0 = "conflict"
      <3>1. /\ fact[e0] \in Source(p)'
            /\ fact[e0].payload # task'[p].payload \/ context' > 0
        BY <1>1, <1>3, <1>4, <1>5, <1>6, <1>7, <2>3
      <3> QED BY <1>6, <2>3, <3>1 DEF VerdictTrue
    <2> QED BY <1>5, <2>1, <2>2, <2>3
  <1>9. Carried(p)' /\ ReadTrue(p)'
    BY <1>1, <1>6 DEF TruthInv, Carried, ReadTrue
  <1> QED BY <1>2, <1>6, <1>8, <1>9, OneMoves

LEMMA TruthStepAcceptFails ==
    ASSUME TypeInv, TypeInv', LeaseInv, TruthInv, NEW p \in Process,
           AcceptBatchFails(p)
    PROVE  TruthInv' /\ Grows
  <1> USE DEF tables, store, web, setting, bounds
  <1>1. /\ task[p].at = "accept" /\ Refuse(p, "storage-error")
        /\ Stored(p) \/ UNCHANGED store
        /\ UNCHANGED <<row, handed, post, context, granted, revocations>>
        /\ failures' = failures + 1
    BY DEF AcceptBatchFails
  <1>2. Grows /\ FactsTrue'
    <2>1. CASE Stored(p)
      BY <1>1, <2>1, StoringTrue, Counts
    <2>2. CASE UNCHANGED store
      <3>1. Grows
        BY <1>1, <2>2, PlainGrows, Counts
      <3> QED BY <1>1, <2>2, <3>1, FactsStay DEF TruthInv
    <2> QED BY <1>1, <2>1, <2>2
  <1>3. Consented'
    BY <1>1 DEF TruthInv, Consented
  <1>4. /\ task'[p].at = "settle" /\ task'[p].verdict = "storage-error"
        /\ task'[p].entry = task[p].entry /\ task'[p].payload = task[p].payload
        /\ \A q \in Process : q # p => task'[q] = task[q]
    BY <1>1, RefusedTrue
  <1>5. Carried(p)' /\ ReadTrue(p)' /\ VerdictTrue(p)'
    BY <1>1, <1>4, Counts DEF TruthInv, Carried, ReadTrue, VerdictTrue
  <1> QED BY <1>2, <1>3, <1>4, <1>5, OneMoves

LEMMA TruthStepWrite ==
    ASSUME TypeInv, TypeInv', LeaseInv, TruthInv, NEW r \in Request,
           Write(r) \/ WriteFails(r)
    PROVE  TruthInv' /\ Grows
  <1> USE DEF tables, store, web, setting, bounds
  <1> DEFINE e0 == task[r].entry
             c0 == task[r].read
             v0 == Judge(handed[e0], c0)
  <1>0. r \in Process /\ r \notin Worker /\ task[r].at = "accept"
    BY OutboxAssumption DEF Process, Write, WriteFails
  <1>1. /\ e0 \in Entry /\ c0 \in Content /\ c0.payload = task[r].payload
        /\ c0.context <= context
    BY <1>0, AcceptedWanted
  <1>2. CASE Write(r)
    <2>1. /\ Refuse(r, v0)
          /\ handed' = IF handed[e0] = None THEN [handed EXCEPT ![e0] = c0] ELSE handed
          /\ UNCHANGED <<row, fact, ever, post, context, granted, revocations, failures>>
      BY <1>2 DEF Write
    <2>2. /\ \A e \in Entry : handed[e] # None => handed'[e] = handed[e]
          /\ \A e \in Entry : e # e0 => handed'[e] = handed[e]
          /\ handed[e0] = None => handed'[e0] = c0
      BY <1>1, <2>1, Counts
    <2>3. Grows
      BY <2>1, <2>2, Counts DEF Grows
    <2>4. FactsTrue'
      <3> SUFFICES ASSUME NEW e \in Entry
          PROVE /\ fact'[e] \in ever'[e] \cup {None}
                /\ \A c \in ever'[e] : c.payload \in Wanted(e)' /\ c.context <= context
                /\ handed'[e] # None => handed'[e].context <= context
        BY <2>1 DEF FactsTrue
      <3>1. /\ fact'[e] \in ever'[e] \cup {None}
            /\ \A c \in ever'[e] : c.payload \in Wanted(e)' /\ c.context <= context
        BY <2>1, <2>3, AskedGrows DEF TruthInv, FactsTrue
      <3>2. handed'[e] # None => handed'[e].context <= context
        BY <1>1, <2>2 DEF TruthInv, FactsTrue
      <3> QED BY <3>1, <3>2
    <2>5. /\ handed[e0] \in Content \cup {None}
          /\ handed[e0] # None => handed[e0].context <= context
      BY <1>1, Counts DEF TruthInv, FactsTrue
    <2>6. /\ v0 \in {"new", "duplicate", "conflict"}
          /\ v0 = "new" <=> handed[e0] = None
          /\ v0 = "duplicate" => handed[e0] = c0
          /\ v0 = "conflict" => /\ handed[e0] \in Content
                                /\ handed[e0].payload # c0.payload \/ context > 0
      BY <1>1, <2>5, JudgeTrue, Counts
    <2>7. /\ task'[r].at = "settle" /\ task'[r].verdict = v0
          /\ task'[r].entry = e0 /\ task'[r].payload = task[r].payload
          /\ \A q \in Process : q # r => task'[q] = task[q]
      BY <1>0, <2>1, RefusedTrue
    <2> HIDE DEF v0
    <2>8. handed'[e0] # None /\ handed'[e0] \in Source(r)'
      BY <1>0, <1>1, <2>2, <2>7, OutboxAssumption DEF Source, Taken
    <2>9. VerdictTrue(r)'
      <3>1. CASE v0 \in {"new", "duplicate"}
        <4>1. handed'[e0] = c0
          BY <1>1, <2>2, <2>6, <3>1, OutboxAssumption
        <4> QED BY <1>1, <2>7, <2>8, <3>1, <4>1 DEF VerdictTrue
      <3>2. CASE v0 = "conflict"
        <4>1. handed'[e0] = handed[e0]
          BY <1>1, <2>2, <2>6, <3>2
        <4>2. handed'[e0].payload # task'[r].payload \/ context' > 0
          BY <1>1, <2>1, <2>6, <2>7, <3>2, <4>1
        <4> QED BY <2>7, <2>8, <3>2, <4>2 DEF VerdictTrue
      <3> QED BY <2>6, <3>1, <3>2
    <2>10. Carried(r)' /\ ReadTrue(r)' /\ Consented'
      BY <1>0, <2>1, <2>7 DEF TruthInv, Carried, ReadTrue, Consented
    <2> QED BY <1>0, <2>3, <2>4, <2>7, <2>9, <2>10, OneMoves
  <1>3. CASE WriteFails(r)
    <2>1. /\ Refuse(r, "storage-error") /\ failures' = failures + 1
          /\ UNCHANGED <<row, fact, ever, handed, post, context, granted, revocations>>
      BY <1>3 DEF WriteFails
    <2>2. Grows
      BY <2>1, PlainGrows, Counts
    <2>3. FactsTrue' /\ Consented'
      BY <2>1, <2>2, FactsStay DEF TruthInv, Consented
    <2>4. /\ task'[r].at = "settle" /\ task'[r].verdict = "storage-error"
          /\ task'[r].entry = e0 /\ task'[r].payload = task[r].payload
          /\ \A q \in Process : q # r => task'[q] = task[q]
      BY <1>0, <2>1, RefusedTrue
    <2>5. Carried(r)' /\ ReadTrue(r)' /\ VerdictTrue(r)'
      BY <1>0, <2>1, <2>4, Counts DEF TruthInv, Carried, ReadTrue, VerdictTrue
    <2> QED BY <1>0, <2>2, <2>3, <2>4, <2>5, OneMoves
  <1> QED BY <1>2, <1>3

(* A process that has become idle says nothing. *)
LEMMA IdleTrue ==
    ASSUME TypeInv, NEW p \in Process, task' = [task EXCEPT ![p] = Idle]
    PROVE  /\ Carried(p)' /\ ReadTrue(p)' /\ VerdictTrue(p)'
           /\ \A q \in Process : q # p => task'[q] = task[q]
  <1>1. task'[p].at = "idle" /\ \A q \in Process : q # p => task'[q] = task[q]
    BY IdleIsTask, Counts
  <1> QED BY <1>1 DEF Carried, ReadTrue, VerdictTrue

(* No process moves. *)
LEMMA NoneMoves ==
    ASSUME TypeInv, TypeInv', TruthInv, Grows, FactsTrue', Consented',
           UNCHANGED task
    PROVE  TruthInv'
  BY StillTrue DEF TruthInv

(* What happens to the rows keeps what the jobs asked for. *)
LEMMA RowsGrow ==
    ASSUME TypeInv, TypeInv', TruthInv,
           \A e \in Entry : JobExists(e) => row'[e].payload = row[e].payload,
           UNCHANGED <<store, web, setting, revocations, failures>>
    PROVE  Grows /\ FactsTrue' /\ Consented'
  <1> USE DEF store, web, setting
  <1>1. Grows
    BY Counts DEF Grows
  <1> QED BY <1>1, FactsStay DEF TruthInv, Consented

LEMMA TruthStepRows ==
    ASSUME TypeInv, TypeInv', TruthInv, LeaseInv,
           \/ \E j \in Jobs : CreateJobWithOutboxEntry(j.entry, j.payload)
           \/ \E w \in Worker : ClaimNext(w) \/ Publish(w) \/ Fail(w) \/ Quarantine(w)
           \/ \E e \in Entry : LeaseEnds(e)
    PROVE  TruthInv' /\ Grows
  <1> USE DEF tables, store, web, setting, bounds
  <1>1. ASSUME NEW j \in Jobs, CreateJobWithOutboxEntry(j.entry, j.payload)
        PROVE  TruthInv' /\ Grows
    <2>1. \A e \in Entry : JobExists(e) => row'[e].payload = row[e].payload
      <3>1. j.entry \in Entry /\ ~JobExists(j.entry)
        BY <1>1, OutboxAssumption DEF CreateJobWithOutboxEntry
      <3>2. \A e \in Entry : e # j.entry => row'[e] = row[e]
        BY <1>1, <3>1, Counts DEF CreateJobWithOutboxEntry
      <3> QED BY <3>1, <3>2
    <2>2. UNCHANGED <<store, web, setting, revocations, failures, task>>
      BY <1>1 DEF CreateJobWithOutboxEntry
    <2>3. Grows /\ FactsTrue' /\ Consented'
      BY <2>1, <2>2, RowsGrow
    <2> QED BY <2>2, <2>3, NoneMoves
  <1>2. ASSUME NEW w \in Worker, ClaimNext(w) PROVE TruthInv' /\ Grows
    <2>1. PICK e \in Entry :
            /\ row' = [row EXCEPT ![e].status = "processing", ![e].lease = w]
            /\ task' = [task EXCEPT ![w] = [Idle EXCEPT !.at = "look",
                                      !.entry = e, !.payload = row[e].payload]]
      <3>1. \A i \in DOMAIN outbox : outbox[i] \in Entry
        BY DEF TypeInv, TypeOK
      <3> QED BY <1>2, <3>1 DEF ClaimNext
    <2>2. \A f \in Entry : row'[f].payload = row[f].payload
      BY <2>1, Counts DEF Row
    <2>3. Grows /\ FactsTrue' /\ Consented'
      BY <1>2, <2>2, RowsGrow DEF ClaimNext
    <2>4. /\ task'[w].at = "look"
          /\ \A q \in Process : q # w => task'[q] = task[q]
      BY <2>1, Counts DEF Idle
    <2>5. Carried(w)' /\ ReadTrue(w)' /\ VerdictTrue(w)'
      BY <2>4, OutboxAssumption DEF Carried, ReadTrue, VerdictTrue
    <2> QED BY <2>3, <2>4, <2>5, Counts, OneMoves
  <1>3. ASSUME NEW w \in Worker, Publish(w) \/ Fail(w) \/ Quarantine(w)
        PROVE  TruthInv' /\ Grows
    <2>1. PICK s, l : Report(w, s, l)
      BY <1>3 DEF Publish, Fail, Quarantine
    <2>2. \A e \in Entry : row'[e].payload = row[e].payload
      <3>1. row' = [row EXCEPT ![task[w].entry].status = s,
                               ![task[w].entry].lease = l]
        BY <2>1 DEF Report
      <3> QED BY <3>1, Counts DEF Row
    <2>3. Grows /\ FactsTrue' /\ Consented'
      BY <2>1, <2>2, RowsGrow DEF Report
    <2> QED BY <2>1, <2>3, Counts, IdleTrue, OneMoves DEF Report
  <1>4. ASSUME NEW e \in Entry, LeaseEnds(e) PROVE TruthInv' /\ Grows
    <2>1. \A f \in Entry : row'[f].payload = row[f].payload
      BY <1>4, Counts DEF LeaseEnds, Row
    <2>2. UNCHANGED <<store, web, setting, revocations, failures, task>>
      BY <1>4 DEF LeaseEnds
    <2>3. Grows /\ FactsTrue' /\ Consented'
      BY <2>1, <2>2, RowsGrow
    <2> QED BY <2>2, <2>3, NoneMoves
  <1> QED BY <1>1, <1>2, <1>3, <1>4

LEMMA TruthStepReceive ==
    ASSUME TypeInv, TypeInv', TruthInv, NEW r \in Request, NEW q \in Posts,
           Receive(r, q)
    PROVE  TruthInv' /\ Grows
  <1> USE DEF tables, store, web, setting, bounds
  <1>1. /\ post[r] = None /\ post' = [post EXCEPT ![r] = q]
        /\ UNCHANGED <<row, fact, ever, handed, context, granted, revocations, failures>>
    BY DEF Receive
  <1>2. post \in [Request -> Posts \cup {None}] /\ q # None
    BY OutboxAssumption DEF TypeInv, TypeOK
  <1>3. Grows
    BY <1>1, <1>2, Counts DEF Grows
  <1>4. FactsTrue' /\ Consented'
    BY <1>1, <1>3, FactsStay DEF TruthInv, Consented
  <1>5. CASE q.fault # "none"
    <2>1. UNCHANGED task
      BY <1>5 DEF Receive
    <2> QED BY <1>3, <1>4, <2>1, NoneMoves
  <1>6. CASE q.fault = "none"
    <2>1. /\ task'[r].at = "look" /\ task'[r].entry = q.entry
          /\ task'[r].payload = q.payload
          /\ \A p \in Process : p # r => task'[p] = task[p]
      BY <1>6, Counts DEF Receive, Idle
    <2>2. Carried(r)' /\ ReadTrue(r)' /\ VerdictTrue(r)'
      BY <1>1, <1>2, <1>6, <2>1 DEF Carried, ReadTrue, VerdictTrue
    <2> QED BY <1>3, <1>4, <2>1, <2>2, Counts, OneMoves
  <1> QED BY <1>5, <1>6

LEMMA TruthStep ==
    ASSUME TypeInv, TypeInv', LeaseInv, TruthInv, [Next]_vars
    PROVE  TruthInv' /\ Grows
  <1> USE DEF tables, store, web, setting, bounds
  <1>1. ASSUME NEW w \in Worker, Crash(w) PROVE TruthInv' /\ Grows
    <2>1. UNCHANGED <<row, fact, ever, handed, post, context, granted, revocations, failures>>
      BY <1>1 DEF Crash
    <2>2. Grows
      BY <2>1, PlainGrows, Counts
    <2>3. FactsTrue' /\ Consented'
      BY <2>1, <2>2, FactsStay DEF TruthInv, Consented
    <2> QED BY <1>1, <2>2, <2>3, Counts, IdleTrue, OneMoves DEF Crash
  <1>2. ASSUME NEW r \in Request, Respond(r) \/ Throw(r) PROVE TruthInv' /\ Grows
    <2>1. UNCHANGED <<row, fact, ever, handed, post, context, granted, revocations, failures>>
      BY <1>2 DEF Respond, Throw
    <2>2. Grows
      BY <2>1, PlainGrows, Counts
    <2>3. FactsTrue' /\ Consented'
      BY <2>1, <2>2, FactsStay DEF TruthInv, Consented
    <2> QED BY <1>2, <2>2, <2>3, Counts, IdleTrue, OneMoves DEF Respond, Throw
  <1>3. CASE Revoke
    <2>1. Grows
      BY <1>3, PlainGrows, Counts DEF Revoke
    <2> QED BY <1>3, <2>1, FactsStay, NoneMoves, Counts
          DEF Revoke, TruthInv, Consented
  <1>4. CASE Grant
    <2>1. Grows
      BY <1>4, PlainGrows, Counts DEF Grant
    <2> QED BY <1>4, <2>1, FactsStay, NoneMoves DEF Grant, TruthInv, Consented
  <1>5. CASE Redeploy
    <2>1. Grows
      BY <1>5, Counts DEF Redeploy, Grows
    <2> QED BY <1>5, <2>1, FactsStay, NoneMoves DEF Redeploy, TruthInv, Consented
  <1>6. ASSUME NEW e \in Entry, Purge(e) PROVE TruthInv' /\ Grows
    <2>1. Grows
      BY <1>6, PlainGrows, Counts DEF Purge
    <2>2. \A f \in Entry : fact'[f] \in {fact[f], None}
      BY <1>6, Counts DEF Purge
    <2>3. FactsTrue'
      BY <1>6, <2>1, <2>2, FactsStay DEF Purge, TruthInv
    <2> QED BY <1>6, <2>1, <2>3, NoneMoves DEF Purge, TruthInv, Consented
  <1>7. CASE UNCHANGED vars
    <2>1. Grows
      BY <1>7, PlainGrows, Counts DEF vars
    <2> QED BY <1>7, <2>1, FactsStay, NoneMoves DEF vars, TruthInv, Consented
  <1>8. CASE Elsewhere
    BY <1>1, <1>2, <1>3, <1>4, <1>5, <1>6, <1>7, <1>8, TruthStepLook, TruthStepBuild,
       TruthStepAccept, TruthStepAcceptFails, TruthStepReceive, TruthStepWrite
       DEF Elsewhere
  <1> QED BY <1>8, AllSteps, TruthStepRows

(* The inductive invariant. *)
IInv == TypeInv /\ LeaseInv /\ TruthInv

LEMMA Inductive == IInv /\ [Next]_vars => IInv' /\ Grows
  <1> SUFFICES ASSUME IInv, [Next]_vars PROVE IInv' /\ Grows
    OBVIOUS
  <1>1. TypeInv /\ LeaseInv /\ TruthInv
    BY DEF IInv
  <1>2. TypeInv'
    BY <1>1, TypeStep
  <1>3. LeaseInv'
    BY <1>1, LeaseStep
  <1> QED BY <1>1, <1>2, <1>3, TruthStep DEF IInv

LEMMA InvariantHolds == Spec => []IInv
  <1>1. Init => IInv
    BY TypeInit, LeaseInit, TruthInit DEF IInv
  <1> QED BY <1>1, Inductive, PTL DEF Spec

(***************************************************************************)
(* The answers of the server collector                                     *)
(***************************************************************************)

AnswerTrue(r) ==
    LET q == post[r] IN
    /\ q = None => response[r] = 0
    /\ response[r] = 202 =>
         q.fault = "none" /\ \E c \in Taken(q.entry) : c.payload = q.payload
    /\ response[r] = 409 =>
         \E c \in Taken(q.entry) : c.payload # q.payload \/ context > 0
    /\ response[r] = 403 => q.fault = "forged" \/ revocations > 0
    /\ response[r] = 400 =>
         q.fault \in {"malformed", "foreign"} \/ q.payload \notin Registered
    /\ response[r] = 503 => failures > 0

(* A 202 or a 409 is for a post that got past its record. *)
AnswerFromRecord(r) ==
    response[r] \in {202, 409} => post[r] # None /\ post[r].entry \in Entry

AnswersInv == \A r \in Request : AnswerTrue(r) /\ AnswerFromRecord(r)

LEMMA AnswerStays ==
    ASSUME TypeInv, TypeInv', Grows, NEW r \in Request,
           AnswerTrue(r), AnswerFromRecord(r),
           response'[r] = response[r], post'[r] = post[r]
    PROVE  AnswerTrue(r)' /\ AnswerFromRecord(r)'
  <1>1. /\ context \in Nat /\ context' \in Nat /\ context <= context'
        /\ revocations \in Nat /\ revocations' \in Nat /\ revocations <= revocations'
        /\ failures \in Nat /\ failures' \in Nat /\ failures <= failures'
    BY DEF TypeInv, TypeOK, Context, Grows
  <1>2. response[r] \in {202, 409} =>
          Taken(post[r].entry) \subseteq Taken(post[r].entry)'
    <2> SUFFICES ASSUME response[r] \in {202, 409}
                 PROVE  Taken(post[r].entry) \subseteq Taken(post[r].entry)'
      OBVIOUS
    <2>1. post[r].entry \in Entry
      BY DEF AnswerFromRecord
    <2> QED BY <2>1, TakenGrows
  <1>3. AnswerFromRecord(r)'
    BY DEF AnswerFromRecord
  <1>4. response[r] = 202 => \E c \in Taken(post[r].entry)' : c.payload = post[r].payload
    BY <1>2 DEF AnswerTrue
  <1>5. response[r] = 409 =>
          \E c \in Taken(post[r].entry)' : c.payload # post[r].payload \/ context' > 0
    BY <1>1, <1>2 DEF AnswerTrue
  <1>6. /\ response[r] = 202 => post[r].fault = "none"
        /\ post[r] = None => response[r] = 0
        /\ response[r] = 403 => post[r].fault = "forged" \/ revocations' > 0
        /\ response[r] = 400 => \/ post[r].fault \in {"malformed", "foreign"}
                                \/ post[r].payload \notin Registered
        /\ response[r] = 503 => failures' > 0
    BY <1>1 DEF AnswerTrue
  <1> QED BY <1>3, <1>4, <1>5, <1>6 DEF AnswerTrue

(* The answer to a post whose processing has ended. *)
LEMMA AnswerGiven ==
    ASSUME IInv, NEW r \in Request, Respond(r)
    PROVE  AnswerTrue(r)' /\ AnswerFromRecord(r)'
  <1> USE DEF tables, store, web, setting, bounds
  <1> DEFINE v == task[r].verdict
  <1>1. /\ task[r].at = "settle" /\ response' = [response EXCEPT ![r] = StatusFor(v)]
        /\ UNCHANGED <<post, handed, ever, context, revocations, failures>>
    BY DEF Respond
  <1>2. /\ v \in Verdict /\ task[r].entry \in Entry
        /\ r \notin Worker /\ response \in [Request -> Code]
    BY <1>1, Counts, OutboxAssumption DEF IInv, TaskTyped, TypeInv, TypeOK
  <1>3. /\ post[r] # None /\ post[r].fault = "none"
        /\ post[r].entry = task[r].entry /\ post[r].payload = task[r].payload
    BY <1>1, Counts DEF IInv, TruthInv, Carried
  <1>4. Source(r) = Taken(post[r].entry)
    BY <1>2, <1>3 DEF Source
  <1>5. /\ v \in {"new", "duplicate"} =>
             \E c \in Taken(post[r].entry) : c.payload = post[r].payload
        /\ v = "conflict" =>
             \E c \in Taken(post[r].entry) : c.payload # post[r].payload \/ context > 0
        /\ v = "unregistered" => post[r].payload \notin Registered
        /\ v = "denied" => revocations > 0
        /\ v = "storage-error" => failures > 0
    <2>1. VerdictTrue(r)
      BY Counts DEF IInv, TruthInv
    <2> QED BY <1>1, <1>3, <1>4, <2>1 DEF VerdictTrue
  <1>6. /\ StatusFor(v) = 202 => v \in {"new", "duplicate"}
        /\ StatusFor(v) = 409 => v = "conflict"
        /\ StatusFor(v) = 400 => v = "unregistered"
        /\ StatusFor(v) = 403 => v = "denied"
        /\ StatusFor(v) = 503 => v = "storage-error"
    BY <1>2 DEF StatusFor, Verdict
  <1>7. response'[r] = StatusFor(v) /\ post'[r] = post[r]
    BY <1>1, <1>2
  <1>8. Taken(post[r].entry)' = Taken(post[r].entry)
    BY <1>1 DEF Taken
  <1> HIDE DEF v
  <1>9. AnswerFromRecord(r)'
    BY <1>2, <1>3, <1>7 DEF AnswerFromRecord
  <1>10. AnswerTrue(r)'
    BY <1>1, <1>3, <1>5, <1>6, <1>7, <1>8 DEF AnswerTrue
  <1> QED BY <1>9, <1>10

LEMMA AnswersStep ==
    ASSUME IInv, IInv', Grows, AnswersInv, [Next]_vars
    PROVE  AnswersInv'
  <1> USE DEF tables, store, web, setting, bounds
  <1>types. /\ response \in [Request -> Code] /\ post \in [Request -> Posts \cup {None}]
            /\ TypeInv /\ TypeInv' /\ Request \subseteq Process
    BY DEF IInv, TypeInv, TypeOK, Process
  <1>1. CASE UNCHANGED <<response, post>>
    BY <1>1, <1>types, AnswerStays DEF AnswersInv
  <1>2. ASSUME NEW r \in Request, NEW q \in Posts, Receive(r, q) PROVE AnswersInv'
    <2>1. /\ post[r] = None /\ post'[r] = q /\ q # None /\ q.entry \in Entry
          /\ \A s \in Request : s # r => post'[s] = post[s] /\ response'[s] = response[s]
      BY <1>2, <1>types, OutboxAssumption DEF Receive
    <2>2. response[r] = 0
      BY <2>1 DEF AnswersInv, AnswerTrue
    <2>3. CASE q.fault = "none"
      <3>1. response'[r] = 0
        BY <1>2, <2>2, <2>3 DEF Receive
      <3>2. AnswerTrue(r)' /\ AnswerFromRecord(r)'
        BY <2>1, <3>1 DEF AnswerTrue, AnswerFromRecord
      <3> QED BY <1>types, <2>1, <3>2, AnswerStays DEF AnswersInv
    <2>4. CASE q.fault # "none"
      <3>1. response'[r] = RefusalCode(q.fault) /\ q.fault \in Refusal
        BY <1>2, <1>types, <2>4, OutboxAssumption DEF Receive
      <3>2. /\ RefusalCode(q.fault) \in {400, 401, 403, 413}
            /\ RefusalCode(q.fault) = 403 => q.fault = "forged"
            /\ RefusalCode(q.fault) = 400 => q.fault \in {"malformed", "foreign"}
        BY <3>1 DEF RefusalCode, Refusal
      <3>3. AnswerTrue(r)' /\ AnswerFromRecord(r)'
        BY <2>1, <3>1, <3>2 DEF AnswerTrue, AnswerFromRecord
      <3> QED BY <1>types, <2>1, <3>3, AnswerStays DEF AnswersInv
    <2> QED BY <2>3, <2>4
  <1>3. ASSUME NEW r \in Request, Respond(r) PROVE AnswersInv'
    <2>1. \A s \in Request : s # r => post'[s] = post[s] /\ response'[s] = response[s]
      BY <1>3, <1>types DEF Respond
    <2> QED BY <1>3, <1>types, <2>1, AnswerStays, AnswerGiven DEF AnswersInv
  <1>4. ASSUME NEW r \in Request, Throw(r) PROVE AnswersInv'
    <2>1. /\ response'[r] = 500 /\ post' = post
          /\ \A s \in Request : s # r => response'[s] = response[s]
      BY <1>4, <1>types DEF Throw
    <2>2. post[r] # None
      BY <1>4, <1>types DEF Throw, IInv, TruthInv, Carried
    <2>3. AnswerTrue(r)' /\ AnswerFromRecord(r)'
      BY <2>1, <2>2 DEF AnswerTrue, AnswerFromRecord
    <2> QED BY <1>types, <2>1, <2>3, AnswerStays DEF AnswersInv
  <1>5. CASE Elsewhere
    <2>1. \/ UNCHANGED <<response, post>>
          \/ \E r \in Request :
               (\E q \in Posts : Receive(r, q)) \/ Respond(r) \/ Throw(r)
      BY <1>5 DEF Elsewhere, Look, Build, AcceptBatch, AcceptBatchFails, Crash, Write,
         WriteFails, Revoke, Grant, Redeploy, Purge, vars
    <2> QED BY <1>1, <1>2, <1>3, <1>4, <2>1
  <1>6. CASE ~Elsewhere
    BY <1>1, <1>6, AllSteps
       DEF CreateJobWithOutboxEntry, ClaimNext, Publish, Fail, Quarantine, Report,
           LeaseEnds
  <1> QED BY <1>5, <1>6

(* The status code says what has happened to the record. *)
THEOREM AnswersAreTrue == Spec => []AnswersTrue
  <1>1. Init => AnswersInv
    BY DEF Init, AnswersInv, AnswerTrue, AnswerFromRecord
  <1>2. IInv /\ AnswersInv /\ [Next]_vars => AnswersInv'
    BY Inductive, AnswersStep
  <1>3. AnswersInv => AnswersTrue
    BY DEF AnswersInv, AnswerTrue, AnswersTrue
  <1> QED BY <1>1, <1>2, <1>3, InvariantHolds, PTL DEF Spec

(***************************************************************************)
(* Quarantine                                                              *)
(***************************************************************************)

QuarantineDeserved(e) ==
    row[e].status = "quarantined" =>
        \/ row[e].payload \notin Registered
        \/ revocations > 0
        \/ context > 0
        \/ Contested(e)

LEMMA QuarantineStays ==
    ASSUME IInv, IInv', Grows, NEW e \in Entry, QuarantineDeserved(e),
           row'[e].status = row[e].status \/ row'[e].status # "quarantined"
    PROVE  QuarantineDeserved(e)'
  <1> SUFFICES ASSUME row'[e].status = "quarantined", row[e].status = "quarantined"
               PROVE  \/ row'[e].payload \notin Registered
                      \/ revocations' > 0
                      \/ context' > 0
                      \/ Contested(e)'
    BY DEF QuarantineDeserved
  <1>1. row'[e].payload = row[e].payload
    BY DEF IInv, LeaseInv, RowsOfJobs, Grows
  <1>2. /\ context \in Nat /\ context' \in Nat /\ context <= context'
        /\ revocations \in Nat /\ revocations' \in Nat /\ revocations <= revocations'
    BY DEF IInv, TypeInv, TypeOK, Context, Grows
  <1>3. Contested(e) => Contested(e)'
    BY <1>1 DEF Contested, Grows
  <1> QED BY <1>1, <1>2, <1>3 DEF QuarantineDeserved

LEMMA QuarantineStep ==
    ASSUME IInv, IInv', Grows, NEW w \in Worker, Quarantine(w),
           NEW e0 \in Entry, task[w].entry = e0
    PROVE  QuarantineDeserved(e0)'
  <1> USE DEF tables, store, web, setting, bounds
  <1>1. /\ task[w].at = "settle"
        /\ task[w].verdict \in {"conflict", "unregistered", "denied"}
        /\ row' = [row EXCEPT ![e0].status = "quarantined", ![e0].lease = row[e0].lease]
        /\ UNCHANGED <<post, context, revocations>>
    BY DEF Quarantine, Deliver, Report
  <1>2. /\ e0 \in Entry /\ JobExists(e0) /\ task[w].payload = row[e0].payload
        /\ VerdictTrue(w) /\ FactsTrue /\ Source(w) = ever[e0]
        /\ row \in [Entry -> Row]
    BY <1>1, Counts
       DEF IInv, TaskTyped, LeaseInv, DeliversItsRow, TruthInv, Source
  <1>3. row'[e0].payload = row[e0].payload
    BY <1>1, <1>2 DEF Row
  <1>4. CASE task[w].verdict = "unregistered"
    BY <1>1, <1>2, <1>3, <1>4 DEF VerdictTrue, QuarantineDeserved
  <1>5. CASE task[w].verdict = "denied"
    BY <1>1, <1>2, <1>5 DEF VerdictTrue, QuarantineDeserved
  <1>6. CASE task[w].verdict = "conflict"
    <2>1. PICK c \in ever[e0] : c.payload # row[e0].payload \/ context > 0
      BY <1>1, <1>2, <1>6 DEF VerdictTrue
    <2>2. CASE context > 0
      BY <1>1, <2>2 DEF QuarantineDeserved
    <2>3. CASE c.payload # row[e0].payload
      <3>1. c.payload \in Asked(e0)
        BY <1>2, <2>3 DEF FactsTrue, Wanted
      <3>2. PICK r \in Request : /\ post[r] # None /\ post[r].fault = "none"
                                 /\ post[r].entry = e0 /\ post[r].payload = c.payload
        BY <3>1 DEF Asked
      <3>3. Contested(e0)'
        BY <1>1, <1>3, <2>3, <3>2 DEF Contested
      <3> QED BY <3>3 DEF QuarantineDeserved
    <2> QED BY <2>1, <2>2, <2>3
  <1> QED BY <1>1, <1>4, <1>5, <1>6

(* No crash, storage error, late worker or repeated delivery puts a good   *)
(* entry into quarantine.                                                  *)
THEOREM OnlyBadEntriesQuarantined == Spec => []NoFalseQuarantine
  <1> DEFINE Q == \A e \in Entry : QuarantineDeserved(e)
  <1>1. Init => Q
    BY DEF Init, NoRow, QuarantineDeserved
  <1>2. ASSUME IInv, Q, [Next]_vars PROVE Q'
    <2>1. IInv' /\ Grows
      BY <1>2, Inductive
    <2>2. TypeInv /\ row \in [Entry -> Row]
      BY <1>2, Counts DEF IInv
    <2>3. \A e \in Entry : \/ row'[e].status = row[e].status
                           \/ row'[e].status # "quarantined"
                           \/ \E w \in Worker : Quarantine(w) /\ task[w].entry = e
      <3>1. CASE Elsewhere
        BY <2>2, <3>1, ElsewhereQuiet
      <3>2. ASSUME NEW j \in Jobs, CreateJobWithOutboxEntry(j.entry, j.payload),
                   NEW e \in Entry
            PROVE  row'[e].status \in {row[e].status, "pending"}
        BY <2>2, <3>2, OutboxAssumption DEF CreateJobWithOutboxEntry, NoRow, Row
      <3>3. ASSUME NEW w \in Worker, ClaimNext(w), NEW e \in Entry
            PROVE  row'[e].status \in {row[e].status, "processing"}
        <4>1. \A i \in DOMAIN outbox : outbox[i] \in Entry
          BY <2>2 DEF TypeInv, TypeOK
        <4>2. PICK f \in Entry :
                row' = [row EXCEPT ![f].status = "processing", ![f].lease = w]
          BY <3>3, <4>1 DEF ClaimNext
        <4> QED BY <2>2, <4>2 DEF Row
      <3>4. ASSUME NEW w \in Worker, Publish(w) \/ Fail(w), NEW e \in Entry
            PROVE  row'[e].status \in {row[e].status, "published", "failed"}
        BY <2>2, <3>4 DEF Publish, Fail, Report, Row
      <3>5. ASSUME NEW w \in Worker, Quarantine(w), NEW e \in Entry
            PROVE  e = task[w].entry \/ row'[e].status = row[e].status
        BY <2>2, <3>5 DEF Quarantine, Report, Row
      <3>6. ASSUME NEW f \in Entry, LeaseEnds(f), NEW e \in Entry
            PROVE  row'[e].status = row[e].status
        BY <2>2, <3>6 DEF LeaseEnds, Row
      <3> QED BY <1>2, <3>1, <3>2, <3>3, <3>4, <3>5, <3>6, AllSteps
    <2> QED BY <1>2, <2>1, <2>3, QuarantineStays, QuarantineStep
  <1>3. Q => NoFalseQuarantine
    BY DEF QuarantineDeserved, NoFalseQuarantine
  <1> QED BY <1>1, <1>2, <1>3, InvariantHolds, PTL DEF Spec

(***************************************************************************)
(* Refinement                                                              *)
(***************************************************************************)

JobOf == [e \in Entry |-> row[e].payload]
WantedOf == [e \in Entry |-> Wanted(e)]
Told == {e \in Entry : row[e].status = "published"}

PromiseVars == <<JobOf, WantedOf, fact, ever, Told>>

LEMMA PromiseVarsIs == UNCHANGED PromiseVars => UNCHANGED Promise!vars
  BY DEF PromiseVars, JobOf, WantedOf, Told, Wanted, Promise!vars

(* Steps that the outbox does not promise anything about. *)
LEMMA Invisible ==
    ASSUME TypeInv, UNCHANGED <<post, fact, ever>>,
           \A e \in Entry :
               /\ row'[e].payload = row[e].payload
               /\ row'[e].status = "published" <=> row[e].status = "published"
    PROVE  UNCHANGED Promise!vars
  <1>1. \A e \in Entry : Wanted(e)' = Wanted(e)
    BY DEF Wanted, Asked
  <1>2. JobOf' = JobOf /\ WantedOf' = WantedOf /\ Told' = Told
    BY <1>1 DEF JobOf, WantedOf, Told
  <1> QED BY <1>2, PromiseVarsIs DEF PromiseVars

(* A process stores what was asked for, or nothing. *)
LEMMA StoringSimulated ==
    ASSUME IInv, NEW p \in Process, task[p].at = "accept", Stored(p),
           UNCHANGED <<row, post>>
    PROVE  [Promise!Next]_(Promise!vars)
  <1> DEFINE e0 == task[p].entry
  <1>1. /\ e0 \in Entry /\ task[p].read \in Content
        /\ task[p].read.payload \in Wanted(e0)
    BY AcceptedWanted DEF IInv
  <1>2. CASE fact[e0] = None
    <2>1. /\ fact' = [fact EXCEPT ![e0] = task[p].read]
          /\ ever' = [ever EXCEPT ![e0] = @ \cup {task[p].read}]
      BY <1>2 DEF Stored
    <2>2. UNCHANGED <<JobOf, WantedOf, Told>>
      BY DEF JobOf, WantedOf, Told, Wanted, Asked
    <2>3. task[p].read.payload \in WantedOf[e0]
      BY <1>1 DEF WantedOf
    <2>4. Promise!Store(e0, task[p].read)
      BY <1>2, <2>1, <2>2, <2>3 DEF Promise!Store, JobOf, WantedOf, Told, Wanted
    <2>5. task[p].read \in Promise!Content
      BY <1>1 DEF Promise!Content, Content
    <2> QED BY <1>1, <2>4, <2>5 DEF Promise!Next
  <1>3. CASE fact[e0] # None
    <2>1. UNCHANGED <<fact, ever>>
      BY <1>3 DEF Stored
    <2> QED BY <2>1, Invisible DEF IInv
  <1> QED BY <1>2, <1>3

LEMMA ReceiveSimulated ==
    ASSUME IInv, NEW r \in Request, NEW q \in Posts, Receive(r, q)
    PROVE  [Promise!Next]_(Promise!vars)
  <1> USE DEF tables, store, web, setting, bounds
  <1>1. /\ post[r] = None /\ post' = [post EXCEPT ![r] = q]
        /\ UNCHANGED <<row, fact, ever>>
    BY DEF Receive
  <1>2. /\ post \in [Request -> Posts \cup {None}] /\ q # None
        /\ q.entry \in Entry /\ q.payload \in Payload
    BY OutboxAssumption DEF IInv, TypeInv, TypeOK
  <1>3. \A s \in Request : s # r => post'[s] = post[s]
    BY <1>1, <1>2
  <1>4. post'[r] = q
    BY <1>1, <1>2
  <1>5. CASE q.fault # "none"
    <2>1. ASSUME NEW e \in Entry PROVE Asked(e)' = Asked(e)
      <3>1. {s \in Request : post'[s] # None /\ post'[s].fault = "none"
                                             /\ post'[s].entry = e}
              = {s \in Request : post[s] # None /\ post[s].fault = "none"
                                                /\ post[s].entry = e}
        BY <1>1, <1>3, <1>4, <1>5
      <3>2. \A s \in Request : post[s] # None => post'[s] = post[s]
        BY <1>1, <1>3
      <3> QED BY <3>1, <3>2 DEF Asked
    <2>2. UNCHANGED PromiseVars
      BY <1>1, <2>1 DEF PromiseVars, JobOf, WantedOf, Told, Wanted
    <2> QED BY <2>2, PromiseVarsIs
  <1>6. CASE q.fault = "none"
    <2>1. \A e \in Entry : e # q.entry => Asked(e)' = Asked(e)
      <3> TAKE e \in Entry
      <3> HAVE e # q.entry
      <3>1. {s \in Request : post'[s] # None /\ post'[s].fault = "none"
                                             /\ post'[s].entry = e}
              = {s \in Request : post[s] # None /\ post[s].fault = "none"
                                                /\ post[s].entry = e}
        BY <1>1, <1>3, <1>4
      <3>2. \A s \in Request : post[s] # None => post'[s] = post[s]
        BY <1>1, <1>3
      <3> QED BY <3>1, <3>2 DEF Asked
    <2>2. Asked(q.entry)' = Asked(q.entry) \cup {q.payload}
      <3>1. Asked(q.entry)' \subseteq Asked(q.entry) \cup {q.payload}
        BY <1>3, <1>4 DEF Asked
      <3>2. Asked(q.entry) \subseteq Asked(q.entry)'
        <4> SUFFICES ASSUME NEW s \in Request, post[s] # None,
                            post[s].fault = "none", post[s].entry = q.entry
                     PROVE  post[s].payload \in Asked(q.entry)'
          BY DEF Asked
        <4>1. post'[s] = post[s]
          BY <1>1, <1>3
        <4> QED BY <4>1 DEF Asked
      <3>3. q.payload \in Asked(q.entry)'
        BY <1>2, <1>4, <1>6 DEF Asked
      <3> QED BY <3>1, <3>2, <3>3
    <2>3. WantedOf' = [WantedOf EXCEPT ![q.entry] = @ \cup {q.payload}]
      <3>1. Wanted(q.entry)' = Wanted(q.entry) \cup {q.payload}
        BY <1>1, <2>2 DEF Wanted
      <3>2. \A e \in Entry : e # q.entry => Wanted(e)' = Wanted(e)
        BY <1>1, <2>1 DEF Wanted
      <3> QED BY <1>2, <3>1, <3>2 DEF WantedOf
    <2>4. UNCHANGED <<JobOf, Told>>
      BY <1>1 DEF JobOf, Told
    <2>5. Promise!Ask(q.entry, q.payload)
      BY <1>1, <2>3, <2>4 DEF Promise!Ask, JobOf, Told, WantedOf, Wanted
    <2> QED BY <1>2, <2>5 DEF Promise!Next
  <1> QED BY <1>5, <1>6

LEMMA CreateSimulated ==
    ASSUME IInv, NEW j \in Jobs, CreateJobWithOutboxEntry(j.entry, j.payload)
    PROVE  [Promise!Next]_(Promise!vars)
  <1> USE DEF store, web
  <1>1. j.entry \in Entry /\ j.payload \in Payload /\ j.payload # NoPayload
    BY OutboxAssumption
  <1>2. /\ row[j.entry].payload = NoPayload /\ row[j.entry].status = "pending"
        /\ UNCHANGED <<post, fact, ever>>
    BY <1>1 DEF CreateJobWithOutboxEntry, JobExists, IInv, LeaseInv, RowsOfJobs
  <1>3. /\ row'[j.entry].payload = j.payload /\ row'[j.entry].status = "pending"
        /\ \A e \in Entry : e # j.entry => row'[e] = row[e]
    BY <1>1, Counts DEF IInv, CreateJobWithOutboxEntry, NoRow
  <1>4. JobOf' = [JobOf EXCEPT ![j.entry] = j.payload] /\ JobOf[j.entry] = NoPayload
    BY <1>1, <1>2, <1>3 DEF JobOf
  <1>5. WantedOf' = [WantedOf EXCEPT ![j.entry] = @ \cup {j.payload}]
    <2>1. \A e \in Entry : Asked(e)' = Asked(e)
      BY <1>2 DEF Asked
    <2>2. Wanted(j.entry)' = Wanted(j.entry) \cup {j.payload}
      BY <1>1, <1>2, <1>3, <2>1 DEF Wanted
    <2>3. \A e \in Entry : e # j.entry => Wanted(e)' = Wanted(e)
      BY <1>3, <2>1 DEF Wanted
    <2> QED BY <1>1, <2>2, <2>3 DEF WantedOf
  <1>6. Told' = Told
    BY <1>2, <1>3 DEF Told
  <1>7. Promise!Commit(j.entry, j.payload)
    BY <1>2, <1>4, <1>5, <1>6 DEF Promise!Commit, JobOf, WantedOf, Told, Wanted
  <1> QED BY <1>1, <1>7 DEF Promise!Next

LEMMA ReportSimulated ==
    ASSUME IInv, NEW w \in Worker, Publish(w) \/ Fail(w) \/ Quarantine(w),
           NEW e0 \in Entry, task[w].entry = e0
    PROVE  [Promise!Next]_(Promise!vars)
  <1> USE DEF store, web
  <1>1. /\ task[w].at = "settle" /\ e0 \in Entry /\ row \in [Entry -> Row]
        /\ task[w].payload = row[e0].payload /\ VerdictTrue(w)
        /\ Source(w) = ever[e0]
    BY Counts
       DEF Publish, Fail, Quarantine, Deliver, IInv, TaskTyped, LeaseInv,
           DeliversItsRow, TruthInv, Source
  <1>2. PICK s, l : Report(w, s, l)
    BY DEF Publish, Fail, Quarantine
  <1>3. /\ UNCHANGED <<post, fact, ever>>
        /\ \A e \in Entry : row'[e].payload = row[e].payload
        /\ \A e \in Entry : e # e0 => row'[e] = row[e]
    BY <1>1, <1>2 DEF Report, Row
  <1>4. UNCHANGED <<JobOf, WantedOf>>
    BY <1>3 DEF JobOf, WantedOf, Wanted, Asked
  <1>5. CASE Publish(w)
    <2>1. \E c \in ever[e0] : c.payload = JobOf[e0]
      BY <1>1, <1>5 DEF Publish, Deliver, VerdictTrue, JobOf
    <2>2. row'[e0].status = "published"
      BY <1>1, <1>5 DEF Publish, Report, Row
    <2>3. Told' = Told \cup {e0}
      BY <1>1, <1>3, <2>2 DEF Told
    <2>4. Promise!Acknowledge(e0)
      BY <1>3, <1>4, <2>1, <2>3 DEF Promise!Acknowledge, JobOf, WantedOf, Told, Wanted
    <2> QED BY <1>1, <2>4 DEF Promise!Next
  <1>6. CASE Fail(w) \/ Quarantine(w)
    <2>1. row'[e0].status # "published"
      BY <1>1, <1>6 DEF Fail, Quarantine, Report, Row
    <2>2. Told' = Told \ {e0}
      BY <1>1, <1>3, <2>1 DEF Told
    <2>3. Promise!Retract(e0)
      BY <1>3, <1>4, <2>2 DEF Promise!Retract, JobOf, WantedOf, Told, Wanted
    <2> QED BY <1>1, <2>3 DEF Promise!Next
  <1> QED BY <1>5, <1>6

LEMMA StepSimulated ==
    ASSUME IInv, [Next]_vars
    PROVE  [Promise!Next]_(Promise!vars)
  <1> USE DEF tables, store, web, setting, bounds
  <1>types. TypeInv /\ row \in [Entry -> Row]
    BY Counts DEF IInv
  <1>1. CASE UNCHANGED <<row, post, fact, ever>>
    BY <1>1, <1>types, Invisible
  <1>2. ASSUME NEW p \in Process, AcceptBatch(p) \/ AcceptBatchFails(p)
        PROVE  [Promise!Next]_(Promise!vars)
    BY <1>1, <1>2, StoringSimulated DEF AcceptBatch, AcceptBatchFails
  <1>3. ASSUME NEW e \in Entry, Purge(e) PROVE [Promise!Next]_(Promise!vars)
    <2>1. UNCHANGED <<JobOf, WantedOf, Told>>
      BY <1>3 DEF Purge, JobOf, WantedOf, Told, Wanted, Asked
    <2>2. Promise!Forget(e)
      BY <1>3, <2>1 DEF Purge, Promise!Forget, JobOf, WantedOf, Told, Wanted
    <2> QED BY <2>2 DEF Promise!Next
  <1>4. ASSUME NEW w \in Worker, ClaimNext(w) PROVE [Promise!Next]_(Promise!vars)
    <2>1. \A i \in DOMAIN outbox : outbox[i] \in Entry
      BY <1>types DEF TypeInv, TypeOK
    <2>2. PICK e \in Entry :
            /\ row[e].status \notin Settled
            /\ row' = [row EXCEPT ![e].status = "processing", ![e].lease = w]
      BY <1>4, <2>1 DEF ClaimNext, Claimable
    <2>3. \A f \in Entry :
            /\ row'[f].payload = row[f].payload
            /\ row'[f].status = "published" <=> row[f].status = "published"
      BY <1>types, <2>2 DEF Row, Settled
    <2> QED BY <1>4, <1>types, <2>3, Invisible DEF ClaimNext
  <1>5. ASSUME NEW e \in Entry, LeaseEnds(e) PROVE [Promise!Next]_(Promise!vars)
    <2>1. \A f \in Entry : /\ row'[f].payload = row[f].payload
                           /\ row'[f].status = row[f].status
      BY <1>5, <1>types DEF LeaseEnds, Row
    <2> QED BY <1>5, <1>types, <2>1, Invisible DEF LeaseEnds
  <1>6. CASE Elsewhere
    <2>1. \/ UNCHANGED <<row, post, fact, ever>>
          \/ \E p \in Process : AcceptBatch(p) \/ AcceptBatchFails(p)
          \/ \E r \in Request, q \in Posts : Receive(r, q)
          \/ \E e \in Entry : Purge(e)
      BY <1>6 DEF Elsewhere, Look, Build, Crash, Write, WriteFails, Respond, Throw,
         Revoke, Grant, Redeploy, vars
    <2> QED BY <1>1, <1>2, <1>3, <2>1, ReceiveSimulated
  <1>7. ASSUME NEW w \in Worker, Publish(w) \/ Fail(w) \/ Quarantine(w)
        PROVE  [Promise!Next]_(Promise!vars)
    <2>1. task[w].entry \in Entry
      BY <1>7, Counts
         DEF Publish, Fail, Quarantine, Deliver, IInv, TaskTyped
    <2> QED BY <1>7, <2>1, ReportSimulated
  <1> QED BY <1>4, <1>5, <1>6, <1>7, AllSteps, CreateSimulated

LEMMA InitSimulated == Init => Promise!Init
  <1> SUFFICES ASSUME Init PROVE Promise!Init
    OBVIOUS
  <1>1. \A e \in Entry : row[e] = NoRow /\ Asked(e) = {}
    BY DEF Init, Asked
  <1>2. \A e \in Entry : row[e].payload = NoPayload /\ row[e].status = "pending"
    BY <1>1 DEF NoRow
  <1> QED BY <1>1, <1>2 DEF Init, Promise!Init

(* Nothing is stored that nobody asked for, nothing stored is replaced,    *)
(* and an entry is acknowledged only when its own record has been stored.  *)
THEOREM OutboxKeepsItsPromise == Spec => ImplementsTransactionalOutbox
  <1>1. IInv /\ [Next]_vars => [Promise!Next]_(Promise!vars)
    BY StepSimulated
  <1> QED BY <1>1, InitSimulated, InvariantHolds, PTL
        DEF Spec, ImplementsTransactionalOutbox, Promise!Spec

=============================================================================
