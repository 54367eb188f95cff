-------------------------- MODULE EventQueueProofs --------------------------
(***************************************************************************)
(* Lemmas about the operators of EventQueue: what the closed forms of the  *)
(* queue methods keep, drop and bound, for queues of any length, and the   *)
(* proof that they are the loops of the source.                            *)
(***************************************************************************)
EXTENDS EventQueueLoops, FiniteSetTheorems, SequenceTheorems, WellFoundedInduction,
        TLAPS

(* How many members of I are no larger than i. *)
Rank(I, i) == Cardinality({j \in I : j <= i})

LEMMA RankProperties ==
    ASSUME NEW I \in SUBSET Nat, IsFiniteSet(I)
    PROVE  /\ \A i \in I : Rank(I, i) \in 1 .. Cardinality(I)
           /\ \A i, j \in I : i < j => Rank(I, i) < Rank(I, j)
<1> DEFINE Below(i) == {j \in I : j <= i}
<1>0. \A x \in I : x \in Nat
  OBVIOUS
<1>1. \A i \in I : IsFiniteSet(Below(i)) /\ Rank(I, i) \in Nat
  BY FS_Subset, FS_CardinalityType DEF Rank
<1>2. ASSUME NEW i \in I PROVE Rank(I, i) \in 1 .. Cardinality(I)
  <2>1. Below(i) \subseteq I /\ i \in Below(i)
    OBVIOUS
  <2>2. Rank(I, i) <= Cardinality(I) /\ Cardinality(I) \in Nat
    BY <2>1, FS_Subset, FS_CardinalityType DEF Rank
  <2>3. Rank(I, i) # 0
    BY <1>1, <2>1, FS_EmptySet DEF Rank
  <2>4. Rank(I, i) \in Nat
    BY <1>1
  <2> HIDE DEF Below
  <2> QED
    BY <2>2, <2>3, <2>4
<1>3. ASSUME NEW i \in I, NEW j \in I, i < j PROVE Rank(I, i) < Rank(I, j)
  <2>0. i \in Nat /\ j \in Nat /\ i < j
    BY <1>0, <1>3
  <2>1. Below(i) \subseteq Below(j) /\ j \in Below(j) /\ j \notin Below(i)
    <3>1. ASSUME NEW x \in Below(i) PROVE x \in Below(j)
      <4>1. x \in I /\ x \in Nat /\ x <= i
        BY <1>0
      <4>2. x <= j
        BY <2>0, <4>1
      <4> QED
        BY <4>1, <4>2
    <3>2. j \in Below(j) /\ j \notin Below(i)
      BY <2>0
    <3> QED
      BY <3>1, <3>2
  <2>2. Below(i) # Below(j)
    BY <2>1
  <2>3. Cardinality(Below(i)) < Cardinality(Below(j))
    BY <1>1, <2>1, <2>2, FS_Subset, FS_CardinalityType
  <2> QED
    BY <2>3 DEF Rank
<1> QED
  BY <1>2, <1>3

(* Every rank up to the size of I is taken by exactly one member. *)
LEMMA NthProperties ==
    ASSUME NEW I \in SUBSET Nat, IsFiniteSet(I)
    PROVE  /\ \A k \in 1 .. Cardinality(I) :
                Nth(I, k) \in I /\ Rank(I, Nth(I, k)) = k
           /\ \A i \in I : Nth(I, Rank(I, i)) = i
<1> DEFINE n == Cardinality(I)
<1>n. n \in Nat
  BY FS_CardinalityType
<1>1. ASSUME NEW k \in 1 .. n PROVE \E i \in I : Rank(I, i) = k
  <2> SUFFICES ASSUME \A i \in I : Rank(I, i) # k PROVE FALSE
    OBVIOUS
  <2> DEFINE T == (1 .. n) \ {k}
             f == [i \in I |-> Rank(I, i)]
  <2>1. IsFiniteSet(1 .. n) /\ Cardinality(1 .. n) = n
    BY <1>n, FS_Interval
  <2>2. IsFiniteSet(T) /\ Cardinality(T) = n - 1
    BY <2>1, FS_RemoveElement
  <2>3. f \in [I -> T]
    BY RankProperties
  <2>4. \E i, j \in I : i # j /\ f[i] = f[j]
    <3>1. Cardinality(T) < Cardinality(I)
      BY <1>n, <2>2
    <3> HIDE DEF T, f
    <3> QED
      BY <2>2, <2>3, <3>1, FS_PigeonHole
  <2>5. PICK i \in I, j \in I : i # j /\ Rank(I, i) = Rank(I, j)
    BY <2>4
  <2>6. i \in Nat /\ j \in Nat /\ (i < j \/ j < i)
    BY <2>5
  <2>7. Rank(I, i) \in Nat /\ Rank(I, j) \in Nat
    BY RankProperties
  <2>8. Rank(I, i) < Rank(I, j) \/ Rank(I, j) < Rank(I, i)
    BY <2>6, RankProperties
  <2> QED
    BY <2>5, <2>7, <2>8
<1>2. ASSUME NEW k \in 1 .. n PROVE Nth(I, k) \in I /\ Rank(I, Nth(I, k)) = k
  BY <1>1 DEF Nth, Rank
<1>3. ASSUME NEW i \in I PROVE Nth(I, Rank(I, i)) = i
  <2>1. Rank(I, i) \in 1 .. n
    BY RankProperties
  <2> DEFINE j == Nth(I, Rank(I, i))
  <2>2. j \in I /\ Rank(I, j) = Rank(I, i)
    BY <1>2, <2>1
  <2>3. i \in Nat /\ j \in Nat
    BY <2>2
  <2>4. ~(i < j) /\ ~(j < i)
    <3>1. Rank(I, j) \in Nat /\ Rank(I, i) \in Nat
      BY <2>1, <2>2
    <3> HIDE DEF j
    <3> QED
      BY <2>2, <3>1, RankProperties
  <2> QED
    BY <2>3, <2>4
<1> QED
  BY <1>2, <1>3

LEMMA EntryOf ==
    ASSUME NEW q \in Seq(Entry), NEW i \in DOMAIN q
    PROVE  q[i] \in Entry /\ q[i].id \in Event /\ q[i].attempt \in Nat
<1>1. q[i] \in Entry
  <2>1. DOMAIN q = 1 .. Len(q)
    OBVIOUS
  <2> QED
    BY <2>1, ElementOfSeq
<1> QED
  BY <1>1 DEF Entry

(* At(q, I) lists the entries of q at the positions I: all of them, none   *)
(* twice, and nothing else.                                                *)
LEMMA AtProperties ==
    ASSUME NEW T, NEW q \in Seq(T), NEW I \in SUBSET DOMAIN q
    PROVE  /\ At(q, I) \in Seq(T)
           /\ DOMAIN At(q, I) = 1 .. Cardinality(I)
           /\ \A k \in DOMAIN At(q, I) :
                Nth(I, k) \in I /\ At(q, I)[k] = q[Nth(I, k)]
           /\ \A k, l \in DOMAIN At(q, I) : Nth(I, k) = Nth(I, l) => k = l
           /\ \A i \in I : \E k \in DOMAIN At(q, I) : Nth(I, k) = i
           /\ Len(At(q, I)) = Cardinality(I)
           /\ Cardinality(I) \in Nat
           /\ Cardinality(I) <= Len(q)
<1> DEFINE n == Cardinality(I)
<1>1. Len(q) \in Nat /\ DOMAIN q = 1 .. Len(q)
  OBVIOUS
<1>2. I \in SUBSET Nat
  BY <1>1
<1>3. IsFiniteSet(I) /\ n \in Nat /\ n <= Len(q)
  <2>1. IsFiniteSet(1 .. Len(q)) /\ Cardinality(1 .. Len(q)) = Len(q)
    <3>1. 1 \in Int /\ Len(q) \in Int
      BY <1>1
    <3>2. /\ IsFiniteSet(1 .. Len(q))
          /\ Cardinality(1 .. Len(q)) = IF 1 > Len(q) THEN 0 ELSE Len(q) - 1 + 1
      BY ONLY <3>1, FS_Interval
    <3> QED
      BY <1>1, <3>2
  <2>2. I \in SUBSET (1 .. Len(q))
    BY <1>1
  <2> QED
    BY <2>1, <2>2, FS_Subset, FS_CardinalityType
<1>4. /\ \A k \in 1 .. n : Nth(I, k) \in I /\ Rank(I, Nth(I, k)) = k
      /\ \A i \in I : Nth(I, Rank(I, i)) = i
      /\ \A i \in I : Rank(I, i) \in 1 .. n
  BY <1>2, <1>3, NthProperties, RankProperties
<1> HIDE DEF n
<1>5. At(q, I) = [k \in 1 .. n |-> q[Nth(I, k)]]
  BY DEF At, n
<1>6. \A k \in 1 .. n : q[Nth(I, k)] \in T
  BY <1>4, ElementOfSeq, <1>1
<1>7. At(q, I) \in Seq(T) /\ Len(At(q, I)) = n
  BY <1>3, <1>5, <1>6, IsASeq
<1>8. \A k, l \in 1 .. n : Nth(I, k) = Nth(I, l) => k = l
  BY <1>4
<1>9. \A i \in I : \E k \in 1 .. n : Nth(I, k) = i
  BY <1>4
<1> QED
  BY <1>3, <1>4, <1>5, <1>7, <1>8, <1>9 DEF n

(* The same at the level of event ids. *)
LEMMA AtIds ==
    ASSUME NEW q \in Seq(Entry), NEW I \in SUBSET DOMAIN q
    PROVE  /\ At(q, I) \in Seq(Entry)
           /\ Ids(At(q, I)) = {q[i].id : i \in I}
           /\ NoDuplicates(q) => NoDuplicates(At(q, I))
           /\ Len(At(q, I)) <= Len(q)
           /\ At(q, I) = <<>> <=> I = {}
           /\ \A k \in DOMAIN At(q, I) : \E i \in I : At(q, I)[k] = q[i]
<1> DEFINE s == At(q, I)
<1>1. /\ s \in Seq(Entry)
      /\ \A k \in DOMAIN s : Nth(I, k) \in I /\ s[k] = q[Nth(I, k)]
      /\ \A k, l \in DOMAIN s : Nth(I, k) = Nth(I, l) => k = l
      /\ \A i \in I : \E k \in DOMAIN s : Nth(I, k) = i
      /\ Len(s) <= Len(q)
  BY AtProperties
<1> HIDE DEF s
<1>2. Ids(s) = {q[i].id : i \in I}
  BY <1>1 DEF Ids
<1>3. NoDuplicates(q) => NoDuplicates(s)
  BY <1>1 DEF NoDuplicates
<1>4. s = <<>> <=> I = {}
  <2>1. s = <<>> <=> DOMAIN s = {}
    BY <1>1, EmptySeq
  <2> QED
    BY <1>1, <2>1
<1> QED
  BY <1>1, <1>2, <1>3, <1>4 DEF s

(* Joining two lists of entries that share no event.                       *)
LEMMA ConcatIds ==
    ASSUME NEW q \in Seq(Entry), NEW es \in Seq(Entry)
    PROVE  /\ q \o es \in Seq(Entry)
           /\ Len(q \o es) = Len(q) + Len(es)
           /\ Ids(q \o es) = Ids(q) \cup Ids(es)
           /\ \A k \in DOMAIN (q \o es) :
                \/ \E i \in DOMAIN q : (q \o es)[k] = q[i]
                \/ \E i \in DOMAIN es : (q \o es)[k] = es[i]
           /\ NoDuplicates(q) /\ NoDuplicates(es) /\ Ids(q) \cap Ids(es) = {}
                => NoDuplicates(q \o es)
<1> DEFINE all == q \o es
           n == Len(q) + Len(es)
<1>1. Len(q) \in Nat /\ Len(es) \in Nat /\ n \in Nat
  OBVIOUS
<1>2. /\ all \in Seq(Entry) /\ Len(all) = n
      /\ \A i \in 1 .. n : all[i] = IF i <= Len(q) THEN q[i] ELSE es[i - Len(q)]
  BY <1>1, ConcatProperties
<1> HIDE DEF all, n
<1>3. /\ DOMAIN all = 1 .. n
      /\ DOMAIN q = 1 .. Len(q) /\ DOMAIN es = 1 .. Len(es)
  BY <1>2
<1>4. ASSUME NEW i \in 1 .. n
      PROVE  \/ i \in DOMAIN q /\ i <= Len(q) /\ all[i] = q[i]
             \/ /\ i > Len(q)
                /\ i - Len(q) \in DOMAIN es
                /\ all[i] = es[i - Len(q)]
  <2>1. all[i] = IF i <= Len(q) THEN q[i] ELSE es[i - Len(q)]
    BY <1>2
  <2>2. CASE i <= Len(q)
    BY <1>1, <1>3, <2>1, <2>2
  <2>3. CASE i > Len(q)
    <3>1. i - Len(q) \in 1 .. Len(es)
      BY <1>1, <2>3 DEF n
    <3> QED
      BY <1>1, <1>3, <2>1, <2>3, <3>1
  <2> QED
    BY <1>1, <2>2, <2>3
<1>5. Ids(all) = Ids(q) \cup Ids(es)
  <2>1. ASSUME NEW i \in DOMAIN all PROVE all[i].id \in Ids(q) \cup Ids(es)
    BY <1>3, <1>4 DEF Ids
  <2>2. ASSUME NEW i \in DOMAIN q PROVE q[i].id \in Ids(all)
    BY <1>1, <1>2, <1>3 DEF Ids, n
  <2>3. ASSUME NEW i \in DOMAIN es PROVE es[i].id \in Ids(all)
    <3>1. Len(q) + i \in 1 .. n /\ all[Len(q) + i] = es[i]
      BY <1>1, <1>2, <1>3 DEF n
    <3> QED
      BY <1>3, <3>1 DEF Ids
  <2> QED
    BY <2>1, <2>2, <2>3 DEF Ids
<1>6. \A k \in DOMAIN all : \/ \E i \in DOMAIN q : all[k] = q[i]
                            \/ \E i \in DOMAIN es : all[k] = es[i]
  BY <1>3, <1>4
<1>7. ASSUME NoDuplicates(q), NoDuplicates(es), Ids(q) \cap Ids(es) = {}
       PROVE  NoDuplicates(all)
  <2> SUFFICES ASSUME NEW i \in 1 .. n, NEW j \in 1 .. n, all[i].id = all[j].id
               PROVE  i = j
    BY <1>3 DEF NoDuplicates
  <2>1. CASE i <= Len(q) /\ j <= Len(q)
    BY <1>1, <1>4, <1>7, <2>1 DEF NoDuplicates
  <2>2. CASE i > Len(q) /\ j > Len(q)
    <3>1. /\ i - Len(q) \in DOMAIN es /\ j - Len(q) \in DOMAIN es
          /\ es[i - Len(q)].id = es[j - Len(q)].id
      BY <1>1, <1>4, <2>2
    <3>2. i - Len(q) = j - Len(q)
      BY <1>7, <3>1 DEF NoDuplicates
    <3> QED
      BY <1>1, <3>2
  <2>3. CASE i <= Len(q) /\ j > Len(q)
    <3>1. /\ i \in DOMAIN q /\ all[i] = q[i]
          /\ j - Len(q) \in DOMAIN es /\ all[j] = es[j - Len(q)]
      BY <1>1, <1>4, <2>3
    <3>2. all[i].id \in Ids(q) /\ all[j].id \in Ids(es)
      BY <3>1 DEF Ids
    <3> QED
      BY <1>7, <3>2
  <2>4. CASE i > Len(q) /\ j <= Len(q)
    <3>1. /\ j \in DOMAIN q /\ all[j] = q[j]
          /\ i - Len(q) \in DOMAIN es /\ all[i] = es[i - Len(q)]
      BY <1>1, <1>4, <2>4
    <3>2. all[j].id \in Ids(q) /\ all[i].id \in Ids(es)
      BY <3>1 DEF Ids
    <3> QED
      BY <1>7, <3>2
  <2> QED
    BY <1>1, <2>1, <2>2, <2>3, <2>4
<1> QED
  BY <1>2, <1>5, <1>6, <1>7 DEF all, n

(* requeue() keeps the queue within its capacity, and every event of the   *)
(* queue and of the entries that come back is either kept or reported      *)
(* "queue-full", never both.                                               *)
LEMMA RequeueProperties ==
    ASSUME NEW q \in Seq(Entry), NEW es \in Seq(Entry)
    PROVE  /\ Requeue(q, es) \in Seq(Entry)
           /\ Len(Requeue(q, es)) <= Capacity
           /\ Ids(q) \cup Ids(es) = Ids(Requeue(q, es)) \cup Evicted(q, es)
           /\ \A k \in DOMAIN Requeue(q, es) :
                \/ \E i \in DOMAIN q : Requeue(q, es)[k] = q[i]
                \/ \E i \in DOMAIN es : Requeue(q, es)[k] = es[i]
           /\ NoDuplicates(q) /\ NoDuplicates(es) /\ Ids(q) \cap Ids(es) = {}
                => /\ NoDuplicates(Requeue(q, es))
                   /\ Ids(Requeue(q, es)) \cap Evicted(q, es) = {}
<1> DEFINE all == q \o es
           x == Excess(q, es)
           n == Len(q) + Len(es)
           kept == SubSeq(all, x + 1, n)
           shifted == SubSeq(all, 1, x)
<1>1. Capacity \in Nat
  BY QueueAssumption DEF Capacity
<1>2. Len(q) \in Nat /\ Len(es) \in Nat /\ n \in Nat
  OBVIOUS
<1>3. x \in 0 .. n /\ n - x <= Capacity
  BY <1>1, <1>2 DEF Excess
<1>4. /\ all \in Seq(Entry) /\ Len(all) = n
  BY <1>2, ConcatProperties
<1> HIDE DEF all, x, n
<1>5. /\ kept \in Seq(Entry) /\ Len(kept) = n - x
      /\ \A k \in 1 .. n - x : kept[k] = all[x + k]
  BY <1>2, <1>3, <1>4, SubSeqProperties
<1>6. /\ shifted \in Seq(Entry) /\ Len(shifted) = x
      /\ \A k \in 1 .. x : shifted[k] = all[k]
  BY <1>2, <1>3, <1>4, SubSeqProperties
<1>7. Requeue(q, es) = kept /\ Evicted(q, es) = Ids(shifted)
  BY DEF Requeue, Evicted, all, x, n
<1> HIDE DEF kept, shifted
<1>8. Len(kept) <= Capacity
  BY <1>3, <1>5
<1>9. /\ DOMAIN all = 1 .. n /\ DOMAIN kept = 1 .. n - x
      /\ DOMAIN shifted = 1 .. x
  BY <1>4, <1>5, <1>6
<1>10. /\ Ids(all) = Ids(q) \cup Ids(es)
       /\ \A k \in DOMAIN all :
            \/ \E i \in DOMAIN q : all[k] = q[i]
            \/ \E i \in DOMAIN es : all[k] = es[i]
       /\ NoDuplicates(q) /\ NoDuplicates(es) /\ Ids(q) \cap Ids(es) = {}
            => NoDuplicates(all)
  BY ConcatIds DEF all
<1>11. Ids(all) = Ids(kept) \cup Ids(shifted)
  <2>1. ASSUME NEW i \in DOMAIN all PROVE all[i].id \in Ids(kept) \cup Ids(shifted)
    <3>1. CASE i <= x
      BY <1>2, <1>3, <1>6, <1>9, <3>1 DEF Ids
    <3>2. CASE i > x
      <4>1. i - x \in 1 .. n - x /\ kept[i - x] = all[x + (i - x)]
        BY <1>2, <1>3, <1>5, <1>9, <3>2
      <4>2. x + (i - x) = i
        BY <1>2, <1>3, <1>9
      <4> QED
        BY <1>9, <4>1, <4>2 DEF Ids
    <3> QED
      BY <1>3, <1>9, <3>1, <3>2
  <2>2. ASSUME NEW k \in DOMAIN kept PROVE kept[k].id \in Ids(all)
    <3>1. x + k \in 1 .. n /\ kept[k] = all[x + k]
      BY <1>2, <1>3, <1>5, <1>9
    <3> QED
      BY <1>9, <3>1 DEF Ids
  <2>3. ASSUME NEW k \in DOMAIN shifted PROVE shifted[k].id \in Ids(all)
    BY <1>2, <1>3, <1>6, <1>9 DEF Ids
  <2> QED
    BY <2>1, <2>2, <2>3 DEF Ids
<1>12. \A k \in DOMAIN kept : \/ \E i \in DOMAIN q : kept[k] = q[i]
                              \/ \E i \in DOMAIN es : kept[k] = es[i]
  <2> SUFFICES ASSUME NEW k \in DOMAIN kept
               PROVE  \/ \E i \in DOMAIN q : kept[k] = q[i]
                      \/ \E i \in DOMAIN es : kept[k] = es[i]
    OBVIOUS
  <2>1. x + k \in 1 .. n /\ kept[k] = all[x + k]
    BY <1>2, <1>3, <1>5, <1>9
  <2> QED
    BY <1>9, <1>10, <2>1
<1>13. ASSUME NoDuplicates(all)
       PROVE  NoDuplicates(kept) /\ Ids(kept) \cap Ids(shifted) = {}
  <2>1. \A k \in DOMAIN kept : x + k \in DOMAIN all /\ kept[k] = all[x + k]
    BY <1>2, <1>3, <1>5, <1>9
  <2>2. \A k \in DOMAIN shifted : k \in DOMAIN all /\ shifted[k] = all[k]
    BY <1>2, <1>3, <1>6, <1>9
  <2>3. NoDuplicates(kept)
    <3> SUFFICES ASSUME NEW k \in DOMAIN kept, NEW l \in DOMAIN kept,
                        kept[k].id = kept[l].id
                 PROVE  k = l
      BY DEF NoDuplicates
    <3>1. x + k = x + l
      BY <1>13, <2>1 DEF NoDuplicates
    <3> QED
      BY <1>3, <1>9, <3>1
  <2>4. ASSUME NEW k \in DOMAIN kept, NEW l \in DOMAIN shifted
        PROVE  kept[k].id # shifted[l].id
    <3>1. x + k # l
      BY <1>3, <1>9
    <3> QED
      BY <1>13, <2>1, <2>2, <3>1 DEF NoDuplicates
  <2> QED
    BY <2>3, <2>4 DEF Ids
<1> QED
  BY <1>5, <1>7, <1>8, <1>10, <1>11, <1>12, <1>13

(* takeBatch() splits the queue: every event is taken, stays, or is        *)
(* reported "event-expired", and only one of these.                        *)
LEMMA TakeBatchProperties ==
    ASSUME NEW q \in Seq(Entry), NEW nowMs \in Nat
    PROVE  /\ Batch(q, nowMs) \in Seq(Entry)
           /\ Remaining(q, nowMs) \in Seq(Entry)
           /\ Len(Remaining(q, nowMs)) <= Len(q)
           /\ Ids(q) = Ids(Batch(q, nowMs)) \cup Ids(Remaining(q, nowMs))
                          \cup Expired(q, nowMs)
           /\ \A k \in DOMAIN Batch(q, nowMs) :
                \E i \in DOMAIN q : Batch(q, nowMs)[k] = q[i]
           /\ \A k \in DOMAIN Remaining(q, nowMs) :
                \E i \in DOMAIN q : Remaining(q, nowMs)[k] = q[i]
           /\ NoDuplicates(q)
                => /\ NoDuplicates(Batch(q, nowMs))
                   /\ NoDuplicates(Remaining(q, nowMs))
                   /\ Ids(Batch(q, nowMs)) \cap Ids(Remaining(q, nowMs)) = {}
                   /\ Ids(Batch(q, nowMs)) \cap Expired(q, nowMs) = {}
                   /\ Ids(Remaining(q, nowMs)) \cap Expired(q, nowMs) = {}
<1> DEFINE live == Live(q, nowMs)
           taken == Taken(q, nowMs)
           stay == live \ taken
           old == DOMAIN q \ live
<1>1. live \in SUBSET DOMAIN q /\ taken \in SUBSET live
  BY DEF Live, Taken
<1> HIDE DEF live, taken
<1>2. /\ Batch(q, nowMs) = At(q, taken) /\ Remaining(q, nowMs) = At(q, stay)
      /\ Expired(q, nowMs) = {q[i].id : i \in old}
  BY DEF Batch, Remaining, Expired, live, taken
<1>3. taken \in SUBSET DOMAIN q /\ stay \in SUBSET DOMAIN q
  BY <1>1
<1>4. /\ At(q, taken) \in Seq(Entry)
      /\ Ids(At(q, taken)) = {q[i].id : i \in taken}
      /\ NoDuplicates(q) => NoDuplicates(At(q, taken))
      /\ \A k \in DOMAIN At(q, taken) : \E i \in taken : At(q, taken)[k] = q[i]
  BY <1>3, AtIds
<1>5. /\ At(q, stay) \in Seq(Entry)
      /\ Ids(At(q, stay)) = {q[i].id : i \in stay}
      /\ NoDuplicates(q) => NoDuplicates(At(q, stay))
      /\ Len(At(q, stay)) <= Len(q)
      /\ \A k \in DOMAIN At(q, stay) : \E i \in stay : At(q, stay)[k] = q[i]
  BY <1>3, AtIds
<1>6. Ids(q) = {q[i].id : i \in taken} \cup {q[i].id : i \in stay}
                 \cup {q[i].id : i \in old}
  BY <1>1 DEF Ids
<1>7. ASSUME NoDuplicates(q)
      PROVE  /\ {q[i].id : i \in taken} \cap {q[i].id : i \in stay} = {}
             /\ {q[i].id : i \in taken} \cap {q[i].id : i \in old} = {}
             /\ {q[i].id : i \in stay} \cap {q[i].id : i \in old} = {}
  BY <1>1, <1>7 DEF NoDuplicates
<1> QED
  BY <1>1, <1>2, <1>4, <1>5, <1>6, <1>7

(* The removals keep exactly the entries they are not asked to drop.       *)
LEMMA RemoveByIdsProperties ==
    ASSUME NEW q \in Seq(Entry), NEW ids
    PROVE  /\ RemoveByIds(q, ids) \in Seq(Entry)
           /\ Len(RemoveByIds(q, ids)) <= Len(q)
           /\ Ids(RemoveByIds(q, ids)) = Ids(q) \ ids
           /\ NoDuplicates(q) => NoDuplicates(RemoveByIds(q, ids))
           /\ \A k \in DOMAIN RemoveByIds(q, ids) :
                \E i \in DOMAIN q : RemoveByIds(q, ids)[k] = q[i]
<1> DEFINE I == {i \in DOMAIN q : q[i].id \notin ids}
<1>1. I \in SUBSET DOMAIN q /\ RemoveByIds(q, ids) = At(q, I)
  BY DEF RemoveByIds
<1>2. {q[i].id : i \in I} = Ids(q) \ ids
  BY DEF Ids
<1> HIDE DEF I
<1> QED
  BY <1>1, <1>2, AtIds

LEMMA RemoveByPurposesProperties ==
    ASSUME NEW q \in Seq(Entry), NEW P
    PROVE  /\ RemoveByPurposes(q, P) \in Seq(Entry)
           /\ Len(RemoveByPurposes(q, P)) <= Len(q)
           /\ Ids(RemoveByPurposes(q, P)) = Ids(q) \ Revoked(q, P)
           /\ NoDuplicates(q) => NoDuplicates(RemoveByPurposes(q, P))
           /\ \A k \in DOMAIN RemoveByPurposes(q, P) :
                \E i \in DOMAIN q : /\ RemoveByPurposes(q, P)[k] = q[i]
                                   /\ PurposeOf[q[i].id] \notin P
<1> DEFINE I == {i \in DOMAIN q : PurposeOf[q[i].id] \notin P}
<1>1. I \in SUBSET DOMAIN q /\ RemoveByPurposes(q, P) = At(q, I)
  BY DEF RemoveByPurposes
<1>2. {q[i].id : i \in I} = Ids(q) \ Revoked(q, P)
  BY DEF Ids, Revoked
<1>3. \A i \in I : i \in DOMAIN q /\ PurposeOf[q[i].id] \notin P
  OBVIOUS
<1> HIDE DEF I
<1> QED
  BY <1>1, <1>2, <1>3, AtIds

(***************************************************************************)
(* The loops                                                               *)
(***************************************************************************)

(* The induction on the number of iterations: a set that zero is in, and   *)
(* with a number the next one, has all of them.                            *)
LEMMA FromZero ==
    ASSUME NEW n \in Nat, NEW S, 0 \in S,
           \A i \in 1 .. n : i - 1 \in S => i \in S
    PROVE  0 .. n \subseteq S
<1> DEFINE T == (0 .. n) \ S
<1> SUFFICES ASSUME T # {} PROVE FALSE
  OBVIOUS
<1>1. T \subseteq Nat
  OBVIOUS
<1>2. PICK i \in T : \A j \in T : ~(<<j, i>> \in OpToRel(<, Nat))
  <2> HIDE DEF T
  <2> QED
    BY <1>1, NatLessThanWellFounded, WFMin
<1>3. i \in 1 .. n /\ i - 1 \in 0 .. n
  OBVIOUS
<1>4. i - 1 \notin T
  <2>1. <<i - 1, i>> \in OpToRel(<, Nat)
    BY <1>3 DEF OpToRel
  <2> QED
    BY <1>2, <2>1
<1> QED
  BY <1>3, <1>4

(* Of positions that are enough to say which member is where. *)
LEMMA NthIs ==
    ASSUME NEW I \in SUBSET Nat, IsFiniteSet(I), NEW i \in I, NEW k, Rank(I, i) = k
    PROVE  Nth(I, k) = i
  BY NthProperties

LEMMA PositionsAreFinite ==
    ASSUME NEW T, NEW q \in Seq(T), NEW I \in SUBSET DOMAIN q
    PROVE  /\ I \in SUBSET Nat /\ IsFiniteSet(I) /\ Cardinality(I) \in Nat
           /\ DOMAIN q = 1 .. Len(q) /\ Len(q) \in Nat
<1>1. Len(q) \in Nat /\ DOMAIN q = 1 .. Len(q)
  OBVIOUS
<1>2. IsFiniteSet(1 .. Len(q))
  <2>1. 1 \in Int /\ Len(q) \in Int
    BY <1>1
  <2> QED
    BY ONLY <2>1, FS_Interval
<1> QED
  BY <1>1, <1>2, FS_Subset, FS_CardinalityType

LEMMA SizeOfInterval ==
    ASSUME NEW n \in Nat
    PROVE  IsFiniteSet(1 .. n) /\ Cardinality(1 .. n) = n
<1>1. 1 \in Int /\ n \in Int
  OBVIOUS
<1>2. IsFiniteSet(1 .. n) /\ Cardinality(1 .. n) = IF 1 > n THEN 0 ELSE n - 1 + 1
  BY ONLY <1>1, FS_Interval
<1> QED
  BY <1>2

(* A later position adds its entry at the end. *)
LEMMA AtAppend ==
    ASSUME NEW T, NEW q \in Seq(T), NEW I \in SUBSET DOMAIN q,
           NEW m \in DOMAIN q, \A i \in I : i < m
    PROVE  At(q, I \cup {m}) = Append(At(q, I), q[m])
<1> DEFINE J == I \cup {m}
           n == Cardinality(I)
<1>1. /\ I \in SUBSET Nat /\ IsFiniteSet(I) /\ n \in Nat
      /\ m \in Nat /\ m \notin I /\ J \in SUBSET DOMAIN q
  BY PositionsAreFinite
<1>2. J \in SUBSET Nat /\ IsFiniteSet(J) /\ Cardinality(J) = n + 1
  BY <1>1, FS_AddElement
<1>3. ASSUME NEW k \in 1 .. n PROVE Nth(J, k) = Nth(I, k)
  <2> DEFINE i == Nth(I, k)
  <2>1. i \in I /\ Rank(I, i) = k
    BY <1>1, NthProperties
  <2>2. {j \in J : j <= i} = {j \in I : j <= i}
    <3>1. i \in Nat /\ i < m
      BY <1>1, <2>1
    <3> HIDE DEF i
    <3> QED
      BY <1>1, <3>1
  <2>3. Rank(J, i) = k
    BY <2>1, <2>2 DEF Rank
  <2> QED
    BY <1>2, <2>1, <2>3, NthIs
<1>4. Nth(J, n + 1) = m
  <2>1. {j \in J : j <= m} = J
    BY <1>1
  <2>2. Rank(J, m) = n + 1
    BY <1>2, <2>1 DEF Rank
  <2> QED
    BY <1>2, <2>2, NthIs
<1>5. /\ At(q, I) \in Seq(T) /\ Len(At(q, I)) = n
      /\ \A k \in 1 .. n : At(q, I)[k] = q[Nth(I, k)]
  BY AtProperties
<1>6. /\ At(q, J) \in Seq(T) /\ Len(At(q, J)) = n + 1
      /\ \A k \in 1 .. n + 1 : At(q, J)[k] = q[Nth(J, k)]
  <2>1. J \in SUBSET DOMAIN q
    BY <1>1
  <2>2. Cardinality(J) = n + 1
    BY <1>2
  <2> HIDE DEF J, n
  <2>3. /\ At(q, J) \in Seq(T) /\ Len(At(q, J)) = Cardinality(J)
        /\ DOMAIN At(q, J) = 1 .. Cardinality(J)
        /\ \A k \in DOMAIN At(q, J) : At(q, J)[k] = q[Nth(J, k)]
    BY <2>1, AtProperties
  <2> QED
    BY <2>2, <2>3
<1>7. q[m] \in T /\ n \in Nat
  BY <1>1, ElementOfSeq
<1> HIDE DEF J, n
<1>8. /\ Append(At(q, I), q[m]) \in Seq(T)
      /\ Len(Append(At(q, I), q[m])) = n + 1
      /\ \A k \in 1 .. n : Append(At(q, I), q[m])[k] = At(q, I)[k]
      /\ Append(At(q, I), q[m])[n + 1] = q[m]
  BY <1>5, <1>7, AppendProperties
<1>9. ASSUME NEW k \in 1 .. n + 1 PROVE At(q, J)[k] = Append(At(q, I), q[m])[k]
  <2>1. CASE k \in 1 .. n
    BY <1>3, <1>5, <1>6, <1>8, <2>1
  <2>2. CASE k = n + 1
    BY <1>4, <1>6, <1>8, <2>2
  <2>3. k \in 1 .. n \/ k = n + 1
    BY <1>7
  <2> QED
    BY <2>1, <2>2, <2>3
<1> QED
  BY <1>6, <1>8, <1>9, SeqEqual DEF J

LEMMA AtIs ==
    ASSUME NEW T, NEW q \in Seq(T), NEW I \in SUBSET DOMAIN q
    PROVE  /\ At(q, I) \in Seq(T) /\ Len(At(q, I)) = Cardinality(I)
           /\ \A k \in 1 .. Cardinality(I) : At(q, I)[k] = q[Nth(I, k)]
  BY AtProperties

(* A position that all smaller ones are in is as many places from the      *)
(* front.                                                                  *)
LEMMA NthOfPrefix ==
    ASSUME NEW I \in SUBSET (Nat \ {0}), IsFiniteSet(I),
           NEW k \in Nat, 1 .. k \subseteq I, NEW l \in 1 .. k
    PROVE  Rank(I, l) = l /\ Nth(I, l) = l
<1>1. l \in Nat /\ l \in I
  OBVIOUS
<1>2. {j \in I : j <= l} = 1 .. l
  <2>1. ASSUME NEW j \in I, j <= l PROVE j \in 1 .. l
    BY <2>1
  <2>2. ASSUME NEW j \in 1 .. l PROVE j \in I /\ j <= l
    <3>1. j \in 1 .. k
      OBVIOUS
    <3> QED
      BY <3>1
  <2> QED
    BY <2>1, <2>2
<1>3. Rank(I, l) = l
  BY <1>1, <1>2, SizeOfInterval DEF Rank
<1> QED
  BY <1>1, <1>3, NthIs

LEMMA AtAll ==
    ASSUME NEW T, NEW q \in Seq(T)
    PROVE  At(q, DOMAIN q) = q
<1> DEFINE n == Len(q)
<1>1. DOMAIN q = 1 .. n /\ n \in Nat
  OBVIOUS
<1> HIDE DEF n
<1>2. IsFiniteSet(1 .. n) /\ Cardinality(1 .. n) = n
  BY <1>1, SizeOfInterval
<1>3. ASSUME NEW k \in 1 .. n PROVE Nth(1 .. n, k) = k
  <2>1. 1 .. n \in SUBSET (Nat \ {0})
    BY <1>1
  <2> QED
    BY <1>1, <1>2, <2>1, NthOfPrefix
<1>4. /\ At(q, 1 .. n) \in Seq(T) /\ Len(At(q, 1 .. n)) = n
      /\ \A k \in 1 .. n : At(q, 1 .. n)[k] = q[Nth(1 .. n, k)]
  <2>1. 1 .. n \in SUBSET DOMAIN q
    BY <1>1
  <2>2. /\ At(q, 1 .. n) \in Seq(T) /\ Len(At(q, 1 .. n)) = Cardinality(1 .. n)
        /\ \A k \in 1 .. Cardinality(1 .. n) : At(q, 1 .. n)[k] = q[Nth(1 .. n, k)]
    BY <2>1, AtIs
  <2> QED
    BY <1>2, <2>2
<1>5. At(q, 1 .. n) = q
  BY <1>3, <1>4, SeqEqual DEF n
<1> QED
  BY <1>1, <1>5

(* Splicing out an entry that nothing before has been dropped of.          *)
LEMMA AtSplice ==
    ASSUME NEW T, NEW q \in Seq(T), NEW I \in SUBSET DOMAIN q,
           NEW k \in Nat \ {0}, 1 .. k \subseteq I
    PROVE  /\ At(q, I)[k] = q[k]
           /\ At(q, I \ {k}) = SubSeq(At(q, I), 1, k - 1)
                                  \o SubSeq(At(q, I), k + 1, Len(At(q, I)))
<1> DEFINE n == Cardinality(I)
           J == I \ {k}
           s == At(q, I)
<1>1. /\ I \in SUBSET Nat /\ IsFiniteSet(I) /\ n \in Nat
      /\ k \in I /\ k \in Nat /\ DOMAIN q = 1 .. Len(q) /\ Len(q) \in Nat
  <2>1. k \in 1 .. k
    OBVIOUS
  <2> QED
    BY <2>1, PositionsAreFinite
<1>2. IsFiniteSet(J) /\ Cardinality(J) = n - 1 /\ J \in SUBSET Nat
  BY <1>1, FS_RemoveElement
<1>3. k \in 1 .. n
  <2>1. Cardinality(1 .. k) <= n
    BY <1>1, FS_Subset
  <2>2. Cardinality(1 .. k) = k
    BY SizeOfInterval
  <2> HIDE DEF n
  <2> QED
    BY <1>1, <2>1, <2>2
<1>4. \A l \in 1 .. k : Rank(I, l) = l /\ Nth(I, l) = l
  <2>1. I \in SUBSET (Nat \ {0})
    BY <1>1
  <2> QED
    BY <1>1, <2>1, NthOfPrefix
<1>5. ASSUME NEW l \in 1 .. k - 1 PROVE Nth(J, l) = l
  <2>1. J \in SUBSET (Nat \ {0}) /\ 1 .. k - 1 \subseteq J /\ k - 1 \in Nat
    BY <1>1
  <2> HIDE DEF J
  <2> QED
    BY <1>2, <2>1, NthOfPrefix
<1>6. ASSUME NEW l \in k .. n - 1 PROVE Nth(J, l) = Nth(I, l + 1)
  <2> DEFINE i == Nth(I, l + 1)
  <2>1. l \in Nat /\ l + 1 \in 1 .. n /\ l + 1 > k
    <3> HIDE DEF n
    <3> QED
      BY <1>1
  <2>2. i \in I /\ Rank(I, i) = l + 1
    BY <1>1, <2>1, NthProperties
  <2> HIDE DEF i
  <2>3. i \in Nat /\ i > k
    <3>1. i \in Nat /\ i >= 1
      BY <1>1, <2>2
    <3>2. i \notin 1 .. k
      BY <1>4, <2>1, <2>2
    <3> QED
      BY <1>1, <3>1, <3>2
  <2> DEFINE B == {j \in I : j <= i}
  <2>4. {j \in J : j <= i} = B \ {k}
    OBVIOUS
  <2>5. k \in B /\ IsFiniteSet(B) /\ Cardinality(B) = l + 1
    BY <1>1, <2>2, <2>3, FS_Subset DEF Rank
  <2>6. Cardinality(B \ {k}) = l
    <3>1. Cardinality(B \ {k}) = Cardinality(B) - 1
      BY <2>5, FS_RemoveElement
    <3> HIDE DEF B
    <3> QED
      BY <2>1, <2>5, <3>1
  <2>7. i \in J /\ Rank(J, i) = l
    <3>1. i \in J
      BY <1>1, <2>2, <2>3
    <3>2. Rank(J, i) = Cardinality(B \ {k})
      BY <2>4 DEF Rank
    <3> QED
      BY <2>6, <3>1, <3>2
  <2> QED
    BY <1>2, <2>7, NthIs DEF i
<1>7. /\ s \in Seq(T) /\ Len(s) = n
      /\ \A l \in 1 .. n : s[l] = q[Nth(I, l)]
  BY AtIs
<1>8. /\ At(q, J) \in Seq(T) /\ Len(At(q, J)) = n - 1
      /\ \A l \in 1 .. n - 1 : At(q, J)[l] = q[Nth(J, l)]
  <2>1. J \in SUBSET DOMAIN q
    OBVIOUS
  <2>2. Cardinality(J) = n - 1
    BY <1>2
  <2> HIDE DEF J, n
  <2>3. /\ At(q, J) \in Seq(T) /\ Len(At(q, J)) = Cardinality(J)
        /\ \A l \in 1 .. Cardinality(J) : At(q, J)[l] = q[Nth(J, l)]
    BY <2>1, AtIs
  <2> QED
    BY <2>2, <2>3
<1>9. n \in Nat /\ k \in Nat
  BY <1>1
<1> HIDE DEF n, J, s
<1> DEFINE front == SubSeq(s, 1, k - 1)
           back == SubSeq(s, k + 1, n)
<1>10. \A i \in 1 .. n : s[i] \in T
  BY <1>7, ElementOfSeq
<1>11. /\ front \in Seq(T) /\ Len(front) = k - 1
       /\ \A l \in 1 .. k - 1 : front[l] = s[l]
  <2>1. \A i \in 1 .. k - 1 : s[i] \in T
    BY <1>3, <1>9, <1>10
  <2>2. 1 \in Int /\ k - 1 \in Int
    BY <1>9
  <2>3. /\ front \in Seq(T)
        /\ Len(front) = IF 1 <= k - 1 THEN (k - 1) - 1 + 1 ELSE 0
        /\ \A l \in 1 .. (k - 1) - 1 + 1 : front[l] = s[1 + l - 1]
    BY <2>1, <2>2, SubSeqProperties
  <2> QED
    BY <1>3, <1>9, <2>3
<1>12. /\ back \in Seq(T) /\ Len(back) = n - k
       /\ \A l \in 1 .. n - k : back[l] = s[k + l]
  <2>1. \A i \in k + 1 .. n : s[i] \in T
    BY <1>3, <1>9, <1>10
  <2>2. k + 1 \in Int /\ n \in Int
    BY <1>9
  <2>3. /\ back \in Seq(T)
        /\ Len(back) = IF k + 1 <= n THEN n - (k + 1) + 1 ELSE 0
        /\ \A l \in 1 .. n - (k + 1) + 1 : back[l] = s[(k + 1) + l - 1]
    BY <2>1, <2>2, SubSeqProperties
  <2> QED
    BY <1>3, <1>9, <2>3
<1> HIDE DEF front, back
<1>13. /\ front \o back \in Seq(T) /\ Len(front \o back) = n - 1
       /\ \A l \in 1 .. n - 1 :
            (front \o back)[l] = IF l <= k - 1 THEN front[l] ELSE back[l - (k - 1)]
  <2>1. /\ front \o back \in Seq(T)
        /\ Len(front \o back) = Len(front) + Len(back)
        /\ \A l \in 1 .. Len(front) + Len(back) :
             (front \o back)[l] = IF l <= Len(front) THEN front[l]
                                  ELSE back[l - Len(front)]
    BY <1>11, <1>12, ConcatProperties
  <2>2. Len(front) + Len(back) = n - 1
    BY <1>9, <1>11, <1>12
  <2> QED
    BY <1>11, <2>1, <2>2
<1>14. ASSUME NEW l \in 1 .. n - 1 PROVE At(q, J)[l] = (front \o back)[l]
  <2>1. CASE l <= k - 1
    <3>1. l \in 1 .. k - 1 /\ l \in 1 .. k /\ l \in 1 .. n
      BY <1>3, <1>9, <2>1
    <3>2. At(q, J)[l] = q[l]
      BY <1>5, <1>8, <3>1
    <3>3. s[l] = q[l]
      BY <1>4, <1>7, <3>1
    <3>4. (front \o back)[l] = s[l]
      BY <1>11, <1>13, <2>1, <3>1
    <3> QED
      BY <3>2, <3>3, <3>4
  <2>2. CASE l > k - 1
    <3>1. l \in k .. n - 1 /\ l + 1 \in 1 .. n /\ l - (k - 1) \in 1 .. n - k
      BY <1>3, <1>9, <2>2
    <3>2. At(q, J)[l] = s[l + 1]
      BY <1>6, <1>7, <1>8, <3>1
    <3>3. back[l - (k - 1)] = s[l + 1]
      <4>1. k + (l - (k - 1)) = l + 1
        BY <1>9
      <4> QED
        BY <1>12, <3>1, <4>1
    <3>4. (front \o back)[l] = back[l - (k - 1)]
      BY <1>9, <1>13, <2>2
    <3> QED
      BY <3>2, <3>3, <3>4
  <2>3. l <= k - 1 \/ l > k - 1
    BY <1>9
  <2> QED
    BY <2>1, <2>2, <2>3
<1>15. At(q, J) = front \o back
  BY <1>8, <1>9, <1>13, <1>14, SeqEqual
<1>16. s[k] = q[k]
  <2>1. k \in 1 .. k
    BY <1>3, <1>9
  <2> QED
    BY <1>3, <1>4, <1>7, <2>1
<1> QED
  BY <1>7, <1>15, <1>16 DEF J, s, front, back

(* A choice from a choice is a choice. *)
LEMMA AtAt ==
    ASSUME NEW T, NEW q \in Seq(T), NEW I \in SUBSET DOMAIN q,
           NEW J \in SUBSET (1 .. Cardinality(I))
    PROVE  At(At(q, I), J) = At(q, {Nth(I, k) : k \in J})
<1> DEFINE s == At(q, I)
           n == Cardinality(I)
           K == {Nth(I, k) : k \in J}
<1>1. /\ I \in SUBSET Nat /\ IsFiniteSet(I) /\ n \in Nat
  BY PositionsAreFinite
<1>2. /\ s \in Seq(T) /\ Len(s) = n
      /\ \A k \in 1 .. n : s[k] = q[Nth(I, k)]
  BY AtIs
<1>3. \A k \in 1 .. n : Nth(I, k) \in I /\ Rank(I, Nth(I, k)) = k
  BY <1>1, NthProperties
<1>4. J \in SUBSET DOMAIN s /\ K \in SUBSET DOMAIN q
  BY <1>2, <1>3
<1>5. /\ J \in SUBSET Nat /\ IsFiniteSet(J) /\ Cardinality(J) \in Nat
      /\ K \in SUBSET Nat /\ IsFiniteSet(K)
  <2> HIDE DEF s, K
  <2> QED
    BY <1>2, <1>4, PositionsAreFinite
<1>6. \A k, l \in 1 .. n : Nth(I, k) <= Nth(I, l) <=> k <= l
  <2>1. ASSUME NEW k \in 1 .. n, NEW l \in 1 .. n, k < l PROVE Nth(I, k) < Nth(I, l)
    <3>1. Nth(I, k) \in Nat /\ Nth(I, l) \in Nat
      BY <1>1, <1>3
    <3>2. ~(Nth(I, l) < Nth(I, k)) /\ Nth(I, l) # Nth(I, k)
      <4>1. Nth(I, l) < Nth(I, k) => Rank(I, Nth(I, l)) < Rank(I, Nth(I, k))
        BY <1>1, <1>3, RankProperties
      <4>2. k \in Nat /\ l \in Nat /\ Rank(I, Nth(I, l)) = l /\ Rank(I, Nth(I, k)) = k
        BY <1>3
      <4> QED
        BY <2>1, <4>1, <4>2
    <3> QED
      BY <3>1, <3>2
  <2> SUFFICES ASSUME NEW k \in 1 .. n, NEW l \in 1 .. n
               PROVE  Nth(I, k) <= Nth(I, l) <=> k <= l
    OBVIOUS
  <2>2. Nth(I, k) \in Nat /\ Nth(I, l) \in Nat /\ k \in Nat /\ l \in Nat
    BY <1>1, <1>3
  <2>3. /\ k < l => Nth(I, k) < Nth(I, l)
        /\ l < k => Nth(I, l) < Nth(I, k)
    BY <2>1
  <2> QED
    BY <2>2, <2>3
<1> HIDE DEF n
<1>7. ASSUME NEW A \in SUBSET J
      PROVE  /\ IsFiniteSet({Nth(I, k) : k \in A})
             /\ Cardinality({Nth(I, k) : k \in A}) = Cardinality(A)
  <2> DEFINE f == [k \in A |-> Nth(I, k)]
             B == {Nth(I, k) : k \in A}
  <2>1. A \subseteq 1 .. n
    BY DEF n
  <2>2. \A k, l \in A : f[k] = f[l] => k = l
    BY <1>3, <2>1
  <2>3. f \in Bijection(A, B)
    <3>1. f \in [A -> B] /\ \A b \in B : \E k \in A : f[k] = b
      OBVIOUS
    <3>2. DOMAIN f = A
      OBVIOUS
    <3> HIDE DEF f, B
    <3> QED
      BY <2>2, <3>1, <3>2 DEF Bijection, Injection, Surjection, IsInjective
  <2>4. ExistsBijection(A, B)
    BY <2>3 DEF ExistsBijection
  <2>5. IsFiniteSet(A)
    BY <1>5, FS_Subset
  <2> HIDE DEF B
  <2>6. IsFiniteSet(B) /\ Cardinality(B) = Cardinality(A)
    BY <2>4, <2>5, FS_Bijection
  <2> QED
    BY <2>6 DEF B
<1> DEFINE m == Cardinality(J)
<1>8. Cardinality(K) = m
  BY <1>7
<1>9. ASSUME NEW l \in 1 .. m PROVE Nth(K, l) = Nth(I, Nth(J, l))
  <2> DEFINE k == Nth(J, l)
             A == {j \in J : j <= k}
  <2>1. k \in J /\ Rank(J, k) = l
    BY <1>5, NthProperties
  <2>2. {x \in K : x <= Nth(I, k)} = {Nth(I, j) : j \in A}
    <3>1. \A j \in J : Nth(I, j) <= Nth(I, k) <=> j <= k
      <4>1. J \subseteq 1 .. n
        BY DEF n
      <4> HIDE DEF k
      <4> QED
        BY <1>6, <2>1, <4>1
    <3> HIDE DEF k
    <3> QED
      BY <3>1
  <2>3. Cardinality({Nth(I, j) : j \in A}) = Cardinality(A)
    BY <1>7
  <2>4. Cardinality(A) = l
    BY <2>1 DEF Rank
  <2> HIDE DEF A, k
  <2>5. Nth(I, k) \in K /\ Rank(K, Nth(I, k)) = l
    BY <2>1, <2>2, <2>3, <2>4 DEF Rank
  <2> QED
    BY <1>5, <2>5, NthIs DEF k
<1>10. /\ At(s, J) \in Seq(T) /\ Len(At(s, J)) = m
       /\ \A l \in 1 .. m : At(s, J)[l] = s[Nth(J, l)]
  <2> HIDE DEF s
  <2> QED
    BY <1>2, <1>4, AtIs
<1>11. /\ At(q, K) \in Seq(T) /\ Len(At(q, K)) = m
       /\ \A l \in 1 .. m : At(q, K)[l] = q[Nth(K, l)]
  <2> HIDE DEF K
  <2> QED
    BY <1>4, <1>8, AtIs
<1>12. ASSUME NEW l \in 1 .. m PROVE At(s, J)[l] = At(q, K)[l]
  <2>1. Nth(J, l) \in J
    BY <1>5, NthProperties
  <2>2. Nth(J, l) \in 1 .. n
    BY <2>1 DEF n
  <2> HIDE DEF s, K
  <2> QED
    BY <1>2, <1>9, <1>10, <1>11, <2>2
<1> HIDE DEF s, K, m
<1>13. At(s, J) = At(q, K)
  BY <1>10, <1>11, <1>12, SeqEqual
<1> QED
  BY <1>13 DEF s, K

(* Parts of a list with one more entry. *)
LEMMA SubSeqAppend ==
    ASSUME NEW T, NEW s \in Seq(T), NEW e \in T, NEW a \in 1 .. Len(s) + 1
    PROVE  Append(SubSeq(s, a, Len(s)), e) = SubSeq(Append(s, e), a, Len(s) + 1)
<1> DEFINE n == Len(s)
           t == Append(s, e)
           u == SubSeq(s, a, n)
           v == SubSeq(t, a, n + 1)
<1>1. n \in Nat /\ a \in Nat /\ a >= 1 /\ a <= n + 1
  OBVIOUS
<1>2. \A i \in 1 .. n : s[i] \in T
  BY ElementOfSeq
<1>3. /\ t \in Seq(T) /\ Len(t) = n + 1
      /\ \A i \in 1 .. n : t[i] = s[i]
      /\ t[n + 1] = e
  BY AppendProperties
<1>4. \A i \in 1 .. n + 1 : t[i] \in T
  BY <1>3, ElementOfSeq
<1> HIDE DEF n, t
<1>5. /\ u \in Seq(T) /\ Len(u) = n + 1 - a
      /\ \A i \in 1 .. n + 1 - a : u[i] = s[a + i - 1]
  <2>1. a \in Int /\ n \in Int /\ \A i \in a .. n : s[i] \in T
    BY <1>1, <1>2
  <2>2. /\ u \in Seq(T)
        /\ Len(u) = IF a <= n THEN n - a + 1 ELSE 0
        /\ \A i \in 1 .. n - a + 1 : u[i] = s[a + i - 1]
    BY <2>1, SubSeqProperties
  <2> HIDE DEF u
  <2> QED
    BY <1>1, <2>2
<1>6. /\ v \in Seq(T) /\ Len(v) = n + 2 - a
      /\ \A i \in 1 .. n + 2 - a : v[i] = t[a + i - 1]
  <2>1. a \in Int /\ n + 1 \in Int /\ \A i \in a .. n + 1 : t[i] \in T
    BY <1>1, <1>4
  <2>2. /\ v \in Seq(T)
        /\ Len(v) = IF a <= n + 1 THEN (n + 1) - a + 1 ELSE 0
        /\ \A i \in 1 .. (n + 1) - a + 1 : v[i] = t[a + i - 1]
    BY <2>1, SubSeqProperties
  <2> HIDE DEF v
  <2> QED
    BY <1>1, <2>2
<1> HIDE DEF u, v
<1>7. /\ Append(u, e) \in Seq(T) /\ Len(Append(u, e)) = n + 2 - a
      /\ \A i \in 1 .. n + 1 - a : Append(u, e)[i] = u[i]
      /\ Append(u, e)[n + 2 - a] = e
  <2>1. /\ Append(u, e) \in Seq(T) /\ Len(Append(u, e)) = Len(u) + 1
        /\ \A i \in 1 .. Len(u) : Append(u, e)[i] = u[i]
        /\ Append(u, e)[Len(u) + 1] = e
    BY <1>5, AppendProperties
  <2>2. Len(u) + 1 = n + 2 - a
    BY <1>1, <1>5
  <2> QED
    BY <1>5, <2>1, <2>2
<1>8. ASSUME NEW i \in 1 .. n + 2 - a PROVE Append(u, e)[i] = v[i]
  <2>1. CASE i \in 1 .. n + 1 - a
    <3>1. a + i - 1 \in 1 .. n
      BY <1>1, <2>1
    <3> QED
      BY <1>3, <1>5, <1>6, <1>7, <2>1, <3>1
  <2>2. CASE i = n + 2 - a
    <3>1. a + i - 1 = n + 1
      BY <1>1, <2>2
    <3> QED
      BY <1>3, <1>6, <1>7, <2>2, <3>1
  <2>3. i \in 1 .. n + 1 - a \/ i = n + 2 - a
    BY <1>1
  <2> QED
    BY <2>1, <2>2, <2>3
<1>9. Append(u, e) = v
  BY <1>6, <1>7, <1>8, SeqEqual
<1> QED
  BY <1>9 DEF n, t, u, v

LEMMA IdsOfPrefix ==
    ASSUME NEW s \in Seq(Entry), NEW k \in 0 .. Len(s)
    PROVE  Ids(SubSeq(s, 1, k)) = {s[i].id : i \in 1 .. k}
<1> DEFINE u == SubSeq(s, 1, k)
<1>1. \A i \in 1 .. k : s[i] \in Entry
  <2>1. 1 .. k \subseteq 1 .. Len(s)
    OBVIOUS
  <2> QED
    BY <2>1, ElementOfSeq
<1>2. /\ u \in Seq(Entry)
      /\ Len(u) = IF 1 <= k THEN k - 1 + 1 ELSE 0
      /\ \A i \in 1 .. k - 1 + 1 : u[i] = s[1 + i - 1]
  BY <1>1, SubSeqProperties
<1> HIDE DEF u
<1>3. DOMAIN u = 1 .. k /\ \A i \in 1 .. k : u[i] = s[i]
  BY <1>2
<1>4. Ids(u) = {s[i].id : i \in 1 .. k}
  BY <1>3 DEF Ids
<1> QED
  BY <1>4 DEF u

LEMMA ExcessIs ==
    ASSUME NEW q \in Seq(Entry), NEW es \in Seq(Entry),
           NEW n, Len(q) + Len(es) = n
    PROVE  Excess(q, es) = IF n > Capacity THEN n - Capacity ELSE 0
<1>1. Len(q) \in Nat /\ Len(es) \in Nat /\ Capacity \in Nat
  BY QueueAssumption DEF Capacity
<1> QED
  BY <1>1 DEF Excess

(* requeue() is its loop: after some entries it has their closed form.     *)
LEMMA OneMoreComesBack ==
    ASSUME NEW q \in Seq(Entry), Len(q) <= Capacity, NEW es \in Seq(Entry),
           NEW e \in Entry
    PROVE  ShiftStep([q |-> Requeue(q, es), gone |-> Evicted(q, es)], e) =
             [q |-> Requeue(q, Append(es, e)), gone |-> Evicted(q, Append(es, e))]
<1> DEFINE all == q \o es
           n == Len(q) + Len(es)
           x == Excess(q, es)
           r == Requeue(q, es)
           more == q \o Append(es, e)
           y == Excess(q, Append(es, e))
<1>1. /\ Capacity \in Nat /\ Capacity > 0
      /\ \A k \in Nat : k <= Capacity =>
           (k >= MaxEvents /\ k # 0 <=> k = Capacity)
  BY QueueAssumption DEF Capacity
<1>2. /\ all \in Seq(Entry) /\ Len(all) = n /\ n \in Nat
      /\ Len(q) \in Nat /\ Len(es) \in Nat
  BY ConcatProperties
<1>3. /\ Append(es, e) \in Seq(Entry) /\ Len(Append(es, e)) = Len(es) + 1
      /\ Len(q) + Len(Append(es, e)) = n + 1
  BY AppendProperties
<1>4. more = Append(all, e) /\ Len(more) = n + 1 /\ more \in Seq(Entry)
  <2>1. Append(es, e) = es \o <<e>> /\ <<e>> \in Seq(Entry)
    BY AppendIsConcat
  <2>2. more = (q \o es) \o <<e>>
    BY <2>1, ConcatAssociative
  <2>3. Append(all, e) = all \o <<e>>
    BY <1>2, AppendIsConcat
  <2>4. more = Append(all, e)
    BY <2>2, <2>3
  <2> HIDE DEF all, more
  <2> QED
    BY <1>2, <2>4, AppendProperties
<1>5. /\ x \in 0 .. n /\ y \in 0 .. n + 1
      /\ n - x <= Capacity
      /\ y = IF n - x = Capacity THEN x + 1 ELSE x
      /\ n - x < Capacity => x = 0
  <2>1. x = IF n > Capacity THEN n - Capacity ELSE 0
    BY <1>2, ExcessIs
  <2>2. y = IF n + 1 > Capacity THEN n + 1 - Capacity ELSE 0
    <3> DEFINE fs == Append(es, e)
               m == n + 1
    <3>1. fs \in Seq(Entry) /\ Len(q) + Len(fs) = m
      BY <1>3
    <3> HIDE DEF n, m, fs
    <3>2. Excess(q, fs) = IF m > Capacity THEN m - Capacity ELSE 0
      BY <3>1, ExcessIs
    <3>3. y = Excess(q, fs)
      BY DEF fs
    <3>4. m = n + 1 /\ n \in Nat /\ Capacity \in Nat
      BY <1>1, <1>2 DEF m
    <3> HIDE DEF y
    <3> QED
      BY <3>2, <3>3, <3>4
  <2> HIDE DEF n, x, y
  <2> QED
    BY <1>1, <1>2, <2>1, <2>2
<1>6. r = SubSeq(all, x + 1, n) /\ Evicted(q, es) = Ids(SubSeq(all, 1, x))
  BY DEF Requeue, Evicted
<1>7. /\ Requeue(q, Append(es, e)) = SubSeq(more, y + 1, n + 1)
      /\ Evicted(q, Append(es, e)) = Ids(SubSeq(more, 1, y))
  BY <1>3 DEF Requeue, Evicted
<1> HIDE DEF all, n, x, more, y
<1>8. r \in Seq(Entry) /\ Len(r) = n - x
  <2>1. x + 1 \in Int /\ n \in Int /\ \A i \in x + 1 .. n : all[i] \in Entry
    <3>1. x + 1 .. n \subseteq 1 .. n
      BY <1>2, <1>5
    <3> QED
      BY <1>2, <1>5, <3>1, ElementOfSeq
  <2>2. /\ SubSeq(all, x + 1, n) \in Seq(Entry)
        /\ Len(SubSeq(all, x + 1, n)) = IF x + 1 <= n THEN n - (x + 1) + 1 ELSE 0
    BY <2>1, SubSeqProperties
  <2> HIDE DEF r
  <2> QED
    BY <1>2, <1>5, <1>6, <2>2
<1>9. Len(r) >= MaxEvents /\ r # <<>> <=> y = x + 1
  <2>1. r # <<>> <=> Len(r) # 0
    <3> HIDE DEF r
    <3> QED
      BY <1>8, EmptySeq
  <2> HIDE DEF r
  <2>2. n - x \in Nat
    BY <1>2, <1>5
  <2>3. n - x >= MaxEvents /\ n - x # 0 <=> n - x = Capacity
    BY <1>1, <1>5, <2>2
  <2>4. y = x + 1 <=> n - x = Capacity
    BY <1>5
  <2> QED
    BY <1>8, <2>1, <2>3, <2>4
<1>10. /\ Append(SubSeq(all, x + 1, n), e) = SubSeq(more, x + 1, n + 1)
       /\ y = x + 1 => Append(SubSeq(all, y + 1, n), e) = SubSeq(more, y + 1, n + 1)
  <2>1. \A a \in 1 .. n + 1 : Append(SubSeq(all, a, n), e) = SubSeq(more, a, n + 1)
    BY <1>2, <1>4, SubSeqAppend
  <2>2. x + 1 \in 1 .. n + 1
    BY <1>2, <1>5
  <2>3. y = x + 1 => y + 1 \in 1 .. n + 1
    BY <1>1, <1>2, <1>5
  <2> QED
    BY <2>1, <2>2, <2>3
<1>11. y = x + 1 => Head(r) = all[y] /\ Tail(r) = SubSeq(all, y + 1, n)
  <2> SUFFICES ASSUME y = x + 1 PROVE Head(r) = all[y] /\ Tail(r) = SubSeq(all, y + 1, n)
    OBVIOUS
  <2>1. y \in 1 .. Len(all) /\ n \in y .. Len(all)
    BY <1>1, <1>2, <1>5
  <2>2. /\ Head(SubSeq(all, y, n)) = all[y]
        /\ Tail(SubSeq(all, y, n)) = SubSeq(all, y + 1, n)
    BY <1>2, <2>1, HeadTailOfSubSeq
  <2> QED
    BY <1>6, <2>2
<1>12. /\ Ids(SubSeq(all, 1, x)) = {all[i].id : i \in 1 .. x}
       /\ Ids(SubSeq(more, 1, y)) = {more[i].id : i \in 1 .. y}
  <2>1. x \in 0 .. Len(all) /\ y \in 0 .. Len(more)
    BY <1>2, <1>4, <1>5
  <2> QED
    BY <1>2, <1>4, <2>1, IdsOfPrefix
<1>13. /\ \A i \in 1 .. n : more[i] = all[i]
       /\ y <= n
  <2>1. \A i \in 1 .. n : more[i] = all[i]
    BY <1>2, <1>4, AppendProperties
  <2>2. y <= n
    BY <1>1, <1>2, <1>5
  <2> QED
    BY <2>1, <2>2
<1>14. CASE y = x + 1
  <2>1. EnqueueStep(r, e) = SubSeq(more, y + 1, n + 1)
    <3>1. EnqueueStep(r, e) = Append(Tail(r), e)
      BY <1>9, <1>14 DEF EnqueueStep
    <3> QED
      BY <1>10, <1>11, <1>14, <3>1
  <2>2. Ids(SubSeq(all, 1, x)) \cup {Head(r).id} = Ids(SubSeq(more, 1, y))
    <3>1. 1 .. y = (1 .. x) \cup {y} /\ 1 .. y \subseteq 1 .. n
      BY <1>2, <1>5, <1>13, <1>14
    <3>2. \A i \in 1 .. y : more[i].id = all[i].id
      BY <1>13, <3>1
    <3>3. Head(r).id = all[y].id
      BY <1>11, <1>14
    <3> HIDE DEF r
    <3> QED
      BY <1>12, <3>1, <3>2, <3>3
  <2> QED
    BY <1>6, <1>7, <1>9, <1>14, <2>1, <2>2 DEF ShiftStep
<1>15. CASE y = x
  <2>1. ~(Len(r) >= MaxEvents /\ r # <<>>)
    BY <1>5, <1>9, <1>15
  <2>2. EnqueueStep(r, e) = SubSeq(more, y + 1, n + 1)
    <3>1. EnqueueStep(r, e) = Append(r, e)
      BY <2>1 DEF EnqueueStep
    <3> QED
      BY <1>6, <1>10, <1>15, <3>1
  <2>3. Ids(SubSeq(all, 1, x)) = Ids(SubSeq(more, 1, y))
    <3>1. 1 .. y \subseteq 1 .. n
      BY <1>2, <1>5, <1>13
    <3>2. \A i \in 1 .. y : more[i].id = all[i].id
      BY <1>13, <3>1
    <3>3. {more[i].id : i \in 1 .. y} = {all[i].id : i \in 1 .. y}
      BY <3>2
    <3> QED
      BY <1>12, <1>15, <3>3
  <2> QED
    BY <1>6, <1>7, <2>1, <2>2, <2>3 DEF ShiftStep
<1> QED
  BY <1>5, <1>14, <1>15

LEMMA RequeueIsLoop ==
    ASSUME NEW q \in Seq(Entry), Len(q) <= Capacity, NEW es \in Seq(Entry)
    PROVE  RequeueIsItsLoop(q, es)
<1> DEFINE n == Len(es)
           start == [q |-> q, gone |-> {}]
           upTo(i) == SubSeq(es, 1, i)
           closed == [i \in 0 .. n |-> [q    |-> Requeue(q, upTo(i)),
                                       gone |-> Evicted(q, upTo(i))]]
           IsRun(f) == f = [i \in 0 .. n |-> IF i = 0 THEN start
                                             ELSE ShiftStep(f[i - 1], es[i])]
<1>1. n \in Nat /\ DOMAIN es = 1 .. n
  OBVIOUS
<1>2. closed[0] = start
  <2>1. upTo(0) = <<>> /\ Excess(q, <<>>) = 0
    <3>1. upTo(0) = <<>>
      BY SubSeqEmpty
    <3>2. Capacity \in Nat /\ Len(q) \in Nat /\ Len(<<>>) = 0
      BY QueueAssumption DEF Capacity
    <3> QED
      BY <3>1, <3>2 DEF Excess
  <2>2. q \o <<>> = q /\ SubSeq(q, 1, Len(q)) = q /\ Len(q) + Len(<<>>) = Len(q)
    BY ConcatEmptySeq, SubSeqFull
  <2>3. Requeue(q, <<>>) = q
    BY <2>1, <2>2 DEF Requeue
  <2>4. Evicted(q, <<>>) = {}
    <3>1. SubSeq(q, 1, 0) = <<>>
      BY SubSeqEmpty
    <3> QED
      BY <2>1, <2>2, <3>1 DEF Evicted, Ids
  <2>5. closed[0] = [q |-> Requeue(q, upTo(0)), gone |-> Evicted(q, upTo(0))]
    BY <1>1
  <2> HIDE DEF closed, upTo
  <2> QED
    BY <2>1, <2>3, <2>4, <2>5
<1>3. ASSUME NEW i \in 1 .. n PROVE closed[i] = ShiftStep(closed[i - 1], es[i])
  <2>1. i - 1 \in 0 .. n /\ i \in 0 .. n /\ 1 \in 1 .. n /\ i \in 1 .. Len(es)
    BY <1>1
  <2>2. es[i] \in Entry /\ upTo(i - 1) \in Seq(Entry)
    <3>1. \A k \in 1 .. i - 1 : es[k] \in Entry
      <4>1. 1 .. i - 1 \subseteq 1 .. Len(es)
        BY <1>1
      <4> QED
        BY <4>1, ElementOfSeq
    <3>2. 1 \in Int /\ i - 1 \in Int
      BY <1>1
    <3> QED
      BY <2>1, <3>1, <3>2, SubSeqProperties, ElementOfSeq
  <2>3. upTo(i) = Append(upTo(i - 1), es[i])
    <3>1. upTo(i) = upTo(i - 1) \o <<es[i]>>
      <4>1. 1 \in 1 .. Len(es) /\ i \in 1 .. Len(es)
        BY <2>1
      <4> QED
        BY <4>1, SubSeqRecursiveSecond
    <3> HIDE DEF upTo
    <3> QED
      BY <2>2, <3>1, AppendIsConcat
  <2>4. /\ closed[i] = [q |-> Requeue(q, upTo(i)), gone |-> Evicted(q, upTo(i))]
        /\ closed[i - 1] = [q    |-> Requeue(q, upTo(i - 1)),
                            gone |-> Evicted(q, upTo(i - 1))]
    BY <2>1
  <2> HIDE DEF closed, upTo
  <2> QED
    BY <2>2, <2>3, <2>4, OneMoreComesBack
<1>4. IsRun(closed)
  <2> DEFINE g == [i \in 0 .. n |-> IF i = 0 THEN start
                                    ELSE ShiftStep(closed[i - 1], es[i])]
  <2>1. \A i \in 0 .. n : i = 0 \/ i \in 1 .. n
    BY <1>1
  <2>2. DOMAIN closed = 0 .. n /\ closed = [i \in 0 .. n |-> closed[i]]
    OBVIOUS
  <2> HIDE DEF closed, start
  <2>3. \A i \in 0 .. n : closed[i] = IF i = 0 THEN start
                                       ELSE ShiftStep(closed[i - 1], es[i])
    BY <1>2, <1>3, <2>1
  <2> HIDE DEF n
  <2> QED
    BY <2>2, <2>3
<1>5. ASSUME NEW f, IsRun(f) PROVE f[n] = closed[n]
  <2> HIDE DEF closed, start
  <2> DEFINE S == {i \in 0 .. n : f[i] = closed[i]}
  <2>1. 0 \in S
    BY <1>1, <1>2, <1>5
  <2>2. ASSUME NEW i \in 1 .. n, i - 1 \in S PROVE i \in S
    <3>1. i \in 0 .. n /\ i # 0
      BY <1>1
    <3>2. f[i] = ShiftStep(f[i - 1], es[i])
      BY <1>5, <3>1
    <3> QED
      BY <1>3, <2>2, <3>1, <3>2
  <2>3. n \in Nat /\ n \in 0 .. n
    BY <1>1
  <2> HIDE DEF S, n
  <2>4. 0 .. n \subseteq S
    BY <2>1, <2>2, <2>3, FromZero
  <2> QED
    BY <2>3, <2>4 DEF S
<1>6. RequeueLoop(q, es) = (CHOOSE f : IsRun(f))[n]
  BY DEF RequeueLoop
<1>7. IsRun(CHOOSE f : IsRun(f))
  <2> HIDE DEF IsRun, closed
  <2> QED
    BY <1>4
<1>8. RequeueLoop(q, es) = closed[n]
  <2> HIDE DEF IsRun, closed, n
  <2> QED
    BY <1>5, <1>6, <1>7
<1>9. closed[n] = [q |-> Requeue(q, es), gone |-> Evicted(q, es)]
  <2>1. upTo(n) = es
    BY SubSeqFull
  <2> HIDE DEF upTo
  <2> QED
    BY <1>1, <2>1
<1> QED
  BY <1>8, <1>9 DEF RequeueIsItsLoop

(* takeBatch() is its loop: the entries up to the i-th are split as the    *)
(* closed forms split them.                                                *)
LEMMA UpTo ==
    ASSUME NEW I \in SUBSET (Nat \ {0}), NEW i \in Nat \ {0}
    PROVE  /\ i \in I => I \cap (1 .. i) = (I \cap (1 .. i - 1)) \cup {i}
           /\ i \notin I => I \cap (1 .. i) = I \cap (1 .. i - 1)
           /\ \A j \in I \cap (1 .. i - 1) : j < i
           /\ i \notin I \cap (1 .. i - 1)
<1>1. 1 .. i = (1 .. i - 1) \cup {i}
  OBVIOUS
<1> QED
  BY <1>1

LEMMA CountUpTo ==
    ASSUME NEW I \in SUBSET (Nat \ {0}), IsFiniteSet(I), NEW i \in Nat \ {0}
    PROVE  /\ Cardinality(I \cap (1 .. i)) =
                IF i \in I THEN Cardinality(I \cap (1 .. i - 1)) + 1
                ELSE Cardinality(I \cap (1 .. i - 1))
           /\ {j \in I : j <= i} = I \cap (1 .. i)
<1>1. Cardinality(I \cap (1 .. i)) =
        IF i \in I THEN Cardinality(I \cap (1 .. i - 1)) + 1
        ELSE Cardinality(I \cap (1 .. i - 1))
  <2>1. CASE i \in I
    <3> DEFINE A == I \cap (1 .. i - 1)
    <3>1. IsFiniteSet(A)
      BY FS_Subset
    <3>2. I \cap (1 .. i) = A \cup {i} /\ i \notin A
      BY <2>1, UpTo
    <3> HIDE DEF A
    <3>3. Cardinality(A \cup {i}) = Cardinality(A) + 1
      BY <3>1, <3>2, FS_AddElement
    <3> QED
      BY <2>1, <3>2, <3>3 DEF A
  <2>2. CASE i \notin I
    BY <2>2, UpTo
  <2> QED
    BY <2>1, <2>2
<1>2. {j \in I : j <= i} = I \cap (1 .. i)
  <2>1. \A j \in I : j \in Nat /\ j >= 1
    OBVIOUS
  <2>2. \A j \in I : j <= i <=> j \in 1 .. i
    BY <2>1
  <2> QED
    BY <2>2
<1> QED
  BY <1>1, <1>2

(* The live entries are taken one after the other until the batch is full. *)
LEMMA TakenUpTo ==
    ASSUME NEW q \in Seq(Entry), NEW nowMs
    PROVE  \A i \in 0 .. Len(q) :
             LET live == Cardinality(Live(q, nowMs) \cap (1 .. i))
             IN  Cardinality(Taken(q, nowMs) \cap (1 .. i)) =
                   IF live <= MaxBatchSize THEN live ELSE MaxBatchSize
<1> DEFINE n == Len(q)
           L == Live(q, nowMs)
           K == Taken(q, nowMs)
           live(i) == Cardinality(L \cap (1 .. i))
           taken(i) == Cardinality(K \cap (1 .. i))
           few(i) == IF live(i) <= MaxBatchSize THEN live(i) ELSE MaxBatchSize
           S == {i \in 0 .. n : taken(i) = few(i)}
<1>1. /\ n \in Nat /\ L \subseteq 1 .. n /\ K \subseteq L
      /\ K = {i \in L : Cardinality({j \in L : j <= i}) <= MaxBatchSize}
      /\ MaxBatchSize \in Nat
  BY QueueAssumption DEF Live, Taken
<1> HIDE DEF n, L, K
<1>2. /\ IsFiniteSet(L) /\ IsFiniteSet(K)
      /\ L \in SUBSET (Nat \ {0}) /\ K \in SUBSET (Nat \ {0})
  <2>1. IsFiniteSet(1 .. n) /\ 1 .. n \subseteq Nat \ {0}
    BY <1>1, SizeOfInterval
  <2>2. IsFiniteSet(L)
    BY <1>1, <2>1, FS_Subset
  <2>3. IsFiniteSet(K)
    BY <1>1, <2>2, FS_Subset
  <2> QED
    BY <1>1, <2>1, <2>2, <2>3
<1>3. \A i \in 0 .. n : /\ IsFiniteSet(L \cap (1 .. i)) /\ live(i) \in Nat
                        /\ IsFiniteSet(K \cap (1 .. i)) /\ taken(i) \in Nat
  <2> SUFFICES ASSUME NEW i \in 0 .. n
               PROVE  /\ IsFiniteSet(L \cap (1 .. i)) /\ live(i) \in Nat
                      /\ IsFiniteSet(K \cap (1 .. i)) /\ taken(i) \in Nat
    OBVIOUS
  <2>1. L \cap (1 .. i) \in SUBSET L /\ K \cap (1 .. i) \in SUBSET K
    OBVIOUS
  <2> QED
    BY <1>2, <2>1, FS_Subset, FS_CardinalityType
<1>4. 0 \in S
  <2>1. L \cap (1 .. 0) = {} /\ K \cap (1 .. 0) = {}
    OBVIOUS
  <2>2. taken(0) = 0 /\ few(0) = 0
    BY <1>1, <2>1, FS_EmptySet
  <2> HIDE DEF taken, few
  <2> QED
    BY <1>1, <2>2
<1>5. ASSUME NEW i \in 1 .. n, taken(i - 1) = few(i - 1) PROVE taken(i) = few(i)
  <2>1. i \in Nat \ {0} /\ i - 1 \in 0 .. n /\ i \in 0 .. n
    BY <1>1
  <2>2. live(i) = IF i \in L THEN live(i - 1) + 1 ELSE live(i - 1)
    BY <1>2, <2>1, CountUpTo
  <2>3. taken(i) = IF i \in K THEN taken(i - 1) + 1 ELSE taken(i - 1)
    BY <1>2, <2>1, CountUpTo
  <2>4. i \in K <=> i \in L /\ live(i) <= MaxBatchSize
    <3>1. {j \in L : j <= i} = L \cap (1 .. i)
      BY <1>2, <2>1, CountUpTo
    <3> QED
      BY <1>1, <3>1
  <2>5. live(i - 1) \in Nat /\ live(i) \in Nat /\ taken(i - 1) \in Nat
    BY <1>3, <2>1
  <2> HIDE DEF live, taken
  <2> QED
    BY <1>1, <1>5, <2>2, <2>3, <2>4, <2>5
<1> HIDE DEF taken, few
<1>6. ASSUME NEW i \in 1 .. n, i - 1 \in S PROVE i \in S
  <2>1. i \in 0 .. n
    BY <1>1
  <2> QED
    BY <1>5, <1>6, <2>1
<1>7. 0 .. n \subseteq S
  <2> HIDE DEF S
  <2> QED
    BY <1>1, <1>4, <1>6, FromZero
<1> QED
  BY <1>7 DEF taken, few, L, K, n

LEMMA AtUpTo ==
    ASSUME NEW q \in Seq(Entry), NEW I \in SUBSET (1 .. Len(q)), NEW i \in 1 .. Len(q)
    PROVE  /\ i \in I => At(q, I \cap (1 .. i)) = Append(At(q, I \cap (1 .. i - 1)), q[i])
           /\ i \notin I => At(q, I \cap (1 .. i)) = At(q, I \cap (1 .. i - 1))
<1> DEFINE A == I \cap (1 .. i - 1)
<1>1. I \in SUBSET (Nat \ {0}) /\ i \in Nat \ {0} /\ DOMAIN q = 1 .. Len(q)
  OBVIOUS
<1>2. /\ i \in I => I \cap (1 .. i) = A \cup {i}
      /\ i \notin I => I \cap (1 .. i) = A
      /\ \A j \in A : j < i
  BY <1>1, UpTo
<1>3. A \in SUBSET DOMAIN q /\ i \in DOMAIN q
  BY <1>1
<1> HIDE DEF A
<1>4. At(q, A \cup {i}) = Append(At(q, A), q[i])
  BY <1>2, <1>3, AtAppend
<1> QED
  BY <1>2, <1>4 DEF A

LEMMA TakeIsLoop ==
    ASSUME NEW q \in Seq(Entry), NEW nowMs \in Nat
    PROVE  TakeBatchIsItsLoop(q, nowMs)
<1> DEFINE n == Len(q)
           L == Live(q, nowMs)
           K == Taken(q, nowMs)
           R == L \ K
           start == [batch |-> <<>>, rest |-> <<>>, expired |-> {}]
           old(i) == {q[j].id : j \in (1 .. i) \ L}
           closed == [i \in 0 .. n |-> [batch   |-> At(q, K \cap (1 .. i)),
                                       rest    |-> At(q, R \cap (1 .. i)),
                                       expired |-> old(i)]]
           IsRun(f) == f = [i \in 0 .. n |-> IF i = 0 THEN start
                                             ELSE TakeStep(nowMs, f[i - 1], q[i])]
<1>1. /\ n \in Nat /\ DOMAIN q = 1 .. n
      /\ L = {i \in 1 .. n : nowMs - q[i].at <= MaxEventAge}
      /\ K = {i \in L : Cardinality({j \in L : j <= i}) <= MaxBatchSize}
      /\ L \subseteq 1 .. n /\ K \subseteq 1 .. n /\ R \subseteq 1 .. n
      /\ MaxBatchSize \in Nat /\ MaxEventAge \in Nat
  BY QueueAssumption DEF Live, Taken
<1>2. closed[0] = start
  <2>1. K \cap (1 .. 0) = {} /\ R \cap (1 .. 0) = {} /\ (1 .. 0) \ L = {}
    OBVIOUS
  <2>2. At(q, {}) = <<>>
    BY AtIds
  <2>3. old(0) = {}
    BY <2>1
  <2>4. closed[0] = [batch   |-> At(q, K \cap (1 .. 0)),
                     rest    |-> At(q, R \cap (1 .. 0)),
                     expired |-> old(0)]
    BY <1>1
  <2> HIDE DEF closed, old, K, R, L
  <2> QED
    BY <2>1, <2>2, <2>3, <2>4
<1>3. ASSUME NEW i \in 1 .. n PROVE closed[i] = TakeStep(nowMs, closed[i - 1], q[i])
  <2> DEFINE batch == At(q, K \cap (1 .. i - 1))
             rest == At(q, R \cap (1 .. i - 1))
  <2>1. /\ i \in Nat \ {0} /\ i - 1 \in 0 .. n /\ i \in 0 .. n
        /\ q[i] \in Entry /\ q[i].at \in Nat
    <3>1. q[i] \in Entry
      BY ElementOfSeq
    <3> QED
      BY <1>1, <3>1 DEF Entry
  <2>2. /\ closed[i] = [batch   |-> At(q, K \cap (1 .. i)),
                        rest    |-> At(q, R \cap (1 .. i)),
                        expired |-> old(i)]
        /\ closed[i - 1] = [batch |-> batch, rest |-> rest, expired |-> old(i - 1)]
    BY <2>1
  <2>k. K \in SUBSET (1 .. Len(q)) /\ R \in SUBSET (1 .. Len(q)) /\ i \in 1 .. Len(q)
    BY <1>1
  <2>3. /\ i \in K => At(q, K \cap (1 .. i)) = Append(batch, q[i])
        /\ i \notin K => At(q, K \cap (1 .. i)) = batch
    <3> HIDE DEF K
    <3> QED
      BY <2>k, AtUpTo
  <2>4. /\ i \in R => At(q, R \cap (1 .. i)) = Append(rest, q[i])
        /\ i \notin R => At(q, R \cap (1 .. i)) = rest
    <3> HIDE DEF R
    <3> QED
      BY <2>k, AtUpTo
  <2>5. old(i) = IF i \in L THEN old(i - 1) ELSE old(i - 1) \cup {q[i].id}
    <3>1. 1 .. i = (1 .. i - 1) \cup {i}
      BY <2>1
    <3> HIDE DEF L
    <3> QED
      BY <3>1
  <2>6. i \in L <=> ~(nowMs - q[i].at > MaxEventAge)
    <3> HIDE DEF L
    <3> QED
      BY <1>1, <2>1
  <2>7. i \in L => (i \in K <=> Len(batch) < MaxBatchSize)
    <3> DEFINE live(k) == Cardinality(L \cap (1 .. k))
    <3>1. /\ L \in SUBSET (Nat \ {0}) /\ IsFiniteSet(L)
      <4> HIDE DEF L
      <4> QED
        BY <1>1, SizeOfInterval, FS_Subset
    <3>2. /\ live(i) = IF i \in L THEN live(i - 1) + 1 ELSE live(i - 1)
          /\ {j \in L : j <= i} = L \cap (1 .. i)
      <4> HIDE DEF L
      <4> QED
        BY <2>1, <3>1, CountUpTo
    <3>3. Len(batch) = Cardinality(K \cap (1 .. i - 1))
      <4> HIDE DEF K
      <4>1. K \cap (1 .. i - 1) \in SUBSET DOMAIN q
        BY <1>1
      <4> QED
        BY <4>1, AtIs
    <3>4. Cardinality(K \cap (1 .. i - 1)) =
            IF live(i - 1) <= MaxBatchSize THEN live(i - 1) ELSE MaxBatchSize
      BY <2>1, TakenUpTo
    <3>5. live(i - 1) \in Nat
      <4> HIDE DEF L
      <4>1. L \cap (1 .. i - 1) \in SUBSET L
        OBVIOUS
      <4> QED
        BY <3>1, <4>1, FS_Subset, FS_CardinalityType
    <3>6. i \in L => (i \in K <=> live(i) <= MaxBatchSize)
      <4> HIDE DEF L, K
      <4> QED
        BY <1>1, <3>2
    <3> HIDE DEF L, K, live, batch
    <3> QED
      BY <1>1, <3>2, <3>3, <3>4, <3>5, <3>6
  <2>8. i \in R <=> i \in L /\ i \notin K
    OBVIOUS
  <2>9. i \in K => i \in L
    BY <1>1
  <2> DEFINE gone == old(i - 1)
  <2>10. closed[i - 1] = [batch |-> batch, rest |-> rest, expired |-> gone]
    BY <2>2
  <2> HIDE DEF closed, L, K, R, batch, rest, gone
  <2>step. /\ nowMs - q[i].at > MaxEventAge
               => TakeStep(nowMs, [batch |-> batch, rest |-> rest, expired |-> gone], q[i]) =
                    [batch |-> batch, rest |-> rest, expired |-> gone \cup {q[i].id}]
           /\ ~(nowMs - q[i].at > MaxEventAge) /\ Len(batch) < MaxBatchSize
               => TakeStep(nowMs, [batch |-> batch, rest |-> rest, expired |-> gone], q[i]) =
                    [batch |-> Append(batch, q[i]), rest |-> rest, expired |-> gone]
           /\ ~(nowMs - q[i].at > MaxEventAge) /\ ~(Len(batch) < MaxBatchSize)
               => TakeStep(nowMs, [batch |-> batch, rest |-> rest, expired |-> gone], q[i]) =
                    [batch |-> batch, rest |-> Append(rest, q[i]), expired |-> gone]
    BY DEF TakeStep
  <2>11. CASE i \notin L
    <3>1. closed[i] = [batch |-> batch, rest |-> rest, expired |-> gone \cup {q[i].id}]
      BY <2>2, <2>3, <2>4, <2>5, <2>8, <2>9, <2>11 DEF gone
    <3>2. nowMs - q[i].at > MaxEventAge
      BY <2>6, <2>11
    <3> QED
      BY <2>step, <2>10, <3>1, <3>2
  <2>12. CASE i \in K
    <3>1. closed[i] = [batch |-> Append(batch, q[i]), rest |-> rest, expired |-> gone]
      BY <2>2, <2>3, <2>4, <2>5, <2>8, <2>9, <2>12 DEF gone
    <3>2. ~(nowMs - q[i].at > MaxEventAge) /\ Len(batch) < MaxBatchSize
      BY <2>6, <2>7, <2>9, <2>12
    <3> QED
      BY <2>step, <2>10, <3>1, <3>2
  <2>13. CASE i \in L /\ i \notin K
    <3>1. closed[i] = [batch |-> batch, rest |-> Append(rest, q[i]), expired |-> gone]
      BY <2>2, <2>3, <2>4, <2>5, <2>8, <2>13 DEF gone
    <3>2. ~(nowMs - q[i].at > MaxEventAge) /\ ~(Len(batch) < MaxBatchSize)
      BY <2>6, <2>7, <2>13
    <3> QED
      BY <2>step, <2>10, <3>1, <3>2
  <2> QED
    BY <2>9, <2>11, <2>12, <2>13
<1>4. IsRun(closed)
  <2>1. \A i \in 0 .. n : i = 0 \/ i \in 1 .. n
    BY <1>1
  <2>2. DOMAIN closed = 0 .. n /\ closed = [i \in 0 .. n |-> closed[i]]
    OBVIOUS
  <2> HIDE DEF closed, start
  <2>3. \A i \in 0 .. n : closed[i] = IF i = 0 THEN start
                                       ELSE TakeStep(nowMs, closed[i - 1], q[i])
    BY <1>2, <1>3, <2>1
  <2> HIDE DEF n
  <2> QED
    BY <2>2, <2>3
<1>5. ASSUME NEW f, IsRun(f) PROVE f[n] = closed[n]
  <2> HIDE DEF closed, start
  <2> DEFINE S == {i \in 0 .. n : f[i] = closed[i]}
  <2>1. 0 \in S
    BY <1>1, <1>2, <1>5
  <2>2. ASSUME NEW i \in 1 .. n, i - 1 \in S PROVE i \in S
    <3>1. i \in 0 .. n /\ i # 0
      BY <1>1
    <3>2. f[i] = TakeStep(nowMs, f[i - 1], q[i])
      BY <1>5, <3>1
    <3> QED
      BY <1>3, <2>2, <3>1, <3>2
  <2>3. n \in Nat /\ n \in 0 .. n
    BY <1>1
  <2> HIDE DEF S, n
  <2>4. 0 .. n \subseteq S
    BY <2>1, <2>2, <2>3, FromZero
  <2> QED
    BY <2>3, <2>4 DEF S
<1>6. TakeLoop(q, nowMs) = (CHOOSE f : IsRun(f))[n]
  BY DEF TakeLoop
<1>7. IsRun(CHOOSE f : IsRun(f))
  <2> HIDE DEF IsRun, closed
  <2> QED
    BY <1>4
<1>8. TakeLoop(q, nowMs) = closed[n]
  <2> HIDE DEF IsRun, closed, n
  <2> QED
    BY <1>5, <1>6, <1>7
<1>9. closed[n] = [batch |-> At(q, K), rest |-> At(q, R), expired |-> Expired(q, nowMs)]
  <2>1. K \cap (1 .. n) = K /\ R \cap (1 .. n) = R
    BY <1>1
  <2>2. old(n) = Expired(q, nowMs)
    BY <1>1 DEF Expired
  <2>3. n \in 0 .. n
    BY <1>1
  <2>4. closed[n] = [batch   |-> At(q, K \cap (1 .. n)),
                     rest    |-> At(q, R \cap (1 .. n)),
                     expired |-> old(n)]
    BY <2>3
  <2> HIDE DEF closed, old, K, R, L, n
  <2> QED
    BY <2>1, <2>2, <2>4
<1> HIDE DEF closed
<1> QED
  BY <1>8, <1>9 DEF TakeBatchIsItsLoop, Batch, Remaining

(* removeByIds() and removeByPurpose() are their loop: after i iterations  *)
(* the last i entries have been looked at and what matched is gone.        *)
LEMMA WalkBackIs ==
    ASSUME NEW q \in Seq(Entry), NEW drop
    PROVE  WalkBack(q, drop) = [q |-> RemoveByIds(q, drop), gone |-> Ids(q) \cap drop]
<1> DEFINE n == Len(q)
           hit(j) == q[j].id \in drop
           keep(i) == {j \in 1 .. n : j <= n - i \/ ~hit(j)}
           lost(i) == {j \in 1 .. n : j > n - i /\ hit(j)}
           ids(J) == {q[j].id : j \in J}
           start == [q |-> q, gone |-> {}]
           closed == [i \in 0 .. n |-> [q |-> At(q, keep(i)), gone |-> ids(lost(i))]]
           IsRun(f) == f = [i \in 0 .. n |-> IF i = 0 THEN start
                                             ELSE SpliceStep(drop, f[i - 1], n - i + 1)]
<1>1. n \in Nat /\ DOMAIN q = 1 .. n
  OBVIOUS
<1>2. closed[0] = start
  <2>1. keep(0) = 1 .. n /\ lost(0) = {}
    <3> HIDE DEF n, hit
    <3> QED
      BY <1>1
  <2>2. At(q, 1 .. n) = q
    BY <1>1, AtAll
  <2>3. closed[0] = [q |-> At(q, keep(0)), gone |-> ids(lost(0))]
    BY <1>1
  <2>4. ids({}) = {}
    OBVIOUS
  <2> HIDE DEF closed, keep, lost, ids
  <2> QED
    BY <2>1, <2>2, <2>3, <2>4
<1>3. ASSUME NEW i \in 1 .. n
      PROVE  closed[i] = SpliceStep(drop, closed[i - 1], n - i + 1)
  <2> DEFINE k == n - i + 1
             I == keep(i - 1)
             J == lost(i - 1)
             s == At(q, I)
             g == ids(J)
  <2>1. /\ i \in Nat \ {0} /\ i - 1 \in 0 .. n /\ i \in 0 .. n
        /\ k \in Nat \ {0} /\ k \in 1 .. n
        /\ n - i = k - 1 /\ n - (i - 1) = k
    BY <1>1
  <2>2. /\ closed[i] = [q |-> At(q, keep(i)), gone |-> ids(lost(i))]
        /\ closed[i - 1] = [q |-> s, gone |-> g]
    BY <2>1
  <2>3. /\ I \in SUBSET DOMAIN q /\ 1 .. k \subseteq I
        /\ keep(i) = IF hit(k) THEN I \ {k} ELSE I
        /\ lost(i) = IF hit(k) THEN J \cup {k} ELSE J
    <3>1. /\ keep(i) = {j \in 1 .. n : j <= k - 1 \/ ~hit(j)}
          /\ lost(i) = {j \in 1 .. n : j > k - 1 /\ hit(j)}
          /\ I = {j \in 1 .. n : j <= k \/ ~hit(j)}
          /\ J = {j \in 1 .. n : j > k /\ hit(j)}
      BY <2>1
    <3> HIDE DEF keep, lost, hit, k, I, J, n
    <3>2. \A j \in 1 .. n : j <= k <=> j <= k - 1 \/ j = k
      BY <1>1, <2>1
    <3>3. \A j \in 1 .. n : j > k - 1 <=> j > k \/ j = k
      BY <1>1, <2>1
    <3>4. \A j \in 1 .. n : ~(j <= k - 1 /\ j = k) /\ (j > k <=> ~(j <= k))
      BY <1>1, <2>1
    <3>5. I \in SUBSET DOMAIN q /\ 1 .. k \subseteq I
      BY <1>1, <2>1, <3>1
    <3>6. keep(i) = IF hit(k) THEN I \ {k} ELSE I
      BY <2>1, <3>1, <3>2, <3>4
    <3>7. lost(i) = IF hit(k) THEN J \cup {k} ELSE J
      BY <2>1, <3>1, <3>3
    <3> QED
      BY <3>5, <3>6, <3>7
  <2>4. s[k] = q[k] /\ At(q, I \ {k}) = SubSeq(s, 1, k - 1) \o SubSeq(s, k + 1, Len(s))
    <3> HIDE DEF k, I, n
    <3>1. /\ q \in Seq(Entry) /\ I \in SUBSET DOMAIN q
          /\ k \in Nat \ {0} /\ 1 .. k \subseteq I
      BY <2>1, <2>3
    <3> QED
      BY ONLY <3>1, AtSplice
  <2>5. ids(J \cup {k}) = g \cup {q[k].id}
    <3> HIDE DEF J, k
    <3> QED
      OBVIOUS
  <2> HIDE DEF closed, keep, lost, ids, s, g, I, J
  <2>step. SpliceStep(drop, [q |-> s, gone |-> g], k) =
             IF s[k].id \in drop
             THEN [q    |-> SubSeq(s, 1, k - 1) \o SubSeq(s, k + 1, Len(s)),
                   gone |-> g \cup {s[k].id}]
             ELSE [q |-> s, gone |-> g]
    <3> HIDE DEF k
    <3> QED
      BY DEF SpliceStep
  <2>6. closed[i] = SpliceStep(drop, closed[i - 1], k)
    <3> HIDE DEF k, n
    <3>1. CASE hit(k)
      <4>1. closed[i] = [q    |-> SubSeq(s, 1, k - 1) \o SubSeq(s, k + 1, Len(s)),
                         gone |-> g \cup {q[k].id}]
        BY <2>2, <2>3, <2>4, <2>5, <3>1
      <4> QED
        BY <2>2, <2>4, <2>step, <3>1, <4>1
    <3>2. CASE ~hit(k)
      <4>1. closed[i] = [q |-> s, gone |-> g]
        BY <2>2, <2>3, <3>2 DEF s, g
      <4> QED
        BY <2>2, <2>4, <2>step, <3>2, <4>1
    <3> QED
      BY <3>1, <3>2
  <2> QED
    BY <2>6
<1>4. IsRun(closed)
  <2>1. \A i \in 0 .. n : i = 0 \/ i \in 1 .. n
    BY <1>1
  <2>2. DOMAIN closed = 0 .. n /\ closed = [i \in 0 .. n |-> closed[i]]
    OBVIOUS
  <2> HIDE DEF closed, start
  <2>3. \A i \in 0 .. n : closed[i] = IF i = 0 THEN start
                                       ELSE SpliceStep(drop, closed[i - 1], n - i + 1)
    BY <1>2, <1>3, <2>1
  <2> HIDE DEF n
  <2> QED
    BY <2>2, <2>3
<1>5. ASSUME NEW f, IsRun(f) PROVE f[n] = closed[n]
  <2> HIDE DEF closed, start
  <2> DEFINE S == {i \in 0 .. n : f[i] = closed[i]}
  <2>1. 0 \in S
    BY <1>1, <1>2, <1>5
  <2>2. ASSUME NEW i \in 1 .. n, i - 1 \in S PROVE i \in S
    <3>1. i \in 0 .. n /\ i # 0
      BY <1>1
    <3>2. f[i] = SpliceStep(drop, f[i - 1], n - i + 1)
      BY <1>5, <3>1
    <3> QED
      BY <1>3, <2>2, <3>1, <3>2
  <2>3. n \in Nat /\ n \in 0 .. n
    BY <1>1
  <2> HIDE DEF S, n
  <2>4. 0 .. n \subseteq S
    BY <2>1, <2>2, <2>3, FromZero
  <2> QED
    BY <2>3, <2>4 DEF S
<1>6. WalkBack(q, drop) = (CHOOSE f : IsRun(f))[n]
  BY DEF WalkBack
<1>7. IsRun(CHOOSE f : IsRun(f))
  <2> HIDE DEF IsRun, closed
  <2> QED
    BY <1>4
<1>8. WalkBack(q, drop) = closed[n]
  <2> HIDE DEF IsRun, closed, n
  <2> QED
    BY <1>5, <1>6, <1>7
<1>9. closed[n] = [q |-> RemoveByIds(q, drop), gone |-> Ids(q) \cap drop]
  <2>1. n \in 0 .. n /\ n - n = 0
    BY <1>1
  <2>2. keep(n) = {j \in DOMAIN q : q[j].id \notin drop}
    <3>1. \A j \in 1 .. n : ~(j <= n - n)
      BY <1>1, <2>1
    <3> HIDE DEF n
    <3> QED
      BY <1>1, <3>1
  <2>3. lost(n) = {j \in DOMAIN q : q[j].id \in drop}
    <3>1. \A j \in 1 .. n : j > n - n
      BY <1>1, <2>1
    <3> HIDE DEF n
    <3> QED
      BY <1>1, <3>1
  <2>4. ids(lost(n)) = Ids(q) \cap drop
    <3> HIDE DEF lost, n
    <3> QED
      BY <2>3 DEF Ids
  <2>5. closed[n] = [q |-> At(q, keep(n)), gone |-> ids(lost(n))]
    BY <2>1
  <2> HIDE DEF closed, keep, lost, ids, n
  <2> QED
    BY <2>2, <2>4, <2>5 DEF RemoveByIds
<1> QED
  BY <1>8, <1>9

(* Purposes are removed one after the other.                               *)
LEMMA OnePurposeMore ==
    ASSUME NEW q \in Seq(Entry), NEW P \in SUBSET Purpose, NEW p \in Purpose
    PROVE  WalkBack(RemoveByPurposes(q, P), OfPurpose(p)) =
             [q    |-> RemoveByPurposes(q, P \cup {p}),
              gone |-> Revoked(q, P \cup {p}) \ Revoked(q, P)]
<1> DEFINE I == {i \in DOMAIN q : PurposeOf[q[i].id] \notin P}
           r == At(q, I)
           J == {k \in DOMAIN r : r[k].id \notin OfPurpose(p)}
           M == {i \in DOMAIN q : PurposeOf[q[i].id] \notin P \cup {p}}
<1>1. I \in SUBSET DOMAIN q
  OBVIOUS
<1>2. RemoveByPurposes(q, P) = r /\ RemoveByPurposes(q, P \cup {p}) = At(q, M)
  BY DEF RemoveByPurposes
<1>3. \A i \in DOMAIN q : q[i].id \in Event
  BY EntryOf
<1>4. \A i \in DOMAIN q : /\ i \in I <=> PurposeOf[q[i].id] \notin P
                          /\ i \in M <=> i \in I /\ PurposeOf[q[i].id] # p
  OBVIOUS
<1>m. M \subseteq DOMAIN q
  OBVIOUS
<1>5. \A e \in Event : e \in OfPurpose(p) <=> PurposeOf[e] = p
  BY DEF OfPurpose
<1> HIDE DEF I, M
<1>6. /\ r \in Seq(Entry) /\ DOMAIN r = 1 .. Cardinality(I)
      /\ \A k \in DOMAIN r : Nth(I, k) \in I /\ r[k] = q[Nth(I, k)]
      /\ \A i \in I : \E k \in DOMAIN r : Nth(I, k) = i
      /\ Ids(r) = {q[i].id : i \in I}
  BY <1>1, AtProperties, AtIds
<1>7. J \in SUBSET (1 .. Cardinality(I))
  BY <1>6
<1>8. {Nth(I, k) : k \in J} = M
  <2> HIDE DEF r
  <2>1. ASSUME NEW k \in J PROVE Nth(I, k) \in M
    BY <1>1, <1>3, <1>4, <1>5, <1>6
  <2>2. ASSUME NEW i \in M PROVE \E k \in J : Nth(I, k) = i
    BY <1>1, <1>m, <1>3, <1>4, <1>5, <1>6
  <2> HIDE DEF J
  <2> QED
    BY <2>1, <2>2
<1>9. RemoveByIds(r, OfPurpose(p)) = At(q, M)
  <2>1. RemoveByIds(r, OfPurpose(p)) = At(r, J)
    BY DEF RemoveByIds
  <2> HIDE DEF J
  <2>2. At(r, J) = At(q, {Nth(I, k) : k \in J})
    BY <1>1, <1>7, AtAt
  <2> QED
    BY <1>8, <2>1, <2>2
<1>10. Ids(r) \cap OfPurpose(p) = Revoked(q, P \cup {p}) \ Revoked(q, P)
  <2> HIDE DEF r
  <2>1. ASSUME NEW e PROVE e \in Ids(r) <=> e \in Ids(q) /\ PurposeOf[e] \notin P
    BY <1>1, <1>4, <1>6 DEF Ids
  <2>2. ASSUME NEW e \in Ids(q) PROVE e \in Event
    BY <1>3 DEF Ids
  <2> QED
    BY <1>5, <2>1, <2>2 DEF Revoked
<1>11. WalkBack(r, OfPurpose(p)) =
         [q |-> RemoveByIds(r, OfPurpose(p)), gone |-> Ids(r) \cap OfPurpose(p)]
  <2> HIDE DEF r
  <2> QED
    BY <1>6, WalkBackIs
<1> QED
  BY <1>2, <1>9, <1>10, <1>11

LEMMA RemovalsAreLoops ==
    ASSUME NEW q \in Seq(Entry)
    PROVE  RemovalsAreTheirLoops(q)
<1>1. ASSUME NEW ids \in SUBSET Event PROVE WalkBack(q, ids).q = RemoveByIds(q, ids)
  BY WalkBackIs
<1>2. RemoveByPurposes(q, {}) = q
  <2>1. {i \in DOMAIN q : PurposeOf[q[i].id] \notin {}} = DOMAIN q
    OBVIOUS
  <2> QED
    BY <2>1, AtAll DEF RemoveByPurposes
<1> QED
  BY <1>1, <1>2, OnePurposeMore DEF RemovalsAreTheirLoops

(* Each method of the queue is its loop: for a queue of any length within  *)
(* the capacity, any entries that come back and any time, the closed forms *)
(* keep, hand out, drop and report exactly what the loops of               *)
(* browser/event-queue.ts do.                                              *)
THEOREM QueueMethodsAreLoops ==
    \A q \in Seq(Entry) : Len(q) <= Capacity =>
        /\ \A es \in Seq(Entry) : RequeueIsItsLoop(q, es)
        /\ \A nowMs \in Nat : TakeBatchIsItsLoop(q, nowMs)
        /\ RemovalsAreTheirLoops(q)
BY RequeueIsLoop, TakeIsLoop, RemovalsAreLoops
=============================================================================
