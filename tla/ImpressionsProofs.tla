-------------------------- MODULE ImpressionsProofs --------------------------
(***************************************************************************)
(* Theorems about Impressions, for any elements, subjects and surfaces,    *)
(* any number of views and of failing captures, and any minVisibleMs.      *)
(***************************************************************************)
EXTENDS Impressions, TLAPS

(* The part of the types that an evaluation of a target can disturb. *)
Evaluated ==
    /\ since \in [Observation -> (0 .. Dwell) \cup {None}]
    /\ armed \subseteq Observation
    /\ inflight \subseteq Subject
    /\ watched \subseteq Element
    /\ unreported \subseteq watched
    /\ calls \in [View \X Subject -> Nat]

(* Only an element with an observation is watched. *)
WatchedIsObserved == \A e \in watched : targets[e] # None

(* An observation in use tells its element, so no two elements share one. *)
ObservedIsDescribed ==
    \A e \in Element : targets[e] # None =>
        about[targets[e]] # None /\ about[targets[e]].element = e

LEMMA ClearTyped ==
    ASSUME TypeOK, NEW O, Clear(O)
    PROVE  /\ since' \in [Observation -> (0 .. Dwell) \cup {None}]
           /\ armed' \subseteq armed
           /\ \A o \in Observation : since'[o] = IF o \in O THEN None ELSE since[o]
BY DEF TypeOK, Clear

LEMMA StartTyped ==
    ASSUME TypeOK, NEW O \in SUBSET Observation, Start(O)
    PROVE  /\ since' \in [Observation -> (0 .. Dwell) \cup {None}]
           /\ armed' = armed \cup O
           /\ \A o \in Observation : since'[o] = IF o \in O THEN 0 ELSE since[o]
BY ImpressionsAssumption DEF TypeOK, Start

(* The four outcomes of tryEmitImpression() in terms of what they write. *)
LEMMA EmitEffect ==
    ASSUME TypeOK, NEW o \in Observation, Emit(o)
    PROVE  /\ \/ Clear({o})
              \/ /\ since' = since /\ armed' = armed \ {o}
                 /\ view = 0 \/ about[o].subject \in inflight
           /\ \/ inflight' = inflight /\ calls' = calls
              \/ LET s == about[o].subject IN
                 /\ s \in Eligible \ (counted \cup inflight)
                 /\ view # 0
                 /\ inflight' = inflight \cup {s}
                 /\ calls' = [calls EXCEPT ![<<view, s>>] = @ + 1]
           /\ \/ watched' = watched /\ unreported' = unreported
              \/ /\ Unwatch({about[o].element})
                 /\ about[o].subject \in counted
BY Zenon DEF Emit

LEMMA CallTyped ==
    ASSUME TypeOK, NEW s \in Subject, view # 0,
           calls' = [calls EXCEPT ![<<view, s>>] = @ + 1]
    PROVE  /\ view \in View
           /\ calls' \in [View \X Subject -> Nat]
           /\ \A c \in View \X Subject :
                calls'[c] = IF c = <<view, s>> THEN calls[c] + 1 ELSE calls[c]
<1>1. view \in View
  BY ImpressionsAssumption DEF TypeOK, View
<1>2. <<view, s>> \in View \X Subject
  BY <1>1
<1> DEFINE C == View \X Subject
           v == <<view, s>>
<1>3. calls \in [C -> Nat] /\ v \in C /\ calls' = [calls EXCEPT ![v] = @ + 1]
  BY <1>2 DEF TypeOK
<1> HIDE DEF C, v
<1>4. /\ calls' \in [C -> Nat]
      /\ \A c \in C : calls'[c] = IF c = v THEN calls[c] + 1 ELSE calls[c]
  BY <1>3
<1> QED
  BY <1>1, <1>4 DEF C, v

LEMMA EmitTyped ==
    ASSUME TypeOK, NEW o \in Observation, Emit(o)
    PROVE  Evaluated'
<1>1. since' \in [Observation -> (0 .. Dwell) \cup {None}] /\ armed' \subseteq Observation
  <2>1. CASE Clear({o})
    BY <2>1, ClearTyped DEF TypeOK
  <2>2. CASE since' = since /\ armed' = armed \ {o}
    BY <2>2 DEF TypeOK
  <2> QED
    BY <2>1, <2>2, EmitEffect
<1>2. inflight' \subseteq Subject /\ (calls \in [View \X Subject -> Nat])'
  <2>1. CASE inflight' = inflight /\ calls' = calls
    BY <2>1 DEF TypeOK
  <2>2. CASE ~(inflight' = inflight /\ calls' = calls)
    <3> DEFINE s == about[o].subject
    <3>1. /\ s \in Eligible
          /\ view # 0
          /\ inflight' = inflight \cup {s}
          /\ calls' = [calls EXCEPT ![<<view, s>>] = @ + 1]
      BY <2>2, EmitEffect
    <3> HIDE DEF s
    <3>2. s \in Subject
      BY <3>1, ImpressionsAssumption
    <3>3. calls' \in [View \X Subject -> Nat]
      BY <3>1, <3>2, CallTyped
    <3> QED
      BY <3>1, <3>2, <3>3 DEF TypeOK, View
  <2> QED
    BY <2>1, <2>2
<1>3. watched' \subseteq Element /\ unreported' \subseteq watched'
  BY EmitEffect DEF Unwatch, TypeOK
<1> QED
  BY <1>1, <1>2, <1>3 DEF Evaluated

LEMMA EvaluateTyped ==
    ASSUME TypeOK, NEW o \in Observation, NEW q \in BOOLEAN, Evaluate(o, q)
    PROVE  /\ since' \in [Observation -> (0 .. Dwell) \cup {None}]
           /\ armed' \subseteq Observation
           /\ inflight' = inflight
           /\ calls' = calls
<1>1. CASE Clear({o}) /\ UNCHANGED <<inflight, calls>>
  BY <1>1, ClearTyped DEF TypeOK
<1>2. CASE Start({o}) /\ UNCHANGED <<inflight, calls>>
  BY <1>2, StartTyped DEF TypeOK
<1>3. CASE armed' = armed \cup {o} /\ UNCHANGED <<since, inflight, calls>>
  BY <1>3 DEF TypeOK
<1> QED
  BY <1>1, <1>2, <1>3 DEF Evaluate

(* A sample of an element that is watched. *)
LEMMA SampleTyped ==
    ASSUME TypeOK, WatchedIsObserved, NEW e \in watched, NEW inView \in BOOLEAN,
           Sample(e, inView)
    PROVE  /\ targets[e] \in Observation
           /\ ratio' \subseteq Observation
           /\ watched' \subseteq watched
           /\ Evaluated'
<1> DEFINE o == targets[e]
<1>1. o \in Observation
  BY DEF TypeOK, WatchedIsObserved
<1>2. ratio' \subseteq Observation
  BY <1>1 DEF Sample, TypeOK
<1>3. CASE (inView /\ visible) /\ since[o] = Dwell
  <2>1. Emit(o)
    BY <1>3 DEF Sample
  <2>2. watched' \subseteq watched
    BY <1>1, <2>1, EmitEffect DEF Unwatch
  <2> QED
    BY <1>1, <1>2, <2>1, <2>2, EmitTyped
<1>4. CASE ~((inView /\ visible) /\ since[o] = Dwell)
  <2>1. /\ Evaluate(o, inView /\ visible)
        /\ watched' = watched
        /\ unreported' = unreported \ {e}
    BY <1>4 DEF Sample
  <2>2. (inView /\ visible) \in BOOLEAN
    BY DEF TypeOK
  <2>3. /\ since' \in [Observation -> (0 .. Dwell) \cup {None}]
        /\ armed' \subseteq Observation
        /\ inflight' = inflight
        /\ calls' = calls
    BY <1>1, <2>1, <2>2, EvaluateTyped
  <2> QED
    BY <1>1, <1>2, <2>1, <2>3 DEF TypeOK, Evaluated, View
<1> QED
  BY <1>3, <1>4

(* A capture that ends, and one that is accepted. *)
LEMMA EndedTyped ==
    ASSUME TypeOK, NEW v \in View, NEW s \in Subject, calls[<<v, s>>] > 0,
           calls' = [calls EXCEPT ![<<v, s>>] = @ - 1]
    PROVE  /\ calls' \in [View \X Subject -> Nat]
           /\ \A c \in View \X Subject :
                calls'[c] = IF c = <<v, s>> THEN calls[c] - 1 ELSE calls[c]
<1> DEFINE C == View \X Subject
           c0 == <<v, s>>
<1>1. /\ calls \in [C -> Nat] /\ c0 \in C /\ calls[c0] > 0
      /\ calls' = [calls EXCEPT ![c0] = @ - 1]
  BY DEF TypeOK
<1> HIDE DEF C, c0
<1>2. /\ calls' \in [C -> Nat]
      /\ \A c \in C : calls'[c] = IF c = c0 THEN calls[c] - 1 ELSE calls[c]
  BY <1>1
<1> QED
  BY <1>2 DEF C, c0

LEMMA AcceptedTyped ==
    ASSUME TypeOK, NEW v \in View, NEW s \in Subject,
           accepted' = [accepted EXCEPT ![<<v, s>>] = @ + 1]
    PROVE  /\ accepted' \in [View \X Subject -> Nat]
           /\ \A c \in View \X Subject :
                accepted'[c] = IF c = <<v, s>> THEN accepted[c] + 1 ELSE accepted[c]
<1> DEFINE C == View \X Subject
           c0 == <<v, s>>
<1>1. /\ accepted \in [C -> Nat] /\ c0 \in C
      /\ accepted' = [accepted EXCEPT ![c0] = @ + 1]
  BY DEF TypeOK
<1> HIDE DEF C, c0
<1>2. /\ accepted' \in [C -> Nat]
      /\ \A c \in C : accepted'[c] = IF c = c0 THEN accepted[c] + 1 ELSE accepted[c]
  BY <1>1
<1> QED
  BY <1>2 DEF C, c0

LEMMA ForgetTyped ==
    ASSUME TypeOK, NEW O, Forget(O)
    PROVE  /\ targets' \in [Element -> Observation \cup {None}]
           /\ about' \in [Observation -> [subject : Subject, element : Element] \cup {None}]
           /\ ratio' \subseteq Observation
BY DEF TypeOK, Forget

LEMMA ConfirmTyped ==
    ASSUME TypeOK, NEW s \in Subject, Confirm(s)
    PROVE  /\ counted' \subseteq Subject
           /\ inflight' \subseteq Subject
           /\ since' \in [Observation -> (0 .. Dwell) \cup {None}]
           /\ armed' \subseteq Observation
           /\ watched' \subseteq watched
           /\ unreported' \subseteq watched'
<1>1. CASE s \in inflight
  BY <1>1, ClearTyped DEF Confirm, Unwatch, TypeOK
<1>2. CASE s \notin inflight
  BY <1>2 DEF Confirm, TypeOK
<1> QED
  BY <1>1, <1>2

(***************************************************************************)
(* Type correctness                                                        *)
(***************************************************************************)

LifecycleTyped ==
    /\ view \in 0 .. MaxViews
    /\ views \in view .. MaxViews
    /\ surface \in Surface \cup {None}
    /\ surface = None <=> view = 0
ObserverTyped ==
    /\ targets \in [Element -> Observation \cup {None}]
    /\ about \in [Observation -> [subject : Subject, element : Element] \cup {None}]
    /\ ratio \subseteq Observation
BrowserTyped ==
    /\ shown \subseteq Element
    /\ visible \in BOOLEAN
    /\ lit \in [Element -> 0 .. Dwell]
CapturesCounted ==
    /\ accepted \in [View \X Subject -> Nat]
    /\ failures \in 0 .. MaxFailures

LEMMA TypeParts ==
    /\ TypeOK <=> /\ LifecycleTyped /\ counted \subseteq Subject /\ ObserverTyped
                  /\ Evaluated /\ BrowserTyped /\ CapturesCounted
    /\ TypeOK' <=> /\ (LifecycleTyped /\ counted \subseteq Subject /\ ObserverTyped)'
                   /\ (Evaluated /\ BrowserTyped /\ CapturesCounted)'
BY Zenon DEF TypeOK, LifecycleTyped, ObserverTyped, Evaluated, BrowserTyped,
             CapturesCounted

Typed == TypeOK /\ WatchedIsObserved /\ ObservedIsDescribed

LEMMA InitTyped == Init => Typed
<1> SUFFICES ASSUME Init PROVE Typed
  OBVIOUS
<1>1. LifecycleTyped /\ counted \subseteq Subject /\ ObserverTyped /\ BrowserTyped
  BY ImpressionsAssumption DEF Init, LifecycleTyped, ObserverTyped, BrowserTyped
<1>2. Evaluated /\ CapturesCounted
  BY ImpressionsAssumption DEF Init, Evaluated, CapturesCounted
<1>3. WatchedIsObserved /\ ObservedIsDescribed
  BY DEF Init, WatchedIsObserved, ObservedIsDescribed
<1> QED
  BY <1>1, <1>2, <1>3, TypeParts DEF Typed

LEMMA ViewChangedTyped ==
    ASSUME TypeOK, ViewChanged, UNCHANGED <<watched, unreported, calls>>
    PROVE  counted' \subseteq Subject /\ Evaluated'
<1>1. Clear(Observed) /\ counted' = {} /\ inflight' = {}
  BY DEF ViewChanged
<1>2. since' \in [Observation -> (0 .. Dwell) \cup {None}] /\ armed' \subseteq armed
  BY <1>1, ClearTyped
<1> QED
  BY <1>1, <1>2 DEF TypeOK, Evaluated, View

(* What is left alone keeps its type. *)
LEMMA KeptTyped ==
    ASSUME TypeOK
    PROVE  /\ UNCHANGED lifecycle => LifecycleTyped'
           /\ UNCHANGED counted => counted' \subseteq Subject
           /\ UNCHANGED observer => ObserverTyped'
           /\ UNCHANGED <<shown, visible, lit>> => BrowserTyped'
           /\ UNCHANGED <<accepted, failures>> => CapturesCounted'
<1> USE DEF TypeOK, View
<1>1. UNCHANGED lifecycle => LifecycleTyped'
  BY DEF lifecycle, LifecycleTyped
<1>2. UNCHANGED observer => ObserverTyped'
  BY DEF observer, ObserverTyped
<1>3. UNCHANGED <<shown, visible, lit>> => BrowserTyped'
  BY DEF BrowserTyped
<1>4. UNCHANGED <<accepted, failures>> => CapturesCounted'
  BY DEF CapturesCounted
<1> QED
  BY <1>1, <1>2, <1>3, <1>4

LEMMA ViewStepTyped ==
    ASSUME Typed,
           EndView \/ \E s \in Surface, given \in BOOLEAN : BeginView(s, given)
    PROVE  Typed'
<1>1. /\ ViewChanged
      /\ UNCHANGED <<observer, browser, host>>
  BY DEF BeginView, EndView
<1>2. TypeOK /\ WatchedIsObserved
  BY DEF Typed
<1>3. counted' \subseteq Subject /\ Evaluated'
  BY <1>1, <1>2, ViewChangedTyped DEF browser, host
<1>4. (ObserverTyped /\ BrowserTyped /\ CapturesCounted)'
  BY <1>1, <1>2, KeptTyped DEF browser, host
<1>5. LifecycleTyped'
  <2>1. CASE EndView
    BY <2>1, <1>2, ImpressionsAssumption DEF EndView, LifecycleTyped, TypeOK
  <2>2. CASE \E s \in Surface, given \in BOOLEAN : BeginView(s, given)
    BY <2>2, <1>2, ImpressionsAssumption DEF BeginView, LifecycleTyped, TypeOK
  <2> QED
    BY <2>1, <2>2
<1>6. WatchedIsObserved' /\ ObservedIsDescribed'
  BY <1>1 DEF observer, browser, WatchedIsObserved, ObservedIsDescribed, Typed
<1> QED
  BY <1>3, <1>4, <1>5, <1>6, TypeParts DEF Typed

LEMMA ObserveTyped ==
    ASSUME Typed, NEW e \in Element, NEW s \in Subject, Observe(e, s)
    PROVE  Typed'
<1> PICK o \in Observation \ (Observed \cup armed) :
       /\ targets' = [targets EXCEPT ![e] = o]
       /\ about' = [about EXCEPT ![o] = [subject |-> s, element |-> e]]
       /\ ratio' = ratio \ {o}
       /\ since' = [since EXCEPT ![o] = None]
  BY DEF Observe
<1>1. TypeOK /\ WatchedIsObserved
  BY DEF Typed
<1>2. ObserverTyped'
  BY <1>1 DEF ObserverTyped, TypeOK
<1>3. Evaluated'
  BY <1>1 DEF Observe, Evaluated, TypeOK, View, host
<1>4. (LifecycleTyped /\ counted \subseteq Subject /\ BrowserTyped /\ CapturesCounted)'
  BY <1>1, KeptTyped DEF Observe, host, TypeOK
<1>5. WatchedIsObserved'
  BY <1>1, ImpressionsAssumption DEF Observe, WatchedIsObserved, TypeOK
<1>6. ObservedIsDescribed'
  <2>1. ASSUME NEW f \in Element, f # e, targets[f] # None
        PROVE  targets[f] # o /\ targets'[f] = targets[f] /\ targets[f] \in Observation
    BY <1>1, <2>1 DEF TypeOK, Observed
  <2>2. targets'[e] = o /\ about'[o] = [subject |-> s, element |-> e]
    BY <1>1 DEF TypeOK
  <2>3. ASSUME NEW f \in Element, targets'[f] # None
        PROVE  about'[targets'[f]] # None /\ about'[targets'[f]].element = f
    <3>1. CASE f = e
      <4> DEFINE r == [subject |-> s, element |-> e]
      <4>1. r \in [subject : Subject, element : Element] /\ r.element = e
        OBVIOUS
      <4>2. about'[targets'[f]] = r
        BY <2>2, <3>1
      <4> HIDE DEF r
      <4> QED
        BY <3>1, <4>1, <4>2, ImpressionsAssumption
    <3>2. CASE f # e
      <4>1. targets[f] # None
        BY <1>1, <2>3, <3>2 DEF TypeOK
      <4>2. targets'[f] = targets[f] /\ about'[targets[f]] = about[targets[f]]
        BY <1>1, <2>1, <3>2, <4>1 DEF TypeOK
      <4> QED
        BY <4>1, <4>2 DEF Typed, ObservedIsDescribed
    <3> QED
      BY <3>1, <3>2
  <2> QED
    BY <2>3 DEF ObservedIsDescribed
<1> QED
  BY <1>2, <1>3, <1>4, <1>5, <1>6, TypeParts DEF Typed

LEMMA DisconnectTyped ==
    ASSUME Typed, DisconnectAll \/ \E e \in Element : Disconnect(e)
    PROVE  Typed'
<1>1. /\ inflight' = {} \/ UNCHANGED inflight
      /\ UNCHANGED <<lifecycle, counted, shown, visible, lit, host>>
      /\ \E O, E : /\ Clear(O) /\ Forget(O) /\ Unwatch(E)
                   /\ \A e \in Element : targets[e] \in O => e \in E
  <2>1. CASE DisconnectAll
    BY <2>1 DEF DisconnectAll
  <2>2. ASSUME NEW e \in Element, Disconnect(e)
        PROVE  /\ UNCHANGED inflight
               /\ UNCHANGED <<lifecycle, counted, shown, visible, lit, host>>
               /\ Clear({targets[e]}) /\ Forget({targets[e]}) /\ Unwatch({e})
               /\ \A f \in Element : targets[f] \in {targets[e]} => f \in {e}
    BY <2>2 DEF Disconnect, Typed, ObservedIsDescribed
  <2> QED
    BY <2>1, <2>2
<1> PICK O, E : /\ Clear(O) /\ Forget(O) /\ Unwatch(E)
                /\ \A e \in Element : targets[e] \in O => e \in E
  BY <1>1
<1>2. TypeOK
  BY DEF Typed
<1>3. since' \in [Observation -> (0 .. Dwell) \cup {None}] /\ armed' \subseteq armed
  BY <1>2, ClearTyped
<1>4. ObserverTyped'
  BY <1>2, ForgetTyped DEF ObserverTyped
<1>5. Evaluated'
  BY <1>1, <1>2, <1>3 DEF Evaluated, TypeOK, Unwatch, View, host
<1>6. (LifecycleTyped /\ counted \subseteq Subject /\ BrowserTyped /\ CapturesCounted)'
  BY <1>1, <1>2, KeptTyped DEF host, TypeOK
<1>7. \A e \in Element : targets'[e] = IF targets[e] \in O THEN None ELSE targets[e]
  BY DEF Forget
<1>8. WatchedIsObserved'
  BY <1>2, <1>7 DEF Typed, WatchedIsObserved, Unwatch, TypeOK
<1>9. ObservedIsDescribed'
  BY <1>2, <1>7 DEF Typed, ObservedIsDescribed, Forget, TypeOK
<1> QED
  BY <1>4, <1>5, <1>6, <1>8, <1>9, TypeParts DEF Typed

LEMMA BrowserStepTyped ==
    ASSUME Typed,
           \/ \E e \in Element : Report(e) \/ Scroll(e)
           \/ \E o \in Observation : TimerFires(o)
    PROVE  Typed'
<1>1. TypeOK /\ WatchedIsObserved
  BY DEF Typed
<1>2. /\ Evaluated'
      /\ ratio' \subseteq Observation
      /\ watched' \subseteq watched
  <2>1. ASSUME NEW e \in Element, Report(e)
        PROVE  Evaluated' /\ ratio' \subseteq Observation /\ watched' \subseteq watched
    <3>1. e \in watched /\ (e \in shown) \in BOOLEAN /\ Sample(e, e \in shown)
      BY <1>1, <2>1 DEF Report, TypeOK
    <3> QED
      BY <1>1, <3>1, SampleTyped
  <2>2. ASSUME NEW e \in Element, Scroll(e)
        PROVE  Evaluated' /\ ratio' \subseteq Observation /\ watched' \subseteq watched
    <3>1. CASE e \in watched \ unreported
      <4>1. (e \notin shown) \in BOOLEAN /\ Sample(e, e \notin shown)
        BY <2>2, <3>1 DEF Scroll
      <4> QED
        BY <1>1, <3>1, <4>1, SampleTyped
    <3>2. CASE e \notin watched \ unreported
      BY <1>1, <2>2, <3>2 DEF Scroll, TypeOK, Evaluated, View
    <3> QED
      BY <3>1, <3>2
  <2>3. ASSUME NEW o \in Observation, TimerFires(o)
        PROVE  Evaluated' /\ ratio' \subseteq Observation /\ watched' \subseteq watched
    <3>1. UNCHANGED ratio
      BY <2>3 DEF TimerFires, observer
    <3>2. CASE Emit(o)
      BY <1>1, <3>1, <3>2, EmitTyped, EmitEffect DEF Unwatch, TypeOK
    <3>3. CASE Clear({o}) /\ UNCHANGED <<inflight, watched, unreported, calls>>
      BY <1>1, <3>1, <3>3, ClearTyped DEF TypeOK, Evaluated, View
    <3> QED
      BY <2>3, <3>2, <3>3 DEF TimerFires
  <2> QED
    BY <2>1, <2>2, <2>3
<1>3. /\ UNCHANGED <<lifecycle, counted, targets, about, visible, accepted, failures>>
      /\ \/ UNCHANGED <<shown, lit>>
         \/ \E e \in Element : /\ shown' \in {shown \cup {e}, shown \ {e}}
                               /\ lit' = [lit EXCEPT ![e] = 0]
  BY DEF Report, Scroll, TimerFires, observer
<1>4. BrowserTyped'
  BY <1>1, <1>3, ImpressionsAssumption DEF BrowserTyped, TypeOK
<1>5. (LifecycleTyped /\ counted \subseteq Subject /\ CapturesCounted)'
  BY <1>1, <1>3, KeptTyped DEF TypeOK
<1>6. ObserverTyped'
  BY <1>1, <1>2, <1>3 DEF ObserverTyped, TypeOK
<1>7. WatchedIsObserved' /\ ObservedIsDescribed'
  BY <1>2, <1>3 DEF Typed, WatchedIsObserved, ObservedIsDescribed
<1> QED
  BY <1>2, <1>4, <1>5, <1>6, <1>7, TypeParts DEF Typed

LEMMA DocumentStepTyped ==
    ASSUME Typed, Hide \/ Show \/ Tick
    PROVE  Typed'
<1>1. TypeOK
  BY DEF Typed
<1>2. /\ UNCHANGED <<lifecycle, counted, observer, inflight, watched, unreported,
                     shown, host>>
      /\ visible' \in BOOLEAN
      /\ lit' \in [Element -> 0 .. Dwell]
  <2>1. CASE Hide
    <3>1. 0 \in 0 .. Dwell
      BY ImpressionsAssumption
    <3> QED
      BY <1>1, <2>1, <3>1 DEF Hide
  <2>2. CASE Show
    BY <1>1, <2>2 DEF Show, TypeOK
  <2>3. CASE Tick
    BY <1>1, <2>3, ImpressionsAssumption DEF Tick, Older, TypeOK
  <2> QED
    BY <2>1, <2>2, <2>3
<1>3. since' \in [Observation -> (0 .. Dwell) \cup {None}] /\ armed' \subseteq Observation
  <2>1. CASE Hide
    BY <1>1, <2>1, ClearTyped DEF Hide, TypeOK
  <2>2. CASE Show
    <3> DEFINE O == {o \in Observed \cap ratio : since[o] = None}
    <3>1. O \in SUBSET Observation /\ Start(O)
      BY <1>1, <2>2 DEF Show, TypeOK
    <3> HIDE DEF O
    <3> QED
      BY <1>1, <3>1, StartTyped DEF TypeOK
  <2>3. CASE Tick
    BY <1>1, <2>3, ImpressionsAssumption DEF Tick, Older, TypeOK
  <2> QED
    BY <2>1, <2>2, <2>3
<1>4. Evaluated' /\ BrowserTyped'
  BY <1>1, <1>2, <1>3 DEF Evaluated, BrowserTyped, TypeOK, View, host
<1>5. (LifecycleTyped /\ counted \subseteq Subject /\ ObserverTyped /\ CapturesCounted)'
  BY <1>1, <1>2, KeptTyped DEF host, TypeOK
<1>6. WatchedIsObserved' /\ ObservedIsDescribed'
  BY <1>2 DEF Typed, WatchedIsObserved, ObservedIsDescribed, observer
<1> QED
  BY <1>4, <1>5, <1>6, TypeParts DEF Typed

LEMMA CaptureStepTyped ==
    ASSUME Typed, NEW v \in View, NEW s \in Subject, Succeed(v, s) \/ Fail(v, s)
    PROVE  Typed'
<1>1. TypeOK
  BY DEF Typed
<1>2. /\ UNCHANGED <<lifecycle, observer, shown, visible, lit>>
      /\ calls[<<v, s>>] > 0
      /\ calls' = [calls EXCEPT ![<<v, s>>] = @ - 1]
  BY DEF Succeed, Fail, browser
<1>3. calls' \in [View \X Subject -> Nat]
  BY <1>1, <1>2, EndedTyped
<1>4. /\ counted' \subseteq Subject
      /\ CapturesCounted'
      /\ watched' \subseteq watched
      /\ Evaluated'
  <2>1. CASE Succeed(v, s)
    <3>1. Confirm(s) /\ accepted' = [accepted EXCEPT ![<<v, s>>] = @ + 1]
          /\ UNCHANGED failures
      BY <2>1 DEF Succeed
    <3>2. accepted' \in [View \X Subject -> Nat]
      BY <1>1, <3>1, AcceptedTyped
    <3> QED
      BY <1>1, <1>3, <3>1, <3>2, ConfirmTyped
         DEF Evaluated, CapturesCounted, TypeOK, View
  <2>2. CASE Fail(v, s)
    <3>1. /\ Clear(ObservationsOf(s)) /\ inflight' = inflight \ {s}
          /\ failures < MaxFailures /\ failures' = failures + 1
          /\ UNCHANGED <<counted, watched, unreported, accepted>>
      BY <2>2 DEF Fail, browser
    <3>2. /\ since' \in [Observation -> (0 .. Dwell) \cup {None}]
          /\ armed' \subseteq armed
      BY <1>1, <3>1, ClearTyped
    <3>3. Evaluated' /\ counted' \subseteq Subject
      BY <1>1, <1>3, <3>1, <3>2 DEF Evaluated, TypeOK, View
    <3>4. CapturesCounted'
      BY <1>1, <3>1, ImpressionsAssumption DEF CapturesCounted, TypeOK, View
    <3> QED
      BY <3>1, <3>3, <3>4
  <2> QED
    BY <2>1, <2>2
<1>5. (LifecycleTyped /\ ObserverTyped /\ BrowserTyped)'
  BY <1>1, <1>2, KeptTyped
<1>6. WatchedIsObserved' /\ ObservedIsDescribed'
  BY <1>2, <1>4 DEF Typed, WatchedIsObserved, ObservedIsDescribed, observer
<1> QED
  BY <1>4, <1>5, <1>6, TypeParts DEF Typed

LEMMA StepTyped ==
    ASSUME Typed, [Next]_vars
    PROVE  Typed'
<1>1. CASE Next
  BY <1>1, ViewStepTyped, ObserveTyped, DisconnectTyped, BrowserStepTyped,
     DocumentStepTyped, CaptureStepTyped DEF Next
<1>2. CASE UNCHANGED vars
  <2>1. TypeOK /\ UNCHANGED <<lifecycle, counted, observer, since, armed, inflight,
                              browser, host>>
    BY <1>2 DEF vars, Typed
  <2>2. Evaluated'
    BY <2>1 DEF Evaluated, TypeOK, View, browser, host
  <2>3. (LifecycleTyped /\ counted \subseteq Subject /\ ObserverTyped /\ BrowserTyped
           /\ CapturesCounted)'
    BY <2>1, KeptTyped DEF browser, host
  <2>4. WatchedIsObserved' /\ ObservedIsDescribed'
    BY <2>1 DEF Typed, WatchedIsObserved, ObservedIsDescribed, observer, browser
  <2> QED
    BY <2>2, <2>3, <2>4, TypeParts DEF Typed
<1> QED
  BY <1>1, <1>2

LEMMA AlwaysTyped == Spec => []Typed
BY InitTyped, StepTyped, PTL DEF Spec

(* Every variable keeps its type, and the element that the browser reports *)
(* always has an observation, whatever the host observes and disconnects.  *)
THEOREM TypeCorrect == Spec => []TypeOK
<1>1. Typed => TypeOK
  BY DEF Typed
<1> QED
  BY <1>1, AlwaysTyped, PTL

(***************************************************************************)
(* What a report, a scroll or a timer does to an observation               *)
(***************************************************************************)

Rescheduled(o) ==
    \/ Clear({o})
    \/ Start({o})
    \/ since' = since /\ armed' = armed \cup {o}
    \/ /\ since' = since /\ armed' = armed \ {o}
       /\ view = 0 \/ about[o].subject \in inflight

GivenOut(o) ==
    \/ inflight' = inflight /\ calls' = calls
    \/ LET s == about[o].subject IN
       /\ s \in Eligible \ (counted \cup inflight)
       /\ view # 0
       /\ inflight' = inflight \cup {s}
       /\ calls' = [calls EXCEPT ![<<view, s>>] = @ + 1]

BrowserStep ==
    \/ \E e \in Element : Report(e) \/ Scroll(e)
    \/ \E o \in Observation : TimerFires(o)

LEMMA SampleEffect ==
    ASSUME Typed, NEW e \in watched, NEW inView \in BOOLEAN, Sample(e, inView)
    PROVE  /\ targets[e] \in Observation
           /\ Rescheduled(targets[e])
           /\ GivenOut(targets[e])
<1> DEFINE o == targets[e]
<1>1. TypeOK /\ o \in Observation
  BY DEF Typed, TypeOK, WatchedIsObserved
<1>2. CASE Emit(o)
  BY <1>1, <1>2, EmitEffect DEF Rescheduled, GivenOut
<1>3. CASE Evaluate(o, inView /\ visible)
  BY <1>1, <1>3 DEF Evaluate, Rescheduled, GivenOut
<1> QED
  BY <1>1, <1>2, <1>3 DEF Sample

LEMMA BrowserEffect ==
    ASSUME Typed, BrowserStep
    PROVE  /\ UNCHANGED <<lifecycle, counted, targets, about, visible, accepted>>
           /\ \/ UNCHANGED <<since, armed, inflight, calls>>
              \/ \E o \in Observation : Rescheduled(o) /\ GivenOut(o)
<1>1. TypeOK
  BY DEF Typed
<1>2. ASSUME NEW e \in Element, Report(e)
      PROVE  \E o \in Observation : Rescheduled(o) /\ GivenOut(o)
  <2>1. e \in watched /\ (e \in shown) \in BOOLEAN /\ Sample(e, e \in shown)
    BY <1>1, <1>2 DEF Report, TypeOK
  <2> QED
    BY <2>1, SampleEffect
<1>3. ASSUME NEW e \in Element, Scroll(e)
      PROVE  \/ UNCHANGED <<since, armed, inflight, calls>>
             \/ \E o \in Observation : Rescheduled(o) /\ GivenOut(o)
  <2>1. CASE e \in watched \ unreported
    <3>1. (e \notin shown) \in BOOLEAN /\ Sample(e, e \notin shown)
      BY <1>3, <2>1 DEF Scroll
    <3> QED
      BY <2>1, <3>1, SampleEffect
  <2> QED
    BY <1>3, <2>1 DEF Scroll
<1>4. ASSUME NEW o \in Observation, TimerFires(o)
      PROVE  Rescheduled(o) /\ GivenOut(o)
  <2>1. CASE Emit(o)
    BY <1>1, <2>1, EmitEffect DEF Rescheduled, GivenOut
  <2> QED
    BY <1>4, <2>1 DEF TimerFires, Rescheduled, GivenOut
<1>5. UNCHANGED <<lifecycle, counted, targets, about, visible, accepted>>
  BY DEF BrowserStep, Report, Scroll, TimerFires, observer
<1> QED
  BY <1>2, <1>3, <1>4, <1>5 DEF BrowserStep

(***************************************************************************)
(* No qualification is stuck                                               *)
(***************************************************************************)

LEMMA PendingStep ==
    ASSUME Typed, PendingHasTimer, [Next]_vars
    PROVE  PendingHasTimer'
<1>1. TypeOK /\ Observed \subseteq Observation
  BY DEF Typed, TypeOK, Observed
<1>2. CASE EndView \/ \E s \in Surface, given \in BOOLEAN : BeginView(s, given)
  <2>1. Clear(Observed) /\ UNCHANGED targets
    BY <1>2 DEF BeginView, EndView, ViewChanged, observer
  <2> QED
    BY <1>1, <2>1, ClearTyped DEF PendingHasTimer, Observed
<1>3. ASSUME NEW e \in Element, NEW s \in Subject, Observe(e, s)
      PROVE  PendingHasTimer'
  <2> PICK o \in Observation \ (Observed \cup armed) :
         /\ targets' = [targets EXCEPT ![e] = o]
         /\ about' = [about EXCEPT ![o] = [subject |-> s, element |-> e]]
         /\ since' = [since EXCEPT ![o] = None]
    BY <1>3 DEF Observe
  <2>1. Observed' \subseteq Observed \cup {o}
    BY <1>1 DEF Observed, TypeOK
  <2>2. UNCHANGED <<view, armed, inflight>>
    BY <1>3 DEF Observe, lifecycle
  <2>3. since'[o] = None
    BY <1>1 DEF TypeOK
  <2>4. \A x \in Observed : x # o /\ since'[x] = since[x] /\ about'[x] = about[x]
    BY <1>1 DEF TypeOK
  <2> QED
    BY <2>1, <2>2, <2>3, <2>4 DEF PendingHasTimer
<1>4. ASSUME NEW e \in Element, Disconnect(e)
      PROVE  PendingHasTimer'
  <2> DEFINE o == targets[e]
  <2>1. Clear({o}) /\ Forget({o}) /\ UNCHANGED <<view, inflight>>
    BY <1>4 DEF Disconnect, lifecycle
  <2>2. Observed' \subseteq Observed \ {o}
    BY <2>1, <1>1 DEF Forget, Observed, TypeOK
  <2>3. \A x \in Observed \ {o} : about'[x] = about[x] /\ since'[x] = since[x]
    BY <1>1, <2>1 DEF Forget, Clear
  <2>4. armed' = armed \ {o}
    BY <2>1 DEF Clear
  <2> HIDE DEF o
  <2> QED
    BY <2>1, <2>2, <2>3, <2>4 DEF PendingHasTimer
<1>5. CASE DisconnectAll
  <2>1. Observed' = {}
    BY <1>5, <1>1 DEF DisconnectAll, Forget, Observed, TypeOK
  <2> QED
    BY <2>1 DEF PendingHasTimer
<1>6. CASE BrowserStep
  <2>1. UNCHANGED <<view, targets, about>> /\ Observed' = Observed
    BY <1>6, BrowserEffect DEF lifecycle, Observed
  <2>2. CASE UNCHANGED <<since, armed, inflight, calls>>
    BY <2>1, <2>2 DEF PendingHasTimer
  <2>3. ASSUME NEW o \in Observation, Rescheduled(o), GivenOut(o)
        PROVE  PendingHasTimer'
    <3>1. inflight \subseteq inflight'
      BY <2>3 DEF GivenOut
    <3>2. CASE Clear({o})
      BY <1>1, <2>1, <3>1, <3>2, ClearTyped DEF PendingHasTimer, Clear
    <3>3. CASE Start({o})
      BY <1>1, <2>1, <3>1, <3>3, StartTyped DEF PendingHasTimer
    <3>4. CASE since' = since /\ armed' = armed \cup {o}
      BY <2>1, <3>1, <3>4 DEF PendingHasTimer
    <3>5. CASE /\ since' = since /\ armed' = armed \ {o}
               /\ view = 0 \/ about[o].subject \in inflight
      BY <2>1, <3>1, <3>5 DEF PendingHasTimer
    <3> QED
      BY <2>3, <3>2, <3>3, <3>4, <3>5 DEF Rescheduled
  <2> QED
    BY <1>6, <2>2, <2>3, BrowserEffect
<1>7. CASE Hide
  <2>1. Clear(Observed) /\ UNCHANGED targets
    BY <1>7 DEF Hide, observer
  <2> QED
    BY <1>1, <2>1, ClearTyped DEF PendingHasTimer, Observed
<1>8. CASE Show
  <2> DEFINE O == {o \in Observed \cap ratio : since[o] = None}
  <2>1. O \in SUBSET Observation /\ Start(O) /\ UNCHANGED <<view, targets, about, inflight>>
    BY <1>1, <1>8 DEF Show, observer, lifecycle
  <2> HIDE DEF O
  <2> QED
    BY <1>1, <2>1, StartTyped DEF PendingHasTimer, Observed
<1>9. CASE Tick
  <2>1. /\ \A o \in Observation : since'[o] # None => since[o] # None
        /\ UNCHANGED <<view, targets, about, inflight, armed>>
    BY <1>9 DEF Tick, lifecycle, observer
  <2> QED
    BY <1>1, <2>1 DEF PendingHasTimer, Observed
<1>10. ASSUME NEW v \in View, NEW s \in Subject, Succeed(v, s) \/ Fail(v, s)
       PROVE  PendingHasTimer'
  <2>1. UNCHANGED <<view, targets, about>> /\ Observed' = Observed
    BY <1>10 DEF Succeed, Fail, lifecycle, observer, Observed
  <2>2. CASE Clear(ObservationsOf(s)) /\ inflight' = inflight \ {s}
    BY <1>1, <2>1, <2>2, ClearTyped DEF PendingHasTimer, ObservationsOf, Clear
  <2>3. CASE UNCHANGED <<since, armed, inflight>>
    BY <2>1, <2>3 DEF PendingHasTimer
  <2> QED
    BY <1>10, <2>2, <2>3 DEF Succeed, Fail, Confirm
<1>11. CASE UNCHANGED vars
  BY <1>11 DEF vars, lifecycle, observer, PendingHasTimer, Observed
<1> QED
  BY <1>2, <1>3, <1>4, <1>5, <1>6, <1>7, <1>8, <1>9, <1>10, <1>11
     DEF Next, BrowserStep

(* A sample that counts always has its timer, unless there is no view or   *)
(* another element of the subject is under way: no order of reports,       *)
(* visibility changes, disconnects and late confirmations leaves it stuck. *)
THEOREM QualificationNotStuck == Spec => []PendingHasTimer
<1>1. Init => PendingHasTimer
  BY DEF Init, PendingHasTimer, Observed
<1> QED
  BY <1>1, PendingStep, AlwaysTyped, PTL DEF Spec

(***************************************************************************)
(* One impression per subject and view                                     *)
(***************************************************************************)

(* Inductive under Waits: a capture under way belongs to the current view, *)
(* its subject is in flight, and nothing is known of views to come.        *)
CallsAreCurrent ==
    \A v \in View, s \in Subject :
        /\ calls[<<v, s>>] + accepted[<<v, s>>] <= 1
        /\ calls[<<v, s>>] > 0 => v = view /\ s \in inflight
        /\ v = view /\ accepted[<<v, s>>] > 0 => s \in counted
        /\ v > views => calls[<<v, s>>] = 0 /\ accepted[<<v, s>>] = 0

LEMMA CallsStep ==
    ASSUME Waits, Typed, CallsAreCurrent, [Next]_vars
    PROVE  CallsAreCurrent'
<1>1. /\ TypeOK /\ view \in Nat /\ views \in Nat /\ view <= views
      /\ \A v \in View, s \in Subject : calls[<<v, s>>] \in Nat /\ accepted[<<v, s>>] \in Nat
      /\ \A v \in View : v \in Nat \ {0}
  BY ImpressionsAssumption DEF Typed, TypeOK, View
<1>2. HostHasWaited => \A v \in View, s \in Subject : calls[<<v, s>>] = 0
  BY DEF HostHasWaited
<1>3. ASSUME HostHasWaited, UNCHANGED <<calls, accepted>>,
             \/ UNCHANGED <<view, views, counted>>
             \/ view' = 0 /\ views' = views
             \/ view' = views + 1 /\ views' = views + 1
      PROVE  CallsAreCurrent'
  <2>1. ASSUME NEW v \in View, NEW s \in Subject
        PROVE  /\ calls[<<v, s>>] = 0 /\ accepted[<<v, s>>] <= 1
               /\ v = view' /\ accepted[<<v, s>>] > 0 => s \in counted'
               /\ v > views' => accepted[<<v, s>>] = 0
    <3> DEFINE a == accepted[<<v, s>>]
    <3>1. /\ calls[<<v, s>>] = 0 /\ a \in Nat /\ v \in Nat \ {0}
          /\ a <= 1
          /\ v = view /\ a > 0 => s \in counted
          /\ v > views => a = 0
      BY <1>1, <1>2, <1>3 DEF CallsAreCurrent
    <3> HIDE DEF a
    <3>2. /\ v = view' /\ a > 0 => s \in counted'
          /\ v > views' => a = 0
      BY <1>1, <1>3, <3>1
    <3> QED
      BY <3>1, <3>2 DEF a
  <2>2. ASSUME NEW v \in View, NEW s \in Subject
        PROVE  /\ calls'[<<v, s>>] + accepted'[<<v, s>>] <= 1
               /\ ~(calls'[<<v, s>>] > 0)
               /\ v = view' /\ accepted'[<<v, s>>] > 0 => s \in counted'
               /\ v > views' => calls'[<<v, s>>] = 0 /\ accepted'[<<v, s>>] = 0
    <3>1. /\ calls'[<<v, s>>] = 0 /\ accepted'[<<v, s>>] = accepted[<<v, s>>]
          /\ accepted[<<v, s>>] \in Nat
      BY <1>1, <1>3, <2>1
    <3> QED
      BY <2>1, <3>1
  <2> QED
    BY <2>2 DEF CallsAreCurrent, View
<1>4. ASSUME NEW s \in Surface, NEW given \in BOOLEAN, BeginView(s, given)
      PROVE  CallsAreCurrent'
  BY <1>3, <1>4 DEF BeginView, HostMayChangeView, host
<1>5. CASE EndView \/ DisconnectAll
  BY <1>3, <1>5 DEF EndView, DisconnectAll, HostMayChangeView, lifecycle, host
<1>6. CASE BrowserStep
  <2>1. UNCHANGED <<view, views, counted, accepted>>
    BY <1>6, BrowserEffect DEF lifecycle
  <2>2. CASE UNCHANGED <<inflight, calls>>
    BY <2>1, <2>2 DEF CallsAreCurrent, View
  <2>3. ASSUME NEW o \in Observation, GivenOut(o), ~UNCHANGED <<inflight, calls>>
        PROVE  CallsAreCurrent'
    <3> DEFINE t == about[o].subject
    <3>1. /\ t \in Eligible /\ t \notin counted /\ t \notin inflight
          /\ view # 0
          /\ inflight' = inflight \cup {t}
          /\ calls' = [calls EXCEPT ![<<view, t>>] = @ + 1]
      BY <2>3 DEF GivenOut
    <3> HIDE DEF t
    <3>2. t \in Subject
      BY <3>1, ImpressionsAssumption
    <3>3. /\ view \in View
          /\ \A c \in View \X Subject :
               calls'[c] = IF c = <<view, t>> THEN calls[c] + 1 ELSE calls[c]
      BY <1>1, <3>1, <3>2, CallTyped
    <3>4. calls[<<view, t>>] = 0 /\ accepted[<<view, t>>] = 0
      BY <1>1, <3>1, <3>2, <3>3 DEF CallsAreCurrent
    <3>5. calls'[<<view, t>>] = 1
      BY <3>2, <3>3, <3>4
    <3>6. ASSUME NEW v \in View, NEW s \in Subject, v # view \/ s # t
          PROVE  calls'[<<v, s>>] = calls[<<v, s>>]
      BY <3>3, <3>6
    <3>7. ASSUME NEW v \in View, NEW s \in Subject
          PROVE  /\ calls'[<<v, s>>] + accepted[<<v, s>>] <= 1
                 /\ calls'[<<v, s>>] > 0 => v = view /\ s \in inflight'
                 /\ v = view /\ accepted[<<v, s>>] > 0 => s \in counted
                 /\ v > views => calls'[<<v, s>>] = 0 /\ accepted[<<v, s>>] = 0
      <4>1. CASE v = view /\ s = t
        BY <1>1, <3>1, <3>4, <3>5, <4>1
      <4>2. CASE v # view \/ s # t
        BY <3>1, <3>6, <4>2 DEF CallsAreCurrent
      <4> QED
        BY <4>1, <4>2
    <3> QED
      BY <2>1, <3>7 DEF CallsAreCurrent, View
  <2> QED
    BY <1>6, <2>2, <2>3, BrowserEffect
<1>7. ASSUME NEW v0 \in View, NEW s0 \in Subject, Succeed(v0, s0) \/ Fail(v0, s0)
      PROVE  CallsAreCurrent'
  <2>1. /\ UNCHANGED <<view, views>>
        /\ calls[<<v0, s0>>] > 0
        /\ calls' = [calls EXCEPT ![<<v0, s0>>] = @ - 1]
        /\ inflight' = inflight \ {s0}
        /\ \/ /\ accepted' = [accepted EXCEPT ![<<v0, s0>>] = @ + 1]
              /\ counted' = counted \cup {s0}
           \/ UNCHANGED <<accepted, counted>>
    BY <1>1, <1>7 DEF CallsAreCurrent, Succeed, Fail, Confirm, lifecycle
  <2>2. \A c \in View \X Subject :
          calls'[c] = IF c = <<v0, s0>> THEN calls[c] - 1 ELSE calls[c]
    BY <1>1, <2>1, EndedTyped
  <2>3. /\ calls[<<v0, s0>>] = 1 /\ accepted[<<v0, s0>>] = 0
        /\ v0 = view /\ v0 <= views
    BY <1>1, <2>1 DEF CallsAreCurrent
  <2>4. calls'[<<v0, s0>>] = 0
    BY <2>2, <2>3
  <2>5. accepted'[<<v0, s0>>] \in {0, 1} /\ (accepted'[<<v0, s0>>] = 1 => s0 \in counted')
    BY <1>1, <2>1, <2>3, AcceptedTyped
  <2>6. ASSUME NEW v \in View, NEW s \in Subject, v # v0 \/ s # s0
        PROVE  /\ calls'[<<v, s>>] = calls[<<v, s>>]
               /\ accepted'[<<v, s>>] = accepted[<<v, s>>]
    BY <1>1, <2>1, <2>2, <2>6, AcceptedTyped
  <2>7. ASSUME NEW v \in View, NEW s \in Subject
        PROVE  /\ calls'[<<v, s>>] + accepted'[<<v, s>>] <= 1
               /\ calls'[<<v, s>>] > 0 => v = view /\ s \in inflight'
               /\ v = view /\ accepted'[<<v, s>>] > 0 => s \in counted'
               /\ v > views => calls'[<<v, s>>] = 0 /\ accepted'[<<v, s>>] = 0
    <3>1. CASE v = v0 /\ s = s0
      BY <1>1, <2>3, <2>4, <2>5, <3>1
    <3>2. CASE v # v0 \/ s # s0
      <4>1. calls'[<<v, s>>] > 0 => s # s0
        BY <2>3, <2>6, <3>2 DEF CallsAreCurrent
      <4> QED
        BY <2>1, <2>6, <3>2, <4>1 DEF CallsAreCurrent
    <3> QED
      BY <3>1, <3>2
  <2> QED
    BY <2>1, <2>7 DEF CallsAreCurrent, View
<1>8. CASE \/ \E e \in Element : (\E s \in Subject : Observe(e, s)) \/ Disconnect(e)
           \/ Hide \/ Show \/ Tick \/ UNCHANGED vars
  <2>1. UNCHANGED <<view, views, counted, inflight, calls, accepted>>
    BY <1>8 DEF Observe, Disconnect, Hide, Show, Tick, vars, lifecycle, host
  <2> QED
    BY <2>1 DEF CallsAreCurrent, View
<1> QED
  BY <1>4, <1>5, <1>6, <1>7, <1>8 DEF Next, BrowserStep

(* A host that lets its captures end before it changes the view records    *)
(* one impression per subject and view, over remounted elements, failed    *)
(* captures, hidden documents and late reports.                            *)
THEOREM OneImpression ==
    ASSUME Waits
    PROVE  Spec => []OneImpressionPerView
<1>1. Init => CallsAreCurrent
  BY DEF Init, CallsAreCurrent, View
<1>2. Typed /\ CallsAreCurrent => OneImpressionPerView
  <2> SUFFICES ASSUME Typed, CallsAreCurrent, NEW v \in View, NEW s \in Subject
               PROVE  accepted[<<v, s>>] <= 1
    BY DEF OneImpressionPerView
  <2>1. calls[<<v, s>>] \in Nat /\ accepted[<<v, s>>] \in Nat
    BY DEF Typed, TypeOK
  <2> QED
    BY <2>1 DEF CallsAreCurrent
<1>3. Typed /\ CallsAreCurrent /\ [Next]_vars => CallsAreCurrent'
  BY CallsStep
<1> QED
  BY <1>1, <1>2, <1>3, AlwaysTyped, PTL DEF Spec

(***************************************************************************)
(* A second without interruption                                           *)
(***************************************************************************)

(* Inductive for a host that remounts and does not recycle: an element     *)
(* that is no longer watched is counted, the ratio of a reported element   *)
(* is current, and no sample is older than the time the element is lit.    *)
Unbroken(e) ==
    LET o == targets[e] IN
    o # None =>
      /\ e \in watched \/ about[o].subject \in counted
      /\ e \in unreported => o \notin ratio /\ since[o] = None
      /\ e \in watched \ unreported => (o \in ratio <=> e \in shown)
      /\ e \in watched /\ since[o] # None =>
           e \in shown /\ visible /\ since[o] <= lit[e]
TimersAreObserved == armed \subseteq Observed
NothingBroken == TimersAreObserved /\ \A e \in Element : Unbroken(e)

LEMMA DistinctTargets ==
    ASSUME Typed, NEW e \in Element, NEW f \in Element, e # f, targets[e] # None
    PROVE  targets[e] # targets[f] /\ targets[e] \in Observation
BY DEF Typed, ObservedIsDescribed, TypeOK

(* A step that leaves an element alone. *)
LEMMA UntouchedUnbroken ==
    ASSUME NEW e \in Element, Unbroken(e),
           LET o == targets[e] IN
           targets'[e] # None =>
             /\ targets'[e] = o
             /\ about'[o] = about[o]
             /\ o \in ratio' <=> o \in ratio
             /\ since'[o] = since[o]
             /\ e \in watched' <=> e \in watched
             /\ e \in unreported' <=> e \in unreported
             /\ e \in shown' <=> e \in shown
             /\ lit'[e] = lit[e]
             /\ visible' = visible
             /\ counted \subseteq counted'
    PROVE  Unbroken(e)'
BY DEF Unbroken

(* A sample gives nothing out for an element that was not in view before,  *)
(* and follows its element.                                                *)
LEMMA SampleUnbroken ==
    ASSUME Typed, NothingBroken, NEW f \in watched, NEW inView \in BOOLEAN,
           \/ f \in unreported /\ inView = (f \in shown) /\ UNCHANGED <<shown, lit>>
           \/ /\ f \notin unreported /\ inView = (f \notin shown)
              /\ shown' = IF f \in shown THEN shown \ {f} ELSE shown \cup {f}
              /\ lit' = [lit EXCEPT ![f] = 0],
           Sample(f, inView), UNCHANGED <<counted, targets, about, visible>>
    PROVE  /\ NothingBroken'
           /\ inflight' = inflight
<1> DEFINE o == targets[f]
<1>1. /\ TypeOK /\ f \in Element /\ o \in Observation /\ o # None
      /\ o \in Observed
  BY DEF Typed, TypeOK, WatchedIsObserved, Observed
<1>2. Unbroken(f)
  BY <1>1 DEF NothingBroken
<1>3. ~(inView /\ visible /\ since[o] = Dwell)
  BY <1>1, <1>2, ImpressionsAssumption DEF Unbroken
<1>4. /\ ratio' = IF inView THEN ratio \cup {o} ELSE ratio \ {o}
      /\ unreported' = unreported \ {f}
      /\ Evaluate(o, inView /\ visible)
      /\ watched' = watched
  BY <1>3 DEF Sample
<1>5. inflight' = inflight
  BY <1>4 DEF Evaluate
<1>6. \A x \in Observation \ {o} : since'[x] = since[x]
  <2>1. CASE Clear({o})
    BY <1>1, <2>1, ClearTyped
  <2>2. CASE Start({o})
    BY <1>1, <2>2, StartTyped
  <2> QED
    BY <1>4, <2>1, <2>2 DEF Evaluate
<1>7. armed' \subseteq armed \cup {o}
  BY <1>4 DEF Evaluate, Clear, Start
<1>8. TimersAreObserved'
  BY <1>1, <1>7 DEF NothingBroken, TimersAreObserved, Observed
<1>9. Unbroken(f)'
  <2>1. f \in shown' <=> inView
    OBVIOUS
  <2>2. /\ targets'[f] = o /\ about'[o] = about[o] /\ visible' = visible
        /\ f \notin unreported' /\ f \in watched'
        /\ o \in ratio' <=> inView
    BY <1>4
  <2>3. since'[o] # None => inView /\ visible /\ since'[o] <= lit'[f]
    <3>1. CASE Clear({o})
      BY <1>1, <3>1, ClearTyped
    <3>2. CASE Start({o}) /\ inView /\ visible
      <4>1. since'[o] = 0
        BY <1>1, <3>2, StartTyped
      <4>2. lit'[f] \in {lit[f], 0} /\ lit[f] \in Nat
        BY <1>1 DEF TypeOK
      <4> QED
        BY <3>2, <4>1, <4>2
    <3>3. CASE since' = since /\ inView /\ visible /\ since[o] \in 0 .. Dwell - 1
      <4>1. since[o] # None
        BY <3>3, ImpressionsAssumption
      <4> QED
        BY <1>1, <1>2, <3>3, <4>1 DEF Unbroken
    <3> QED
      BY <1>4, <3>1, <3>2, <3>3 DEF Evaluate
  <2> QED
    BY <2>1, <2>2, <2>3 DEF Unbroken
<1>10. ASSUME NEW e \in Element, e # f
       PROVE  Unbroken(e)'
  <2>1. Unbroken(e)
    BY DEF NothingBroken
  <2>2. targets[e] # None => targets[e] # o /\ targets[e] \in Observation
    BY <1>1, <1>10, DistinctTargets
  <2>3. (e \in shown' <=> e \in shown) /\ lit'[e] = lit[e]
    BY <1>1, <1>10 DEF TypeOK
  <2> QED
    BY <1>4, <1>6, <1>10, <2>1, <2>2, <2>3, UntouchedUnbroken
<1> QED
  BY <1>5, <1>8, <1>9, <1>10 DEF NothingBroken

LEMMA BrowserUnbroken ==
    ASSUME Typed, NothingBroken, BrowserStep
    PROVE  /\ NothingBroken'
           /\ \A s \in inflight' \ inflight : \E o \in Observed :
                about[o].subject = s /\ s \notin counted /\ since[o] = Dwell
<1>1. TypeOK /\ Observed \subseteq Observation
  BY DEF Typed, TypeOK, Observed
<1>2. UNCHANGED <<counted, targets, about, visible>>
  BY BrowserEffect
<1>3. ASSUME NEW f \in Element, Report(f)
      PROVE  NothingBroken' /\ inflight' = inflight
  <2>1. /\ f \in watched /\ f \in unreported /\ (f \in shown) \in BOOLEAN
        /\ Sample(f, f \in shown) /\ UNCHANGED <<shown, lit>>
    BY <1>1, <1>3 DEF Report, TypeOK
  <2> QED
    BY <1>2, <2>1, SampleUnbroken
<1>4. ASSUME NEW f \in Element, Scroll(f)
      PROVE  NothingBroken' /\ inflight' = inflight
  <2>1. /\ shown' = IF f \in shown THEN shown \ {f} ELSE shown \cup {f}
        /\ lit' = [lit EXCEPT ![f] = 0]
    BY <1>4 DEF Scroll
  <2>2. CASE f \in watched \ unreported
    <3>1. (f \notin shown) \in BOOLEAN /\ Sample(f, f \notin shown)
      BY <1>4, <2>2 DEF Scroll
    <3> QED
      BY <1>2, <2>1, <2>2, <3>1, SampleUnbroken
  <2>3. CASE f \notin watched \ unreported
    <3>1. UNCHANGED <<ratio, since, armed, inflight, watched, unreported>>
      BY <1>4, <2>3 DEF Scroll
    <3>2. ASSUME NEW e \in Element
          PROVE  Unbroken(e)'
      <4>1. Unbroken(e)
        BY DEF NothingBroken
      <4>2. CASE e = f
        BY <1>1, <1>2, <2>3, <3>1, <4>1, <4>2 DEF Unbroken, TypeOK
      <4>3. CASE e # f
        <5>1. (e \in shown' <=> e \in shown) /\ lit'[e] = lit[e]
          BY <1>1, <2>1, <4>3 DEF TypeOK
        <5> QED
          BY <1>2, <3>1, <4>1, <5>1, UntouchedUnbroken
      <4> QED
        BY <4>2, <4>3
    <3> QED
      BY <1>2, <3>1, <3>2 DEF NothingBroken, TimersAreObserved, Observed
  <2> QED
    BY <2>2, <2>3
<1>5. ASSUME NEW o \in Observation, TimerFires(o)
      PROVE  /\ NothingBroken'
             /\ o \in Observed
             /\ since[o] = Dwell
             /\ GivenOut(o)
  <2>1. /\ o \in Observed /\ since[o] = Dwell
        /\ UNCHANGED <<ratio, shown, lit>>
    BY <1>5 DEF TimerFires, NothingBroken, TimersAreObserved, observer
  <2>2. /\ armed' \subseteq armed
        /\ \/ Clear({o})
           \/ since' = since
        /\ \/ watched' = watched /\ unreported' = unreported
           \/ Unwatch({about[o].element}) /\ about[o].subject \in counted
        /\ GivenOut(o)
    <3>1. CASE Emit(o)
      BY <1>1, <3>1, EmitEffect DEF Clear, GivenOut
    <3>2. CASE Clear({o}) /\ UNCHANGED <<inflight, watched, unreported, calls>>
      BY <3>2 DEF Clear, GivenOut
    <3> QED
      BY <1>5, <3>1, <3>2 DEF TimerFires
  <2>3. \A x \in Observation : since'[x] \in {since[x], None}
    BY <1>1, <2>2, ClearTyped
  <2>4. ASSUME NEW e \in Element
        PROVE  Unbroken(e)'
    <3>1. Unbroken(e) /\ (targets[e] # None => targets[e] \in Observation)
      BY <1>1 DEF NothingBroken, TypeOK
    <3>2. CASE watched' = watched /\ unreported' = unreported
      BY <1>2, <2>1, <2>3, <3>1, <3>2 DEF Unbroken
    <3>3. CASE Unwatch({about[o].element}) /\ about[o].subject \in counted
      <4>1. targets[e] = o \/ targets[e] = None \/ e # about[o].element
        BY <2>1 DEF Typed, ObservedIsDescribed, Observed
      <4> QED
        BY <1>2, <2>1, <2>3, <3>1, <3>3, <4>1 DEF Unbroken, Unwatch
    <3> QED
      BY <2>2, <3>2, <3>3
  <2> QED
    BY <1>2, <2>1, <2>2, <2>4 DEF NothingBroken, TimersAreObserved, Observed
<1>6. ASSUME NEW o \in Observation, GivenOut(o), NEW s \in inflight' \ inflight
      PROVE  about[o].subject = s /\ s \notin counted
  BY <1>6 DEF GivenOut
<1> QED
  BY <1>3, <1>4, <1>5, <1>6 DEF BrowserStep

LEMMA HostUnbroken ==
    ASSUME ~Recycles, Remounts, Typed, NothingBroken,
           \/ EndView \/ \E s \in Surface, given \in BOOLEAN : BeginView(s, given)
           \/ \E e \in Element : (\E s \in Subject : Observe(e, s)) \/ Disconnect(e)
           \/ DisconnectAll
    PROVE  NothingBroken'
<1>1. TypeOK /\ Observed \subseteq Observation
  BY DEF Typed, TypeOK, Observed
<1>2. ASSUME EndView \/ \E s \in Surface, given \in BOOLEAN : BeginView(s, given)
      PROVE  NothingBroken'
  <2>1. Observed = {} /\ Clear(Observed) /\ UNCHANGED targets
    BY <1>2 DEF BeginView, EndView, HostMayChangeView, ViewChanged, observer
  <2>2. \A e \in Element : targets'[e] = None
    BY <2>1 DEF Observed
  <2>3. armed' = {}
    BY <2>1 DEF Clear, NothingBroken, TimersAreObserved
  <2> QED
    BY <2>2, <2>3 DEF NothingBroken, TimersAreObserved, Unbroken
<1>3. ASSUME NEW f \in Element, NEW s \in Subject, Observe(f, s)
      PROVE  NothingBroken'
  <2> PICK o \in Observation \ (Observed \cup armed) :
         /\ targets' = [targets EXCEPT ![f] = o]
         /\ about' = [about EXCEPT ![o] = [subject |-> s, element |-> f]]
         /\ ratio' = ratio \ {o}
         /\ since' = [since EXCEPT ![o] = None]
    BY <1>3 DEF Observe
  <2>1. targets[f] = None /\ f \notin watched
    BY <1>3 DEF Observe, Typed, WatchedIsObserved
  <2>2. /\ watched' = watched \cup {f}
        /\ unreported' = unreported \cup {f}
        /\ UNCHANGED <<counted, armed, shown, visible, lit>>
    BY <1>3, <2>1 DEF Observe
  <2>3. TimersAreObserved'
    <3>1. Observed \subseteq Observed'
      BY <1>1, <2>1 DEF Observed, TypeOK
    <3> QED
      BY <2>2, <3>1 DEF NothingBroken, TimersAreObserved
  <2>4. Unbroken(f)'
    BY <1>1, <2>2 DEF Unbroken, TypeOK
  <2>5. ASSUME NEW e \in Element, e # f
        PROVE  Unbroken(e)'
    <3>1. Unbroken(e) /\ targets'[e] = targets[e]
      BY <1>1, <2>5 DEF NothingBroken, TypeOK
    <3>2. targets[e] # None => targets[e] \in Observed /\ targets[e] # o
      BY DEF Observed
    <3>3. targets[e] # None => about'[targets[e]] = about[targets[e]]
                                 /\ since'[targets[e]] = since[targets[e]]
      BY <1>1, <3>2 DEF TypeOK
    <3> QED
      BY <2>2, <2>5, <3>1, <3>2, <3>3, UntouchedUnbroken
  <2> QED
    BY <2>3, <2>4, <2>5 DEF NothingBroken
<1>4. ASSUME NEW f \in Element, Disconnect(f)
      PROVE  NothingBroken'
  <2> DEFINE o == targets[f]
  <2>1. /\ o # None /\ Clear({o}) /\ Forget({o}) /\ Unwatch({f})
        /\ UNCHANGED <<counted, shown, visible, lit>>
    BY <1>4 DEF Disconnect
  <2>2. \A e \in Element : targets'[e] = IF targets[e] = o THEN None ELSE targets[e]
    BY <2>1 DEF Forget
  <2>3. TimersAreObserved'
    <3>1. Observed' = Observed \ {o}
      BY <2>1, <2>2 DEF Observed
    <3> QED
      BY <2>1, <3>1 DEF Clear, NothingBroken, TimersAreObserved
  <2>4. ASSUME NEW e \in Element
        PROVE  Unbroken(e)'
    <3>1. Unbroken(e)
      BY DEF NothingBroken
    <3>2. CASE targets[e] = o
      BY <2>2, <3>2 DEF Unbroken
    <3>3. CASE targets[e] # o
      <4>1. e # f /\ targets'[e] = targets[e]
        BY <2>2, <3>3
      <4>2. targets[e] # None => targets[e] \in Observation
        BY <1>1 DEF TypeOK
      <4>3. targets[e] # None => about'[targets[e]] = about[targets[e]]
                                   /\ since'[targets[e]] = since[targets[e]]
                                   /\ (targets[e] \in ratio' <=> targets[e] \in ratio)
        BY <2>1, <3>3, <4>2 DEF Forget, Clear
      <4> QED
        BY <2>1, <3>1, <4>1, <4>3, UntouchedUnbroken DEF Unwatch
    <3> QED
      BY <3>2, <3>3
  <2> QED
    BY <2>3, <2>4 DEF NothingBroken
<1>5. ASSUME DisconnectAll
      PROVE  NothingBroken'
  <2>1. Clear(Observed) /\ Forget(Observed)
    BY <1>5 DEF DisconnectAll
  <2>2. \A e \in Element : targets'[e] = None
    BY <2>1 DEF Forget, Observed
  <2>3. armed' = {}
    BY <2>1 DEF Clear, NothingBroken, TimersAreObserved
  <2> QED
    BY <2>2, <2>3 DEF NothingBroken, TimersAreObserved, Unbroken
<1> QED
  BY <1>2, <1>3, <1>4, <1>5

LEMMA DocumentUnbroken ==
    ASSUME Typed, NothingBroken, Hide \/ Show \/ Tick
    PROVE  NothingBroken'
<1>1. TypeOK /\ Observed \subseteq Observation
  BY DEF Typed, TypeOK, Observed
<1>2. /\ UNCHANGED <<counted, targets, about, ratio, watched, unreported, shown>>
      /\ Observed' = Observed
  BY DEF Hide, Show, Tick, observer, Observed
<1>3. TimersAreObserved'
  BY <1>2 DEF Hide, Show, Tick, Clear, Start, NothingBroken, TimersAreObserved
<1>4. ASSUME NEW e \in Element
      PROVE  Unbroken(e)'
  <2> DEFINE o == targets[e]
  <2>1. Unbroken(e) /\ (o # None => o \in Observation /\ o \in Observed)
    BY <1>1 DEF NothingBroken, TypeOK, Observed
  <2>2. CASE Hide
    <3>1. o # None => since'[o] = None
      BY <1>1, <2>1, <2>2, ClearTyped DEF Hide
    <3> QED
      BY <1>2, <2>1, <3>1 DEF Unbroken
  <2>3. CASE Show
    <3> DEFINE O == {x \in Observed \cap ratio : since[x] = None}
    <3>1. O \in SUBSET Observation /\ Start(O) /\ visible' = TRUE /\ lit' = lit
      BY <1>1, <2>3 DEF Show
    <3>2. o # None => since'[o] = IF o \in O THEN 0 ELSE since[o]
      <4> HIDE DEF O
      <4> QED
        BY <1>1, <2>1, <3>1, StartTyped
    <3>3. lit[e] \in Nat
      BY <1>1 DEF TypeOK
    <3> QED
      BY <1>2, <2>1, <3>1, <3>2, <3>3 DEF Unbroken
  <2>4. CASE Tick
    <3>1. /\ o # None => since'[o] = IF since[o] = None THEN None ELSE Older(since[o])
          /\ lit'[e] = IF e \in shown /\ visible THEN Older(lit[e]) ELSE 0
          /\ visible' = visible
      BY <2>1, <2>4 DEF Tick
    <3>2. /\ lit[e] \in 0 .. Dwell
          /\ o # None => since[o] = None \/ since[o] \in 0 .. Dwell
      BY <1>1, <2>1 DEF TypeOK
    <3>3. \A m, n \in 0 .. Dwell : m <= n => Older(m) <= Older(n)
      BY ImpressionsAssumption DEF Older
    <3> QED
      BY <1>2, <2>1, <3>1, <3>2, <3>3 DEF Unbroken
  <2> QED
    BY <2>2, <2>3, <2>4
<1> QED
  BY <1>3, <1>4 DEF NothingBroken

LEMMA CaptureUnbroken ==
    ASSUME Typed, NothingBroken, NEW v \in View, NEW s \in Subject,
           Succeed(v, s) \/ Fail(v, s)
    PROVE  NothingBroken'
<1>1. TypeOK /\ Observed \subseteq Observation
  BY DEF Typed, TypeOK, Observed
<1>2. /\ UNCHANGED <<targets, about, ratio, shown, visible, lit>>
      /\ \/ UNCHANGED <<counted, since, armed, watched, unreported>>
         \/ /\ Clear(ObservationsOf(s))
            /\ \/ UNCHANGED <<counted, watched, unreported>>
               \/ /\ counted' = counted \cup {s}
                  /\ Unwatch({about[o].element : o \in ObservationsOf(s)})
  BY DEF Succeed, Fail, Confirm, observer, browser
<1>3. TimersAreObserved'
  <2>1. armed' \subseteq armed /\ Observed' = Observed
    BY <1>2 DEF Clear, Observed
  <2> QED
    BY <2>1 DEF NothingBroken, TimersAreObserved
<1>4. \A x \in Observation : since'[x] \in {since[x], None}
  BY <1>1, <1>2, ClearTyped
<1>5. ASSUME NEW e \in Element
      PROVE  Unbroken(e)'
  <2> DEFINE o == targets[e]
  <2>1. Unbroken(e) /\ (o # None => o \in Observation /\ o \in Observed)
    BY <1>1 DEF NothingBroken, TypeOK, Observed
  <2>2. CASE UNCHANGED <<counted, watched, unreported>>
    BY <1>2, <1>4, <2>1, <2>2 DEF Unbroken
  <2>3. CASE /\ counted' = counted \cup {s}
             /\ Unwatch({about[x].element : x \in ObservationsOf(s)})
    <3> DEFINE W == {about[x].element : x \in ObservationsOf(s)}
    <3>1. o # None /\ e \in W => about[o].subject = s
      BY DEF Typed, ObservedIsDescribed, ObservationsOf, Observed
    <3>2. watched' = watched \ W /\ unreported' = unreported \ W
      BY <2>3 DEF Unwatch
    <3> HIDE DEF W
    <3> QED
      BY <1>2, <1>4, <2>1, <2>3, <3>1, <3>2 DEF Unbroken
  <2> QED
    BY <1>2, <2>2, <2>3
<1> QED
  BY <1>3, <1>5 DEF NothingBroken

(* A host that remounts its elements for a new view and disconnects an     *)
(* element before it observes it anew gets an impression only after        *)
(* minVisibleMs of uninterrupted visibility, whatever is hidden, scrolled, *)
(* confirmed or cancelled in between.                                      *)
THEOREM OneSecond ==
    ASSUME ~Recycles, Remounts
    PROVE  Spec => OneSecondUninterrupted
<1> DEFINE Lasting ==
      \A s \in Subject : s \in inflight' \ inflight =>
        \E o \in Observation : about[o] # None /\ about[o].subject = s
                                 /\ lit[about[o].element] = Dwell
<1>1. Init => NothingBroken
  BY DEF Init, NothingBroken, TimersAreObserved, Unbroken
<1>2. ASSUME Typed, NothingBroken, [Next]_vars
      PROVE  NothingBroken' /\ Lasting
  <2>1. CASE BrowserStep
    <3>1. ASSUME NEW o \in Observed, about[o].subject \notin counted, since[o] = Dwell
          PROVE  o \in Observation /\ about[o] # None /\ lit[about[o].element] = Dwell
      <4> PICK e \in Element : targets[e] = o /\ o # None
        BY DEF Observed
      <4>1. o \in Observation /\ about[o] # None /\ about[o].element = e
            /\ lit[e] \in 0 .. Dwell
        BY <1>2 DEF Typed, ObservedIsDescribed, TypeOK
      <4>2. since[o] # None
        BY <3>1, ImpressionsAssumption
      <4>3. since[o] <= lit[e]
        BY <1>2, <3>1, <4>1, <4>2 DEF NothingBroken, Unbroken
      <4> QED
        BY <3>1, <4>1, <4>3, ImpressionsAssumption
    <3>2. NothingBroken' /\ \A s \in inflight' \ inflight : \E o \in Observed :
            about[o].subject = s /\ s \notin counted /\ since[o] = Dwell
      BY <1>2, <2>1, BrowserUnbroken
    <3> QED
      BY <3>1, <3>2
  <2>2. CASE \/ EndView \/ \E s \in Surface, given \in BOOLEAN : BeginView(s, given)
             \/ \E e \in Element : (\E s \in Subject : Observe(e, s)) \/ Disconnect(e)
             \/ DisconnectAll
    <3>1. inflight' \subseteq inflight
      BY <2>2 DEF EndView, BeginView, ViewChanged, Observe, Disconnect, DisconnectAll
    <3> QED
      BY <1>2, <2>2, <3>1, HostUnbroken
  <2>3. CASE Hide \/ Show \/ Tick
    <3>1. inflight' = inflight
      BY <2>3 DEF Hide, Show, Tick
    <3> QED
      BY <1>2, <2>3, <3>1, DocumentUnbroken
  <2>4. ASSUME NEW v \in View, NEW s \in Subject, Succeed(v, s) \/ Fail(v, s)
        PROVE  NothingBroken' /\ Lasting
    <3>1. inflight' \subseteq inflight
      BY <2>4 DEF Succeed, Fail, Confirm
    <3> QED
      BY <1>2, <2>4, <3>1, CaptureUnbroken
  <2>5. CASE UNCHANGED vars
    BY <1>2, <2>5 DEF vars, observer, browser, NothingBroken, TimersAreObserved,
       Observed, Unbroken
  <2> QED
    BY <1>2, <2>1, <2>2, <2>3, <2>4, <2>5 DEF Next, BrowserStep
<1> HIDE DEF Lasting
<1>3. Typed /\ NothingBroken /\ [Next]_vars => NothingBroken' /\ [Lasting]_vars
  BY <1>2
<1>4. Spec => [][Lasting]_vars
  BY <1>1, <1>3, AlwaysTyped, PTL DEF Spec
<1> QED
  BY <1>4 DEF OneSecondUninterrupted, Lasting
=============================================================================
