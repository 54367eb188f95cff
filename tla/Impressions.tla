----------------------------- MODULE Impressions -----------------------------
(***************************************************************************)
(* Visibility impressions in the browser: the view lifecycle               *)
(* (browser/view-lifecycle.ts), the visibility observer                    *)
(* (browser/visibility-observer.ts) and a host that captures an event for  *)
(* each impression and confirms or cancels it when the capture has ended   *)
(* (examples/preact-job-demo.tsx).                                         *)
(*                                                                         *)
(* A ratio is reduced to whether it reaches minVisibleRatio, and time to   *)
(* ticks, Dwell of which make up minVisibleMs.  A timer may fire late.     *)
(* The browser reports a crossing in the tick it happens in.               *)
(***************************************************************************)
EXTENDS Naturals, FiniteSets

CONSTANTS
    Element,
    Subject,
    Eligible,      \* the subjects whose eligible() answers true
    Observation,   \* the states that observe() creates
    Surface,
    None,
    Dwell,         \* minVisibleMs, in ticks
    Recycles,      \* the host observes an element anew without disconnecting
    Remounts,      \* the host disconnects its elements before the view changes
    Waits,         \* the host lets its captures end before it changes the view
                   \* or disconnects everything
    MaxViews,      \* bound on the views
    MaxFailures    \* bound on the captures that fail

ASSUME ImpressionsAssumption ==
    /\ Eligible \subseteq Subject
    /\ None \notin Observation \cup Surface
    /\ None \notin 0 .. Dwell
    /\ None \notin [subject : Subject, element : Element]
    /\ Dwell \in Nat \ {0}
    /\ {Recycles, Remounts, Waits} \subseteq BOOLEAN
    /\ {MaxViews, MaxFailures} \subseteq Nat

VARIABLES
    view,        \* viewId, 0 for undefined
    surface,
    views,       \* how many view ids are in use
    counted,     \* countedSubjects of the view
    targets,     \* the observation of each element
    about,       \* subjectKey and target of each observation
    ratio,       \* the observations whose last ratio qualifies
    since,       \* ticks since pendingSinceMs, None for undefined
    armed,       \* the observations with a pendingTimeout
    inflight,    \* inflightSubjects
    watched,     \* the elements the IntersectionObserver observes
    unreported,  \* those it has yet to report for the first time
    shown,       \* the elements that are in the viewport
    visible,     \* document.visibilityState
    calls,       \* captures under way, per view and subject
    accepted,    \* history: captures that succeeded
    failures,
    lit          \* history: ticks that an element has been visible without a break

lifecycle == <<view, surface, views>>
observer == <<targets, about, ratio>>
browser == <<watched, unreported, shown, visible, lit>>
host == <<calls, accepted, failures>>
vars == <<lifecycle, counted, observer, since, armed, inflight, browser, host>>

View == 1 .. MaxViews
Observed == {targets[e] : e \in Element} \ {None}
ObservationsOf(s) == {o \in Observed : about[o].subject = s}

TypeOK ==
    /\ view \in 0 .. MaxViews
    /\ views \in view .. MaxViews
    /\ surface \in Surface \cup {None}
    /\ surface = None <=> view = 0
    /\ counted \subseteq Subject
    /\ targets \in [Element -> Observation \cup {None}]
    /\ about \in [Observation -> [subject : Subject, element : Element] \cup {None}]
    /\ ratio \subseteq Observation
    /\ since \in [Observation -> (0 .. Dwell) \cup {None}]
    /\ armed \subseteq Observation
    /\ inflight \subseteq Subject
    /\ watched \subseteq Element
    /\ unreported \subseteq watched
    /\ shown \subseteq Element
    /\ visible \in BOOLEAN
    /\ calls \in [View \X Subject -> Nat]
    /\ accepted \in [View \X Subject -> Nat]
    /\ failures \in 0 .. MaxFailures
    /\ lit \in [Element -> 0 .. Dwell]

Init ==
    /\ view = 0
    /\ surface = None
    /\ views = 0
    /\ counted = {}
    /\ targets = [e \in Element |-> None]
    /\ about = [o \in Observation |-> None]
    /\ ratio = {}
    /\ since = [o \in Observation |-> None]
    /\ armed = {}
    /\ inflight = {}
    /\ watched = {}
    /\ unreported = {}
    /\ shown = {}
    /\ visible = TRUE
    /\ calls = [c \in View \X Subject |-> 0]
    /\ accepted = [c \in View \X Subject |-> 0]
    /\ failures = 0
    /\ lit = [e \in Element |-> 0]

(* clearPending() on a set of observations: the timer and its start. *)
Clear(O) ==
    /\ since' = [o \in Observation |-> IF o \in O THEN None ELSE since[o]]
    /\ armed' = armed \ O

(* The first qualified sample of each, with its timer. *)
StartUntimed(O) ==   \* mutant: waits for the next sample
    /\ since' = [o \in Observation |-> IF o \in O THEN 0 ELSE since[o]]
    /\ UNCHANGED armed
Start(O) ==
    /\ since' = [o \in Observation |-> IF o \in O THEN 0 ELSE since[o]]
    /\ armed' = armed \cup O

(***************************************************************************)
(* View lifecycle                                                          *)
(***************************************************************************)

HostHasWaited == Waits => \A c \in View \X Subject : calls[c] = 0
HostMayChangeView == HostHasWaited /\ (Remounts => Observed = {})

(* The listener of the observer: clearAllPending(). *)
ViewChanged ==
    /\ counted' = {}
    /\ inflight' = {}
    /\ Clear(Observed)

(* beginView(): the same surface keeps the view unless a new id is given.  *)
BeginView(s, given) ==
    /\ HostMayChangeView
    /\ views < MaxViews
    /\ surface # s \/ given
    /\ views' = views + 1
    /\ view' = views + 1
    /\ surface' = s
    /\ ViewChanged
    /\ UNCHANGED <<observer, browser, host>>

(* endView() and reset() *)
EndView ==
    /\ HostMayChangeView
    /\ view # 0
    /\ view' = 0
    /\ surface' = None
    /\ ViewChanged
    /\ UNCHANGED <<views, observer, browser, host>>

(***************************************************************************)
(* Visibility observer                                                     *)
(***************************************************************************)

(* observe(): io.observe() of an element that it already observes does     *)
(* nothing, and the state that the new one replaces keeps its timer.       *)
Observe(e, s) ==
    /\ targets[e] # None => Recycles
    /\ \E o \in Observation \ (Observed \cup armed) :
         /\ targets' = [targets EXCEPT ![e] = o]
         /\ about' = [about EXCEPT ![o] = [subject |-> s, element |-> e]]
         /\ ratio' = ratio \ {o}
         /\ since' = [since EXCEPT ![o] = None]
    /\ watched' = watched \cup {e}
    /\ unreported' = IF e \in watched THEN unreported ELSE unreported \cup {e}
    /\ UNCHANGED <<lifecycle, counted, armed, inflight, shown, visible, lit, host>>

Unwatch(E) ==
    /\ watched' = watched \ E
    /\ unreported' = unreported \ E

Forget(O) ==
    /\ targets' = [e \in Element |-> IF targets[e] \in O THEN None ELSE targets[e]]
    /\ about' = [o \in Observation |-> IF o \in O THEN None ELSE about[o]]
    /\ ratio' = ratio \ O

(* disconnect() of a handle: whatever observes the element now. *)
Disconnect(e) ==
    /\ targets[e] # None
    /\ Clear({targets[e]})
    /\ Forget({targets[e]})
    /\ Unwatch({e})
    /\ UNCHANGED <<lifecycle, counted, inflight, shown, visible, lit, host>>

DisconnectAll ==
    /\ HostHasWaited
    /\ Observed # {}
    /\ inflight' = {}
    /\ Clear(Observed)
    /\ Forget(Observed)
    /\ Unwatch(Element)
    /\ UNCHANGED <<lifecycle, counted, shown, visible, lit, host>>

(* tryEmitImpression() on a qualified sample that has lasted. *)
Emit(o) ==
    LET s == about[o].subject IN
    \/ /\ s \notin Eligible
       /\ Clear({o})
       /\ UNCHANGED <<inflight, watched, unreported, calls>>
    \/ /\ s \in Eligible
       /\ view = 0 \/ (s \notin counted /\ s \in inflight)
       /\ armed' = armed \ {o}
       /\ UNCHANGED <<since, inflight, watched, unreported, calls>>
    \/ /\ s \in Eligible /\ view # 0 /\ s \in counted
       /\ Clear({o})
       /\ Unwatch({about[o].element})
       /\ UNCHANGED <<inflight, calls>>
    \/ /\ s \in Eligible /\ view # 0 /\ s \notin counted \cup inflight
       /\ Clear({o})
       /\ inflight' = inflight \cup {s}
       /\ calls' = [calls EXCEPT ![<<view, s>>] = @ + 1]
       /\ UNCHANGED <<watched, unreported>>

(* evaluateTarget(), for a sample that qualifies or not. *)
Evaluate(o, qualifies) ==
    \/ /\ ~qualifies
       /\ Clear({o})
       /\ UNCHANGED <<inflight, calls>>
    \/ /\ qualifies /\ since[o] = None
       /\ Start({o})
       /\ UNCHANGED <<inflight, calls>>
    \/ /\ qualifies /\ since[o] \in 0 .. Dwell - 1
       /\ armed' = armed \cup {o}
       /\ UNCHANGED <<since, inflight, calls>>

(* The IntersectionObserver reports an element: onIntersection(). *)
Sample(e, inView) ==
    LET o == targets[e]
        qualifies == inView /\ visible
    IN  /\ ratio' = IF inView THEN ratio \cup {o} ELSE ratio \ {o}
        /\ unreported' = unreported \ {e}
        /\ IF qualifies /\ since[o] = Dwell
           THEN Emit(o)
           ELSE Evaluate(o, qualifies) /\ UNCHANGED watched

Report(e) ==
    /\ e \in unreported
    /\ Sample(e, e \in shown)
    /\ UNCHANGED <<lifecycle, counted, targets, about, shown, visible, lit,
                   accepted, failures>>

(***************************************************************************)
(* The browser                                                             *)
(***************************************************************************)

(* An element crosses minVisibleRatio. *)
Scroll(e) ==
    /\ shown' = IF e \in shown THEN shown \ {e} ELSE shown \cup {e}
    /\ lit' = [lit EXCEPT ![e] = 0]
    /\ IF e \in watched \ unreported
       THEN Sample(e, e \notin shown)
       ELSE UNCHANGED <<ratio, since, armed, inflight, watched, unreported, calls>>
    /\ UNCHANGED <<lifecycle, counted, targets, about, visible, accepted, failures>>

(* onDocumentVisibilityChange() *)
HideKeepsPending ==   \* mutant: a hidden document leaves the samples alone
    /\ visible
    /\ visible' = FALSE
    /\ lit' = [e \in Element |-> 0]
    /\ UNCHANGED <<lifecycle, counted, observer, since, armed, inflight, watched,
                   unreported, shown, host>>
Hide ==
    /\ visible
    /\ visible' = FALSE
    /\ lit' = [e \in Element |-> 0]
    /\ Clear(Observed)
    /\ UNCHANGED <<lifecycle, counted, observer, inflight, watched, unreported,
                   shown, host>>

ShowWaits ==   \* mutant: waits for the next report
    /\ ~visible
    /\ visible' = TRUE
    /\ UNCHANGED <<lifecycle, counted, observer, since, armed, inflight, watched,
                   unreported, shown, lit, host>>
Show ==
    /\ ~visible
    /\ visible' = TRUE
    /\ Start({o \in Observed \cap ratio : since[o] = None})
    /\ UNCHANGED <<lifecycle, counted, observer, inflight, watched, unreported,
                   shown, lit, host>>

(* The timeout of a qualification check. *)
TimerFires(o) ==
    /\ o \in armed
    /\ since[o] = Dwell
    /\ IF o \in ratio /\ visible
       THEN Emit(o)
       ELSE Clear({o}) /\ UNCHANGED <<inflight, watched, unreported, calls>>
    /\ UNCHANGED <<lifecycle, counted, observer, shown, visible, lit, accepted, failures>>

Older(n) == IF n < Dwell THEN n + 1 ELSE n
Tick ==
    /\ since' = [o \in Observation |-> IF since[o] = None THEN None ELSE Older(since[o])]
    /\ lit' = [e \in Element |-> IF e \in shown /\ visible THEN Older(lit[e]) ELSE 0]
    /\ UNCHANGED <<lifecycle, counted, observer, armed, inflight, watched,
                   unreported, shown, visible, host>>

(***************************************************************************)
(* The host: a capture has ended, and the impression is confirmed or       *)
(* cancelled by its subject key.                                           *)
(***************************************************************************)

(* confirmImpression() *)
ConfirmUnmarked(s) ==   \* mutant: without markSubjectCounted()
    /\ inflight' = inflight \ {s}
    /\ UNCHANGED <<counted, since, armed, watched, unreported>>
Confirm(s) ==
    IF s \in inflight
    THEN /\ counted' = counted \cup {s}
         /\ inflight' = inflight \ {s}
         /\ Clear(ObservationsOf(s))
         /\ Unwatch({about[o].element : o \in ObservationsOf(s)})
    ELSE UNCHANGED <<counted, inflight, since, armed, watched, unreported>>

Succeed(v, s) ==
    /\ calls[<<v, s>>] > 0
    /\ calls' = [calls EXCEPT ![<<v, s>>] = @ - 1]
    /\ accepted' = [accepted EXCEPT ![<<v, s>>] = @ + 1]
    /\ Confirm(s)
    /\ UNCHANGED <<lifecycle, observer, shown, visible, lit, failures>>

(* cancelImpression() *)
Fail(v, s) ==
    /\ calls[<<v, s>>] > 0
    /\ failures < MaxFailures
    /\ failures' = failures + 1
    /\ calls' = [calls EXCEPT ![<<v, s>>] = @ - 1]
    /\ inflight' = inflight \ {s}
    /\ Clear(ObservationsOf(s))
    /\ UNCHANGED <<lifecycle, counted, observer, browser, accepted>>

Next ==
    \/ \E s \in Surface, given \in BOOLEAN : BeginView(s, given)
    \/ EndView
    \/ \E e \in Element : \E s \in Subject : Observe(e, s)
    \/ \E e \in Element : Disconnect(e) \/ Report(e) \/ Scroll(e)
    \/ DisconnectAll
    \/ Hide
    \/ Show
    \/ \E o \in Observation : TimerFires(o)
    \/ Tick
    \/ \E v \in View, s \in Subject : Succeed(v, s) \/ Fail(v, s)

Spec == Init /\ [][Next]_vars

(* The browser runs its timers and its observer. *)
FairSpec ==
    /\ Spec
    /\ WF_vars(Tick)
    /\ \A o \in Observation : WF_vars(TimerFires(o))
    /\ \A e \in Element : WF_vars(Report(e))

(***************************************************************************)
(* Properties                                                              *)
(***************************************************************************)

(* docs/visibility-measurement.md, "Measurement rule (V1)": an impression  *)
(* is given out only for an element that has been in the viewport of a     *)
(* visible document for the whole time, whatever was hidden, scrolled,     *)
(* replaced or cleared in between.                                         *)
OneSecondUninterrupted ==
    [][\A s \in Subject : s \in inflight' \ inflight =>
         \E o \in Observation : about[o] # None /\ about[o].subject = s
                                  /\ lit[about[o].element] = Dwell]_vars

(* docs/visibility-measurement.md, "View lifecycle": one impression per    *)
(* subject and view, over remounted elements, failed captures and captures *)
(* that end late.                                                          *)
OneImpressionPerView == \A c \in View \X Subject : accepted[c] <= 1

(* No qualification is stuck: a sample that counts has its timer, unless   *)
(* there is no view or another element of the subject is under way.        *)
PendingHasTimer ==
    \A o \in Observed : since[o] # None =>
        o \in armed \/ view = 0 \/ about[o].subject \in inflight

(* A card that stays in the viewport of a visible document during a view   *)
(* gets its impression.                                                    *)
Steady(e, s, v) ==
    /\ targets[e] # None
    /\ about[targets[e]].subject = s
    /\ s \in Eligible
    /\ e \in shown
    /\ visible
    /\ view = v
VisibleIsCounted ==
    \A e \in Element, s \in Subject, v \in View :
        Steady(e, s, v)
          ~> ~Steady(e, s, v) \/ calls[<<v, s>>] + accepted[<<v, s>>] + failures > 0
=============================================================================
