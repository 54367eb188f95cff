------------------------------ MODULE Sessions ------------------------------
(***************************************************************************)
(* The session id and the page impressions of the browser client:          *)
(* browser/session-store.ts and view-state.ts, with the handlers of        *)
(* browser/client.ts that use them and those that reset them.              *)
(*                                                                         *)
(* A call of capture(), track() or pageView() resolves its session before  *)
(* its first await and marks its path after its last one; consent, mode    *)
(* and storage may change in between.  sessionStorage outlives a reload,   *)
(* what the client holds in memory does not.  BrowserClient follows the    *)
(* events themselves.                                                      *)
(***************************************************************************)
EXTENDS Naturals

CONSTANTS
    Call,        \* calls of pageView()
    Path,        \* sanitised paths
    PathOf,      \* the path of each page view
    Inactivity,  \* sessionLimits.inactivityMs
    MaxAge,      \* sessionLimits.maxAgeMs
    None,        \* no session
    MaxNow,      \* bound on the clock
    MaxIds,      \* bound on the session ids that are made
    MaxChanges   \* bound on withdrawals, switches, reloads, teardowns and the
                 \* failure of the storage, together

Purpose == {"necessary", "analytics", "measurement"}
Collection == {"analytics", "measurement"}   \* COLLECTION_PURPOSES

Record == [id : Nat, created : Nat, active : Nat]

ASSUME SessionsAssumption ==
    /\ PathOf \in [Call -> Path]
    /\ {Inactivity, MaxAge, MaxNow, MaxIds, MaxChanges} \subseteq Nat
    /\ None \notin Record

VARIABLES
    hasRegistry, \* options.registry: page views are captured as content.view
    granted,     \* the purposes with consent, in memory
    mode,        \* capturePolicy.identityMode
    seen,        \* viewState: the paths that are marked
    destroyed,
    call,        \* where each page view stands
    storage,     \* what the storage does: it works, rejects writes, or throws
    stored,      \* the session record in it
    issued,      \* ids made so far: the next one is a new number
    now,
    changes,     \* how often the host has changed the ground rules
    last,        \* history: the id given out last, when it was made and when
                 \* it was given out, unless it was erased or lost since
    erased,      \* history: no purpose was granted since the last erasure
    troubled     \* history: whether the storage ever did not work

client == <<hasRegistry, granted, mode, seen, destroyed>>
ids == <<stored, issued, last>>
vars == <<client, call, storage, ids, now, changes, erased, troubled>>

(* Of a page view: its result; history: the page views of its path that    *)
(* were running when it began, and whether the ground rules have stayed    *)
(* the same since.                                                         *)
CallState == [at : {"none", "building", "built", "appending", "queued", "over"},
              result : {"pending", "ok", "refused", "gone"},
              over : SUBSET Call, intact : BOOLEAN]

TypeOK ==
    /\ hasRegistry \in BOOLEAN
    /\ granted \in SUBSET Purpose
    /\ mode \in {"none", "session"}
    /\ seen \in SUBSET Path
    /\ destroyed \in BOOLEAN
    /\ call \in [Call -> CallState]
    /\ storage \in {"works", "readonly", "throws"}
    /\ stored \in Record \cup {None}
    /\ last \in Record \cup {None}
    /\ issued \in Nat /\ now \in Nat /\ changes \in Nat
    /\ erased \in BOOLEAN /\ troubled \in BOOLEAN

NoCall == [at |-> "none", result |-> "pending", over |-> {}, intact |-> FALSE]

Init ==
    /\ hasRegistry \in BOOLEAN
    /\ granted = {}
    /\ mode \in {"none", "session"}
    /\ seen = {}
    /\ destroyed = FALSE
    /\ call = [c \in Call |-> NoCall]
    /\ storage = "works"
    /\ stored = None
    /\ issued = 0
    /\ now = 0
    /\ changes = 0
    /\ last = None
    /\ erased = FALSE
    /\ troubled = FALSE

(***************************************************************************)
(* session-store.ts                                                        *)
(***************************************************************************)

IdleOnly(record) ==   \* mutant: maxAgeMs is not looked at
    now - record.active > Inactivity
IsSessionExpired(record) ==
    \/ now - record.created > MaxAge
    \/ now - record.active > Inactivity

(* safeKeyValueStorage(): what throws reads as nothing and writes nothing. *)
Readable == IF storage = "throws" THEN None ELSE stored
SetItem(value) == stored' = IF storage = "works" THEN value ELSE stored

(* resolveBrowserSessionId(): a live record is touched; an expired,        *)
(* missing or undecodable one is replaced.                                 *)
ResolveBrowserSessionId ==
    IF Readable # None /\ ~IsSessionExpired(Readable)
    THEN /\ SetItem([Readable EXCEPT !.active = now])
         /\ last' = [id |-> Readable.id, active |-> now, created |->
              IF last # None /\ last.id = Readable.id THEN last.created ELSE now]
         /\ UNCHANGED issued
    ELSE /\ issued < MaxIds
         /\ issued' = issued + 1
         /\ SetItem([id |-> issued', created |-> now, active |-> now])
         /\ last' = [id |-> issued', created |-> now, active |-> now]

(* resolveSession(): nothing is read or written unless the mode is session *)
(* and the purpose is granted.                                             *)
AskingLater(p) ==   \* mutant: leaves consent to those who ingest
    IF mode = "session" THEN ResolveBrowserSessionId ELSE UNCHANGED ids
ResolveSession(p) ==
    IF mode = "session" /\ p \in granted
    THEN ResolveBrowserSessionId
    ELSE UNCHANGED ids

(***************************************************************************)
(* capture(), legacyTrack(), pageView(), legacyPageView()                  *)
(***************************************************************************)

Allowed == "analytics" \in granted   \* for page views

Pending(c) == call[c].at \notin {"none", "over"}
Begun(c, at) ==
    [call EXCEPT ![c] =
        [NoCall EXCEPT !.at = at, !.intact = TRUE,
                       !.over = {d \in Call : Pending(d) /\ PathOf[d] = PathOf[c]}]]
Ended(c, result) ==
    [call EXCEPT ![c] = [NoCall EXCEPT !.at = "over", !.result = result]]

(* viewState.canRecordPageImpression(): looked at in none mode only. *)
CanRecord(c) == mode = "none" => PathOf[c] \notin seen

(* Refused before anything was resolved: a path that is marked, or, with a *)
(* registry, a client that is destroyed or has no consent.                 *)
Refuse(c) ==
    /\ call[c].at = "none"
    /\ ~CanRecord(c) \/ (hasRegistry /\ (destroyed \/ ~Allowed))
    /\ call' = Ended(c, "refused")
    /\ UNCHANGED <<client, storage, ids, now, changes, erased, troubled>>

(* capture() up to the await of prepareContractEnvelope(). *)
CaptureBegin(c) ==
    /\ call[c].at = "none"
    /\ hasRegistry /\ CanRecord(c) /\ ~destroyed /\ Allowed
    /\ ResolveSession("analytics")
    /\ call' = Begun(c, "building")
    /\ UNCHANGED <<client, storage, now, changes, erased, troubled>>

(* prepareContractEnvelope() after its await; it may find the event        *)
(* invalid, and looks at the consent.                                      *)
CaptureBuild(c) ==
    /\ call[c].at = "building"
    /\ \/ Allowed /\ call' = [call EXCEPT ![c].at = "built"]
       \/ call' = Ended(c, "refused")
    /\ UNCHANGED <<client, storage, ids, now, changes, erased, troubled>>

(* The rest of capture(), up to the return to pageView(). *)
CaptureFinish(c) ==
    /\ call[c].at = "built"
    /\ call' = IF Allowed THEN [call EXCEPT ![c].at = "queued"]
               ELSE Ended(c, "refused")
    /\ UNCHANGED <<client, storage, ids, now, changes, erased, troubled>>

(* legacyPageView(): the session is resolved before pipeline.ingest()      *)
(* looks at the consent and at the event, and a client that is destroyed   *)
(* goes on.                                                                *)
LegacyBegin(c) ==
    /\ call[c].at = "none"
    /\ ~hasRegistry /\ CanRecord(c)
    /\ ResolveSession("analytics")
    /\ \/ Allowed /\ call' = Begun(c, "appending")
       \/ call' = Ended(c, "refused")
    /\ UNCHANGED <<client, storage, now, changes, erased, troubled>>

(* store.append() is done, the event queued; then the flush is awaited.    *)
LegacyFinish(c) ==
    /\ call[c].at = "appending"
    /\ call' = [call EXCEPT ![c].at = "queued"]
    /\ UNCHANGED <<client, storage, ids, now, changes, erased, troubled>>

(* The result reaches pageView(), which marks the path if the mode is none *)
(* by now.                                                                 *)
MarkAnyway(c) ==   \* mutant: marks the path whatever the result is
    /\ \/ call[c].at = "queued" /\ call' = [call EXCEPT ![c].at = "over",
                                                        ![c].result = "ok"]
       \/ call[c].at = "built" /\ ~Allowed /\ call' = Ended(c, "refused")
    /\ seen' = IF mode = "none" THEN seen \cup {PathOf[c]} ELSE seen
    /\ UNCHANGED <<hasRegistry, granted, mode, destroyed, storage, ids, now,
                   changes, erased, troubled>>
ForgettingLegacy(c) ==   \* mutant: legacyPageView() returns without marking
    /\ call[c].at = "queued"
    /\ call' = [call EXCEPT ![c].at = "over", ![c].result = "ok"]
    /\ seen' = IF mode = "none" /\ hasRegistry THEN seen \cup {PathOf[c]} ELSE seen
    /\ UNCHANGED <<hasRegistry, granted, mode, destroyed, storage, ids, now,
                   changes, erased, troubled>>
Return(c) ==
    /\ call[c].at = "queued"
    /\ call' = [call EXCEPT ![c].at = "over", ![c].result = "ok"]
    /\ seen' = IF mode = "none" THEN seen \cup {PathOf[c]} ELSE seen
    /\ UNCHANGED <<hasRegistry, granted, mode, destroyed, storage, ids, now,
                   changes, erased, troubled>>

(* legacyTrack(), which a client with a registry runs too, for any other   *)
(* name, destroyed or not.  What it does after its first await changes     *)
(* nothing here; capture() of another event resolves no more than this.    *)
Track(p) ==
    /\ ResolveSession(p)
    /\ UNCHANGED <<client, call, storage, now, changes, erased, troubled>>

(***************************************************************************)
(* The host                                                                *)
(***************************************************************************)

Change == changes < MaxChanges /\ changes' = changes + 1
Disturbed == [c \in Call |-> [call[c] EXCEPT !.intact = FALSE]]

Grant(p) ==
    /\ granted' = granted \cup {p}
    /\ erased' = FALSE
    /\ UNCHANGED <<hasRegistry, mode, seen, destroyed, call, storage, ids, now,
                   changes, troubled>>

(* setConsent(p, "unknown") takes consent back without side effects. *)
Unset(p) ==
    /\ p \in granted
    /\ Change
    /\ granted' = granted \ {p}
    /\ UNCHANGED <<hasRegistry, mode, seen, destroyed, call, storage, ids, now,
                   erased, troubled>>

(* clearBrowserSession(), when neither purpose is granted any more.  A     *)
(* grant for what is necessary does not count, and lets legacyTrack() make *)
(* a new session.                                                          *)
ClearBrowserSession ==
    /\ SetItem(None)
    /\ last' = IF storage = "works" THEN None ELSE last
    /\ erased' = (granted' = {})

(* The records of a withdrawal, then revokeSideEffects() for what is       *)
(* denied.                                                                 *)
Withdraw(grants, denials, denied) ==
    /\ Change
    /\ granted' = (granted \cup grants) \ denials
    /\ IF "analytics" \in denied
       THEN seen' = {} /\ call' = Disturbed
       ELSE UNCHANGED <<seen, call>>
    /\ IF denied # {} /\ granted' \cap Collection = {}
       THEN ClearBrowserSession
       ELSE erased' = (erased /\ granted' = {}) /\ UNCHANGED <<stored, last>>
    /\ UNCHANGED <<hasRegistry, mode, destroyed, storage, issued, now, troubled>>

(* setConsent(p, "denied") and revokeCapture() *)
RevokeCapture(p) == Withdraw({}, {p}, {p})

(* A snapshot; one that denies what is necessary has no side effects.      *)
AdoptExternalConsent(grants, denials) ==
    /\ denials # {} /\ grants \cap denials = {}
    /\ Withdraw(grants, denials, denials \cap Collection)

(* configureCapture({ identityMode }) *)
ConfigureCapture(m) ==
    /\ m # mode
    /\ Change
    /\ mode' = m
    /\ call' = Disturbed
    /\ UNCHANGED <<hasRegistry, granted, seen, destroyed, storage, ids, now,
                   erased, troubled>>

Destroy ==
    /\ ~destroyed
    /\ Change
    /\ destroyed' = TRUE
    /\ seen' = {}
    /\ call' = Disturbed
    /\ UNCHANGED <<hasRegistry, granted, mode, storage, ids, now, erased, troubled>>

(* The page is loaded again: a new client, over the same storage. *)
Reload ==
    /\ Change
    /\ granted' = {}
    /\ seen' = {}
    /\ destroyed' = FALSE
    /\ call' = [c \in Call |-> IF Pending(c)
                  THEN [NoCall EXCEPT !.at = "over", !.result = "gone"]
                  ELSE Disturbed[c]]
    /\ UNCHANGED <<hasRegistry, mode, storage, ids, now, erased, troubled>>

(* The storage fails from now on; other scripts clear or overwrite it.     *)
StorageBreaks(s) ==
    /\ storage = "works"
    /\ Change
    /\ storage' = s
    /\ troubled' = TRUE
    /\ UNCHANGED <<client, call, ids, now, erased>>

StorageLost ==
    /\ storage = "works"
    /\ stored # None
    /\ stored' = None
    /\ last' = None
    /\ UNCHANGED <<client, call, storage, issued, now, changes, erased, troubled>>

Tick ==
    /\ now < MaxNow
    /\ now' = now + 1
    /\ UNCHANGED <<client, call, storage, ids, changes, erased, troubled>>

Next ==
    \/ \E c \in Call :
        \/ Refuse(c) \/ CaptureBegin(c) \/ CaptureBuild(c) \/ CaptureFinish(c)
        \/ LegacyBegin(c) \/ LegacyFinish(c) \/ Return(c)
    \/ \E p \in Purpose : Track(p) \/ Grant(p) \/ Unset(p) \/ RevokeCapture(p)
    \/ \E grants, denials \in SUBSET Purpose : AdoptExternalConsent(grants, denials)
    \/ \E m \in {"none", "session"} : ConfigureCapture(m)
    \/ Destroy \/ Reload
    \/ \E s \in {"readonly", "throws"} : StorageBreaks(s)
    \/ StorageLost
    \/ Tick

Spec == Init /\ [][Next]_vars

(***************************************************************************)
(* Properties                                                              *)
(***************************************************************************)

(* A session id is not given out again past the age of its session or      *)
(* after a pause of more than the inactivity limit, whatever the storage   *)
(* does, across reloads, revocations and mode switches.                    *)
SessionsEnd ==
    [][last # None /\ last' # None /\ last'.id = last.id /\ last' # last =>
         now - last.created <= MaxAge /\ now - last.active <= Inactivity]_vars

(* After an erasure nothing is stored until a purpose is granted again:    *)
(* not even by a legacy call, which resolves its session before anything   *)
(* else looks at the consent.                                              *)
ErasedUntilGranted == erased /\ ~troubled => stored = None

(* In none mode a path is recorded once: two page views of it that were    *)
(* both recorded, with no withdrawal of analytics, switch, teardown or     *)
(* reload since the first began, overlapped.                               *)
Recorded(c) == call[c].result = "ok" /\ call[c].intact
OneImpression ==
    \A c, d \in Call :
        mode = "none" /\ c # d /\ PathOf[c] = PathOf[d] /\ Recorded(c) /\ Recorded(d)
          => c \in call[d].over \/ d \in call[c].over

(* A path is marked only when a page view of it was queued: a call that    *)
(* was refused, or found invalid after its await, leaves it to the next.   *)
MarkedWasRecorded ==
    \A p \in seen : \E c \in Call : PathOf[c] = p /\ call[c].result = "ok"
=============================================================================
