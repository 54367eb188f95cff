--------------------------- MODULE SessionsProofs ---------------------------
(***************************************************************************)
(* Proofs about Sessions, for all page views, paths, limits and bounds.    *)
(***************************************************************************)
EXTENDS Sessions, TLAPS

USE DEF client, ids

(***************************************************************************)
(* Types                                                                   *)
(***************************************************************************)
LEMMA NoCallTyped == NoCall \in CallState /\ NoCall.at = "none"
  BY DEF NoCall, CallState

LEMMA CallsTyped ==
    ASSUME TypeOK
    PROVE  /\ \A c \in Call, at \in {"building", "appending"} :
                Begun(c, at) \in [Call -> CallState]
           /\ \A c \in Call, result \in {"ok", "refused", "gone"} :
                Ended(c, result) \in [Call -> CallState]
           /\ \A c \in Call :
                /\ [call EXCEPT ![c].at = "built"] \in [Call -> CallState]
                /\ [call EXCEPT ![c].at = "queued"] \in [Call -> CallState]
           /\ \A c \in Call :
                [call EXCEPT ![c].at = "over", ![c].result = "ok"]
                  \in [Call -> CallState]
           /\ Disturbed \in [Call -> CallState]
  <1>1. call \in [Call -> CallState]
    BY DEF TypeOK
  <1>2. ASSUME NEW c \in Call, NEW at \in {"building", "appending"}
        PROVE  Begun(c, at) \in [Call -> CallState]
    <2> DEFINE over == {d \in Call : Pending(d) /\ PathOf[d] = PathOf[c]}
               s == [NoCall EXCEPT !.at = at, !.intact = TRUE, !.over = over]
    <2>1. over \in SUBSET Call
      OBVIOUS
    <2> HIDE DEF over
    <2>2. s \in CallState
      BY <2>1 DEF NoCall, CallState
    <2>3. Begun(c, at) = [call EXCEPT ![c] = s]
      BY DEF Begun, over
    <2> HIDE DEF s
    <2> QED BY <1>1, <2>2, <2>3
  <1>3. ASSUME NEW c \in Call, NEW result \in {"ok", "refused", "gone"}
        PROVE  Ended(c, result) \in [Call -> CallState]
    BY <1>1 DEF Ended, NoCall, CallState
  <1>4. ASSUME NEW c \in Call
        PROVE  /\ [call EXCEPT ![c].at = "built"] \in [Call -> CallState]
               /\ [call EXCEPT ![c].at = "queued"] \in [Call -> CallState]
    BY <1>1 DEF CallState
  <1>5. ASSUME NEW c \in Call
        PROVE  [call EXCEPT ![c].at = "over", ![c].result = "ok"]
                 \in [Call -> CallState]
    <2>1. [call[c] EXCEPT !.at = "over", !.result = "ok"] \in CallState
      <3>1. call[c] \in CallState
        BY <1>1
      <3>2. [call[c] EXCEPT !.at = "over"] \in CallState
        BY <3>1 DEF CallState
      <3> DEFINE s == [call[c] EXCEPT !.at = "over"]
      <3> HIDE DEF s
      <3>3. s \in CallState
        BY <3>2 DEF s
      <3>4. [s EXCEPT !.result = "ok"] \in CallState
        BY <3>3 DEF CallState
      <3>5. [s EXCEPT !.result = "ok"]
              = [call[c] EXCEPT !.at = "over", !.result = "ok"]
        BY <3>1 DEF s
      <3> QED BY <3>4, <3>5
    <2>2. [call EXCEPT ![c].at = "over", ![c].result = "ok"]
            = [call EXCEPT ![c] = [call[c] EXCEPT !.at = "over", !.result = "ok"]]
      BY <1>1
    <2> QED BY <1>1, <2>1, <2>2
  <1>6. Disturbed \in [Call -> CallState]
    <2>1. ASSUME NEW s \in CallState PROVE [s EXCEPT !.intact = FALSE] \in CallState
      BY DEF CallState
    <2> QED BY <1>1, <2>1 DEF Disturbed
  <1> QED BY <1>2, <1>3, <1>4, <1>5, <1>6

(* What a call of resolveSession() leaves behind.                          *)
LEMMA ResolveTyped ==
    ASSUME TypeOK, NEW p \in Purpose, ResolveSession(p)
    PROVE  /\ stored' \in Record \cup {None}
           /\ last' \in Record \cup {None}
           /\ issued' \in Nat
  <1>types. /\ stored \in Record \cup {None} /\ last \in Record \cup {None}
            /\ issued \in Nat /\ now \in Nat
    BY DEF TypeOK
  <1>1. CASE ~(mode = "session" /\ p \in granted)
    BY <1>types, <1>1 DEF ResolveSession
  <1>2. CASE mode = "session" /\ p \in granted
    <2>1. ResolveBrowserSessionId
      BY <1>2 DEF ResolveSession
    <2>2. CASE Readable # None /\ ~IsSessionExpired(Readable)
      <3>1. /\ stored' = IF storage = "works" THEN [Readable EXCEPT !.active = now]
                         ELSE stored
            /\ last' = [id |-> Readable.id, active |-> now, created |->
                          IF last # None /\ last.id = Readable.id
                          THEN last.created ELSE now]
            /\ issued' = issued
        BY <2>1, <2>2 DEF ResolveBrowserSessionId, SetItem
      <3>2. Readable \in Record
        BY <1>types, <2>2 DEF Readable
      <3>3. [Readable EXCEPT !.active = now] \in Record
        BY <1>types, <3>2 DEF Record
      <3>4. last' \in Record
        BY <1>types, <3>1, <3>2 DEF Record
      <3> QED BY <1>types, <3>1, <3>3, <3>4
    <2>3. CASE ~(Readable # None /\ ~IsSessionExpired(Readable))
      <3>1. /\ issued' = issued + 1
            /\ stored' = IF storage = "works"
                         THEN [id |-> issued', created |-> now, active |-> now]
                         ELSE stored
            /\ last' = [id |-> issued', created |-> now, active |-> now]
        BY <2>1, <2>3 DEF ResolveBrowserSessionId, SetItem
      <3> QED BY <1>types, <3>1 DEF Record
    <2> QED BY <2>2, <2>3
  <1> QED BY <1>1, <1>2

LEMMA TypeInit == Init => TypeOK
  <1> SUFFICES ASSUME Init PROVE TypeOK
    OBVIOUS
  <1>1. call \in [Call -> CallState]
    BY NoCallTyped DEF Init
  <1>2. hasRegistry \in BOOLEAN /\ mode \in {"none", "session"}
    BY DEF Init
  <1> QED BY <1>1, <1>2 DEF Init, TypeOK

LEMMA TypeStep == TypeOK /\ [Next]_vars => TypeOK'
  <1> SUFFICES ASSUME TypeOK, [Next]_vars PROVE TypeOK'
    OBVIOUS
  <1>1. ASSUME NEW c \in Call, Refuse(c) PROVE TypeOK'
    BY <1>1, CallsTyped DEF Refuse, TypeOK
  <1>2. ASSUME NEW c \in Call, CaptureBegin(c) PROVE TypeOK'
    <2>1. call' \in [Call -> CallState]
      BY <1>2, CallsTyped DEF CaptureBegin
    <2> QED BY <1>2, <2>1, ResolveTyped DEF CaptureBegin, TypeOK, Purpose
  <1>3. ASSUME NEW c \in Call, CaptureBuild(c) \/ CaptureFinish(c) \/ LegacyFinish(c)
        PROVE  TypeOK'
    <2>1. \/ call' = [call EXCEPT ![c].at = "built"]
          \/ call' = [call EXCEPT ![c].at = "queued"]
          \/ call' = Ended(c, "refused")
      BY <1>3 DEF CaptureBuild, CaptureFinish, LegacyFinish
    <2>2. /\ [call EXCEPT ![c].at = "built"] \in [Call -> CallState]
          /\ [call EXCEPT ![c].at = "queued"] \in [Call -> CallState]
          /\ Ended(c, "refused") \in [Call -> CallState]
      BY CallsTyped
    <2>3. call' \in [Call -> CallState]
      BY ONLY <2>1, <2>2
    <2> QED BY <1>3, <2>3 DEF CaptureBuild, CaptureFinish, LegacyFinish, TypeOK
  <1>4. ASSUME NEW c \in Call, LegacyBegin(c) PROVE TypeOK'
    <2>1. call' \in [Call -> CallState]
      <3>1. call' = Begun(c, "appending") \/ call' = Ended(c, "refused")
        BY <1>4 DEF LegacyBegin
      <3> QED BY <3>1, CallsTyped
    <2> QED BY <1>4, <2>1, ResolveTyped DEF LegacyBegin, TypeOK, Purpose
  <1>5. ASSUME NEW c \in Call, Return(c) PROVE TypeOK'
    <2>1. call' \in [Call -> CallState]
      <3>1. call' = [call EXCEPT ![c].at = "over", ![c].result = "ok"]
        BY <1>5 DEF Return
      <3> QED BY <3>1, CallsTyped
    <2>2. seen' \in SUBSET Path
      BY <1>5, SessionsAssumption DEF Return, TypeOK
    <2> QED BY <1>5, <2>1, <2>2 DEF Return, TypeOK
  <1>6. ASSUME NEW p \in Purpose, Track(p) PROVE TypeOK'
    BY <1>6, ResolveTyped DEF Track, TypeOK
  <1>7. ASSUME NEW p \in Purpose, Grant(p) \/ Unset(p) PROVE TypeOK'
    <2>1. granted' \in SUBSET Purpose
      BY <1>7 DEF Grant, Unset, TypeOK
    <2>2. changes' \in Nat
      BY <1>7 DEF Grant, Unset, Change, TypeOK
    <2> QED BY <1>7, <2>1, <2>2 DEF Grant, Unset, TypeOK
  <1>8. ASSUME NEW grants \in SUBSET Purpose, NEW denials \in SUBSET Purpose,
               NEW denied, Withdraw(grants, denials, denied)
        PROVE  TypeOK'
    <2>1. granted' \in SUBSET Purpose /\ changes' \in Nat /\ seen' \in SUBSET Path
      BY <1>8 DEF Withdraw, Change, TypeOK
    <2>2. call' \in [Call -> CallState]
      <3>1. call' = Disturbed \/ call' = call
        BY <1>8 DEF Withdraw
      <3> QED BY <3>1, CallsTyped DEF TypeOK
    <2>3. stored' \in Record \cup {None} /\ last' \in Record \cup {None}
      BY <1>8 DEF Withdraw, ClearBrowserSession, SetItem, TypeOK
    <2>4. erased' \in BOOLEAN
      BY <1>8 DEF Withdraw, ClearBrowserSession
    <2> QED BY <1>8, <2>1, <2>2, <2>3, <2>4 DEF Withdraw, TypeOK
  <1>9. ASSUME NEW m \in {"none", "session"}, ConfigureCapture(m) PROVE TypeOK'
    <2>1. changes' \in Nat /\ mode' = m
      BY <1>9 DEF ConfigureCapture, Change, TypeOK
    <2>2. call' \in [Call -> CallState]
      BY <1>9, CallsTyped DEF ConfigureCapture
    <2> QED BY <1>9, <2>1, <2>2 DEF ConfigureCapture, TypeOK
  <1>10. CASE Destroy
    <2>1. changes' \in Nat
      BY <1>10 DEF Destroy, Change, TypeOK
    <2>2. call' \in [Call -> CallState]
      BY <1>10, CallsTyped DEF Destroy
    <2> QED BY <1>10, <2>1, <2>2 DEF Destroy, TypeOK
  <1>11. CASE Reload
    <2>1. changes' \in Nat
      BY <1>11 DEF Reload, Change, TypeOK
    <2>2. call' \in [Call -> CallState]
      BY <1>11, CallsTyped DEF Reload, NoCall, CallState
    <2> QED BY <1>11, <2>1, <2>2 DEF Reload, TypeOK
  <1>12. ASSUME NEW s \in {"readonly", "throws"}, StorageBreaks(s) PROVE TypeOK'
    <2>1. changes' \in Nat /\ storage' = s
      BY <1>12 DEF StorageBreaks, Change, TypeOK
    <2> QED BY <1>12, <2>1 DEF StorageBreaks, TypeOK
  <1>13. CASE StorageLost
    BY <1>13 DEF StorageLost, TypeOK
  <1>14. CASE Tick
    <2>1. now' \in Nat
      BY <1>14 DEF Tick, TypeOK
    <2> QED BY <1>14, <2>1 DEF Tick, TypeOK
  <1>15. CASE UNCHANGED vars
    BY <1>15 DEF vars, TypeOK
  <1>16. ASSUME NEW p \in Purpose, RevokeCapture(p) PROVE TypeOK'
    BY <1>8, <1>16 DEF RevokeCapture
  <1>17. ASSUME NEW grants \in SUBSET Purpose, NEW denials \in SUBSET Purpose,
                AdoptExternalConsent(grants, denials)
         PROVE  TypeOK'
    BY <1>8, <1>17 DEF AdoptExternalConsent
  <1> QED
    BY <1>1, <1>2, <1>3, <1>4, <1>5, <1>6, <1>7, <1>9, <1>10, <1>11, <1>12, <1>13,
       <1>14, <1>15, <1>16, <1>17 DEF Next

(* Every variable keeps its type. *)
THEOREM TypeCorrect == Spec => []TypeOK
  BY TypeInit, TypeStep, PTL DEF Spec

(***************************************************************************)
(* The age of a session                                                    *)
(***************************************************************************)

(* What the storage says of an id is no younger than what was given out.   *)
IdsKnown ==
    /\ stored # None => /\ stored.id <= issued
                        /\ stored.created <= now /\ stored.active <= now
    /\ last # None => last.id <= issued
    /\ stored # None /\ last # None /\ stored.id = last.id =>
         stored.created <= last.created /\ stored.active <= last.active

GivenInTime ==
    last # None /\ last' # None /\ last'.id = last.id /\ last' # last =>
        now - last.created <= MaxAge /\ now - last.active <= Inactivity

LEMMA ResolveInTime ==
    ASSUME TypeOK, IdsKnown, NEW p \in Purpose, ResolveSession(p), UNCHANGED now
    PROVE  IdsKnown' /\ GivenInTime
  <1>types. /\ stored \in Record \cup {None} /\ last \in Record \cup {None}
            /\ issued \in Nat /\ now \in Nat /\ MaxAge \in Nat /\ Inactivity \in Nat
            /\ None \notin Record
    BY SessionsAssumption DEF TypeOK
  <1>1. CASE ~(mode = "session" /\ p \in granted)
    <2>1. UNCHANGED <<stored, issued, last>>
      BY <1>1 DEF ResolveSession
    <2> QED BY <2>1 DEF IdsKnown, GivenInTime
  <1>2. CASE mode = "session" /\ p \in granted
    <2>1. ResolveBrowserSessionId
      BY <1>2 DEF ResolveSession
    <2>2. CASE Readable # None /\ ~IsSessionExpired(Readable)
      <3>1. /\ stored' = IF storage = "works" THEN [stored EXCEPT !.active = now]
                         ELSE stored
            /\ last' = [id |-> stored.id, active |-> now, created |->
                          IF last # None /\ last.id = stored.id
                          THEN last.created ELSE now]
            /\ issued' = issued
            /\ stored \in Record
        BY <1>types, <2>1, <2>2
           DEF ResolveBrowserSessionId, SetItem, Readable
      <3>2. /\ now - stored.created <= MaxAge /\ now - stored.active <= Inactivity
            /\ stored.id \in Nat /\ stored.created \in Nat /\ stored.active \in Nat
        BY <1>types, <2>2, <3>1 DEF IsSessionExpired, Readable, Record
      <3>3. /\ stored'.id = stored.id /\ stored'.created = stored.created
            /\ stored'.active \in {stored.active, now}
            /\ last'.id = stored.id /\ last'.active = now
        BY <3>1 DEF Record
      <3>4. /\ last # None /\ last.id = stored.id => last'.created = last.created
            /\ ~(last # None /\ last.id = stored.id) => last'.created = now
        BY <3>1
      <3>5. last # None => last.created \in Nat /\ last.active \in Nat
        BY <1>types DEF Record
      <3>6. stored # None
        BY <1>types, <3>1
      <3>7. GivenInTime
        BY <1>types, <3>2, <3>3, <3>5, <3>6 DEF IdsKnown, GivenInTime
      <3>8. IdsKnown'
        BY <1>types, <3>1, <3>2, <3>3, <3>4, <3>6 DEF IdsKnown
      <3> QED BY <3>7, <3>8
    <2>3. CASE ~(Readable # None /\ ~IsSessionExpired(Readable))
      <3>1. /\ issued' = issued + 1
            /\ stored' = IF storage = "works"
                         THEN [id |-> issued + 1, created |-> now, active |-> now]
                         ELSE stored
            /\ last' = [id |-> issued + 1, created |-> now, active |-> now]
        BY <2>1, <2>3 DEF ResolveBrowserSessionId, SetItem
      <3>2. /\ stored # None => stored.id \in Nat
            /\ last # None => last.id \in Nat
        BY <1>types DEF Record
      <3>3. GivenInTime
        BY <1>types, <3>1, <3>2 DEF IdsKnown, GivenInTime
      <3>4. IdsKnown'
        <4>1. CASE storage = "works"
          BY <1>types, <3>1, <4>1 DEF IdsKnown
        <4>2. CASE storage # "works"
          BY <1>types, <3>1, <3>2, <4>2 DEF IdsKnown
        <4> QED BY <4>1, <4>2
      <3> QED BY <3>3, <3>4
    <2> QED BY <2>2, <2>3
  <1> QED BY <1>1, <1>2

(* Every other step keeps or drops what is stored and what was given out.  *)
LEMMA OtherwiseKept ==
    ASSUME TypeOK, [Next]_vars
    PROVE  \/ UNCHANGED now /\ \E p \in Purpose : ResolveSession(p)
           \/ /\ stored' \in {stored, None} /\ last' \in {last, None}
              /\ issued' = issued /\ now <= now'
  <1>types. now \in Nat /\ "analytics" \in Purpose
    BY DEF TypeOK, Purpose
  <1>1. ASSUME NEW c \in Call, CaptureBegin(c) \/ LegacyBegin(c)
        PROVE  UNCHANGED now /\ \E p \in Purpose : ResolveSession(p)
    BY <1>1, <1>types DEF CaptureBegin, LegacyBegin
  <1>2. ASSUME NEW p \in Purpose, Track(p)
        PROVE  UNCHANGED now /\ \E q \in Purpose : ResolveSession(q)
    BY <1>2 DEF Track
  <1>3. ASSUME NEW c \in Call,
               Refuse(c) \/ CaptureBuild(c) \/ CaptureFinish(c) \/ LegacyFinish(c)
                         \/ Return(c)
        PROVE  UNCHANGED <<stored, issued, last, now>>
    BY <1>3 DEF Refuse, CaptureBuild, CaptureFinish, LegacyFinish, Return
  <1>4. ASSUME NEW p \in Purpose, Grant(p) \/ Unset(p)
        PROVE  UNCHANGED <<stored, issued, last, now>>
    BY <1>4 DEF Grant, Unset
  <1>5. ASSUME NEW grants, NEW denials, NEW denied, Withdraw(grants, denials, denied)
        PROVE  /\ stored' \in {stored, None} /\ last' \in {last, None}
               /\ UNCHANGED <<issued, now>>
    BY <1>5 DEF Withdraw, ClearBrowserSession, SetItem
  <1>6. ASSUME NEW m, ConfigureCapture(m) PROVE UNCHANGED <<stored, issued, last, now>>
    BY <1>6 DEF ConfigureCapture
  <1>7. CASE Destroy \/ Reload
    BY <1>7, <1>types DEF Destroy, Reload
  <1>8. ASSUME NEW s, StorageBreaks(s) PROVE UNCHANGED <<stored, issued, last, now>>
    BY <1>8 DEF StorageBreaks
  <1>9. CASE StorageLost
    BY <1>9, <1>types DEF StorageLost
  <1>10. CASE Tick
    BY <1>10, <1>types DEF Tick
  <1>11. CASE UNCHANGED vars
    BY <1>11, <1>types DEF vars
  <1>12. ASSUME NEW p \in Purpose, RevokeCapture(p)
         PROVE  /\ stored' \in {stored, None} /\ last' \in {last, None}
                /\ UNCHANGED <<issued, now>>
    BY <1>5, <1>12 DEF RevokeCapture
  <1>13. ASSUME NEW grants, NEW denials, AdoptExternalConsent(grants, denials)
         PROVE  /\ stored' \in {stored, None} /\ last' \in {last, None}
                /\ UNCHANGED <<issued, now>>
    BY <1>5, <1>13 DEF AdoptExternalConsent
  <1> QED
    BY <1>types, <1>1, <1>2, <1>3, <1>4, <1>6, <1>7, <1>8, <1>9, <1>10, <1>11, <1>12,
       <1>13 DEF Next

LEMMA IdsStep ==
    ASSUME TypeOK, TypeOK', IdsKnown, [Next]_vars
    PROVE  IdsKnown' /\ GivenInTime
  <1>1. CASE UNCHANGED now /\ \E p \in Purpose : ResolveSession(p)
    BY <1>1, ResolveInTime
  <1>2. CASE /\ stored' \in {stored, None} /\ last' \in {last, None}
             /\ issued' = issued /\ now <= now'
    <2>1. now \in Nat /\ now' \in Nat /\ stored \in Record \cup {None}
      BY DEF TypeOK
    <2>2. stored # None => stored.created \in Nat /\ stored.active \in Nat
      BY <2>1 DEF Record
    <2>3. IdsKnown'
      BY <1>2, <2>1, <2>2 DEF IdsKnown
    <2> QED BY <1>2, <2>3 DEF GivenInTime
  <1> QED BY <1>1, <1>2, OtherwiseKept

(* A session id is not given out past its age or after a long pause.       *)
THEOREM SessionsDoEnd == Spec => SessionsEnd
  <1>1. Init => IdsKnown
    BY DEF Init, IdsKnown
  <1>2. TypeOK /\ TypeOK' /\ IdsKnown /\ [Next]_vars => IdsKnown' /\ [GivenInTime]_vars
    BY IdsStep
  <1> QED BY <1>1, <1>2, TypeInit, TypeStep, PTL DEF Spec, SessionsEnd, GivenInTime

(***************************************************************************)
(* Erasure                                                                 *)
(***************************************************************************)

ErasedInv ==
    /\ erased => granted = {}
    /\ ~troubled => storage = "works"
    /\ erased /\ ~troubled => stored = None

LEMMA ErasedStep ==
    ASSUME TypeOK, ErasedInv, [Next]_vars
    PROVE  ErasedInv'
  <1>1. ASSUME NEW p \in Purpose, ResolveSession(p),
               UNCHANGED <<granted, storage, erased, troubled>>
        PROVE  ErasedInv'
    BY <1>1 DEF ErasedInv, ResolveSession
  <1>2. ASSUME NEW c \in Call, CaptureBegin(c) \/ LegacyBegin(c) PROVE ErasedInv'
    BY <1>1, <1>2 DEF CaptureBegin, LegacyBegin, Purpose
  <1>3. ASSUME NEW p \in Purpose, Track(p) PROVE ErasedInv'
    BY <1>1, <1>3 DEF Track
  <1>4. ASSUME NEW c \in Call,
               Refuse(c) \/ CaptureBuild(c) \/ CaptureFinish(c) \/ LegacyFinish(c)
                         \/ Return(c)
        PROVE  ErasedInv'
    BY <1>4 DEF Refuse, CaptureBuild, CaptureFinish, LegacyFinish, Return, ErasedInv
  <1>5. ASSUME NEW p \in Purpose, Grant(p) PROVE ErasedInv'
    BY <1>5 DEF Grant, ErasedInv
  <1>6. ASSUME NEW p \in Purpose, Unset(p) PROVE ErasedInv'
    BY <1>6 DEF Unset, ErasedInv
  <1>7. ASSUME NEW grants, NEW denials, NEW denied, Withdraw(grants, denials, denied)
        PROVE  ErasedInv'
    <2>1. UNCHANGED <<storage, troubled>> /\ (erased' => granted' = {})
      BY <1>7 DEF Withdraw, ClearBrowserSession
    <2>2. CASE ClearBrowserSession
      BY <2>1, <2>2 DEF ClearBrowserSession, SetItem, ErasedInv
    <2>3. CASE (erased' => erased) /\ UNCHANGED stored
      BY <2>1, <2>3 DEF ErasedInv
    <2> QED BY <1>7, <2>2, <2>3 DEF Withdraw
  <1>8. ASSUME NEW m, ConfigureCapture(m) PROVE ErasedInv'
    BY <1>8 DEF ConfigureCapture, ErasedInv
  <1>9. CASE Destroy
    BY <1>9 DEF Destroy, ErasedInv
  <1>10. CASE Reload
    BY <1>10 DEF Reload, ErasedInv
  <1>11. ASSUME NEW s, StorageBreaks(s) PROVE ErasedInv'
    BY <1>11 DEF StorageBreaks, ErasedInv
  <1>12. CASE StorageLost
    BY <1>12 DEF StorageLost, ErasedInv
  <1>13. CASE Tick
    BY <1>13 DEF Tick, ErasedInv
  <1>14. CASE UNCHANGED vars
    BY <1>14 DEF vars, ErasedInv
  <1> QED
    BY <1>2, <1>3, <1>4, <1>5, <1>6, <1>7, <1>8, <1>9, <1>10, <1>11, <1>12, <1>13,
       <1>14 DEF Next, RevokeCapture, AdoptExternalConsent

(* After an erasure nothing is stored until a purpose is granted again.    *)
THEOREM ErasureHolds == Spec => []ErasedUntilGranted
  <1>1. Init => ErasedInv
    BY DEF Init, ErasedInv
  <1>2. TypeOK /\ ErasedInv /\ [Next]_vars => ErasedInv'
    BY ErasedStep
  <1>3. ErasedInv => ErasedUntilGranted
    BY DEF ErasedInv, ErasedUntilGranted
  <1> QED BY <1>1, <1>2, <1>3, TypeInit, TypeStep, PTL DEF Spec

(***************************************************************************)
(* Page impressions                                                        *)
(***************************************************************************)

Ok(c) == call[c].result = "ok"
Live(c) == call[c].intact /\ (Pending(c) \/ Ok(c))

OkIsOver == \A c \in Call : Ok(c) => call[c].at = "over"
LiveAreMarked ==
    \A c \in Call : mode = "none" /\ Live(c) /\ Ok(c) => PathOf[c] \in seen
LiveOverlap ==
    \A c, d \in Call :
        mode = "none" /\ c # d /\ PathOf[c] = PathOf[d] /\ Live(c) /\ Live(d)
          => c \in call[d].over \/ d \in call[c].over

MarkInv == OkIsOver /\ MarkedWasRecorded
LiveInv == OkIsOver /\ LiveAreMarked /\ LiveOverlap

(* What the steps do to the page views and the marks.  One of them begins  *)
(* and finds its path unmarked,                                            *)
Begins(c) ==
    /\ call[c].at = "none" /\ CanRecord(c)
    /\ \E at \in {"building", "appending"} : call' = Begun(c, at)
    /\ UNCHANGED <<mode, seen>>

(* or goes on,                                                             *)
Continues(c) ==
    /\ Pending(c)
    /\ \E at \in {"built", "queued"} : call' = [call EXCEPT ![c].at = at]
    /\ UNCHANGED <<mode, seen>>

(* or ends without a result,                                               *)
Fails(c) ==
    /\ call[c].at # "over"
    /\ call' = Ended(c, "refused")
    /\ UNCHANGED <<mode, seen>>

(* or the ground rules change for all,                                     *)
Disturbs ==
    /\ \A c \in Call : /\ call'[c].intact = FALSE
                       /\ \/ call'[c].at = call[c].at /\ call'[c].result = call[c].result
                          \/ Pending(c) /\ call'[c].result # "ok"
    /\ seen' \in {seen, {}}

LEMMA PageViewSteps ==
    ASSUME TypeOK, [Next]_vars
    PROVE  \/ \E c \in Call : Begins(c) \/ Continues(c) \/ Fails(c) \/ Return(c)
           \/ Disturbs
           \/ UNCHANGED <<mode, seen, call>>
  <1>types. call \in [Call -> CallState]
    BY DEF TypeOK
  <1>disturbed. \A c \in Call : /\ Disturbed[c].intact = FALSE
                                /\ Disturbed[c].at = call[c].at
                                /\ Disturbed[c].result = call[c].result
    BY <1>types DEF Disturbed, CallState
  <1>1. ASSUME NEW c \in Call, Refuse(c) PROVE Fails(c)
    BY <1>1 DEF Refuse, Fails
  <1>2. ASSUME NEW c \in Call, CaptureBegin(c) PROVE Begins(c)
    BY <1>2 DEF CaptureBegin, Begins
  <1>3. ASSUME NEW c \in Call, CaptureBuild(c) PROVE Continues(c) \/ Fails(c)
    BY <1>3 DEF CaptureBuild, Continues, Fails, Pending
  <1>4. ASSUME NEW c \in Call, CaptureFinish(c) PROVE Continues(c) \/ Fails(c)
    BY <1>4 DEF CaptureFinish, Continues, Fails, Pending
  <1>5. ASSUME NEW c \in Call, LegacyBegin(c) PROVE Begins(c) \/ Fails(c)
    BY <1>5 DEF LegacyBegin, Begins, Fails
  <1>6. ASSUME NEW c \in Call, LegacyFinish(c) PROVE Continues(c)
    BY <1>6 DEF LegacyFinish, Continues, Pending
  <1>7. ASSUME NEW p \in Purpose, Track(p) \/ Grant(p) \/ Unset(p)
        PROVE  UNCHANGED <<mode, seen, call>>
    BY <1>7 DEF Track, Grant, Unset
  <1>8. ASSUME NEW grants, NEW denials, NEW denied, Withdraw(grants, denials, denied)
        PROVE  Disturbs \/ UNCHANGED <<mode, seen, call>>
    BY <1>8, <1>disturbed DEF Withdraw, Disturbs
  <1>9. ASSUME NEW m, ConfigureCapture(m) PROVE Disturbs
    BY <1>9, <1>disturbed DEF ConfigureCapture, Disturbs
  <1>10. CASE Destroy
    BY <1>10, <1>disturbed DEF Destroy, Disturbs
  <1>11. CASE Reload
    <2>1. \A c \in Call :
            call'[c] = IF Pending(c) THEN [NoCall EXCEPT !.at = "over", !.result = "gone"]
                       ELSE Disturbed[c]
      BY <1>11 DEF Reload
    <2>2. seen' = {}
      BY <1>11 DEF Reload
    <2> QED BY <1>disturbed, <2>1, <2>2 DEF Disturbs, NoCall
  <1>12. ASSUME NEW s, StorageBreaks(s) PROVE UNCHANGED <<mode, seen, call>>
    BY <1>12 DEF StorageBreaks
  <1>13. CASE StorageLost \/ Tick
    BY <1>13 DEF StorageLost, Tick
  <1>14. CASE UNCHANGED vars
    BY <1>14 DEF vars
  <1> QED
    BY <1>1, <1>2, <1>3, <1>4, <1>5, <1>6, <1>7, <1>8, <1>9, <1>10, <1>11, <1>12,
       <1>13, <1>14 DEF Next, RevokeCapture, AdoptExternalConsent

(* A step of one page view leaves the others as they are.                  *)
LEMMA OthersStay ==
    ASSUME TypeOK, NEW c \in Call,
           Begins(c) \/ Continues(c) \/ Fails(c) \/ Return(c)
    PROVE  \A d \in Call \ {c} : call'[d] = call[d]
  BY DEF TypeOK, Begins, Continues, Fails, Return, Begun, Ended

LEMMA OwnStep ==
    ASSUME TypeOK, NEW c \in Call
    PROVE  /\ Begins(c) =>
                /\ call'[c].at \in {"building", "appending"}
                /\ call'[c].result = "pending"
                /\ call'[c].over = {d \in Call : Pending(d) /\ PathOf[d] = PathOf[c]}
           /\ Continues(c) => /\ call'[c].at \in {"built", "queued"}
                              /\ call'[c].result = call[c].result
                              /\ call'[c].over = call[c].over
                              /\ call'[c].intact = call[c].intact
           /\ Fails(c) => call'[c].result = "refused" /\ call'[c].intact = FALSE
                          /\ call'[c].at = "over"
           /\ Return(c) => /\ call'[c].at = "over" /\ call'[c].result = "ok"
                           /\ call'[c].over = call[c].over
                           /\ call'[c].intact = call[c].intact
  <1>1. call \in [Call -> CallState]
    BY DEF TypeOK
  <1>2. Begins(c) =>
          /\ call'[c].at \in {"building", "appending"}
          /\ call'[c].result = "pending"
          /\ call'[c].over = {d \in Call : Pending(d) /\ PathOf[d] = PathOf[c]}
    BY <1>1 DEF Begins, Begun, NoCall
  <1>3. Continues(c) => /\ call'[c].at \in {"built", "queued"}
                        /\ call'[c].result = call[c].result
                        /\ call'[c].over = call[c].over
                        /\ call'[c].intact = call[c].intact
    BY <1>1 DEF Continues, CallState
  <1>4. Fails(c) => call'[c].result = "refused" /\ call'[c].intact = FALSE
                    /\ call'[c].at = "over"
    BY <1>1 DEF Fails, Ended, NoCall
  <1>5. Return(c) => /\ call'[c].at = "over" /\ call'[c].result = "ok"
                     /\ call'[c].over = call[c].over
                     /\ call'[c].intact = call[c].intact
    BY <1>1 DEF Return, CallState
  <1> QED BY <1>2, <1>3, <1>4, <1>5

(* Who has been recorded stays recorded.                                   *)
LEMMA OkStays ==
    ASSUME TypeOK, OkIsOver, [Next]_vars
    PROVE  OkIsOver' /\ \A d \in Call : Ok(d) => Ok(d)'
  <1>1. ASSUME NEW c \in Call, Begins(c) \/ Continues(c) \/ Fails(c) \/ Return(c)
        PROVE  OkIsOver' /\ \A d \in Call : Ok(d) => Ok(d)'
    <2>1. \A d \in Call \ {c} : call'[d] = call[d]
      BY <1>1, OthersStay
    <2>2. call[c].at # "over" /\ ~Ok(c)
      BY <1>1 DEF Begins, Continues, Fails, Return, Pending, OkIsOver, Ok
    <2>3. Ok(c)' => call'[c].at = "over"
      BY <1>1, <2>2, OwnStep DEF Ok
    <2> QED BY <2>1, <2>2, <2>3 DEF OkIsOver, Ok
  <1>2. CASE Disturbs
    BY <1>2 DEF Disturbs, OkIsOver, Ok, Pending
  <1>3. CASE UNCHANGED <<mode, seen, call>>
    BY <1>3 DEF OkIsOver, Ok
  <1> QED BY <1>1, <1>2, <1>3, PageViewSteps

LEMMA MarkStep ==
    ASSUME TypeOK, MarkInv, [Next]_vars
    PROVE  MarkInv'
  <1>1. OkIsOver' /\ \A d \in Call : Ok(d) => Ok(d)'
    BY OkStays DEF MarkInv
  <1>2. \A p \in seen : \E d \in Call : PathOf[d] = p /\ Ok(d)'
    BY <1>1 DEF MarkInv, MarkedWasRecorded, Ok
  <1>3. ASSUME NEW p \in seen' \ seen
        PROVE  \E d \in Call : PathOf[d] = p /\ Ok(d)'
    <2>1. PICK c \in Call : Return(c)
      BY <1>3, PageViewSteps DEF Begins, Continues, Fails, Disturbs
    <2>2. PathOf[c] = p
      BY <1>3, <2>1 DEF Return
    <2> QED BY <2>1, <2>2, OwnStep DEF Ok
  <1> QED BY <1>1, <1>2, <1>3 DEF MarkInv, MarkedWasRecorded, Ok

(* A path is marked only when a page view of it was queued.                *)
THEOREM MarksAreEarned == Spec => []MarkedWasRecorded
  <1>1. Init => MarkInv
    BY DEF Init, MarkInv, OkIsOver, MarkedWasRecorded, Ok, NoCall
  <1>2. TypeOK /\ MarkInv /\ [Next]_vars => MarkInv'
    BY MarkStep
  <1>3. MarkInv => MarkedWasRecorded
    BY DEF MarkInv
  <1> QED BY <1>1, <1>2, <1>3, TypeInit, TypeStep, PTL DEF Spec

LEMMA LiveStep ==
    ASSUME TypeOK, LiveInv, [Next]_vars
    PROVE  LiveInv'
  <1>1. OkIsOver'
    BY OkStays DEF LiveInv
  <1>2. ASSUME NEW c \in Call, Begins(c) \/ Continues(c) \/ Fails(c) \/ Return(c)
        PROVE  LiveAreMarked' /\ LiveOverlap'
    <2>1. \A d \in Call \ {c} : call'[d] = call[d] /\ (Live(d)' <=> Live(d))
                                                   /\ (Ok(d)' <=> Ok(d))
      BY <1>2, OthersStay DEF Live, Ok, Pending
    <2>2. mode' = mode /\ seen \subseteq seen'
      BY <1>2 DEF Begins, Continues, Fails, Return
    <2>3. Live(c)' /\ Ok(c)' /\ mode = "none" => PathOf[c] \in seen'
      <3>1. ~Ok(c)
        BY <1>2 DEF LiveInv, OkIsOver, Begins, Continues, Fails, Return, Pending
      <3>2. CASE Return(c)
        BY <3>2 DEF Return
      <3>3. CASE Begins(c) \/ Continues(c) \/ Fails(c)
        BY <3>1, <3>3, OwnStep DEF Ok
      <3> QED BY <1>2, <3>2, <3>3
    <2>4. LiveAreMarked'
      BY <2>1, <2>2, <2>3 DEF LiveInv, LiveAreMarked
    <2>5. ASSUME NEW d \in Call \ {c}, mode = "none", PathOf[c] = PathOf[d],
                 Live(c)', Live(d)
          PROVE  c \in call'[d].over \/ d \in call'[c].over
      <3>1. CASE Begins(c)
        <4>1. PathOf[d] \notin seen
          BY <2>5, <3>1 DEF Begins, CanRecord
        <4>2. ~Ok(d)
          BY <2>5, <4>1 DEF LiveInv, LiveAreMarked
        <4>3. Pending(d)
          BY <2>5, <4>2 DEF Live
        <4> QED BY <2>5, <3>1, <4>3, OwnStep
      <3>2. CASE Continues(c) \/ Return(c)
        <4>1. Live(c) /\ call'[c].over = call[c].over
          BY <2>5, <3>2, OwnStep DEF Live, Ok, Continues, Return, Pending
        <4> QED BY <2>1, <2>5, <4>1 DEF LiveInv, LiveOverlap
      <3>3. CASE Fails(c)
        BY <2>5, <3>3, OwnStep DEF Live
      <3> QED BY <1>2, <3>1, <3>2, <3>3
    <2>6. LiveOverlap'
      <3>1. ASSUME NEW b \in Call \ {c}, NEW d \in Call \ {c},
                   mode = "none", b # d, PathOf[b] = PathOf[d], Live(b), Live(d)
            PROVE  b \in call'[d].over \/ d \in call'[b].over
        BY <2>1, <3>1 DEF LiveInv, LiveOverlap
      <3> QED BY <2>1, <2>2, <2>5, <3>1 DEF LiveOverlap
    <2> QED BY <2>4, <2>6
  <1>3. CASE Disturbs
    BY <1>1, <1>3 DEF Disturbs, LiveInv, LiveAreMarked, LiveOverlap, Live
  <1>4. CASE UNCHANGED <<mode, seen, call>>
    BY <1>1, <1>4 DEF LiveInv, LiveAreMarked, LiveOverlap, Live, Ok, Pending
  <1> QED BY <1>1, <1>2, <1>3, <1>4, PageViewSteps DEF LiveInv

(* In none mode two recorded page views of a path overlapped.              *)
THEOREM ImpressionsAreSingle == Spec => []OneImpression
  <1>1. Init => LiveInv
    BY DEF Init, LiveInv, OkIsOver, LiveAreMarked, LiveOverlap, Live, Ok, NoCall
  <1>2. TypeOK /\ LiveInv /\ [Next]_vars => LiveInv'
    BY LiveStep
  <1>3. LiveInv => OneImpression
    BY DEF LiveInv, LiveOverlap, OneImpression, Recorded, Live, Ok
  <1> QED BY <1>1, <1>2, <1>3, TypeInit, TypeStep, PTL DEF Spec

=============================================================================
