--------------------------- MODULE MCBrowserClient ---------------------------
(***************************************************************************)
(* Instances of BrowserClient for TLC: which events there are, of which    *)
(* purpose, and through which API they are captured.                       *)
(***************************************************************************)
EXTENDS BrowserClient, TLC

CONSTANTS a, b, c

(* Two purposes; c comes through the legacy API. *)
MixedEvent == {a, b, c}
MixedPurposeOf == a :> "analytics" @@ b :> "measurement" @@ c :> "measurement"
MixedLegacy == {c}

MeasurementOnly == {"measurement"}

(* One purpose only; b comes through the legacy API, or none does. *)
PairEvent == {a, b}
PairPurposeOf == [e \in PairEvent |-> "analytics"]
PairLegacy == {b}
NoLegacy == {}
AnalyticsOnly == {"analytics"}
=============================================================================
