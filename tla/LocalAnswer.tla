---------------------------- MODULE LocalAnswer ----------------------------
(***************************************************************************)
(* What the browser takes a GetSnapshotResponse for (generated-mapper.ts): *)
(* an outcome for resolveLocalPlaybackPresentation, or nothing it can read *)
(* (invalidGeneratedState).  The enumerations are open: what the schema    *)
(* does not name, or names "unspecified", is unreadable.                   *)
(***************************************************************************)
SelectionReasons == {"strict-pin", "sole-playing", "sole-non-playing"}
AmbiguityReasons == {"multiple-playing", "multiple-non-playing"}

\* localActivity
ReadableActivities == {"Playing", "Paused", "Stopped"}

\* TrustedLocalPlaybackOutcome: a selection, or the status to be shown.
Readable(kind, status) == [kind |-> kind, status |-> status]

Unreadable == Readable("unreadable", "none")

NativeSessionUnavailable == Readable("native-session-unavailable", "native-session-unavailable")

\* successfulSnapshot and selectionReason: an item whose fields are all missing
\* is readable, an unknown activity is not.
AvailableOutcome(response) ==
    IF response.activity \in ReadableActivities /\ response.reason \in SelectionReasons
    THEN Readable("policy-selected", response.reason) ELSE Unreadable

\* emptyOutcome
EmptyOutcome(reason) ==
    IF reason \notin SelectionReasons THEN Unreadable
    ELSE Readable("policy-status", IF reason = "strict-pin" THEN "strict-pin-unavailable" ELSE "no-source")

\* ambiguousOutcome
AmbiguousOutcome(reason) ==
    IF reason \in AmbiguityReasons THEN Readable("policy-status", "ambiguous-sources") ELSE Unreadable

\* unavailableOutcome
UnavailableOutcome(reason) ==
    CASE reason = "no-source" -> Readable("policy-status", "no-source")
      [] reason = "strict-pin-lost" -> Readable("policy-status", "strict-pin-unavailable")
      [] reason = "native-session" -> NativeSessionUnavailable
      [] OTHER -> Unreadable

\* The switches of mappedSnapshot: the capability before the outcome.  A stale
\* outcome is what it was last, unless it is older than the clock it is dated by.
AvailableCapabilityOutcome(response) ==
    CASE response.outcome = "available" -> AvailableOutcome(response)
      [] response.outcome = "empty" -> EmptyOutcome(response.reason)
      [] response.outcome = "ambiguous" -> AmbiguousOutcome(response.reason)
      [] response.outcome = "unavailable" -> UnavailableOutcome(response.reason)
      [] response.outcome = "stale" ->
            IF response.activity \in ReadableActivities /\ ~response.olderThanClock
            THEN UnavailableOutcome(response.reason) ELSE Unreadable
      [] OTHER -> Unreadable

MappedOutcome(response) ==
    CASE response.capability = "unsupported-platform" ->
            Readable("unsupported-platform", "unsupported-platform")
      [] response.capability = "native-session-unavailable" -> NativeSessionUnavailable
      [] response.capability = "available" -> AvailableCapabilityOutcome(response)
      [] OTHER -> Unreadable
=============================================================================
