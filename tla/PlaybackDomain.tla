--------------------------- MODULE PlaybackDomain ---------------------------
(***************************************************************************)
(* The playback lifecycle shared by the page and its worker                *)
(* (packages/domain/src/playback.ts): what a display can be showing, the   *)
(* events that move it, and transitionPlaybackState, the partial function  *)
(* that either gives the next state or refuses the event.                  *)
(*                                                                         *)
(* A state is [kind, detail]; detail is the item of a playing, paused or   *)
(* reconnecting state, the reason of an authorization-required state and   *)
(* the reason of a failure, and NoDetail where the source keeps nothing    *)
(* the properties distinguish.                                             *)
(***************************************************************************)
CONSTANT Items          \* what can be playing (a track or an episode)

NoDetail == "none"

PlaybackKinds ==
    {"initializing", "authorization-required", "authorizing", "empty",
     "playing", "paused", "unsupported", "reconnecting", "failure"}

\* The kinds from which a poll's result, or the loss of the connection, is
\* accepted.
ConnectedKinds == {"empty", "playing", "paused", "unsupported", "reconnecting"}

AuthorizationReasons ==
    {"authorization-expired", "authorization-revoked", "not-authorized",
     "permission-required"}

FailureReasons ==
    {"authorization-denied", "code-exchange-rejected", "malformed-response",
     "network", "server-error"}

Details == Items \cup AuthorizationReasons \cup FailureReasons \cup {NoDetail}

PlaybackStates == [kind : PlaybackKinds, detail : Details]

State(kind, detail) == [kind |-> kind, detail |-> detail]

Event(kind, detail) == [kind |-> kind, detail |-> detail]

InitialPlaybackState == State("initializing", NoDetail)

\* currentPlaybackItem: the item a state still shows.
CurrentItem(state) ==
    IF state.kind \in {"playing", "paused", "reconnecting"}
    THEN state.detail ELSE NoDetail

(***************************************************************************)
(* transitionPlaybackState: the kinds an event is accepted from, and the   *)
(* state it leads to.                                                      *)
(***************************************************************************)
Events == [kind : {"authorization-available", "authorization-complete",
                   "authorization-required", "begin-authorization",
                   "connection-lost", "failure", "playback-empty",
                   "playback-paused", "playback-playing",
                   "playback-unsupported", "retry"},
           detail : Details]

\* What an event of a kind brings.
EventDetails(kind) ==
    IF kind \in {"playback-paused", "playback-playing"} THEN Items
    ELSE IF kind = "authorization-required" THEN AuthorizationReasons
    ELSE IF kind = "failure" THEN FailureReasons
    ELSE {NoDetail}

PollEvents == {"playback-empty", "playback-paused", "playback-playing",
               "playback-unsupported"}

\* Slip: a sign-in may complete although it was already given up.
AcceptsLenient(state, event) ==
    \/ /\ event.kind = "authorization-complete"
       /\ state.kind \in {"authorizing", "authorization-required"}
    \/ event.kind = "begin-authorization" /\ state.kind = "authorization-required"
    \/ event.kind = "authorization-available" /\ state.kind = "initializing"
    \/ event.kind \in PollEvents \cup {"connection-lost"}
         /\ state.kind \in ConnectedKinds
    \/ event.kind = "retry" /\ state.kind = "failure"
    \/ event.kind \in {"authorization-required", "failure"}

Accepts(state, event) ==
    \/ event.kind = "authorization-available" /\ state.kind = "initializing"
    \/ event.kind = "authorization-complete" /\ state.kind = "authorizing"
    \/ event.kind = "begin-authorization" /\ state.kind = "authorization-required"
    \/ event.kind \in PollEvents \cup {"connection-lost"}
         /\ state.kind \in ConnectedKinds
    \/ event.kind = "retry" /\ state.kind = "failure"
    \/ event.kind \in {"authorization-required", "failure"}

\* The kind an accepted event leads to.
TargetKind(eventKind) ==
    IF eventKind \in {"authorization-required", "failure"} THEN eventKind
    ELSE IF eventKind = "begin-authorization" THEN "authorizing"
    ELSE IF eventKind = "retry" THEN "initializing"
    ELSE IF eventKind = "playback-empty" THEN "empty"
    ELSE IF eventKind = "playback-paused" THEN "paused"
    ELSE IF eventKind = "playback-playing" THEN "playing"
    ELSE IF eventKind = "playback-unsupported" THEN "unsupported"
    ELSE "reconnecting"

\* Losing the connection keeps the item that was shown; the other events bring
\* their own detail, or none.
Target(state, event) ==
    State(TargetKind(event.kind),
          IF event.kind = "connection-lost" THEN CurrentItem(state)
          ELSE event.detail)

\* The state after an event; a refused event leaves it as it was.
After(state, event) ==
    IF Accepts(state, event) THEN Target(state, event) ELSE state
=============================================================================
