------------------------ MODULE DisplaySessionProofs ------------------------
(***************************************************************************)
(* Proofs about the playback worker and about the page it works for, for   *)
(* every set of items and commands, every clock and scheduler behaviour    *)
(* and every bound on epochs, retries, queue and channels.                 *)
(*                                                                         *)
(* The first part is about PlaybackWorker alone: its theorems are of Spec  *)
(* and use nothing of the page.  The second part is about DisplaySession,  *)
(* which runs that worker behind its page: the composition implements the  *)
(* worker's specification, so the first part's theorems hold there too;    *)
(* and once the channels are empty, page and worker agree on what is shown *)
(* and on what is visible.                                                 *)
(***************************************************************************)
EXTENDS DisplaySession, TLAPS

-----------------------------------------------------------------------------
(***************************************************************************)
(* Part 1.  The worker alone.                                              *)
(***************************************************************************)

(***************************************************************************)
(* The operators of the playback lifecycle.                                *)
(***************************************************************************)

\* The lifecycle (transitionPlaybackState) never leaves its state space.
LEMMA AfterType ==
    ASSUME NEW state \in PlaybackStates, NEW event \in Events
    PROVE  After(state, event) \in PlaybackStates
<1>1. NoDetail \in Details
  BY DEF Details
<1>2. CurrentItem(state) \in Details
  BY <1>1 DEF CurrentItem, PlaybackStates
<1>3. Target(state, event) \in PlaybackStates
  BY <1>1, <1>2 DEF Events, Target, TargetKind, State, PlaybackStates,
                    PlaybackKinds
<1> QED
  BY <1>3 DEF After

\* Every event the worker raises, in the form the handlers raise it.
LEMMA EventTypes ==
    /\ \A kind \in {"authorization-available", "authorization-complete",
                    "begin-authorization", "connection-lost",
                    "playback-empty", "playback-unsupported", "retry"} :
          Event(kind, NoDetail) \in Events
    /\ \A reason \in FailureReasons : Event("failure", reason) \in Events
    /\ \A reason \in AuthorizationReasons :
          Event("authorization-required", reason) \in Events
    /\ PlaybackEvents \subseteq Events
BY DEF Event, Events, Details, NoDetail, PlaybackEvents

\* Where each event can lead.
LEMMA AfterKind ==
    ASSUME NEW state \in PlaybackStates, NEW detail
    PROVE  /\ After(state, Event("failure", detail)).kind = "failure"
           /\ After(state, Event("authorization-required", detail)).kind
                = "authorization-required"
           /\ After(state, Event("begin-authorization", detail)).kind
                \in {state.kind, "authorizing"}
           /\ \A kind \in {"authorization-available", "authorization-complete",
                           "connection-lost", "playback-empty",
                           "playback-paused", "playback-playing",
                           "playback-unsupported", "retry"} :
                After(state, Event(kind, detail)).kind
                  \in {state.kind} \cup ConnectedKinds \cup {"initializing"}
<1>1. state.kind \in PlaybackKinds
  BY DEF PlaybackStates
<1> QED
  BY <1>1 DEF After, Accepts, Target, TargetKind, Event, State, ConnectedKinds,
              PlaybackKinds, PollEvents

\* What a poll finds is shown by a connected display or dropped.
LEMMA AfterPoll ==
    ASSUME NEW state, NEW event, event.kind \in PollEvents
    PROVE  After(state, event).kind \in {state.kind} \cup ConnectedKinds
BY DEF After, Target, TargetKind, State, PollEvents, ConnectedKinds

LEMMA PlaybackEventKinds == \A event \in PlaybackEvents : event.kind \in PollEvents
BY DEF PlaybackEvents, Event, PollEvents

-----------------------------------------------------------------------------
(***************************************************************************)
(* Type correctness.  The shape of the state splits into the connection,   *)
(* the operation and the rest, because the helpers of the handlers touch   *)
(* one group each.                                                         *)
(***************************************************************************)
ConnectionType ==
    /\ playback \in PlaybackStates
    /\ accessToken \in {"missing", "available"}
    /\ scheduled \in SUBSET Slots
    /\ retryPosition \in 0..LastRetry

OperationType ==
    /\ operationEpoch \in Epochs \cup {0}
    /\ activeOperation \in Epochs \cup {NoOperation}
    /\ frame \in Frames

OtherType ==
    /\ runtimeStatus \in {"awaiting-initialization", "active", "fatal", "disposed"}
    /\ visibility \in {"hidden", "visible"}
    /\ refreshFlight \in Epochs \cup {NoOperation}
    /\ queuedWork \in Seq(Works)

LEMMA TypeParts == TypeOK <=> ConnectionType /\ OperationType /\ OtherType
BY DEF TypeOK, ConnectionType, OperationType, OtherType

LEMMA TypePartsPrimed ==
    TypeOK' <=> ConnectionType' /\ OperationType' /\ OtherType'
BY DEF TypeOK, ConnectionType, OperationType, OtherType

\* The wrapping epoch counter stays within its bound and never returns to the
\* value that means no operation.
LEMMA NextEpochType ==
    ASSUME OperationType
    PROVE  NextEpoch \in Epochs /\ NextEpoch # NoOperation
BY BoundsAssumption DEF OperationType, NextEpoch, Epochs, NoOperation

LEMMA OperationHelpers ==
    ASSUME OperationType
    PROVE  /\ \A point \in OperationPoints : StartOperation(point) => OperationType'
           /\ \A point \in OperationPoints : ContinueOperation(point) => OperationType'
           /\ FinishOperation => OperationType'
           /\ PassOperation => OperationType'
           /\ CancelActiveOperation => OperationType'
           /\ UNCHANGED operation => OperationType'
<1>1. NextEpoch \in Epochs
  BY NextEpochType
<1> USE <1>1 DEF OperationType
<1>2. \A point \in OperationPoints : StartOperation(point) => OperationType'
  BY DEF StartOperation, Frames
<1>3. \A point \in OperationPoints : ContinueOperation(point) => OperationType'
  BY DEF ContinueOperation, Frames
<1>4. FinishOperation => OperationType'
  BY DEF FinishOperation, Frames, IdleFrame
<1>5. PassOperation => OperationType'
  BY DEF PassOperation
<1>6. CancelActiveOperation => OperationType'
  BY DEF CancelActiveOperation, Frames
<1>7. UNCHANGED operation => OperationType'
  BY DEF operation
<1> QED
  BY <1>2, <1>3, <1>4, <1>5, <1>6, <1>7

LEMMA SchedulingType ==
    ASSUME NEW slots \in SUBSET Slots, NEW slot \in Slots, NEW accepted, NEW clock
    PROVE  /\ Scheduling(slots, slot, accepted) \in SUBSET Slots
           /\ SchedulingRefresh(slots, clock, accepted) \in SUBSET Slots
BY DEF Scheduling, SchedulingRefresh, Slots

LEMMA ConnectionHelpers ==
    ASSUME ConnectionType
    PROVE  /\ \A reason \in FailureReasons : TransitionToFailure(reason) => ConnectionType'
           /\ \A reason \in AuthorizationReasons :
                 LoseAuthorization(reason) => ConnectionType'
           /\ \A position \in 0..LastRetry, accepted \in BOOLEAN :
                 RetryLater(position, accepted) => ConnectionType'
           /\ NextRetryPosition \in 0..LastRetry
           /\ UNCHANGED connection => ConnectionType'
<1> USE DEF ConnectionType
<1>1. \A reason \in FailureReasons : TransitionToFailure(reason) => ConnectionType'
  BY AfterType, EventTypes DEF TransitionToFailure
<1>2. \A reason \in AuthorizationReasons : LoseAuthorization(reason) => ConnectionType'
  BY AfterType, EventTypes DEF LoseAuthorization
<1>3. \A position \in 0..LastRetry, accepted \in BOOLEAN :
         RetryLater(position, accepted) => ConnectionType'
  <2> SUFFICES ASSUME NEW position \in 0..LastRetry, NEW accepted \in BOOLEAN,
                      RetryLater(position, accepted)
               PROVE  ConnectionType'
    OBVIOUS
  <2>1. Event("connection-lost", NoDetail) \in Events /\ Event("failure", "network") \in Events
    BY EventTypes DEF FailureReasons
  <2>2. playback' \in PlaybackStates
    BY <2>1, AfterType DEF RetryLater
  <2> QED
    BY <2>2 DEF RetryLater, Slots
<1>4. NextRetryPosition \in 0..LastRetry
  BY BoundsAssumption DEF NextRetryPosition
<1>5. UNCHANGED connection => ConnectionType'
  BY DEF connection
<1> QED
  BY <1>1, <1>2, <1>3, <1>4, <1>5

LEMMA OtherHelpers ==
    ASSUME OtherType, OperationType
    PROVE  /\ SettleFlight => refreshFlight' \in Epochs \cup {NoOperation}
           /\ \A epoch \in Epochs \cup {NoOperation} :
                 BeginFlight(epoch) => refreshFlight' \in Epochs \cup {NoOperation}
           /\ \A work \in Works : Enqueue(work) => queuedWork' \in Seq(Works)
           /\ \A work \in Works : Dequeue(work) => queuedWork' \in Seq(Works)
BY DEF OtherType, OperationType, SettleFlight, BeginFlight, Enqueue, Dequeue, Frames

\* A command of the page keeps the shape of the state.
LEMMA ReceiveType ==
    ASSUME TypeOK, NEW command \in Commands, Receive(command)
    PROVE  TypeOK'
<1> USE TypeParts, TypePartsPrimed, OperationHelpers, OtherHelpers, ConnectionHelpers
<1>1. CASE command = "initialize" /\ ReceiveQueued("initialize")
  BY <1>1 DEF ReceiveQueued, session, OtherType, Works
<1>2. CASE command = "begin-authorization" /\ ReceiveQueued("begin-authorization")
  BY <1>2 DEF ReceiveQueued, session, OtherType, Works
<1>3. \A work \in Works : ReceiveCancelling(work) => TypeOK'
  BY DEF ReceiveCancelling, CancelRuntimeWork, session, OtherType, ConnectionType
<1>4. CASE ReceiveHide
  BY <1>4 DEF ReceiveHide, CancelRuntimeWork, OtherType, ConnectionType
<1>5. CASE ReceiveShow
  <2>1. playback' \in PlaybackStates
    BY <1>5, AfterType, EventTypes
       DEF ReceiveShow, ConnectionType, AuthorizationReasons
  <2> QED
    BY <1>5, <2>1 DEF ReceiveShow, OtherType, ConnectionType, Works
<1>6. CASE ReceiveLogout
  <2>1. playback' \in PlaybackStates
    BY <1>6, AfterType, EventTypes
       DEF ReceiveLogout, ConnectionType, AuthorizationReasons
  <2> QED
    BY <1>6, <2>1, BoundsAssumption
       DEF ReceiveLogout, CancelRuntimeWork, session, OtherType, ConnectionType, Works
<1>7. CASE ReceiveDispose
  BY <1>7, BoundsAssumption
     DEF ReceiveDispose, CancelRuntimeWork, OtherType, ConnectionType
<1> QED
  BY <1>1, <1>2, <1>3, <1>4, <1>5, <1>6, <1>7 DEF Receive, Works

LEMMA FireType ==
    ASSUME TypeOK, NEW slot \in Slots, Fire(slot)
    PROVE  TypeOK'
<1>1. WorkOf(slot) \in Works
  BY DEF WorkOf, Works
<1> QED
  BY <1>1, TypeParts, TypePartsPrimed, OperationHelpers, OtherHelpers
     DEF Fire, session, OtherType, ConnectionType

LEMMA RecoverConnectionType ==
    ASSUME TypeOK, NEW clock, NEW accepted \in BOOLEAN, NEW work \in Works,
           Dequeue(work), RecoverConnection(clock, accepted)
    PROVE  TypeOK'
<1> USE TypeParts, TypePartsPrimed, OperationHelpers, OtherHelpers, ConnectionHelpers
<1> NextEpoch \in Epochs
  BY NextEpochType
<1> "network" \in FailureReasons /\ "refresh-then-poll" \in OperationPoints
    /\ "poll" \in OperationPoints /\ "refresh" \in Slots
  BY DEF FailureReasons, OperationPoints, RefreshPoints, PollPoints, Slots
<1>1. CASE UNCHANGED <<connection, operation, refreshFlight>>
  BY <1>1 DEF RecoverConnection, session, OtherType
<1>2. CASE RecoverWithoutClock(clock)
  BY <1>2 DEF RecoverConnection, RecoverWithoutClock, session, OtherType
<1>3. CASE /\ RecoverByRefresh \/ RecoverWithToken(clock, accepted)
           /\ playback' = After(playback, Event("retry", NoDetail))
           /\ UNCHANGED <<accessToken, retryPosition>>
  <2>1. playback' \in PlaybackStates
    BY <1>3, AfterType, EventTypes DEF ConnectionType
  <2>2. CASE RecoverByRefresh
    BY <1>3, <2>1, <2>2
       DEF RecoverConnection, RecoverByRefresh, session, OtherType, ConnectionType
  <2>3. CASE RecoverWithToken(clock, accepted)
    <3>1. scheduled' \in SUBSET Slots
      BY <2>3, SchedulingType DEF RecoverWithToken, ConnectionType
    <3> QED
      BY <1>3, <2>1, <2>3, <3>1
         DEF RecoverConnection, RecoverWithToken, session, OtherType, ConnectionType
  <2> QED
    BY <1>3, <2>2, <2>3
<1> QED
  BY <1>1, <1>2, <1>3 DEF RecoverConnection

\* Beginning a work item keeps the shape of the state.
LEMMA StartWorkType ==
    ASSUME TypeOK, NEW clock, NEW accepted \in BOOLEAN, StartWork(clock, accepted)
    PROVE  TypeOK'
<1> USE TypeParts, TypePartsPrimed, OperationHelpers, OtherHelpers, ConnectionHelpers
<1> NextEpoch \in Epochs
  BY NextEpochType
<1> "network" \in FailureReasons
    /\ {"begin", "callback", "refresh-then-poll", "refresh-then-wait"} \subseteq OperationPoints
  BY DEF FailureReasons, OperationPoints, RefreshPoints
<1> Works = {"initialize", "begin-authorization", "consume-callback", "recover",
             "scheduled-refresh", "logout"}
  BY DEF Works
<1>1. ASSUME NEW valid \in BOOLEAN, StartInitialize(valid)
      PROVE  TypeOK'
  <2>1. CASE Ignore
    BY <1>1, <2>1 DEF StartInitialize, Ignore, session, OtherType
  <2>2. CASE CancelRuntimeWork /\ runtimeStatus' = "fatal"
             /\ UNCHANGED <<playback, accessToken, retryPosition, visibility, refreshFlight>>
    BY <1>1, <2>2 DEF StartInitialize, CancelRuntimeWork, OtherType, ConnectionType
  <2>3. CASE /\ runtimeStatus' = "active"
             /\ playback' = InitialPlaybackState
             /\ RecoverByRefresh
             /\ UNCHANGED <<accessToken, retryPosition, visibility>>
    <3>1. playback' \in PlaybackStates
      BY <2>3 DEF InitialPlaybackState, State, PlaybackStates, PlaybackKinds, Details
    <3> QED
      BY <1>1, <2>3, <3>1 DEF StartInitialize, RecoverByRefresh, OtherType, ConnectionType
  <2> QED
    BY <1>1, <2>1, <2>2, <2>3 DEF StartInitialize
<1>2. CASE StartBeginAuthorization(clock) \/ \E parsed \in BOOLEAN : StartConsumeCallback(parsed, clock)
  <2>1. CASE Ignore
    BY <1>2, <2>1 DEF StartBeginAuthorization, StartConsumeCallback, Ignore, session, OtherType
  <2>2. CASE TransitionToFailure("network") /\ UNCHANGED <<operation, session, refreshFlight>>
    BY <1>2, <2>2 DEF StartBeginAuthorization, StartConsumeCallback, session, OtherType
  <2>3. CASE /\ playback' = After(playback, Event("begin-authorization", NoDetail))
             /\ StartOperation("begin") \/ StartOperation("callback")
             /\ UNCHANGED <<accessToken, scheduled, retryPosition, session, refreshFlight>>
    <3>1. playback' \in PlaybackStates
      BY <2>3, AfterType, EventTypes DEF ConnectionType
    <3> QED
      BY <1>2, <2>3, <3>1
         DEF StartBeginAuthorization, StartConsumeCallback, session, OtherType, ConnectionType
  <2> QED
    BY <1>2, <2>1, <2>2, <2>3 DEF StartBeginAuthorization, StartConsumeCallback
<1>3. CASE StartRecover(clock, accepted)
  BY <1>3, RecoverConnectionType DEF StartRecover
<1>4. CASE StartScheduledRefresh(clock, accepted)
  <2>1. CASE Ignore
    BY <1>4, <2>1 DEF StartScheduledRefresh, Ignore, session, OtherType
  <2>2. CASE RecoverConnection(clock, accepted)
    BY <1>4, <2>2, RecoverConnectionType DEF StartScheduledRefresh
  <2>3. CASE TransitionToFailure("network") /\ UNCHANGED <<operation, refreshFlight>> /\ UNCHANGED session
    BY <1>4, <2>3 DEF StartScheduledRefresh, session, OtherType
  <2>4. CASE /\ scheduled' = SchedulingRefresh(scheduled, clock, accepted)
             /\ UNCHANGED <<playback, accessToken, retryPosition, operation, refreshFlight>>
             /\ UNCHANGED session
    BY <1>4, <2>4, SchedulingType
       DEF StartScheduledRefresh, session, OtherType, ConnectionType, Slots
  <2>5. CASE /\ StartOperation("refresh-then-wait")
             /\ BeginFlight(NextEpoch)
             /\ UNCHANGED connection
             /\ UNCHANGED session
    BY <1>4, <2>5 DEF StartScheduledRefresh, session, OtherType
  <2> QED
    BY <1>4, <2>1, <2>2, <2>3, <2>4, <2>5 DEF StartScheduledRefresh
<1>5. CASE StartLogout
  <2>1. frame' \in Frames
    BY <1>5 DEF StartLogout, Frames, IdleFrame, OperationType
  <2> QED
    BY <1>5, <2>1 DEF StartLogout, session, OtherType, OperationType
<1> QED
  BY <1>1, <1>2, <1>3, <1>4, <1>5 DEF StartWork

\* An answer, wanted or not, keeps the shape of the state.
LEMMA AnswerType ==
    ASSUME TypeOK, NEW clock, NEW accepted \in BOOLEAN, Answer(clock, accepted)
    PROVE  TypeOK'
<1> USE TypeParts, TypePartsPrimed, OperationHelpers, OtherHelpers, ConnectionHelpers
<1> {"refresh-after-unauthorized", "poll", "poll-after-refresh"} \subseteq OperationPoints
  BY DEF OperationPoints, RefreshPoints, PollPoints
<1> 0 \in 0..LastRetry
  BY BoundsAssumption
<1> frame.epoch \in Epochs \cup {NoOperation}
  BY DEF OperationType, Frames
<1>1. ASSUME AnswerAuthorization(clock, accepted)
      PROVE  TypeOK'
  <2>1. CASE AuthorizationRedirected
    BY <2>1 DEF AuthorizationRedirected, Awaiting, Settle, session, OtherType
  <2>2. CASE AuthorizationConnected(clock, accepted)
    <3>1. playback' \in PlaybackStates
      BY <2>2, AfterType, EventTypes DEF AuthorizationConnected, ConnectionType
    <3>2. SchedulingRefresh(scheduled, clock, accepted) \in SUBSET Slots
      BY SchedulingType DEF ConnectionType, Slots
    <3>3. ConnectionType' /\ OperationType'
      BY <2>2, <3>1, <3>2 DEF AuthorizationConnected, InstallAccessToken, ConnectionType
    <3> QED
      BY <2>2, <3>3 DEF AuthorizationConnected, Awaiting, session, OtherType
  <2>3. ASSUME NEW reason \in FailureReasons \cup {"not-authorized"},
               AuthorizationRefused(reason)
        PROVE  TypeOK'
    <3>1. ConnectionType'
      <4>1. CASE TransitionToFailure(reason)
            /\ reason \in {"authorization-denied", "network", "code-exchange-rejected"}
        BY <4>1 DEF FailureReasons
      <4>2. CASE /\ reason = "not-authorized"
                 /\ playback' = After(playback, Event("authorization-required", reason))
                 /\ UNCHANGED <<accessToken, scheduled, retryPosition>>
        BY <4>2, AfterType, EventTypes DEF AuthorizationReasons, ConnectionType
      <4> QED
        BY <2>3, <4>1, <4>2 DEF AuthorizationRefused
    <3> QED
      BY <2>3, <3>1 DEF AuthorizationRefused, Awaiting, Settle, session, OtherType
  <2> QED
    BY <1>1, <2>1, <2>2, <2>3 DEF AnswerAuthorization
<1>2. ASSUME AnswerRefresh(clock, accepted)
      PROVE  TypeOK'
  <2>1. CASE RefreshUnusable(clock)
    BY <2>1 DEF RefreshUnusable, Awaiting, Settle, session, OtherType
  <2>2. CASE RefreshedForUse(clock, accepted)
    <3> DEFINE slots == SchedulingRefresh(scheduled, clock, accepted)
    <3>1. playback' \in PlaybackStates
      BY <2>2, AfterType, EventTypes DEF RefreshedForUse, ConnectionType
    <3>2. slots \in SUBSET Slots /\ Scheduling(slots, "poll", accepted) \in SUBSET Slots
      BY SchedulingType DEF ConnectionType, Slots
    <3>3. ConnectionType' /\ OperationType'
      BY <2>2, <3>1, <3>2 DEF RefreshedForUse, ConnectionType
    <3> QED
      BY <2>2, <3>3 DEF RefreshedForUse, Awaiting, session, OtherType
  <2>3. CASE RefreshedAfterUnauthorized(clock, accepted)
    <3>1. SchedulingRefresh(scheduled, clock, accepted) \in SUBSET Slots
      BY SchedulingType DEF ConnectionType, Slots
    <3> QED
      BY <2>3, <3>1 DEF RefreshedAfterUnauthorized, InstallAccessToken, Awaiting, session,
                        OtherType, ConnectionType
  <2>4. ASSUME NEW reason \in {"authorization-expired", "authorization-revoked",
                               "not-authorized"}, RefreshRefused(reason)
        PROVE  TypeOK'
    BY <2>4 DEF RefreshRefused, Awaiting, Settle, session, OtherType, AuthorizationReasons
  <2>5. CASE RefreshDeferred(accepted)
    BY <2>5 DEF RefreshDeferred, Awaiting, Settle, session, OtherType
  <2>6. ASSUME NEW reason \in {"malformed-response", "network"}, RefreshFailed(reason)
        PROVE  TypeOK'
    BY <2>6 DEF RefreshFailed, Awaiting, Settle, session, OtherType, FailureReasons
  <2> QED
    BY <1>2, <2>1, <2>2, <2>3, <2>4, <2>5, <2>6 DEF AnswerRefresh
<1>3. ASSUME AnswerPoll(accepted)
      PROVE  TypeOK'
  <2> Scheduling(scheduled, "poll", accepted) \in SUBSET Slots
    BY SchedulingType DEF ConnectionType, Slots
  <2>1. CASE PolledEmpty(accepted)
    <3>1. playback' \in PlaybackStates
      BY <2>1, AfterType, EventTypes DEF PolledEmpty, ConnectionType
    <3> QED
      BY <2>1, <3>1 DEF PolledEmpty, Awaiting, Settle, session, OtherType, ConnectionType
  <2>2. ASSUME NEW event \in PlaybackEvents, PolledPlayback(event, accepted)
        PROVE  TypeOK'
    <3>1. playback' \in PlaybackStates
      BY <2>2, AfterType, EventTypes DEF PolledPlayback, ConnectionType
    <3>2. ConnectionType'
      BY <2>2, <3>1 DEF PolledPlayback, ConnectionType
    <3> QED
      BY <2>2, <3>2 DEF PolledPlayback, Awaiting, Settle, session, OtherType
  <2>3. ASSUME NEW reason \in {"malformed-response", "server-error"}, PollFailed(reason)
        PROVE  TypeOK'
    BY <2>3 DEF PollFailed, Awaiting, Settle, session, OtherType, FailureReasons
  <2>4. ASSUME NEW position \in {retryPosition, NextRetryPosition},
               PollDeferred(position, accepted)
        PROVE  TypeOK'
    <3>1. position \in 0..LastRetry
      BY DEF ConnectionType
    <3> QED
      BY <2>4, <3>1 DEF PollDeferred, Awaiting, Settle, session, OtherType
  <2>5. CASE PollDenied
    BY <2>5 DEF PollDenied, Awaiting, Settle, session, OtherType, AuthorizationReasons
  <2>6. CASE PollUnauthorized
    BY <2>6 DEF PollUnauthorized, Awaiting, Settle, session, OtherType, AuthorizationReasons
  <2> QED
    BY <1>3, <2>1, <2>2, <2>3, <2>4, <2>5, <2>6 DEF AnswerPoll
<1>4. CASE StaleAnswer
  BY <1>4 DEF StaleAnswer, Settle, session, OtherType
<1>5. CASE LogoutSettled
  BY <1>5 DEF LogoutSettled, session, OtherType, OperationType, Frames, IdleFrame
<1> QED
  BY <1>1, <1>2, <1>3, <1>4, <1>5 DEF Answer

LEMMA InitType == Init => TypeOK
BY BoundsAssumption
   DEF Init, TypeOK, InitialPlaybackState, State, PlaybackStates, PlaybackKinds,
       Details, Frames, IdleFrame

\* Every reachable state has the shape TypeOK states: in particular the epoch
\* counter and the retry position stay within their bounds.
THEOREM TypeCorrect == Spec => []TypeOK
<1>1. Init => TypeOK
  BY InitType
<1>2. ASSUME TypeOK, [Next]_vars
      PROVE  TypeOK'
  <2>1. ASSUME NEW command \in Commands, Receive(command)
        PROVE  TypeOK'
    BY <1>2, <2>1, ReceiveType
  <2>2. ASSUME NEW slot \in Slots, Fire(slot)
        PROVE  TypeOK'
    BY <1>2, <2>2, FireType
  <2>3. CASE Step
    BY <1>2, <2>3, StartWorkType, AnswerType, EnvironmentAssumption DEF Step
  <2>4. CASE UNCHANGED vars
    BY <1>2, <2>4 DEF vars, connection, operation, session, TypeOK
  <2> QED
    BY <1>2, <2>1, <2>2, <2>3, <2>4 DEF Next
<1> QED
  BY <1>1, <1>2, PTL DEF Spec

-----------------------------------------------------------------------------
(***************************************************************************)
(* The safety invariant.  None of the three properties is inductive by     *)
(* itself: that a late answer cannot install a credential depends on what  *)
(* the running item may be waiting for in each playback state, and that it *)
(* is aborted in time depends on activeOperation naming it.                *)
(***************************************************************************)
SignedOutKinds == {"authorization-required", "authorizing"}
SignInPoints == {"begin", "callback"}
RequestPoints == RefreshPoints \cup PollPoints

\* The running item can be aborted as long as its answer may still matter.
Abortable ==
    (frame.at \in OperationPoints /\ ~frame.aborted) => activeOperation # NoOperation

\* A refresh or poll whose answer matters belongs to a signed-in display.
RequestsAreSignedIn ==
    (frame.at \in RequestPoints /\ ~frame.aborted) =>
        /\ runtimeStatus = "active"
        /\ playback.kind \notin SignedOutKinds

\* A sign-in whose answer matters belongs to a display without a credential.
SignInsAreSignedOut ==
    (frame.at \in SignInPoints /\ ~frame.aborted) =>
        /\ accessToken = "missing"
        /\ playback.kind \in SignedOutKinds

\* The page can only hide a worker that has been initialized.
VisibleUntilActive ==
    runtimeStatus = "awaiting-initialization" => visibility = "visible"

IInv ==
    /\ TypeOK
    /\ QuietWhenSuspended
    /\ CredentialMatchesState
    /\ FlightBelongsToFrame
    /\ Abortable
    /\ RequestsAreSignedIn
    /\ SignInsAreSignedOut
    /\ VisibleUntilActive

\* A command cancels in time: hiding, logging out and disposing abort whatever
\* could still write.
LEMMA ReceiveSafe ==
    ASSUME IInv, NEW command \in Commands, Receive(command)
    PROVE  IInv'
<1>1. TypeOK /\ TypeOK'
  BY ReceiveType DEF IInv
<1>2. NextEpoch \in Epochs /\ playback \in PlaybackStates /\ frame \in Frames
  BY <1>1, TypeParts, NextEpochType DEF TypeOK
<1> USE <1>1, <1>2 DEF IInv, QuietWhenSuspended, CredentialMatchesState,
        FlightBelongsToFrame, Abortable, RequestsAreSignedIn, SignInsAreSignedOut,
        VisibleUntilActive, CanPerformNetworkWork, IsRuntimeActive, session
<1>3. ASSUME NEW work, ReceiveQueued(work)
      PROVE  IInv'
  BY <1>3 DEF ReceiveQueued, connection, operation
<1>4. CancelActiveOperation =>
        /\ frame'.at = frame.at /\ frame'.epoch = frame.epoch
        /\ frame.at \in OperationPoints => frame'.aborted
  BY DEF CancelActiveOperation, Frames
<1>5. SignInPoints \cup RequestPoints = OperationPoints
  BY DEF SignInPoints, RequestPoints, OperationPoints
<1>6. ASSUME NEW work, ReceiveCancelling(work)
      PROVE  IInv'
  BY <1>4, <1>5, <1>6 DEF ReceiveCancelling, CancelRuntimeWork, RequestPoints
<1>7. CASE ReceiveHide
  BY <1>4, <1>5, <1>7 DEF ReceiveHide, CancelRuntimeWork, RequestPoints
<1>8. CASE ReceiveShow
  <2>1. CASE playback.kind = "authorizing"
    <3>1. playback'.kind = "authorization-required"
      BY <1>8, <2>1, AfterKind DEF ReceiveShow
    <3> QED
      BY <1>8, <2>1, <3>1 DEF ReceiveShow, operation, SignedOutKinds
  <2>2. CASE playback.kind # "authorizing"
    BY <1>8, <2>2 DEF ReceiveShow, operation
  <2> QED
    BY <2>1, <2>2
<1>9. CASE ReceiveLogout
  <2>1. playback'.kind = "authorization-required"
    BY <1>9, AfterKind DEF ReceiveLogout
  <2> QED
    BY <1>4, <1>5, <1>9, <2>1 DEF ReceiveLogout, CancelRuntimeWork, RequestPoints
<1>10. CASE ReceiveDispose
  BY <1>4, <1>5, <1>10 DEF ReceiveDispose, CancelRuntimeWork, RequestPoints
<1> QED
  BY <1>3, <1>6, <1>7, <1>8, <1>9, <1>10 DEF Receive

\* A timer only queues work.
LEMMA FireSafe ==
    ASSUME IInv, NEW slot \in Slots, Fire(slot)
    PROVE  IInv'
<1>1. TypeOK'
  BY FireType DEF IInv
<1> QED
  BY <1>1 DEF Fire, IInv, QuietWhenSuspended, CredentialMatchesState,
              FlightBelongsToFrame, Abortable, RequestsAreSignedIn,
              SignInsAreSignedOut, VisibleUntilActive, CanPerformNetworkWork,
              IsRuntimeActive, session, operation

\* An idle worker has no flight and nothing to abort.
LEMMA IdleFacts ==
    ASSUME IInv, Idle
    PROVE  /\ frame.at = "idle" /\ frame.aborted = FALSE /\ frame.epoch = NoOperation
           /\ refreshFlight = NoOperation
BY DEF IInv, Idle, IdleFrame, FlightBelongsToFrame, RefreshPoints

\* Steps that leave the running item, its flight and the session alone, and do
\* not sign the display in or out.
LEMMA QuietStep ==
    ASSUME IInv, TypeOK', Idle, frame' = frame, refreshFlight' = refreshFlight,
           UNCHANGED session,
           accessToken' = accessToken,
           playback'.kind \in {playback.kind, "failure"},
           CanPerformNetworkWork \/ scheduled' \subseteq scheduled
    PROVE  IInv'
<1>1. frame.at = "idle"
  BY IdleFacts
<1> QED
  BY <1>1 DEF IInv, QuietWhenSuspended, CredentialMatchesState, FlightBelongsToFrame,
              Abortable, RequestsAreSignedIn, SignInsAreSignedOut, VisibleUntilActive,
              CanPerformNetworkWork, IsRuntimeActive, session, RefreshPoints,
              PollPoints, OperationPoints, SignInPoints, RequestPoints

LEMMA RecoverConnectionSafe ==
    ASSUME IInv, Idle, NEW clock, NEW accepted \in BOOLEAN,
           RecoverConnection(clock, accepted), TypeOK'
    PROVE  IInv'
<1>1. frame.at = "idle" /\ refreshFlight = NoOperation
  BY IdleFacts
<1>2. TypeOK /\ NextEpoch \in Epochs /\ NextEpoch # NoOperation /\ playback \in PlaybackStates
  BY NextEpochType, TypeParts DEF IInv, TypeOK
<1>3. CASE UNCHANGED <<connection, operation, refreshFlight>>
  BY <1>3, QuietStep DEF RecoverConnection, connection, operation
<1>4. CASE MayRecover /\ RecoverWithoutClock(clock)
  <2>1. playback'.kind = "failure"
    BY <1>2, <1>4, AfterKind DEF RecoverWithoutClock, TransitionToFailure
  <2> QED
    BY <1>4, <2>1, QuietStep
       DEF RecoverConnection, RecoverWithoutClock, TransitionToFailure, PassOperation
<1>5. CASE /\ MayRecover
           /\ RecoverByRefresh \/ RecoverWithToken(clock, accepted)
           /\ playback' = After(playback, Event("retry", NoDetail))
           /\ UNCHANGED <<accessToken, retryPosition>>
  <2>1. playback'.kind \notin SignedOutKinds
    BY <1>2, <1>5, AfterKind DEF MayRecover, SignedOutKinds, ConnectedKinds
  <2>2. frame'.aborted = FALSE /\ frame'.at \in RequestPoints
        /\ activeOperation' # NoOperation /\ frame'.epoch = NextEpoch
        /\ (refreshFlight' # NoOperation =>
              frame'.at \in RefreshPoints /\ refreshFlight' = NextEpoch)
    BY <1>1, <1>2, <1>5
       DEF RecoverByRefresh, RecoverWithToken, StartOperation, BeginFlight,
           RequestPoints, RefreshPoints, PollPoints
  <2>3. RequestPoints \cap SignInPoints = {}
    BY DEF RequestPoints, SignInPoints, RefreshPoints, PollPoints
  <2> QED
    BY <1>2, <1>5, <2>1, <2>2, <2>3
       DEF RecoverConnection, MayRecover, IInv, QuietWhenSuspended,
           CredentialMatchesState, FlightBelongsToFrame, Abortable,
           RequestsAreSignedIn, SignInsAreSignedOut, VisibleUntilActive,
           CanPerformNetworkWork, IsRuntimeActive, session, SignedOutKinds
<1> QED
  BY <1>3, <1>4, <1>5 DEF RecoverConnection

\* The work items that may begin a sign-in start from a display without a
\* credential; those that request start from a signed-in one.
LEMMA StartWorkSafe ==
    ASSUME IInv, NEW clock, NEW accepted \in BOOLEAN, StartWork(clock, accepted)
    PROVE  IInv'
<1>1. TypeOK /\ TypeOK'
  BY StartWorkType DEF IInv
<1>2. NextEpoch \in Epochs /\ NextEpoch # NoOperation /\ playback \in PlaybackStates
  BY <1>1, NextEpochType, TypeParts DEF TypeOK
<1>3. Idle
  BY DEF StartWork, StartInitialize, StartBeginAuthorization, StartConsumeCallback,
         StartRecover, StartScheduledRefresh, StartLogout, Dequeue
<1>4. frame.at = "idle" /\ frame.aborted = FALSE /\ refreshFlight = NoOperation
  BY <1>3, IdleFacts
<1>5. CASE Ignore
  BY <1>1, <1>3, <1>5, QuietStep DEF Ignore, connection, operation
<1>6. ASSUME NEW valid \in BOOLEAN, StartInitialize(valid), ~Ignore
      PROVE  IInv'
  <2>1. runtimeStatus = "awaiting-initialization" /\ visibility = "visible"
        /\ accessToken = "missing"
    BY <1>1, <1>6 DEF StartInitialize, IInv, VisibleUntilActive,
                      CredentialMatchesState, TypeOK
  <2>2. CASE /\ CancelRuntimeWork
             /\ runtimeStatus' = "fatal"
             /\ UNCHANGED <<playback, accessToken, retryPosition, visibility, refreshFlight>>
    <3>1. frame'.at = "idle"
      BY <1>1, <1>4, <2>2 DEF CancelRuntimeWork, CancelActiveOperation, TypeOK, Frames
    <3> QED
      BY <1>1, <1>4, <2>1, <2>2, <3>1
         DEF CancelRuntimeWork, IInv, QuietWhenSuspended, CredentialMatchesState,
             FlightBelongsToFrame, Abortable, RequestsAreSignedIn, SignInsAreSignedOut,
             VisibleUntilActive, RefreshPoints, PollPoints, OperationPoints,
             SignInPoints, RequestPoints
  <2>3. CASE /\ runtimeStatus' = "active"
             /\ playback' = InitialPlaybackState
             /\ RecoverByRefresh
             /\ UNCHANGED <<accessToken, retryPosition, visibility>>
    <3>1. playback'.kind \notin SignedOutKinds
      BY <2>3 DEF InitialPlaybackState, State, SignedOutKinds
    <3>2. frame' = [at |-> "refresh-then-poll", epoch |-> NextEpoch, aborted |-> FALSE]
          /\ activeOperation' = NextEpoch /\ refreshFlight' = NextEpoch
          /\ scheduled' = scheduled
      BY <1>4, <2>3 DEF RecoverByRefresh, StartOperation, BeginFlight
    <3> QED
      BY <1>1, <1>2, <2>1, <2>3, <3>1, <3>2
         DEF IInv, QuietWhenSuspended, CredentialMatchesState, FlightBelongsToFrame,
             Abortable, RequestsAreSignedIn, SignInsAreSignedOut, VisibleUntilActive,
             CanPerformNetworkWork, IsRuntimeActive, RefreshPoints, PollPoints,
             OperationPoints, SignInPoints, RequestPoints, SignedOutKinds
  <2> QED
    BY <1>6, <2>2, <2>3 DEF StartInitialize
<1>7. ASSUME \/ StartBeginAuthorization(clock)
             \/ \E parsed \in BOOLEAN : StartConsumeCallback(parsed, clock),
             ~Ignore
      PROVE  IInv'
  <2>1. IsRuntimeActive /\ playback.kind \in SignedOutKinds
    BY <1>7 DEF StartBeginAuthorization, StartConsumeCallback, SignedOutKinds
  <2>2. accessToken = "missing"
    BY <1>1, <2>1 DEF IInv, CredentialMatchesState, SignedOutKinds, TypeOK
  <2>3. CASE TransitionToFailure("network") /\ UNCHANGED <<operation, session, refreshFlight>>
    <3>1. playback'.kind = "failure"
      BY <1>2, <2>3, AfterKind DEF TransitionToFailure
    <3> QED
      BY <1>1, <1>3, <2>3, <3>1, QuietStep DEF TransitionToFailure, operation
  <2>4. CASE /\ playback' = After(playback, Event("begin-authorization", NoDetail))
             /\ StartOperation("begin") \/ StartOperation("callback")
             /\ UNCHANGED <<accessToken, scheduled, retryPosition, session, refreshFlight>>
    <3>1. playback'.kind \in SignedOutKinds
      BY <1>2, <2>1, <2>4, AfterKind DEF SignedOutKinds
    <3>2. frame'.at \in SignInPoints /\ frame'.aborted = FALSE
          /\ activeOperation' = NextEpoch
      BY <2>4 DEF StartOperation, SignInPoints
    <3> QED
      BY <1>1, <1>2, <1>4, <2>1, <2>2, <2>4, <3>1, <3>2
         DEF IInv, QuietWhenSuspended, CredentialMatchesState, FlightBelongsToFrame,
             Abortable, RequestsAreSignedIn, SignInsAreSignedOut, VisibleUntilActive,
             CanPerformNetworkWork, IsRuntimeActive, session, RefreshPoints, PollPoints,
             OperationPoints, SignInPoints, RequestPoints, SignedOutKinds
  <2> QED
    BY <1>7, <2>3, <2>4 DEF StartBeginAuthorization, StartConsumeCallback
<1>8. CASE StartRecover(clock, accepted)
  BY <1>1, <1>3, <1>8, RecoverConnectionSafe DEF StartRecover
<1>9. ASSUME StartScheduledRefresh(clock, accepted), ~Ignore
      PROVE  IInv'
  <2>1. CanPerformNetworkWork
    BY <1>9 DEF StartScheduledRefresh
  <2>2. CASE RecoverConnection(clock, accepted)
    BY <1>1, <1>3, <2>2, RecoverConnectionSafe
  <2>3. CASE TransitionToFailure("network") /\ UNCHANGED <<operation, refreshFlight, session>>
    <3>1. playback'.kind = "failure"
      BY <1>2, <2>3, AfterKind DEF TransitionToFailure
    <3> QED
      BY <1>1, <1>3, <2>3, <3>1, QuietStep DEF TransitionToFailure, operation
  <2>4. CASE UNCHANGED <<playback, accessToken, retryPosition, operation, refreshFlight, session>>
    BY <1>1, <1>3, <2>1, <2>4, QuietStep DEF operation
  <2>5. CASE /\ accessToken = "available"
             /\ StartOperation("refresh-then-wait")
             /\ BeginFlight(NextEpoch)
             /\ UNCHANGED <<connection, session>>
    BY <1>1, <1>2, <1>4, <2>1, <2>5
       DEF StartOperation, BeginFlight, connection, IInv, QuietWhenSuspended,
           CredentialMatchesState, FlightBelongsToFrame, Abortable,
           RequestsAreSignedIn, SignInsAreSignedOut, VisibleUntilActive,
           CanPerformNetworkWork, IsRuntimeActive, session, RefreshPoints, PollPoints,
           OperationPoints, SignInPoints, RequestPoints, SignedOutKinds
  <2> QED
    BY <1>9, <2>2, <2>3, <2>4, <2>5 DEF StartScheduledRefresh
<1>10. CASE StartLogout
  BY <1>1, <1>4, <1>10
     DEF StartLogout, IdleFrame, connection, IInv, QuietWhenSuspended,
         CredentialMatchesState, FlightBelongsToFrame, Abortable, RequestsAreSignedIn,
         SignInsAreSignedOut, VisibleUntilActive, CanPerformNetworkWork,
         IsRuntimeActive, session, RefreshPoints, PollPoints, OperationPoints,
         SignInPoints, RequestPoints
<1> QED
  BY <1>5, <1>6, <1>7, <1>8, <1>9, <1>10 DEF StartWork

\* An answer that ends its operation for good, without a credential gained:
\* the worker is idle and nothing of the invariant depends on what ran.
LEMMA EndingStep ==
    ASSUME IInv, TypeOK', frame.at \in OperationPoints, Settle, UNCHANGED session,
           CanPerformNetworkWork \/ scheduled' = scheduled,
           accessToken' = "available" =>
             /\ accessToken = "available"
             /\ playback'.kind \notin SignedOutKinds
    PROVE  IInv'
<1>1. refreshFlight' = NoOperation
  BY DEF Settle, SettleFlight, IInv, FlightBelongsToFrame
<1>2. frame' = IdleFrame
  BY DEF Settle, FinishOperation
<1> QED
  BY <1>1, <1>2
     DEF IdleFrame, IInv, QuietWhenSuspended, CredentialMatchesState,
         FlightBelongsToFrame, Abortable, RequestsAreSignedIn, SignInsAreSignedOut,
         VisibleUntilActive, CanPerformNetworkWork, IsRuntimeActive, session,
         RefreshPoints, PollPoints, OperationPoints, SignInPoints, RequestPoints,
         SignedOutKinds

\* A credential is gained only by the awaited answer of a current operation,
\* and only on the way to a poll or with the display signed in.
LEMMA ContinuingStep ==
    ASSUME IInv, TypeOK', Awaiting(OperationPoints),
           frame' = IdleFrame \/ \E point \in RequestPoints : ContinueOperation(point),
           refreshFlight' = NoOperation
             \/ (frame'.at \in RefreshPoints /\ refreshFlight' = frame'.epoch),
           playback'.kind \notin SignedOutKinds
    PROVE  IInv'
<1>1. frame \in Frames
  BY DEF IInv, TypeOK
<1>2. CASE frame' = IdleFrame
  BY <1>2
     DEF Awaiting, IsCurrentOperation, IdleFrame, IInv, QuietWhenSuspended,
         CredentialMatchesState, FlightBelongsToFrame, Abortable, RequestsAreSignedIn,
         SignInsAreSignedOut, VisibleUntilActive, CanPerformNetworkWork,
         IsRuntimeActive, session, RefreshPoints, PollPoints, OperationPoints,
         SignInPoints, RequestPoints, SignedOutKinds
<1>3. ASSUME NEW point \in RequestPoints, ContinueOperation(point)
      PROVE  IInv'
  <2>1. frame'.at = point /\ frame'.aborted = frame.aborted /\ activeOperation' = activeOperation
    BY <1>1, <1>3 DEF ContinueOperation, Frames
  <2>2. activeOperation # NoOperation
    BY DEF Awaiting, IsCurrentOperation, IInv, Abortable
  <2>3. RequestPoints \cap SignInPoints = {}
    BY DEF RequestPoints, SignInPoints, RefreshPoints, PollPoints
  <2> QED
    BY <1>3, <2>1, <2>2, <2>3
       DEF Awaiting, IsCurrentOperation, IInv, QuietWhenSuspended,
           CredentialMatchesState, FlightBelongsToFrame, Abortable,
           RequestsAreSignedIn, SignInsAreSignedOut, VisibleUntilActive,
           CanPerformNetworkWork, IsRuntimeActive, session, RequestPoints,
           SignedOutKinds
<1> QED
  BY <1>2, <1>3

\* An answer that is no longer wanted changes nothing; one that is wanted
\* leaves the credential and the playback state in agreement.
LEMMA AnswerSafe ==
    ASSUME IInv, NEW clock, NEW accepted \in BOOLEAN, Answer(clock, accepted)
    PROVE  IInv'
<1>1. TypeOK /\ TypeOK'
  BY AnswerType DEF IInv
<1>2. playback \in PlaybackStates /\ frame \in Frames
  BY <1>1 DEF TypeOK
<1>3. \A points : points \subseteq OperationPoints /\ Awaiting(points) =>
         /\ Awaiting(OperationPoints)
         /\ frame.at \in OperationPoints
         /\ UNCHANGED session
         /\ CanPerformNetworkWork
         /\ ~frame.aborted
  BY DEF Awaiting, IsCurrentOperation
<1>4. /\ RefreshPoints \subseteq OperationPoints /\ PollPoints \subseteq OperationPoints
      /\ {"begin"} \subseteq OperationPoints /\ {"begin", "callback"} \subseteq OperationPoints
      /\ {"refresh-then-poll", "refresh-then-wait"} \subseteq RefreshPoints
      /\ {"refresh-after-unauthorized"} \subseteq RefreshPoints
      /\ {"refresh-after-unauthorized", "poll", "poll-after-refresh"} \subseteq RequestPoints
      /\ PollPoints \cap RefreshPoints = {}
      /\ {"begin", "callback"} \cap RefreshPoints = {}
  BY DEF OperationPoints, RefreshPoints, PollPoints, RequestPoints
<1>5. \A points : points \subseteq RequestPoints /\ Awaiting(points) =>
         playback.kind \notin SignedOutKinds
  BY DEF Awaiting, IsCurrentOperation, IInv, RequestsAreSignedIn
<1>6. SettleFlight => refreshFlight' = NoOperation
  BY DEF SettleFlight, IInv, FlightBelongsToFrame
<1>7. frame.at \notin RefreshPoints => refreshFlight = NoOperation
  BY DEF IInv, FlightBelongsToFrame
<1>8. CASE AuthorizationRedirected
  BY <1>1, <1>3, <1>4, <1>8, EndingStep
     DEF AuthorizationRedirected, connection, IInv, CredentialMatchesState, SignedOutKinds
<1>9. CASE AuthorizationConnected(clock, accepted)
  <2>1. Awaiting({"begin", "callback"}) /\ refreshFlight' = NoOperation
    BY <1>4, <1>7, <1>9 DEF AuthorizationConnected, Awaiting
  <2>2. CASE Accepts(playback, Event("authorization-complete", NoDetail))
             /\ clock # "unavailable"
    <3>1. playback'.kind = "reconnecting"
      BY <1>9, <2>2
         DEF AuthorizationConnected, After, Target, TargetKind, State, Event
    <3> QED
      BY <1>1, <1>3, <1>4, <1>9, <2>1, <2>2, <3>1, ContinuingStep
         DEF AuthorizationConnected, SignedOutKinds
  <2>3. CASE ~(Accepts(playback, Event("authorization-complete", NoDetail))
               /\ clock # "unavailable")
    <3>1. accessToken = "missing" /\ accessToken' = "missing"
      BY <1>9, <2>1, <2>3
         DEF AuthorizationConnected, Awaiting, IsCurrentOperation, IInv,
             SignInsAreSignedOut, SignInPoints
    <3>2. Settle /\ scheduled' = scheduled
      BY <1>4, <1>9, <2>1, <2>3 DEF AuthorizationConnected, Settle, SettleFlight, Awaiting
    <3> QED
      BY <1>1, <1>3, <1>4, <2>1, <3>1, <3>2, EndingStep
  <2> QED
    BY <2>2, <2>3
<1>10. ASSUME NEW reason, AuthorizationRefused(reason)
       PROVE  IInv'
  <2>1. accessToken' = "missing"
    BY <1>10
       DEF AuthorizationRefused, TransitionToFailure, Awaiting, IsCurrentOperation,
           IInv, SignInsAreSignedOut, SignInPoints
  <2> QED
    BY <1>1, <1>3, <1>4, <1>10, <2>1, EndingStep DEF AuthorizationRefused
<1>11. CASE RefreshUnusable(clock)
  BY <1>1, <1>3, <1>4, <1>11, EndingStep
     DEF RefreshUnusable, connection, IInv, CredentialMatchesState, SignedOutKinds
<1>12. CASE RefreshedForUse(clock, accepted)
  <2>1. Awaiting({"refresh-then-poll", "refresh-then-wait"})
        /\ playback.kind \notin SignedOutKinds
    BY <1>4, <1>5, <1>12 DEF RefreshedForUse, RequestPoints
  <2>2. playback'.kind \notin SignedOutKinds
    BY <1>2, <1>12, <2>1, AfterKind DEF RefreshedForUse, SignedOutKinds, ConnectedKinds
  <2>3. frame' = IdleFrame \/ ContinueOperation("poll")
    BY <1>12 DEF RefreshedForUse, FinishOperation
  <2>4. refreshFlight' = NoOperation
    BY <1>6, <1>12 DEF RefreshedForUse
  <2> QED
    BY <1>1, <1>3, <1>4, <2>1, <2>2, <2>3, <2>4, ContinuingStep
<1>13. CASE RefreshedAfterUnauthorized(clock, accepted)
  <2>1. Awaiting({"refresh-after-unauthorized"}) /\ playback'.kind \notin SignedOutKinds
    BY <1>4, <1>5, <1>13 DEF RefreshedAfterUnauthorized, RequestPoints
  <2> QED
    BY <1>1, <1>3, <1>4, <1>6, <1>13, <2>1, ContinuingStep DEF RefreshedAfterUnauthorized
<1>14. ASSUME NEW reason, RefreshRefused(reason)
       PROVE  IInv'
  BY <1>1, <1>3, <1>4, <1>14, EndingStep DEF RefreshRefused, LoseAuthorization
<1>15. ASSUME NEW reason, RefreshFailed(reason) \/ PollFailed(reason)
       PROVE  IInv'
  <2>1. playback'.kind = "failure"
    BY <1>2, <1>15, AfterKind DEF RefreshFailed, PollFailed, TransitionToFailure
  <2> QED
    BY <1>1, <1>3, <1>4, <1>15, <2>1, EndingStep
       DEF RefreshFailed, PollFailed, TransitionToFailure, SignedOutKinds
<1>16. ASSUME NEW position,
              \/ RefreshDeferred(accepted) /\ position = NextRetryPosition
              \/ PollDeferred(position, accepted)
       PROVE  IInv'
  <2>1. RetryLater(position, accepted)
        /\ (Awaiting(RefreshPoints) \/ Awaiting(PollPoints)) /\ Settle
    BY <1>16 DEF RefreshDeferred, PollDeferred
  <2>2. playback.kind \notin SignedOutKinds
    BY <1>5, <2>1 DEF RequestPoints
  <2>3. playback'.kind \notin SignedOutKinds
    BY <1>2, <2>1, <2>2, AfterKind DEF RetryLater, SignedOutKinds, ConnectedKinds
  <2> QED
    BY <1>1, <1>3, <1>4, <2>1, <2>3, EndingStep DEF RetryLater
<1>17. ASSUME PolledEmpty(accepted) \/ \E event \in PlaybackEvents : PolledPlayback(event, accepted)
       PROVE  IInv'
  <2>1. Awaiting(PollPoints) /\ Settle /\ accessToken' = accessToken
    BY <1>17 DEF PolledEmpty, PolledPlayback
  <2>2. playback.kind \notin SignedOutKinds
    BY <1>5, <2>1 DEF RequestPoints
  <2>3. PICK event : event.kind \in PollEvents /\ playback' = After(playback, event)
    <3>1. CASE PolledEmpty(accepted)
      BY <3>1 DEF PolledEmpty, Event, PollEvents
    <3>2. CASE \E event \in PlaybackEvents : PolledPlayback(event, accepted)
      BY <3>2, PlaybackEventKinds DEF PolledPlayback
    <3> QED
      BY <1>17, <3>1, <3>2
  <2>4. playback'.kind \notin SignedOutKinds
    BY <2>2, <2>3, AfterPoll DEF SignedOutKinds, ConnectedKinds
  <2> QED
    BY <1>1, <1>3, <1>4, <2>1, <2>4, EndingStep
<1>18. CASE PollDenied
  BY <1>1, <1>3, <1>4, <1>18, EndingStep DEF PollDenied, LoseAuthorization
<1>19. CASE PollUnauthorized
  <2>1. CASE frame.at = "poll"
    <3>1. Awaiting(PollPoints) /\ playback'.kind \notin SignedOutKinds
      BY <1>5, <1>19, <2>1 DEF PollUnauthorized, RequestPoints, connection
    <3>2. frame'.at = "refresh-after-unauthorized" /\ frame'.epoch = frame.epoch
          /\ refreshFlight' = frame.epoch
      BY <1>2, <1>4, <1>7, <1>19, <2>1
         DEF PollUnauthorized, ContinueOperation, BeginFlight, Frames, PollPoints
    <3> QED
      BY <1>1, <1>3, <1>4, <1>19, <2>1, <3>1, <3>2, ContinuingStep DEF PollUnauthorized
  <2>2. CASE frame.at # "poll"
    BY <1>1, <1>3, <1>4, <1>19, <2>2, EndingStep DEF PollUnauthorized, LoseAuthorization
  <2> QED
    BY <2>1, <2>2
<1>20. CASE StaleAnswer
  BY <1>1, <1>20, EndingStep
     DEF StaleAnswer, connection, IInv, CredentialMatchesState, SignedOutKinds
<1>21. CASE LogoutSettled
  <2>1. refreshFlight' = NoOperation /\ frame' = IdleFrame
    BY <1>7, <1>21 DEF LogoutSettled, RefreshPoints
  <2> QED
    BY <1>1, <1>21, <2>1
       DEF LogoutSettled, connection, session, IdleFrame, IInv, QuietWhenSuspended,
           CredentialMatchesState, FlightBelongsToFrame, Abortable, RequestsAreSignedIn,
           SignInsAreSignedOut, VisibleUntilActive, CanPerformNetworkWork,
           IsRuntimeActive, RefreshPoints, PollPoints, OperationPoints, SignInPoints,
           RequestPoints
<1> QED
  BY <1>8, <1>9, <1>10, <1>11, <1>12, <1>13, <1>14, <1>15, <1>16, <1>17, <1>18, <1>19,
     <1>20, <1>21
     DEF Answer, AnswerAuthorization, AnswerRefresh, AnswerPoll

\* IInv holds initially and every step keeps it.
LEMMA InvariantInductive ==
    /\ Init => IInv
    /\ IInv /\ [Next]_vars => IInv'
<1>1. ASSUME Init
      PROVE  IInv
  <2>1. TypeOK
    BY <1>1, InitType
  <2> QED
    BY <1>1, <2>1
       DEF Init, IInv, QuietWhenSuspended, CredentialMatchesState, FlightBelongsToFrame,
           Abortable, RequestsAreSignedIn, SignInsAreSignedOut, VisibleUntilActive,
           IdleFrame, RefreshPoints, PollPoints, OperationPoints, SignInPoints,
           RequestPoints
<1>2. ASSUME IInv, [Next]_vars
      PROVE  IInv'
  <2>1. ASSUME NEW command \in Commands, Receive(command)
        PROVE  IInv'
    BY <1>2, <2>1, ReceiveSafe
  <2>2. ASSUME NEW slot \in Slots, Fire(slot)
        PROVE  IInv'
    BY <1>2, <2>2, FireSafe
  <2>3. ASSUME NEW clock \in ClockReadings, NEW accepted \in SchedulerOutcomes,
               StartWork(clock, accepted)
        PROVE  IInv'
    BY <1>2, <2>3, StartWorkSafe, EnvironmentAssumption
  <2>4. ASSUME NEW clock \in ClockReadings, NEW accepted \in SchedulerOutcomes,
               Answer(clock, accepted)
        PROVE  IInv'
    BY <1>2, <2>4, AnswerSafe, EnvironmentAssumption
  <2>5. CASE UNCHANGED vars
    BY <1>2, <2>5
       DEF vars, connection, operation, session, IInv, TypeOK, QuietWhenSuspended,
           CredentialMatchesState, FlightBelongsToFrame, Abortable,
           RequestsAreSignedIn, SignInsAreSignedOut, VisibleUntilActive,
           CanPerformNetworkWork, IsRuntimeActive
  <2> QED
    BY <1>2, <2>1, <2>2, <2>3, <2>4, <2>5 DEF Next, Step
<1> QED
  BY <1>1, <1>2

\* A hidden, fatal or disposed worker keeps no timer and has aborted whatever
\* it still awaits (cancelRuntimeWork in receiveVisibilityChange, logout and
\* dispose).
THEOREM QuietWhenSuspendedTheorem == Spec => []QuietWhenSuspended
<1>1. IInv => QuietWhenSuspended
  BY DEF IInv
<1> QED
  BY <1>1, InvariantInductive, PTL DEF Spec

\* A credential is in memory only while the display is active and signed in,
\* whatever late answers arrive (isCurrentOperation guards every write).
THEOREM CredentialMatchesStateTheorem == Spec => []CredentialMatchesState
<1>1. IInv => CredentialMatchesState
  BY DEF IInv
<1> QED
  BY <1>1, InvariantInductive, PTL DEF Spec

\* The shared refresh flight is the running item's own, so no operation joins
\* another's refresh (refreshAccessToken).
THEOREM FlightBelongsToFrameTheorem == Spec => []FlightBelongsToFrame
<1>1. IInv => FlightBelongsToFrame
  BY DEF IInv
<1> QED
  BY <1>1, InvariantInductive, PTL DEF Spec

-----------------------------------------------------------------------------
(***************************************************************************)
(* Aborted operations.                                                     *)
(***************************************************************************)

\* An operation whose epoch the wrapped counter has reached again is told from
\* the newest one by its abort signal: when an aborted operation ends, the
\* connection is as it was.
THEOREM AbortedWritesNothingTheorem == Spec => AbortedWritesNothing
<1>1. ASSUME TypeOK, [Next]_vars
      PROVE  [(frame.aborted /\ frame' = IdleFrame) => UNCHANGED connection]_vars
  <2> SUFFICES ASSUME Next, frame.aborted, frame' = IdleFrame
               PROVE  UNCHANGED connection
    BY <1>1
  <2>1. frame # IdleFrame /\ frame' # frame /\ ~frame'.aborted
    BY DEF IdleFrame
  <2>2. ASSUME NEW command \in Commands, Receive(command)
        PROVE  FALSE
    <3>1. CancelActiveOperation \/ UNCHANGED operation
      BY <2>2 DEF Receive, ReceiveQueued, ReceiveCancelling, ReceiveHide, ReceiveShow,
                  ReceiveLogout, ReceiveDispose, CancelRuntimeWork, operation
    <3>2. CancelActiveOperation => frame'.aborted
      BY <1>1 DEF CancelActiveOperation, TypeOK, Frames
    <3> QED
      BY <2>1, <3>1, <3>2 DEF operation
  <2>3. ASSUME NEW slot \in Slots, Fire(slot)
        PROVE  FALSE
    BY <2>1, <2>3 DEF Fire, operation
  <2>4. ASSUME NEW clock, NEW accepted, StartWork(clock, accepted)
        PROVE  FALSE
    BY <2>1, <2>4 DEF StartWork, StartInitialize, StartBeginAuthorization,
                      StartConsumeCallback, StartRecover, StartScheduledRefresh,
                      StartLogout, Dequeue, Idle
  <2>5. ASSUME NEW points, Awaiting(points)
        PROVE  FALSE
    BY <2>5 DEF Awaiting, IsCurrentOperation
  <2>6. ASSUME NEW clock, NEW accepted, Answer(clock, accepted)
        PROVE  UNCHANGED connection
    <3>1. StaleAnswer \/ LogoutSettled
      BY <2>5, <2>6
         DEF Answer, AnswerAuthorization, AnswerRefresh, AnswerPoll,
             AuthorizationRedirected, AuthorizationConnected, AuthorizationRefused,
             RefreshUnusable, RefreshedForUse, RefreshedAfterUnauthorized,
             RefreshRefused, RefreshDeferred, RefreshFailed, PolledEmpty,
             PolledPlayback, PollFailed, PollDeferred, PollDenied, PollUnauthorized
    <3> QED
      BY <3>1 DEF StaleAnswer, LogoutSettled
  <2> QED
    BY <2>2, <2>3, <2>4, <2>6 DEF Next, Step
<1> QED
  BY <1>1, TypeCorrect, PTL DEF Spec, AbortedWritesNothing

-----------------------------------------------------------------------------
(***************************************************************************)
(* Reconnecting.                                                           *)
(***************************************************************************)

\* Until it is initialized the worker has shown nothing but the initial state.
InitialUntilActive ==
    runtimeStatus = "awaiting-initialization" => playback = InitialPlaybackState

\* Only an initialized worker moves the display.
LEMMA InitialUntilActiveInductive ==
    ASSUME InitialUntilActive, Next
    PROVE  InitialUntilActive'
<1> USE DEF InitialUntilActive, IsRuntimeActive, CanPerformNetworkWork
<1>1. ASSUME NEW command \in Commands, Receive(command)
      PROVE  InitialUntilActive'
  BY <1>1 DEF Receive, ReceiveQueued, ReceiveCancelling, ReceiveHide, ReceiveShow,
              ReceiveLogout, ReceiveDispose, connection, session
<1>2. ASSUME NEW slot \in Slots, Fire(slot)
      PROVE  InitialUntilActive'
  BY <1>2 DEF Fire, session
<1>3. ASSUME NEW clock, NEW accepted, RecoverConnection(clock, accepted)
      PROVE  InitialUntilActive'
  BY <1>3 DEF RecoverConnection, MayRecover, connection, session
<1>4. ASSUME NEW clock, NEW accepted, StartWork(clock, accepted)
      PROVE  InitialUntilActive'
  BY <1>3, <1>4
     DEF StartWork, StartInitialize, StartBeginAuthorization, StartConsumeCallback,
         StartRecover, StartScheduledRefresh, StartLogout, Ignore, connection, session
<1>5. ASSUME NEW points, Awaiting(points)
      PROVE  InitialUntilActive'
  BY <1>5 DEF Awaiting, IsCurrentOperation, session
<1>6. ASSUME NEW clock, NEW accepted, Answer(clock, accepted)
      PROVE  InitialUntilActive'
  BY <1>5, <1>6
     DEF Answer, AnswerAuthorization, AnswerRefresh, AnswerPoll,
         AuthorizationRedirected, AuthorizationConnected, AuthorizationRefused,
         RefreshUnusable, RefreshedForUse, RefreshedAfterUnauthorized,
         RefreshRefused, RefreshDeferred, RefreshFailed, PolledEmpty,
         PolledPlayback, PollFailed, PollDeferred, PollDenied, PollUnauthorized,
         StaleAnswer, LogoutSettled, connection, session
<1> QED
  BY <1>1, <1>2, <1>4, <1>6 DEF Next, Step

\* A signed-out display leaves that state only for a sign-in or a failure:
\* transitionPlaybackState refuses every result that arrives in between.
THEOREM NoSilentReconnectTheorem == Spec => NoSilentReconnect
<1> DEFINE Allowed == {"authorization-required", "authorizing", "failure"}
<1>1. Init => InitialUntilActive
  BY DEF Init, InitialUntilActive
<1>2. InitialUntilActive /\ [Next]_vars => InitialUntilActive'
  BY InitialUntilActiveInductive DEF InitialUntilActive, vars, connection, session
<1>3. ASSUME InitialUntilActive, [Next]_vars
      PROVE  [playback.kind = "authorization-required" => playback'.kind \in Allowed]_vars
  <2> SUFFICES ASSUME Next, playback.kind = "authorization-required"
               PROVE  playback'.kind \in Allowed
    BY <1>3
  <2> DEFINE Stays == playback' = playback \/ \E event : playback' = After(playback, event)
  <2>1. Stays => playback'.kind \in Allowed
    BY DEF After, Accepts, Target, TargetKind, State, ConnectedKinds, PollEvents
  <2> HIDE DEF Stays
  <2>2. ASSUME NEW command \in Commands, Receive(command)
        PROVE  Stays
    BY <2>2 DEF Stays, Receive, ReceiveQueued, ReceiveCancelling, ReceiveHide,
                ReceiveShow, ReceiveLogout, ReceiveDispose, connection
  <2>3. ASSUME NEW slot \in Slots, Fire(slot)
        PROVE  Stays
    BY <2>3 DEF Stays, Fire
  <2>4. ASSUME NEW clock, NEW accepted, RecoverConnection(clock, accepted)
        PROVE  Stays
    BY <2>4 DEF Stays, RecoverConnection, RecoverWithoutClock, TransitionToFailure,
                connection
  <2>5. ASSUME NEW valid, StartInitialize(valid)
        PROVE  Stays
    BY <1>3, <2>5 DEF Stays, StartInitialize, Ignore, connection, InitialUntilActive,
                      InitialPlaybackState, State
  <2>6. ASSUME NEW clock, NEW accepted, StartWork(clock, accepted)
        PROVE  Stays
    BY <2>4, <2>5, <2>6
       DEF Stays, StartWork, StartBeginAuthorization, StartConsumeCallback,
           StartRecover, StartScheduledRefresh, StartLogout, Ignore, connection,
           TransitionToFailure
  <2>7. ASSUME NEW clock, NEW accepted, Answer(clock, accepted)
        PROVE  Stays
    <3>1. CASE AnswerAuthorization(clock, accepted)
      BY <3>1 DEF Stays, AnswerAuthorization, AuthorizationRedirected,
                  AuthorizationConnected, AuthorizationRefused, connection,
                  TransitionToFailure
    <3>2. CASE AnswerRefresh(clock, accepted)
      BY <3>2 DEF Stays, AnswerRefresh, RefreshUnusable, RefreshedForUse,
                  RefreshedAfterUnauthorized, RefreshRefused, RefreshDeferred,
                  RefreshFailed, connection, TransitionToFailure, LoseAuthorization,
                  RetryLater
    <3>3. CASE AnswerPoll(accepted)
      BY <3>3 DEF Stays, AnswerPoll, PolledEmpty, PolledPlayback, PollFailed,
                  PollDeferred, PollDenied, PollUnauthorized, connection,
                  TransitionToFailure, LoseAuthorization, RetryLater
    <3> QED
      BY <2>7, <3>1, <3>2, <3>3 DEF Answer, StaleAnswer, LogoutSettled, connection, Stays
  <2> QED
    BY <2>1, <2>2, <2>3, <2>6, <2>7 DEF Next, Step
<1> QED
  BY <1>1, <1>2, <1>3, PTL DEF Spec, NoSilentReconnect
-----------------------------------------------------------------------------
(***************************************************************************)
(* A connection that is shown goes on.  NotStranded looks at an idle       *)
(* worker only; what is inductive says what carries the connection at any  *)
(* moment: a timer, a recovery that waits its turn, or a request whose     *)
(* answer is still wanted.                                                 *)
(***************************************************************************)
ConnectionGoesOn ==
    (CanPerformNetworkWork /\ playback.kind \in ConnectedKinds) =>
        \/ scheduled \cap {"poll", "retry"} # {}
        \/ \E i \in 1..Len(queuedWork) : queuedWork[i] = "recover"
        \/ frame.at \in RequestPoints /\ IsCurrentOperation

LEMMA GoesOnWhenIdle == ConnectionGoesOn => NotStranded
BY DEF ConnectionGoesOn, NotStranded, Idle, IdleFrame, RequestPoints, RefreshPoints, PollPoints

\* Taking another item of the chain leaves a recovery that waits on it.
LEMMA RecoveryWaits ==
    ASSUME NEW queue \in Seq(Works), queue # <<>>
    PROVE  \A i \in 1..Len(queue) :
              queue[i] # Head(queue) => \E j \in 1..Len(Tail(queue)) : Tail(queue)[j] = queue[i]
<1>1. ASSUME NEW i \in 1..Len(queue), queue[i] # Head(queue)
      PROVE  \E j \in 1..Len(Tail(queue)) : Tail(queue)[j] = queue[i]
  <2>1. i - 1 \in 1..Len(Tail(queue)) /\ Tail(queue)[i - 1] = queue[i]
    BY <1>1
  <2>. QED  BY <2>1
<1>. QED  BY <1>1

\* A command that leaves a connection to go on leaves what carries it on, or
\* queues a recovery; a sign-in callback does not.
LEMMA ReceiveGoesOn ==
    ASSUME TypeOK, NEW command \in Commands, Receive(command),
           ConnectionGoesOn \/ command \in {"hide", "show"},
           command # "consume-callback"
    PROVE  ConnectionGoesOn'
<1>. USE DEF ConnectionGoesOn, CanPerformNetworkWork, IsRuntimeActive, IsCurrentOperation
<1>1. queuedWork \in Seq(Works) /\ playback \in PlaybackStates
  BY DEF TypeOK
<1>2. \A work \in Works : Enqueue(work) =>
         /\ (\E i \in 1..Len(queuedWork) : queuedWork[i] = "recover") =>
               \E i \in 1..Len(queuedWork') : queuedWork'[i] = "recover"
         /\ work = "recover" => \E i \in 1..Len(queuedWork') : queuedWork'[i] = "recover"
  <2>1. ASSUME NEW work \in Works, Enqueue(work)
        PROVE  /\ Len(queuedWork') = Len(queuedWork) + 1 /\ queuedWork'[Len(queuedWork) + 1] = work
               /\ \A i \in 1..Len(queuedWork) : queuedWork'[i] = queuedWork[i]
    BY <1>1, <2>1 DEF Enqueue
  <2>. QED  BY <1>1, <2>1
<1>3. ASSUME NEW work \in Works, ReceiveQueued(work), ConnectionGoesOn
      PROVE  ConnectionGoesOn'
  BY <1>2, <1>3 DEF ReceiveQueued, connection, operation, session
<1>4. CASE ReceiveCancelling("recover")
  BY <1>2, <1>4 DEF ReceiveCancelling, Works
<1>5. CASE ReceiveHide \/ ReceiveDispose
  BY <1>5 DEF ReceiveHide, ReceiveDispose
<1>6. CASE ReceiveShow
  <2>1. CASE playback.kind = "authorizing"
    BY <1>1, <1>6, <2>1, AfterKind DEF ReceiveShow, ConnectedKinds
  <2>2. CASE playback.kind # "authorizing"
    BY <1>2, <1>6, <2>2 DEF ReceiveShow, Works
  <2>. QED  BY <2>1, <2>2
<1>7. CASE ReceiveLogout
  BY <1>1, <1>7, AfterKind DEF ReceiveLogout, ConnectedKinds
<1>. QED
  BY <1>3, <1>4, <1>5, <1>6, <1>7 DEF Receive, Works

\* A timer that fires queues the recovery it stood for.
LEMMA FireGoesOn ==
    ASSUME TypeOK, ConnectionGoesOn, NEW slot \in Slots, Fire(slot)
    PROVE  ConnectionGoesOn'
<1>. USE DEF ConnectionGoesOn, CanPerformNetworkWork, IsRuntimeActive, IsCurrentOperation
<1>1. queuedWork \in Seq(Works) /\ UNCHANGED <<playback, session, operation>> /\ scheduled' = scheduled \ {slot}
  BY DEF TypeOK, Fire
<1>2. CASE CanPerformNetworkWork
  <2>1. /\ Len(queuedWork') = Len(queuedWork) + 1
        /\ queuedWork'[Len(queuedWork) + 1] = WorkOf(slot)
        /\ \A i \in 1..Len(queuedWork) : queuedWork'[i] = queuedWork[i]
    BY <1>1, <1>2 DEF Fire, Enqueue, WorkOf, Works
  <2>2. slot # "refresh" => WorkOf(slot) = "recover"
    BY DEF WorkOf
  <2>. QED  BY <1>1, <1>2, <2>1, <2>2 DEF session, operation
<1>3. CASE ~CanPerformNetworkWork
  BY <1>1, <1>3 DEF session
<1>. QED  BY <1>2, <1>3

\* A platform whose clock and timers work.
PlatformWorks == "unavailable" \notin ClockReadings /\ SchedulerOutcomes \subseteq {TRUE}

\* A recovery becomes a request; other work leaves it on the chain.
LEMMA StartWorkGoesOn ==
    ASSUME IInv, ConnectionGoesOn, NEW clock, clock # "unavailable", StartWork(clock, TRUE)
    PROVE  ConnectionGoesOn'
<1>. USE DEF CanPerformNetworkWork, IsRuntimeActive
<1>1. TypeOK /\ playback \in PlaybackStates /\ queuedWork \in Seq(Works)
  BY DEF IInv, TypeOK
<1>2. frame.at = "idle" /\ queuedWork # <<>> /\ queuedWork' = Tail(queuedWork)
  BY IdleFacts
     DEF StartWork, StartInitialize, StartBeginAuthorization, StartConsumeCallback,
         StartRecover, StartScheduledRefresh, StartLogout, Dequeue
<1>. DEFINE Waiting == scheduled \cap {"poll", "retry"} # {}
                       \/ \E i \in 1..Len(queuedWork) : queuedWork[i] = "recover"
            Connected == CanPerformNetworkWork /\ playback.kind \in ConnectedKinds
<1>3. Connected => Waiting
  BY <1>2 DEF ConnectionGoesOn, RequestPoints, RefreshPoints, PollPoints
<1>4. ASSUME Connected' => Connected, scheduled \subseteq scheduled', Head(queuedWork) # "recover"
      PROVE  ConnectionGoesOn'
  <2>1. Waiting => Waiting'
    BY <1>1, <1>2, <1>4, RecoveryWaits
  <2>. QED  BY <1>3, <1>4, <2>1 DEF ConnectionGoesOn
<1>5. ASSUME playback'.kind \notin ConnectedKinds PROVE ConnectionGoesOn'
  BY <1>5 DEF ConnectionGoesOn
<1>6. ASSUME NEW point \in RequestPoints, StartOperation(point), UNCHANGED session
      PROVE  ConnectionGoesOn'
  BY <1>6 DEF StartOperation, ConnectionGoesOn, IsCurrentOperation, session
<1>7. ASSUME RecoverConnection(clock, TRUE)
      PROVE  ConnectionGoesOn'
  <2>1. CASE ~MayRecover /\ UNCHANGED <<connection, operation, refreshFlight>>
    BY <1>7, <2>1
       DEF RecoverConnection, MayRecover, ConnectionGoesOn, ConnectedKinds, connection, session
  <2>2. CASE RecoverByRefresh \/ RecoverWithToken(clock, TRUE)
    BY <1>6, <1>7, <2>2
       DEF RecoverConnection, RecoverByRefresh, RecoverWithToken, RequestPoints, RefreshPoints,
           PollPoints
  <2>. QED  BY <1>7, <2>1, <2>2 DEF RecoverConnection, RecoverWithoutClock
<1>8. ASSUME Ignore, Head(queuedWork) # "recover" PROVE ConnectionGoesOn'
  BY <1>4, <1>8 DEF Ignore, connection, session
<1>9. ASSUME NEW valid \in BOOLEAN, StartInitialize(valid)
      PROVE  ConnectionGoesOn'
  <2>1. CASE Ignore
    BY <1>8, <1>9, <2>1 DEF StartInitialize, Dequeue
  <2>2. CASE runtimeStatus' = "fatal"
    BY <2>2 DEF ConnectionGoesOn
  <2>3. CASE playback' = InitialPlaybackState
    BY <1>5, <2>3 DEF InitialPlaybackState, State, ConnectedKinds
  <2>. QED  BY <1>9, <2>1, <2>2, <2>3 DEF StartInitialize
<1>10. ASSUME \/ StartBeginAuthorization(clock)
              \/ \E parsed \in BOOLEAN : StartConsumeCallback(parsed, clock)
       PROVE  ConnectionGoesOn'
  <2>1. CASE Ignore
    BY <1>8, <1>10, <2>1 DEF StartBeginAuthorization, StartConsumeCallback, Dequeue
  <2>2. CASE /\ playback.kind \in SignedOutKinds
             /\ playback' = After(playback, Event("begin-authorization", NoDetail))
    BY <1>1, <1>5, <2>2, AfterKind DEF SignedOutKinds, ConnectedKinds
  <2>. QED
    BY <1>10, <2>1, <2>2 DEF StartBeginAuthorization, StartConsumeCallback, SignedOutKinds
<1>11. CASE StartRecover(clock, TRUE)
  BY <1>7, <1>11 DEF StartRecover
<1>12. CASE StartScheduledRefresh(clock, TRUE)
  <2>1. Head(queuedWork) # "recover"
    BY <1>12 DEF StartScheduledRefresh, Dequeue
  <2>2. CASE clock = "early" /\ scheduled' = SchedulingRefresh(scheduled, clock, TRUE)
             /\ UNCHANGED <<playback, session>>
    BY <1>4, <2>1, <2>2 DEF SchedulingRefresh, Scheduling, session
  <2>3. CASE StartOperation("refresh-then-wait") /\ UNCHANGED session
    BY <1>6, <2>3 DEF RequestPoints, RefreshPoints
  <2>. QED  BY <1>7, <1>8, <1>12, <2>1, <2>2, <2>3 DEF StartScheduledRefresh
<1>13. CASE StartLogout
  BY <1>4, <1>13 DEF StartLogout, Dequeue, connection, session
<1>. QED  BY <1>9, <1>10, <1>11, <1>12, <1>13 DEF StartWork

\* An answer sets the next timer, goes on to the next request, or ends the
\* connection it was for.
LEMMA AnswerGoesOn ==
    ASSUME IInv, ConnectionGoesOn, NEW clock, clock # "unavailable", Answer(clock, TRUE)
    PROVE  ConnectionGoesOn'
<1>. USE DEF CanPerformNetworkWork, IsRuntimeActive
<1>1. playback \in PlaybackStates /\ frame \in Frames
  BY DEF IInv, TypeOK
<1>2. ASSUME playback'.kind \notin ConnectedKinds PROVE ConnectionGoesOn'
  BY <1>2 DEF ConnectionGoesOn
<1>3. ASSUME scheduled' \cap {"poll", "retry"} # {} PROVE ConnectionGoesOn'
  BY <1>3 DEF ConnectionGoesOn
<1>4. ASSUME NEW points, Awaiting(points), NEW point \in RequestPoints, ContinueOperation(point)
      PROVE  ConnectionGoesOn'
  BY <1>1, <1>4
     DEF Awaiting, ContinueOperation, ConnectionGoesOn, IsCurrentOperation, session, Frames
<1>5. ASSUME NEW reason, TransitionToFailure(reason) PROVE ConnectionGoesOn'
  BY <1>1, <1>2, <1>5, AfterKind DEF TransitionToFailure, ConnectedKinds
<1>6. ASSUME NEW reason, LoseAuthorization(reason) PROVE ConnectionGoesOn'
  BY <1>1, <1>2, <1>6, AfterKind DEF LoseAuthorization, ConnectedKinds
<1>7. ASSUME NEW position, RetryLater(position, TRUE) PROVE ConnectionGoesOn'
  BY <1>3, <1>7 DEF RetryLater
<1>8. "poll" \in RequestPoints /\ "poll-after-refresh" \in RequestPoints
      /\ "refresh-after-unauthorized" \in RequestPoints
  BY DEF RequestPoints, RefreshPoints, PollPoints
<1>9. ASSUME Awaiting({"begin"}) \/ Awaiting({"begin", "callback"})
      PROVE  playback.kind \in SignedOutKinds
  BY <1>9 DEF Awaiting, IsCurrentOperation, IInv, SignInsAreSignedOut, SignInPoints
<1>10. CASE AnswerAuthorization(clock, TRUE)
  <2>1. CASE AuthorizationRedirected
    BY <1>2, <1>9, <2>1 DEF AuthorizationRedirected, connection, SignedOutKinds, ConnectedKinds
  <2>2. CASE AuthorizationConnected(clock, TRUE)
    <3>. DEFINE complete == Event("authorization-complete", NoDetail)
    <3>1. CASE Accepts(playback, complete)
      BY <1>4, <1>8, <2>2, <3>1 DEF AuthorizationConnected
    <3>2. CASE ~Accepts(playback, complete)
      <4>1. playback' = playback /\ playback.kind \in SignedOutKinds
        BY <1>9, <2>2, <3>2 DEF AuthorizationConnected, After
      <4>. QED  BY <1>2, <4>1 DEF SignedOutKinds, ConnectedKinds
    <3>. QED  BY <3>1, <3>2
  <2>3. ASSUME NEW reason, AuthorizationRefused(reason) PROVE ConnectionGoesOn'
    <3>1. CASE playback' = After(playback, Event("authorization-required", reason))
      BY <1>1, <1>2, <3>1, AfterKind DEF ConnectedKinds
    <3>. QED  BY <1>5, <2>3, <3>1 DEF AuthorizationRefused
  <2>. QED  BY <1>10, <2>1, <2>2, <2>3 DEF AnswerAuthorization
<1>11. CASE AnswerRefresh(clock, TRUE)
  <2>1. CASE RefreshedForUse(clock, TRUE)
    <3>1. CASE frame.at = "refresh-then-poll"
      BY <1>4, <1>8, <2>1, <3>1 DEF RefreshedForUse
    <3>2. CASE frame.at # "refresh-then-poll"
      <4>1. "poll" \in scheduled'
        BY <2>1, <3>2 DEF RefreshedForUse, Scheduling
      <4>. QED  BY <1>3, <4>1
    <3>. QED  BY <3>1, <3>2
  <2>2. CASE RefreshedAfterUnauthorized(clock, TRUE)
    BY <1>4, <1>8, <2>2 DEF RefreshedAfterUnauthorized
  <2>3. ASSUME NEW reason, RefreshRefused(reason) \/ RefreshFailed(reason) PROVE ConnectionGoesOn'
    BY <1>5, <1>6, <2>3 DEF RefreshRefused, RefreshFailed
  <2>4. CASE RefreshDeferred(TRUE)
    BY <1>7, <2>4 DEF RefreshDeferred
  <2>. QED  BY <1>11, <2>1, <2>2, <2>3, <2>4 DEF AnswerRefresh, RefreshUnusable
<1>12. CASE AnswerPoll(TRUE)
  <2>1. CASE PolledEmpty(TRUE)
    BY <1>3, <2>1 DEF PolledEmpty, Scheduling
  <2>2. ASSUME NEW event \in PlaybackEvents, PolledPlayback(event, TRUE) PROVE ConnectionGoesOn'
    <3>1. CASE Accepts(playback, event)
      BY <1>3, <2>2, <3>1 DEF PolledPlayback, Scheduling
    <3>2. CASE ~Accepts(playback, event)
      <4>1. playback' = playback /\ playback.kind \notin ConnectedKinds
        BY <2>2, <3>2, PlaybackEventKinds DEF PolledPlayback, After, Accepts
      <4>. QED  BY <1>2, <4>1
    <3>. QED  BY <3>1, <3>2
  <2>3. ASSUME NEW reason, PollFailed(reason) PROVE ConnectionGoesOn'
    BY <1>5, <2>3 DEF PollFailed
  <2>4. ASSUME NEW position, PollDeferred(position, TRUE) PROVE ConnectionGoesOn'
    BY <1>7, <2>4 DEF PollDeferred
  <2>5. CASE PollDenied
    BY <1>6, <2>5 DEF PollDenied
  <2>6. CASE PollUnauthorized
    BY <1>4, <1>6, <1>8, <2>6 DEF PollUnauthorized
  <2>. QED  BY <1>12, <2>1, <2>2, <2>3, <2>4, <2>5, <2>6 DEF AnswerPoll
<1>13. CASE StaleAnswer
  BY <1>13 DEF StaleAnswer, ConnectionGoesOn, connection, session
<1>14. CASE LogoutSettled
  BY <1>14
     DEF LogoutSettled, ConnectionGoesOn, connection, session, RequestPoints, RefreshPoints, PollPoints
<1>. QED  BY <1>10, <1>11, <1>12, <1>13, <1>14 DEF Answer

LEMMA StepGoesOn ==
    ASSUME PlatformWorks, IInv, ConnectionGoesOn, Step
    PROVE  ConnectionGoesOn'
BY StartWorkGoesOn, AnswerGoesOn DEF PlatformWorks, Step

\* On a platform whose clock and timers work, and as long as no sign-in callback
\* is received, a worker with a connected visible display always has the next
\* poll before it: no sequence of commands, answers and timers leaves it idle
\* with nothing to wake it (schedulePoll, scheduleTransportRetry).
THEOREM NotStrandedTheorem ==
    ASSUME PlatformWorks
    PROVE  Spec /\ [][~Receive("consume-callback")]_vars => []NotStranded
<1>1. Init => ConnectionGoesOn
  BY DEF Init, ConnectionGoesOn, CanPerformNetworkWork, IsRuntimeActive
<1>2. IInv /\ ConnectionGoesOn /\ [Next]_vars /\ [~Receive("consume-callback")]_vars
        => ConnectionGoesOn'
  <2>1. ASSUME ConnectionGoesOn, UNCHANGED vars PROVE ConnectionGoesOn'
    BY <2>1 DEF ConnectionGoesOn, vars, connection, operation, session, CanPerformNetworkWork,
                IsRuntimeActive, IsCurrentOperation
  <2>2. IInv => TypeOK
    BY DEF IInv
  <2>. QED  BY <2>1, <2>2, ReceiveGoesOn, FireGoesOn, StepGoesOn DEF Next
<1>. QED  BY <1>1, <1>2, InvariantInductive, GoesOnWhenIdle, PTL DEF Spec

-----------------------------------------------------------------------------
(***************************************************************************)
(* A logout is not lost.                                                   *)
(***************************************************************************)
LogoutPending == \E i \in 1..Len(queuedWork) : queuedWork[i] = "logout"

\* A logout is accepted by an active worker only, which stays so or is disposed.
LogoutOfActive == LogoutPending => runtimeStatus \in {"active", "disposed"}

\* Work is added at the end of the chain or taken from its front.
LEMMA ChainMoves ==
    ASSUME TypeOK, Next
    PROVE  \/ UNCHANGED queuedWork
           \/ \E work \in Works : Enqueue(work) /\ (work = "logout" => runtimeStatus = "active")
           \/ /\ queuedWork # <<>> /\ queuedWork' = Tail(queuedWork)
              /\ Head(queuedWork) = "logout" => StartLogout
<1>1. ASSUME NEW command \in Commands, Receive(command)
      PROVE  \/ UNCHANGED queuedWork
             \/ \E work \in Works : Enqueue(work) /\ (work = "logout" => runtimeStatus = "active")
  BY <1>1 DEF Receive, ReceiveQueued, ReceiveCancelling, ReceiveHide, ReceiveShow, ReceiveLogout,
     ReceiveDispose, IsRuntimeActive, Works
<1>2. ASSUME NEW slot \in Slots, Fire(slot)
      PROVE  \/ UNCHANGED queuedWork
             \/ \E work \in Works : Enqueue(work) /\ (work = "logout" => runtimeStatus = "active")
  BY <1>2 DEF Fire, WorkOf, Works
<1>3. ASSUME NEW clock, NEW accepted, StartWork(clock, accepted)
      PROVE  /\ queuedWork # <<>> /\ queuedWork' = Tail(queuedWork)
             /\ Head(queuedWork) = "logout" => StartLogout
  BY <1>3 DEF StartWork, StartInitialize, StartBeginAuthorization, StartConsumeCallback,
     StartRecover, StartScheduledRefresh, StartLogout, Dequeue
<1>4. ASSUME NEW clock, NEW accepted, Answer(clock, accepted) PROVE UNCHANGED queuedWork
  BY <1>4
     DEF Answer, AnswerAuthorization, AnswerRefresh, AnswerPoll, AuthorizationRedirected,
         AuthorizationConnected, AuthorizationRefused, RefreshUnusable, RefreshedForUse,
         RefreshedAfterUnauthorized, RefreshRefused, RefreshDeferred, RefreshFailed, PolledEmpty,
         PolledPlayback, PollFailed, PollDeferred, PollDenied, PollUnauthorized, StaleAnswer,
         LogoutSettled, Awaiting
<1>. QED  BY <1>1, <1>2, <1>3, <1>4 DEF Next, Step

\* An active worker stays so until it is disposed.
LEMMA ActiveStays ==
    ASSUME TypeOK, Next, runtimeStatus \in {"active", "disposed"}
    PROVE  runtimeStatus' \in {"active", "disposed"}
<1>1. ASSUME NEW command \in Commands, Receive(command)
      PROVE  runtimeStatus' \in {runtimeStatus, "disposed"}
  BY <1>1 DEF Receive, ReceiveQueued, ReceiveCancelling, ReceiveHide, ReceiveShow, ReceiveLogout,
     ReceiveDispose, session
<1>2. ASSUME NEW slot \in Slots, Fire(slot) PROVE runtimeStatus' = runtimeStatus
  BY <1>2 DEF Fire, session
<1>3. ASSUME NEW clock, NEW accepted, StartWork(clock, accepted) PROVE runtimeStatus' = runtimeStatus
  BY <1>3 DEF StartWork, StartInitialize, StartBeginAuthorization, StartConsumeCallback,
     StartRecover, StartScheduledRefresh, StartLogout, RecoverConnection, Ignore, session
<1>4. ASSUME NEW clock, NEW accepted, Answer(clock, accepted) PROVE runtimeStatus' = runtimeStatus
  BY <1>4
     DEF Answer, AnswerAuthorization, AnswerRefresh, AnswerPoll, AuthorizationRedirected,
         AuthorizationConnected, AuthorizationRefused, RefreshUnusable, RefreshedForUse,
         RefreshedAfterUnauthorized, RefreshRefused, RefreshDeferred, RefreshFailed, PolledEmpty,
         PolledPlayback, PollFailed, PollDeferred, PollDenied, PollUnauthorized, StaleAnswer,
         LogoutSettled, Awaiting, session
<1>. QED  BY <1>1, <1>2, <1>3, <1>4 DEF Next, Step

LEMMA LogoutMoves ==
    ASSUME TypeOK, LogoutOfActive, Next
    PROVE  /\ LogoutOfActive'
           /\ LogoutPending => \/ LogoutPending' \/ frame'.at = "logout"
                               \/ runtimeStatus = "disposed"
<1>1. queuedWork \in Seq(Works)
  BY DEF TypeOK
<1>2. CASE UNCHANGED queuedWork
  BY <1>2, ActiveStays DEF LogoutOfActive, LogoutPending
<1>3. ASSUME NEW work \in Works, Enqueue(work), work = "logout" => runtimeStatus = "active"
      PROVE  LogoutOfActive' /\ (LogoutPending => LogoutPending')
  <2>1. /\ Len(queuedWork') = Len(queuedWork) + 1 /\ queuedWork'[Len(queuedWork) + 1] = work
        /\ \A i \in 1..Len(queuedWork) : queuedWork'[i] = queuedWork[i]
    BY <1>1, <1>3 DEF Enqueue
  <2>2. LogoutPending => LogoutPending'
    BY <1>1, <2>1 DEF LogoutPending
  <2>3. LogoutPending' => LogoutPending \/ work = "logout"
    <3>1. ASSUME NEW i \in 1..Len(queuedWork'), queuedWork'[i] = "logout"
          PROVE  LogoutPending \/ work = "logout"
      <4>1. i \in 1..Len(queuedWork) \/ i = Len(queuedWork) + 1
        BY <1>1, <2>1, <3>1
      <4>. QED  BY <2>1, <3>1, <4>1 DEF LogoutPending
    <3>. QED  BY <3>1 DEF LogoutPending
  <2>. QED  BY <1>3, <2>2, <2>3, ActiveStays DEF LogoutOfActive
<1>4. CASE /\ queuedWork # <<>> /\ queuedWork' = Tail(queuedWork)
           /\ Head(queuedWork) = "logout" => StartLogout
  <2>1. LogoutPending' => LogoutPending
    <3>1. ASSUME NEW i \in 1..Len(queuedWork'), queuedWork'[i] = "logout" PROVE LogoutPending
      <4>1. i + 1 \in 1..Len(queuedWork) /\ queuedWork[i + 1] = "logout"
        BY <1>1, <1>4, <3>1
      <4>. QED  BY <4>1 DEF LogoutPending
    <3>. QED  BY <3>1 DEF LogoutPending
  <2>2. LogoutOfActive'
    BY <2>1, ActiveStays DEF LogoutOfActive
  <2>3. CASE Head(queuedWork) = "logout"
    <3>1. StartLogout
      BY <1>4, <2>3
    <3>2. CASE runtimeStatus = "active"
      <4>1. frame' = [at |-> "logout", epoch |-> NoOperation, aborted |-> FALSE]
        BY <3>1, <3>2 DEF StartLogout, IsRuntimeActive
      <4>2. frame'.at = "logout"
        BY <4>1
      <4>. QED  BY <2>2, <4>2
    <3>3. CASE runtimeStatus # "active"
      <4>1. LogoutPending => runtimeStatus = "disposed"
        BY <3>3 DEF LogoutOfActive
      <4>. QED  BY <2>2, <4>1
    <3>. QED  BY <3>2, <3>3
  <2>4. CASE Head(queuedWork) # "logout"
    BY <1>1, <1>4, <2>2, <2>4, RecoveryWaits DEF LogoutPending
  <2>. QED  BY <2>3, <2>4
<1>. QED  BY <1>2, <1>3, <1>4, ChainMoves

\* A logout the worker accepted stays on its chain, whatever is cancelled,
\* hidden or shown meanwhile, until its turn comes and storage is cleared or
\* the worker is disposed (receiveLogout, enqueue).
THEOREM LogoutIsKept ==
    Spec => [][LogoutPending => LogoutPending' \/ frame'.at = "logout" \/ runtimeStatus = "disposed"]_vars
<1>1. Init => LogoutOfActive
  BY DEF Init, LogoutOfActive, LogoutPending
<1>2. TypeOK /\ LogoutOfActive /\ [Next]_vars => LogoutOfActive'
  BY LogoutMoves DEF vars, session, LogoutOfActive, LogoutPending
<1>3. TypeOK /\ LogoutOfActive /\ [Next]_vars =>
          [LogoutPending => LogoutPending' \/ frame'.at = "logout" \/ runtimeStatus = "disposed"]_vars
  BY LogoutMoves
<1>. QED  BY <1>1, <1>2, <1>3, TypeCorrect, PTL DEF Spec

-----------------------------------------------------------------------------
(***************************************************************************)
(* Part 2.  The worker and its page.                                       *)
(***************************************************************************)

PageCommands == UserCommands \cup {"initialize", "consume-callback", "hide", "show"}

Applications == {"not-started", "preparing", "ready", "unconfigured", "disposed"}

ChannelTyped ==
    /\ application \in Applications
    /\ address \in {"display", "callback", "provider"}
    /\ pageVisibility \in {"hidden", "visible"}
    /\ channel \in Seq(PageCommands)

\* What the page can have posted.
LEMMA StartupTyped ==
    ASSUME ChannelTyped
    PROVE  /\ StartupCommands \in Seq(PageCommands)
           /\ \A shown : <<Visibility(shown)>> \in Seq(PageCommands)
           /\ \A shown : Append(StartupCommands, Visibility(shown)) \in Seq(PageCommands)
<1>1. \A shown : Visibility(shown) \in PageCommands
  BY DEF Visibility, PageCommands
<1>2. <<"initialize">> \in Seq(PageCommands) /\ <<"initialize", "consume-callback">> \in Seq(PageCommands)
  <2>1. "initialize" \in PageCommands /\ "consume-callback" \in PageCommands
    BY DEF PageCommands
  <2>. QED  BY <2>1
<1>3. StartupCommands \in Seq(PageCommands)
  BY <1>2 DEF StartupCommands
<1>. QED  BY <1>1, <1>3

LEMMA ChannelTypedInductive ==
    ASSUME ChannelTyped, NextSession
    PROVE  ChannelTyped'
<1>. USE DEF ChannelTyped, Applications
<1>1. CASE PageAdvances
  <2>1. channel \o Append(StartupCommands, Visibility(pageVisibility)) \in Seq(PageCommands)
    <3>1. \A more \in Seq(PageCommands) : channel \o more \in Seq(PageCommands)
      OBVIOUS
    <3>. QED  BY <3>1, StartupTyped
  <2>2. CASE Prepared
    BY <2>1, <2>2 DEF Prepared, PostCommands
  <2>3. CASE StartPage \/ PreparationFailed
    BY <2>3 DEF StartPage, PreparationFailed
  <2>4. CASE ReceiveEvent
    BY <2>4 DEF ReceiveEvent
  <2>. QED  BY <1>1, <2>2, <2>3, <2>4 DEF PageAdvances
<1>2. CASE VisibilityChange
  <2>1. \A shown : channel \o <<Visibility(shown)>> \in Seq(PageCommands)
    BY StartupTyped
  <2>. QED  BY <1>2, <2>1 DEF VisibilityChange, PostCommands
<1>3. ASSUME NEW command \in UserCommands, UserPosts(command) PROVE ChannelTyped'
  <2>1. command \in PageCommands
    BY DEF PageCommands
  <2>2. <<command>> \in Seq(PageCommands)
    BY <2>1
  <2>3. channel \o <<command>> \in Seq(PageCommands)
    BY <2>2
  <2>. QED  BY <1>3, <2>3 DEF UserPosts, PostCommands, page
<1>4. CASE DisposePage
  BY <1>4 DEF DisposePage
<1>5. CASE DeliverCommand
  BY <1>5 DEF DeliverCommand, page
<1>6. CASE WorkerFailed \/ WorkerSteps \/ \E slot \in Slots : WorkerFires(slot)
  BY <1>6 DEF WorkerFailed, WorkerSteps, WorkerFires, page
<1>. QED  BY <1>1, <1>2, <1>3, <1>4, <1>5, <1>6 DEF NextSession

\* Every step of the composition is a step of the worker or leaves it alone.
LEMMA SessionWorks ==
    ASSUME ChannelTyped, NextSession
    PROVE  [Next]_vars
<1>1. CASE PageAdvances
  BY <1>1 DEF PageAdvances, StartPage, Prepared, PreparationFailed, ReceiveEvent
<1>2. CASE VisibilityChange \/ DisposePage \/ WorkerFailed \/ \E command \in UserCommands : UserPosts(command)
  BY <1>2 DEF VisibilityChange, DisposePage, WorkerFailed, UserPosts
<1>3. CASE DeliverCommand
  <2>1. Head(channel) \in PageCommands
    BY <1>3 DEF DeliverCommand, ChannelTyped
  <2>2. Head(channel) \in Commands
    BY <2>1, SessionAssumption DEF PageCommands
  <2>. QED  BY <1>3, <2>2 DEF DeliverCommand, RefusedAtReceipt, Next
<1>4. CASE \E slot \in Slots : WorkerFires(slot)
  BY <1>4 DEF WorkerFires, Next
<1>5. CASE WorkerSteps
  <2>1. \A clock, accepted :
            AuthorizationRedirected \/ StepWithinPage(clock, accepted) =>
                StartWork(clock, accepted) \/ Answer(clock, accepted)
    BY DEF StepWithinPage, Answer, AnswerAuthorization
  <2>. QED  BY <1>5, <2>1 DEF WorkerSteps, Step, Next
<1>. QED  BY <1>1, <1>2, <1>3, <1>4, <1>5 DEF NextSession

\* The worker behind its page is the worker PlaybackWorker specifies: the page
\* adds no behaviour to it and what holds of every behaviour of the worker
\* holds of it here (application.ts, worker/entry.ts).
THEOREM WorkerImplemented == SessionSpec => Spec
<1>1. InitSession => ChannelTyped /\ Init
  BY DEF InitSession, ChannelTyped, Applications
<1>2. ChannelTyped /\ [NextSession]_sessionVars => ChannelTyped'
  BY ChannelTypedInductive DEF ChannelTyped, sessionVars, page
<1>3. ChannelTyped /\ [NextSession]_sessionVars => [Next]_vars
  BY SessionWorks DEF sessionVars
<1>. QED  BY <1>1, <1>2, <1>3, PTL DEF SessionSpec, Spec

\* In particular, behind a page that is hidden, shown, left and clicked at any
\* moment, a suspended worker is quiet and a credential is in memory only while
\* the display is signed in.
THEOREM WorkerSafeBehindPage == SessionSpec => [](QuietWhenSuspended /\ CredentialMatchesState)
BY WorkerImplemented, QuietWhenSuspendedTheorem, CredentialMatchesStateTheorem, PTL

-----------------------------------------------------------------------------
(***************************************************************************)
(* What an ordered log still has to say: its last entry outside `ignored'  *)
(* is one of `wanted', with everything after it ignored.                   *)
(***************************************************************************)
Silent(log, ignored) == \A j \in 1..Len(log) : log[j] \in ignored

Closes(log, wanted, ignored) ==
    \E i \in 1..Len(log) :
        log[i] \in wanted /\ \A j \in (i + 1)..Len(log) : log[j] \in ignored

LEMMA SilentTail ==
    ASSUME NEW S, NEW log \in Seq(S), NEW ignored, log # <<>>, Silent(log, ignored)
    PROVE  Head(log) \in ignored /\ Silent(Tail(log), ignored)
BY DEF Silent

LEMMA ClosesTail ==
    ASSUME NEW S, NEW log \in Seq(S), NEW wanted, NEW ignored, log # <<>>,
           Closes(log, wanted, ignored)
    PROVE  \/ Closes(Tail(log), wanted, ignored)
           \/ Head(log) \in wanted /\ Silent(Tail(log), ignored)
<1>1. PICK i \in 1..Len(log) :
          log[i] \in wanted /\ \A j \in (i + 1)..Len(log) : log[j] \in ignored
  BY DEF Closes
<1>2. CASE i = 1
  BY <1>1, <1>2 DEF Silent
<1>3. CASE i > 1
  <2>1. i - 1 \in 1..Len(Tail(log)) /\ Tail(log)[i - 1] = log[i]
    BY <1>3
  <2>2. \A j \in ((i - 1) + 1)..Len(Tail(log)) : Tail(log)[j] \in ignored
    BY <1>1, <1>3
  <2>. QED  BY <1>1, <2>1, <2>2 DEF Closes
<1>. QED  BY <1>2, <1>3

LEMMA ClosesAppend ==
    ASSUME NEW S, NEW log \in Seq(S), NEW entry \in S, NEW wanted, NEW ignored
    PROVE  /\ entry \in wanted => Closes(Append(log, entry), wanted, ignored)
           /\ entry \in ignored /\ Closes(log, wanted, ignored)
                => Closes(Append(log, entry), wanted, ignored)
           /\ entry \in ignored /\ Silent(log, ignored) => Silent(Append(log, entry), ignored)
<1>1. ASSUME entry \in wanted PROVE Closes(Append(log, entry), wanted, ignored)
  <2>1. Len(log) + 1 \in 1..Len(Append(log, entry)) /\ Append(log, entry)[Len(log) + 1] = entry
    OBVIOUS
  <2>. QED  BY <1>1, <2>1 DEF Closes
<1>2. ASSUME entry \in ignored, Closes(log, wanted, ignored)
      PROVE  Closes(Append(log, entry), wanted, ignored)
  <2>1. PICK i \in 1..Len(log) :
            log[i] \in wanted /\ \A j \in (i + 1)..Len(log) : log[j] \in ignored
    BY <1>2 DEF Closes
  <2>2. i \in 1..Len(Append(log, entry)) /\ Append(log, entry)[i] \in wanted
    BY <2>1
  <2>3. \A j \in (i + 1)..Len(Append(log, entry)) : Append(log, entry)[j] \in ignored
    BY <1>2, <2>1
  <2>. QED  BY <2>2, <2>3 DEF Closes
<1>3. ASSUME entry \in ignored, Silent(log, ignored) PROVE Silent(Append(log, entry), ignored)
  BY <1>3 DEF Silent
<1>. QED  BY <1>1, <1>2, <1>3

-----------------------------------------------------------------------------
(***************************************************************************)
(* What the page shows.  Its snapshot lags behind the worker's state by    *)
(* the messages on their way; the last of them that is not a redirect says *)
(* the state the worker is in.                                             *)
(***************************************************************************)
Messages == PlaybackStates \cup {Fatal, Redirect}

Latest == {playback, Fatal}

EventsTold ==
    /\ events \in Seq(Messages)
    /\ application = "not-started" => events = <<>> /\ snapshot \in Latest
    /\ HasWorker => \/ Closes(events, Latest, {Redirect})
                    \/ snapshot \in Latest /\ Silent(events, {Redirect})

LEMMA RedirectIsNoState == TypeOK => Redirect \notin Latest
<1>1. \A state \in PlaybackStates : state.kind # "authorization-redirect"
  BY DEF PlaybackStates, PlaybackKinds
<1>2. Redirect.kind = "authorization-redirect" /\ Fatal.kind = "fatal"
  BY DEF Redirect, Fatal
<1>. QED  BY <1>1, <1>2 DEF TypeOK, Latest

\* A worker step that says what it changed leaves nothing unsaid.
LEMMA EmittingTells ==
    ASSUME EventsTold, HasWorker, TypeOK', Emitting, UNCHANGED <<application, snapshot>>
    PROVE  EventsTold'
<1>. USE DEF EventsTold, HasWorker
<1>1. playback' \in Messages /\ Fatal \in Messages
  BY DEF TypeOK, Messages
<1>2. ASSUME NEW entry \in Latest', PostEvent(entry) PROVE EventsTold'
  <2>1. entry \in Messages
    BY <1>1, <1>2 DEF Latest
  <2>2. Closes(events', Latest', {Redirect})
    BY <1>2, <2>1, ClosesAppend DEF PostEvent
  <2>. QED  BY <1>2, <2>1, <2>2 DEF PostEvent
<1>3. CASE UNCHANGED <<events, playback>>
  BY <1>3 DEF Latest
<1>. QED  BY <1>2, <1>3 DEF Emitting, Latest

\* The page takes the messages in their order.
LEMMA ReceivingTells ==
    ASSUME EventsTold, TypeOK, ReceiveEvent
    PROVE  EventsTold'
<1>. USE DEF EventsTold, HasWorker
<1>1. /\ events # <<>> /\ events' = Tail(events) /\ events' \in Seq(Messages)
      /\ HasWorker /\ Latest' = Latest /\ application' = application
  BY DEF ReceiveEvent, vars, connection, Latest
<1>2. CASE Head(events) = Redirect
  <2>1. snapshot' \in {snapshot, Fatal}
    BY <1>2 DEF ReceiveEvent
  <2>2. Head(events) \notin Latest
    BY <1>2, RedirectIsNoState
  <2>3. Fatal \in Latest
    BY DEF Latest
  <2>4. CASE Closes(events, Latest, {Redirect})
    <3>1. Closes(events', Latest, {Redirect})
      BY <1>1, <2>2, <2>4, ClosesTail
    <3>. QED  BY <1>1, <3>1
  <2>5. CASE snapshot \in Latest /\ Silent(events, {Redirect})
    <3>1. Silent(events', {Redirect})
      BY <1>1, <2>5, SilentTail
    <3>. QED  BY <1>1, <2>1, <2>3, <2>5, <3>1
  <2>. QED  BY <1>1, <2>4, <2>5
<1>3. CASE Head(events) # Redirect
  <2>1. snapshot' = Head(events)
    BY <1>3 DEF ReceiveEvent
  <2>2. ~Silent(events, {Redirect})
    BY <1>1, <1>3, SilentTail
  <2>. QED  BY <1>1, <2>1, <2>2, ClosesTail
<1>. QED  BY <1>2, <1>3

LEMMA EventsToldInductive ==
    ASSUME EventsTold, TypeOK, TypeOK', NextSession
    PROVE  EventsTold'
<1>. USE DEF EventsTold, HasWorker
<1>1. CASE StartPage \/ PreparationFailed
  <2>1. Silent(<<>>, {Redirect})
    BY DEF Silent
  <2>2. Latest' = Latest /\ UNCHANGED events /\ Fatal \in Latest
    BY <1>1 DEF StartPage, PreparationFailed, vars, connection, Latest
  <2>3. CASE StartPage
    BY <2>1, <2>2, <2>3 DEF StartPage
  <2>4. CASE PreparationFailed
    BY <2>2, <2>4 DEF PreparationFailed
  <2>. QED  BY <1>1, <2>3, <2>4
<1>2. CASE Prepared \/ VisibilityChange \/ \E command \in UserCommands : UserPosts(command)
  BY <1>2 DEF Prepared, VisibilityChange, UserPosts, vars, connection, page, Latest
<1>3. CASE DisposePage
  BY <1>3 DEF DisposePage
<1>4. CASE WorkerFailed
  BY <1>4 DEF WorkerFailed, vars, connection, page, Latest
<1>5. CASE ReceiveEvent
  BY <1>5, ReceivingTells
<1>6. CASE DeliverCommand
  BY <1>6, EmittingTells DEF DeliverCommand, page
<1>7. CASE \E slot \in Slots : WorkerFires(slot)
  BY <1>7 DEF WorkerFires, Fire, page, Latest
<1>8. CASE WorkerSteps
  <2>1. CASE Emitting
    BY <1>8, <2>1, EmittingTells DEF WorkerSteps, page
  <2>2. CASE AuthorizationRedirected /\ PostEvent(Redirect)
    <3>1. Redirect \in Messages /\ Latest' = Latest
      BY <2>2 DEF AuthorizationRedirected, connection, Messages, Latest
    <3>2. /\ Closes(events, Latest, {Redirect}) => Closes(events', Latest, {Redirect})
          /\ Silent(events, {Redirect}) => Silent(events', {Redirect})
      BY <2>2, <3>1, ClosesAppend DEF PostEvent
    <3>. QED  BY <1>8, <2>2, <3>1, <3>2 DEF WorkerSteps, PostEvent, page
  <2>. QED  BY <1>8, <2>1, <2>2 DEF WorkerSteps
<1>. QED  BY <1>1, <1>2, <1>3, <1>4, <1>5, <1>6, <1>7, <1>8 DEF NextSession, PageAdvances

\* A page that has received every message shows what the worker's state is, or
\* a fatal failure.
THEOREM SnapshotAgreesTheorem == SessionSpec => []SnapshotAgrees
<1>1. InitSession => EventsTold
  BY DEF InitSession, Init, EventsTold, HasWorker, Latest, Messages
<1>2. EventsTold /\ TypeOK /\ TypeOK' /\ [NextSession]_sessionVars => EventsTold'
  BY EventsToldInductive DEF EventsTold, HasWorker, Latest, sessionVars, page, vars, connection
<1>3. EventsTold => SnapshotAgrees
  BY DEF EventsTold, Closes, SnapshotAgrees, Latest
<1>. QED  BY <1>1, <1>2, <1>3, WorkerImplemented, TypeCorrect, PTL DEF SessionSpec

-----------------------------------------------------------------------------
(***************************************************************************)
(* What the worker believes of the page.  It hears of a change only when   *)
(* it is active, and is told anew only when something changes, so the      *)
(* agreement rests on the order of the channel: the page's word about its  *)
(* visibility comes after the initialize that makes the worker listen.     *)
(***************************************************************************)
Word == {Visibility(pageVisibility)}
Others == PageCommands \ {"hide", "show"}

\* The page's last word is still under way, behind an initialize.
Announced(log, word) ==
    \E i \in 1..Len(log) :
        /\ log[i] = "initialize"
        /\ \E k \in (i + 1)..Len(log) :
              log[k] \in word /\ \A j \in (k + 1)..Len(log) : log[j] \in Others

NeverInitialized ==
    /\ runtimeStatus = "awaiting-initialization"
    /\ \A i \in 1..Len(channel) : channel[i] # "initialize"
    /\ \A i \in 1..Len(queuedWork) : queuedWork[i] # "initialize"

\* A worker that awaits its initialization never waits for anything else.
IdleUntilActive ==
    runtimeStatus = "awaiting-initialization" =>
        Idle /\ activeOperation = NoOperation /\ visibility = "visible"

VisibilityTold ==
    /\ IdleUntilActive
    /\ application \in {"not-started", "preparing"} => NeverInitialized
    /\ application = "ready" /\ runtimeStatus = "awaiting-initialization" =>
          \/ Announced(channel, Word)
          \/ queuedWork = <<"initialize">> /\ Closes(channel, Word, Others)
    /\ application = "ready" /\ runtimeStatus = "active" =>
          \/ Closes(channel, Word, Others)
          \/ visibility = pageVisibility /\ Silent(channel, Others)

LEMMA AnnouncedTail ==
    ASSUME NEW S, NEW log \in Seq(S), NEW word, log # <<>>, Announced(log, word)
    PROVE  \/ Announced(Tail(log), word)
           \/ Head(log) = "initialize" /\ Closes(Tail(log), word, Others)
<1>0. PICK i \in 1..Len(log) :
          /\ log[i] = "initialize"
          /\ \E k \in (i + 1)..Len(log) :
                log[k] \in word /\ \A j \in (k + 1)..Len(log) : log[j] \in Others
  BY DEF Announced
<1>1. PICK k \in (i + 1)..Len(log) :
          log[k] \in word /\ \A j \in (k + 1)..Len(log) : log[j] \in Others
  BY <1>0
<1>2. k - 1 \in i..Len(Tail(log)) /\ Tail(log)[k - 1] = log[k]
  OBVIOUS
<1>3. \A j \in ((k - 1) + 1)..Len(Tail(log)) : Tail(log)[j] \in Others
  BY <1>1
<1>4. CASE i = 1
  BY <1>0, <1>1, <1>2, <1>3, <1>4 DEF Closes
<1>5. CASE i > 1
  <2>. DEFINE rest == Tail(log)
  <2>1. i - 1 \in 1..Len(rest) /\ rest[i - 1] = "initialize"
    BY <1>0, <1>5
  <2>2. k - 1 \in ((i - 1) + 1)..Len(rest) /\ rest[k - 1] \in word
    BY <1>1, <1>2
  <2>3. \A j \in ((k - 1) + 1)..Len(rest) : rest[j] \in Others
    BY <1>3
  <2>4. Announced(rest, word)
    <3>. HIDE DEF rest
    <3>. QED  BY <2>1, <2>2, <2>3 DEF Announced
  <2>. QED  BY <2>4
<1>. QED  BY <1>4, <1>5

LEMMA AnnouncedCloses ==
    ASSUME NEW log, NEW word, Len(log) \in Nat, Announced(log, word)
    PROVE  Closes(log, word, Others)
BY DEF Announced, Closes

\* What is no word about visibility leaves the last one, and a new one takes
\* the place of the one before it.
LEMMA AnnouncedAppend ==
    ASSUME NEW S, NEW log \in Seq(S), NEW entry \in Others \cap S, NEW word, Announced(log, word)
    PROVE  Announced(Append(log, entry), word)
<1>. DEFINE longer == Append(log, entry)
<1>0. PICK i \in 1..Len(log) :
          /\ log[i] = "initialize"
          /\ \E k \in (i + 1)..Len(log) :
                log[k] \in word /\ \A j \in (k + 1)..Len(log) : log[j] \in Others
  BY DEF Announced
<1>1. PICK k \in (i + 1)..Len(log) :
          log[k] \in word /\ \A j \in (k + 1)..Len(log) : log[j] \in Others
  BY <1>0
<1>2. i \in 1..Len(longer) /\ longer[i] = "initialize"
  BY <1>0
<1>3. k \in (i + 1)..Len(longer) /\ longer[k] \in word
  BY <1>1
<1>4. \A j \in (k + 1)..Len(longer) : longer[j] \in Others
  BY <1>1
<1>. HIDE DEF longer
<1>5. Announced(longer, word)
  BY <1>2, <1>3, <1>4 DEF Announced
<1>. QED  BY <1>5 DEF longer

LEMMA AnnouncedAnew ==
    ASSUME NEW S, NEW log \in Seq(S), NEW entry \in S, NEW word, NEW oldWord,
           Announced(log, oldWord), entry \in word
    PROVE  Announced(Append(log, entry), word)
<1>. DEFINE longer == Append(log, entry)
<1>1. PICK i \in 1..Len(log) : log[i] = "initialize"
  BY DEF Announced
<1>2. i \in 1..Len(longer) /\ longer[i] = "initialize"
  BY <1>1
<1>3. Len(longer) \in (i + 1)..Len(longer) /\ longer[Len(longer)] \in word
  OBVIOUS
<1>4. \A j \in (Len(longer) + 1)..Len(longer) : longer[j] \in Others
  OBVIOUS
<1>. HIDE DEF longer
<1>5. Announced(longer, word)
  BY <1>2, <1>3, <1>4 DEF Announced
<1>. QED  BY <1>5 DEF longer

\* What the worker's own steps do to its session.
LEMMA StepFacts ==
    ASSUME TypeOK, Step
    PROVE  /\ visibility' = visibility
           /\ runtimeStatus # "awaiting-initialization" => runtimeStatus' = runtimeStatus
           /\ runtimeStatus = "awaiting-initialization" /\ Idle =>
                 /\ queuedWork # <<>> /\ queuedWork' = Tail(queuedWork)
                 /\ runtimeStatus' = "awaiting-initialization" =>
                       Idle' /\ activeOperation' = activeOperation
                 /\ runtimeStatus' = "awaiting-initialization" <=> Head(queuedWork) # "initialize"
<1>. USE DEF IsRuntimeActive, CanPerformNetworkWork
<1>1. ASSUME NEW clock, NEW accepted, RecoverConnection(clock, accepted)
      PROVE  UNCHANGED session /\ (~CanPerformNetworkWork => UNCHANGED operation)
  BY <1>1 DEF RecoverConnection, MayRecover
<1>2. ASSUME NEW clock, NEW accepted, StartWork(clock, accepted)
      PROVE  /\ visibility' = visibility
             /\ queuedWork # <<>> /\ queuedWork' = Tail(queuedWork)
             /\ runtimeStatus # "awaiting-initialization" => runtimeStatus' = runtimeStatus
             /\ runtimeStatus = "awaiting-initialization" /\ Idle =>
                   /\ runtimeStatus' = "awaiting-initialization" =>
                       Idle' /\ activeOperation' = activeOperation
                   /\ runtimeStatus' = "awaiting-initialization" <=> Head(queuedWork) # "initialize"
  <2>1. ASSUME NEW valid, StartInitialize(valid)
        PROVE  /\ visibility' = visibility /\ Dequeue("initialize")
               /\ runtimeStatus # "awaiting-initialization" => runtimeStatus' = runtimeStatus
               /\ runtimeStatus = "awaiting-initialization" => runtimeStatus' # runtimeStatus
    BY <2>1 DEF StartInitialize, Ignore, session
  <2>2. ASSUME ~\E valid \in BOOLEAN : StartInitialize(valid)
        PROVE  /\ UNCHANGED session
               /\ \E work : work # "initialize" /\ Dequeue(work)
               /\ ~IsRuntimeActive => UNCHANGED <<frame, activeOperation>>
    BY <1>1, <1>2, <2>2
       DEF StartWork, StartBeginAuthorization, StartConsumeCallback, StartRecover,
           StartScheduledRefresh, StartLogout, Ignore, session, operation
  <2>. QED  BY <2>1, <2>2 DEF Dequeue, Idle, session
<1>3. ASSUME NEW clock, NEW accepted, Answer(clock, accepted)
      PROVE  UNCHANGED session /\ ~Idle
  <2>1. ASSUME NEW points, points \subseteq OperationPoints, Awaiting(points)
        PROVE  UNCHANGED session /\ ~Idle
    BY <2>1 DEF Awaiting, Idle, IdleFrame, OperationPoints, RefreshPoints, PollPoints
  <2>2. {"begin"} \subseteq OperationPoints /\ {"begin", "callback"} \subseteq OperationPoints
        /\ RefreshPoints \subseteq OperationPoints /\ PollPoints \subseteq OperationPoints
        /\ {"refresh-then-poll", "refresh-then-wait"} \subseteq OperationPoints
        /\ {"refresh-after-unauthorized"} \subseteq OperationPoints
    BY DEF OperationPoints, RefreshPoints
  <2>3. StaleAnswer \/ LogoutSettled => UNCHANGED session /\ ~Idle
    BY DEF StaleAnswer, LogoutSettled, Idle, IdleFrame, OperationPoints, RefreshPoints, PollPoints
  <2>. QED
    BY <1>3, <2>1, <2>2, <2>3
       DEF Answer, AnswerAuthorization, AnswerRefresh, AnswerPoll,
           AuthorizationRedirected, AuthorizationConnected, AuthorizationRefused,
           RefreshUnusable, RefreshedForUse, RefreshedAfterUnauthorized,
           RefreshRefused, RefreshDeferred, RefreshFailed, PolledEmpty,
           PolledPlayback, PollFailed, PollDeferred, PollDenied, PollUnauthorized
<1>. QED  BY <1>2, <1>3 DEF Step, session

\* What the page does: it speaks, and it speaks of its visibility last.
LEMMA PageTells ==
    ASSUME VisibilityTold, ChannelTyped, UNCHANGED vars,
           \/ PageAdvances \/ VisibilityChange \/ DisposePage \/ WorkerFailed
           \/ \E command \in UserCommands : UserPosts(command)
    PROVE  VisibilityTold'
<1>. USE DEF VisibilityTold, HasWorker
<1>1. /\ IdleUntilActive' /\ UNCHANGED <<runtimeStatus, visibility, queuedWork>>
      /\ channel \in Seq(PageCommands)
  BY DEF vars, session, operation, IdleUntilActive, Idle, ChannelTyped
<1>. DEFINE added(entry) == Append(channel, entry)
<1>2. ASSUME NEW entry \in PageCommands, entry # "initialize", NeverInitialized, channel' = added(entry)
      PROVE  NeverInitialized'
  BY <1>1, <1>2 DEF NeverInitialized
<1>3. CASE StartPage \/ PreparationFailed \/ ReceiveEvent \/ WorkerFailed
  <2>1. UNCHANGED <<channel, pageVisibility>>
        /\ (application' = application \/ application' \in {"preparing", "unconfigured"})
        /\ (application' = "preparing" => application \in {"not-started", "preparing"})
    BY <1>3 DEF StartPage, PreparationFailed, ReceiveEvent, WorkerFailed, page
  <2>2. Word' = Word /\ (NeverInitialized => NeverInitialized')
    BY <1>1, <2>1 DEF Word, Visibility, NeverInitialized
  <2>. QED  BY <1>1, <2>1, <2>2
<1>4. CASE Prepared
  <2>1. /\ application' = "ready" /\ runtimeStatus' = "awaiting-initialization" /\ Word' = Word
        /\ channel' = channel \o Append(StartupCommands, Visibility(pageVisibility))
    BY <1>1, <1>4 DEF Prepared, PostCommands, NeverInitialized, Word, Visibility
  <2>. DEFINE posted == Append(StartupCommands, Visibility(pageVisibility))
  <2>2. /\ Len(posted) \in 2..3 /\ posted[1] = "initialize" /\ posted[Len(posted)] \in Word
        /\ posted \in Seq(PageCommands)
    <3>1. posted \in Seq(PageCommands)
      BY StartupTyped
    <3>. QED  BY <3>1 DEF StartupCommands, Word
  <2>3. Announced(channel \o posted, Word)
    <3>. HIDE DEF posted
    <3>1. /\ Len(channel) + 1 \in 1..Len(channel \o posted)
          /\ (channel \o posted)[Len(channel) + 1] = "initialize"
      BY <1>1, <2>2
    <3>2. /\ Len(channel) + Len(posted) \in ((Len(channel) + 1) + 1)..Len(channel \o posted)
          /\ (channel \o posted)[Len(channel) + Len(posted)] \in Word
      BY <1>1, <2>2
    <3>3. Len(channel \o posted) = Len(channel) + Len(posted)
      BY <1>1, <2>2
    <3>. QED  BY <3>1, <3>2, <3>3 DEF Announced
  <2>. QED  BY <1>1, <2>1, <2>3
<1>5. CASE VisibilityChange
  <2>1. CASE HasWorker
    <3>1. /\ channel' = added(Visibility(pageVisibility')) /\ application' = application
          /\ Visibility(pageVisibility') \in PageCommands \ {"initialize"}
          /\ Visibility(pageVisibility') \in Word'
      BY <1>1, <1>5, <2>1 DEF VisibilityChange, PostCommands, Visibility, PageCommands, Word
    <3>2. Closes(channel', Word', Others)
      BY <1>1, <3>1, ClosesAppend
    <3>3. Announced(channel, Word) => Announced(channel', Word')
      BY <1>1, <3>1, AnnouncedAnew
    <3>. QED  BY <1>1, <1>2, <2>1, <3>1, <3>2, <3>3
  <2>2. CASE ~HasWorker
    <3>1. UNCHANGED <<channel, application>>
      BY <1>5, <2>2 DEF VisibilityChange
    <3>2. NeverInitialized => NeverInitialized'
      BY <1>1, <3>1 DEF NeverInitialized
    <3>. QED  BY <1>1, <2>2, <3>1, <3>2
  <2>. QED  BY <2>1, <2>2
<1>6. ASSUME NEW command \in UserCommands, UserPosts(command) PROVE VisibilityTold'
  <2>1. /\ channel' = added(command) /\ UNCHANGED <<application, pageVisibility>>
        /\ command \in Others /\ command \in PageCommands /\ command # "initialize"
    BY <1>1, <1>6, SessionAssumption DEF UserPosts, PostCommands, page, Others, PageCommands
  <2>2. Word' = Word
    BY <2>1 DEF Word, Visibility
  <2>3. /\ Closes(channel, Word, Others) => Closes(channel', Word, Others)
        /\ Silent(channel, Others) => Silent(channel', Others)
    BY <1>1, <2>1, ClosesAppend
  <2>4. Announced(channel, Word) => Announced(channel', Word)
    BY <1>1, <2>1, AnnouncedAppend
  <2>. QED  BY <1>1, <1>2, <2>1, <2>2, <2>3, <2>4
<1>7. CASE DisposePage
  BY <1>1, <1>7 DEF DisposePage
<1>. QED  BY <1>3, <1>4, <1>5, <1>6, <1>7 DEF PageAdvances

\* What the worker hears, in the order it was said.
LEMMA DeliveryTells ==
    ASSUME VisibilityTold, ChannelTyped, TypeOK, DeliverCommand
    PROVE  VisibilityTold'
<1>. USE DEF VisibilityTold, HasWorker
<1>. DEFINE command == Head(channel)
<1>1. /\ channel # <<>> /\ channel \in Seq(PageCommands) /\ channel' = Tail(channel)
      /\ UNCHANGED <<application, pageVisibility>> /\ application # "not-started"
      /\ command \in PageCommands /\ command # "dispose" /\ Word' = Word
      /\ Receive(command) \/ RefusedAtReceipt(command)
  BY SessionAssumption DEF DeliverCommand, ChannelTyped, PageCommands, page, Word, Visibility
<1>2. /\ runtimeStatus' = runtimeStatus
      /\ command \notin {"hide", "show"} \/ ~IsRuntimeActive => visibility' = visibility
      /\ command = "hide" /\ IsRuntimeActive => visibility' = "hidden"
      /\ command = "show" /\ IsRuntimeActive => visibility' = "visible"
  BY <1>1 DEF Receive, RefusedAtReceipt, ReceiveQueued, ReceiveCancelling, ReceiveHide, ReceiveShow,
              ReceiveLogout, ReceiveDispose, session, vars
<1>3. CASE runtimeStatus = "awaiting-initialization"
  <2>1. Idle /\ queuedWork = <<>>
    BY <1>3 DEF DeliverCommand, AtTaskBoundary, IdleUntilActive
  <2>2. Idle' /\ activeOperation' = NoOperation
    BY <1>1, <1>3, <2>1
       DEF Receive, RefusedAtReceipt, ReceiveQueued, ReceiveCancelling, ReceiveHide, ReceiveShow,
           ReceiveLogout, ReceiveDispose, CancelRuntimeWork, CancelActiveOperation, IsRuntimeActive,
           operation, vars, Idle, IdleUntilActive
  <2>3. IdleUntilActive'
    BY <1>2, <1>3, <2>2 DEF IdleUntilActive, IsRuntimeActive
  <2>4. command = "initialize" => queuedWork' = <<"initialize">>
    BY <1>1, <2>1 DEF Receive, RefusedAtReceipt, ReceiveQueued, Enqueue
  <2>5. command # "initialize" => \A i \in 1..Len(queuedWork') : queuedWork'[i] # "initialize"
    BY <1>1, <1>3, <2>1
       DEF Receive, RefusedAtReceipt, ReceiveQueued, ReceiveCancelling, ReceiveHide, ReceiveShow,
           ReceiveLogout, ReceiveDispose, Enqueue, IsRuntimeActive, vars
  <2>6. CASE application = "preparing"
    <3>1. command # "initialize" /\ \A i \in 1..Len(channel') : channel'[i] # "initialize"
      BY <1>1, <2>6 DEF NeverInitialized
    <3>. QED  BY <1>1, <1>2, <1>3, <2>3, <2>5, <2>6, <3>1 DEF NeverInitialized
  <2>7. CASE application = "ready"
    <3>1. Announced(channel, Word)
      BY <1>3, <2>1, <2>7
    <3>2. \/ Announced(channel', Word)
          \/ command = "initialize" /\ Closes(channel', Word, Others)
      BY <1>1, <3>1, AnnouncedTail
    <3>. QED  BY <1>1, <1>2, <1>3, <2>3, <2>4, <2>7, <3>2
  <2>. QED  BY <1>1, <1>2, <1>3, <2>3, <2>6, <2>7
<1>4. CASE runtimeStatus = "active"
  <2>1. IdleUntilActive' /\ application \notin {"not-started", "preparing"}
    BY <1>2, <1>4 DEF IdleUntilActive, NeverInitialized
  <2>2. command \in Word => visibility' = pageVisibility
    BY <1>2, <1>4 DEF Word, Visibility, IsRuntimeActive, ChannelTyped
  <2>3. command \in Others => visibility' = visibility
    BY <1>2 DEF Others
  <2>4. CASE Closes(channel, Word, Others)
    BY <1>1, <1>2, <1>4, <2>1, <2>2, <2>4, ClosesTail
  <2>5. CASE visibility = pageVisibility /\ Silent(channel, Others)
    BY <1>1, <1>2, <1>4, <2>1, <2>3, <2>5, SilentTail
  <2>. QED  BY <1>1, <1>2, <1>4, <2>1, <2>4, <2>5
<1>5. CASE runtimeStatus \notin {"awaiting-initialization", "active"}
  BY <1>1, <1>2, <1>5 DEF IdleUntilActive, NeverInitialized
<1>. QED  BY <1>3, <1>4, <1>5

LEMMA VisibilityToldInductive ==
    ASSUME VisibilityTold, ChannelTyped, TypeOK, NextSession
    PROVE  VisibilityTold'
<1>. USE DEF VisibilityTold, HasWorker
<1>1. CASE PageAdvances \/ VisibilityChange \/ DisposePage \/ WorkerFailed
           \/ \E command \in UserCommands : UserPosts(command)
  <2>1. UNCHANGED vars
    BY <1>1 DEF PageAdvances, StartPage, Prepared, PreparationFailed, ReceiveEvent,
                VisibilityChange, DisposePage, WorkerFailed, UserPosts
  <2>. QED  BY <1>1, <2>1, PageTells
<1>2. CASE DeliverCommand
  BY <1>2, DeliveryTells
<1>3. ASSUME UNCHANGED <<application, pageVisibility, channel>>, HasWorker,
             visibility' = visibility
      PROVE  Word' = Word /\ application # "not-started"
  BY <1>3 DEF Word, Visibility
<1>4. ASSUME NEW slot \in Slots, WorkerFires(slot) PROVE VisibilityTold'
  <2>1. /\ UNCHANGED <<application, pageVisibility, channel, runtimeStatus, visibility, frame, activeOperation>>
        /\ HasWorker
        /\ runtimeStatus = "awaiting-initialization" => UNCHANGED queuedWork
    BY <1>4 DEF WorkerFires, Fire, page, session, operation, CanPerformNetworkWork, IsRuntimeActive
  <2>. QED  BY <1>3, <2>1 DEF IdleUntilActive, Idle, NeverInitialized
<1>5. CASE WorkerSteps
  <2>1. Step /\ HasWorker /\ UNCHANGED <<application, pageVisibility, channel>>
    <3>1. \A clock, accepted :
              AuthorizationRedirected \/ StepWithinPage(clock, accepted) =>
                  StartWork(clock, accepted) \/ Answer(clock, accepted)
      BY DEF StepWithinPage, Answer, AnswerAuthorization
    <3>. QED  BY <1>5, <3>1 DEF WorkerSteps, Step, page
  <2>2. Word' = Word /\ visibility' = visibility /\ application' = application
    BY <1>3, <2>1, StepFacts
  <2>3. CASE runtimeStatus # "awaiting-initialization"
    BY <2>1, <2>2, <2>3, StepFacts DEF IdleUntilActive, NeverInitialized
  <2>4. CASE runtimeStatus = "awaiting-initialization"
    <3>1. /\ queuedWork # <<>> /\ queuedWork' = Tail(queuedWork) /\ queuedWork \in Seq(Works)
          /\ runtimeStatus' = "awaiting-initialization" => Idle' /\ activeOperation' = NoOperation
          /\ runtimeStatus' = "awaiting-initialization" <=> Head(queuedWork) # "initialize"
      BY <2>1, <2>4, StepFacts DEF IdleUntilActive, TypeOK
    <3>2. IdleUntilActive'
      BY <2>2, <2>4, <3>1 DEF IdleUntilActive
    <3>3. NeverInitialized => NeverInitialized'
      BY <2>1, <3>1 DEF NeverInitialized
    <3>4. application = "ready" => Closes(channel, Word, Others)
      BY <2>4, AnnouncedCloses DEF ChannelTyped
    <3>5. application = "ready" /\ runtimeStatus' = "awaiting-initialization" => Announced(channel, Word)
      BY <2>4, <3>1
    <3>. QED  BY <2>1, <2>2, <3>2, <3>3, <3>4, <3>5
  <2>. QED  BY <2>3, <2>4
<1>. QED  BY <1>1, <1>2, <1>4, <1>5 DEF NextSession

\* An initialized worker that has received every command believes the page
\* exactly as visible as it is, although it ignored what it heard before.
THEOREM VisibilityAgreesTheorem == SessionSpec => []VisibilityAgrees
<1>1. InitSession => VisibilityTold /\ ChannelTyped
  BY DEF InitSession, Init, VisibilityTold, IdleUntilActive, NeverInitialized, Idle, IdleFrame,
         ChannelTyped, Applications
<1>2. ChannelTyped /\ [NextSession]_sessionVars => ChannelTyped'
  BY ChannelTypedInductive DEF ChannelTyped, sessionVars, page
<1>3. VisibilityTold /\ ChannelTyped /\ TypeOK /\ [NextSession]_sessionVars => VisibilityTold'
  <2>1. ASSUME VisibilityTold, UNCHANGED sessionVars PROVE VisibilityTold'
    BY <2>1 DEF VisibilityTold, IdleUntilActive, NeverInitialized, Idle, Word, Visibility,
                sessionVars, vars, page, session, operation
  <2>. QED  BY <2>1, VisibilityToldInductive
<1>4. VisibilityTold => VisibilityAgrees
  BY DEF VisibilityTold, VisibilityAgrees, Closes
<1>. QED  BY <1>1, <1>2, <1>3, <1>4, WorkerImplemented, TypeCorrect, PTL DEF SessionSpec

\* What is left of HiddenPageFallsSilent once its worker has heard of the hiding:
\* no timer, and no request that is not aborted, whatever was under way.
THEOREM HiddenPageIsSilent ==
    SessionSpec => []((application = "ready" /\ channel = <<>> /\ pageVisibility = "hidden") =>
                          /\ scheduled = {}
                          /\ frame.at \in RefreshPoints \cup PollPoints => frame.aborted)
<1>1. VisibilityAgrees /\ QuietWhenSuspended =>
          ((application = "ready" /\ channel = <<>> /\ pageVisibility = "hidden") =>
               /\ scheduled = {}
               /\ frame.at \in RefreshPoints \cup PollPoints => frame.aborted)
  BY DEF VisibilityAgrees, QuietWhenSuspended, CanPerformNetworkWork, IsRuntimeActive
<1>. QED  BY <1>1, VisibilityAgreesTheorem, WorkerSafeBehindPage, PTL

-----------------------------------------------------------------------------
(***************************************************************************)
(* The page's sign-in callback does strand a connected worker, but never   *)
(* for good: the page posts it once, on starting up, and says how visible  *)
(* it is right behind it, which makes a visible worker recover.            *)
(***************************************************************************)
VisibilityWords == {"hide", "show"}

Recovering ==
    application # "disposed" =>
        /\ ConnectionGoesOn \/ \E i \in 1..Len(channel) : channel[i] \in VisibilityWords
        /\ \A i \in 1..Len(channel) :
              channel[i] = "consume-callback" =>
                  \E j \in (i + 1)..Len(channel) : channel[j] \in VisibilityWords

\* A page that posts ends with its visibility or posts no callback.
LEMMA PostingRecovers ==
    ASSUME NEW log \in Seq(PageCommands), NEW more \in Seq(PageCommands), more # <<>>,
           \/ more[Len(more)] \in VisibilityWords
           \/ \A i \in 1..Len(more) : more[i] # "consume-callback",
           \A i \in 1..Len(log) : log[i] = "consume-callback" =>
               \E j \in (i + 1)..Len(log) : log[j] \in VisibilityWords
    PROVE  /\ (\E i \in 1..Len(log) : log[i] \in VisibilityWords)
                => \E i \in 1..Len(log \o more) : (log \o more)[i] \in VisibilityWords
           /\ \A i \in 1..Len(log \o more) : (log \o more)[i] = "consume-callback" =>
                 \E j \in (i + 1)..Len(log \o more) : (log \o more)[j] \in VisibilityWords
<1>. DEFINE both == log \o more
<1>1. /\ Len(both) = Len(log) + Len(more) /\ Len(more) > 0
      /\ \A i \in 1..Len(log) : both[i] = log[i]
      /\ \A i \in 1..Len(more) : both[Len(log) + i] = more[i]
  OBVIOUS
<1>2. \A i \in (Len(log) + 1)..Len(both) : i - Len(log) \in 1..Len(more) /\ both[i] = more[i - Len(log)]
  BY <1>1
<1>3. Len(log) \in Nat /\ Len(more) \in Nat
  OBVIOUS
<1>. HIDE DEF both
<1>4. ASSUME NEW i \in 1..Len(both), both[i] = "consume-callback"
      PROVE  \E j \in (i + 1)..Len(both) : both[j] \in VisibilityWords
  <2>1. CASE i \in 1..Len(log)
    <3>1. PICK j \in (i + 1)..Len(log) : log[j] \in VisibilityWords
      BY <1>1, <1>4, <2>1
    <3>. QED  BY <1>1, <1>3, <2>1, <3>1
  <2>2. CASE i \notin 1..Len(log)
    <3>1. i \in (Len(log) + 1)..Len(both)
      BY <1>3, <2>2
    <3>2. i - Len(log) \in 1..Len(more) /\ more[i - Len(log)] = "consume-callback"
      BY <1>2, <1>4, <3>1
    <3>3. more[Len(more)] \in VisibilityWords
      BY <3>2
    <3>4. i # Len(both) /\ both[Len(both)] \in VisibilityWords
      BY <1>1, <1>2, <1>3, <1>4, <3>3 DEF VisibilityWords
    <3>5. Len(both) \in (i + 1)..Len(both)
      <4>1. Len(both) \in Nat /\ i \in Nat /\ i <= Len(both) /\ i # Len(both)
        BY <1>1, <1>3, <1>4, <3>4
      <4>. QED  BY <4>1
    <3>. QED  BY <3>4, <3>5
  <2>. QED  BY <2>1, <2>2
<1>. QED  BY <1>1, <1>3, <1>4 DEF both

\* What the worker receives: the word itself makes it recover, and the callback
\* has one behind it.
LEMMA DeliveryRecovers ==
    ASSUME Recovering, ChannelTyped, IInv, DeliverCommand
    PROVE  Recovering'
<1>1. /\ channel # <<>> /\ channel \in Seq(PageCommands) /\ channel' = Tail(channel)
      /\ application # "disposed" /\ application' = application
      /\ Receive(Head(channel)) \/ RefusedAtReceipt(Head(channel))
      /\ Head(channel) \in Commands
  <2>1. channel # <<>> /\ channel \in Seq(PageCommands)
    BY DEF DeliverCommand, ChannelTyped
  <2>2. Head(channel) \in PageCommands
    BY <2>1
  <2>3. Head(channel) \in Commands
    BY <2>2, SessionAssumption DEF PageCommands
  <2>. QED  BY <2>1, <2>3 DEF DeliverCommand, page, HasWorker
<1>2. /\ Len(channel') = Len(channel) - 1
      /\ \A i \in 1..Len(channel') : channel'[i] = channel[i + 1]
      /\ \A i \in 2..Len(channel) : i - 1 \in 1..Len(channel') /\ channel'[i - 1] = channel[i]
      /\ Head(channel) = channel[1] /\ 1 \in 1..Len(channel) /\ Len(channel) \in Nat
  BY <1>1
<1>3. \A i \in 1..Len(channel') : channel'[i] = "consume-callback" =>
          \E j \in (i + 1)..Len(channel') : channel'[j] \in VisibilityWords
  <2>. SUFFICES ASSUME NEW i \in 1..Len(channel'), channel'[i] = "consume-callback"
                PROVE  \E j \in (i + 1)..Len(channel') : channel'[j] \in VisibilityWords
    OBVIOUS
  <2>1. i + 1 \in 1..Len(channel) /\ channel[i + 1] = "consume-callback"
    BY <1>2
  <2>2. PICK j \in ((i + 1) + 1)..Len(channel) : channel[j] \in VisibilityWords
    BY <1>1, <2>1 DEF Recovering
  <2>3. j - 1 \in (i + 1)..Len(channel') /\ channel'[j - 1] \in VisibilityWords
    BY <1>2, <2>2
  <2>. QED  BY <2>3
<1>4. ASSUME NEW i \in 2..Len(channel), channel[i] \in VisibilityWords
      PROVE  \E j \in 1..Len(channel') : channel'[j] \in VisibilityWords
  BY <1>2, <1>4
<1>5. CASE Head(channel) \in VisibilityWords
  <2>1. ConnectionGoesOn'
    <3>1. CASE Receive(Head(channel))
      BY <1>1, <1>5, <3>1, ReceiveGoesOn DEF IInv, VisibilityWords
    <3>2. CASE RefusedAtReceipt(Head(channel))
      BY <3>2 DEF RefusedAtReceipt, vars, session, ConnectionGoesOn, CanPerformNetworkWork,
                  IsRuntimeActive
    <3>. QED  BY <1>1, <3>1, <3>2
  <2>. QED  BY <1>1, <1>3, <2>1 DEF Recovering
<1>6. CASE Head(channel) = "consume-callback"
  <2>1. PICK j \in (1 + 1)..Len(channel) : channel[j] \in VisibilityWords
    BY <1>1, <1>2, <1>6 DEF Recovering
  <2>. QED  BY <1>3, <1>4, <2>1 DEF Recovering
<1>7. CASE Head(channel) \notin VisibilityWords \cup {"consume-callback"}
  <2>1. CASE ConnectionGoesOn
    <3>1. ConnectionGoesOn'
      <4>1. CASE Receive(Head(channel))
        BY <1>1, <1>7, <2>1, <4>1, ReceiveGoesOn DEF IInv
      <4>2. CASE RefusedAtReceipt(Head(channel))
        BY <2>1, <4>2
           DEF RefusedAtReceipt, vars, connection, operation, session, ConnectionGoesOn,
               CanPerformNetworkWork, IsRuntimeActive, IsCurrentOperation
      <4>. QED  BY <1>1, <4>1, <4>2
    <3>. QED  BY <1>3, <3>1 DEF Recovering
  <2>2. CASE ~ConnectionGoesOn
    <3>1. PICK i \in 1..Len(channel) : channel[i] \in VisibilityWords
      BY <1>1, <2>2 DEF Recovering
    <3>2. i \in 2..Len(channel)
      BY <1>2, <1>7, <3>1
    <3>. QED  BY <1>3, <1>4, <3>1, <3>2 DEF Recovering
  <2>. QED  BY <2>1, <2>2
<1>. QED  BY <1>5, <1>6, <1>7

LEMMA RecoveringInductive ==
    ASSUME PlatformWorks, Recovering, ChannelTyped, IInv, NextSession
    PROVE  Recovering'
<1>1. ASSUME UNCHANGED vars PROVE ConnectionGoesOn' <=> ConnectionGoesOn
  BY <1>1 DEF vars, connection, operation, session, ConnectionGoesOn, CanPerformNetworkWork,
              IsRuntimeActive, IsCurrentOperation
<1>2. ASSUME UNCHANGED vars, application # "disposed", NEW more \in Seq(PageCommands), more # <<>>,
             channel' = channel \o more,
             \/ more[Len(more)] \in VisibilityWords
             \/ \A i \in 1..Len(more) : more[i] # "consume-callback"
      PROVE  Recovering'
  BY <1>1, <1>2, PostingRecovers DEF Recovering, ChannelTyped
<1>3. CASE Prepared
  <2>1. Visibility(pageVisibility) \in VisibilityWords
    BY DEF Visibility, VisibilityWords
  <2>2. Append(StartupCommands, Visibility(pageVisibility)) \in Seq(PageCommands)
        /\ StartupCommands \in Seq(PageCommands)
    BY StartupTyped
  <2>. DEFINE more == Append(StartupCommands, Visibility(pageVisibility))
  <2>3. more # <<>> /\ more[Len(more)] \in VisibilityWords
    BY <2>1, <2>2
  <2>. QED  BY <1>2, <1>3, <2>2, <2>3 DEF Prepared, PostCommands
<1>4. CASE VisibilityChange
  <2>1. CASE HasWorker
    <3>1. Visibility(pageVisibility') \in VisibilityWords
      BY DEF Visibility, VisibilityWords
    <3>2. <<Visibility(pageVisibility')>> \in Seq(PageCommands)
      BY StartupTyped
    <3>. QED  BY <1>2, <1>4, <2>1, <3>1, <3>2 DEF VisibilityChange, PostCommands, HasWorker
  <2>2. CASE ~HasWorker
    BY <1>1, <1>4, <2>2 DEF VisibilityChange, Recovering
  <2>. QED  BY <2>1, <2>2
<1>5. ASSUME NEW command \in UserCommands, UserPosts(command) PROVE Recovering'
  <2>1. command # "consume-callback" /\ command \in PageCommands
    BY SessionAssumption DEF PageCommands
  <2>2. /\ <<command>> \in Seq(PageCommands) /\ <<command>> # <<>>
        /\ \A i \in 1..Len(<<command>>) : <<command>>[i] # "consume-callback"
    BY <2>1
  <2>3. /\ UNCHANGED vars /\ application # "disposed"
        /\ channel' = channel \o <<command>>
    BY <1>5 DEF UserPosts, PostCommands, HasWorker
  <2>. QED  BY <1>2, <2>2, <2>3
<1>6. CASE StartPage \/ PreparationFailed \/ ReceiveEvent \/ WorkerFailed
  <2>1. UNCHANGED vars /\ UNCHANGED channel /\ application # "disposed"
    BY <1>6 DEF StartPage, PreparationFailed, ReceiveEvent, WorkerFailed, HasWorker
  <2>. QED  BY <1>1, <2>1 DEF Recovering
<1>7. CASE DisposePage
  BY <1>7 DEF DisposePage, Recovering
<1>8. CASE DeliverCommand
  BY <1>8, DeliveryRecovers
<1>9. CASE WorkerSteps \/ \E slot \in Slots : WorkerFires(slot)
  <2>1. UNCHANGED <<channel, application>> /\ (Step \/ \E slot \in Slots : Fire(slot))
    <3>1. \A clock, accepted :
              AuthorizationRedirected \/ StepWithinPage(clock, accepted) =>
                  StartWork(clock, accepted) \/ Answer(clock, accepted)
      BY DEF StepWithinPage, Answer, AnswerAuthorization
    <3>. QED  BY <1>9, <3>1 DEF WorkerSteps, WorkerFires, Step, page
  <2>2. ConnectionGoesOn => ConnectionGoesOn'
    BY <2>1, StepGoesOn, FireGoesOn DEF IInv
  <2>. QED  BY <2>1, <2>2 DEF Recovering
<1>. QED  BY <1>3, <1>4, <1>5, <1>6, <1>7, <1>8, <1>9 DEF NextSession, PageAdvances

\* Behind its page, callback or not, a worker that has received every command
\* is never stranded on a platform whose clock and timers work (application.ts
\* posts the page's visibility behind the callback).
THEOREM NotStrandedBehindPage ==
    ASSUME PlatformWorks
    PROVE  SessionSpec => []((HasWorker /\ channel = <<>>) => NotStranded)
<1>1. InitSession => ChannelTyped /\ Recovering /\ Init
  BY DEF InitSession, Init, ChannelTyped, Applications, Recovering, ConnectionGoesOn,
         CanPerformNetworkWork, IsRuntimeActive
<1>2. ChannelTyped /\ [NextSession]_sessionVars => ChannelTyped'
  BY ChannelTypedInductive DEF ChannelTyped, sessionVars, page
<1>3. Recovering /\ ChannelTyped /\ IInv /\ [NextSession]_sessionVars => Recovering'
  <2>1. ASSUME Recovering, UNCHANGED sessionVars PROVE Recovering'
    BY <2>1 DEF Recovering, ConnectionGoesOn, CanPerformNetworkWork, IsRuntimeActive,
                IsCurrentOperation, sessionVars, vars, connection, operation, session, page
  <2>. QED  BY <2>1, RecoveringInductive
<1>4. ChannelTyped /\ [NextSession]_sessionVars => [Next]_vars
  BY SessionWorks DEF sessionVars
<1>5. Recovering => ((HasWorker /\ channel = <<>>) => NotStranded)
  BY GoesOnWhenIdle DEF Recovering, HasWorker
<1>. QED  BY <1>1, <1>2, <1>3, <1>4, <1>5, InvariantInductive, PTL DEF SessionSpec
=============================================================================
