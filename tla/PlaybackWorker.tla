--------------------------- MODULE PlaybackWorker ---------------------------
(***************************************************************************)
(* The playback worker of the browser display                              *)
(* (apps/web/src/browser/worker/runtime.ts and scheduled-task-slot.ts).    *)
(*                                                                         *)
(* The worker is one event loop. Commands of the page and timers are       *)
(* tasks; most of them put an asynchronous work item on one promise chain  *)
(* (queuedWork), which runs the items strictly one after the other. The    *)
(* running item is `frame': where it awaits a port, and for which          *)
(* operation. Everything between two awaits is one step, because the       *)
(* event loop runs it to completion. Commands that cancel (hide, log out,  *)
(* dispose, retry, consume a callback) take effect when they arrive, while *)
(* the running item is still awaiting, and its late answer must be         *)
(* recognised as stale.                                                    *)
(*                                                                         *)
(* Not in the state: diagnostics, the contents of credentials, and delays  *)
(* (a scheduled timer may fire at any later time).                         *)
(***************************************************************************)
EXTENDS PlaybackDomain, Integers, Sequences

CONSTANTS
    Commands,            \* the commands the page posts
    ClockReadings,       \* what reading the clock can give
    SchedulerOutcomes,   \* whether the platform can accept a timer
    MaxEpoch,            \* Number.MAX_SAFE_INTEGER
    LastRetry,           \* last index of reconnectDelayMilliseconds
    MaxQueue             \* bound: commands wait while this much work is queued

AllCommands == {"initialize", "begin-authorization", "consume-callback",
                "retry", "hide", "show", "logout", "dispose"}

\* A reading before or at the time the access token must be refreshed, or an
\* exception or an unsafe integer.
AllClockReadings == {"early", "due", "unavailable"}

ASSUME CommandsAssumption == Commands \subseteq AllCommands
ASSUME EnvironmentAssumption ==
    /\ ClockReadings \subseteq AllClockReadings
    /\ SchedulerOutcomes \subseteq BOOLEAN
ASSUME BoundsAssumption ==
    /\ MaxEpoch \in Nat \ {0}
    /\ LastRetry \in Nat
    /\ MaxQueue \in Nat \ {0}

VARIABLES
    runtimeStatus,     \* awaiting-initialization, active, fatal or disposed
    visibility,        \* hidden or visible
    playback,          \* the playback state last emitted to the page
    accessToken,       \* missing or available
    scheduled,         \* the occupied timer slots
    retryPosition,     \* index of the next reconnect delay
    operationEpoch,    \* epoch of the newest operation
    activeOperation,   \* epoch of the operation that may be aborted
    refreshFlight,     \* epoch of the operation whose refresh is in flight
    queuedWork,        \* work items not yet begun, oldest first
    frame              \* the running work item

connection == <<playback, accessToken, scheduled, retryPosition>>
operation  == <<operationEpoch, activeOperation, frame>>
session    == <<runtimeStatus, visibility>>
vars == <<connection, operation, session, refreshFlight, queuedWork>>

Works == {"initialize", "begin-authorization", "consume-callback", "recover",
          "scheduled-refresh", "logout"}
Slots == {"poll", "refresh", "retry"}

RefreshPoints == {"refresh-then-poll", "refresh-then-wait",
                  "refresh-after-unauthorized"}
PollPoints == {"poll", "poll-after-refresh"}
OperationPoints == {"begin", "callback"} \cup RefreshPoints \cup PollPoints

Epochs == 1..MaxEpoch
NoOperation == 0

IdleFrame == [at |-> "idle", epoch |-> NoOperation, aborted |-> FALSE]
Frames == [at : OperationPoints \cup {"idle", "logout"},
           epoch : Epochs \cup {NoOperation}, aborted : BOOLEAN]
Idle == frame = IdleFrame

\* A task begins only when no promise continuation is left to run, so the
\* next work item has begun before the next command or timer is looked at.
AtTaskBoundary == Idle => queuedWork = <<>>

IsRuntimeActive == runtimeStatus = "active"
CanPerformNetworkWork == IsRuntimeActive /\ visibility = "visible"
\* Slips used to show that the properties notice: a currency check without the
\* abort signal, and one that asks only whether the worker may use the network.
IsCurrentByEpoch == CanPerformNetworkWork /\ operationEpoch = frame.epoch
IsCurrentByVisibility == CanPerformNetworkWork
IsCurrentOperation ==
    /\ CanPerformNetworkWork
    /\ operationEpoch = frame.epoch
    /\ ~frame.aborted

Init ==
    /\ runtimeStatus = "awaiting-initialization"
    /\ visibility = "visible"
    /\ playback = InitialPlaybackState
    /\ accessToken = "missing"
    /\ scheduled = {}
    /\ retryPosition = 0
    /\ operationEpoch = 0
    /\ activeOperation = NoOperation
    /\ refreshFlight = NoOperation
    /\ queuedWork = <<>>
    /\ frame = IdleFrame

-----------------------------------------------------------------------------
(* Operations, timers and outcomes shared by the handlers. *)

NextEpoch == IF operationEpoch < MaxEpoch THEN operationEpoch + 1 ELSE 1

StartOperation(point) ==
    /\ operationEpoch' = NextEpoch
    /\ activeOperation' = NextEpoch
    /\ frame' = [at |-> point, epoch |-> NextEpoch, aborted |-> FALSE]

FinishOperation ==
    /\ frame' = IdleFrame
    /\ activeOperation' = IF activeOperation = frame.epoch
                          THEN NoOperation ELSE activeOperation
    /\ UNCHANGED operationEpoch

\* An operation that never awaited.
PassOperation ==
    /\ operationEpoch' = NextEpoch
    /\ activeOperation' = NoOperation
    /\ UNCHANGED frame

ContinueOperation(point) ==
    /\ frame' = [frame EXCEPT !.at = point]
    /\ UNCHANGED <<operationEpoch, activeOperation>>

CancelActiveOperation ==
    /\ operationEpoch' = NextEpoch
    /\ frame' = IF activeOperation # NoOperation
                THEN [frame EXCEPT !.aborted = TRUE] ELSE frame
    /\ activeOperation' = NoOperation

\* Slip: the timers outlive the cancellation.
CancelOperationOnly == CancelActiveOperation /\ UNCHANGED scheduled

CancelRuntimeWork ==
    /\ CancelActiveOperation
    /\ scheduled' = {}

Enqueue(work) == queuedWork' = Append(queuedWork, work)

\* ScheduledTaskSlot.schedule cancels the slot's task before the platform
\* accepts or refuses the new one.
Scheduling(slots, slot, accepted) ==
    IF accepted THEN slots \cup {slot} ELSE slots \ {slot}

SchedulingRefresh(slots, clock, accepted) ==
    IF clock = "unavailable" THEN slots
    ELSE Scheduling(slots, "refresh", accepted)

NextRetryPosition ==
    IF retryPosition < LastRetry THEN retryPosition + 1 ELSE retryPosition

BeginFlight(epoch) ==
    refreshFlight' = IF refreshFlight = NoOperation THEN epoch
                     ELSE refreshFlight

\* Slip: the flight is released only when its answer is still wanted.
SettleCurrentFlight ==
    refreshFlight' = IF IsCurrentOperation /\ refreshFlight = frame.epoch
                     THEN NoOperation ELSE refreshFlight

SettleFlight ==
    refreshFlight' = IF frame.at \in RefreshPoints /\ refreshFlight = frame.epoch
                     THEN NoOperation ELSE refreshFlight

TransitionToFailure(reason) ==
    /\ playback' = After(playback, Event("failure", reason))
    /\ scheduled' = {}
    /\ UNCHANGED <<accessToken, retryPosition>>

\* The credential is gone: forget it, stop every timer and ask for consent.
LoseAuthorization(reason) ==
    /\ playback' = After(playback, Event("authorization-required", reason))
    /\ accessToken' = "missing"
    /\ scheduled' = {}
    /\ UNCHANGED retryPosition

\* Slip: the delay advances but no timer is set.
RetryNever(position, accepted) ==
    /\ playback' =
         After(playback, IF playback.kind \in ConnectedKinds
                         THEN Event("connection-lost", NoDetail)
                         ELSE Event("failure", "network"))
    /\ scheduled' = {}
    /\ retryPosition' = position
    /\ UNCHANGED accessToken

\* scheduleRefreshRetry and scheduleTransportRetry.
RetryLater(position, accepted) ==
    /\ playback' =
         After(playback, IF playback.kind \in ConnectedKinds
                         THEN Event("connection-lost", NoDetail)
                         ELSE Event("failure", "network"))
    /\ scheduled' = IF accepted THEN {"retry"} ELSE {}
    /\ retryPosition' = position
    /\ UNCHANGED accessToken

-----------------------------------------------------------------------------
(* Receiving a command.  A command refused at receipt changes nothing.      *)

CanEnqueue == Len(queuedWork) < MaxQueue

\* initialize and begin-authorization wait their turn.
ReceiveQueued(work) ==
    /\ CanEnqueue
    /\ Enqueue(work)
    /\ UNCHANGED <<connection, operation, session, refreshFlight>>

\* consume-callback and retry cancel whatever runs before it is known whether
\* they are allowed.
ReceiveCancelling(work) ==
    /\ CanEnqueue
    /\ CancelRuntimeWork
    /\ Enqueue(work)
    /\ UNCHANGED <<playback, accessToken, retryPosition, session, refreshFlight>>

\* Slip: hiding also throws away the work that waits its turn.
ReceiveHideDropsQueue ==
    /\ IsRuntimeActive
    /\ visibility' = "hidden"
    /\ CancelRuntimeWork
    /\ queuedWork' = <<>>
    /\ UNCHANGED <<playback, accessToken, retryPosition, runtimeStatus,
                   refreshFlight>>

ReceiveHide ==
    /\ IsRuntimeActive
    /\ visibility' = "hidden"
    /\ CancelRuntimeWork
    /\ UNCHANGED <<playback, accessToken, retryPosition, runtimeStatus,
                   refreshFlight, queuedWork>>

\* Coming back while signing in gives the sign-in up without aborting it.
ReceiveShow ==
    /\ IsRuntimeActive
    /\ visibility' = "visible"
    /\ IF playback.kind = "authorizing"
       THEN /\ playback' = After(playback, Event("authorization-required",
                                                 "not-authorized"))
            /\ UNCHANGED queuedWork
       ELSE /\ CanEnqueue
            /\ Enqueue("recover")
            /\ UNCHANGED playback
    /\ UNCHANGED <<accessToken, scheduled, retryPosition, runtimeStatus,
                   operation, refreshFlight>>

ReceiveLogout ==
    /\ IsRuntimeActive
    /\ CanEnqueue
    /\ CancelRuntimeWork
    /\ accessToken' = "missing"
    /\ retryPosition' = 0
    /\ playback' = After(playback, Event("authorization-required",
                                         "not-authorized"))
    /\ Enqueue("logout")
    /\ UNCHANGED <<session, refreshFlight>>

ReceiveDispose ==
    /\ runtimeStatus # "disposed"
    /\ CancelRuntimeWork
    /\ accessToken' = "missing"
    /\ retryPosition' = 0
    /\ runtimeStatus' = "disposed"
    /\ UNCHANGED <<playback, visibility, refreshFlight, queuedWork>>

Receive(command) ==
    /\ AtTaskBoundary
    /\ \/ command = "initialize" /\ ReceiveQueued("initialize")
       \/ command = "begin-authorization" /\ ReceiveQueued("begin-authorization")
       \/ command = "consume-callback" /\ ReceiveCancelling("consume-callback")
       \/ command = "retry" /\ ReceiveCancelling("recover")
       \/ command = "hide" /\ ReceiveHide
       \/ command = "show" /\ ReceiveShow
       \/ command = "logout" /\ ReceiveLogout
       \/ command = "dispose" /\ ReceiveDispose

-----------------------------------------------------------------------------
(* A timer fires: its slot empties and its work is queued.                  *)

WorkOf(slot) == IF slot = "refresh" THEN "scheduled-refresh" ELSE "recover"

Fire(slot) ==
    /\ AtTaskBoundary
    /\ slot \in scheduled
    /\ Len(queuedWork) <= MaxQueue
    /\ scheduled' = scheduled \ {slot}
    /\ IF CanPerformNetworkWork THEN Enqueue(WorkOf(slot))
       ELSE UNCHANGED queuedWork
    /\ UNCHANGED <<playback, accessToken, retryPosition, operation, session,
                   refreshFlight>>

-----------------------------------------------------------------------------
(* Beginning the next work item of the chain.                               *)

Dequeue(work) ==
    /\ Idle
    /\ queuedWork # <<>>
    /\ Head(queuedWork) = work
    /\ queuedWork' = Tail(queuedWork)

Ignore == UNCHANGED <<connection, operation, session, refreshFlight>>

\* recoverConnection with the credential still to be obtained.
RecoverByRefresh ==
    /\ accessToken = "missing"
    /\ StartOperation("refresh-then-poll")
    /\ BeginFlight(NextEpoch)
    /\ UNCHANGED scheduled

\* recoverConnection with a credential in memory.
RecoverWithToken(clock, accepted) ==
    /\ accessToken = "available"
    /\ clock # "unavailable"
    /\ scheduled' = IF "refresh" \in scheduled THEN scheduled
                    ELSE SchedulingRefresh(scheduled, clock, accepted)
    /\ IF clock = "due"
       THEN StartOperation("refresh-then-poll") /\ BeginFlight(NextEpoch)
       ELSE StartOperation("poll") /\ UNCHANGED refreshFlight

RecoverWithoutClock(clock) ==
    /\ accessToken = "available"
    /\ clock = "unavailable"
    /\ TransitionToFailure("network")
    /\ PassOperation
    /\ UNCHANGED refreshFlight

MayRecover ==
    /\ CanPerformNetworkWork
    /\ playback.kind \notin {"authorization-required", "authorizing"}

RecoverConnection(clock, accepted) ==
    /\ UNCHANGED session
    /\ \/ ~MayRecover /\ UNCHANGED <<connection, operation, refreshFlight>>
       \/ MayRecover /\ RecoverWithoutClock(clock)
       \/ /\ MayRecover
          /\ RecoverByRefresh \/ RecoverWithToken(clock, accepted)
          /\ playback' = After(playback, Event("retry", NoDetail))
          /\ UNCHANGED <<accessToken, retryPosition>>

\* The recovery that ends initialize is written out: the playback state is
\* initial and no credential has been obtained yet.
StartInitialize(valid) ==
    /\ Dequeue("initialize")
    /\ \/ runtimeStatus # "awaiting-initialization" /\ Ignore
       \/ /\ runtimeStatus = "awaiting-initialization"
          /\ ~valid
          /\ CancelRuntimeWork
          /\ runtimeStatus' = "fatal"
          /\ UNCHANGED <<playback, accessToken, retryPosition, visibility,
                         refreshFlight>>
       \/ /\ runtimeStatus = "awaiting-initialization"
          /\ valid
          /\ runtimeStatus' = "active"
          /\ playback' = InitialPlaybackState
          /\ RecoverByRefresh
          /\ UNCHANGED <<accessToken, retryPosition, visibility>>

StartBeginAuthorization(clock) ==
    /\ Dequeue("begin-authorization")
    /\ LET allowed == IsRuntimeActive /\ playback.kind = "authorization-required"
       IN \/ ~allowed /\ Ignore
          \/ /\ allowed
             /\ clock = "unavailable"
             /\ TransitionToFailure("network")
             /\ UNCHANGED <<operation, session, refreshFlight>>
          \/ /\ allowed
             /\ clock # "unavailable"
             /\ playback' = After(playback, Event("begin-authorization", NoDetail))
             /\ StartOperation("begin")
             /\ UNCHANGED <<accessToken, scheduled, retryPosition, session,
                            refreshFlight>>

StartConsumeCallback(parsed, clock) ==
    /\ Dequeue("consume-callback")
    /\ LET allowed ==
             /\ IsRuntimeActive
             /\ parsed
             /\ playback.kind \in {"authorization-required", "authorizing"}
       IN \/ ~allowed /\ Ignore
          \/ /\ allowed
             /\ clock = "unavailable"
             /\ TransitionToFailure("network")
             /\ UNCHANGED <<operation, session, refreshFlight>>
          \/ /\ allowed
             /\ clock # "unavailable"
             /\ playback' = After(playback, Event("begin-authorization", NoDetail))
             /\ StartOperation("callback")
             /\ UNCHANGED <<accessToken, scheduled, retryPosition, session,
                            refreshFlight>>

\* retryConnection, the poll timer, the retry timer and a page shown again all
\* run recoverConnection under guards it repeats.
StartRecover(clock, accepted) ==
    /\ Dequeue("recover")
    /\ RecoverConnection(clock, accepted)

StartScheduledRefresh(clock, accepted) ==
    /\ Dequeue("scheduled-refresh")
    /\ \/ ~CanPerformNetworkWork /\ Ignore
       \/ /\ CanPerformNetworkWork
          /\ accessToken = "missing"
          /\ RecoverConnection(clock, accepted)
       \/ /\ CanPerformNetworkWork
          /\ accessToken = "available"
          /\ \/ /\ clock = "unavailable"
                /\ TransitionToFailure("network")
                /\ UNCHANGED <<operation, refreshFlight>>
             \/ /\ clock = "early"
                /\ scheduled' = SchedulingRefresh(scheduled, clock, accepted)
                /\ UNCHANGED <<playback, accessToken, retryPosition, operation,
                               refreshFlight>>
             \/ /\ clock = "due"
                /\ StartOperation("refresh-then-wait")
                /\ BeginFlight(NextEpoch)
                /\ UNCHANGED connection
          /\ UNCHANGED session

StartLogout ==
    /\ Dequeue("logout")
    /\ frame' = IF IsRuntimeActive
                THEN [at |-> "logout", epoch |-> NoOperation, aborted |-> FALSE]
                ELSE frame
    /\ UNCHANGED <<connection, operationEpoch, activeOperation, session,
                   refreshFlight>>

StartWork(clock, accepted) ==
    \/ \E valid \in BOOLEAN : StartInitialize(valid)
    \/ StartBeginAuthorization(clock)
    \/ \E parsed \in BOOLEAN : StartConsumeCallback(parsed, clock)
    \/ StartRecover(clock, accepted)
    \/ StartScheduledRefresh(clock, accepted)
    \/ StartLogout

-----------------------------------------------------------------------------
(* The answer a work item awaits, for an operation that is still current.   *)

Awaiting(points) ==
    /\ frame.at \in points
    /\ IsCurrentOperation
    /\ UNCHANGED <<session, queuedWork>>

Settle == FinishOperation /\ SettleFlight

InstallAccessToken(clock, accepted) ==
    /\ accessToken' = "available"
    /\ scheduled' = SchedulingRefresh(scheduled, clock, accepted)

\* beginAuthorization answers with the provider's URL: the page will leave.
AuthorizationRedirected ==
    /\ Awaiting({"begin"})
    /\ Settle
    /\ UNCHANGED connection

AuthorizationConnected(clock, accepted) ==
    /\ Awaiting({"begin", "callback"})
    /\ LET complete == Event("authorization-complete", NoDetail)
       IN /\ playback' = After(playback, complete)
          /\ IF Accepts(playback, complete) /\ clock # "unavailable"
             THEN /\ InstallAccessToken(clock, accepted)
                  /\ retryPosition' = 0
                  /\ ContinueOperation("poll")
             ELSE /\ FinishOperation
                  /\ UNCHANGED <<accessToken, scheduled, retryPosition>>
    /\ UNCHANGED refreshFlight

AuthorizationRefused(reason) ==
    /\ Awaiting({"begin", "callback"})
    /\ Settle
    /\ \/ reason \in {"authorization-denied", "network",
                      "code-exchange-rejected"}
          /\ TransitionToFailure(reason)
       \/ /\ reason = "not-authorized"
          /\ playback' = After(playback, Event("authorization-required", reason))
          /\ UNCHANGED <<accessToken, scheduled, retryPosition>>

\* A new credential arrived but the clock cannot date it: it is not kept.
RefreshUnusable(clock) ==
    /\ Awaiting(RefreshPoints)
    /\ clock = "unavailable"
    /\ Settle
    /\ UNCHANGED connection

\* Slip: a scheduled refresh leaves polling to a timer that may be gone.
RefreshedWithoutPoll(clock, accepted) ==
    /\ Awaiting({"refresh-then-poll", "refresh-then-wait"})
    /\ clock # "unavailable"
    /\ SettleFlight
    /\ InstallAccessToken(clock, accepted)
    /\ playback' = After(playback, Event("authorization-available", NoDetail))
    /\ retryPosition' = 0
    /\ IF frame.at = "refresh-then-poll" THEN ContinueOperation("poll")
       ELSE FinishOperation

\* refreshAndUseToken, on success.
RefreshedForUse(clock, accepted) ==
    /\ Awaiting({"refresh-then-poll", "refresh-then-wait"})
    /\ clock # "unavailable"
    /\ SettleFlight
    /\ accessToken' = "available"
    /\ playback' = After(playback, Event("authorization-available", NoDetail))
    /\ retryPosition' = 0
    /\ LET slots == SchedulingRefresh(scheduled, clock, accepted)
       IN IF frame.at = "refresh-then-poll"
          THEN scheduled' = slots /\ ContinueOperation("poll")
          ELSE /\ scheduled' = IF "poll" \in slots THEN slots
                               ELSE Scheduling(slots, "poll", accepted)
               /\ FinishOperation

\* refreshAfterUnauthorized, on success: poll once more.
RefreshedAfterUnauthorized(clock, accepted) ==
    /\ Awaiting({"refresh-after-unauthorized"})
    /\ clock # "unavailable"
    /\ SettleFlight
    /\ InstallAccessToken(clock, accepted)
    /\ ContinueOperation("poll-after-refresh")
    /\ UNCHANGED <<playback, retryPosition>>

RefreshRefused(reason) ==
    /\ Awaiting(RefreshPoints)
    /\ Settle
    /\ LoseAuthorization(reason)

RefreshDeferred(accepted) ==
    /\ Awaiting(RefreshPoints)
    /\ Settle
    /\ RetryLater(NextRetryPosition, accepted)

RefreshFailed(reason) ==
    /\ Awaiting(RefreshPoints)
    /\ Settle
    /\ TransitionToFailure(reason)

\* The provider reports that nothing is playing.
PolledEmpty(accepted) ==
    /\ Awaiting(PollPoints)
    /\ Settle
    /\ playback' = After(playback, Event("playback-empty", NoDetail))
    /\ retryPosition' = 0
    /\ scheduled' = Scheduling(scheduled, "poll", accepted)
    /\ UNCHANGED accessToken

\* The provider reports a playback state.  A state the lifecycle refuses is
\* dropped, and then nothing schedules the next poll.
PolledPlayback(event, accepted) ==
    /\ Awaiting(PollPoints)
    /\ Settle
    /\ playback' = After(playback, event)
    /\ IF Accepts(playback, event)
       THEN /\ retryPosition' = 0
            /\ scheduled' = Scheduling(scheduled, "poll", accepted)
       ELSE UNCHANGED <<retryPosition, scheduled>>
    /\ UNCHANGED accessToken

PollFailed(reason) ==
    /\ Awaiting(PollPoints)
    /\ Settle
    /\ TransitionToFailure(reason)

\* No answer, a server failure or a rate limit.  A valid Retry-After is used
\* instead of the next reconnect delay.
PollDeferred(position, accepted) ==
    /\ Awaiting(PollPoints)
    /\ Settle
    /\ RetryLater(position, accepted)

PollDenied ==
    /\ Awaiting(PollPoints)
    /\ Settle
    /\ LoseAuthorization("permission-required")

\* Slip: every 401 refreshes again.
PollUnauthorizedAlwaysRefreshes ==
    /\ Awaiting(PollPoints)
    /\ ContinueOperation("refresh-after-unauthorized")
    /\ BeginFlight(frame.epoch)
    /\ UNCHANGED connection

\* The first 401 of an operation refreshes the credential, the second gives up.
PollUnauthorized ==
    /\ Awaiting(PollPoints)
    /\ IF frame.at = "poll"
       THEN /\ ContinueOperation("refresh-after-unauthorized")
            /\ BeginFlight(frame.epoch)
            /\ UNCHANGED connection
       ELSE Settle /\ LoseAuthorization("authorization-expired")

\* An answer nobody waits for any more.
StaleAnswer ==
    /\ frame.at \in OperationPoints
    /\ ~IsCurrentOperation
    /\ Settle
    /\ UNCHANGED <<connection, session, queuedWork>>

LogoutSettled ==
    /\ frame.at = "logout"
    /\ frame' = IdleFrame
    /\ UNCHANGED <<connection, operationEpoch, activeOperation, session,
                   refreshFlight, queuedWork>>

PlaybackEvents ==
    {Event("playback-empty", NoDetail), Event("playback-unsupported", NoDetail)}
        \cup {Event(kind, item) :
                 kind \in {"playback-playing", "playback-paused"}, item \in Items}

AnswerAuthorization(clock, accepted) ==
    \/ AuthorizationRedirected
    \/ AuthorizationConnected(clock, accepted)
    \/ \E reason \in FailureReasons \cup {"not-authorized"} :
          AuthorizationRefused(reason)

AnswerRefresh(clock, accepted) ==
    \/ RefreshUnusable(clock)
    \/ RefreshedForUse(clock, accepted)
    \/ RefreshedAfterUnauthorized(clock, accepted)
    \/ \E reason \in {"authorization-expired", "authorization-revoked",
                      "not-authorized"} : RefreshRefused(reason)
    \/ RefreshDeferred(accepted)
    \/ \E reason \in {"malformed-response", "network"} : RefreshFailed(reason)

AnswerPoll(accepted) ==
    \/ PolledEmpty(accepted)
    \/ \E event \in PlaybackEvents : PolledPlayback(event, accepted)
    \/ \E reason \in {"malformed-response", "server-error"} : PollFailed(reason)
    \/ \E position \in {retryPosition, NextRetryPosition} :
          PollDeferred(position, accepted)
    \/ PollDenied
    \/ PollUnauthorized

Answer(clock, accepted) ==
    \/ AnswerAuthorization(clock, accepted)
    \/ AnswerRefresh(clock, accepted)
    \/ AnswerPoll(accepted)
    \/ StaleAnswer
    \/ LogoutSettled

-----------------------------------------------------------------------------
\* What the worker does on its own, whatever the page posts.
Step ==
    \E clock \in ClockReadings, accepted \in SchedulerOutcomes :
        StartWork(clock, accepted) \/ Answer(clock, accepted)

Next ==
    \/ \E command \in Commands : Receive(command)
    \/ \E slot \in Slots : Fire(slot)
    \/ Step

Spec == Init /\ [][Next]_vars

\* The chain runs every promise continuation and every port settles (requests
\* have a deadline and honour the abort signal), so a step the worker can take
\* is taken.  A timer that stays set fires: other tasks that keep arriving only
\* interrupt it (Fire is disabled while a work item is about to begin), and the
\* event loop serves due timers in order, hence strong fairness.
Fairness == WF_vars(Step) /\ \A slot \in Slots : SF_vars(Fire(slot))

FairSpec == Spec /\ Fairness

-----------------------------------------------------------------------------
(* Properties.                                                              *)

\* Every variable holds a value of its kind: the shape of the worker's state.
TypeOK ==
    /\ runtimeStatus \in {"awaiting-initialization", "active", "fatal", "disposed"}
    /\ visibility \in {"hidden", "visible"}
    /\ playback \in PlaybackStates
    /\ accessToken \in {"missing", "available"}
    /\ scheduled \in SUBSET Slots
    /\ retryPosition \in 0..LastRetry
    /\ operationEpoch \in Epochs \cup {0}
    /\ activeOperation \in Epochs \cup {NoOperation}
    /\ refreshFlight \in Epochs \cup {NoOperation}
    /\ queuedWork \in Seq(Works)
    /\ frame \in Frames

\* A hidden, fatal or disposed worker keeps no timer, and a refresh or a poll
\* it has not answered yet has been aborted, so that showing the page again
\* does not revive it.
QuietWhenSuspended ==
    ~CanPerformNetworkWork =>
        /\ scheduled = {}
        /\ frame.at \in RefreshPoints \cup PollPoints => frame.aborted

\* A credential is in memory only while the worker is active and the page is
\* neither asked to sign in nor signing in: no late answer brings it back
\* after a logout, a revocation or a new sign-in.
CredentialMatchesState ==
    accessToken = "available" =>
        /\ runtimeStatus = "active"
        /\ playback.kind \notin {"authorization-required", "authorizing"}

\* The refresh flight belongs to the running item, so a later operation never
\* joins the answer of an earlier, possibly aborted, refresh.
FlightBelongsToFrame ==
    refreshFlight # NoOperation =>
        frame.at \in RefreshPoints /\ frame.epoch = refreshFlight

\* While a connected display is visible and nothing runs, something will poll
\* again: no sequence of answers leaves a connection without its next step.
NotStranded ==
    (/\ Idle
     /\ queuedWork = <<>>
     /\ CanPerformNetworkWork
     /\ playback.kind \in ConnectedKinds) =>
        scheduled \cap {"poll", "retry"} # {}

\* An operation that was aborted never writes the connection's state, even
\* when the epoch counter has wrapped round to the operation's own epoch.
AbortedWritesNothing ==
    [][(frame.aborted /\ frame' = IdleFrame) =>
          UNCHANGED connection]_vars

\* A signed-out display becomes connected only through a sign-in.
NoSilentReconnect ==
    [][playback.kind = "authorization-required" =>
          playback'.kind \in {"authorization-required", "authorizing", "failure"}]_vars

\* Every operation ends, however often its requests are refused: a second 401
\* does not start a third refresh.
OperationsEnd == (frame # IdleFrame) ~> Idle

\* A logout that was accepted gets to clear the stored credential unless the
\* worker is disposed first.
LogoutClearsStorage ==
    (\E i \in DOMAIN queuedWork : queuedWork[i] = "logout") ~>
        (frame.at = "logout" \/ runtimeStatus = "disposed")

\* What a visible display shows as current is polled again, and a display that
\* is reconnecting keeps trying, until it is hidden, disposed or told that the
\* connection failed or is gone.
ShownPlaybackIsRefreshed ==
    (CanPerformNetworkWork /\ playback.kind \in ConnectedKinds) ~>
        (\/ frame.at \in PollPoints
         \/ frame.at \in RefreshPoints /\ playback.kind = "reconnecting"
         \/ ~CanPerformNetworkWork
         \/ playback.kind \notin ConnectedKinds)

\* The retry control recovers a failed display: when a current operation is
\* polling, the display is in a state that can show what the poll finds.
PollResultsAreShown ==
    (frame.at \in PollPoints /\ IsCurrentOperation) =>
        playback.kind \in ConnectedKinds

=============================================================================
