---------------------------- MODULE LocalDisplay ----------------------------
(***************************************************************************)
(* The local display: the page (apps/web/src/browser/local/application.ts) *)
(* and the worker that polls the native process for what plays on this     *)
(* machine (local/worker-runtime.ts, local/generated-mapper.ts).           *)
(*                                                                         *)
(* What the display may show depends on how old it is, so this module is   *)
(* timed: now counts equal steps of real time, time does not pass over a   *)
(* message that is on its way or a timer that is due, and the durations of *)
(* the code are CONSTANTS.  Both ends measure with clocks of one rate;     *)
(* native times count from the start of the native process, at 0.          *)
(***************************************************************************)
EXTENDS Integers, Sequences

CONSTANTS
    Fresh,             \* oldest snapshot shown as current
    Stale,             \* oldest snapshot shown at all
    RequestDeadline,   \* longest poll, both of its calls together
    RetryDelays,       \* the retry ladder
    PollHint,          \* the delay an answer asks for before the next poll
    LongestDelay,      \* no delay is longer
    CollectLag,        \* longest time between two snapshots of the collector
    Outcomes,          \* what the collector may report
    MaxTime,           \* bound: the last instant
    MaxChannel,        \* bound: commands posted and not yet received
    MaxEvents          \* bound: presentations posted and not yet received

AllOutcomes == {"playing", "paused", "no-source", "unsupported", "malformed"}

ASSUME DurationsAssumption ==
    /\ Fresh \in Nat /\ Stale \in Nat /\ Fresh <= Stale
    /\ RequestDeadline \in Nat /\ CollectLag \in Nat \ {0}
    /\ PollHint \in Nat /\ LongestDelay \in Nat
    /\ RetryDelays \in Seq(Nat) /\ RetryDelays # <<>>
    /\ PollHint <= LongestDelay
    /\ \A i \in DOMAIN RetryDelays : RetryDelays[i] <= LongestDelay

ASSUME LocalBoundsAssumption ==
    /\ Outcomes \subseteq AllOutcomes
    /\ MaxTime \in Nat /\ MaxChannel \in Nat \ {0} /\ MaxEvents \in Nat \ {0}

VARIABLES
    now,               \* the present
    native,            \* the collector's latest snapshot
    application,       \* the page's life
    pageVisibility,    \* what document.visibilityState says
    snapshot,          \* what the page renders
    channel,           \* commands on their way to the worker
    events,            \* presentations on their way to the page
    runtime,           \* the worker's life
    visibility,        \* what the worker believes of the page
    instanceKnown,     \* the worker has learned whom it polls
    request,           \* the poll in flight: none, or the call it awaits
    requestStart,      \* when that poll began
    answer,            \* the snapshot on its way back
    scheduled,         \* when the next poll is due: the empty set or one time
    retryIndex,        \* position on the retry ladder
    lastSuccessful,    \* the last playback an answer carried
    lastNativeNow,     \* native time the last outcome was resolved at
    lastResponseAt,    \* when that was
    visibleSince       \* history: when the worker last learned it is visible

pageVars == <<application, pageVisibility, snapshot>>
pollVars == <<request, requestStart, answer>>
memoryVars == <<lastSuccessful, lastNativeNow, lastResponseAt>>
workerVars == <<runtime, visibility, instanceKnown, pollVars, scheduled,
                retryIndex, memoryVars, visibleSince>>
vars == <<now, native, pageVars, channel, events, workerVars>>

-----------------------------------------------------------------------------
(* What an outcome shows (resolveLocalPlaybackPresentation).  Idle stands   *)
(* for a paused player and for one without a title: neither view has an age.*)

Snapshots == [activity : {"none", "playing", "paused"}, observedAt : Nat]
NoSnapshot == [activity |-> "none", observedAt |-> 0]

Answers == [outcome : AllOutcomes, observedAt : Nat]
NoAnswer == [outcome |-> "no-source", observedAt |-> 0]

View(kind, observedAt) == [kind |-> kind, observedAt |-> observedAt]
Timeless == {"idle", "unavailable", "unsupported"}
Views == [kind : Timeless \cup {"content", "stale-content"}, observedAt : Nat]

Presentation(at, last) ==
    LET age == at - last.observedAt IN
    IF last.activity = "paused" THEN View("idle", 0)
    ELSE IF last.activity = "none" \/ age < 0 \/ age > Stale THEN View("unavailable", 0)
    ELSE View(IF age <= Fresh THEN "content" ELSE "stale-content", last.observedAt)

-----------------------------------------------------------------------------
\* The native process is up; what it reports before it has collected is at 0.
Init ==
    /\ now = 1
    /\ native = NoAnswer
    /\ application = "not-started"
    /\ pageVisibility \in {"hidden", "visible"}
    /\ snapshot = View("unavailable", 0)
    /\ channel = <<>> /\ events = <<>>
    /\ runtime = "absent" /\ visibility = "hidden"
    /\ instanceKnown = FALSE
    /\ request = "none" /\ requestStart = 0 /\ answer = NoAnswer
    /\ scheduled = {} /\ retryIndex = 0
    /\ lastSuccessful = NoSnapshot /\ lastNativeNow = 0 /\ lastResponseAt = 0
    /\ visibleSince = 0

-----------------------------------------------------------------------------
(* The page.                                                                *)

HasWorker == application = "active"

Commands == [kind : {"initialize", "visibility-change"}, visibility : {"hidden", "visible"}]

Post(kind, shown) ==
    /\ Len(channel) < MaxChannel
    /\ channel' = Append(channel, [kind |-> kind, visibility |-> shown])

\* start: the pairing capability in the address is being redeemed.
StartPage ==
    /\ application = "not-started"
    /\ application' = "starting"
    /\ UNCHANGED <<now, native, pageVisibility, snapshot, channel, events, workerVars>>

\* The worker is created; it keeps the time of its creation.
CreateWorker ==
    /\ application = "starting"
    /\ application' = "active"
    /\ runtime' = "not-initialized"
    /\ lastResponseAt' = now
    /\ UNCHANGED <<now, native, pageVisibility, snapshot, events, visibility, instanceKnown, pollVars,
                   scheduled, retryIndex, lastSuccessful, lastNativeNow, visibleSince>>

\* Slip: a page is taken to be visible when it starts.
PairedAndVisible == CreateWorker /\ Post("initialize", "visible")

\* activate: the worker is told how visible the page is now.
Paired == CreateWorker /\ Post("initialize", pageVisibility)

\* The capability is refused or lost, or no worker can be created.
StartFailed ==
    /\ application = "starting"
    /\ application' = "disposed"
    /\ snapshot' = View("unavailable", 0)
    /\ UNCHANGED <<now, native, pageVisibility, channel, events, workerVars>>

VisibilityChange ==
    /\ pageVisibility' \in {"hidden", "visible"} \ {pageVisibility}
    /\ IF HasWorker THEN Post("visibility-change", pageVisibility') ELSE UNCHANGED channel
    /\ UNCHANGED <<now, native, application, snapshot, events, workerVars>>

\* Slip: an outcome without content does not replace content.
ReceiveContent ==
    /\ HasWorker /\ events # <<>>
    /\ events' = Tail(events)
    /\ snapshot' = IF Head(events).kind = "unavailable" THEN snapshot ELSE Head(events)
    /\ UNCHANGED <<now, native, application, pageVisibility, channel, workerVars>>

ReceivePresentation ==
    /\ HasWorker /\ events # <<>>
    /\ events' = Tail(events)
    /\ snapshot' = Head(events)
    /\ UNCHANGED <<now, native, application, pageVisibility, channel, workerVars>>

\* An uncaught error in the worker blanks the page; the worker goes on.
WorkerErrs ==
    /\ HasWorker
    /\ snapshot' = View("unavailable", 0)
    /\ UNCHANGED <<now, native, application, pageVisibility, channel, events, workerVars>>

-----------------------------------------------------------------------------
(* The worker.                                                              *)

FinishRequest ==
    /\ request' = "none"
    /\ requestStart' = 0
    /\ answer' = NoAnswer

\* dispose, on pagehide or by the page's owner; the worker is terminated.
DisposePage ==
    /\ application # "disposed"
    /\ application' = "disposed"
    /\ channel' = <<>> /\ events' = <<>>
    /\ runtime' = IF HasWorker THEN "disposed" ELSE runtime
    /\ FinishRequest
    /\ scheduled' = {}
    /\ UNCHANGED <<now, native, pageVisibility, snapshot, visibility, instanceKnown, retryIndex,
                   memoryVars, visibleSince>>

\* The state a poll begins in: the instance is asked for only until it is known.
BeginPoll ==
    IF request # "none" THEN UNCHANGED <<pollVars, scheduled>>
    ELSE /\ request' = IF instanceKnown THEN "snapshot" ELSE "instance"
         /\ requestStart' = now
         /\ answer' = NoAnswer
         /\ scheduled' = {}

\* receive: an initialize counts once, a visibility-change only after it.
Expected(command) ==
    runtime = IF command.kind = "initialize" THEN "not-initialized" ELSE "active"

Believe(shown) ==
    /\ runtime' = "active"
    /\ visibility' = shown
    /\ \/ shown = "visible" /\ BeginPoll /\ visibleSince' = now
       \/ shown = "hidden" /\ FinishRequest /\ scheduled' = {} /\ UNCHANGED visibleSince

ReceiveCommand ==
    /\ HasWorker /\ channel # <<>>
    /\ channel' = Tail(channel)
    /\ IF Expected(Head(channel)) THEN Believe(Head(channel).visibility)
       ELSE UNCHANGED <<runtime, visibility, pollVars, scheduled, visibleSince>>
    /\ UNCHANGED <<now, native, pageVars, events, instanceKnown, retryIndex, memoryVars>>

\* The timer of the next poll fires.
ScheduledPoll ==
    /\ HasWorker /\ visibility = "visible"
    /\ \E due \in scheduled : due <= now
    /\ BeginPoll
    /\ UNCHANGED <<now, native, pageVars, channel, events, runtime, visibility, instanceKnown,
                   retryIndex, memoryVars, visibleSince>>

\* Slip: each of the two calls gets a deadline of its own.
InstanceArrivesAnew ==
    /\ request = "instance"
    /\ request' = "snapshot"
    /\ instanceKnown' = TRUE
    /\ requestStart' = now
    /\ UNCHANGED <<now, native, pageVars, channel, events, runtime, visibility, answer, scheduled,
                   retryIndex, memoryVars, visibleSince>>

InstanceArrives ==
    /\ request = "instance"
    /\ request' = "snapshot"
    /\ instanceKnown' = TRUE
    /\ UNCHANGED <<now, native, pageVars, channel, events, runtime, visibility, requestStart, answer,
                   scheduled, retryIndex, memoryVars, visibleSince>>

\* acceptSnapshot: remember what was resolved, at which native time and when.
Accept(last, nativeNow, view) ==
    /\ lastSuccessful' = last
    /\ lastNativeNow' = nativeNow
    /\ lastResponseAt' = now
    /\ Len(events) < MaxEvents
    /\ events' = Append(events, view)

ScheduleNext(delay) ==
    scheduled' = IF visibility = "visible" THEN {now + delay} ELSE scheduled

\* mapGeneratedSnapshot; an answer that cannot be read is resolved at native time 0.
Remembered ==
    IF answer.outcome \in {"playing", "paused"}
    THEN [activity |-> answer.outcome, observedAt |-> answer.observedAt]
    ELSE lastSuccessful

ResolvedAt == IF answer.outcome = "malformed" THEN 0 ELSE answer.observedAt

Resolved ==
    IF answer.outcome = "unsupported" THEN View("unsupported", 0)
    ELSE Presentation(ResolvedAt, Remembered)

SnapshotArrives ==
    /\ request = "answered"
    /\ Accept(Remembered, ResolvedAt, Resolved)
    /\ retryIndex' = 0
    /\ FinishRequest
    /\ ScheduleNext(PollHint)
    /\ UNCHANGED <<now, native, pageVars, channel, runtime, visibility, instanceKnown, visibleSince>>

\* Slip: a failure is resolved at the native time of the last answer.
NativeNowOfLastAnswer == lastNativeNow

\* The native time a failure is resolved at: the last one, and what has passed.
NativeNow == lastNativeNow + (now - lastResponseAt)

NextRetry == IF retryIndex < Len(RetryDelays) THEN retryIndex + 1 ELSE retryIndex

RetryDelay ==
    LET lastRung == Len(RetryDelays) IN
    RetryDelays[IF retryIndex < lastRung THEN retryIndex + 1 ELSE lastRung]

\* A call is refused, times out on the way, or its connection breaks.
PollFails ==
    /\ request # "none"
    /\ Accept(lastSuccessful, NativeNow, Presentation(NativeNow, lastSuccessful))
    /\ retryIndex' = NextRetry
    /\ FinishRequest
    /\ ScheduleNext(RetryDelay)
    /\ UNCHANGED <<now, native, pageVars, channel, runtime, visibility, instanceKnown, visibleSince>>

-----------------------------------------------------------------------------
(* The native process.                                                      *)

Collect ==
    /\ \E outcome \in Outcomes : native' = [outcome |-> outcome, observedAt |-> now]
    /\ UNCHANGED <<now, pageVars, channel, events, workerVars>>

\* GetSnapshot reads the latest snapshot; the answer then travels.
ServeSnapshot ==
    /\ request = "snapshot"
    /\ request' = "answered"
    /\ answer' = native
    /\ UNCHANGED <<now, native, pageVars, channel, events, runtime, visibility, instanceKnown,
                   requestStart, scheduled, retryIndex, memoryVars, visibleSince>>

-----------------------------------------------------------------------------
\* Time passes when nothing is due; a poll past its deadline has failed.
Tick ==
    /\ application # "disposed"
    /\ channel = <<>> /\ events = <<>>
    /\ \A due \in scheduled : now < due
    /\ request # "none" => now < requestStart + RequestDeadline
    /\ now - native.observedAt < CollectLag
    /\ now < MaxTime
    /\ now' = now + 1
    /\ UNCHANGED <<native, pageVars, channel, events, workerVars>>

Next ==
    \/ StartPage \/ Paired \/ StartFailed \/ VisibilityChange
    \/ ReceivePresentation \/ WorkerErrs \/ DisposePage
    \/ ReceiveCommand \/ ScheduledPoll
    \/ InstanceArrives \/ SnapshotArrives \/ PollFails
    \/ Collect \/ ServeSnapshot
    \/ Tick

Spec == Init /\ [][Next]_vars

-----------------------------------------------------------------------------
(* Properties.                                                              *)

\* How old a snapshot may be when it reaches the worker, beyond the age the
\* worker gives it: it takes an answer for new.
Skew == CollectLag + RequestDeadline

\* The longest a visible worker may go without publishing.
LongestSilence == RequestDeadline + LongestDelay

\* Every variable holds a value of its kind, and the retry ladder is not left.
TypeOK ==
    /\ now \in Nat
    /\ native \in Answers /\ answer \in Answers
    /\ application \in {"not-started", "starting", "active", "disposed"}
    /\ pageVisibility \in {"hidden", "visible"} /\ visibility \in {"hidden", "visible"}
    /\ snapshot \in Views
    /\ channel \in Seq(Commands) /\ events \in Seq(Views)
    /\ runtime \in {"absent", "not-initialized", "active", "disposed"}
    /\ instanceKnown \in BOOLEAN
    /\ request \in {"none", "instance", "snapshot", "answered"}
    /\ requestStart \in Nat
    /\ scheduled \in SUBSET Nat
    /\ retryIndex \in 0..Len(RetryDelays)
    /\ lastSuccessful \in Snapshots
    /\ lastNativeNow \in Nat /\ lastResponseAt \in Nat /\ visibleSince \in Nat

\* What the worker publishes as current was observed at most Fresh ago, and
\* what it publishes as stale at most Stale ago, up to the skew, through any
\* run of answers and failures.
HonestFreshness ==
    \A i \in DOMAIN events :
        /\ events[i].kind = "content" => now - events[i].observedAt <= Fresh + Skew
        /\ events[i].kind = "stale-content" => now - events[i].observedAt <= Stale + Skew

\* A failure does not age the last playback faster than time does: it is called
\* stale only after Fresh, and given up only after Stale.
RetainsRecent ==
    events # <<>> =>
        LET last == events[Len(events)] IN
        /\ last.kind = "stale-content" => now - last.observedAt > Fresh
        /\ last.kind = "unavailable" /\ lastSuccessful.activity = "playing"
               => now - lastSuccessful.observedAt > Stale

\* A worker that has been visible for a while published something within the
\* longest silence, whatever its requests did.
KeepsUp ==
    (HasWorker /\ runtime = "active" /\ visibility = "visible") =>
        \/ now - lastResponseAt <= LongestSilence
        \/ now - visibleSince <= LongestSilence

\* What a page shows as current, after it has been visible for a while and has
\* received every message, is recent, although the page itself keeps no time.
ShownIsRecent ==
    (/\ HasWorker /\ pageVisibility = "visible"
     /\ channel = <<>> /\ events = <<>>
     /\ now - visibleSince > LongestSilence
     /\ snapshot.kind = "content")
        => now - snapshot.observedAt <= Fresh + Skew + LongestSilence

\* A hidden page whose worker has heard of it costs the native process nothing:
\* no request is in flight and no poll is due.
HiddenIsQuiet ==
    (HasWorker /\ channel = <<>> /\ pageVisibility = "hidden") =>
        request = "none" /\ scheduled = {}
=============================================================================
