# phrasic in TLA+

phrasic is a browser display of what is playing.  It has two forms.  The
*hosted* display signs in to Spotify from the browser, keeps the sign-in and
polls Spotify in a worker.  The *local* display shows what plays on the same
machine: a native process observes the desktop's media players, a small host
process serves the page and forwards its calls, and the page's worker polls it.

Almost everything here that is hard to test is about order: commands of the
page cut across requests in flight, answers come late, timers outlive their
reason, tabs share one stored token, and the age of what is shown is computed
from two clocks while requests fail.  These modules model that order.  They are
checked by TLC on small instances, and their safety properties are proved by
TLAPS for every value of the constants.

Source paths below are relative to the root of the repository's source.

## 1. Inventory

| Part | State it keeps | Operations | How it interacts | Modules |
|---|---|---|---|---|
| playback lifecycle, `packages/domain/src/playback.ts` | one of nine playback kinds with its item or reason | one transition function, total over its events | called by the worker | `PlaybackDomain` |
| playback worker, `apps/web/src/browser/worker/runtime.ts`, `scheduled-task-slot.ts` | status, visibility, access token, epoch, active operation, refresh flight, three timers, retry position, a promise chain of work | eight commands, three timers, eight kinds of await | receives commands, emits states; calls authorization and provider ports | `PlaybackWorker` |
| browser page, `apps/web/src/browser/application.ts` | the page's life, its snapshot | start, prepare, visibility, controls, worker messages, pagehide | two FIFO channels to and from the worker | `DisplaySession` |
| provider sign-in, `apps/web/src/browser/auth/*` | pending attempts and one refresh token in IndexedDB; one running operation per tab | begin, consume a callback, refresh, log out, abort | transactions shared by all tabs; token requests to Spotify | `SpotifyAuthorization` |
| local page and worker, `apps/web/src/browser/local/*`, `packages/domain/src/local-playback.ts` | the page's life; the worker's request, timer, retry ladder, last playback and two clock readings | pair, show/hide, poll in two calls, publish | pairing request, commands, presentations, calls to the native process | `LocalDisplay` |
| pairing authority and local host, `apps/host/src/local/*` | one capability (issued, paired, revoked), the number of calls in progress | redeem, authenticate, forward, control lines, stop | between page and native process | `HostProcess` (contract), `LocalHost` |
| native supervision, `crates/phrasic/src/command.rs`, `platform/*.rs` | lifecycle lock, socket, server, child process | prepare, prove readiness, supervise, stop gracefully or by force | starts and stops host and collector; the endpoint is shared by all processes of a user and port | `NativeSupervisor` (Linux) |
| native collector, `crates/phrasic/src/platform/linux_mpris.rs` | a connection, one refresh in progress | connect, list, read each player, choose, load artwork, publish, reconnect, stop | asks the players on the session bus; replaces the snapshot; stopped by supervision | `NativeSnapshot` |
| source selection, `crates/phrasic-core` | none | choose one of several players, with or without a pin | called by the collector | `NativeSnapshot` (`Selection`) |
| artwork loader, `platform/linux_artwork.rs` | one artwork | load, from its cache or the URL | called by the collector | `NativeSnapshot` (`Cached`, `LoadArtwork`) |
| snapshot service, `crates/phrasic-rpc` | latest response with revision and time, request slots | replace, read, refuse | collector writes, gateway reads | replacing in `NativeSnapshot`, reading in `LocalDisplay` |
| generated-message mapper, `browser/local/generated-mapper.ts` | none | read one response | between the native process and the local worker | `LocalAnswer` |
| request deadline, `apps/web/src/browser/request-deadline.ts` | one timer and an abort listener per request | create, abort, expire, dispose | around every request | `ProviderRequests` |
| Spotify requests and payloads, `browser/providers/*`, `auth/token.ts` | none | fetch, read the body, validate it | its results are the worker's answers | `RequestPort` (contract), `ProviderRequests`, `SpotifyAnswers` |
| overlay, both displays, `apps/web/src/components/*` | React state: shell transition, measured widths, one timer, effects | render, measure, time a phase, end a transition | draws the snapshot of its application | `OverlayPresentation`, `OverlayFrame` |
| configuration, `browser/config*.ts` | none | validate one document | its outcome is in `DisplaySession` | not planned |
| fake provider and control, `browser/fake/*` | a development connection | drive the display by hand | | not planned |
| hosted static server, generated code, scripts, wiring | none that matters | | | not planned |

What is hard, and where, is the list `hazards` of `PROJECT.json`, each at its
line with the properties that would catch it.  In short:

- **worker**: an answer arrives after its operation was cancelled; the epoch
  counter wraps; a timer fires while an item is awaiting; hide, log out and
  dispose overtake queued work; two refusals in a row.
- **page and worker**: each acts on an old view of the other; startup commands
  cancel each other.
- **sign-in**: two tabs, one database, one account; a provider that may rotate
  its token although the answer is lost; transactions that cannot be aborted.
- **local display**: the age of a playback across failures, deadlines and
  hiding; a page that keeps no time; commands that race an answer.
- **collector**: players and the bus change, hang and vanish between two reads of
  one refresh; artwork arrives after the selection moved on; a stop meets a bus
  that answers nothing.
- **requests**: deadline, abort, headers and body in any order; documents that
  are wrong in one place.
- **overlay**: snapshots change during a transition; a timer and the end of a
  transition both end a phase; widths are known one render late.

What makes each part correct:

- lifecycle and worker: aborted work writes nothing; suspended means quiet; a
  credential in memory only when signed in; every operation ends; a connected
  visible display keeps being refreshed; a logout reaches storage.
- page: agrees with its worker once the channels are empty; a hidden page falls
  silent.
- sign-in: a code is used once; a logout is final for its tab; the stored token
  is usable; no usable token is thrown away.
- local display: old playback is never called current, recent playback never
  given up, publishing never stops while visible and polling stops when hidden.
- host: the capability lets one client in and none after a revocation; a call's
  place is always given back; the host does not outlive its control input.
- supervisor: the socket of a live process is never removed and a dead one keeps
  nobody out; a host has its own process behind its endpoint; what was forced is
  reported; every stop ends.
- collector and service: what is served was so while it was read; once the desktop
  keeps still the snapshot agrees with it; what is served, the browser can read.
- requests: one answer, one the caller is prepared for, none but "no answer" after
  an abort; every request ends; no timer or listener is left behind.
- overlay: every part of a picture at rest is of the current snapshot; texts change
  only behind a closed shell; the shell fits its texts and comes to rest.

## 2. Plan

In this order; 1–10 are done.

1. `PlaybackDomain`: the lifecycle as guarded functions.
2. `PlaybackWorker` (extends 1): the core.
3. `DisplaySession` (extends 2): page and worker composed over two channels.
   `DisplaySessionProofs` proves about the worker alone, and that the composition
   implements it.
4. `SpotifyAuthorization`, `SpotifyAuthorizationProofs`.
5. `LocalDisplay`, `LocalDisplayProofs`.
6. `HostProcess`, the contract between a host and whoever starts it, `LocalHost`
   and `LocalHostProofs`, which shows that the host implements it.
7. `NativeSupervisor`, `NativeSupervisorProofs`: several processes, each with a
   child that behaves as `HostProcess` says, that share one lock and endpoint.
8. `LocalAnswer`, `NativeSnapshot` (extends it), `NativeSnapshotProofs`: collector,
   selection, artwork and read model, and what the browser reads of their answers.
9. `SpotifyAnswers` (extends 1), `RequestPort`, the contract of a request the
   worker relies on, `ProviderRequests` and `ProviderRequestsProofs`, which shows
   that the requests implement it.
10. `OverlayPresentation` (extends 1), `OverlayFrame` (extends it),
    `OverlayFrameProofs`: the picture.
11. Left: the composition of the worker with the sign-in, replacing the worker's
    nondeterministic authorization answers.  What every run checks of safety is proved;
    left to prove is what corresponds to `AgreesWhileStill` for the other liveness
    properties, the part of each that needs no fairness.

## 3. Modules and how they correspond to the code

`PROJECT.json` maps each definition to its lines.  Slips, the definitions whose
comment starts with "Slip:", are plausible bugs used to test the properties;
they are not part of any specification.

**PlaybackDomain.**  `After(state, event)` is `transitionPlaybackState`.  A
state is a kind and a detail; the detail is an item, a failure, a reason or
nothing.  `Accepts` holds the code's refusals, `Target` the result.

**PlaybackWorker.**  The worker is an event loop with one promise chain.
`frame` is the running item: where it awaits, for which operation epoch, and
whether that was aborted.  `queuedWork` are the items behind it.  A step is what
runs between two awaits:

| Action | Code |
|---|---|
| `Receive(command)` | a command's synchronous part in `receive`: enqueue, or cancel, or change visibility |
| `Fire(slot)` | a timer callback of a `ScheduledTaskSlot` |
| `Dequeue`, `StartWork` | the beginning of the next item up to its first await |
| `Answer` | the settled await and all that follows up to the next await |

Commands arrive only at task boundaries (`AtTaskBoundary`): promise
continuations run before the next task.  The epoch wraps at `MaxEpoch`, which is
`Number.MAX_SAFE_INTEGER` in the code.  Reading the clock and setting a timer can
fail; each step sees one reading and one scheduler outcome.  Delays are not in
the state: a timer that is set may fire at any later time, which contains every
delay.  Diagnostics and what is in a credential are left out.  Emissions within
one step are merged: the page sees the last one.

**DisplaySession.**  Extends the worker with the page and both channels.  A
behaviour is the life of one page.  `Emitting` posts a state when a worker step
changed it; `Prepared` posts the startup commands together, as the code does;
`DisposePage` terminates the worker with everything on its way.  `StepWithinPage`
is a worker step seen from here; that it is one is the theorem `WorkerImplemented`,
so nothing of the worker has to be shown again.

**SpotifyAuthorization.**  One record per tab says at which await its operation
is.  Transactions are atomic and, once begun, happen even if the operation is
aborted; the answer to a token request is lost, or arrives.  The provider is
external, modelled from what the code sends it and expects back: it redeems a
code once, refuses a token that is not valid and may rotate one when it is used.
`Abort`, `Logout` and `CloseTab` are what the worker or the user may do at any
time.  Tabs are unrelated otherwise: there is no lock between them in the code.

**LocalDisplay.**  A timed model: `now` counts equal steps.  `Tick` is enabled
when no message is on its way, no timer is due, no poll is past its deadline and
the collector is not late.  So messages inside the browser are immediate,
timers punctual, and the collector replaces its snapshot at least every
`CollectLag`.  A poll is two calls under one deadline: `request` goes from
`instance` to `snapshot` to `answered`.  `PollFails` is every way it can fail.
An abort rejects the awaiting call at once and its result is not looked at, so no
poll survives `FinishRequest`.  The native clock starts with the native
process, at 0; the browser's clock has the same rate.

`Presentation` is `resolveLocalPlaybackPresentation`: *content* while the last
playback is at most `Fresh` old, *stale-content* up to `Stale`, otherwise
*unavailable*.  Playing is distinguished from everything the display shows
without an age (paused, untitled, no source, unsupported).  The outcome `Stale`
of the schema is never sent by a collector of this version and is left out.
Disposal by command and by termination are merged: nothing can tell them apart.

**HostProcess, LocalHost.**  `HostProcess` is what the native process and the
page may rely on: a stage, whether there is a session, and the control input.
`LocalHost` is the host itself.  A pairing request is `AskToPair` until its body
is read, then `PairingAnswered` (`redeem` in one step: it does not await), or
`PairingBroken`; the answer may be lost, and then nobody holds the cookie.  A
call is admitted by `BeginCall`, where the code checks the cookie and the limit
and counts it, all without an await; it is forwarded or not, and ends by
`EndCall` however it ends, which is the code's `finally`.  `ReadRevoke`,
`ReadStop` and `ReadEnd` are the control loop's three outcomes of a read;
`BeginStop` is the part of `stop` before its await, `Stopped` the rest.  A line is
read in one step: how bytes arrive does not matter because the loop keeps the
unfinished line.  Refinement: the stage is the host's life, with *revoked* while a
serving host has read the first line; the session is over when the capability
is revoked or the host has exited.  That `server.stop()` admits no new request and
waits for those in progress is the runtime's documented behaviour (external).

**NativeSupervisor.**  Every variable but two is a function of the process: `lock`
and `endpoint` are shared.  `endpoint` is the process that bound the file there; it
is stale when that process no longer listens, which is what a refused connection
tells the code.  `stage` says where `run_with_shutdown` is, from `checking` over
`supervising` to `unlocking`; `task` where the spawned `supervise_bun_command` is, at
the same time; `host` and `control` are the child's life and its input, as in
`HostProcess`, with *starting* split into *ready* and *serving* because the port is
taken between the two.

| Action | Code |
|---|---|
| `Prepare`, `CheckEndpoint`, `RemoveStale`, `Bind`, `DropEndpoint` | `EndpointGuard`, one step for each system call that others can see |
| `Ready`, `NotReady` | `prove_readiness` |
| `ChildEndedFirst`, `StopRequested`, `Joined` | the `select!` of `supervise_lifecycle_with_deadlines` and what follows in each branch |
| `StopServer`, `Collected` | `stop_server_with_deadlines`, the collector's end |
| `Launch` to `KillHost` | the child's task: its spawn, its control record, its `select!`, `stop_child_with_deadlines` |
| `HostReady` to `HostExits` | the host |
| `Interrupt`, `ServerFails`, `Crash`, `Gone` | what may happen at any time |

Deadlines are not clocks here: one that runs may pass.  A crash takes two steps: the
kernel closes the lock's file before the socket, so another process can hold the lock
while the first still seems to listen; it then gives up (`RefusedForCause` allows
exactly this).  A server that ended first and an interrupt take the same path: both
cancel and join the child, and stopping a server that has ended does nothing.
Merged into success or failure: the checks of the private directory, the record's
syntax, the delivery of the URL, missing pipes and errors of wait.

**LocalAnswer, NativeSnapshot.**  One refresh of the collector is many steps, since
it awaits the session bus many times: `ListNames`, then for each name `ReadStatus`
and `ReadMetadata`, or `SkipPlayer`; `Publish` chooses a source (`Selection`, which is
`select_source`) and serves it at once, or goes to `LoadArtwork`.  `player` and `bus`
are the world, which `PlayerChanges` and `BusChanges` may alter between any two steps.
A player that hangs answers nothing until `PROPERTY_DEADLINE`; a bus that hangs does
not answer calls without a deadline either.  `Disconnect` is the end of
`drive_connection` with an error: the snapshot becomes *native session
unavailable* and the connection is made again after `WaitOver`.  `during` is a history
variable: the states each player had since the refresh began; the code has no such
state.  The revision saturates at `LastRevision`, which is `u64::MAX`.  `LocalAnswer`
is the other end, the browser's switches over the open enumerations of the schema;
`Served` is what the process puts into them.  The two are in two languages and share
only the schema.

**SpotifyAnswers, RequestPort, ProviderRequests.**  A document is known by the form
of each field (missing, null, a padded text, an array, ...) and by the values the
parsers compare; `ParsePayload`, `TokenResult` and `StatusResult` are the parsers.
`ProviderRequests` is one request under its deadline: `Ask` and its two variants,
`AbortCaller`, `DeadlineExpires`, and what the network brings to each of its two
awaits.  An awaited promise that was resolved before the abort is still taken, which is
why the code asks again after each await.  `RequestPort` is what `PlaybackWorker` and
`SpotifyAuthorization` take for granted of every request.

**OverlayPresentation, OverlayFrame.**  `OverlayPresentation` holds the tables: what
identifies a picture, which lines, links, definitions and controls it has, the
arithmetic of widths (with the code's numbers) and the page's query.  A text is a
tuple of what it is made from.  `OverlayFrame` is how a picture comes about:

| Action | Code |
|---|---|
| `SnapshotChanges`, `PreferenceChanges` | the application's state, the media query |
| `Render` | a render and its commit: the reducer applies what was dispatched, and synchronizes with the snapshot while rendering |
| `Measure`, `Measured` | the layout effects, each round of which renders again in the same task |
| `PassiveEffects` | the stored snapshot and the timer's effect, with its dependencies |
| `TimerComesDue`, `TimerFires` | the phase's timer; it uses the snapshot last stored |
| `WidthTransitionEnds`, `CompleteWidthTransition` | the browser's event; its handler is the committed frame's |

`EndPhase` is what the last two dispatch.  The reducer's outcome depends on its state and the
action only, so it is applied when it is dispatched; `dispatched` says that a render is due.

## 4. Runs

All invariants of a run are checked in every state it reaches.

| Run | Shows | Bounds |
|---|---|---|
| `worker_safety` | every order of all eight commands, three timers and all answers, with clock and timers that may fail: `QuietWhenSuspended`, `CredentialMatchesState`, `FlightBelongsToFrame`, `AbortedWritesNothing`, `NoSilentReconnect` | epochs wrap at 3, two queued items, three rungs of the retry ladder, one item |
| `worker_liveness` | `OperationsEnd`, `LogoutClearsStorage`, `ShownPlaybackIsRefreshed`, `NotStranded` | epochs wrap at 2, one queued item, two rungs; working clock and timers; no callback on a connected display |
| `display_session` | `VisibilityAgrees`, `SnapshotAgrees`, `HiddenPageFallsSilent`, `DisplayDecides` | epochs wrap at 2, three commands and one message on their way, no items, one user command |
| `spotify_authorization` | `CodeSentOnce`, `LogoutForgets`, `StoredTokenUsable`, `DeletesOnlyRefused` | two tabs, two attempts, three refresh tokens, symmetric |
| `local_display` | `HonestFreshness`, `KeepsUp`, `ShownIsRecent`, `HiddenIsQuiet` | eight time steps, freshness limits 1 and 3, deadline 1, ladder 1, 2 |
| `local_host` | `OneClientPaired`, `ImplementsHostProcess`, `StopsWhenAlone` | two clients that both know the capability, two calls for one place, two control lines unread |
| `native_supervisor` | `HostHasItsEndpoint`, `OnlyDeadSocketsRemoved`, `EveryStopEnds`, `OrphanExits` | two processes, each runs once |
| `native_snapshot` | `ArtworkBelongs`, `ServedAsObserved`, `ReadAsServed`, `AgreesInTheEnd`, `StopsOnShutdown` | two players, pinned or not, two tracks with different artwork, activities known and unknown, two changes of players or bus, revision saturates at 1 |
| `overlay_frame` | `RestsOnCurrent`, `SizedByItsTexts`, `ChangesBehindShell`, `SettlesOnCurrent` | both displays, three items of two identities, titles too long, long, short and empty, two queries, three changes |
| `provider_requests` | `GuardedWhilePending`, `ImplementsRequestPort`, `EveryRequestEnds` | every kind of document and every document with one field of another form; values on both sides of every boundary |
| `worker_retry_after_failure`, `session_sign_in_callback` | see *Findings* | as small as shows it |

Why the bounds are enough.  An epoch can be confused only with one that is in
use, and at most one item awaits while the newest operation is another: a counter
that wraps after two already lets an old epoch meet its double, and the proofs
hold for every bound.  Queued items do not look at each other, so two suffice
for order.  The channel has room for the three startup commands the page posts
at once.  Two tabs are what one races, two attempts what one confuses; three
tokens allow a rotation to be rotated.  In the local display the order of the
durations (deadline ≤ delay ≤ fresh + delay < stale + delay) is kept and eight
steps see a playback grow current, stale and gone across several failures; the
five theorems are for all durations.  Two clients and one more call than places
are what a race for the capability or a place needs; the control loop reads one line
at a time, so two unread lines show every order.  Two processes are
one that crashes and the one after it, or two at the same time; longer chains of
crashes are left to the proofs, which are for any set of processes.  Two players make
a choice ambiguous, and two changes during a refresh let one moment's status meet
another's metadata, or a player vanish while another hangs; the safety properties are proved
for any number of both.  Three changes of a snapshot are one that starts a transition, one
during the collapse and one during the opening; with four, a fast double change of the motion
preference meets a timer left from before it, which is why `ChangesBehindShell` speaks of two
frames with motion, and the theorems are for any number of changes.  One request at a time suffices because
requests share nothing.  `Items` is empty in the session runs because the
channels do not look into a state.  Symmetry is used in `spotify_authorization`
only, which checks no liveness.

`CHECK_DEADLOCK FALSE` is set where the system may stop: a page that was left, a
browser whose user does nothing more, the end of time in `LocalDisplay`, a
host that has exited, native processes that have all ended, a stopped collector, and
a picture at rest when nothing may change any more.

### Fairness

`PlaybackWorker`: weak fairness of a worker step, because the promise chain runs
each continuation and every port settles (requests have deadlines, transactions
complete or fail); strong fairness of each timer, because an event loop does not
let a due timer starve, although other tasks disable it in between.
`DisplaySession`: weak fairness of the page's startup and of its receipt of
messages, strong fairness of the delivery of commands and of timers, for the
same reason.  Nothing obliges the user, the page's visibility, or an answer's
content.  Fairness is assumed only with a working clock and scheduler: when
either fails the code reports a diagnostic and may stop polling.

`LocalHost`: weak fairness of reading the control input, of the end of stopping,
and of the end of each request, because the runtime's idle timeout bounds the
reading of a body and each forwarded call has a deadline of two seconds.

`NativeSupervisor`: weak fairness of each process's own steps, because the runtime
awaits every wait and all but two have a deadline.  The exceptions are the host's
exit while it serves, which is not assumed, and the collector's end, which is:
while it connects to the session bus it does not look at its cancellation, so its
end is up to the bus (a listed hazard).  A host starts or gives up, since its own
calls have deadlines, and obeys its input, which is `LocalHost`'s `StopsWhenAlone`.

`NativeSnapshot`: weak fairness of the collector's own steps, for its task runs and all
reads of players have a deadline; a step that waits for a hung bus is not enabled and
owes nothing.  Strong fairness of `Stop`: `tokio::select!` polls its branches in random
order, so a cancelled token is not passed over for ever.

`OverlayFrame`: weak fairness of rendering, of layout and passive effects and of the
timer, which React and the event loop run.  None of the end of a width's transition:
in a hidden page no transition is drawn, and the timer is there for that.

`ProviderRequests`: weak fairness of the deadline's timer, of the caller's
continuation, and of the rejection of a fetch or a body whose signal is aborted.
None of the network.  `EveryRequestEnds` is what `PlaybackWorker`'s fairness of answers
rests on as far as requests go.

`LocalDisplay` needs no fairness: progress is a bound in time (`KeepsUp`), which
is a safety property because time cannot pass over a due timer.

## 5. Findings

- `worker_retry_after_failure`: the retry control, after a failure that kept the
  credential, polls from the initializing state.  `transitionPlaybackState`
  refuses every result there, the worker returns without a timer, and the display
  stays initializing.
- `session_sign_in_callback`: the page posts `initialize`, `consume-callback` and
  its visibility together.  The callback's receipt cancels what initialize began,
  the display is still initializing when the callback's turn comes, and the
  callback is refused: the sign-in is lost.

Two observations are hazards without a finding.  A malformed playback cancels the timers but
not a refresh that is queued already, which then schedules a poll while the failure is
shown (hazard at `runtime.ts:844`).  And an answer the local mapper cannot read
sets the native clock to 0, so that an old playback may later be taken for current:
`HonestFreshness` and two more theorems about `LocalDisplay` assume `Readable`, that no
such answer comes.  `ReadAsServedTheorem` is what that assumption rests on for
the native process of this version; one of another version could send one.

## 6. Proofs

TLAPS checks every theorem below.  The constants' assumptions are the named
ASSUMEs of the modules: bounds are natural numbers, commands and outcomes are
known ones, null values are outside their sets.

**DisplaySessionProofs**, part 1: the worker alone.  `TypeCorrect`, then one inductive
invariant `IInv`.
The safety properties are not inductive alone.  That a credential is only held
while signed in needs that a refresh or poll that has not been aborted belongs to
a signed-in display (`RequestsAreSignedIn`) and that a sign-in that has not been
aborted belongs to a signed-out one (`SignInsAreSignedOut`).  That an abort is
final needs that while an answer still matters some operation can be aborted
(`Abortable`).  From `IInv` follow `QuietWhenSuspended`,
`CredentialMatchesState` and `FlightBelongsToFrame` as invariants and
`AbortedWritesNothing` as an action property; `NoSilentReconnect` needs also that
the playback is initial until the worker is active.

`NotStranded` looks at an idle worker; what is inductive is `ConnectionGoesOn`, which says
what carries a shown connection at any moment: a timer, a recovery that waits its turn, or a
request whose answer is still wanted.  `NotStrandedTheorem` assumes `PlatformWorks` (the clock
can be read and timers can be set), without which the code stops polling, and that no
callback is received: its receipt cancels everything, and a callback that finds a connected
display is refused, so that nothing is left.  `LogoutIsKept` says of every step that an
accepted logout stays on the worker's chain until its turn comes: it was accepted from an
active worker (`LogoutOfActive`), so that its turn clears storage unless the worker was
disposed of.

**DisplaySessionProofs**, part 2: page and worker.  `WorkerImplemented`: every behaviour of the session is one of
`PlaybackWorker`, so that `WorkerSafeBehindPage` follows from the worker's theorems.
`SnapshotAgreesTheorem` rests on `EventsTold`: the last state on its way, or what the page
shows if none is, is the worker's.  `VisibilityAgreesTheorem` rests on `VisibilityTold`:
while a ready page's worker is not initialized, `initialize` is still on its way with the
page's visibility behind it, or has its turn next with the visibility on its way
(commands ignored before it do not count); afterwards the last visibility on its
way, or the worker's own if none is, is the page's.  With `QuietWhenSuspended` this gives
`HiddenPageIsSilent`.  `NotStrandedBehindPage` needs no restriction on callbacks: by
`Recovering`, a callback on its way has the page's visibility behind it, and hearing
that it is visible the worker recovers.

**SpotifyAuthorizationProofs.**  For any set of tabs and attempts.
`CodeSentOnce` rests on `SignInInv`: a code that was sent has no pending attempt
left and its attempt cannot be created again.  `LogoutForgets` rests on
`LogoutInv`: a tab that did nothing since its logout runs nothing.
`StoredTokenUsable` and `DeletesOnlyRefused` rest on `TokenInv`, which says of
every operation what its token can be at each point: one that is issued and not
yet stored is known to that operation only, one that was refused is not valid.  Each invariant
has a *frame*: a formula most actions satisfy, from which preservation follows at once,
so that only the few actions that matter need an argument of their own.

**LocalDisplayProofs.**  For all durations and ladders.  `TypeCorrect` is proved
together with `TimeInv`: no deadline or due timer is passed over.  `AnswerInv`
and `MemoryInv` bound the difference between the native time the worker
believes and the present by the skew, `CollectLag + RequestDeadline`, through any
run of failures; hence `HonestFreshness` and `RetainsRecent`.  `ChannelInv`
says the last command on its way tells the page's visibility; hence `HiddenIsQuiet`.  `PollInv`
says a visible worker has a poll that began, or is due, within one longest delay
of the last publication; hence `KeepsUp`, and with `HonestFreshness`,
`ShownIsRecent`.  The three freshness theorems assume `Readable`.

**LocalHostProofs.**  For any clients, calls and limit.  `CallsAccounted` is inductive
with the types, by the cardinality of the set of calls in progress.
`PairingInv` says that nobody holds the cookie while the capability is good, so
whoever uses it up is alone, and that a host that stops or was told to revoke has
no session; from it follow `OneClientPaired` and the step simulation of
`HostProcessImplemented`, one step of the proof for each action.

**NativeSupervisorProofs.**  For any set of processes.  `IInv` is a conjunction of
parts: who holds the lock by stage (`LockInv`), whose server runs (`ListenerInv`),
whose file is at the path (`BoundInv`), that a file found stale stays as it was found
until removed (`StaleInv`), how stage and task fit (`StageInv`), that a host that
lives has a task that will end it or a process that died (`TaskInv`), and where the
fact of a force is kept until it is reported (`ForcedInv`).  The argument behind all
of them: only the holder of the lock changes the endpoint.

`RefusedForCause` and `ForcedIsReported` are proved from the same invariant: a process that
holds the lock gives up at the endpoint only for a foreign file or a process that is just
dying, and nothing stopped by force goes unreported.

**NativeSnapshotProofs.**  For any finite set of players, any pins, tracks and changes.
`ReadInv` says that whatever a refresh has read, its player was so since the refresh began;
`ServedAsObservedTheorem` follows with the lemma `PublishServes`, which reduces the
choice of a source to its forms.  `ArtworkBelongsTheorem` needs the loader's test of its
one entry.  `ReadAsServedTheorem` needs `Servable`, which ties reasons to kinds, and pins
to reasons.  `TypeCorrect` bounds the revision.

`AgreesWhileStill` is about every suffix of a behaviour in which the bus and its players keep
still and that begins with no refresh under way (`Settled`): each snapshot served from then
on agrees with what is there, and none is served again that does not.  Within such a
suffix `Exact` is inductive: what was read of a name is what a reader of the bus would
read, so that candidates and shown players are the same set (`ChoiceAgrees`).  That a
refresh comes at all is the liveness TLC checks.

**ProviderRequestsProofs.**  For any statuses, headers and documents.  That the parsers
return only what their callers are prepared for are lemmas over all documents, not only the
listed ones; `TypeCorrect` carries them through a request.  `GuardedWhilePendingTheorem` is
inductive with it, and `RequestPortImplemented` is a step simulation: each step is one of
`RequestPort` or changes nothing of it.

**OverlayFrameProofs.**  For any events, views, queries and widths of texts; assumed are
`FrameAssumption` (events bring what their type says) and `WidthAssumption` (a width is a
natural number).  `RestsOnCurrentTheorem` rests on `ShownIsCurrent`.
`ChangesBehindShellTheorem` needs `PhaseInv`, because timer and end of a transition each act
on what their own render saw and both may act between two renders.  Its parts: an
identity always belongs to its snapshot; until something is dispatched the reducer holds what
was rendered; when both ends of a phase are due, at most one has been used
(`OneLeftToDispatch`); the timer of a frame whose effects have run is of that frame's phase;
and what a timer left over from the frame before can still find (`LeftoverTimer`), which is
what makes it harmless.  `SizedByItsTextsTheorem` needs `SizeInv`: a line that was measured
decided and reported by what it was measured for, no width is kept of a line that is not
drawn, and once laid out no line is due.  The widest text is then also the widest report.
`RestsWhenNothingIsLeftTheorem` rests on `TimedUntilTold`: if the timer that a committed phase
was to set is gone, the reducer has been told to leave that phase, so a render that
finds the same dependencies, and sets no timer, cannot be of the same phase.

**Only model-checked.**  Liveness under fairness (`OperationsEnd`,
`LogoutClearsStorage`, `ShownPlaybackIsRefreshed`, `HiddenPageFallsSilent`,
`DisplayDecides`, `StopsWhenAlone`, `EveryStopEnds`, `OrphanExits`, `AgreesInTheEnd`,
`StopsOnShutdown`, `SettlesOnCurrent`, `EveryRequestEnds`) is out of this prover's reach, as
is anything about ENABLED.  Every invariant and every action property of a passing run
is proved, and both contracts.  Of `LogoutClearsStorage`,
`HiddenPageFallsSilent`, `AgreesInTheEnd` and `SettlesOnCurrent` the part that needs no
fairness is proved too (`LogoutIsKept`, `HiddenPageIsSilent`, `AgreesWhileStill`,
`RestsWhenNothingIsLeft`).  No module declares a recursive operator and
no proof uses induction over data.

**Only proved.**  `RetainsRecent`, `CallsAccounted`, `RefusedForCause`, `ForcedIsReported`,
`RestsWhenNothingIsLeft`, `AgreesWhileStill`, `HiddenPageIsSilent`, `NotStrandedBehindPage`,
`LogoutIsKept` and the type invariants are in no run: their theorems hold for every value of the
constants.

## 7. Not modelled

Section 1 lists the parts.  Not modelled: validation of the configuration and
of command lines (pure functions of one document, well tested), the Windows
supervisor and collector (the same lifecycle over other system calls; a named
pipe is removed by the system), wording, colours and the geometry of single lines,
static responses, the development provider, generated code, build scripts.  Left out of the
modelled parts: diagnostics and their wording, the contents of credentials and
of metadata and of images, exact delays of the hosted worker, address parsing beyond
valid or invalid, the opening and upgrading of the database, corrupted records, the
pairing request beyond its outcome, and clocks that run at different rates.
