--------------------------- MODULE DisplaySession ---------------------------
(***************************************************************************)
(* The page of the browser display and its worker                          *)
(* (apps/web/src/browser/application.ts composed with PlaybackWorker).     *)
(*                                                                         *)
(* The page posts commands on one FIFO channel and the worker posts        *)
(* playback states, redirects and its fatal failure on another, so what    *)
(* the worker acts on and what the page shows both lag behind.  A page     *)
(* that leaves terminates its worker at once.  A behaviour is the life of  *)
(* one page: a sign-in leaves it for the provider, whose answer loads the  *)
(* next page, the one that starts with the callback in its address.        *)
(***************************************************************************)
EXTENDS PlaybackWorker

CONSTANTS
    UserCommands,    \* what the display's controls can post
    MaxChannel,      \* bound: commands posted and not yet received
    MaxEvents        \* bound: messages posted and not yet received

ASSUME SessionAssumption ==
    /\ UserCommands \subseteq {"begin-authorization", "retry", "logout"}
    /\ UserCommands \cup {"initialize", "consume-callback", "hide", "show"} \subseteq Commands
    /\ MaxChannel \in Nat /\ MaxChannel >= 3
    /\ MaxEvents \in Nat \ {0}

VARIABLES
    application,       \* the page's life: not-started .. ready .. disposed
    address,           \* display, provider, or callback
    pageVisibility,    \* what document.visibilityState says
    channel,           \* commands on their way to the worker
    events,            \* messages on their way to the page
    snapshot           \* what the page renders

page == <<application, address, pageVisibility>>
sessionVars == <<vars, page, channel, events, snapshot>>

Fatal == [kind |-> "fatal"]
Redirect == [kind |-> "authorization-redirect"]

\* The page has a worker: between start and the first pagehide.
HasWorker == application \in {"preparing", "ready", "unconfigured"}

InitSession ==
    /\ Init
    /\ application = "not-started"
    /\ address \in {"display", "callback"}
    /\ pageVisibility \in {"hidden", "visible"}
    /\ channel = <<>>
    /\ events = <<>>
    /\ snapshot = InitialPlaybackState

-----------------------------------------------------------------------------
(* The page.                                                                *)

Visibility(shown) == IF shown = "visible" THEN "show" ELSE "hide"

PostCommands(commands) ==
    /\ Len(channel) + Len(commands) <= MaxChannel
    /\ channel' = channel \o commands

\* start: the worker exists from here on, whatever its configuration.
StartPage ==
    /\ application = "not-started"
    /\ \/ application' = "preparing" /\ UNCHANGED snapshot
       \/ snapshot' = Fatal /\ UNCHANGED application
    /\ UNCHANGED <<vars, address, pageVisibility, channel, events>>

StartupCommands ==
    IF address = "callback" THEN <<"initialize", "consume-callback">>
    ELSE <<"initialize">>

\* Slip: the page relies on the worker starting out visible.
PreparedWithoutVisibility ==
    /\ application = "preparing"
    /\ application' = "ready"
    /\ PostCommands(StartupCommands)
    /\ UNCHANGED <<vars, address, pageVisibility, events, snapshot>>

\* initialize, once the configuration has arrived.
Prepared ==
    /\ application = "preparing"
    /\ application' = "ready"
    /\ PostCommands(Append(StartupCommands, Visibility(pageVisibility)))
    /\ UNCHANGED <<vars, address, pageVisibility, events, snapshot>>

PreparationFailed ==
    /\ application = "preparing"
    /\ application' = "unconfigured"
    /\ snapshot' = Fatal
    /\ UNCHANGED <<vars, address, pageVisibility, channel, events>>

\* The browser hides or shows the page; the page tells its worker.
VisibilityChange ==
    /\ pageVisibility' \in {"hidden", "visible"} \ {pageVisibility}
    /\ IF HasWorker THEN PostCommands(<<Visibility(pageVisibility')>>)
       ELSE UNCHANGED channel
    /\ UNCHANGED <<vars, application, address, events, snapshot>>

UserPosts(command) ==
    /\ HasWorker
    /\ PostCommands(<<command>>)
    /\ UNCHANGED <<vars, page, events, snapshot>>

\* pagehide: the worker is terminated, with whatever is on its way to it, and
\* no listener is left for what is on its way from it.
DisposePage ==
    /\ HasWorker
    /\ application' = "disposed"
    /\ channel' = <<>>
    /\ events' = <<>>
    /\ UNCHANGED <<vars, address, pageVisibility, snapshot>>

\* Slip: a page nobody sees does not bother to render.
ReceiveEventWhenVisible ==
    /\ HasWorker
    /\ events # <<>>
    /\ events' = Tail(events)
    /\ IF Head(events) # Redirect /\ pageVisibility = "visible"
       THEN snapshot' = Head(events)
       ELSE UNCHANGED snapshot
    /\ UNCHANGED <<vars, page, channel>>

\* receiveWorkerMessage; a redirect only begins to navigate, pagehide follows.
ReceiveEvent ==
    /\ HasWorker
    /\ events # <<>>
    /\ events' = Tail(events)
    /\ IF Head(events) = Redirect
       THEN \/ address' = "provider" /\ UNCHANGED snapshot
            \/ snapshot' = Fatal /\ UNCHANGED address
       ELSE snapshot' = Head(events) /\ UNCHANGED address
    /\ UNCHANGED <<vars, application, pageVisibility, channel>>

WorkerFailed ==
    /\ HasWorker
    /\ snapshot' = Fatal
    /\ UNCHANGED <<vars, page, channel, events>>

-----------------------------------------------------------------------------
(* The worker, as the page's other half.                                    *)

PostEvent(event) ==
    /\ Len(events) < MaxEvents
    /\ events' = Append(events, event)

\* A worker step tells the page what it changed, if it changed anything the
\* page shows.
Emitting ==
    IF runtimeStatus' = "fatal" /\ runtimeStatus # "fatal" THEN PostEvent(Fatal)
    ELSE IF playback' # playback THEN PostEvent(playback')
    ELSE UNCHANGED events

RefusedAtReceipt(command) ==
    /\ command \in {"hide", "show", "logout"}
    /\ ~IsRuntimeActive
    /\ UNCHANGED vars

DeliverCommand ==
    /\ HasWorker
    /\ channel # <<>>
    /\ channel' = Tail(channel)
    /\ AtTaskBoundary
    /\ Receive(Head(channel)) \/ RefusedAtReceipt(Head(channel))
    /\ Emitting
    /\ UNCHANGED <<page, snapshot>>

WorkerFires(slot) ==
    /\ HasWorker
    /\ Fire(slot)
    /\ UNCHANGED <<page, channel, events, snapshot>>

\* The worker's own steps but the redirect, whose message is of another kind.
StepWithinPage(clock, accepted) ==
    \/ StartWork(clock, accepted)
    \/ AuthorizationConnected(clock, accepted)
    \/ \E reason \in FailureReasons \cup {"not-authorized"} : AuthorizationRefused(reason)
    \/ AnswerRefresh(clock, accepted)
    \/ AnswerPoll(accepted)
    \/ StaleAnswer
    \/ LogoutSettled

WorkerSteps ==
    /\ HasWorker
    /\ \E clock \in ClockReadings, accepted \in SchedulerOutcomes :
          \/ AuthorizationRedirected /\ PostEvent(Redirect)
          \/ StepWithinPage(clock, accepted) /\ Emitting
    /\ UNCHANGED <<page, channel, snapshot>>

-----------------------------------------------------------------------------
PageAdvances == StartPage \/ Prepared \/ PreparationFailed \/ ReceiveEvent

NextSession ==
    \/ PageAdvances
    \/ VisibilityChange
    \/ \E command \in UserCommands : UserPosts(command)
    \/ DisposePage
    \/ WorkerFailed
    \/ DeliverCommand
    \/ \E slot \in Slots : WorkerFires(slot)
    \/ WorkerSteps

SessionSpec == InitSession /\ [][NextSession]_sessionVars

\* Requests settle, and the event loops serve messages and due timers in order,
\* so neither is starved by the tasks that keep coming in between.
SessionFairness ==
    /\ WF_sessionVars(PageAdvances)
    /\ SF_sessionVars(DeliverCommand)
    /\ WF_sessionVars(WorkerSteps)
    /\ \A slot \in Slots : SF_sessionVars(WorkerFires(slot))

FairSessionSpec == SessionSpec /\ SessionFairness

-----------------------------------------------------------------------------
(* Properties.                                                              *)

\* An initialized worker that has received every command believes the page
\* exactly as visible as it is, although it ignores what it hears before it is
\* initialized.
VisibilityAgrees ==
    (application = "ready" /\ channel = <<>> /\ runtimeStatus = "active") =>
        visibility = pageVisibility

\* A page that has received every message shows the worker's playback state or
\* a fatal failure, never an older state.
SnapshotAgrees ==
    (HasWorker /\ events = <<>>) => snapshot \in {playback, Fatal}

\* A page that stays hidden falls silent: its worker ends up with no timer and
\* no request that it has not aborted.
HiddenPageFallsSilent ==
    <>[](application = "ready" /\ pageVisibility = "hidden")
        => <>[](scheduled = {} /\ (frame.at \in RefreshPoints \cup PollPoints => frame.aborted))

\* Left alone, a visible display that has no credential does not stay blank: it
\* connects, asks for a sign-in or fails, even when its startup commands
\* cancelled each other.
DisplayDecides ==
    <>[](/\ application = "ready"
         /\ pageVisibility = "visible"
         /\ channel = <<>>
         /\ runtimeStatus = "active"
         /\ accessToken = "missing")
        => []<>(playback.kind # "initializing")

\* The sign-in callback a page was loaded with is consumed: when its turn
\* comes on an initialized worker, the display is ready to complete a sign-in.
CallbackIsConsumed ==
    (/\ HasWorker
     /\ Idle
     /\ queuedWork # <<>>
     /\ Head(queuedWork) = "consume-callback"
     /\ IsRuntimeActive) =>
        playback.kind \in {"authorization-required", "authorizing"}
=============================================================================
