----------------------------- MODULE OverlayFrame -----------------------------
(***************************************************************************)
(* The frame both displays draw in (components/overlay, components/local): *)
(* a shell that collapses before it changes what it shows and opens again  *)
(* around the new texts, whose widths are known only once they are drawn.  *)
(*                                                                         *)
(* A picture is the work of several steps that other events come between:  *)
(* a render reads the snapshot and applies what was dispatched, layout     *)
(* effects measure what was committed and render again, passive effects    *)
(* run later and set the timer.  A phase ends when its timer fires or when *)
(* the browser reports the end of the width's transition, whichever comes  *)
(* first or both; each acts on what its own render saw.                    *)
(***************************************************************************)
EXTENDS OverlayPresentation

CONSTANTS
    HostedEvents,   \* events of the lifecycle to play
    LocalViews,     \* presentations of the local display
    Queries,        \* queries of the page
    MaxUpdates      \* bound: new snapshots and changes of the motion preference

ASSUME FrameAssumption ==
    /\ \A event \in HostedEvents : event \in Events /\ event.detail \in EventDetails(event.kind)
    /\ LocalViews \subseteq LocalSnapshots
    /\ MaxUpdates \in Nat

VARIABLES
    display,        \* which display it is
    geometry,       \* what the page's query asks for
    current,        \* the application's snapshot
    preference,     \* the user's motion preference: enabled or reduced
    updates,        \* how often the two have changed
    transition,     \* the shell transition reducer: identity, phase, snapshot
    dispatched,     \* it has changed since the last render
    frame,          \* what is committed: what its render saw and shows
    effects,        \* work left for the committed frame: layout, passive, none
    currentRef,     \* the snapshot the passive effects last stored
    timerFor,       \* what the timer effect last ran for
    timer,          \* the running timer's closure, or NoTimer
    measurements,   \* the text measurement reducer: identity and widths
    marquee,        \* per line drawn: what it was last measured for, and the decision
    animating,      \* the shell's width is in transition
    ended           \* a transition has ended that is not yet reported

inputVars == <<display, geometry, current, preference, updates>>
reducerVars == <<transition, dispatched>>
effectVars == <<effects, currentRef, timerFor, timer>>
measureVars == <<measurements, marquee, animating, ended>>
vars == <<inputVars, reducerVars, frame, effectVars, measureVars>>

Phases == {"stable", "collapsing", "opening"}

NoTimer == [phase |-> "none", identity |-> <<>>, due |-> FALSE]

NotMeasured == [identity |-> <<>>, available |-> 0, text |-> <<>>, overflows |-> FALSE]

Identity(snapshot) == AnimationIdentity(display, snapshot)

Keyed(snapshot, phase) ==
    [identity |-> Identity(snapshot), phase |-> phase, snapshot |-> snapshot]

\* The lines a frame draws; a line is mounted unmeasured.
Mounted(snapshot) == [line \in DOMAIN Texts(display, snapshot) |-> NotMeasured]

InitialSnapshot ==
    IF display = "hosted" THEN InitialPlaybackState ELSE LocalStatusView("idle", NoDetail)

\* The first commit.
Init ==
    /\ display \in Displays
    /\ geometry \in {ResolveOverlayGeometry(query) : query \in Queries}
    /\ current = InitialSnapshot
    /\ preference \in {"enabled", "reduced"}
    /\ updates = 0
    /\ transition = Keyed(current, "stable")
    /\ dispatched = FALSE
    /\ frame = [motion |-> preference, current |-> current, identity |-> Identity(current),
                phase |-> "stable", shown |-> current]
    /\ effects = "layout"
    /\ currentRef = current
    /\ timerFor = [current |-> <<>>, motion |-> preference, identity |-> <<>>, phase |-> "none"]
    /\ timer = NoTimer
    /\ measurements = [identity |-> Identity(current), widths |-> NoWidths]
    /\ marquee = Mounted(current)
    /\ animating = FALSE /\ ended = FALSE

-----------------------------------------------------------------------------
(* The application and the user.  Layout effects run in the same task as    *)
(* their commit, so nothing comes in between.                               *)

Successors ==
    IF display = "hosted"
    THEN {After(current, event) : event \in HostedEvents} \cup {State("fatal", reason) : reason \in FatalReasons}
    ELSE LocalViews

SnapshotChanges ==
    /\ effects # "layout" /\ updates < MaxUpdates
    /\ current.kind # "fatal"
    /\ current' \in Successors \ {current}
    /\ updates' = updates + 1
    /\ UNCHANGED <<display, geometry, preference, reducerVars, frame, effectVars, measureVars>>

PreferenceChanges ==
    /\ effects # "layout" /\ updates < MaxUpdates
    /\ preference' \in {"enabled", "reduced"} \ {preference}
    /\ updates' = updates + 1
    /\ UNCHANGED <<display, geometry, current, reducerVars, frame, effectVars, measureVars>>

-----------------------------------------------------------------------------
(* The shell's transition: useOverlayShellTransition.                       *)

\* overlayShellTransitionReducer; synchronize is dispatched while rendering.
Reduce(state, action) ==
    CASE action.kind = "begin-collapse" -> [state EXCEPT !.phase = "collapsing"]
      [] action.kind = "finish-opening" -> [state EXCEPT !.phase = "stable"]
      [] action.kind = "show-snapshot" -> Keyed(action.current, "opening")

Action(kind, snapshot) == [kind |-> kind, current |-> snapshot]

\* What ends a phase, as seen by one that knows the snapshot seen.
PhaseEnd(phase, identity, seen) ==
    CASE phase = "collapsing" -> Action("show-snapshot", seen)
      [] phase = "opening" /\ Identity(seen) = identity -> Action("finish-opening", seen)
      [] phase = "opening" /\ Identity(seen) # identity -> Action("begin-collapse", seen)

\* The reducer sees nothing but its state and the action, so what is dispatched
\* is applied at once and the next render reads the outcome.
EndPhase(phase, identity, seen) ==
    IF phase = "stable" THEN UNCHANGED reducerVars
    ELSE /\ transition' = Reduce(transition, PhaseEnd(phase, identity, seen))
         /\ dispatched' = TRUE

\* What the render itself dispatches, and is rendered again with at once.
\* Slip: reduced motion is looked at only when a new snapshot has come.
SynchronizedWhenStable(state) ==
    IF Identity(current) = state.identity \/ state.phase # "stable" THEN state
    ELSE IF preference = "reduced" THEN Keyed(current, "stable")
    ELSE [state EXCEPT !.phase = "collapsing"]

Synchronized(state) ==
    IF preference = "reduced"
    THEN IF state.phase # "stable" \/ Identity(current) # state.identity
         THEN Keyed(current, "stable") ELSE state
    ELSE IF state.phase = "stable" /\ Identity(current) # state.identity
         THEN [state EXCEPT !.phase = "collapsing"] ELSE state

\* Slip: what is shown follows the application, whatever the frame is keyed by.
ShownAtOnce(state) == current

Shown(state) ==
    IF state.identity = Identity(current) THEN current ELSE state.snapshot

-----------------------------------------------------------------------------
(* The shell's width: OverlayVisualFrame.                                   *)

ContentWidths(identity) ==
    IF measurements.identity = identity THEN measurements.widths ELSE NoWidths

WidthDrawn(phase, widths) ==
    IF phase = "collapsing" THEN MinimumWidth ELSE ShellWidth(widths)

FrameWidth == WidthDrawn(frame.phase, ContentWidths(frame.identity))

Available == AvailableWidth(ShellWidth(ContentWidths(frame.identity)))

\* The parts of the page, each with the snapshot it is drawn from.
Parts ==
    [artwork |-> Artwork(display, frame.shown),
     texts |-> Texts(display, frame.shown),
     links |-> Destinations(display, frame.shown),
     definitions |-> Definitions(display, frame.current),
     announcement |-> Announcement(display, frame.current),
     controls |-> Controls(display, frame.current, geometry.setup)]

-----------------------------------------------------------------------------
(* Rendering and its effects.                                               *)

\* Effects of the last commit run before the next render; a new key mounts its
\* lines anew.
Render ==
    /\ effects = "none"
    /\ dispatched \/ current # frame.current \/ preference # frame.motion
    /\ LET state == Synchronized(transition)
           shown == Shown(state)
       IN
       /\ transition' = state
       /\ frame' = [motion |-> preference, current |-> current, identity |-> state.identity,
                    phase |-> state.phase, shown |-> shown]
       /\ marquee' = [line \in DOMAIN Texts(display, shown) |->
                         IF state.identity = frame.identity /\ line \in DOMAIN marquee
                         THEN marquee[line] ELSE NotMeasured]
       /\ animating' =
             (/\ preference = "enabled"
              /\ \/ animating
                 \/ WidthDrawn(state.phase, ContentWidths(state.identity)) # FrameWidth)
    /\ dispatched' = FALSE
    /\ effects' = "layout"
    /\ UNCHANGED <<inputVars, currentRef, timerFor, timer, measurements, ended>>

\* What a line is measured for: the dependencies of its layout effect.
MeasuredFor(line) ==
    [identity |-> Identity(frame.shown), available |-> Available,
     text |-> Texts(display, frame.shown)[line]]

\* Slip: a line is not measured again when the shell has changed its width.
DueWithoutWidth ==
    {line \in DOMAIN marquee :
        \/ marquee[line].identity # MeasuredFor(line).identity
        \/ marquee[line].text # MeasuredFor(line).text}

Due ==
    {line \in DOMAIN marquee :
        \/ marquee[line].identity # MeasuredFor(line).identity
        \/ marquee[line].available # MeasuredFor(line).available
        \/ marquee[line].text # MeasuredFor(line).text}

\* The lines that are due measure themselves, decide and report; the frame is
\* rendered again, with its new width, until no line is due.
Measure ==
    /\ effects = "layout" /\ Due # {}
    /\ marquee' = [line \in DOMAIN marquee |->
                      IF line \notin Due THEN marquee[line]
                      ELSE [identity |-> MeasuredFor(line).identity,
                            available |-> MeasuredFor(line).available,
                            text |-> MeasuredFor(line).text,
                            overflows |-> Overflows(MeasuredFor(line).text, Available)]]
    /\ LET identity == Identity(frame.shown)
           widths == [line \in Lines |->
                         IF line \in Due THEN BoundedTextWidth(WidthOf(MeasuredFor(line).text))
                         ELSE ContentWidths(identity)[line]]
       IN
       /\ measurements' = [identity |-> identity, widths |-> widths]
       /\ animating' = (\/ animating
                        \/ /\ frame.motion = "enabled"
                           /\ frame.identity = identity
                           /\ WidthDrawn(frame.phase, widths) # FrameWidth)
    /\ UNCHANGED <<inputVars, reducerVars, frame, effectVars, ended>>

Measured ==
    /\ effects = "layout" /\ Due = {}
    /\ effects' = "passive"
    /\ UNCHANGED <<inputVars, reducerVars, frame, currentRef, timerFor, timer, measureVars>>

\* The two passive effects: the snapshot is stored, and the timer set anew
\* when the frame differs in what it depends on.
\* Slip: only a collapse is timed.
NeedsCollapseTimer == frame.motion = "enabled" /\ frame.phase = "collapsing"

NeedsTimer == frame.motion = "enabled" /\ frame.phase # "stable"

PassiveEffects ==
    /\ effects = "passive"
    /\ currentRef' = frame.current
    /\ LET dependencies == [current |-> Identity(frame.current), motion |-> frame.motion,
                            identity |-> frame.identity, phase |-> frame.phase]
       IN IF dependencies = timerFor THEN UNCHANGED <<timerFor, timer>>
          ELSE /\ timerFor' = dependencies
               /\ timer' = IF NeedsTimer
                           THEN [phase |-> frame.phase, identity |-> frame.identity, due |-> FALSE]
                           ELSE NoTimer
    /\ effects' = "none"
    /\ UNCHANGED <<inputVars, reducerVars, frame, measureVars>>

\* The second of a timer and of a transition outlasts the rendering of what was
\* waiting when it began.  Afterwards the timer may fire, and the end of the
\* transition be reported, before or after anything else that waits.
Quiet == effects = "none" /\ ~dispatched

TimerComesDue ==
    /\ Quiet /\ timer # NoTimer /\ ~timer.due
    /\ timer' = [timer EXCEPT !.due = TRUE]
    /\ UNCHANGED <<inputVars, reducerVars, frame, effects, currentRef, timerFor, measureVars>>

TimerFires ==
    /\ effects # "layout" /\ timer.due
    /\ EndPhase(timer.phase, timer.identity, currentRef)
    /\ timer' = NoTimer
    /\ UNCHANGED <<inputVars, frame, effects, currentRef, timerFor, measureVars>>

WidthTransitionEnds ==
    /\ Quiet /\ animating
    /\ animating' = FALSE /\ ended' = TRUE
    /\ UNCHANGED <<inputVars, reducerVars, frame, effectVars, measurements, marquee>>

\* completeWidthTransition of the frame by then committed.
CompleteWidthTransition ==
    /\ effects # "layout" /\ ended
    /\ ended' = FALSE
    /\ EndPhase(frame.phase, frame.identity, frame.current)
    /\ UNCHANGED <<inputVars, frame, effectVars, measurements, marquee, animating>>

-----------------------------------------------------------------------------
Next ==
    \/ SnapshotChanges
    \/ PreferenceChanges
    \/ Render
    \/ Measure
    \/ Measured
    \/ PassiveEffects
    \/ TimerComesDue
    \/ TimerFires
    \/ WidthTransitionEnds
    \/ CompleteWidthTransition

Spec == Init /\ [][Next]_vars

\* React renders what was scheduled and runs its effects, and timers fire; no
\* transition need end, or begin, for none may be drawn in a hidden page.
Fairness ==
    /\ WF_vars(Render) /\ WF_vars(Measure) /\ WF_vars(Measured) /\ WF_vars(PassiveEffects)
    /\ WF_vars(TimerComesDue) /\ WF_vars(TimerFires)

FairSpec == Spec /\ Fairness

-----------------------------------------------------------------------------
(* Properties.                                                              *)

Motions == {"enabled", "reduced"}
Identities == {Identity(snapshot) : snapshot \in Snapshots(display)}
TextsDrawn == UNION {{Texts(display, snapshot)[line] : line \in DOMAIN Texts(display, snapshot)} :
                        snapshot \in Snapshots(display)}

\* Every variable holds a value of its kind, in particular nothing but the
\* snapshots of its own display.
TypeOK ==
    /\ display \in Displays
    /\ geometry \in {ResolveOverlayGeometry(query) : query \in Queries}
    /\ current \in Snapshots(display)
    /\ preference \in Motions
    /\ updates \in 0..MaxUpdates
    /\ transition \in [identity : Identities, phase : Phases, snapshot : Snapshots(display)]
    /\ dispatched \in BOOLEAN
    /\ frame \in [motion : Motions, current : Snapshots(display), identity : Identities,
                  phase : Phases, shown : Snapshots(display)]
    /\ effects \in {"layout", "passive", "none"}
    /\ currentRef \in Snapshots(display)
    /\ timerFor \in [current : Identities \cup {<<>>}, motion : Motions,
                     identity : Identities \cup {<<>>}, phase : Phases \cup {"none"}]
    /\ timer \in [phase : Phases \ {"stable"}, identity : Identities, due : BOOLEAN] \cup {NoTimer}
    /\ measurements \in [identity : Identities, widths : [Lines -> Nat]]
    /\ marquee \in [DOMAIN Texts(display, frame.shown) ->
                       [identity : Identities \cup {<<>>}, available : Nat,
                        text : TextsDrawn \cup {<<>>}, overflows : BOOLEAN]]
    /\ animating \in BOOLEAN
    /\ ended \in BOOLEAN

\* A shell at rest draws, links, describes, announces and offers one and the same
\* snapshot, the application's as of its render.
Whole(snapshot) ==
    [artwork |-> Artwork(display, snapshot),
     texts |-> Texts(display, snapshot),
     links |-> Destinations(display, snapshot),
     definitions |-> Definitions(display, snapshot),
     announcement |-> Announcement(display, snapshot),
     controls |-> Controls(display, snapshot, geometry.setup)]

RestsOnCurrent ==
    (frame.phase = "stable" \/ frame.motion = "reduced") => Parts = Whole(frame.current)

\* As long as there is motion, what is shown changes its identity behind a
\* collapsed shell only, however often the snapshot changes during a transition
\* and whichever of timer and transition ends a phase, or both.
ChangesBehindShell ==
    [][(frame.motion = "enabled" /\ frame'.motion = "enabled" /\ Identity(frame'.shown) # Identity(frame.shown))
        => frame.phase = "collapsing" /\ frame'.phase = "opening"]_vars

\* What has been laid out fits what it shows: the open shell is as wide as the
\* widest text drawn in it and no wider, and a text that does not fit, and no
\* other, runs through or, when motion is to be reduced, is shrunk.
SizedByItsTexts ==
    effects # "layout" =>
        LET texts == Texts(display, frame.shown)
            widest == Max({0} \cup {BoundedTextWidth(WidthOf(texts[line])) : line \in DOMAIN texts})
            open == IF widest = 0 THEN MinimumWidth ELSE Clamp(MetadataX + widest + RightPadding)
        IN
        /\ frame.phase # "collapsing" => FrameWidth = open
        /\ \A line \in DOMAIN texts :
              DrawnAs(frame.motion, marquee[line].overflows, marquee[line].available) =
                  IF WidthOf(texts[line]) <= AvailableWidth(open) THEN "still"
                  ELSE IF frame.motion = "enabled" THEN "moving" ELSE "shrunk"

\* The picture never hangs in a transition: when nothing is left to render, to lay
\* out, to run after a commit or to wait for, it is at rest on the snapshot.  Each
\* phase has a timer of its own although renders during the phase set none.
NothingLeft ==
    /\ effects = "none" /\ ~dispatched /\ timer = NoTimer
    /\ current = frame.current /\ preference = frame.motion

RestsWhenNothingIsLeft ==
    NothingLeft => frame.phase = "stable" /\ frame.shown = current

\* When snapshot and preference keep still, the shell comes to rest on the
\* snapshot.
SettlesOnCurrent == <>[](frame.phase = "stable" /\ frame.shown = current)
=============================================================================
