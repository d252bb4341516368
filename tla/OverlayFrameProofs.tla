-------------------------- MODULE OverlayFrameProofs --------------------------
(***************************************************************************)
(* Proofs about OverlayFrame, for both displays, every table of identities,*)
(* artwork and links, every width of the texts, every sequence of events   *)
(* and presentations and any number of changes.                            *)
(***************************************************************************)
EXTENDS OverlayFrame, TLAPS

(***************************************************************************)
(* The invariant behind ChangesBehindShell.  A phase can be ended twice,   *)
(* by its timer and by its transition, and between a commit and its        *)
(* passive effects the timer is still the one of the frame before.  So it  *)
(* matters what is left to fire, what each would apply, and what has been  *)
(* applied since the last render.                                          *)
(***************************************************************************)

\* What is committed and what is kept for later carry the identity of the
\* snapshot they show.
KeyedByShown ==
    /\ frame.identity = Identity(frame.shown)
    /\ transition.identity = Identity(transition.snapshot)

\* Until something is dispatched the reducer holds what was rendered.
RenderedUntilDispatched ==
    ~dispatched => transition.identity = frame.identity /\ transition.phase = frame.phase

\* Of the timer and the transition's end one is used up by a dispatch, and
\* neither comes anew before the next render.
OneLeftToDispatch == dispatched => ~(timer.due /\ ended)

\* Once the passive effects have run, they have run for the committed frame.
EffectsUpToDate ==
    /\ timer # NoTimer => timer.phase = timerFor.phase /\ timerFor.motion = "enabled"
    /\ effects = "none" => /\ currentRef = frame.current
                           /\ timerFor.phase = frame.phase /\ timerFor.motion = frame.motion

\* What a collapsing frame has been told while its timer is still to come.
CollapseToldWhileTimed ==
    (frame.phase = "collapsing" /\ timer.due) =>
        /\ transition.phase # "stable"
        /\ transition.phase = "opening" => transition.identity = Identity(frame.current)

\* A timer left over from the frame before: one of a collapse finds its own
\* snapshot shown, or nothing shown yet; one of an opening is then alone.
LeftoverTimer ==
    (effects # "none" /\ timer.due) =>
        /\ timer.phase = "collapsing" /\ frame.motion = "enabled" =>
              /\ frame.phase # "stable"
              /\ frame.phase = "opening" => Identity(currentRef) = frame.identity
        /\ timer.phase = "opening" /\ frame.phase = "collapsing" =>
              ~ended /\ transition.identity = frame.identity

\* With motion, only a collapsing frame is told to show something else.
ToldBehindShell ==
    (frame.motion = "enabled" /\ transition.identity # frame.identity) =>
        frame.phase = "collapsing" /\ transition.phase = "opening"

PhaseInv ==
    /\ KeyedByShown
    /\ RenderedUntilDispatched
    /\ OneLeftToDispatch
    /\ EffectsUpToDate
    /\ CollapseToldWhileTimed
    /\ LeftoverTimer
    /\ ToldBehindShell

(***************************************************************************)
(* The invariant behind SizedByItsTexts.                                   *)
(***************************************************************************)

\* A line that was measured decided by what it was measured for.
DecidedAsMeasured ==
    \A line \in DOMAIN marquee :
        marquee[line].identity # <<>> =>
            marquee[line].overflows = Overflows(marquee[line].text, marquee[line].available)

\* The widths of the lines measured for what is shown are those it reported.
ReportedAsMeasured ==
    \A line \in DOMAIN marquee :
        marquee[line].identity = Identity(frame.shown) =>
            /\ measurements.identity = Identity(frame.shown)
            /\ measurements.widths[line] = BoundedTextWidth(WidthOf(marquee[line].text))

\* A line that is not drawn for an identity has no width under it.
NoWidthUndrawn ==
    \A snapshot \in Snapshots(display) :
        measurements.identity = Identity(snapshot) =>
            \A line \in Lines \ DOMAIN Texts(display, snapshot) : measurements.widths[line] = 0

NothingDueOnceMeasured == effects # "layout" => Due = {}

SizeInv ==
    /\ DecidedAsMeasured
    /\ ReportedAsMeasured
    /\ NoWidthUndrawn
    /\ NothingDueOnceMeasured

-----------------------------------------------------------------------------
(* The tables and the arithmetic.                                           *)

\* The greatest of a set of numbers is the one that is as great as any.
LEMMA MaxIs ==
    ASSUME NEW S \in SUBSET Int, NEW m \in S, \A n \in S : m >= n
    PROVE  Max(S) = m
<1> DEFINE Greatest(x) == x \in S /\ \A y \in S : x >= y
<1>1. Greatest(m)
  OBVIOUS
<1>2. \A x : Greatest(x) => x = m
  OBVIOUS
<1>3. Max(S) = CHOOSE x : Greatest(x)
  BY DEF Max
<1> QED
  BY <1>1, <1>2, <1>3

\* There is a widest line.
LEMMA WidestLine ==
    ASSUME NEW widths \in [Lines -> Nat]
    PROVE  \E widest \in Lines :
              /\ \A line \in Lines : widths[widest] >= widths[line]
              /\ Max({widths[line] : line \in Lines}) = widths[widest]
<1>1. PICK widest \in Lines : \A line \in Lines : widths[widest] >= widths[line]
  <2>1. /\ widths["creator"] \in Nat /\ widths["title"] \in Nat
        /\ widths["detail"] \in Nat /\ widths["context"] \in Nat
    BY DEF Lines
  <2>2. PICK upper \in {"creator", "title"} :
           widths[upper] >= widths["creator"] /\ widths[upper] >= widths["title"]
    BY <2>1
  <2>3. PICK lower \in {"detail", "context"} :
           widths[lower] >= widths["detail"] /\ widths[lower] >= widths["context"]
    BY <2>1
  <2>4. CASE widths[upper] >= widths[lower]
    BY <2>1, <2>2, <2>3, <2>4 DEF Lines
  <2>5. CASE widths[lower] >= widths[upper]
    BY <2>1, <2>2, <2>3, <2>5 DEF Lines
  <2> QED
    BY <2>1, <2>2, <2>3, <2>4, <2>5
<1> DEFINE S == {widths[line] : line \in Lines}
<1>2. S \in SUBSET Int /\ widths[widest] \in S /\ \A n \in S : widths[widest] >= n
  BY <1>1
<1>3. Max(S) = widths[widest]
  <2> HIDE DEF S
  <2> QED
    BY <1>2, MaxIs
<1> QED
  BY <1>1, <1>3

LEMMA ShellWidthType ==
    ASSUME NEW widths \in [Lines -> Nat]
    PROVE  /\ ShellWidth(widths) \in Nat
           /\ AvailableWidth(ShellWidth(widths)) \in Nat
<1>1. Max({widths[line] : line \in Lines}) \in Nat
  BY WidestLine
<1>2. ShellWidth(widths) \in Nat
  BY <1>1 DEF ShellWidth, Clamp, MinimumWidth, MaximumWidth, MetadataX, RightPadding
<1> QED
  BY <1>2 DEF AvailableWidth, MetadataX, RightPadding

\* The lifecycle leads from one snapshot of a display to another.
LEMMA SuccessorsAreSnapshots ==
    ASSUME display \in Displays, current \in Snapshots(display)
    PROVE  Successors \subseteq Snapshots(display)
<1>1. CASE display = "hosted"
  <2> SUFFICES ASSUME NEW event \in HostedEvents PROVE After(current, event) \in HostedSnapshots
    BY <1>1 DEF Successors, Snapshots, HostedSnapshots
  <2>1. event \in Events /\ event.detail \in EventDetails(event.kind)
    BY FrameAssumption
  <2>2. current \in HostedSnapshots /\ CurrentItem(current) \in Items \cup {NoDetail}
    BY <1>1 DEF Snapshots, HostedSnapshots, CurrentItem, State
  <2>3. CASE Accepts(current, event)
    <3>1. TargetKind(event.kind) \in PlaybackKinds
      BY <2>1 DEF Events, TargetKind, PlaybackKinds
    <3>2. PICK detail : /\ After(current, event) = State(TargetKind(event.kind), detail)
                        /\ detail = IF event.kind = "connection-lost" THEN CurrentItem(current)
                                    ELSE event.detail
      BY <2>3 DEF After, Target
    <3>3. detail \in Details
      BY <2>1, <2>2, <3>2 DEF Events, Details
    <3>4. TargetKind(event.kind) \in {"playing", "paused"} => detail \in Items
      BY <2>1, <3>2 DEF Events, TargetKind, EventDetails
    <3>5. TargetKind(event.kind) = "reconnecting" => detail \in Items \cup {NoDetail}
      BY <2>1, <2>2, <3>2 DEF Events, TargetKind, EventDetails
    <3> QED
      BY <3>1, <3>2, <3>3, <3>4, <3>5 DEF HostedSnapshots, PlaybackStates, State
  <2>4. CASE ~Accepts(current, event)
    BY <2>2, <2>4 DEF After
  <2> QED
    BY <2>3, <2>4
<1>2. CASE display = "local"
  BY <1>2, FrameAssumption DEF Successors, Snapshots
<1> QED
  BY <1>1, <1>2 DEF Displays

LEMMA InitialSnapshotType == display \in Displays => InitialSnapshot \in Snapshots(display)
<1>1. InitialPlaybackState \in HostedSnapshots
  BY DEF InitialPlaybackState, HostedSnapshots, PlaybackStates, PlaybackKinds, Details, State
<1>2. LocalStatusView("idle", NoDetail) \in LocalSnapshots
  BY DEF LocalSnapshots
<1> QED
  BY <1>1, <1>2 DEF InitialSnapshot, Snapshots, Displays

\* A picture's identity is never empty and determines the lines it has.
LEMMA IdentityNotEmpty == \A snapshot : Identity(snapshot) # <<>>
<1>1. \A snapshot : OverlayAnimationIdentity(snapshot) # <<>>
  BY DEF OverlayAnimationIdentity
<1>2. \A snapshot : LocalAnimationIdentity(snapshot) # <<>>
  BY DEF LocalAnimationIdentity
<1> QED
  BY <1>1, <1>2 DEF Identity, AnimationIdentity

LEMMA SameIdentitySameLines ==
    ASSUME display \in Displays,
           NEW one \in Snapshots(display), NEW other \in Snapshots(display),
           Identity(one) = Identity(other)
    PROVE  DOMAIN Texts(display, one) = DOMAIN Texts(display, other)
<1>1. CASE display = "hosted"
  BY <1>1 DEF Texts, OverlayTexts, ItemTexts, StatusTexts
<1>2. CASE display = "local"
  <2>1. one.kind = other.kind /\ one.item = other.item
    BY <1>2 DEF Identity, AnimationIdentity, LocalAnimationIdentity
  <2> QED
    BY <1>2, <2>1 DEF Texts, LocalTexts, LocalItemTexts, StatusTexts
<1> QED
  BY <1>1, <1>2 DEF Displays

LEMMA TextsHaveLines ==
    ASSUME NEW snapshot
    PROVE  DOMAIN Texts(display, snapshot) \subseteq Lines
BY DEF Texts, OverlayTexts, ItemTexts, StatusTexts, LocalTexts, LocalItemTexts, Lines

-----------------------------------------------------------------------------
(* Types.                                                                   *)

Transitions == [identity : Identities, phase : Phases, snapshot : Snapshots(display)]

LEMMA KeyedType ==
    ASSUME NEW snapshot \in Snapshots(display), NEW phase \in Phases
    PROVE  Keyed(snapshot, phase) \in Transitions
BY DEF Keyed, Transitions, Identities

\* What a phase's end does to the reducer: a collapse shows what was seen, an
\* opening leaves what is shown alone.
LEMMA EndPhaseEffect ==
    ASSUME NEW phase \in Phases, NEW identity, NEW seen \in Snapshots(display),
           transition \in Transitions, EndPhase(phase, identity, seen)
    PROVE  /\ phase = "stable" => transition' = transition /\ dispatched' = dispatched
           /\ phase = "collapsing" => transition' = Keyed(seen, "opening") /\ dispatched' = TRUE
           /\ phase = "opening" =>
                 /\ transition'.identity = transition.identity
                 /\ transition'.snapshot = transition.snapshot
                 /\ dispatched' = TRUE
           /\ transition' \in Transitions
<1>1. CASE phase = "stable"
  BY <1>1 DEF EndPhase, reducerVars
<1>2. CASE phase = "collapsing"
  <2>1. transition' = Keyed(seen, "opening") /\ dispatched' = TRUE
    BY <1>2 DEF EndPhase, PhaseEnd, Reduce, Action, Keyed, Identity
  <2> QED
    BY <1>2, <2>1, KeyedType DEF Phases
<1>3. CASE phase = "opening"
  <2>1. PICK action : /\ transition' = Reduce(transition, action)
                      /\ action.kind \in {"finish-opening", "begin-collapse"}
                      /\ dispatched' = TRUE
    BY <1>3 DEF EndPhase, PhaseEnd, Action
  <2>2. PICK next \in Phases : transition' = [transition EXCEPT !.phase = next]
    <3>1. CASE action.kind = "finish-opening"
      <4>1. transition' = [transition EXCEPT !.phase = "stable"]
        BY <2>1, <3>1 DEF Reduce
      <4> QED
        BY <4>1 DEF Phases
    <3>2. CASE action.kind = "begin-collapse"
      <4>1. transition' = [transition EXCEPT !.phase = "collapsing"]
        BY <2>1, <3>2 DEF Reduce
      <4> QED
        BY <4>1 DEF Phases
    <3> QED
      BY <2>1, <3>1, <3>2
  <2> QED
    BY <1>3, <2>1, <2>2 DEF Transitions
<1> QED
  BY <1>1, <1>2, <1>3 DEF Phases

\* What a render makes of the reducer's state.
LEMMA SynchronizedEffect ==
    ASSUME current \in Snapshots(display), transition \in Transitions, preference \in Motions
    PROVE  /\ Synchronized(transition) \in Transitions
           /\ Shown(Synchronized(transition)) \in Snapshots(display)
           /\ preference = "reduced" =>
                 Synchronized(transition).phase = "stable" /\ Synchronized(transition).identity = Identity(current)
           /\ preference = "enabled" =>
                 /\ Synchronized(transition).identity = transition.identity
                 /\ transition.phase # "stable" => Synchronized(transition) = transition
           /\ transition.identity = Identity(transition.snapshot) =>
                 Synchronized(transition).identity = Identity(Synchronized(transition).snapshot)
           /\ transition.identity = Identity(transition.snapshot) =>
                 Synchronized(transition).identity = Identity(Shown(Synchronized(transition)))
<1>1. \/ Synchronized(transition) = transition
      \/ Synchronized(transition) = Keyed(current, "stable")
      \/ Synchronized(transition) = [transition EXCEPT !.phase = "collapsing"]
  BY DEF Synchronized
<1>2. /\ Synchronized(transition) \in Transitions
      /\ transition.identity = Identity(transition.snapshot) =>
           Synchronized(transition).identity = Identity(Synchronized(transition).snapshot)
  <2>1. CASE Synchronized(transition) = transition
    BY <2>1
  <2>2. CASE Synchronized(transition) = Keyed(current, "stable")
    <3>1. Synchronized(transition) \in Transitions
      BY <2>2, KeyedType DEF Phases
    <3>2. Synchronized(transition).identity = Identity(Synchronized(transition).snapshot)
      BY <2>2 DEF Keyed
    <3> QED
      BY <3>1, <3>2
  <2>3. CASE Synchronized(transition) = [transition EXCEPT !.phase = "collapsing"]
    BY <2>3 DEF Transitions, Phases
  <2> QED
    BY <1>1, <2>1, <2>2, <2>3
<1>3. Shown(Synchronized(transition)) \in Snapshots(display)
  BY <1>2 DEF Shown, Transitions
<1>4. transition.identity = Identity(transition.snapshot) =>
        Synchronized(transition).identity = Identity(Shown(Synchronized(transition)))
  BY <1>2 DEF Shown
<1>5. preference = "reduced" =>
        Synchronized(transition).phase = "stable" /\ Synchronized(transition).identity = Identity(current)
  BY DEF Synchronized, Keyed
<1>6. preference = "enabled" =>
        /\ Synchronized(transition).identity = transition.identity
        /\ transition.phase # "stable" => Synchronized(transition) = transition
  BY DEF Synchronized, Transitions
<1> QED
  BY <1>2, <1>3, <1>4, <1>5, <1>6

\* What is measured are numbers.
LEMMA MeasuredTypes ==
    ASSUME TypeOK
    PROVE  /\ \A identity : ContentWidths(identity) \in [Lines -> Nat]
           /\ Available \in Nat
           /\ \A line \in DOMAIN Texts(display, frame.shown) :
                 /\ MeasuredFor(line).identity \in Identities
                 /\ MeasuredFor(line).available \in Nat
                 /\ MeasuredFor(line).text \in TextsDrawn
                 /\ WidthOf(MeasuredFor(line).text) \in Nat
<1>1. \A identity : ContentWidths(identity) \in [Lines -> Nat]
  BY DEF TypeOK, ContentWidths, NoWidths
<1>2. Available \in Nat
  BY <1>1, ShellWidthType DEF Available
<1>3. ASSUME NEW line \in DOMAIN Texts(display, frame.shown)
      PROVE  /\ MeasuredFor(line).identity \in Identities
             /\ MeasuredFor(line).available \in Nat
             /\ MeasuredFor(line).text \in TextsDrawn
             /\ WidthOf(MeasuredFor(line).text) \in Nat
  <2>1. frame.shown \in Snapshots(display) /\ display \in Displays
    BY DEF TypeOK
  <2>2. /\ MeasuredFor(line).identity = Identity(frame.shown)
        /\ MeasuredFor(line).available = Available
        /\ MeasuredFor(line).text = Texts(display, frame.shown)[line]
    BY DEF MeasuredFor
  <2> QED
    BY <1>2, <2>1, <2>2, WidthAssumption DEF Identities, TextsDrawn
<1> QED
  BY <1>1, <1>2, <1>3

-----------------------------------------------------------------------------
(* What is shown at rest.                                                   *)

\* A frame with reduced motion is at rest, and one at rest shows what it was
\* rendered for.
ShownIsCurrent ==
    /\ frame.motion = "reduced" => frame.phase = "stable"
    /\ frame.phase = "stable" => frame.shown = frame.current

LEMMA ShownCurrent == Spec => []ShownIsCurrent
<1>1. Init => ShownIsCurrent
  BY DEF Init, ShownIsCurrent
<1>2. ShownIsCurrent /\ [Next]_vars => ShownIsCurrent'
  <2> SUFFICES ASSUME ShownIsCurrent, [Next]_vars PROVE ShownIsCurrent'
    OBVIOUS
  <2>1. CASE UNCHANGED frame
    BY <2>1 DEF ShownIsCurrent
  <2>2. CASE Render
    <3> DEFINE state == Synchronized(transition)
    <3>1. /\ frame' = [motion |-> preference, current |-> current, identity |-> state.identity,
                       phase |-> state.phase, shown |-> Shown(state)]
      BY <2>2 DEF Render
    <3>2. preference = "reduced" => state.phase = "stable"
      BY DEF Synchronized, Keyed
    <3>3. state.phase = "stable" => state.identity = Identity(current)
      BY DEF Synchronized, Keyed
    <3> HIDE DEF state
    <3> QED
      BY <3>1, <3>2, <3>3 DEF Shown, ShownIsCurrent
  <2> QED
    BY <2>1, <2>2 DEF Next, vars, SnapshotChanges, PreferenceChanges, Measure, Measured,
       PassiveEffects, TimerComesDue, TimerFires, WidthTransitionEnds, CompleteWidthTransition
<1> QED
  BY <1>1, <1>2, PTL DEF Spec

\* At rest, or with reduced motion, the shell holds parts of one snapshot only.
THEOREM RestsOnCurrentTheorem == Spec => []RestsOnCurrent
<1>1. ShownIsCurrent => RestsOnCurrent
  BY DEF ShownIsCurrent, RestsOnCurrent, Parts, Whole
<1> QED
  BY <1>1, ShownCurrent, PTL

\* Every variable keeps to its kind.
THEOREM TypeCorrect == Spec => []TypeOK
<1>1. Init => TypeOK
  <2> SUFFICES ASSUME Init PROVE TypeOK
    OBVIOUS
  <2>1. display \in Displays /\ current \in Snapshots(display)
    BY InitialSnapshotType DEF Init
  <2>2. Identity(current) \in Identities
    BY <2>1 DEF Identities
  <2>3. transition \in Transitions
    BY <2>1, KeyedType DEF Init, Phases
  <2>4. frame \in [motion : Motions, current : Snapshots(display), identity : Identities,
                   phase : Phases, shown : Snapshots(display)]
    BY <2>1, <2>2 DEF Init, Motions, Phases
  <2>5. timerFor \in [current : Identities \cup {<<>>}, motion : Motions,
                      identity : Identities \cup {<<>>}, phase : Phases \cup {"none"}]
    BY DEF Init, Motions
  <2>6. measurements \in [identity : Identities, widths : [Lines -> Nat]]
    BY <2>2 DEF Init, NoWidths
  <2>7. marquee \in [DOMAIN Texts(display, frame.shown) ->
                        [identity : Identities \cup {<<>>}, available : Nat,
                         text : TextsDrawn \cup {<<>>}, overflows : BOOLEAN]]
    <3>1. frame.shown = current /\ marquee = Mounted(current)
      BY DEF Init
    <3> QED
      BY <3>1 DEF Mounted, NotMeasured
  <2>8. /\ geometry \in {ResolveOverlayGeometry(query) : query \in Queries}
        /\ updates \in 0..MaxUpdates
        /\ effects \in {"layout", "passive", "none"}
        /\ timer = NoTimer /\ preference \in Motions
        /\ dispatched = FALSE /\ animating = FALSE /\ ended = FALSE
    BY FrameAssumption DEF Init, Motions
  <2>9. currentRef \in Snapshots(display)
    BY <2>1 DEF Init
  <2> QED
    BY <2>1, <2>3, <2>4, <2>5, <2>6, <2>7, <2>8, <2>9 DEF TypeOK, Transitions
<1>2. TypeOK /\ [Next]_vars => TypeOK'
  <2> SUFFICES ASSUME TypeOK, [Next]_vars PROVE TypeOK'
    OBVIOUS
  <2>1. CASE UNCHANGED vars
    BY <2>1 DEF TypeOK, vars, inputVars, reducerVars, effectVars, measureVars, Identities,
       Identity, TextsDrawn
  <2>2. CASE SnapshotChanges
    <3>1. current' \in Snapshots(display)
      BY <2>2, SuccessorsAreSnapshots DEF SnapshotChanges, TypeOK
    <3>2. updates' \in 0..MaxUpdates
      BY <2>2, FrameAssumption DEF SnapshotChanges, TypeOK
    <3> QED
      BY <2>2, <3>1, <3>2 DEF SnapshotChanges, TypeOK, reducerVars, effectVars, measureVars,
         Identities, Identity, TextsDrawn
  <2>3. CASE PreferenceChanges
    <3>1. preference' \in Motions
      BY <2>3 DEF PreferenceChanges, Motions
    <3>2. updates' \in 0..MaxUpdates
      BY <2>3, FrameAssumption DEF PreferenceChanges, TypeOK
    <3> QED
      BY <2>3, <3>1, <3>2 DEF PreferenceChanges, TypeOK, reducerVars, effectVars, measureVars,
         Identities, Identity, TextsDrawn
  <2>4. CASE Render
    <3> DEFINE state == Synchronized(transition)
               shown == Shown(state)
    <3>1. state \in Transitions /\ shown \in Snapshots(display)
      BY SynchronizedEffect DEF TypeOK, Transitions
    <3>2. transition' \in Transitions
      BY <2>4, <3>1 DEF Render
    <3>3. /\ frame' \in [motion : Motions, current : Snapshots(display), identity : Identities,
                         phase : Phases, shown : Snapshots(display)]
          /\ frame'.shown = shown
      BY <2>4, <3>1 DEF Render, TypeOK, Transitions
    <3>4. marquee' \in [DOMAIN Texts(display, shown) ->
                           [identity : Identities \cup {<<>>}, available : Nat,
                            text : TextsDrawn \cup {<<>>}, overflows : BOOLEAN]]
      <4>1. NotMeasured \in [identity : Identities \cup {<<>>}, available : Nat,
                             text : TextsDrawn \cup {<<>>}, overflows : BOOLEAN]
        BY DEF NotMeasured
      <4>2. \A line \in DOMAIN marquee :
               marquee[line] \in [identity : Identities \cup {<<>>}, available : Nat,
                                  text : TextsDrawn \cup {<<>>}, overflows : BOOLEAN]
        BY DEF TypeOK
      <4> HIDE DEF state, shown
      <4> QED
        BY <2>4, <4>1, <4>2 DEF Render, state, shown
    <3>5. animating' \in BOOLEAN
      BY <2>4 DEF Render
    <3>6. dispatched' \in BOOLEAN /\ effects' \in {"layout", "passive", "none"}
      BY <2>4 DEF Render
    <3>7. UNCHANGED <<inputVars, currentRef, timerFor, timer, measurements, ended>>
      BY <2>4 DEF Render
    <3>8. marquee' \in [DOMAIN Texts(display, frame'.shown) ->
                           [identity : Identities \cup {<<>>}, available : Nat,
                            text : TextsDrawn \cup {<<>>}, overflows : BOOLEAN]]
      BY <3>3, <3>4
    <3> HIDE DEF state, shown
    <3> QED
      BY <3>2, <3>3, <3>5, <3>6, <3>7, <3>8 DEF TypeOK, Transitions, inputVars,
         Identities, Identity, TextsDrawn
  <2>5. CASE Measure
    <3>1. marquee' \in [DOMAIN Texts(display, frame.shown) ->
                           [identity : Identities \cup {<<>>}, available : Nat,
                            text : TextsDrawn \cup {<<>>}, overflows : BOOLEAN]]
      <4> DEFINE decided(line) ==
                   [identity |-> MeasuredFor(line).identity, available |-> MeasuredFor(line).available,
                    text |-> MeasuredFor(line).text,
                    overflows |-> Overflows(MeasuredFor(line).text, Available)]
      <4>1. DOMAIN marquee = DOMAIN Texts(display, frame.shown)
        BY DEF TypeOK
      <4>2. \A line \in DOMAIN marquee :
               decided(line) \in [identity : Identities \cup {<<>>}, available : Nat,
                                 text : TextsDrawn \cup {<<>>}, overflows : BOOLEAN]
        BY <4>1, MeasuredTypes DEF Overflows
      <4>3. marquee' = [line \in DOMAIN marquee |->
                          IF line \notin Due THEN marquee[line] ELSE decided(line)]
        BY <2>5 DEF Measure
      <4> HIDE DEF decided
      <4> QED
        BY <4>1, <4>2, <4>3 DEF TypeOK
    <3>2. measurements' \in [identity : Identities, widths : [Lines -> Nat]]
      <4>1. Due \subseteq DOMAIN Texts(display, frame.shown)
        BY DEF TypeOK, Due
      <4>2. \A line \in Due : BoundedTextWidth(WidthOf(MeasuredFor(line).text)) \in Nat
        BY <4>1, MeasuredTypes DEF BoundedTextWidth, MaximumWidth
      <4>3. ContentWidths(Identity(frame.shown)) \in [Lines -> Nat]
        BY MeasuredTypes
      <4>4. Identity(frame.shown) \in Identities
        BY DEF TypeOK, Identities
      <4> QED
        BY <2>5, <4>2, <4>3, <4>4 DEF Measure
    <3>3. animating' \in BOOLEAN
      BY <2>5 DEF Measure
    <3>4. UNCHANGED <<inputVars, reducerVars, frame, effectVars, ended>>
      BY <2>5 DEF Measure
    <3> QED
      BY <3>1, <3>2, <3>3, <3>4 DEF TypeOK, inputVars, reducerVars, effectVars, Identities,
         Identity, TextsDrawn
  <2>6. CASE Measured
    BY <2>6 DEF Measured, TypeOK, inputVars, reducerVars, measureVars, Identities, Identity,
       TextsDrawn
  <2>7. CASE PassiveEffects
    <3> DEFINE dependencies == [current |-> Identity(frame.current), motion |-> frame.motion,
                                identity |-> frame.identity, phase |-> frame.phase]
               closure == [phase |-> frame.phase, identity |-> frame.identity, due |-> FALSE]
    <3>1. dependencies \in [current : Identities \cup {<<>>}, motion : Motions,
                           identity : Identities \cup {<<>>}, phase : Phases \cup {"none"}]
      BY DEF TypeOK, Identities
    <3>2. NeedsTimer => closure \in [phase : Phases \ {"stable"}, identity : Identities, due : BOOLEAN]
      BY DEF TypeOK, NeedsTimer
    <3>3. /\ timerFor' \in {timerFor, dependencies}
          /\ \/ timer' \in {timer, NoTimer}
             \/ NeedsTimer /\ timer' = closure
      BY <2>7 DEF PassiveEffects
    <3>4. currentRef' = frame.current /\ effects' = "none"
      BY <2>7 DEF PassiveEffects
    <3>5. UNCHANGED <<inputVars, reducerVars, frame, measureVars>>
      BY <2>7 DEF PassiveEffects
    <3> HIDE DEF dependencies, closure
    <3> QED
      BY <3>1, <3>2, <3>3, <3>4, <3>5 DEF TypeOK, inputVars, reducerVars, measureVars, Identities,
         Identity, TextsDrawn
  <2>8. CASE TimerComesDue
    <3>1. timer' \in [phase : Phases \ {"stable"}, identity : Identities, due : BOOLEAN]
      BY <2>8 DEF TimerComesDue, TypeOK
    <3> QED
      BY <2>8, <3>1 DEF TimerComesDue, TypeOK, inputVars, reducerVars, measureVars, Identities,
         Identity, TextsDrawn
  <2>9. CASE TimerFires
    <3>1. timer.phase \in Phases
      BY <2>9 DEF TimerFires, TypeOK, NoTimer
    <3>2. transition' \in Transitions /\ dispatched' \in BOOLEAN
      BY <2>9, <3>1, EndPhaseEffect DEF TimerFires, TypeOK, Transitions, Phases
    <3> QED
      BY <2>9, <3>2 DEF TimerFires, TypeOK, Transitions, inputVars, measureVars, Identities,
         Identity, TextsDrawn
  <2>10. CASE WidthTransitionEnds
    <3>1. /\ animating' \in BOOLEAN /\ ended' \in BOOLEAN
          /\ UNCHANGED <<inputVars, reducerVars, frame, effectVars, measurements, marquee>>
      BY <2>10 DEF WidthTransitionEnds
    <3> QED
      BY <3>1 DEF TypeOK, inputVars, reducerVars, effectVars, Identities, Identity, TextsDrawn
  <2>11. CASE CompleteWidthTransition
    <3>1. transition' \in Transitions /\ dispatched' \in BOOLEAN
      BY <2>11, EndPhaseEffect DEF CompleteWidthTransition, TypeOK, Transitions, Phases
    <3>2. /\ ended' \in BOOLEAN
          /\ UNCHANGED <<inputVars, frame, effectVars, measurements, marquee, animating>>
      BY <2>11 DEF CompleteWidthTransition
    <3> QED
      BY <3>1, <3>2 DEF TypeOK, Transitions, inputVars, effectVars, Identities, Identity, TextsDrawn
  <2> QED
    BY <2>1, <2>2, <2>3, <2>4, <2>5, <2>6, <2>7, <2>8, <2>9, <2>10, <2>11 DEF Next
<1> QED
  BY <1>1, <1>2, PTL DEF Spec

-----------------------------------------------------------------------------
(* What changes behind the shell.                                           *)

LEMMA PhaseInit == Init => PhaseInv
BY DEF Init, PhaseInv, KeyedByShown, RenderedUntilDispatched, OneLeftToDispatch,
   EffectsUpToDate, CollapseToldWhileTimed, LeftoverTimer, ToldBehindShell, Keyed, NoTimer, Identity

\* A render leaves nothing told that is not shown; the timer of the frame
\* before is what stays.
LEMMA RenderKeepsPhases ==
    ASSUME TypeOK, PhaseInv, Render
    PROVE  PhaseInv'
<1> DEFINE state == Synchronized(transition)
<1>1. /\ current \in Snapshots(display) /\ transition \in Transitions /\ preference \in Motions
      /\ transition.identity = Identity(transition.snapshot)
  BY DEF TypeOK, Transitions, PhaseInv, KeyedByShown
<1>2. /\ state \in Transitions
      /\ preference = "reduced" => state.phase = "stable"
      /\ preference = "enabled" =>
            /\ state.identity = transition.identity
            /\ transition.phase # "stable" => state = transition
      /\ state.identity = Identity(state.snapshot)
      /\ state.identity = Identity(Shown(state))
  BY <1>1, SynchronizedEffect
<1>3. /\ effects = "none" /\ effects' = "layout" /\ dispatched' = FALSE
      /\ transition' = state
      /\ frame'.motion = preference /\ frame'.current = current /\ frame'.identity = state.identity
      /\ frame'.phase = state.phase /\ frame'.shown = Shown(state)
      /\ UNCHANGED <<display, currentRef, timerFor, timer, ended>>
  BY DEF Render, inputVars
<1>4. KeyedByShown'
  BY <1>2, <1>3 DEF KeyedByShown, Identity
<1>5. RenderedUntilDispatched' /\ OneLeftToDispatch' /\ ToldBehindShell'
  BY <1>3 DEF RenderedUntilDispatched, OneLeftToDispatch, ToldBehindShell
<1>6. EffectsUpToDate'
  BY <1>3 DEF EffectsUpToDate, PhaseInv, NoTimer
<1>7. CollapseToldWhileTimed'
  BY <1>3 DEF CollapseToldWhileTimed
<1>8. LeftoverTimer'
  <2> SUFFICES ASSUME timer.due
               PROVE  /\ timer.phase = "collapsing" /\ frame'.motion = "enabled" =>
                            /\ frame'.phase # "stable"
                            /\ frame'.phase = "opening" => Identity(currentRef) = frame'.identity
                      /\ timer.phase = "opening" /\ frame'.phase = "collapsing" =>
                            ~ended /\ transition'.identity = frame'.identity
    BY <1>3 DEF LeftoverTimer, Identity
  <2>1. timer.phase = frame.phase /\ currentRef = frame.current
    BY <1>3 DEF PhaseInv, EffectsUpToDate, NoTimer
  <2>2. ASSUME timer.phase = "collapsing", frame'.motion = "enabled"
        PROVE  /\ frame'.phase # "stable"
               /\ frame'.phase = "opening" => Identity(currentRef) = frame'.identity
    <3>1. transition.phase # "stable" /\ (transition.phase = "opening" => transition.identity = Identity(frame.current))
      BY <2>1, <2>2 DEF PhaseInv, CollapseToldWhileTimed
    <3> QED
      BY <1>2, <1>3, <2>1, <2>2, <3>1
  <2>3. ASSUME timer.phase = "opening", frame'.phase = "collapsing"
        PROVE  ~ended /\ transition'.identity = frame'.identity
    <3>1. preference = "enabled"
      BY <1>1, <1>2, <1>3, <2>3 DEF Motions
    <3>2. transition.phase # frame.phase
      BY <1>2, <1>3, <2>1, <2>3, <3>1
    <3>3. dispatched
      BY <3>2 DEF PhaseInv, RenderedUntilDispatched
    <3> QED
      BY <1>3, <3>3 DEF PhaseInv, OneLeftToDispatch
  <2> QED
    BY <2>2, <2>3
<1> QED
  BY <1>4, <1>5, <1>6, <1>7, <1>8 DEF PhaseInv

\* The timer of the frame before finds a collapse of its own snapshot or one
\* that is still going on, and an opening of what is shown.
LEMMA TimerFiresKeepsPhases ==
    ASSUME TypeOK, PhaseInv, TimerFires
    PROVE  PhaseInv'
<1>1. /\ timer.due /\ timer' = NoTimer /\ effects \in {"passive", "none"}
      /\ EndPhase(timer.phase, timer.identity, currentRef)
      /\ UNCHANGED <<display, frame, effects, currentRef, timerFor, ended>>
  BY DEF TimerFires, TypeOK, inputVars, measureVars
<1>2. /\ timer # NoTimer /\ timer.phase \in {"collapsing", "opening"}
      /\ timer.phase \in Phases
  BY <1>1 DEF TypeOK, Phases, NoTimer
<1>3. /\ timer.phase = "collapsing" => transition' = Keyed(currentRef, "opening")
      /\ timer.phase = "opening" =>
            transition'.identity = transition.identity /\ transition'.snapshot = transition.snapshot
      /\ dispatched' = TRUE
  <2>1. currentRef \in Snapshots(display) /\ transition \in Transitions
    BY DEF TypeOK, Transitions
  <2> QED
    BY <1>1, <1>2, <2>1, EndPhaseEffect
<1>4. KeyedByShown'
  BY <1>1, <1>2, <1>3 DEF PhaseInv, KeyedByShown, Keyed, Identity
<1>5. /\ RenderedUntilDispatched' /\ OneLeftToDispatch' /\ CollapseToldWhileTimed'
      /\ LeftoverTimer'
  BY <1>1, <1>3 DEF RenderedUntilDispatched, OneLeftToDispatch, CollapseToldWhileTimed,
     LeftoverTimer, NoTimer
<1>6. EffectsUpToDate'
  BY <1>1 DEF PhaseInv, EffectsUpToDate
<1>7. ToldBehindShell'
  <2> SUFFICES ASSUME frame.motion = "enabled", transition'.identity # frame.identity
               PROVE  frame.phase = "collapsing" /\ transition'.phase = "opening"
    BY <1>1 DEF ToldBehindShell
  <2>1. CASE timer.phase = "collapsing"
    <3>1. transition'.phase = "opening" /\ Identity(currentRef) # frame.identity
      BY <1>3, <2>1 DEF Keyed
    <3>2. CASE effects = "none"
      BY <1>2, <2>1, <3>1, <3>2 DEF PhaseInv, EffectsUpToDate
    <3>3. CASE effects = "passive"
      <4>1. frame.phase \in Phases
        BY DEF TypeOK
      <4> QED
        BY <1>1, <2>1, <3>1, <3>3, <4>1 DEF PhaseInv, LeftoverTimer, Phases
    <3> QED
      BY <1>1, <3>2, <3>3
  <2>2. CASE timer.phase = "opening"
    <3>1. transition.identity # frame.identity
      BY <1>3, <2>2
    <3>2. frame.phase = "collapsing"
      BY <3>1 DEF PhaseInv, ToldBehindShell
    <3>3. CASE effects = "none"
      BY <1>2, <2>2, <3>2, <3>3 DEF PhaseInv, EffectsUpToDate
    <3>4. CASE effects = "passive"
      BY <1>1, <2>2, <3>1, <3>2, <3>4 DEF PhaseInv, LeftoverTimer
    <3> QED
      BY <1>1, <3>3, <3>4
  <2> QED
    BY <1>2, <2>1, <2>2
<1> QED
  BY <1>4, <1>5, <1>6, <1>7 DEF PhaseInv

\* The end of a transition acts for the frame that is committed.
LEMMA CompleteKeepsPhases ==
    ASSUME TypeOK, PhaseInv, CompleteWidthTransition
    PROVE  PhaseInv'
<1>1. /\ ended /\ ended' = FALSE /\ effects # "layout"
      /\ EndPhase(frame.phase, frame.identity, frame.current)
      /\ UNCHANGED <<display, frame, effects, currentRef, timerFor, timer>>
  BY DEF CompleteWidthTransition, inputVars, effectVars
<1>2. /\ frame.phase \in Phases
      /\ frame.phase = "stable" => transition' = transition /\ dispatched' = dispatched
      /\ frame.phase = "collapsing" => transition' = Keyed(frame.current, "opening") /\ dispatched' = TRUE
      /\ frame.phase = "opening" =>
            /\ transition'.identity = transition.identity /\ transition'.snapshot = transition.snapshot
            /\ dispatched' = TRUE
  <2>1. frame.phase \in Phases /\ frame.current \in Snapshots(display) /\ transition \in Transitions
    BY DEF TypeOK, Transitions
  <2> QED
    BY <1>1, <2>1, EndPhaseEffect
<1>3. KeyedByShown'
  BY <1>1, <1>2 DEF PhaseInv, KeyedByShown, Keyed, Identity, Phases
<1>4. RenderedUntilDispatched'
  BY <1>1, <1>2 DEF PhaseInv, RenderedUntilDispatched, Phases
<1>5. OneLeftToDispatch'
  BY <1>1 DEF OneLeftToDispatch
<1>6. EffectsUpToDate'
  BY <1>1 DEF PhaseInv, EffectsUpToDate
<1>7. CollapseToldWhileTimed'
  BY <1>1, <1>2 DEF CollapseToldWhileTimed, Keyed, Identity
<1>8. LeftoverTimer'
  BY <1>1 DEF PhaseInv, LeftoverTimer, Identity
<1>9. ToldBehindShell'
  BY <1>1, <1>2 DEF PhaseInv, ToldBehindShell, Keyed, Phases
<1> QED
  BY <1>3, <1>4, <1>5, <1>6, <1>7, <1>8, <1>9 DEF PhaseInv

LEMMA PhaseInductive == TypeOK /\ PhaseInv /\ [Next]_vars => PhaseInv'
<1> SUFFICES ASSUME TypeOK, PhaseInv, [Next]_vars PROVE PhaseInv'
  OBVIOUS
<1> USE DEF PhaseInv, KeyedByShown, RenderedUntilDispatched, OneLeftToDispatch,
            EffectsUpToDate, CollapseToldWhileTimed, LeftoverTimer, ToldBehindShell, Identity
<1>1. CASE UNCHANGED <<display, frame, reducerVars, effectVars, ended>>
  BY <1>1 DEF reducerVars, effectVars
<1>2. CASE Render
  BY <1>2, RenderKeepsPhases
<1>3. CASE Measured
  BY <1>3 DEF Measured, inputVars, reducerVars, measureVars
<1>4. CASE PassiveEffects
  <2>1. /\ effects = "passive" /\ effects' = "none" /\ currentRef' = frame.current
        /\ timerFor'.phase = frame.phase /\ timerFor'.motion = frame.motion
        /\ \/ timer' = timer /\ timerFor' = timerFor
           \/ timer' = NoTimer
           \/ /\ timer' = [phase |-> frame.phase, identity |-> frame.identity, due |-> FALSE]
              /\ frame.motion = "enabled"
        /\ UNCHANGED <<display, transition, dispatched, frame, ended>>
    BY <1>4 DEF PassiveEffects, NeedsTimer, inputVars, reducerVars, measureVars
  <2> QED
    BY <2>1 DEF NoTimer
<1>5. CASE TimerComesDue
  <2>1. /\ effects = "none" /\ ~dispatched /\ timer # NoTimer /\ timer'.phase = timer.phase
        /\ timer' # NoTimer
        /\ UNCHANGED <<display, transition, dispatched, frame, effects, currentRef, timerFor, ended>>
    BY <1>5 DEF TimerComesDue, Quiet, inputVars, reducerVars, measureVars, TypeOK, NoTimer, Phases
  <2> QED
    BY <2>1
<1>6. CASE TimerFires
  BY <1>6, TimerFiresKeepsPhases
<1>7. CASE WidthTransitionEnds
  <2>1. /\ effects = "none" /\ ~dispatched
        /\ UNCHANGED <<display, transition, dispatched, frame, effects, currentRef, timerFor, timer>>
    BY <1>7 DEF WidthTransitionEnds, Quiet, inputVars, reducerVars, effectVars
  <2> QED
    BY <2>1
<1>8. CASE CompleteWidthTransition
  BY <1>8, CompleteKeepsPhases
<1>9. CASE SnapshotChanges \/ PreferenceChanges \/ Measure \/ UNCHANGED vars
  BY <1>1, <1>9 DEF SnapshotChanges, PreferenceChanges, Measure, vars, inputVars, measureVars
<1> QED
  BY <1>2, <1>3, <1>4, <1>5, <1>6, <1>7, <1>8, <1>9 DEF Next

\* With motion, however often the snapshot changes and whichever of timer and
\* transition ends a phase, or both, the picture changes behind a collapsed
\* shell only.
THEOREM ChangesBehindShellTheorem == Spec => ChangesBehindShell
<1>1. ASSUME TypeOK, PhaseInv, [Next]_vars,
             frame.motion = "enabled", frame'.motion = "enabled",
             Identity(frame'.shown) # Identity(frame.shown)
      PROVE  frame.phase = "collapsing" /\ frame'.phase = "opening"
  <2> DEFINE state == Synchronized(transition)
  <2>1. CASE Render
    <3>1. /\ current \in Snapshots(display) /\ transition \in Transitions /\ preference \in Motions
          /\ transition.identity = Identity(transition.snapshot)
      BY <1>1 DEF TypeOK, Transitions, PhaseInv, KeyedByShown
    <3>2. /\ preference = "enabled"
          /\ frame'.phase = state.phase /\ frame'.shown = Shown(state)
      <4>1. /\ frame'.motion = preference /\ frame'.phase = state.phase
            /\ frame'.shown = Shown(state)
        BY <2>1 DEF Render
      <4> QED
        BY <1>1, <4>1
    <3>3. /\ state.identity = transition.identity /\ state.identity = Identity(Shown(state))
          /\ transition.phase # "stable" => state = transition
      BY <3>1, <3>2, SynchronizedEffect
    <3>4. transition.identity # frame.identity
      BY <1>1, <3>2, <3>3 DEF PhaseInv, KeyedByShown
    <3>5. frame.phase = "collapsing" /\ transition.phase = "opening"
      BY <1>1, <3>4 DEF PhaseInv, ToldBehindShell
    <3> QED
      BY <3>2, <3>3, <3>5
  <2>2. CASE UNCHANGED frame
    BY <1>1, <2>2
  <2> QED
    BY <1>1, <2>1, <2>2 DEF Next, vars, SnapshotChanges, PreferenceChanges, Measure, Measured,
       PassiveEffects, TimerComesDue, TimerFires, WidthTransitionEnds, CompleteWidthTransition
<1>2. TypeOK /\ PhaseInv /\ [Next]_vars =>
        [(frame.motion = "enabled" /\ frame'.motion = "enabled" /\ Identity(frame'.shown) # Identity(frame.shown))
          => frame.phase = "collapsing" /\ frame'.phase = "opening"]_vars
  BY <1>1
<1> QED
  BY <1>2, PhaseInit, PhaseInductive, TypeCorrect, PTL DEF Spec, ChangesBehindShell

-----------------------------------------------------------------------------
(* The shell's size.                                                        *)

LEMMA SizeInit == Init => SizeInv
<1> SUFFICES ASSUME Init PROVE SizeInv
  OBVIOUS
<1>1. \A line \in DOMAIN marquee : marquee[line].identity = <<>>
  BY DEF Init, Mounted, NotMeasured
<1>2. DecidedAsMeasured /\ ReportedAsMeasured
  BY <1>1, IdentityNotEmpty DEF DecidedAsMeasured, ReportedAsMeasured
<1>3. NoWidthUndrawn
  BY DEF Init, NoWidthUndrawn, NoWidths
<1>4. NothingDueOnceMeasured
  BY DEF Init, NothingDueOnceMeasured
<1> QED
  BY <1>2, <1>3, <1>4 DEF SizeInv

\* A render keeps the lines of a picture it goes on showing, and what was
\* measured for them.
LEMMA RenderKeepsSizes ==
    ASSUME TypeOK, KeyedByShown, KeyedByShown', SizeInv, Render
    PROVE  SizeInv'
<1>1. /\ DOMAIN marquee' = DOMAIN Texts(display, frame'.shown)
      /\ \A line \in DOMAIN marquee' :
            \/ marquee'[line] = NotMeasured
            \/ line \in DOMAIN marquee /\ marquee'[line] = marquee[line] /\ frame'.identity = frame.identity
      /\ UNCHANGED <<display, measurements>>
      /\ effects' = "layout"
  BY DEF Render, inputVars
<1>2. DecidedAsMeasured'
  BY <1>1 DEF SizeInv, DecidedAsMeasured, NotMeasured
<1>3. ReportedAsMeasured'
  <2> SUFFICES ASSUME NEW line \in DOMAIN marquee', marquee'[line].identity = Identity(frame'.shown)
               PROVE  /\ measurements.identity = Identity(frame'.shown)
                      /\ measurements.widths[line] = BoundedTextWidth(WidthOf(marquee'[line].text))
    BY <1>1 DEF ReportedAsMeasured, Identity
  <2>1. marquee'[line] # NotMeasured
    BY IdentityNotEmpty DEF NotMeasured
  <2>2. /\ line \in DOMAIN marquee /\ marquee'[line] = marquee[line]
        /\ Identity(frame'.shown) = Identity(frame.shown)
    BY <1>1, <2>1 DEF KeyedByShown, Identity
  <2> QED
    BY <2>2 DEF SizeInv, ReportedAsMeasured
<1>4. NoWidthUndrawn'
  BY <1>1 DEF SizeInv, NoWidthUndrawn, Identity
<1>5. NothingDueOnceMeasured'
  BY <1>1 DEF NothingDueOnceMeasured
<1> QED
  BY <1>2, <1>3, <1>4, <1>5 DEF SizeInv

\* Measuring makes the lines that were due report for what is shown.
LEMMA MeasureKeepsSizes ==
    ASSUME TypeOK, SizeInv, Measure
    PROVE  SizeInv'
<1> DEFINE identity == Identity(frame.shown)
           widths == [line \in Lines |->
                         IF line \in Due THEN BoundedTextWidth(WidthOf(MeasuredFor(line).text))
                         ELSE ContentWidths(identity)[line]]
<1>1. /\ DOMAIN marquee = DOMAIN Texts(display, frame.shown)
      /\ DOMAIN marquee \subseteq Lines
      /\ Due \subseteq DOMAIN marquee
  BY TextsHaveLines DEF TypeOK, Due
<1>2. /\ DOMAIN marquee' = DOMAIN marquee
      /\ \A line \in DOMAIN marquee \ Due : marquee'[line] = marquee[line]
      /\ \A line \in Due :
            /\ marquee'[line].text = MeasuredFor(line).text
            /\ marquee'[line].overflows = Overflows(MeasuredFor(line).text, Available)
            /\ marquee'[line].available = MeasuredFor(line).available
  BY <1>1 DEF Measure
<1>3. /\ measurements'.identity = identity /\ measurements'.widths = widths
      /\ UNCHANGED <<display, frame>>
      /\ effects' = "layout"
  BY DEF Measure, inputVars, effectVars
<1>4. DecidedAsMeasured'
  <2>1. \A line : MeasuredFor(line).available = Available
    BY DEF MeasuredFor
  <2> QED
    BY <1>2, <2>1 DEF SizeInv, DecidedAsMeasured
<1>5. ReportedAsMeasured'
  <2> SUFFICES ASSUME NEW line \in DOMAIN marquee
               PROVE  widths[line] = BoundedTextWidth(WidthOf(marquee'[line].text))
    BY <1>2, <1>3 DEF ReportedAsMeasured, Identity
  <2>1. CASE line \in Due
    BY <1>1, <1>2, <2>1
  <2>2. CASE line \notin Due
    <3>1. marquee[line].identity = identity
      BY <2>2 DEF Due, MeasuredFor
    <3>2. ContentWidths(identity)[line] = BoundedTextWidth(WidthOf(marquee[line].text))
      BY <3>1 DEF SizeInv, ReportedAsMeasured, ContentWidths
    <3> QED
      BY <1>1, <1>2, <2>2, <3>2
  <2> QED
    BY <2>1, <2>2
<1>6. NoWidthUndrawn'
  <2> SUFFICES ASSUME NEW snapshot \in Snapshots(display), identity = Identity(snapshot),
                      NEW line \in Lines \ DOMAIN Texts(display, snapshot)
               PROVE  widths[line] = 0
    BY <1>3 DEF NoWidthUndrawn, Identity
  <2>1. line \notin Due
    BY <1>1, SameIdentitySameLines DEF TypeOK
  <2>2. ContentWidths(identity)[line] = 0
    BY DEF SizeInv, NoWidthUndrawn, ContentWidths, NoWidths
  <2> QED
    BY <2>1, <2>2
<1>7. NothingDueOnceMeasured'
  BY <1>3 DEF NothingDueOnceMeasured
<1> QED
  BY <1>4, <1>5, <1>6, <1>7 DEF SizeInv

LEMMA SizeInductive == TypeOK /\ PhaseInv /\ PhaseInv' /\ SizeInv /\ [Next]_vars => SizeInv'
<1> SUFFICES ASSUME TypeOK, PhaseInv, PhaseInv', SizeInv, [Next]_vars PROVE SizeInv'
  OBVIOUS
<1>1. CASE UNCHANGED <<display, frame, measurements, marquee>> /\ (effects' # "layout" => effects # "layout" \/ Due = {})
  BY <1>1 DEF SizeInv, DecidedAsMeasured, ReportedAsMeasured, NoWidthUndrawn,
     NothingDueOnceMeasured, Identity, Due, MeasuredFor, Available, ContentWidths
<1>2. CASE Render
  BY <1>2, RenderKeepsSizes DEF PhaseInv
<1>3. CASE Measure
  BY <1>3, MeasureKeepsSizes
<1>4. CASE Measured
  BY <1>1, <1>4 DEF Measured, inputVars, measureVars
<1>5. CASE PassiveEffects \/ SnapshotChanges \/ PreferenceChanges \/ UNCHANGED vars
  BY <1>1, <1>5 DEF PassiveEffects, SnapshotChanges, PreferenceChanges, vars, inputVars,
     effectVars, measureVars
<1>6. CASE TimerComesDue \/ TimerFires \/ WidthTransitionEnds \/ CompleteWidthTransition
  BY <1>1, <1>6 DEF TimerComesDue, TimerFires, WidthTransitionEnds, CompleteWidthTransition,
     inputVars, effectVars, measureVars
<1> QED
  BY <1>2, <1>3, <1>4, <1>5, <1>6 DEF Next

\* Once nothing is due, the frame has the widths of its texts, and the widest
\* of them opens the shell.
LEMMA SizeInvSizes ==
    ASSUME TypeOK, KeyedByShown, SizeInv
    PROVE  SizedByItsTexts
<1> SUFFICES ASSUME effects # "layout" PROVE SizedByItsTexts
  BY DEF SizedByItsTexts
<1> DEFINE texts == Texts(display, frame.shown)
           drawn == {BoundedTextWidth(WidthOf(texts[line])) : line \in DOMAIN texts}
           widest == Max({0} \cup drawn)
           open == IF widest = 0 THEN MinimumWidth ELSE Clamp(MetadataX + widest + RightPadding)
           widths == ContentWidths(frame.identity)
<1>1. /\ DOMAIN marquee = DOMAIN texts
      /\ DOMAIN texts \subseteq Lines
      /\ \A line \in DOMAIN texts : WidthOf(texts[line]) \in Nat
      /\ widths \in [Lines -> Nat]
      /\ Available \in Nat
  <2>1. display \in Displays /\ frame.shown \in Snapshots(display)
    BY DEF TypeOK
  <2> QED
    BY <2>1, TextsHaveLines, MeasuredTypes, WidthAssumption DEF TypeOK
<1>2. ASSUME NEW line \in DOMAIN texts
      PROVE  /\ marquee[line].identity = Identity(frame.shown)
             /\ marquee[line].available = Available
             /\ marquee[line].text = texts[line]
             /\ marquee[line].overflows = (WidthOf(texts[line]) > Available)
             /\ widths[line] = BoundedTextWidth(WidthOf(texts[line]))
  <2>1. line \in DOMAIN marquee /\ line \notin Due
    BY <1>1, <1>2 DEF SizeInv, NothingDueOnceMeasured
  <2>2. /\ marquee[line].identity = Identity(frame.shown)
        /\ marquee[line].available = Available
        /\ marquee[line].text = texts[line]
    BY <2>1 DEF Due, MeasuredFor
  <2>3. Identity(frame.shown) # <<>>
    BY IdentityNotEmpty
  <2>4. marquee[line].overflows = (WidthOf(texts[line]) > Available)
    BY <2>1, <2>2, <2>3 DEF SizeInv, DecidedAsMeasured, Overflows
  <2>5. widths[line] = BoundedTextWidth(WidthOf(texts[line]))
    BY <2>1, <2>2 DEF SizeInv, ReportedAsMeasured, ContentWidths, KeyedByShown
  <2> QED
    BY <2>2, <2>4, <2>5
<1>3. ASSUME NEW line \in Lines \ DOMAIN texts PROVE widths[line] = 0
  <2>1. frame.shown \in Snapshots(display)
    BY DEF TypeOK
  <2> QED
    BY <1>3, <2>1 DEF SizeInv, NoWidthUndrawn, ContentWidths, NoWidths, KeyedByShown
<1>4. widest = Max({widths[line] : line \in Lines}) /\ widest \in Nat
      /\ \A line \in Lines : widest >= widths[line]
  <2>1. PICK most \in Lines : /\ \A line \in Lines : widths[most] >= widths[line]
                              /\ Max({widths[line] : line \in Lines}) = widths[most]
    BY <1>1, WidestLine
  <2>2. widths[most] \in {0} \cup drawn
    BY <1>2, <1>3, <2>1
  <2>3. \A n \in {0} \cup drawn : n \in Int /\ widths[most] >= n
    <3>1. widths[most] \in Nat
      BY <1>1, <2>1
    <3>2. \A line \in DOMAIN texts :
             /\ BoundedTextWidth(WidthOf(texts[line])) \in Int
             /\ widths[most] >= BoundedTextWidth(WidthOf(texts[line]))
      BY <1>1, <1>2, <2>1
    <3> QED
      BY <3>1, <3>2
  <2>4. widest = widths[most]
    <3> HIDE DEF drawn
    <3> QED
      BY <2>2, <2>3, MaxIs
  <2> QED
    BY <1>1, <2>1, <2>4
<1>5. ShellWidth(widths) = open /\ Available = AvailableWidth(open)
  BY <1>4 DEF ShellWidth, Available
<1>6. frame.phase # "collapsing" => FrameWidth = open
  BY <1>5 DEF FrameWidth, WidthDrawn
<1>7. ASSUME NEW line \in DOMAIN texts
      PROVE  DrawnAs(frame.motion, marquee[line].overflows, marquee[line].available) =
                  IF WidthOf(texts[line]) <= AvailableWidth(open) THEN "still"
                  ELSE IF frame.motion = "enabled" THEN "moving" ELSE "shrunk"
  <2>1. /\ marquee[line].overflows = (WidthOf(texts[line]) > Available)
        /\ marquee[line].available = Available
        /\ widths[line] = BoundedTextWidth(WidthOf(texts[line]))
        /\ WidthOf(texts[line]) \in Nat /\ Available \in Nat
    BY <1>1, <1>2
  <2>2. CASE WidthOf(texts[line]) <= Available
    <3>1. ~marquee[line].overflows
      <4>1. ~(WidthOf(texts[line]) > Available)
        BY <2>1, <2>2
      <4> QED
        BY <2>1, <4>1
    <3> QED
      BY <1>5, <2>2, <3>1 DEF DrawnAs
  <2>3. CASE ~(WidthOf(texts[line]) <= Available)
    <3>1. marquee[line].overflows
      <4>1. WidthOf(texts[line]) > Available
        BY <2>1, <2>3
      <4> QED
        BY <2>1, <4>1
    <3>2. Available > 0
      <4>1. widths[line] > 0
        BY <2>1, <2>3 DEF BoundedTextWidth, MaximumWidth
      <4>2. widest > 0
        BY <1>1, <1>4, <4>1
      <4>3. open > MetadataX + RightPadding
        <5> HIDE DEF widest
        <5> QED
          BY <1>4, <4>2 DEF Clamp, MinimumWidth, MaximumWidth, MetadataX, RightPadding
      <4>4. open \in Nat
        <5> HIDE DEF widest
        <5> QED
          BY <1>4 DEF Clamp, MinimumWidth, MaximumWidth, MetadataX, RightPadding
      <4> HIDE DEF open
      <4> QED
        BY <1>5, <4>3, <4>4 DEF AvailableWidth, MetadataX, RightPadding
    <3> QED
      BY <1>5, <2>1, <2>3, <3>1, <3>2 DEF DrawnAs
  <2> QED
    BY <2>2, <2>3
<1> HIDE DEF texts, open
<1> QED
  BY <1>6, <1>7 DEF SizedByItsTexts, texts, open

\* What has been laid out is as wide as the widest of its texts, and a text
\* that does not fit runs through or is shrunk, whatever the texts' widths.
THEOREM SizedByItsTextsTheorem == Spec => []SizedByItsTexts
<1>1. TypeOK /\ PhaseInv /\ SizeInv => SizedByItsTexts
  BY SizeInvSizes DEF PhaseInv
<1> QED
  BY <1>1, TypeCorrect, PhaseInit, PhaseInductive, SizeInit, SizeInductive, PTL DEF Spec

-----------------------------------------------------------------------------
(* Never stuck in a transition.                                             *)

\* What the timer's effect depends on, for the committed frame.
Dependencies ==
    [current |-> Identity(frame.current), motion |-> frame.motion,
     identity |-> frame.identity, phase |-> frame.phase]

\* The timer's effect has run for the committed frame once nothing is left of
\* its effects, and if a timer it was to set is gone, the reducer was told to
\* leave the phase.
TimedUntilTold ==
    /\ effects = "none" => timerFor = Dependencies
    /\ (timer = NoTimer /\ NeedsTimer /\ timerFor = Dependencies) =>
          /\ dispatched
          /\ frame.phase = "collapsing" => transition.phase = "opening"
          /\ frame.phase = "opening" => transition.phase # "opening"

LEMMA TimedInit == Init => TimedUntilTold
BY DEF Init, TimedUntilTold, NeedsTimer

\* A phase that was told to end is left by the next render.
LEMMA RenderLeavesPhase ==
    ASSUME TypeOK, KeyedByShown, TimedUntilTold, Render
    PROVE  TimedUntilTold'
<1> DEFINE state == Synchronized(transition)
<1>1. /\ transition \in Transitions /\ current \in Snapshots(display) /\ preference \in Motions
      /\ frame.phase \in Phases /\ transition.phase \in Phases
  BY DEF TypeOK, Transitions
<1>2. /\ effects = "none" /\ effects' = "layout"
      /\ frame'.motion = preference /\ frame'.phase = state.phase
      /\ UNCHANGED <<timerFor, timer>>
  BY DEF Render
<1>3. SUFFICES ASSUME timer = NoTimer, frame'.motion = "enabled", frame'.phase # "stable",
                      timerFor.motion = frame'.motion, timerFor.phase = frame'.phase
               PROVE  FALSE
  BY <1>2 DEF TimedUntilTold, NeedsTimer, Dependencies
<1>4. /\ timerFor = Dependencies /\ frame.motion = "enabled" /\ frame.phase = state.phase
      /\ NeedsTimer
  BY <1>2, <1>3 DEF TimedUntilTold, Dependencies, NeedsTimer
<1>5. /\ frame.phase = "collapsing" => transition.phase = "opening"
      /\ frame.phase = "opening" => transition.phase # "opening"
  BY <1>3, <1>4 DEF TimedUntilTold
<1>6. /\ transition.phase # "stable" => state = transition
      /\ transition.phase = "stable" => state.phase \in {"stable", "collapsing"}
  <2>1. transition.phase # "stable" => state = transition
    BY <1>1, <1>2, <1>3, SynchronizedEffect
  <2>2. preference = "enabled"
    BY <1>2, <1>3
  <2>3. transition.phase = "stable" => state.phase \in {"stable", "collapsing"}
    BY <1>1, <2>2 DEF Synchronized, Transitions
  <2> QED
    BY <2>1, <2>3
<1> QED
  BY <1>1, <1>2, <1>3, <1>4, <1>5, <1>6 DEF Phases

\* Whoever ends the phase of the committed frame tells the reducer to leave it.
LEMMA EndedPhaseIsLeft ==
    ASSUME TypeOK, NEW identity, NEW seen \in Snapshots(display),
           frame.phase # "stable", EndPhase(frame.phase, identity, seen)
    PROVE  /\ dispatched'
           /\ frame.phase = "collapsing" => transition'.phase = "opening"
           /\ frame.phase = "opening" => transition'.phase # "opening"
<1>1. frame.phase \in Phases /\ transition \in Transitions
  BY DEF TypeOK, Transitions
<1>2. CASE frame.phase = "collapsing"
  <2>1. dispatched' = TRUE /\ transition' = Keyed(seen, "opening")
    BY <1>2 DEF EndPhase, PhaseEnd, Action, Reduce
  <2> QED
    BY <1>2, <2>1 DEF Keyed
<1>3. CASE frame.phase = "opening"
  <2>1. PICK action : /\ transition' = Reduce(transition, action)
                      /\ action.kind \in {"finish-opening", "begin-collapse"}
                      /\ dispatched'
    BY <1>3 DEF EndPhase, PhaseEnd, Action
  <2>2. CASE action.kind = "finish-opening"
    BY <1>1, <1>3, <2>1, <2>2 DEF Reduce, Transitions
  <2>3. CASE action.kind = "begin-collapse"
    BY <1>1, <1>3, <2>1, <2>3 DEF Reduce, Transitions
  <2> QED
    BY <2>1, <2>2, <2>3
<1> QED
  BY <1>1, <1>2, <1>3 DEF Phases

LEMMA TimedInductive == TypeOK /\ PhaseInv /\ TimedUntilTold /\ [Next]_vars => TimedUntilTold'
<1> SUFFICES ASSUME TypeOK, PhaseInv, TimedUntilTold, [Next]_vars PROVE TimedUntilTold'
  OBVIOUS
<1> USE DEF TimedUntilTold, NeedsTimer, Dependencies, Identity
<1>1. CASE UNCHANGED <<display, frame, effects, timerFor, timer, reducerVars>>
  BY <1>1 DEF reducerVars
<1>2. CASE Render
  BY <1>2, RenderLeavesPhase DEF PhaseInv
<1>3. CASE Measured
  BY <1>3 DEF Measured, inputVars, reducerVars
<1>4. CASE PassiveEffects
  <2>1. /\ effects' = "none"
        /\ \/ timerFor = Dependencies /\ UNCHANGED <<timerFor, timer>>
           \/ /\ timerFor' = Dependencies
              /\ NeedsTimer =>
                    timer' = [phase |-> frame.phase, identity |-> frame.identity, due |-> FALSE]
        /\ UNCHANGED <<display, frame, transition, dispatched>>
    BY <1>4 DEF PassiveEffects, inputVars, reducerVars
  <2>2. [phase |-> frame.phase, identity |-> frame.identity, due |-> FALSE] # NoTimer
    BY DEF TypeOK, NoTimer, Phases
  <2> QED
    BY <2>1, <2>2
<1>5. CASE TimerComesDue
  <2>1. timer' # NoTimer
    BY <1>5 DEF TimerComesDue, NoTimer
  <2> QED
    BY <1>5, <2>1 DEF TimerComesDue, inputVars, reducerVars
<1>6. CASE TimerFires
  <2>1. /\ timer.due /\ EndPhase(timer.phase, timer.identity, currentRef)
        /\ UNCHANGED <<display, frame, effects, timerFor>>
    BY <1>6 DEF TimerFires, inputVars
  <2>2. timer # NoTimer /\ timer.phase = timerFor.phase
    BY <2>1 DEF NoTimer, PhaseInv, EffectsUpToDate
  <2>3. CASE NeedsTimer /\ timerFor = Dependencies
    <3>1. timer.phase = frame.phase /\ currentRef \in Snapshots(display)
      BY <2>2, <2>3 DEF TypeOK
    <3>2. EndPhase(frame.phase, timer.identity, currentRef)
      BY <2>1, <3>1
    <3> QED
      BY <2>1, <2>3, <3>1, <3>2, EndedPhaseIsLeft
  <2>4. CASE ~(NeedsTimer /\ timerFor = Dependencies)
    BY <2>1, <2>4
  <2> QED
    BY <2>3, <2>4
<1>7. CASE CompleteWidthTransition
  <2>1. /\ EndPhase(frame.phase, frame.identity, frame.current)
        /\ UNCHANGED <<display, frame, effects, timerFor, timer>>
    BY <1>7 DEF CompleteWidthTransition, inputVars, effectVars
  <2>2. CASE NeedsTimer
    <3>1. frame.current \in Snapshots(display)
      BY DEF TypeOK
    <3> QED
      BY <2>1, <2>2, <3>1, EndedPhaseIsLeft
  <2>3. CASE ~NeedsTimer
    BY <2>1, <2>3
  <2> QED
    BY <2>2, <2>3
<1>8. CASE SnapshotChanges \/ PreferenceChanges \/ Measure \/ WidthTransitionEnds \/ UNCHANGED vars
  BY <1>1, <1>8 DEF SnapshotChanges, PreferenceChanges, Measure, WidthTransitionEnds, vars,
     inputVars, effectVars, measureVars
<1> QED
  BY <1>2, <1>3, <1>4, <1>5, <1>6, <1>7, <1>8 DEF Next

\* Whatever the order of renders, effects, timers and transitions, a picture
\* with nothing left to do is at rest on the application's snapshot.
THEOREM RestsWhenNothingIsLeftTheorem == Spec => []RestsWhenNothingIsLeft
<1>1. TypeOK /\ ShownIsCurrent /\ TimedUntilTold => RestsWhenNothingIsLeft
  <2> SUFFICES ASSUME TypeOK, ShownIsCurrent, TimedUntilTold, NothingLeft
               PROVE  frame.phase = "stable" /\ frame.shown = current
    BY DEF RestsWhenNothingIsLeft
  <2>1. ~dispatched /\ timer = NoTimer /\ timerFor = Dependencies /\ current = frame.current
    BY DEF NothingLeft, TimedUntilTold
  <2>2. ~NeedsTimer
    BY <2>1 DEF TimedUntilTold
  <2>3. frame.motion \in Motions
    BY DEF TypeOK
  <2>4. frame.phase = "stable"
    BY <2>2, <2>3 DEF NeedsTimer, Motions, ShownIsCurrent
  <2> QED
    BY <2>1, <2>4 DEF ShownIsCurrent
<1> QED
  BY <1>1, TypeCorrect, ShownCurrent, PhaseInit, PhaseInductive, TimedInit, TimedInductive,
     PTL DEF Spec
=============================================================================
