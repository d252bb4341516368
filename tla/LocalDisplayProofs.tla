------------------------- MODULE LocalDisplayProofs -------------------------
(***************************************************************************)
(* Proofs about LocalDisplay, for every choice of the durations, the retry *)
(* ladder and the bounds.  The freshness theorems suppose a collector that *)
(* reports nothing the display cannot read; without that they are false.   *)
(***************************************************************************)
EXTENDS LocalDisplay, SequenceTheorems, TLAPS

Readable == "malformed" \notin Outcomes

-----------------------------------------------------------------------------
(* What is shown.                                                           *)

\* Presentation judges a playing snapshot by its age at the given native time.
LEMMA PresentationFacts ==
    ASSUME NEW at \in Nat, NEW last \in Snapshots
    PROVE  LET view == Presentation(at, last) IN
           /\ view \in Views
           /\ view.kind # "unsupported"
           /\ view.kind \in {"content", "stale-content"} =>
                  last.activity = "playing" /\ view.observedAt = last.observedAt
           /\ view.kind = "content" => at <= last.observedAt + Fresh
           /\ view.kind = "stale-content" =>
                  at <= last.observedAt + Stale /\ last.observedAt + Fresh < at
           /\ view.kind = "unavailable" /\ last.activity = "playing" =>
                  at < last.observedAt \/ last.observedAt + Stale < at
BY DurationsAssumption DEF Presentation, Snapshots, Views, View, Timeless

\* An answer resolves to a snapshot, a native time and a view.
LEMMA ResolvedFacts ==
    ASSUME TypeOK
    PROVE  /\ Remembered \in Snapshots
           /\ ResolvedAt \in Nat
           /\ Resolved \in Views
<1>1. Remembered \in Snapshots /\ ResolvedAt \in Nat
  BY DEF TypeOK, Answers, AllOutcomes, Snapshots, Remembered, ResolvedAt
<1>. QED  BY <1>1, PresentationFacts DEF Resolved, Views, View, Timeless

\* The delay before the next poll is never longer than the longest one.
LEMMA DelayFacts ==
    ASSUME retryIndex \in 0..Len(RetryDelays)
    PROVE  /\ RetryDelay \in Nat /\ RetryDelay <= LongestDelay
           /\ NextRetry \in 0..Len(RetryDelays)
<1>1. Len(RetryDelays) \in Nat /\ Len(RetryDelays) > 0
  BY DurationsAssumption
<1>2. \A i \in 1..Len(RetryDelays) : RetryDelays[i] \in Nat /\ RetryDelays[i] <= LongestDelay
  BY DurationsAssumption
<1>. QED  BY <1>1, <1>2 DEF RetryDelay, NextRetry

-----------------------------------------------------------------------------
(***************************************************************************)
(* Types and time.  A failure is resolved at a native time that is a       *)
(* natural number only because no response is in the future, so the two    *)
(* are proved together.                                                    *)
(***************************************************************************)

\* Nothing is observed, asked or answered later than now; no deadline and no
\* timer has been passed over.
TimeInv ==
    /\ native.observedAt <= now /\ now <= native.observedAt + CollectLag
    /\ lastResponseAt <= now /\ visibleSince <= now
    /\ request # "none" => requestStart <= now /\ now <= requestStart + RequestDeadline
    /\ \A due \in scheduled : now <= due

Timed == TypeOK /\ TimeInv

\* The empty answer is an answer.
LEMMA NoAnswerFacts == NoAnswer \in Answers
BY DEF NoAnswer, Answers, AllOutcomes

LEMMA TimedInit == Init => Timed
<1>1. Len(RetryDelays) \in Nat
  BY DurationsAssumption
<1>2. <<>> \in Seq(Commands) /\ <<>> \in Seq(Views)
  OBVIOUS
<1>. SUFFICES ASSUME Init PROVE Timed
  OBVIOUS
<1>3. TimeInv
  BY <1>1, DurationsAssumption, NoAnswerFacts DEF Init, TimeInv, NoAnswer
<1>4. View("unavailable", 0) \in Views /\ NoSnapshot \in Snapshots
  BY DEF View, Views, Timeless, NoSnapshot, Snapshots
<1>5. TypeOK
  <2>1. 0 \in 0..Len(RetryDelays)
    BY <1>1
  <2>. QED  BY <1>2, <1>4, <2>1, NoAnswerFacts DEF Init, TypeOK
<1>. QED  BY <1>3, <1>5 DEF Timed

\* A poll begins now, unless one is in flight.
LEMMA BeginPollFacts ==
    ASSUME request \in {"none", "instance", "snapshot", "answered"}, BeginPoll
    PROVE  \/ /\ request # "none" /\ request' = request /\ requestStart' = requestStart
              /\ answer' = answer /\ scheduled' = scheduled
           \/ /\ request = "none" /\ request' \in {"instance", "snapshot"}
              /\ requestStart' = now /\ answer' = NoAnswer /\ scheduled' = {}
BY DEF BeginPoll, pollVars

\* A posted command is the last one on its way.
LEMMA PostFacts ==
    ASSUME channel \in Seq(Commands), NEW kind \in {"initialize", "visibility-change"},
           NEW shown \in {"hidden", "visible"}, Post(kind, shown)
    PROVE  /\ channel' \in Seq(Commands)
           /\ Len(channel') = Len(channel) + 1
           /\ channel'[Len(channel')] = [kind |-> kind, visibility |-> shown]
           /\ \A i \in 1..Len(channel) : channel'[i] = channel[i]
<1>1. [kind |-> kind, visibility |-> shown] \in Commands
  BY DEF Commands
<1>. QED  BY <1>1, AppendProperties DEF Post

LEMMA TimedStep == Timed /\ [Next]_vars => Timed'
<1>. SUFFICES ASSUME Timed, [Next]_vars PROVE Timed'
  OBVIOUS
<1>. USE DurationsAssumption DEF Timed, TypeOK, TimeInv, pageVars, workerVars, pollVars, memoryVars
<1>1. CASE StartPage
  BY <1>1 DEF StartPage
<1>2. CASE Paired
  <2>1. channel' \in Seq(Commands)
    BY <1>2, PostFacts DEF Paired
  <2>. QED  BY <1>2, <2>1 DEF Paired, CreateWorker
<1>3. CASE StartFailed
  BY <1>3 DEF StartFailed, Views, View, Timeless
<1>4. CASE VisibilityChange
  <2>1. pageVisibility' \in {"hidden", "visible"}
    BY <1>4 DEF VisibilityChange
  <2>2. channel' \in Seq(Commands)
    BY <1>4, <2>1, PostFacts DEF VisibilityChange
  <2>. QED  BY <1>4, <2>1, <2>2 DEF VisibilityChange
<1>5. CASE ReceivePresentation
  BY <1>5 DEF ReceivePresentation
<1>6. CASE WorkerErrs
  BY <1>6 DEF WorkerErrs, Views, View, Timeless
<1>7. CASE DisposePage
  BY <1>7 DEF DisposePage, FinishRequest, NoAnswer, Answers, AllOutcomes
<1>8. CASE ReceiveCommand
  <2>1. Head(channel) \in Commands /\ channel' \in Seq(Commands)
    BY <1>8, HeadTailProperties DEF ReceiveCommand
  <2>2. CASE Believe("visible")
    <3>1. BeginPoll /\ runtime' = "active" /\ visibility' = "visible" /\ visibleSince' = now
      BY <2>2 DEF Believe
    <3>2. UNCHANGED <<now, native, pageVars, events, instanceKnown, retryIndex, memoryVars>>
      BY <1>8 DEF ReceiveCommand
    <3>3. CASE request # "none"
      <4>1. UNCHANGED <<request, requestStart, answer, scheduled>>
        BY <3>1, <3>3, BeginPollFacts
      <4>2. TypeOK'
        BY <2>1, <3>1, <3>2, <4>1
      <4>3. TimeInv'
        BY <3>1, <3>2, <4>1
      <4>. QED  BY <4>2, <4>3
    <3>4. CASE request = "none"
      BY <2>1, <3>1, <3>2, <3>4, BeginPollFacts, NoAnswerFacts
    <3>. QED  BY <3>3, <3>4
  <2>3. CASE Believe("hidden")
    BY <1>8, <2>1, <2>3, NoAnswerFacts DEF ReceiveCommand, Believe, FinishRequest
  <2>4. CASE UNCHANGED <<runtime, visibility, pollVars, scheduled, visibleSince>>
    BY <1>8, <2>1, <2>4 DEF ReceiveCommand
  <2>. QED  BY <1>8, <2>1, <2>2, <2>3, <2>4 DEF ReceiveCommand, Commands
<1>9. CASE ScheduledPoll
  <2>1. BeginPoll
    BY <1>9 DEF ScheduledPoll
  <2>2. CASE request # "none"
    BY <1>9, <2>1, <2>2, BeginPollFacts DEF ScheduledPoll
  <2>3. CASE request = "none"
    BY <1>9, <2>1, <2>3, BeginPollFacts, NoAnswerFacts DEF ScheduledPoll
  <2>. QED  BY <2>2, <2>3
<1>10. CASE InstanceArrives
  BY <1>10 DEF InstanceArrives
<1>11. CASE SnapshotArrives
  BY <1>11, ResolvedFacts DEF SnapshotArrives, Accept, FinishRequest, ScheduleNext, NoAnswer, Answers,
      AllOutcomes
<1>12. CASE PollFails
  <2>1. NativeNow \in Nat
    BY DEF NativeNow
  <2>. QED  BY <1>12, <2>1, PresentationFacts, DelayFacts
            DEF PollFails, Accept, FinishRequest, ScheduleNext, NoAnswer, Answers, AllOutcomes
<1>13. CASE Collect
  BY <1>13, LocalBoundsAssumption DEF Collect, Answers
<1>14. CASE ServeSnapshot
  BY <1>14 DEF ServeSnapshot
<1>15. CASE Tick
  BY <1>15 DEF Tick, Answers
<1>16. CASE UNCHANGED vars
  BY <1>16 DEF vars
<1>. QED
  BY <1>1, <1>2, <1>3, <1>4, <1>5, <1>6, <1>7, <1>8, <1>9, <1>10, <1>11, <1>12, <1>13, <1>14, <1>15, <1>16
  DEF Next

\* Every variable keeps to its kind, and no deadline or timer is passed over:
\* the worker's one request is always younger than its deadline.
THEOREM TypeCorrect == Spec => []TypeOK
<1>. QED  BY TimedInit, TimedStep, PTL DEF Spec, Timed

-----------------------------------------------------------------------------
(***************************************************************************)
(* The life of the worker.                                                 *)
(***************************************************************************)

\* Only a worker polls, and before there is one nothing is remembered.
LifeInv ==
    /\ ~HasWorker => request = "none" /\ scheduled = {}
    /\ application \in {"not-started", "starting"} =>
           lastSuccessful.activity = "none" /\ events = <<>> /\ channel = <<>>
    /\ HasWorker => runtime \in {"not-initialized", "active"}
    /\ snapshot.kind = "content" => application \in {"active", "disposed"}

\* What receiving a command does to the poll.
LEMMA ReceiveFacts ==
    ASSUME request \in {"none", "instance", "snapshot", "answered"},
           ReceiveCommand
    PROVE  /\ HasWorker
           /\ UNCHANGED <<now, native, application, pageVisibility, snapshot, events, instanceKnown,
                          retryIndex, lastSuccessful, lastNativeNow, lastResponseAt>>
           /\ channel # <<>> /\ channel' = Tail(channel)
           /\ \/ /\ ~Expected(Head(channel))
                 /\ UNCHANGED <<runtime, visibility, request, requestStart, answer, scheduled, visibleSince>>
              \/ /\ Expected(Head(channel))
                 /\ runtime' = "active" /\ visibility' = "visible" /\ visibleSince' = now
                 /\ Head(channel).visibility = "visible"
                 /\ \/ request # "none" /\ UNCHANGED <<request, requestStart, answer, scheduled>>
                    \/ /\ request' \in {"instance", "snapshot"} /\ requestStart' = now
                       /\ answer' = NoAnswer /\ scheduled' = {}
              \/ /\ Expected(Head(channel))
                 /\ runtime' = "active" /\ visibility' = "hidden" /\ visibleSince' = visibleSince
                 /\ Head(channel).visibility = "hidden"
                 /\ request' = "none" /\ requestStart' = 0 /\ answer' = NoAnswer /\ scheduled' = {}
<1>1. /\ HasWorker /\ channel # <<>> /\ channel' = Tail(channel)
      /\ UNCHANGED <<now, native, application, pageVisibility, snapshot, events, instanceKnown,
                     retryIndex, lastSuccessful, lastNativeNow, lastResponseAt>>
  BY DEF ReceiveCommand, pageVars, memoryVars
<1>2. CASE ~Expected(Head(channel))
  BY <1>1, <1>2 DEF ReceiveCommand, pollVars
<1>3. CASE Expected(Head(channel)) /\ Head(channel).visibility = "visible"
  <2>1. BeginPoll /\ runtime' = "active" /\ visibility' = "visible" /\ visibleSince' = now
    BY <1>3 DEF ReceiveCommand, Believe
  <2>. QED  BY <1>1, <1>3, <2>1, BeginPollFacts
<1>4. CASE Expected(Head(channel)) /\ Head(channel).visibility # "visible"
  <2>1. /\ runtime' = "active" /\ visibility' = "hidden" /\ visibleSince' = visibleSince
        /\ Head(channel).visibility = "hidden" /\ FinishRequest /\ scheduled' = {}
    BY <1>4 DEF ReceiveCommand, Believe
  <2>. QED  BY <1>1, <1>4, <2>1 DEF FinishRequest
<1>. QED  BY <1>2, <1>3, <1>4

LEMMA LifeStep == TypeOK /\ LifeInv /\ [Next]_vars => LifeInv'
<1>. SUFFICES ASSUME TypeOK, LifeInv, [Next]_vars PROVE LifeInv'
  OBVIOUS
<1>. USE DEF TypeOK, LifeInv, HasWorker, pageVars, workerVars, pollVars, memoryVars
<1>1. CASE StartPage
  BY <1>1 DEF StartPage
<1>2. CASE Paired
  BY <1>2 DEF Paired, CreateWorker
<1>3. CASE StartFailed
  BY <1>3 DEF StartFailed, View
<1>4. CASE VisibilityChange
  BY <1>4 DEF VisibilityChange
<1>5. CASE ReceivePresentation
  BY <1>5 DEF ReceivePresentation
<1>6. CASE WorkerErrs
  BY <1>6 DEF WorkerErrs, View
<1>7. CASE DisposePage
  BY <1>7 DEF DisposePage, FinishRequest
<1>8. CASE ReceiveCommand
  BY <1>8, ReceiveFacts DEF ReceiveCommand
<1>9. CASE ScheduledPoll
  BY <1>9, BeginPollFacts DEF ScheduledPoll
<1>10. CASE InstanceArrives
  BY <1>10 DEF InstanceArrives
<1>11. CASE SnapshotArrives
  BY <1>11 DEF SnapshotArrives, FinishRequest, ScheduleNext, Accept
<1>12. CASE PollFails
  BY <1>12 DEF PollFails, FinishRequest, ScheduleNext, Accept
<1>13. CASE Collect
  BY <1>13 DEF Collect
<1>14. CASE ServeSnapshot
  BY <1>14 DEF ServeSnapshot
<1>15. CASE Tick
  BY <1>15 DEF Tick
<1>16. CASE UNCHANGED vars
  BY <1>16 DEF vars
<1>. QED
  BY <1>1, <1>2, <1>3, <1>4, <1>5, <1>6, <1>7, <1>8, <1>9, <1>10, <1>11, <1>12, <1>13, <1>14, <1>15, <1>16
  DEF Next

-----------------------------------------------------------------------------
(***************************************************************************)
(* Answers and memory.                                                     *)
(***************************************************************************)

\* What travels and what is remembered was observed in this order, and is read.
AnswerInv ==
    /\ native.outcome # "malformed"
    /\ lastSuccessful.observedAt <= native.observedAt
    /\ request = "answered" =>
           /\ answer.outcome # "malformed"
           /\ lastSuccessful.observedAt <= answer.observedAt
           /\ answer.observedAt <= native.observedAt
           /\ requestStart <= answer.observedAt + CollectLag

LEMMA AnswerStep == Readable /\ Timed /\ LifeInv /\ AnswerInv /\ [Next]_vars => AnswerInv'
<1>. SUFFICES ASSUME Readable, Timed, LifeInv, AnswerInv, [Next]_vars PROVE AnswerInv'
  OBVIOUS
<1>. USE DurationsAssumption DEF Timed, TypeOK, TimeInv, LifeInv, AnswerInv, HasWorker, Answers, Snapshots,
                                 pageVars, workerVars, pollVars, memoryVars
<1>1. CASE StartPage
  BY <1>1 DEF StartPage
<1>2. CASE Paired
  BY <1>2 DEF Paired, CreateWorker
<1>3. CASE StartFailed
  BY <1>3 DEF StartFailed
<1>4. CASE VisibilityChange
  BY <1>4 DEF VisibilityChange
<1>5. CASE ReceivePresentation
  BY <1>5 DEF ReceivePresentation
<1>6. CASE WorkerErrs
  BY <1>6 DEF WorkerErrs
<1>7. CASE DisposePage
  BY <1>7 DEF DisposePage, FinishRequest
<1>8. CASE ReceiveCommand
  BY <1>8, ReceiveFacts DEF ReceiveCommand
<1>9. CASE ScheduledPoll
  BY <1>9, BeginPollFacts DEF ScheduledPoll
<1>10. CASE InstanceArrives
  BY <1>10 DEF InstanceArrives
<1>11. CASE SnapshotArrives
  BY <1>11 DEF SnapshotArrives, Remembered, FinishRequest, ScheduleNext, Accept
<1>12. CASE PollFails
  BY <1>12 DEF PollFails, FinishRequest, ScheduleNext, Accept
<1>13. CASE Collect
  BY <1>13 DEF Collect, Readable
<1>14. CASE ServeSnapshot
  BY <1>14 DEF ServeSnapshot
<1>15. CASE Tick
  BY <1>15 DEF Tick
<1>16. CASE UNCHANGED vars
  BY <1>16 DEF vars
<1>. QED
  BY <1>1, <1>2, <1>3, <1>4, <1>5, <1>6, <1>7, <1>8, <1>9, <1>10, <1>11, <1>12, <1>13, <1>14, <1>15, <1>16
  DEF Next

\* The worker's native time is not ahead of the native process, and behind it
\* by no more than the skew once there is something to show.
MemoryInv ==
    /\ lastNativeNow <= lastResponseAt
    /\ lastSuccessful.activity # "none" =>
           /\ lastSuccessful.observedAt <= lastNativeNow
           /\ lastResponseAt <= lastNativeNow + Skew

LEMMA MemoryStep ==
    Timed /\ LifeInv /\ AnswerInv /\ MemoryInv /\ [Next]_vars => MemoryInv'
<1>. SUFFICES ASSUME Timed, LifeInv, AnswerInv, MemoryInv, [Next]_vars PROVE MemoryInv'
  OBVIOUS
<1>. USE DurationsAssumption DEF Timed, TypeOK, TimeInv, LifeInv, AnswerInv, MemoryInv, Skew, HasWorker, Answers,
                                 Snapshots, pageVars, workerVars, pollVars, memoryVars
<1>1. CASE StartPage
  BY <1>1 DEF StartPage
<1>2. CASE Paired
  BY <1>2 DEF Paired, CreateWorker
<1>3. CASE StartFailed
  BY <1>3 DEF StartFailed
<1>4. CASE VisibilityChange
  BY <1>4 DEF VisibilityChange
<1>5. CASE ReceivePresentation
  BY <1>5 DEF ReceivePresentation
<1>6. CASE WorkerErrs
  BY <1>6 DEF WorkerErrs
<1>7. CASE DisposePage
  BY <1>7 DEF DisposePage, FinishRequest
<1>8. CASE ReceiveCommand
  BY <1>8, ReceiveFacts DEF ReceiveCommand
<1>9. CASE ScheduledPoll
  BY <1>9, BeginPollFacts DEF ScheduledPoll
<1>10. CASE InstanceArrives
  BY <1>10 DEF InstanceArrives
<1>11. CASE SnapshotArrives
  BY <1>11 DEF SnapshotArrives, Remembered, ResolvedAt, FinishRequest, ScheduleNext, Accept
<1>12. CASE PollFails
  BY <1>12 DEF PollFails, NativeNow, FinishRequest, ScheduleNext, Accept
<1>13. CASE Collect
  BY <1>13 DEF Collect
<1>14. CASE ServeSnapshot
  BY <1>14 DEF ServeSnapshot
<1>15. CASE Tick
  BY <1>15 DEF Tick
<1>16. CASE UNCHANGED vars
  BY <1>16 DEF vars
<1>. QED
  BY <1>1, <1>2, <1>3, <1>4, <1>5, <1>6, <1>7, <1>8, <1>9, <1>10, <1>11, <1>12, <1>13, <1>14, <1>15, <1>16
  DEF Next

-----------------------------------------------------------------------------
(***************************************************************************)
(* Freshness.  The native time a view is resolved at is at most now and,   *)
(* once there is something to show, at least now less the skew; so the age *)
(* the worker gives a snapshot is its true age up to the skew.             *)
(***************************************************************************)
FreshInv == Timed /\ LifeInv /\ AnswerInv /\ MemoryInv

\* The view is honest about the age of the playback it is made from.
HonestView(view) ==
    /\ view \in Views
    /\ view.kind = "content" => now <= view.observedAt + Fresh + Skew
    /\ view.kind = "stale-content" =>
           now <= view.observedAt + Stale + Skew /\ view.observedAt + Fresh < now
    /\ view.kind = "unavailable" /\ lastSuccessful'.activity = "playing" =>
           lastSuccessful'.observedAt + Stale < now

\* A presentation resolved between the skew ago and now is honest.
LEMMA HonestPresentation ==
    ASSUME now \in Nat, NEW at \in Nat, NEW last \in Snapshots, lastSuccessful' = last, at <= now,
           last.activity # "none" => last.observedAt <= at /\ now <= at + Skew
    PROVE  HonestView(Presentation(at, last))
<1>1. last.observedAt \in Nat /\ last.activity \in {"none", "playing", "paused"} /\ Skew \in Nat
  BY DurationsAssumption DEF Snapshots, Skew
<1>2. Presentation(at, last) \in Views
  BY PresentationFacts
<1>3. Presentation(at, last).observedAt \in Nat
  BY <1>2 DEF Views
<1>. DEFINE view == Presentation(at, last)
<1>4. /\ view.kind \in {"content", "stale-content"} =>
             last.activity = "playing" /\ view.observedAt = last.observedAt
      /\ view.kind = "content" => at <= last.observedAt + Fresh
      /\ view.kind = "stale-content" =>
             at <= last.observedAt + Stale /\ last.observedAt + Fresh < at
      /\ view.kind = "unavailable" /\ last.activity = "playing" =>
             at < last.observedAt \/ last.observedAt + Stale < at
  BY PresentationFacts
<1>. HIDE DEF view
<1>5. HonestView(view)
  BY <1>1, <1>2, <1>3, <1>4, DurationsAssumption DEF HonestView, view
<1>. QED  BY <1>5 DEF view

\* Each of the two steps that publish publishes an honest view.
LEMMA Publishes ==
    ASSUME FreshInv, SnapshotArrives \/ PollFails
    PROVE  /\ \E view : HonestView(view) /\ events' = Append(events, view)
           /\ now' = now /\ lastResponseAt' = now
<1>. USE DEF FreshInv, Timed
<1>1. CASE SnapshotArrives
  <2>1. /\ request = "answered" /\ events' = Append(events, Resolved)
        /\ lastSuccessful' = Remembered /\ now' = now /\ lastResponseAt' = now
    BY <1>1 DEF SnapshotArrives, Accept
  <2>2. answer.outcome # "malformed" /\ ResolvedAt = answer.observedAt
    BY <2>1 DEF AnswerInv, ResolvedAt
  <2>3. Remembered \in Snapshots /\ ResolvedAt \in Nat /\ now \in Nat
    BY ResolvedFacts DEF TypeOK
  <2>4. ResolvedAt <= now /\ Remembered.observedAt <= ResolvedAt /\ now <= ResolvedAt + Skew
    BY <2>1, <2>2, <2>3, DurationsAssumption
    DEF AnswerInv, TimeInv, TypeOK, Answers, Snapshots, Remembered, Skew
  <2>5. HonestView(Presentation(ResolvedAt, Remembered))
    BY <2>1, <2>3, <2>4, HonestPresentation
  <2>6. HonestView(View("unsupported", 0))
    BY DEF HonestView, View, Views, Timeless
  <2>. QED  BY <2>1, <2>5, <2>6 DEF Resolved
<1>2. CASE PollFails
  <2>1. /\ events' = Append(events, Presentation(NativeNow, lastSuccessful))
        /\ lastSuccessful' = lastSuccessful /\ now' = now /\ lastResponseAt' = now
    BY <1>2 DEF PollFails, Accept
  <2>2. NativeNow \in Nat /\ NativeNow <= now /\ lastSuccessful \in Snapshots /\ now \in Nat
    BY DEF NativeNow, TypeOK, TimeInv, MemoryInv
  <2>3. lastSuccessful.activity # "none" => lastSuccessful.observedAt <= NativeNow /\ now <= NativeNow + Skew
    BY DurationsAssumption DEF NativeNow, TypeOK, TimeInv, MemoryInv, Snapshots, Skew
  <2>. QED  BY <2>1, <2>2, <2>3, HonestPresentation
<1>. QED  BY <1>1, <1>2

\* No other step publishes, revises what is remembered while something is on
\* its way, or lets time pass over it.
LEMMA Forwards ==
    ASSUME TypeOK, LifeInv, [Next]_vars, ~SnapshotArrives, ~PollFails
    PROVE  \/ events = <<>> /\ events' = <<>>
           \/ events' = <<>>
           \/ /\ events # <<>> /\ events' \in {events, Tail(events)}
              /\ now' = now /\ lastSuccessful' = lastSuccessful
<1>. USE DEF TypeOK, LifeInv, HasWorker, pageVars, workerVars, pollVars, memoryVars
<1>1. CASE StartPage \/ StartFailed \/ VisibilityChange \/ WorkerErrs
  BY <1>1 DEF StartPage, StartFailed, VisibilityChange, WorkerErrs
<1>2. CASE Paired \/ DisposePage \/ ReceivePresentation
  BY <1>2 DEF Paired, CreateWorker, DisposePage, ReceivePresentation
<1>3. CASE ReceiveCommand
  BY <1>3, ReceiveFacts
<1>4. CASE ScheduledPoll \/ InstanceArrives \/ Collect \/ ServeSnapshot
  BY <1>4 DEF ScheduledPoll, InstanceArrives, Collect, ServeSnapshot
<1>5. CASE Tick
  BY <1>5 DEF Tick
<1>6. CASE UNCHANGED vars
  BY <1>6 DEF vars
<1>. QED  BY <1>1, <1>2, <1>3, <1>4, <1>5, <1>6 DEF Next

LEMMA FreshStep == Readable /\ FreshInv /\ [Next]_vars => FreshInv'
BY TimedStep, LifeStep, AnswerStep, MemoryStep DEF FreshInv, Timed

LEMMA FreshInit == Readable /\ Init => FreshInv /\ HonestFreshness /\ RetainsRecent
<1>. SUFFICES ASSUME Readable, Init PROVE FreshInv /\ HonestFreshness /\ RetainsRecent
  OBVIOUS
<1>1. Timed
  BY TimedInit
<1>2. LifeInv /\ AnswerInv /\ MemoryInv
  BY DEF Init, LifeInv, AnswerInv, MemoryInv, HasWorker, NoAnswer, NoSnapshot, View
<1>. QED  BY <1>1, <1>2 DEF FreshInv, Init, HonestFreshness, RetainsRecent

\* Dropping the head of a sequence keeps its other elements, and its last.
LEMMA TailFacts ==
    ASSUME NEW S, NEW s \in Seq(S), s # <<>>
    PROVE  /\ Len(Tail(s)) = Len(s) - 1
           /\ \A i \in DOMAIN Tail(s) : i + 1 \in DOMAIN s /\ Tail(s)[i] = s[i + 1]
           /\ Tail(s) # <<>> => Tail(s)[Len(Tail(s))] = s[Len(s)]
<1>1. /\ Tail(s) \in Seq(S) /\ Len(Tail(s)) = Len(s) - 1 /\ Len(s) \in Nat
      /\ \A i \in 1..Len(Tail(s)) : Tail(s)[i] = s[i + 1]
  BY HeadTailProperties, LenProperties
<1>2. DOMAIN Tail(s) = 1..Len(Tail(s)) /\ DOMAIN s = 1..Len(s)
  BY <1>1, LenProperties
<1>3. Tail(s) # <<>> => Len(Tail(s)) \in 1..Len(Tail(s))
  BY <1>1, EmptySeq, LenProperties
<1>. QED  BY <1>1, <1>2, <1>3

LEMMA HonestStep == FreshInv /\ HonestFreshness /\ [Next]_vars => HonestFreshness'
<1>. SUFFICES ASSUME FreshInv, HonestFreshness, [Next]_vars,
                     NEW i \in DOMAIN events',
                     events'[i].kind \in {"content", "stale-content"}
              PROVE  /\ events'[i].kind = "content" => now' - events'[i].observedAt <= Fresh + Skew
                     /\ events'[i].kind = "stale-content" => now' - events'[i].observedAt <= Stale + Skew
  BY DEF HonestFreshness
<1>1. events \in Seq(Views) /\ now \in Nat /\ Skew \in Nat
  BY DurationsAssumption DEF FreshInv, Timed, TypeOK, Skew
<1>2. CASE SnapshotArrives \/ PollFails
  <2>1. PICK view : HonestView(view) /\ events' = Append(events, view)
    BY <1>2, Publishes
  <2>2. now' = now
    BY <1>2, Publishes
  <2>3. view \in Views /\ view.observedAt \in Nat
    BY <2>1 DEF HonestView, Views
  <2>4. events'[i] = view \/ (i \in DOMAIN events /\ events'[i] = events[i])
    BY <1>1, <2>1, <2>3, AppendProperties, LenProperties
  <2>5. CASE events'[i] = view
    BY <1>1, <2>1, <2>2, <2>3, <2>5, DurationsAssumption DEF HonestView
  <2>6. CASE i \in DOMAIN events /\ events'[i] = events[i]
    BY <2>2, <2>6 DEF HonestFreshness
  <2>. QED  BY <2>4, <2>5, <2>6
<1>3. CASE ~SnapshotArrives /\ ~PollFails
  <2>1. /\ events # <<>> /\ events' \in {events, Tail(events)} /\ now' = now
    BY <1>3, Forwards DEF FreshInv, Timed
  <2>2. CASE events' = events
    BY <2>1, <2>2 DEF HonestFreshness
  <2>3. CASE events' = Tail(events)
    BY <1>1, <2>1, <2>3, TailFacts DEF HonestFreshness
  <2>. QED  BY <2>1, <2>2, <2>3
<1>. QED  BY <1>2, <1>3

\* However long its requests fail, the worker never publishes as current what
\* was observed longer ago than Fresh and the skew, or as stale longer ago than
\* Stale and the skew: the native clock it extrapolates does not fall behind.
THEOREM HonestFreshnessTheorem ==
    ASSUME Readable PROVE Spec => []HonestFreshness
<1>1. Init => FreshInv /\ HonestFreshness
  BY FreshInit
<1>2. FreshInv /\ HonestFreshness /\ [Next]_vars => (FreshInv /\ HonestFreshness)'
  BY FreshStep, HonestStep
<1>. QED  BY <1>1, <1>2, PTL DEF Spec

LEMMA RetainsStep == FreshInv /\ RetainsRecent /\ [Next]_vars => RetainsRecent'
<1>. SUFFICES ASSUME FreshInv, RetainsRecent, [Next]_vars, events' # <<>> PROVE RetainsRecent'
  BY DEF RetainsRecent
<1>1. events \in Seq(Views) /\ now \in Nat
  BY DEF FreshInv, Timed, TypeOK
<1>2. CASE SnapshotArrives \/ PollFails
  <2>1. PICK view : HonestView(view) /\ events' = Append(events, view)
    BY <1>2, Publishes
  <2>2. now' = now
    BY <1>2, Publishes
  <2>3. view \in Views /\ view.observedAt \in Nat
    BY <2>1 DEF HonestView, Views
  <2>4. events'[Len(events')] = view
    BY <1>1, <2>1, <2>3, AppendProperties
  <2>5. lastSuccessful' \in Snapshots
    BY <1>2, TimedStep DEF FreshInv, Timed, TypeOK
  <2>. QED  BY <1>1, <2>1, <2>2, <2>3, <2>4, <2>5, DurationsAssumption DEF HonestView, RetainsRecent, Snapshots
<1>3. CASE ~SnapshotArrives /\ ~PollFails
  <2>1. /\ events # <<>> /\ events' \in {events, Tail(events)} /\ now' = now
        /\ lastSuccessful' = lastSuccessful
    BY <1>3, Forwards DEF FreshInv, Timed
  <2>2. events'[Len(events')] = events[Len(events)]
    BY <1>1, <2>1, TailFacts
  <2>. QED  BY <2>1, <2>2 DEF RetainsRecent
<1>. QED  BY <1>2, <1>3

\* Nor does it run ahead: a failure calls a playback stale only after Fresh and
\* gives it up only after Stale, measured from when it was observed.
THEOREM RetainsRecentTheorem ==
    ASSUME Readable PROVE Spec => []RetainsRecent
<1>1. Init => FreshInv /\ RetainsRecent
  BY FreshInit
<1>2. FreshInv /\ RetainsRecent /\ [Next]_vars => (FreshInv /\ RetainsRecent)'
  BY FreshStep, RetainsStep
<1>. QED  BY <1>1, <1>2, PTL DEF Spec

-----------------------------------------------------------------------------
(***************************************************************************)
(* Visibility.  The commands on their way to the worker end in what the    *)
(* page is, so a worker that has received them all believes the truth.     *)
(***************************************************************************)

\* The last command on its way says how visible the page is, the first one
\* initializes a worker that is not, and a hidden worker is quiet.
ChannelInv ==
    HasWorker =>
        /\ channel # <<>> => channel[Len(channel)].visibility = pageVisibility
        /\ channel = <<>> => runtime = "active" /\ visibility = pageVisibility
        /\ \A i \in DOMAIN channel :
               channel[i].kind = "initialize" <=> (i = 1 /\ runtime = "not-initialized")
        /\ (runtime = "not-initialized" \/ visibility = "hidden") =>
               request = "none" /\ scheduled = {}

LEMMA ChannelStep == TypeOK /\ LifeInv /\ ChannelInv /\ [Next]_vars => ChannelInv'
<1>. SUFFICES ASSUME TypeOK, LifeInv, ChannelInv, [Next]_vars PROVE ChannelInv'
  OBVIOUS
<1>. USE DEF HasWorker, pageVars, workerVars, pollVars, memoryVars
<1>0. /\ channel \in Seq(Commands) /\ pageVisibility \in {"hidden", "visible"}
      /\ request \in {"none", "instance", "snapshot", "answered"}
      /\ Len(channel) \in Nat /\ DOMAIN channel = 1..Len(channel)
  BY LenProperties DEF TypeOK
<1>1. CASE Paired
  <2>1. channel = <<>> /\ request = "none" /\ scheduled = {}
    BY <1>1 DEF Paired, CreateWorker, LifeInv
  <2>2. channel' = <<[kind |-> "initialize", visibility |-> pageVisibility]>>
    BY <1>1, <2>1 DEF Paired, Post
  <2>3. channel' # <<>> /\ Len(channel') = 1 /\ DOMAIN channel' = {1}
    BY <2>2
  <2>. QED  BY <1>1, <2>1, <2>2, <2>3 DEF Paired, CreateWorker, ChannelInv
<1>2. CASE VisibilityChange
  <2>. SUFFICES ASSUME HasWorker PROVE ChannelInv'
    BY <1>2 DEF VisibilityChange, ChannelInv
  <2>1. pageVisibility' \in {"hidden", "visible"} /\ Post("visibility-change", pageVisibility')
    BY <1>2 DEF VisibilityChange
  <2>2. /\ Len(channel') = Len(channel) + 1
        /\ channel'[Len(channel')] = [kind |-> "visibility-change", visibility |-> pageVisibility']
        /\ \A i \in 1..Len(channel) : channel'[i] = channel[i]
        /\ DOMAIN channel' = 1..(Len(channel) + 1)
    BY <1>0, <2>1, PostFacts, LenProperties
  <2>3. channel = <<>> => runtime = "active"
    BY DEF ChannelInv
  <2>4. channel' # <<>> /\ (channel # <<>> => Len(channel) + 1 # 1)
    BY <1>0, <2>2, EmptySeq, LenProperties
  <2>5. \A i \in DOMAIN channel' :
            channel'[i].kind = "initialize" <=> (i = 1 /\ runtime' = "not-initialized")
    <3>. SUFFICES ASSUME NEW i \in DOMAIN channel'
                  PROVE channel'[i].kind = "initialize" <=> (i = 1 /\ runtime' = "not-initialized")
      OBVIOUS
    <3>1. runtime' = runtime
      BY <1>2 DEF VisibilityChange
    <3>2. CASE i \in 1..Len(channel)
      BY <1>0, <2>2, <3>1, <3>2 DEF ChannelInv
    <3>3. CASE i = Len(channel) + 1
      BY <2>2, <2>3, <2>4, <3>1, <3>3
    <3>. QED  BY <1>0, <2>2, <3>2, <3>3
  <2>. QED  BY <1>2, <2>2, <2>4, <2>5 DEF VisibilityChange, ChannelInv
<1>3. CASE ReceiveCommand
  <2>1. /\ HasWorker /\ channel # <<>> /\ channel' = Tail(channel) /\ UNCHANGED <<application, pageVisibility>>
    BY <1>0, <1>3, ReceiveFacts
  <2>2. /\ Head(channel) = channel[1] /\ 1 \in DOMAIN channel
        /\ Head(channel).kind = "initialize" <=> runtime = "not-initialized"
    BY <1>0, <2>1, EmptySeq DEF ChannelInv
  <2>3. Expected(Head(channel))
    BY <2>1, <2>2 DEF Expected, LifeInv
  <2>4. /\ runtime' = "active" /\ visibility' = channel[1].visibility
        /\ visibility' = "hidden" => request' = "none" /\ scheduled' = {}
    BY <1>0, <1>3, <2>2, <2>3, ReceiveFacts
  <2>5. /\ \A i \in DOMAIN channel' : i + 1 \in DOMAIN channel /\ channel'[i] = channel[i + 1]
        /\ channel' # <<>> => channel'[Len(channel')] = channel[Len(channel)]
        /\ Len(channel') = Len(channel) - 1 /\ DOMAIN channel' = 1..Len(channel')
    BY <1>0, <2>1, TailFacts, HeadTailProperties, LenProperties
  <2>6. channel' = <<>> => visibility' = pageVisibility'
    BY <1>0, <2>1, <2>4, <2>5 DEF ChannelInv
  <2>7. \A i \in DOMAIN channel' : channel'[i].kind # "initialize"
    BY <1>0, <2>1, <2>5 DEF ChannelInv
  <2>. QED  BY <2>1, <2>4, <2>5, <2>6, <2>7 DEF ChannelInv
<1>4. CASE ScheduledPoll
  <2>1. runtime # "not-initialized"
    BY <1>4 DEF ScheduledPoll, ChannelInv
  <2>. QED  BY <1>4, <2>1 DEF ScheduledPoll, ChannelInv
<1>5. CASE SnapshotArrives \/ PollFails
  BY <1>5 DEF SnapshotArrives, PollFails, ChannelInv
<1>6. CASE InstanceArrives \/ ServeSnapshot
  BY <1>6 DEF InstanceArrives, ServeSnapshot, ChannelInv
<1>7. CASE StartPage \/ StartFailed \/ DisposePage
  BY <1>7 DEF StartPage, StartFailed, DisposePage, ChannelInv
<1>8. CASE ReceivePresentation \/ WorkerErrs
  BY <1>8 DEF ReceivePresentation, WorkerErrs, ChannelInv
<1>9. CASE Collect \/ Tick
  BY <1>9 DEF Collect, Tick, ChannelInv
<1>10. CASE UNCHANGED vars
  BY <1>10 DEF vars, ChannelInv
<1>. QED  BY <1>1, <1>2, <1>3, <1>4, <1>5, <1>6, <1>7, <1>8, <1>9, <1>10 DEF Next

LEMMA LifeChannelInit == Init => LifeInv /\ ChannelInv
BY DEF Init, LifeInv, ChannelInv, HasWorker, NoSnapshot, View

\* A page that is hidden, and whose worker has heard of it, neither polls nor is
\* going to, in whatever order hiding, answers and failures happened.
THEOREM HiddenIsQuietTheorem == Spec => []HiddenIsQuiet
<1>. DEFINE IInv == Timed /\ LifeInv /\ ChannelInv
<1>1. Init => IInv
  BY TimedInit, LifeChannelInit
<1>2. IInv /\ [Next]_vars => IInv'
  BY TimedStep, LifeStep, ChannelStep DEF Timed
<1>3. IInv => HiddenIsQuiet
  BY DEF ChannelInv, HiddenIsQuiet
<1>. QED  BY <1>1, <1>2, <1>3, PTL DEF Spec

-----------------------------------------------------------------------------
(***************************************************************************)
(* Keeping up.                                                             *)
(***************************************************************************)

\* A visible worker is polling, or will poll, soon enough.
PollInv ==
    (HasWorker /\ runtime = "active" /\ visibility = "visible") =>
        \E base \in {lastResponseAt, visibleSince} :
            \/ request # "none" /\ requestStart <= base + LongestDelay
            \/ \E due \in scheduled : due <= base + LongestDelay

LEMMA PollStep == Timed /\ LifeInv /\ PollInv /\ [Next]_vars => PollInv'
<1>. SUFFICES ASSUME Timed, LifeInv, PollInv, [Next]_vars,
                     (HasWorker /\ runtime = "active" /\ visibility = "visible")'
              PROVE  PollInv'
  BY DEF PollInv
<1>. USE DurationsAssumption DEF HasWorker, pageVars, workerVars, pollVars, memoryVars, Timed, TypeOK, TimeInv
<1>1. CASE ReceiveCommand
  <2>1. CASE Expected(Head(channel))
    <3>1. /\ request' # "none" /\ visibleSince' = now
          /\ requestStart' \in Nat /\ requestStart' <= now
      BY <1>1, <2>1, ReceiveFacts
    <3>. QED  BY <3>1 DEF PollInv
  <2>2. CASE ~Expected(Head(channel))
    BY <1>1, <2>2, ReceiveFacts DEF PollInv
  <2>. QED  BY <2>1, <2>2
<1>2. CASE ScheduledPoll
  <2>1. runtime = "active" /\ visibility = "visible" /\ HasWorker
    BY <1>2 DEF ScheduledPoll
  <2>2. PICK base \in {lastResponseAt, visibleSince} :
            \/ request # "none" /\ requestStart <= base + LongestDelay
            \/ \E due \in scheduled : due <= base + LongestDelay
    BY <2>1 DEF PollInv
  <2>3. base \in {lastResponseAt', visibleSince'}
    BY <1>2 DEF ScheduledPoll
  <2>4. CASE request # "none"
    BY <1>2, <2>2, <2>3, <2>4 DEF ScheduledPoll, BeginPoll, PollInv
  <2>5. CASE request = "none"
    <3>1. request' # "none" /\ requestStart' = now
      BY <1>2, <2>5, BeginPollFacts DEF ScheduledPoll
    <3>2. \E due \in scheduled : now <= due /\ due <= base + LongestDelay /\ due \in Nat
      BY <2>2, <2>5
    <3>3. base \in Nat
      OBVIOUS
    <3>4. requestStart' <= base + LongestDelay
      BY <3>1, <3>2, <3>3
    <3>. QED  BY <2>3, <3>1, <3>4 DEF PollInv
  <2>. QED  BY <2>4, <2>5
<1>3. CASE SnapshotArrives
  <2>1. scheduled' = {now + PollHint} /\ lastResponseAt' = now
    BY <1>3 DEF SnapshotArrives, ScheduleNext, Accept
  <2>. QED  BY <2>1 DEF PollInv
<1>4. CASE PollFails
  <2>1. scheduled' = {now + RetryDelay} /\ lastResponseAt' = now
    BY <1>4 DEF PollFails, ScheduleNext, Accept
  <2>. QED  BY <2>1, DelayFacts DEF PollInv
<1>5. CASE InstanceArrives \/ ServeSnapshot
  BY <1>5 DEF InstanceArrives, ServeSnapshot, PollInv
<1>6. CASE StartPage \/ Paired \/ StartFailed \/ DisposePage
  BY <1>6 DEF StartPage, Paired, CreateWorker, StartFailed, DisposePage
<1>7. CASE VisibilityChange \/ ReceivePresentation \/ WorkerErrs
  BY <1>7 DEF VisibilityChange, ReceivePresentation, WorkerErrs, PollInv
<1>8. CASE Collect \/ Tick
  BY <1>8 DEF Collect, Tick, PollInv
<1>9. CASE UNCHANGED vars
  BY <1>9 DEF vars, PollInv
<1>. QED  BY <1>1, <1>2, <1>3, <1>4, <1>5, <1>6, <1>7, <1>8, <1>9 DEF Next

LEMMA PollKeepsUp == Timed /\ PollInv => KeepsUp
BY DurationsAssumption DEF Timed, TypeOK, TimeInv, PollInv, KeepsUp, LongestSilence

\* The worker of a visible page publishes at least once every longest silence,
\* because one deadline covers both calls of a poll and every outcome of a poll
\* arms the timer of the next.
THEOREM KeepsUpTheorem == Spec => []KeepsUp
<1>. DEFINE IInv == Timed /\ LifeInv /\ PollInv
<1>1. Init => IInv
  BY TimedInit, LifeChannelInit DEF Init, PollInv, HasWorker
<1>2. IInv /\ [Next]_vars => IInv'
  BY TimedStep, LifeStep, PollStep DEF Timed
<1>3. IInv => KeepsUp
  BY PollKeepsUp
<1>. QED  BY <1>1, <1>2, <1>3, PTL DEF Spec

-----------------------------------------------------------------------------
(***************************************************************************)
(* What the page shows.                                                    *)
(***************************************************************************)

\* What the page shows as current was recent when the worker last published.
ShownInv ==
    (HasWorker /\ snapshot.kind = "content" /\ events = <<>>) =>
        lastResponseAt <= snapshot.observedAt + Fresh + Skew

LEMMA ShownStep ==
    FreshInv /\ HonestFreshness /\ ShownInv /\ [Next]_vars => ShownInv'
<1>. SUFFICES ASSUME FreshInv, HonestFreshness, ShownInv, [Next]_vars,
                     (HasWorker /\ snapshot.kind = "content" /\ events = <<>>)'
              PROVE  lastResponseAt' <= snapshot'.observedAt + Fresh + Skew
  BY DEF ShownInv
<1>. USE DEF HasWorker, pageVars, workerVars, pollVars, memoryVars, FreshInv, Timed
<1>1. CASE SnapshotArrives \/ PollFails
  <2>1. PICK view : HonestView(view) /\ events' = Append(events, view)
    BY <1>1, Publishes
  <2>2. view \in Views /\ events \in Seq(Views)
    BY <2>1 DEF HonestView, TypeOK
  <2>. QED  BY <2>1, <2>2, AppendProperties
<1>2. CASE ReceivePresentation
  <2>1. /\ events # <<>> /\ snapshot' = Head(events) /\ lastResponseAt' = lastResponseAt
    BY <1>2 DEF ReceivePresentation
  <2>2. /\ events \in Seq(Views) /\ now \in Nat /\ lastResponseAt \in Nat /\ lastResponseAt <= now
        /\ Skew \in Nat
    BY DurationsAssumption DEF TypeOK, TimeInv, Skew
  <2>3. Head(events) = events[1] /\ 1 \in DOMAIN events /\ Head(events) \in Views
    BY <2>1, <2>2, HeadTailProperties, LenProperties, EmptySeq
  <2>4. now - snapshot'.observedAt <= Fresh + Skew /\ snapshot'.observedAt \in Nat
    BY <2>1, <2>3 DEF HonestFreshness, Views
  <2>. QED  BY <2>1, <2>2, <2>4, DurationsAssumption
<1>3. CASE ReceiveCommand
  BY <1>3, ReceiveFacts DEF ShownInv, TypeOK
<1>4. CASE StartPage \/ Paired \/ StartFailed \/ WorkerErrs \/ DisposePage
  BY <1>4 DEF StartPage, Paired, CreateWorker, StartFailed, WorkerErrs, DisposePage, View, ShownInv, LifeInv
<1>5. CASE VisibilityChange \/ ScheduledPoll \/ InstanceArrives \/ Collect \/ ServeSnapshot \/ Tick
  BY <1>5 DEF VisibilityChange, ScheduledPoll, InstanceArrives, Collect, ServeSnapshot, Tick, ShownInv
<1>6. CASE UNCHANGED vars
  BY <1>6 DEF vars, ShownInv
<1>. QED  BY <1>1, <1>2, <1>3, <1>4, <1>5, <1>6 DEF Next

\* The page keeps no time, and yet what it shows as current has a bounded age,
\* because what it shows is no older than its worker's silence.
THEOREM ShownIsRecentTheorem ==
    ASSUME Readable PROVE Spec => []ShownIsRecent
<1>. DEFINE IInv == FreshInv /\ HonestFreshness /\ ChannelInv /\ PollInv /\ ShownInv
<1>1. Init => IInv
  BY FreshInit, LifeChannelInit DEF Init, PollInv, ShownInv, HasWorker
<1>2. IInv /\ [Next]_vars => IInv'
  BY FreshStep, HonestStep, ChannelStep, PollStep, ShownStep DEF FreshInv, Timed
<1>3. IInv => ShownIsRecent
  <2>. SUFFICES ASSUME IInv, HasWorker, pageVisibility = "visible", channel = <<>>, events = <<>>,
                       now - visibleSince > LongestSilence, snapshot.kind = "content"
                PROVE  now - snapshot.observedAt <= Fresh + Skew + LongestSilence
    BY DEF ShownIsRecent
  <2>1. /\ now \in Nat /\ lastResponseAt \in Nat /\ visibleSince \in Nat /\ snapshot.observedAt \in Nat
        /\ LongestSilence \in Nat /\ Skew \in Nat
    BY DurationsAssumption DEF FreshInv, Timed, TypeOK, Views, LongestSilence, Skew
  <2>2. now - lastResponseAt <= LongestSilence
    BY <2>1, PollKeepsUp DEF FreshInv, ChannelInv, KeepsUp
  <2>3. lastResponseAt <= snapshot.observedAt + Fresh + Skew
    BY DEF ShownInv
  <2>. QED  BY <2>1, <2>2, <2>3, DurationsAssumption
<1>. QED  BY <1>1, <1>2, <1>3, PTL DEF Spec
=============================================================================
