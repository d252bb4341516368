----------------------- MODULE NativeSupervisorProofs -----------------------
(***************************************************************************)
(* Proofs about NativeSupervisor, for any number of processes that start,  *)
(* stop, crash and are started again: what is removed from the endpoint's  *)
(* path, which host has which endpoint, and what is reported.              *)
(***************************************************************************)
EXTENDS NativeSupervisor, TLAPS

-----------------------------------------------------------------------------
(* Types.                                                                   *)

LEMMA ControlFacts ==
    /\ Tail(<<"SHUTDOWN">>) = << >>
    /\ Tail(<<"REVOKE_SESSIONS", "SHUTDOWN">>) = <<"SHUTDOWN">>
OBVIOUS

\* A process's own variables keep to their kinds when one of its steps writes
\* values of those kinds.
LEMMA TypeStep ==
    TypeOK /\ [Next]_vars => TypeOK'
<1>. SUFFICES ASSUME TypeOK, [Next]_vars
              PROVE  TypeOK'
  OBVIOUS
<1>. USE DEF TypeOK, guardVars, taskVars, hostVars
<1>1. ASSUME NEW p \in Processes, Prepare(p) \/ CheckEndpoint(p) \/ RemoveStale(p)
      PROVE  TypeOK'
  BY <1>1 DEF Prepare, CheckEndpoint, RemoveStale, Stages, Reports
<1>2. ASSUME NEW p \in Processes, Bind(p) \/ BindFails(p)
      PROVE  TypeOK'
  BY <1>2 DEF Bind, BindFails, Stages, Reports
<1>3. ASSUME NEW p \in Processes, DropEndpoint(p)
      PROVE  TypeOK'
  BY <1>3 DEF DropEndpoint, RemoveThenUnlock, Stages
<1>4. ASSUME NEW p \in Processes, Ready(p) \/ NotReady(p) \/ ChildEndedFirst(p)
      PROVE  TypeOK'
  BY <1>4 DEF Ready, NotReady, ChildEndedFirst, Stages, Reports, Tasks
<1>5. ASSUME NEW p \in Processes, StopRequested(p) \/ Joined(p)
      PROVE  TypeOK'
  BY <1>5 DEF StopRequested, CancelChild, Joined, ReportAfterChild, Stages, Reports
<1>6. ASSUME NEW p \in Processes, StopServer(p) \/ Collected(p)
      PROVE  TypeOK'
  BY <1>6 DEF StopServer, Collected, Stages, Reports
<1>7. ASSUME NEW p \in Processes, Launch(p) \/ LaunchFails(p) \/ ControlRecord(p) \/ ControlFails(p)
      PROVE  TypeOK'
  BY <1>7 DEF Launch, LaunchFails, ControlRecord, ControlFails, TaskStep, Return, Tasks, Reports
<1>8. ASSUME NEW p \in Processes, HostExited(p) \/ ShutdownSeen(p) \/ HostStopped(p) \/ KillHost(p)
      PROVE  TypeOK'
  BY <1>8 DEF HostExited, ShutdownSeen, HostStopped, KillHost, TaskStep, Return, Tasks, Reports
<1>9. ASSUME NEW p \in Processes, TellHost(p)
      PROVE  TypeOK'
  BY <1>9 DEF TellHost, GracefulShutdown, TaskStep, Tasks
<1>10. ASSUME NEW p \in Processes, HostReady(p) \/ HostServes(p) \/ HostExits(p)
       PROVE  TypeOK'
  BY <1>10 DEF HostReady, HostServes, HostExits, HostGoes
<1>11. ASSUME NEW p \in Processes, HostRevokes(p) \/ HostStops(p)
       PROVE  TypeOK'
  <2>1. control[p] # << >> =>
            Tail(control[p]) \in {<<>>, <<"SHUTDOWN">>, <<"REVOKE_SESSIONS", "SHUTDOWN">>}
    BY ControlFacts
  <2>2. control' \in [Processes -> {<<>>, <<"SHUTDOWN">>, <<"REVOKE_SESSIONS", "SHUTDOWN">>}]
    BY <1>11, <2>1 DEF HostRevokes, HostStops
  <2>. QED  BY <1>11, <2>2 DEF HostRevokes, HostStops, HostGoes
<1>12. ASSUME NEW p \in Processes, Interrupt(p) \/ ServerFails(p) \/ Gone(p)
       PROVE  TypeOK'
  BY <1>12 DEF Interrupt, ServerFails, Gone, Vanish, Stages
<1>13. ASSUME NEW p \in Processes, Crash(p)
       PROVE  TypeOK'
  BY <1>13 DEF Crash, Stages, Tasks, Reports
<1>14. CASE UNCHANGED vars
  BY <1>14 DEF vars
<1>. QED
  BY <1>1, <1>2, <1>3, <1>4, <1>5, <1>6, <1>7, <1>8, <1>9, <1>10, <1>11, <1>12, <1>13, <1>14
     DEF Next, GuardStep, LifecycleStep, ChildTaskStep, HostStarts, HostObeys

\* Every variable keeps to its kind, and what a host has still to read is the
\* end of an orderly shutdown.
THEOREM TypeCorrect == Spec => []TypeOK
<1>1. Init => TypeOK
  BY DEF Init, TypeOK, Stages, Tasks, Reports
<1>. QED  BY <1>1, TypeStep, PTL DEF Spec
-----------------------------------------------------------------------------
(***************************************************************************)
(* The inductive invariant.  A process changes the endpoint only while it  *)
(* holds the lock; what it found there stays as it was until it has        *)
(* removed it; and it keeps its own file, and its lock, until its host has *)
(* gone and its server has stopped.                                        *)
(***************************************************************************)
Unbound == {"off", "checking", "removing", "prepared"}
Serving == {"proving", "supervising", "joining", "stopping-server", "collecting"}
Holding == (Unbound \ {"off"}) \cup Serving \cup {"dropping", "unlocking"}
Dead == {"dying", "crashed"}

\* The lock and the endpoint.
LockInv == \A p \in Processes : stage[p] \in Holding <=> lock = p

ListenerInv == \A p \in Processes : Listening(p) => endpoint = p

BoundInv == \A p \in Processes :
    bound[p] /\ stage[p] \notin {"unlocking", "ended"} => endpoint = p

StaleInv == \A p \in Processes : stage[p] = "removing" => Stale

\* One process.
StageInv == \A p \in Processes :
    /\ stage[p] \in Unbound => server[p] = "none" /\ bound[p] = FALSE
    /\ stage[p] \in Serving => bound[p] = TRUE
    /\ stage[p] \in {"collecting", "dropping", "unlocking", "ended", "crashed"} => ~Listening(p)
    /\ stage[p] \in Dead => bound[p] = FALSE

TaskInv == \A p \in Processes :
    /\ task[p] # "none" => stage[p] \notin Unbound \cup Dead \cup {"proving"}
    /\ task[p] \notin {"none", "done"} => stage[p] \in {"supervising", "joining"}
    /\ HostAlive(p) => \/ stage[p] \in Dead
                       \/ task[p] \in {"awaiting-control", "awaiting-exit", "stopping", "waiting"}

ForcedInv == \A p \in Processes : forced[p] =>
    \/ stage[p] \in {"supervising", "joining"} /\ task[p] = "done" /\ childResult[p] = "forced"
    \/ /\ stage[p] \in {"stopping-server", "collecting", "dropping", "unlocking", "ended"}
       /\ report[p] = "forced"

EndpointInv == LockInv /\ ListenerInv /\ BoundInv /\ StaleInv /\ StageInv
IInv == TypeOK /\ EndpointInv /\ TaskInv /\ ForcedInv

\* Initially nothing is bound, started or forced.
LEMMA InitIInv == Init => IInv
<1>1. Init => TypeOK
  BY DEF Init, TypeOK, Stages, Tasks, Reports
<1>2. Init => EndpointInv
  BY ProcessesAssumption DEF Init, EndpointInv, LockInv, ListenerInv, BoundInv, StaleInv, StageInv,
     Listening, Holding, Unbound, Serving, Dead
<1>3. Init => TaskInv /\ ForcedInv
  BY DEF Init, TaskInv, ForcedInv, HostAlive, Unbound, Dead
<1>. QED  BY <1>1, <1>2, <1>3 DEF IInv

\* Steps of a child's task and of a host leave the endpoint alone.
EndpointFrame == UNCHANGED <<guardVars, stage, server>>

LEMMA FrameFacts ==
    \A p \in Processes :
        /\ ChildTaskStep(p) => EndpointFrame
        /\ HostStarts(p) \/ HostObeys(p) \/ HostExits(p) \/ Interrupt(p) => EndpointFrame
<1>. USE DEF EndpointFrame
<1>1. ASSUME NEW p \in Processes, ChildTaskStep(p)
      PROVE  EndpointFrame
  BY <1>1 DEF ChildTaskStep, Launch, LaunchFails, ControlRecord, ControlFails, HostExited,
     ShutdownSeen, TellHost, HostStopped, KillHost, TaskStep
<1>2. ASSUME NEW p \in Processes, HostStarts(p) \/ HostObeys(p) \/ HostExits(p) \/ Interrupt(p)
      PROVE  EndpointFrame
  BY <1>2 DEF HostStarts, HostObeys, HostReady, HostServes, HostRevokes, HostStops, HostExits,
     HostGoes, Interrupt
<1>. QED  BY <1>1, <1>2

\* Only the holder of the lock changes the endpoint, and never under a
\* process that listens.
LEMMA EndpointStep ==
    TypeOK /\ EndpointInv /\ [Next]_vars => EndpointInv'
<1>. SUFFICES ASSUME TypeOK, EndpointInv, [Next]_vars
              PROVE  EndpointInv'
  OBVIOUS
<1>. USE ProcessesAssumption DEF EndpointInv, LockInv, ListenerInv, BoundInv, StaleInv, StageInv,
         Listening, Stale, Holding, Unbound, Serving, Dead, guardVars
<1>t. /\ stage \in [Processes -> Stages] /\ bound \in [Processes -> BOOLEAN]
      /\ server \in [Processes -> {"none", "running", "ended"}]
      /\ endpoint \in Processes \cup {"nothing", "foreign"}
  BY DEF TypeOK
<1>0. CASE EndpointFrame
  BY <1>0 DEF EndpointFrame
<1>1. ASSUME NEW p \in Processes, Prepare(p)
      PROVE  EndpointInv'
  BY <1>1, <1>t DEF Prepare
<1>2. ASSUME NEW p \in Processes, CheckEndpoint(p)
      PROVE  EndpointInv'
  BY <1>2, <1>t DEF CheckEndpoint
<1>3. ASSUME NEW p \in Processes, RemoveStale(p)
      PROVE  EndpointInv'
  <2>1. endpoint \in Processes /\ ~Listening(endpoint) /\ lock = p /\ bound[p] = FALSE
    BY <1>3 DEF RemoveStale
  <2>2. \A q \in Processes : ~Listening(q)
    BY <2>1
  <2>3. \A q \in Processes : bound[q] => stage[q] \in {"unlocking", "ended"}
    <3>1. SUFFICES ASSUME NEW q \in Processes, bound[q] = TRUE
                   PROVE  stage[q] \in {"unlocking", "ended"}
      BY <1>t
    <3>2. q # p
      BY <2>1, <3>1
    <3>3. stage[q] \notin Holding /\ stage[q] \in Stages
      BY <2>1, <3>2, <1>t
    <3>. QED  BY <3>1, <3>3 DEF Stages
  <2>4. /\ stage' = [stage EXCEPT ![p] = "prepared"] /\ endpoint' = "nothing"
        /\ UNCHANGED <<lock, bound, server>> /\ stage[p] = "removing"
    BY <1>3 DEF RemoveStale
  <2>. QED  BY <2>1, <2>2, <2>3, <2>4, <1>t
<1>4. ASSUME NEW p \in Processes, Bind(p)
      PROVE  EndpointInv'
  BY <1>4, <1>t DEF Bind
<1>5. ASSUME NEW p \in Processes, BindFails(p)
      PROVE  EndpointInv'
  BY <1>5, <1>t DEF BindFails
<1>6. ASSUME NEW p \in Processes, DropEndpoint(p)
      PROVE  EndpointInv'
  BY <1>6, <1>t DEF DropEndpoint, RemoveThenUnlock
<1>7. ASSUME NEW p \in Processes, Ready(p)
      PROVE  EndpointInv'
  BY <1>7, <1>t DEF Ready
<1>8. ASSUME NEW p \in Processes, NotReady(p)
      PROVE  EndpointInv'
  BY <1>8, <1>t DEF NotReady
<1>9. ASSUME NEW p \in Processes, ChildEndedFirst(p)
      PROVE  EndpointInv'
  BY <1>9, <1>t DEF ChildEndedFirst
<1>10. ASSUME NEW p \in Processes, StopRequested(p)
      PROVE  EndpointInv'
  BY <1>10, <1>t DEF StopRequested, CancelChild
<1>11. ASSUME NEW p \in Processes, Joined(p)
      PROVE  EndpointInv'
  BY <1>11, <1>t DEF Joined
<1>12. ASSUME NEW p \in Processes, StopServer(p)
      PROVE  EndpointInv'
  BY <1>12, <1>t DEF StopServer
<1>13. ASSUME NEW p \in Processes, Collected(p)
      PROVE  EndpointInv'
  BY <1>13, <1>t DEF Collected
<1>14. ASSUME NEW p \in Processes, ServerFails(p)
      PROVE  EndpointInv'
  BY <1>14, <1>t DEF ServerFails
<1>15. ASSUME NEW p \in Processes, Crash(p)
      PROVE  EndpointInv'
  BY <1>15, <1>t DEF Crash
<1>16. ASSUME NEW p \in Processes, Gone(p)
      PROVE  EndpointInv'
  BY <1>16, <1>t DEF Gone, Vanish
<1>90. CASE UNCHANGED vars
  BY <1>90 DEF vars
<1>. QED
  BY <1>0, FrameFacts, <1>1, <1>2, <1>3, <1>4, <1>5, <1>6, <1>7, <1>8, <1>9, <1>10, <1>11, <1>12, <1>13, <1>14, <1>15, <1>16, <1>90
     DEF Next, GuardStep, LifecycleStep

\* The child's task runs only while its process supervises or joins it, and
\* its host is gone when it has returned.
LEMMA TaskStepInv ==
    TypeOK /\ TaskInv /\ [Next]_vars => TaskInv'
<1>. SUFFICES ASSUME TypeOK, TaskInv, [Next]_vars
              PROVE  TaskInv'
  OBVIOUS
<1>. USE DEF TaskInv, HostAlive, Unbound, Dead, guardVars, taskVars, hostVars
<1>t. /\ stage \in [Processes -> Stages] /\ task \in [Processes -> Tasks]
      /\ host \in [Processes -> {"absent", "starting", "ready", "serving", "revoked", "stopping", "exited"}]
  BY DEF TypeOK
<1>1. ASSUME NEW p \in Processes, Prepare(p) \/ GuardStep(p)
      PROVE  TaskInv'
  BY <1>1, <1>t DEF Prepare, GuardStep, CheckEndpoint, RemoveStale, Bind, BindFails, DropEndpoint,
                    RemoveThenUnlock, Stages, Tasks
<1>2. ASSUME NEW p \in Processes, LifecycleStep(p)
      PROVE  TaskInv'
  BY <1>2, <1>t DEF LifecycleStep, Ready, NotReady, ChildEndedFirst, StopRequested, CancelChild,
                    Joined, StopServer, Collected, Stages, Tasks
<1>3. ASSUME NEW p \in Processes, ChildTaskStep(p)
      PROVE  TaskInv'
  BY <1>3, <1>t DEF ChildTaskStep, Launch, LaunchFails, ControlRecord, ControlFails, HostExited,
                    ShutdownSeen, TellHost, HostStopped, KillHost, TaskStep, Return, Tasks
<1>4. ASSUME NEW p \in Processes, HostStarts(p) \/ HostObeys(p) \/ HostExits(p)
      PROVE  TaskInv'
  BY <1>4, <1>t DEF HostStarts, HostObeys, HostReady, HostServes, HostRevokes, HostStops,
                    HostExits, HostGoes
<1>5. ASSUME NEW p \in Processes, Interrupt(p) \/ ServerFails(p) \/ Crash(p) \/ Gone(p)
      PROVE  TaskInv'
  BY <1>5, <1>t DEF Interrupt, ServerFails, Crash, Gone, Vanish
<1>6. CASE UNCHANGED vars
  BY <1>6 DEF vars
<1>. QED  BY <1>1, <1>2, <1>3, <1>4, <1>5, <1>6 DEF Next

\* What was killed is in the child's result until it is in the report, and
\* stays there.
LEMMA ForcedStep ==
    TypeOK /\ TaskInv /\ ForcedInv /\ [Next]_vars => ForcedInv'
<1>. SUFFICES ASSUME TypeOK, TaskInv, ForcedInv, [Next]_vars
              PROVE  ForcedInv'
  OBVIOUS
<1>. USE DEF ForcedInv, guardVars, taskVars, hostVars
<1>t. /\ stage \in [Processes -> Stages] /\ task \in [Processes -> Tasks]
      /\ childResult \in [Processes -> Reports] /\ report \in [Processes -> Reports]
      /\ forced \in [Processes -> BOOLEAN]
  BY DEF TypeOK
<1>1. ASSUME NEW p \in Processes, Prepare(p) \/ GuardStep(p)
      PROVE  ForcedInv'
  BY <1>1, <1>t DEF Prepare, GuardStep, CheckEndpoint, RemoveStale, Bind, BindFails, DropEndpoint,
                    RemoveThenUnlock
<1>2. ASSUME NEW p \in Processes, LifecycleStep(p)
      PROVE  ForcedInv'
  BY <1>2, <1>t DEF LifecycleStep, Ready, NotReady, ChildEndedFirst, StopRequested, CancelChild,
                    Joined, ReportAfterChild, StopServer, Collected
<1>3. ASSUME NEW p \in Processes, ChildTaskStep(p)
      PROVE  ForcedInv'
  <2>1. stage[p] \in {"supervising", "joining"} /\ task[p] # "done"
    BY <1>3 DEF TaskInv, ChildTaskStep, Launch, LaunchFails, ControlRecord, ControlFails, HostExited,
                ShutdownSeen, TellHost, HostStopped, KillHost, TaskStep
  <2>. QED
    BY <1>3, <1>t, <2>1 DEF ChildTaskStep, Launch, LaunchFails, ControlRecord, ControlFails, HostExited,
                ShutdownSeen, TellHost, HostStopped, KillHost, TaskStep, Return
<1>4. ASSUME NEW p \in Processes, HostStarts(p) \/ HostObeys(p) \/ HostExits(p)
      PROVE  ForcedInv'
  BY <1>4, <1>t DEF HostStarts, HostObeys, HostReady, HostServes, HostRevokes, HostStops,
                    HostExits, HostGoes
<1>5. ASSUME NEW p \in Processes, Interrupt(p) \/ ServerFails(p) \/ Crash(p) \/ Gone(p)
      PROVE  ForcedInv'
  BY <1>5, <1>t DEF Interrupt, ServerFails, Crash, Gone, Vanish, Running
<1>6. CASE UNCHANGED vars
  BY <1>6 DEF vars
<1>. QED  BY <1>1, <1>2, <1>3, <1>4, <1>5, <1>6 DEF Next

LEMMA IInvHolds == Spec => []IInv
<1>1. IInv /\ [Next]_vars => IInv'
  BY TypeStep, EndpointStep, TaskStepInv, ForcedStep DEF IInv
<1>. QED  BY <1>1, InitIInv, PTL DEF Spec

-----------------------------------------------------------------------------
(* The theorems.                                                            *)

\* While its process has not died, a host forwards to its own native process:
\* that process still has the lock and the endpoint.
THEOREM HostHasItsEndpointTheorem == Spec => []HostHasItsEndpoint
<1>1. IInv => HostHasItsEndpoint
  <2>. SUFFICES ASSUME IInv, NEW p \in Processes, HostAlive(p), stage[p] \notin Dead
                PROVE  endpoint = p /\ lock = p
    BY DEF HostHasItsEndpoint, Dead
  <2>1. stage[p] \in {"supervising", "joining"}
    BY DEF IInv, TaskInv
  <2>2. stage[p] \in Serving /\ stage[p] \in Holding
    BY <2>1 DEF Serving, Holding
  <2>3. bound[p] = TRUE /\ lock = p
    BY <2>2 DEF IInv, EndpointInv, StageInv, LockInv
  <2>. QED  BY <2>1, <2>3 DEF IInv, EndpointInv, BoundInv
<1>. QED  BY <1>1, IInvHolds, PTL

\* Nothing stopped by force is missing from what a process returns.
THEOREM ForcedIsReportedTheorem == Spec => []ForcedIsReported
<1>1. IInv => ForcedIsReported
  BY DEF IInv, ForcedInv, ForcedIsReported
<1>. QED  BY <1>1, IInvHolds, PTL

\* No number of processes that crash and start again removes a socket that is
\* in use or a file that is not one of theirs.
THEOREM OnlyDeadSocketsRemovedTheorem == Spec => OnlyDeadSocketsRemoved
<1>1. IInv /\ [Next]_vars =>
          (endpoint # "nothing" /\ endpoint' # endpoint =>
               endpoint \in Processes /\ ~Listening(endpoint))
  <2>. SUFFICES ASSUME IInv, [Next]_vars, endpoint # "nothing", endpoint' # endpoint
                PROVE  endpoint \in Processes /\ ~Listening(endpoint)
    OBVIOUS
  <2>1. PICK p \in Processes : RemoveStale(p) \/ DropEndpoint(p)
    <3>1. \A p \in Processes : LifecycleStep(p) => endpoint' = endpoint
      BY DEF LifecycleStep, Ready, NotReady, ChildEndedFirst, StopRequested, Joined, StopServer,
             Collected, guardVars
    <3>2. \A p \in Processes :
              Prepare(p) \/ CheckEndpoint(p) \/ BindFails(p) \/ ServerFails(p) \/ Crash(p) \/ Gone(p)
                  => endpoint' = endpoint
      BY DEF Prepare, CheckEndpoint, BindFails, ServerFails, Crash, Gone, guardVars
    <3>3. \A p \in Processes : ~Bind(p)
      BY DEF Bind
    <3>. QED
      BY <3>1, <3>2, <3>3, FrameFacts DEF Next, GuardStep, EndpointFrame, guardVars, vars
  <2>2. CASE RemoveStale(p)
    BY <2>2 DEF RemoveStale, IInv, EndpointInv, StaleInv, Stale
  <2>3. CASE DropEndpoint(p)
    <3>1. stage[p] = "dropping" /\ bound[p]
      BY <2>3 DEF DropEndpoint, RemoveThenUnlock
    <3>. QED  BY <3>1 DEF IInv, EndpointInv, BoundInv, StageInv
  <2>. QED  BY <2>1, <2>2, <2>3
<1>. QED  BY <1>1, IInvHolds, PTL DEF Spec, OnlyDeadSocketsRemoved

\* No crash, at whatever moment, keeps later processes from the endpoint.
THEOREM RefusedForCauseTheorem == Spec => RefusedForCause
<1>1. IInv /\ [Next]_vars =>
          \A p \in Processes :
              stage[p] = "checking" /\ stage'[p] = "dropping" =>
                  \/ endpoint = "foreign"
                  \/ endpoint \in Processes /\ stage[endpoint] = "dying"
  <2>. SUFFICES ASSUME IInv, [Next]_vars, NEW p \in Processes,
                       stage[p] = "checking", stage'[p] = "dropping"
                PROVE  \/ endpoint = "foreign"
                       \/ endpoint \in Processes /\ stage[endpoint] = "dying"
    OBVIOUS
  <2>t. stage \in [Processes -> Stages] /\ endpoint \in Processes \cup {"nothing", "foreign"}
    BY DEF IInv, TypeOK
  <2>1. CheckEndpoint(p)
    <3>1. \A q \in Processes : LifecycleStep(q) => stage'[p] = stage[p]
      BY <2>t DEF LifecycleStep, Ready, NotReady, ChildEndedFirst, StopRequested, CancelChild, Joined,
             StopServer, Collected
    <3>2. \A q \in Processes : 
              Prepare(q) \/ RemoveStale(q) \/ Bind(q) \/ BindFails(q) \/ DropEndpoint(q) \/ ServerFails(q)
              \/ Crash(q) \/ Gone(q) => stage'[p] # "dropping"
      BY <2>t DEF Prepare, RemoveStale, Bind, BindFails, DropEndpoint, RemoveThenUnlock, ServerFails,
             Crash, Gone, Vanish, Running
    <3>3. \A q \in Processes : CheckEndpoint(q) => q = p
      BY <2>t DEF CheckEndpoint
    <3>. QED
      BY <3>1, <3>2, <3>3, FrameFacts DEF Next, GuardStep, EndpointFrame, vars
  <2>2. endpoint # "nothing" /\ ~Stale
    BY <2>1, <2>t DEF CheckEndpoint
  <2>3. CASE endpoint \in Processes
    <3>1. Listening(endpoint) /\ stage[endpoint] \in Stages
      BY <2>2, <2>3, <2>t DEF Stale
    <3>2. stage[p] \in Holding /\ lock = p
      BY DEF IInv, EndpointInv, LockInv, Holding, Unbound
    <3>3. endpoint # p
      BY <3>1 DEF IInv, EndpointInv, StageInv, Unbound, Listening
    <3>4. stage[endpoint] \notin Holding
      BY <2>3, <3>2, <3>3 DEF IInv, EndpointInv, LockInv
    <3>5. stage[endpoint] \notin {"off", "ended", "crashed"}
      BY <2>3, <3>1 DEF IInv, EndpointInv, StageInv, Unbound, Listening
    <3>. QED  BY <2>3, <3>1, <3>4, <3>5 DEF Stages, Holding, Unbound, Serving
  <2>. QED  BY <2>2, <2>3, <2>t
<1>. QED  BY <1>1, IInvHolds, PTL DEF Spec, RefusedForCause
=============================================================================
