-------------------------- MODULE NativeSupervisor --------------------------
(***************************************************************************)
(* The native processes of one user and port                               *)
(* (crates/phrasic/src/platform/linux.rs): each takes the lifecycle lock,  *)
(* clears what a crashed one has left at the endpoint, serves it, starts a *)
(* host process of its own, and takes everything down again.  Several run  *)
(* at once; any of them may die at any time.                               *)
(*                                                                         *)
(* A host behaves as HostProcess says; only its life and its control input *)
(* matter here.  Deadlines may pass at any time that they run.             *)
(***************************************************************************)
EXTENDS Sequences

CONSTANT Processes

ASSUME ProcessesAssumption ==
    /\ "nobody" \notin Processes
    /\ "nothing" \notin Processes /\ "foreign" \notin Processes

VARIABLES
    lock,          \* the process that holds the lifecycle lock, or nobody
    endpoint,      \* the process that bound the socket's file, nothing, or a foreign file
    stage,         \* per process: where run_with_shutdown is
    bound,         \* per process: EndpointGuard.bound
    server,        \* per process: none, running or ended
    interrupted,   \* per process: external_shutdown
    childShutdown, \* per process: child_shutdown
    task,          \* per process: where supervise_bun_command is
    childResult,   \* per process: what that task returned
    report,        \* per process: what run_with_shutdown is going to return
    forced,        \* per process: a deadline has passed and something was killed
    host,          \* per process: absent, starting, ready, serving, revoked, stopping, exited
    control,       \* per process: lines its host has not read
    closed         \* per process: no more lines will be written

guardVars == <<lock, endpoint, bound>>
taskVars == <<childShutdown, task, childResult>>
hostVars == <<host, control, closed>>
vars == <<guardVars, stage, server, interrupted, taskVars, report, forced, hostVars>>

Stages == {"off", "checking", "removing", "prepared", "proving", "supervising", "joining",
           "stopping-server", "collecting", "dropping", "unlocking", "ended", "dying", "crashed"}
Tasks == {"none", "spawning", "awaiting-control", "awaiting-exit", "stopping", "waiting", "done"}
Reports == {"none", "forced", "failed"}

Init ==
    /\ lock = "nobody"
    /\ endpoint \in {"nothing", "foreign"}
    /\ stage = [p \in Processes |-> "off"]
    /\ bound = [p \in Processes |-> FALSE]
    /\ server = [p \in Processes |-> "none"]
    /\ interrupted = [p \in Processes |-> FALSE]
    /\ childShutdown = [p \in Processes |-> FALSE]
    /\ task = [p \in Processes |-> "none"]
    /\ childResult = [p \in Processes |-> "none"]
    /\ report = [p \in Processes |-> "none"]
    /\ forced = [p \in Processes |-> FALSE]
    /\ host = [p \in Processes |-> "absent"]
    /\ control = [p \in Processes |-> <<>>]
    /\ closed = [p \in Processes |-> FALSE]

Running(p) == stage[p] \notin {"off", "ended", "dying", "crashed"}

\* The kernel accepts connections to the socket that p bound.
Listening(p) == server[p] = "running"

HostAlive(p) == host[p] \notin {"absent", "exited"}

-----------------------------------------------------------------------------
(* The endpoint: EndpointGuard.                                             *)

\* try_lock_exclusive.
Prepare(p) ==
    /\ stage[p] = "off"
    /\ IF lock = "nobody"
       THEN /\ lock' = p
            /\ stage' = [stage EXCEPT ![p] = "checking"]
            /\ UNCHANGED report
       ELSE /\ stage' = [stage EXCEPT ![p] = "ended"]
            /\ report' = [report EXCEPT ![p] = "failed"]
            /\ UNCHANGED lock
    /\ UNCHANGED <<endpoint, bound, server, interrupted, taskVars, forced, hostVars>>

\* A socket whose process does not listen any more.
Stale == endpoint \in Processes /\ ~Listening(endpoint)

\* remove_stale_socket up to the removal.
CheckEndpoint(p) ==
    /\ stage[p] = "checking"
    /\ stage' = [stage EXCEPT ![p] = IF endpoint = "nothing" THEN "prepared"
                                     ELSE IF Stale THEN "removing" ELSE "dropping"]
    /\ report' = [report EXCEPT ![p] = IF endpoint = "nothing" \/ Stale THEN @ ELSE "failed"]
    /\ UNCHANGED <<guardVars, server, interrupted, taskVars, forced, hostVars>>

RemoveStale(p) ==
    /\ stage[p] = "removing"
    /\ endpoint' = "nothing"
    /\ stage' = [stage EXCEPT ![p] = "prepared"]
    /\ UNCHANGED <<lock, bound, server, interrupted, taskVars, report, forced, hostVars>>

\* bind_listener and start_server; the file's mode may not be set.
Bind(p) ==
    /\ stage[p] = "prepared"
    /\ endpoint = "nothing"
    /\ endpoint' = p
    /\ bound' = [bound EXCEPT ![p] = TRUE]
    /\ \/ /\ stage' = [stage EXCEPT ![p] = "proving"]
          /\ server' = [server EXCEPT ![p] = "running"]
          /\ UNCHANGED report
       \/ /\ stage' = [stage EXCEPT ![p] = "dropping"]
          /\ report' = [report EXCEPT ![p] = "failed"]
          /\ UNCHANGED server
    /\ UNCHANGED <<lock, interrupted, taskVars, forced, hostVars>>

\* bind fails.
BindFails(p) ==
    /\ stage[p] = "prepared"
    /\ stage' = [stage EXCEPT ![p] = "dropping"]
    /\ report' = [report EXCEPT ![p] = "failed"]
    /\ UNCHANGED <<guardVars, server, interrupted, taskVars, forced, hostVars>>

\* Slip: the lock is given up before the file is removed.
UnlockBeforeRemoving(p) ==
    \/ /\ stage[p] = "dropping"
       /\ stage' = [stage EXCEPT ![p] = "unlocking"]
       /\ lock' = "nobody"
       /\ UNCHANGED endpoint
    \/ /\ stage[p] = "unlocking"
       /\ stage' = [stage EXCEPT ![p] = "ended"]
       /\ endpoint' = IF bound[p] THEN "nothing" ELSE endpoint
       /\ UNCHANGED lock

\* Drop: whatever is at the path is removed if this process has bound it once.
RemoveThenUnlock(p) ==
    \/ /\ stage[p] = "dropping"
       /\ stage' = [stage EXCEPT ![p] = "unlocking"]
       /\ endpoint' = IF bound[p] THEN "nothing" ELSE endpoint
       /\ UNCHANGED lock
    \/ /\ stage[p] = "unlocking"
       /\ stage' = [stage EXCEPT ![p] = "ended"]
       /\ lock' = "nobody"
       /\ UNCHANGED endpoint

DropEndpoint(p) ==
    /\ RemoveThenUnlock(p)
    /\ UNCHANGED <<bound, server, interrupted, taskVars, report, forced, hostVars>>

-----------------------------------------------------------------------------
(* The lifecycle: run_with_shutdown and supervise_lifecycle.                *)

\* prove_readiness.
Ready(p) ==
    /\ stage[p] = "proving"
    /\ endpoint = p /\ Listening(p)
    /\ stage' = [stage EXCEPT ![p] = "supervising"]
    /\ task' = [task EXCEPT ![p] = "spawning"]
    /\ UNCHANGED <<guardVars, server, interrupted, childShutdown, childResult, report, forced, hostVars>>

NotReady(p) ==
    /\ stage[p] = "proving"
    /\ stage' = [stage EXCEPT ![p] = "stopping-server"]
    /\ report' = [report EXCEPT ![p] = "failed"]
    /\ UNCHANGED <<guardVars, server, interrupted, taskVars, forced, hostVars>>

\* The child's task has returned first.
ChildEndedFirst(p) ==
    /\ stage[p] = "supervising"
    /\ task[p] = "done"
    /\ stage' = [stage EXCEPT ![p] = "stopping-server"]
    /\ report' = [report EXCEPT ![p] = childResult[p]]
    /\ UNCHANGED <<guardVars, server, interrupted, taskVars, forced, hostVars>>

\* Slip: the child is awaited and not told.
AwaitOnly(p) ==
    /\ stage' = [stage EXCEPT ![p] = "joining"]
    /\ UNCHANGED <<childShutdown, report>>

\* Slip: the child is told and not awaited.
CancelOnly(p) ==
    /\ stage' = [stage EXCEPT ![p] = "stopping-server"]
    /\ childShutdown' = [childShutdown EXCEPT ![p] = TRUE]
    /\ report' = [report EXCEPT ![p] = "failed"]

CancelChild(p) ==
    /\ stage' = [stage EXCEPT ![p] = "joining"]
    /\ childShutdown' = [childShutdown EXCEPT ![p] = TRUE]
    /\ UNCHANGED report

\* The server ended first, or the user interrupts.
StopRequested(p) ==
    /\ stage[p] = "supervising"
    /\ server[p] = "ended" \/ interrupted[p]
    /\ CancelChild(p)
    /\ UNCHANGED <<guardVars, server, interrupted, task, childResult, forced, hostVars>>

\* is_forced_termination of the child's result.
ReportAfterChild(p) == IF childResult[p] = "forced" THEN "forced" ELSE "failed"

\* A server that has ended needs no stopping: the next step finds it so.
Joined(p) ==
    /\ stage[p] = "joining"
    /\ task[p] = "done"
    /\ stage' = [stage EXCEPT ![p] = "stopping-server"]
    /\ report' = [report EXCEPT ![p] = ReportAfterChild(p)]
    /\ UNCHANGED <<guardVars, server, interrupted, taskVars, forced, hostVars>>

\* stop_server: in time, or by force.
StopServer(p) ==
    /\ stage[p] = "stopping-server"
    /\ stage' = [stage EXCEPT ![p] = "collecting"]
    /\ server' = [server EXCEPT ![p] = "ended"]
    /\ \/ UNCHANGED <<report, forced>>
       \/ /\ Listening(p)
          /\ report' = [report EXCEPT ![p] = "forced"]
          /\ forced' = [forced EXCEPT ![p] = TRUE]
    /\ UNCHANGED <<guardVars, interrupted, taskVars, hostVars>>

\* The collector is cancelled and awaited.
Collected(p) ==
    /\ stage[p] = "collecting"
    /\ stage' = [stage EXCEPT ![p] = "dropping"]
    /\ UNCHANGED <<guardVars, server, interrupted, taskVars, report, forced, hostVars>>

-----------------------------------------------------------------------------
(* The child's task: supervise_bun_command.                                 *)

\* The task goes from one point to another and, at its end, returns.
TaskStep(p, from, to) ==
    /\ Running(p)
    /\ task[p] = from
    /\ task' = [task EXCEPT ![p] = to]
    /\ UNCHANGED <<guardVars, stage, server, interrupted, childShutdown, report>>

Return(p, result) == childResult' = [childResult EXCEPT ![p] = result]

Launch(p) ==
    /\ TaskStep(p, "spawning", "awaiting-control")
    /\ host' = [host EXCEPT ![p] = "starting"]
    /\ UNCHANGED <<childResult, forced, control, closed>>

LaunchFails(p) ==
    /\ TaskStep(p, "spawning", "done")
    /\ Return(p, "failed")
    /\ UNCHANGED <<forced, hostVars>>

\* The control record arrives and is delivered.
ControlRecord(p) ==
    /\ TaskStep(p, "awaiting-control", "awaiting-exit")
    /\ host[p] \notin {"starting", "ready"}
    /\ UNCHANGED <<childResult, forced, hostVars>>

\* It does not arrive in time, is not one, or cannot be delivered; or the
\* supervisor wants to stop.
ControlFails(p) ==
    /\ TaskStep(p, "awaiting-control", "stopping")
    /\ UNCHANGED <<childResult, forced, hostVars>>

HostExited(p) ==
    /\ TaskStep(p, "awaiting-exit", "done")
    /\ host[p] = "exited"
    /\ Return(p, "failed")
    /\ UNCHANGED <<forced, hostVars>>

ShutdownSeen(p) ==
    /\ TaskStep(p, "awaiting-exit", "stopping")
    /\ childShutdown[p]
    /\ UNCHANGED <<childResult, forced, hostVars>>

\* send_graceful_shutdown
GracefulShutdown == <<"REVOKE_SESSIONS", "SHUTDOWN">>

TellHost(p) ==
    /\ TaskStep(p, "stopping", "waiting")
    /\ control' = [control EXCEPT ![p] = GracefulShutdown]
    /\ closed' = [closed EXCEPT ![p] = TRUE]
    /\ UNCHANGED <<childResult, forced, host>>

HostStopped(p) ==
    /\ TaskStep(p, "waiting", "done")
    /\ host[p] = "exited"
    /\ Return(p, "failed")
    /\ UNCHANGED <<forced, hostVars>>

KillHost(p) ==
    /\ TaskStep(p, "waiting", "done")
    /\ host[p] # "exited"
    /\ host' = [host EXCEPT ![p] = "exited"]
    /\ Return(p, "forced")
    /\ forced' = [forced EXCEPT ![p] = TRUE]
    /\ UNCHANGED <<control, closed>>

-----------------------------------------------------------------------------
(* The host process of p: HostProcess.                                      *)

HostGoes(p, from, to) ==
    /\ host[p] \in from
    /\ host' = [host EXCEPT ![p] = to]
    /\ UNCHANGED <<guardVars, stage, server, interrupted, taskVars, report, forced, closed>>

\* The host asks the native process at the endpoint which instance it is.
HostReady(p) ==
    /\ HostGoes(p, {"starting"}, "ready")
    /\ endpoint = p /\ Listening(p) /\ Running(p)
    /\ UNCHANGED control

\* The browser's port is held by one host at a time.
HostServes(p) ==
    /\ HostGoes(p, {"ready"}, "serving")
    /\ \A q \in Processes : host[q] \notin {"serving", "revoked", "stopping"}
    /\ UNCHANGED control

HostRevokes(p) ==
    /\ HostGoes(p, {"serving"}, "revoked")
    /\ control[p] # <<>> /\ Head(control[p]) = "REVOKE_SESSIONS"
    /\ control' = [control EXCEPT ![p] = Tail(@)]

HostStops(p) ==
    /\ HostGoes(p, {"serving", "revoked"}, "stopping")
    /\ \/ /\ control[p] # <<>>
          /\ host[p] = "serving" => Head(control[p]) # "REVOKE_SESSIONS"
          /\ control' = [control EXCEPT ![p] = Tail(@)]
       \/ control[p] = <<>> /\ closed[p] /\ UNCHANGED control

HostExits(p) ==
    /\ HostGoes(p, {"starting", "ready", "serving", "revoked", "stopping"}, "exited")
    /\ UNCHANGED control

-----------------------------------------------------------------------------
(* What may happen to a process.                                            *)

\* Once the process is stopping, another signal changes nothing.
Interrupt(p) ==
    /\ stage[p] \in {"checking", "removing", "prepared", "proving", "supervising"}
    /\ ~interrupted[p]
    /\ interrupted' = [interrupted EXCEPT ![p] = TRUE]
    /\ UNCHANGED <<guardVars, stage, server, taskVars, report, forced, hostVars>>

ServerFails(p) ==
    /\ Running(p) /\ Listening(p)
    /\ server' = [server EXCEPT ![p] = "ended"]
    /\ UNCHANGED <<guardVars, stage, interrupted, taskVars, report, forced, hostVars>>

\* It is killed, and what it knew is gone.  The kernel closes its files one after
\* another: the lock's, which was opened first, before the socket's.
Crash(p) ==
    /\ Running(p)
    /\ stage' = [stage EXCEPT ![p] = "dying"]
    /\ lock' = IF lock = p THEN "nobody" ELSE lock
    /\ bound' = [bound EXCEPT ![p] = FALSE]
    /\ interrupted' = [interrupted EXCEPT ![p] = FALSE]
    /\ childShutdown' = [childShutdown EXCEPT ![p] = FALSE]
    /\ task' = [task EXCEPT ![p] = "none"]
    /\ childResult' = [childResult EXCEPT ![p] = "none"]
    /\ report' = [report EXCEPT ![p] = "none"]
    /\ forced' = [forced EXCEPT ![p] = FALSE]
    /\ UNCHANGED <<endpoint, server, hostVars>>

\* Slip: something else holds the control pipe open.
GoneLeavingInput(p) ==
    /\ stage' = [stage EXCEPT ![p] = "crashed"]
    /\ server' = [server EXCEPT ![p] = "ended"]
    /\ UNCHANGED closed

\* Its socket no longer answers and its host's control input ends.
Vanish(p) ==
    /\ stage' = [stage EXCEPT ![p] = "crashed"]
    /\ server' = [server EXCEPT ![p] = "ended"]
    /\ closed' = [closed EXCEPT ![p] = TRUE]

Gone(p) ==
    /\ stage[p] = "dying"
    /\ Vanish(p)
    /\ UNCHANGED <<guardVars, interrupted, taskVars, report, forced, host, control>>

-----------------------------------------------------------------------------
GuardStep(p) == CheckEndpoint(p) \/ RemoveStale(p) \/ Bind(p) \/ BindFails(p) \/ DropEndpoint(p)

LifecycleStep(p) ==
    \/ Ready(p) \/ NotReady(p)
    \/ ChildEndedFirst(p) \/ StopRequested(p) \/ Joined(p)
    \/ StopServer(p) \/ Collected(p)

ChildTaskStep(p) ==
    \/ Launch(p) \/ LaunchFails(p)
    \/ ControlRecord(p) \/ ControlFails(p)
    \/ HostExited(p) \/ ShutdownSeen(p)
    \/ TellHost(p) \/ HostStopped(p) \/ KillHost(p)

HostStarts(p) == HostReady(p) \/ HostServes(p) \/ (host[p] \in {"starting", "ready"} /\ HostExits(p))

HostObeys(p) ==
    \/ HostRevokes(p) \/ HostStops(p)
    \/ host[p] = "stopping" /\ HostExits(p)

Next == \E p \in Processes :
    \/ Prepare(p) \/ GuardStep(p) \/ LifecycleStep(p) \/ ChildTaskStep(p)
    \/ HostStarts(p) \/ HostObeys(p) \/ HostExits(p)
    \/ Interrupt(p) \/ ServerFails(p) \/ Crash(p) \/ Gone(p)

Spec == Init /\ [][Next]_vars

\* Every wait of a process is awaited by the runtime and all but two have a
\* deadline: the host's exit once it serves, which nobody promises, and the
\* collector's, which depends on the session bus and is assumed here.  A host
\* starts or gives up and obeys its input (LocalHost!StopsWhenAlone).
Fairness == \A p \in Processes :
    /\ WF_vars(GuardStep(p)) /\ WF_vars(LifecycleStep(p)) /\ WF_vars(ChildTaskStep(p))
    /\ WF_vars(HostStarts(p)) /\ WF_vars(HostObeys(p)) /\ WF_vars(Gone(p))

FairSpec == Spec /\ Fairness

-----------------------------------------------------------------------------
(* Properties.                                                              *)

\* Every variable holds a value of its kind; what a host has still to read is
\* the end of an orderly shutdown.
TypeOK ==
    /\ lock \in Processes \cup {"nobody"}
    /\ endpoint \in Processes \cup {"nothing", "foreign"}
    /\ stage \in [Processes -> Stages]
    /\ bound \in [Processes -> BOOLEAN]
    /\ server \in [Processes -> {"none", "running", "ended"}]
    /\ interrupted \in [Processes -> BOOLEAN]
    /\ childShutdown \in [Processes -> BOOLEAN]
    /\ task \in [Processes -> Tasks]
    /\ childResult \in [Processes -> Reports]
    /\ report \in [Processes -> Reports]
    /\ forced \in [Processes -> BOOLEAN]
    /\ host \in [Processes -> {"absent", "starting", "ready", "serving", "revoked", "stopping", "exited"}]
    /\ control \in [Processes -> {<<>>, <<"SHUTDOWN">>, <<"REVOKE_SESSIONS", "SHUTDOWN">>}]
    /\ closed \in [Processes -> BOOLEAN]

\* What is removed from the endpoint's path is a socket at which nobody
\* listens: never a file of someone else, never the socket of a process that
\* serves, whoever crashes or restarts meanwhile.
OnlyDeadSocketsRemoved ==
    [][endpoint # "nothing" /\ endpoint' # endpoint =>
          endpoint \in Processes /\ ~Listening(endpoint)]_vars

\* A crash does not keep others out: a process that took the lock gives up at
\* the endpoint only for a foreign file or a process that is just dying.
RefusedForCause ==
    [][\A p \in Processes :
          stage[p] = "checking" /\ stage'[p] = "dropping" =>
              \/ endpoint = "foreign"
              \/ endpoint \in Processes /\ stage[endpoint] = "dying"]_vars

\* As long as the process of a host has not died, the endpoint its host
\* forwards to is its own.
HostHasItsEndpoint ==
    \A p \in Processes :
        HostAlive(p) /\ stage[p] \notin {"dying", "crashed"} => endpoint = p /\ lock = p

\* Nothing that was stopped by force goes unreported.
ForcedIsReported ==
    \A p \in Processes :
        stage[p] = "ended" /\ forced[p] => report[p] = "forced"

\* A process that is told to stop, or whose server or host has ended, ends
\* or crashes.
EveryStopEnds ==
    \A p \in Processes :
        stage[p] = "supervising" /\ (interrupted[p] \/ server[p] = "ended" \/ host[p] = "exited")
            ~> stage[p] \in {"ended", "crashed"}

\* The host of a process that crashed does not outlive it for ever.
OrphanExits ==
    \A p \in Processes :
        stage[p] = "crashed" /\ HostAlive(p) ~> host[p] = "exited"
=============================================================================
