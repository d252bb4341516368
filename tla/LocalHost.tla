------------------------------ MODULE LocalHost ------------------------------
(***************************************************************************)
(* The host process of the local display (apps/host/src/local: host.ts,    *)
(* pairing.ts, runtime.ts, grpc-web.ts, native-client.ts).  It pairs one   *)
(* page, forwards that page's calls to the native process, and obeys the   *)
(* lines the native process writes to its standard input.                  *)
(*                                                                         *)
(* Requests are served concurrently: a request that awaits its body or the *)
(* native process lets others, and the control input, go first.  What was  *)
(* checked before an await may no longer hold after it.                    *)
(***************************************************************************)
EXTENDS Integers, Sequences, FiniteSets

CONSTANTS
    Clients,       \* browser contexts that may ask to be paired
    Calls,         \* calls that may be in progress at once
    MaxCalls,      \* maximumConcurrentRpcRequests
    MaxControl     \* bound: lines written and not yet read

ASSUME HostAssumption ==
    /\ IsFiniteSet(Calls)
    /\ MaxCalls \in Nat /\ MaxControl \in Nat

VARIABLES
    life,                \* absent, starting, serving, stopping, exited
    revoked,             \* the control loop has seen REVOKE_SESSIONS
    control,             \* lines on their way on standard input
    closed,              \* standard input ends after them
    pairing,             \* issued, paired or revoked
    lifetimeOver,        \* the capability's lifetime has passed
    asking,              \* per client: its pairing request, while its body is read
    cookies,             \* the clients that hold the session's cookie
    call,                \* per call: none, reading its body, or forwarded
    activeRpcRequests,   \* how many calls the host counts
    nativeOpen           \* the native client accepts calls

controlVars == <<control, closed>>
pairingVars == <<pairing, lifetimeOver, asking, cookies>>
callVars == <<call, activeRpcRequests>>
vars == <<life, revoked, controlVars, pairingVars, callVars, nativeOpen>>

Lines == {"REVOKE_SESSIONS", "SHUTDOWN", "other"}

Init ==
    /\ life = "absent"
    /\ revoked = FALSE
    /\ control = <<>>
    /\ closed = FALSE
    /\ pairing = "issued"
    /\ lifetimeOver = FALSE
    /\ asking = [client \in Clients |-> "none"]
    /\ cookies = {}
    /\ call = [request \in Calls |-> "none"]
    /\ activeRpcRequests = 0
    /\ nativeOpen = FALSE

\* server.stop() takes no new request; those it has taken are still answered.
Answering == life = "serving"

-----------------------------------------------------------------------------
(* Starting: runLocalHost.                                                  *)

Spawn ==
    /\ life = "absent"
    /\ life' = "starting"
    /\ nativeOpen' = TRUE
    /\ UNCHANGED <<revoked, controlVars, pairingVars, callVars>>

Serve ==
    /\ life = "starting"
    /\ life' = "serving"
    /\ UNCHANGED <<revoked, controlVars, pairingVars, callVars, nativeOpen>>

\* The arguments, the native process's readiness or the port; or the process
\* dies at any time, with all it was doing.
Die ==
    /\ life \in {"starting", "serving", "stopping"}
    /\ life' = "exited"
    /\ asking' = [client \in Clients |-> "none"]
    /\ call' = [request \in Calls |-> "none"]
    /\ activeRpcRequests' = 0
    /\ nativeOpen' = FALSE
    /\ UNCHANGED <<revoked, controlVars, pairing, lifetimeOver, cookies>>

-----------------------------------------------------------------------------
(* Pairing: redeemPairing and createPairingAuthority.                       *)

AskToPair(client) ==
    /\ Answering
    /\ asking[client] = "none"
    /\ \E candidate \in {"right", "wrong"} :
          asking' = [asking EXCEPT ![client] = candidate]
    /\ UNCHANGED <<life, revoked, controlVars, pairing, lifetimeOver, cookies, callVars, nativeOpen>>

\* Slip: the capability stays good for the client that lost the answer.
RedeemKeepingCapability(client) ==
    /\ pairing = "issued"
    /\ IF lifetimeOver THEN pairing' = "revoked" /\ UNCHANGED cookies
       ELSE /\ asking[client] = "right"
            /\ cookies' \in {cookies, cookies \cup {client}}
            /\ UNCHANGED pairing

\* redeem, when it changes anything; the answer may not reach the client.
Redeem(client) ==
    /\ pairing = "issued"
    /\ IF lifetimeOver THEN pairing' = "revoked" /\ UNCHANGED cookies
       ELSE /\ asking[client] = "right"
            /\ pairing' = "paired"
            /\ cookies' \in {cookies, cookies \cup {client}}

PairingRejected(client) ==
    /\ pairing # "issued" \/ (~lifetimeOver /\ asking[client] = "wrong")
    /\ UNCHANGED <<pairing, cookies>>

\* The request's body has been read, or the client has gone without sending it.
PairingAnswered(client) ==
    /\ asking[client] # "none"
    /\ Redeem(client) \/ PairingRejected(client)
    /\ asking' = [asking EXCEPT ![client] = "none"]
    /\ UNCHANGED <<life, revoked, controlVars, lifetimeOver, callVars, nativeOpen>>

PairingBroken(client) ==
    /\ asking[client] # "none"
    /\ asking' = [asking EXCEPT ![client] = "none"]
    /\ UNCHANGED <<life, revoked, controlVars, pairing, lifetimeOver, cookies, callVars, nativeOpen>>

CapabilityExpires ==
    /\ life = "serving" /\ ~lifetimeOver
    /\ lifetimeOver' = TRUE
    /\ UNCHANGED <<life, revoked, controlVars, pairing, asking, cookies, callVars, nativeOpen>>

-----------------------------------------------------------------------------
(* Calls: the fetch handler's last part, translateGrpcWeb, invokeNative.    *)

\* authenticate
Authenticated(client) == pairing = "paired" /\ client \in cookies

BeginCall(client, request) ==
    /\ Answering
    /\ call[request] = "none"
    /\ Authenticated(client)
    /\ activeRpcRequests < MaxCalls
    /\ activeRpcRequests' = activeRpcRequests + 1
    /\ call' = [call EXCEPT ![request] = "reading"]
    /\ UNCHANGED <<life, revoked, controlVars, pairingVars, nativeOpen>>

Forward(request) ==
    /\ call[request] = "reading"
    /\ nativeOpen
    /\ call' = [call EXCEPT ![request] = "forwarded"]
    /\ UNCHANGED <<life, revoked, controlVars, pairingVars, activeRpcRequests, nativeOpen>>

\* The native process answers or its deadline passes, the page goes away, or
\* the body cannot be read or forwarded.
EndCall(request) ==
    /\ call[request] # "none"
    /\ call' = [call EXCEPT ![request] = "none"]
    /\ activeRpcRequests' = activeRpcRequests - 1
    /\ UNCHANGED <<life, revoked, controlVars, pairingVars, nativeOpen>>

-----------------------------------------------------------------------------
(* The control input: consumeControlInput.                                  *)

Write ==
    /\ life # "absent"
    /\ ~closed
    /\ \/ /\ Len(control) < MaxControl
          /\ \E line \in Lines : control' = Append(control, line)
          /\ UNCHANGED closed
       \/ closed' = TRUE /\ UNCHANGED control
    /\ UNCHANGED <<life, revoked, pairingVars, callVars, nativeOpen>>

ReadRevoke ==
    /\ life = "serving" /\ ~revoked
    /\ control # <<>> /\ Head(control) = "REVOKE_SESSIONS"
    /\ control' = Tail(control)
    /\ revoked' = TRUE
    /\ pairing' = "revoked"
    /\ UNCHANGED <<life, closed, lifetimeOver, asking, cookies, callVars, nativeOpen>>

\* Slip: stopping leaves the sessions to the line that revokes them.
BeginStopOnly ==
    /\ life' = "stopping"
    /\ nativeOpen' = FALSE
    /\ UNCHANGED pairing

\* stop, up to the wait for the requests in progress.
BeginStop ==
    /\ life' = "stopping"
    /\ pairing' = "revoked"
    /\ nativeOpen' = FALSE

\* SHUTDOWN after REVOKE_SESSIONS, or a line that is not expected.
ReadStop ==
    /\ life = "serving"
    /\ control # <<>> /\ (Head(control) = "REVOKE_SESSIONS" => revoked)
    /\ control' = Tail(control)
    /\ BeginStop
    /\ UNCHANGED <<revoked, closed, lifetimeOver, asking, cookies, callVars>>

\* Slip: only an orderly end of the input stops the host.
ReadEndAfterRevoke ==
    /\ life = "serving"
    /\ control = <<>> /\ closed /\ revoked
    /\ BeginStop
    /\ UNCHANGED <<revoked, controlVars, lifetimeOver, asking, cookies, callVars>>

ReadEnd ==
    /\ life = "serving"
    /\ control = <<>> /\ closed
    /\ BeginStop
    /\ UNCHANGED <<revoked, controlVars, lifetimeOver, asking, cookies, callVars>>

\* server.stop() waits for every request in progress.
Stopped ==
    /\ life = "stopping"
    /\ \A client \in Clients : asking[client] = "none"
    /\ \A request \in Calls : call[request] = "none"
    /\ life' = "exited"
    /\ UNCHANGED <<revoked, controlVars, pairingVars, callVars, nativeOpen>>

-----------------------------------------------------------------------------
RequestEnds ==
    \/ \E client \in Clients : PairingAnswered(client) \/ PairingBroken(client)
    \/ \E request \in Calls : EndCall(request)

ControlStep == ReadRevoke \/ ReadStop \/ ReadEnd \/ Stopped

Next ==
    \/ Spawn \/ Serve \/ Die
    \/ \E client \in Clients :
          \/ AskToPair(client)
          \/ \E request \in Calls : BeginCall(client, request)
    \/ \E request \in Calls : Forward(request)
    \/ RequestEnds
    \/ CapabilityExpires
    \/ Write
    \/ ControlStep

Spec == Init /\ [][Next]_vars

\* The event loop runs what is ready: the host starts or fails, reads its
\* input, and ends its requests, each of which has a deadline (the server's
\* idle timeout for bodies, two seconds for forwarded calls).
Fairness ==
    /\ WF_vars(Serve \/ (life = "starting" /\ Die))
    /\ WF_vars(ReadRevoke \/ ReadStop \/ ReadEnd)
    /\ WF_vars(Stopped)
    /\ \A client \in Clients :
          WF_vars(PairingAnswered(client) \/ PairingBroken(client))
    /\ \A request \in Calls : WF_vars(EndCall(request))

FairSpec == Spec /\ Fairness

-----------------------------------------------------------------------------
(* Properties.                                                              *)

\* Every variable holds a value of its kind.
TypeOK ==
    /\ life \in {"absent", "starting", "serving", "stopping", "exited"}
    /\ revoked \in BOOLEAN
    /\ control \in Seq(Lines) /\ closed \in BOOLEAN
    /\ pairing \in {"issued", "paired", "revoked"}
    /\ lifetimeOver \in BOOLEAN
    /\ asking \in [Clients -> {"none", "right", "wrong"}]
    /\ cookies \subseteq Clients
    /\ call \in [Calls -> {"none", "reading", "forwarded"}]
    /\ activeRpcRequests \in Nat
    /\ nativeOpen \in BOOLEAN

\* The capability lets one client in, although several may be asking while
\* their bodies are read.
OneClientPaired ==
    \A client, other \in cookies : client = other

\* A call in progress holds one place and gives it back however it ends, so
\* the limit neither leaks nor is exceeded.
CallsAccounted ==
    /\ activeRpcRequests = Cardinality({request \in Calls : call[request] # "none"})
    /\ activeRpcRequests <= MaxCalls

\* The host keeps the promises its supervisor and its pages rely on.
Host == INSTANCE HostProcess WITH
    stage <- IF life = "serving" /\ revoked THEN "revoked" ELSE life,
    session <- IF life = "exited" \/ pairing = "revoked" THEN "over"
               ELSE IF pairing = "paired" THEN "paired" ELSE "none"

ImplementsHostProcess == Host!Spec

\* Once its input has ended the host exits, whatever it was told before and
\* whatever its pages are doing.
StopsWhenAlone == closed ~> (life = "exited")
=============================================================================
