--------------------------- MODULE LocalHostProofs ---------------------------
(***************************************************************************)
(* Proofs about LocalHost, for any clients, any number of calls and places *)
(* and any length of the control input: its types, its two safety          *)
(* invariants, and that it keeps the promises of HostProcess.              *)
(***************************************************************************)
EXTENDS LocalHost, FiniteSetTheorems, SequenceTheorems, TLAPS

-----------------------------------------------------------------------------
(* Types and the places of the calls.                                       *)

Active == {request \in Calls : call[request] # "none"}

\* The calls in progress are finitely many, and one of them more or less
\* changes their number by one.
LEMMA ActiveFacts ==
    ASSUME TypeOK, CallsAccounted
    PROVE  /\ IsFiniteSet(Active) /\ Cardinality(Active) \in Nat
           /\ activeRpcRequests = Cardinality(Active)
           /\ \A request \in Calls :
                 call[request] = "none" =>
                     Cardinality(Active \cup {request}) = activeRpcRequests + 1
           /\ \A request \in Calls :
                 call[request] # "none" =>
                     /\ Cardinality(Active \ {request}) = activeRpcRequests - 1
                     /\ activeRpcRequests - 1 \in Nat
<1>1. IsFiniteSet(Active)
  BY FS_Subset, HostAssumption DEF Active
<1>2. Cardinality(Active) \in Nat /\ activeRpcRequests = Cardinality(Active)
  BY <1>1, FS_CardinalityType DEF CallsAccounted, Active
<1>3. ASSUME NEW request \in Calls, call[request] = "none"
      PROVE  Cardinality(Active \cup {request}) = activeRpcRequests + 1
  <2>1. request \notin Active
    BY <1>3 DEF Active
  <2>. QED  BY <1>1, <1>2, <2>1, FS_AddElement
<1>4. ASSUME NEW request \in Calls, call[request] # "none"
      PROVE  /\ Cardinality(Active \ {request}) = activeRpcRequests - 1
             /\ activeRpcRequests - 1 \in Nat
  <2>1. request \in Active
    BY <1>4 DEF Active
  <2>2. Cardinality(Active \ {request}) = Cardinality(Active) - 1
    BY <1>1, <2>1, FS_RemoveElement
  <2>3. Cardinality(Active \ {request}) \in Nat
    BY <1>1, FS_RemoveElement, FS_Subset, FS_CardinalityType
  <2>. QED  BY <1>2, <2>2, <2>3
<1>. QED  BY <1>1, <1>2, <1>3, <1>4

CallInv == TypeOK /\ CallsAccounted

LEMMA CallInvHolds == Spec => []CallInv
<1>. USE HostAssumption
<1>1. Init => CallInv
  <2>1. Init => TypeOK
    <3>. SUFFICES ASSUME Init PROVE TypeOK
      OBVIOUS
    <3>1. control \in Seq(Lines)
      BY EmptySeq DEF Init
    <3>2. /\ asking \in [Clients -> {"none", "right", "wrong"}]
          /\ call \in [Calls -> {"none", "reading", "forwarded"}]
      BY DEF Init
    <3>. QED  BY <3>1, <3>2 DEF Init, TypeOK
  <2>2. Init => Active = {}
    BY DEF Init, Active
  <2>. QED  BY <2>1, <2>2, FS_EmptySet DEF Init, CallInv, CallsAccounted, Active
<1>2. CallInv /\ [Next]_vars => CallInv'
  <2>. SUFFICES ASSUME CallInv, [Next]_vars
                PROVE  CallInv'
    OBVIOUS
  <2>. USE DEF CallInv
  <2>0. CASE callVars' = callVars /\ TypeOK'
    BY <2>0 DEF CallsAccounted, callVars
  <2>1. CASE Spawn \/ Serve
    BY <2>0, <2>1 DEF Spawn, Serve, TypeOK, pairingVars, controlVars, callVars
  <2>2. CASE Die
    <3>1. TypeOK' /\ Active' = {} /\ activeRpcRequests' = 0
      BY <2>2 DEF Die, TypeOK, controlVars, Active
    <3>. QED  BY <3>1, FS_EmptySet DEF CallsAccounted, Active
  <2>3. ASSUME NEW client \in Clients, AskToPair(client)
        PROVE  CallInv'
    BY <2>0, <2>3 DEF AskToPair, TypeOK, pairingVars, controlVars, callVars
  <2>4. ASSUME NEW client \in Clients, NEW request \in Calls, BeginCall(client, request)
        PROVE  CallInv'
    <3>1. TypeOK' /\ Active' = Active \cup {request}
      BY <2>4 DEF BeginCall, TypeOK, pairingVars, controlVars, Active
    <3>2. Cardinality(Active') = activeRpcRequests' /\ activeRpcRequests' <= MaxCalls
      BY <2>4, <3>1, ActiveFacts DEF BeginCall, TypeOK
    <3>. QED  BY <3>1, <3>2 DEF CallsAccounted, Active
  <2>5. ASSUME NEW request \in Calls, Forward(request)
        PROVE  CallInv'
    <3>1. TypeOK' /\ Active' = Active /\ activeRpcRequests' = activeRpcRequests
      BY <2>5 DEF Forward, TypeOK, pairingVars, controlVars, Active
    <3>. QED  BY <3>1 DEF CallsAccounted, Active
  <2>6. ASSUME NEW client \in Clients, PairingAnswered(client) \/ PairingBroken(client)
        PROVE  CallInv'
    BY <2>0, <2>6 DEF PairingAnswered, PairingBroken, Redeem, PairingRejected, TypeOK,
                      pairingVars, controlVars, callVars
  <2>7. ASSUME NEW request \in Calls, EndCall(request)
        PROVE  CallInv'
    <3>1. activeRpcRequests' \in Nat /\ activeRpcRequests' <= MaxCalls
      <4>1. activeRpcRequests' = activeRpcRequests - 1 /\ activeRpcRequests - 1 \in Nat
        BY <2>7, ActiveFacts DEF EndCall
      <4>. QED  BY <4>1 DEF TypeOK, CallsAccounted
    <3>2. TypeOK' /\ Active' = Active \ {request}
      BY <2>7, <3>1 DEF EndCall, TypeOK, pairingVars, controlVars, Active
    <3>3. Cardinality(Active') = activeRpcRequests'
      BY <2>7, <3>2, ActiveFacts DEF EndCall
    <3>. QED  BY <3>1, <3>2, <3>3 DEF CallsAccounted, Active
  <2>8. CASE CapabilityExpires
    BY <2>0, <2>8 DEF CapabilityExpires, TypeOK, pairingVars, controlVars, callVars
  <2>9. CASE Write
    <3>1. control' \in Seq(Lines) /\ closed' \in BOOLEAN
      <4>1. \A line \in Lines : Append(control, line) \in Seq(Lines)
        BY AppendProperties DEF TypeOK
      <4>. QED  BY <2>9, <4>1 DEF Write, TypeOK
    <3>. QED  BY <2>0, <2>9, <3>1 DEF Write, TypeOK, pairingVars, controlVars, callVars
  <2>10. CASE ControlStep
    <3>1. control # <<>> => Tail(control) \in Seq(Lines)
      BY HeadTailProperties DEF TypeOK
    <3>. QED
      BY <2>0, <2>10, <3>1 DEF ControlStep, ReadRevoke, ReadStop, ReadEnd, BeginStop, Stopped,
                               TypeOK, pairingVars, controlVars, callVars
  <2>11. CASE UNCHANGED vars
    BY <2>0, <2>11 DEF vars, TypeOK, pairingVars, controlVars, callVars
  <2>. QED
    BY <2>1, <2>2, <2>3, <2>4, <2>5, <2>6, <2>7, <2>8, <2>9, <2>10, <2>11 DEF Next, RequestEnds
<1>. QED  BY <1>1, <1>2, PTL DEF Spec

\* Every variable keeps to its kind; in particular the host never counts
\* fewer than no calls.
THEOREM TypeCorrect == Spec => []TypeOK
BY CallInvHolds, PTL DEF CallInv

\* No way for a call to end, from a lost page to the death of the host, makes
\* the host miscount the calls in progress.
THEOREM CallsAccountedTheorem == Spec => []CallsAccounted
BY CallInvHolds, PTL DEF CallInv

-----------------------------------------------------------------------------
(***************************************************************************)
(* Pairing.  No client holds the cookie while the capability is good, so   *)
(* the client that uses it up is the only one.  A host that has not begun  *)
(* to serve has let nobody in; one that was told to revoke its sessions,   *)
(* or is stopping, has no session.                                         *)
(***************************************************************************)
PairingInv ==
    /\ pairing = "issued" => cookies = {}
    /\ OneClientPaired
    /\ life \in {"absent", "starting"} => pairing = "issued" /\ revoked = FALSE
    /\ life = "absent" => control = <<>> /\ closed = FALSE
    /\ life = "stopping" \/ revoked = TRUE => pairing = "revoked"
    /\ \A client \in Clients : asking[client] # "none" => life \in {"serving", "stopping"}

LEMMA PairingInvHolds == Spec => []PairingInv
<1>1. Init => PairingInv
  BY DEF Init, PairingInv, OneClientPaired
<1>2. TypeOK /\ PairingInv /\ [Next]_vars => PairingInv'
  <2>. SUFFICES ASSUME TypeOK, PairingInv, [Next]_vars
                PROVE  PairingInv'
    OBVIOUS
  <2>. USE DEF PairingInv, OneClientPaired, pairingVars, controlVars, callVars
  <2>a. asking \in [Clients -> {"none", "right", "wrong"}] /\ revoked \in BOOLEAN
    BY DEF TypeOK
  <2>1. CASE Spawn \/ Serve \/ Die
    BY <2>1, <2>a DEF Spawn, Serve, Die
  <2>2. ASSUME NEW client \in Clients, NEW request \in Calls, BeginCall(client, request)
        PROVE  PairingInv'
    BY <2>2, <2>a DEF BeginCall
  <2>3. ASSUME NEW client \in Clients, AskToPair(client)
        PROVE  PairingInv'
    BY <2>3, <2>a DEF AskToPair, Answering
  <2>4. ASSUME NEW client \in Clients, PairingAnswered(client)
        PROVE  PairingInv'
    <3>1. life \in {"serving", "stopping"}
      BY <2>4 DEF PairingAnswered
    <3>2. life' = life /\ revoked' = revoked /\ asking' = [asking EXCEPT ![client] = "none"]
      BY <2>4 DEF PairingAnswered
    <3>3. CASE PairingRejected(client)
      BY <3>1, <3>2, <3>3, <2>a DEF PairingRejected
    <3>4. CASE Redeem(client)
      <4>1. pairing = "issued" /\ cookies = {} /\ pairing' \in {"paired", "revoked"}
        BY <3>4 DEF Redeem
      <4>2. cookies' \subseteq {client}
        BY <3>4, <4>1 DEF Redeem
      <4>3. life = "serving" /\ revoked = FALSE
        BY <3>1, <4>1, <2>a
      <4>. QED  BY <3>1, <3>2, <4>1, <4>2, <4>3, <2>a
    <3>. QED  BY <2>4, <3>3, <3>4 DEF PairingAnswered
  <2>5. ASSUME NEW client \in Clients, PairingBroken(client)
        PROVE  PairingInv'
    BY <2>5, <2>a DEF PairingBroken
  <2>6. ASSUME NEW request \in Calls, Forward(request) \/ EndCall(request)
        PROVE  PairingInv'
    BY <2>6, <2>a DEF Forward, EndCall
  <2>7. CASE CapabilityExpires \/ Write
    BY <2>7, <2>a DEF CapabilityExpires, Write
  <2>8. CASE ControlStep
    BY <2>8, <2>a DEF ControlStep, ReadRevoke, ReadStop, ReadEnd, BeginStop, Stopped
  <2>9. CASE UNCHANGED vars
    BY <2>9, <2>a DEF vars
  <2>. QED
    BY <2>1, <2>2, <2>3, <2>4, <2>5, <2>6, <2>7, <2>8, <2>9 DEF Next, RequestEnds
<1>. QED  BY <1>1, <1>2, TypeCorrect, PTL DEF Spec

\* One client at most ever holds the session's cookie, however many redeem
\* the capability at the same time.
THEOREM OneClientPairedTheorem == Spec => []OneClientPaired
BY PairingInvHolds, PTL DEF PairingInv

-----------------------------------------------------------------------------
(* The promises of a host process.                                          *)

\* Every step of the host is a step of HostProcess or leaves what that module
\* speaks of alone: the detailed host implements the abstract one.
THEOREM HostProcessImplemented == Spec => ImplementsHostProcess
<1>1. Init => Host!Init
  BY DEF Init, Host!Init
<1>2. TypeOK /\ PairingInv /\ [Next]_vars => [Host!Next]_(Host!vars)
  <2>. SUFFICES ASSUME TypeOK, PairingInv, [Next]_vars
                PROVE  Host!Next \/ UNCHANGED Host!vars
    OBVIOUS
  <2>. USE DEF PairingInv, pairingVars, controlVars, callVars
  <2>1. CASE Spawn
    BY <2>1 DEF Spawn, Host!Next, Host!Spawn
  <2>2. CASE Serve
    BY <2>2 DEF Serve, Host!Next, Host!Serve
  <2>3. CASE Die
    BY <2>3 DEF Die, Host!Next, Host!Exit
  <2>4. ASSUME NEW client \in Clients, AskToPair(client) \/ PairingBroken(client)
        PROVE  UNCHANGED Host!vars
    BY <2>4 DEF AskToPair, PairingBroken, Host!vars
  <2>5. ASSUME NEW client \in Clients, NEW request \in Calls, BeginCall(client, request)
        PROVE  UNCHANGED Host!vars
    BY <2>5 DEF BeginCall, Host!vars
  <2>6. ASSUME NEW request \in Calls, Forward(request) \/ EndCall(request)
        PROVE  UNCHANGED Host!vars
    BY <2>6 DEF Forward, EndCall, Host!vars
  <2>7. ASSUME NEW client \in Clients, PairingAnswered(client)
        PROVE  Host!Next \/ UNCHANGED Host!vars
    <3>1. CASE PairingRejected(client)
      BY <2>7, <3>1 DEF PairingAnswered, PairingRejected, Host!vars
    <3>2. CASE Redeem(client) /\ life = "serving"
      BY <2>7, <3>2 DEF PairingAnswered, Redeem, Host!Next, Host!Pair, Host!Expire
    <3>3. CASE Redeem(client) /\ life # "serving"
      BY <2>7, <3>3 DEF PairingAnswered, Redeem
    <3>. QED  BY <2>7, <3>1, <3>2, <3>3 DEF PairingAnswered
  <2>8. CASE CapabilityExpires
    BY <2>8 DEF CapabilityExpires, Host!vars
  <2>9. CASE Write
    BY <2>9 DEF Write, Host!Next, Host!Write, Lines, Host!Lines
  <2>10. CASE ReadRevoke
    BY <2>10 DEF ReadRevoke, Host!Next, Host!ReadRevoke
  <2>11. CASE ReadStop \/ ReadEnd
    BY <2>11 DEF ReadStop, ReadEnd, BeginStop, Host!Next, Host!Stop
  <2>12. CASE Stopped
    BY <2>12 DEF Stopped, Host!Next, Host!Exit
  <2>13. CASE UNCHANGED vars
    BY <2>13 DEF vars, Host!vars
  <2>. QED
    BY <2>1, <2>2, <2>3, <2>4, <2>5, <2>6, <2>7, <2>8, <2>9, <2>10, <2>11, <2>12, <2>13
       DEF Next, RequestEnds, ControlStep
<1>. QED  BY <1>1, <1>2, TypeCorrect, PairingInvHolds, PTL DEF Spec, ImplementsHostProcess, Host!Spec
=============================================================================
