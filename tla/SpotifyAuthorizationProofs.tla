--------------------- MODULE SpotifyAuthorizationProofs ---------------------
(***************************************************************************)
(* Proofs about SpotifyAuthorization, for every number of tabs, sign-in    *)
(* attempts and refresh tokens.                                            *)
(***************************************************************************)
EXTENDS SpotifyAuthorization, TLAPS

\* One operation per tab moves; the others keep theirs.
LEMMA OperationHelpers ==
    ASSUME TypeOK, NEW tab \in Tabs
    PROVE  /\ \A point : Go(tab, point) =>
                operation' = [t \in Tabs |->
                   IF t = tab THEN [at |-> point, attempt |-> operation[t].attempt,
                                    late |-> operation[t].late,
                                    token |-> operation[t].token,
                                    aborted |-> operation[t].aborted]
                   ELSE operation[t]]
           /\ Stop(tab) => operation' = [t \in Tabs |->
                   IF t = tab THEN IdleOperation ELSE operation[t]]
           /\ \A new : Start(tab, new) => operation' = [t \in Tabs |->
                   IF t = tab THEN new ELSE operation[t]]
           /\ \A point : Issue(tab, point) =>
                operation' = [t \in Tabs |->
                   IF t = tab THEN [at |-> point, attempt |-> operation[t].attempt,
                                    late |-> operation[t].late,
                                    token |-> issued + 1,
                                    aborted |-> operation[t].aborted]
                   ELSE operation[t]]
BY DEF TypeOK, Operations, Go, Stop, Start, Issue

-----------------------------------------------------------------------------
(***************************************************************************)
(* Type correctness.  The type of the operations is kept apart from that   *)
(* of the other variables, because the helpers of the actions move one     *)
(* operation and nothing else.                                             *)
(***************************************************************************)
OperationType == operation \in [Tabs -> Operations]

OtherType ==
    /\ pending \subseteq Attempts
    /\ stored \in Tokens \cup {NoToken}
    /\ leaving \subseteq Tabs
    /\ expired \subseteq Attempts
    /\ code \in [Attempts -> {"none", "asked", "granted", "redeemed"}]
    /\ issued \in Tokens \cup {NoToken}
    /\ valid \subseteq 1..issued
    /\ sent \in [Attempts -> Nat]
    /\ origin \in Tabs \cup {NoTab}
    /\ loggedOut \subseteq Tabs
    /\ disturbed \in BOOLEAN

LEMMA TypeParts == TypeOK <=> OperationType /\ OtherType
BY DEF TypeOK, OperationType, OtherType

LEMMA TypePartsPrimed == TypeOK' <=> OperationType' /\ OtherType'
BY DEF TypeOK, OperationType, OtherType

LEMMA IdleIsOperation ==
    /\ IdleOperation \in Operations
    /\ IdleOperation.at = "idle"
    /\ IdleOperation.token = NoToken
    /\ IdleOperation.attempt = NoAttempt
BY DEF NewOperation, IdleOperation, Operations, Points, SignInPoints,
       RefreshPoints, TokenPoints

LEMMA InitType == Init => TypeOK
<1> SUFFICES ASSUME Init PROVE OperationType /\ OtherType
  BY TypeParts
<1>1. OperationType
  BY IdleIsOperation DEF Init, OperationType
<1>2. OtherType
  BY TokensAssumption DEF Init, OtherType, Tokens, NoToken
<1> QED
  BY <1>1, <1>2

\* Moving one operation to a record of the right shape keeps the type.
LEMMA OperationTypeKept ==
    ASSUME TypeOK, NEW tab \in Tabs
    PROVE  /\ \A point \in Points :
                /\ Go(tab, point)
                /\ point \in TokenPoints => operation[tab].token # NoToken
                /\ point \in SignInPoints => operation[tab].attempt # NoAttempt
                => OperationType'
           /\ Stop(tab) => OperationType'
           /\ \A new \in Operations : Start(tab, new) => OperationType'
           /\ \A point \in Points \ SignInPoints :
                Issue(tab, point) => OperationType'
           /\ Issue(tab, "exchanged") /\ operation[tab].attempt # NoAttempt
                => OperationType'
           /\ UNCHANGED operation => OperationType'
<1>1. operation \in [Tabs -> Operations]
  BY DEF TypeOK
<1>2. ASSUME NEW point \in Points, Go(tab, point),
             point \in TokenPoints => operation[tab].token # NoToken,
             point \in SignInPoints => operation[tab].attempt # NoAttempt
      PROVE  OperationType'
  BY <1>1, <1>2, OperationHelpers DEF OperationType, Operations
<1>3. Stop(tab) => OperationType'
  BY <1>1, OperationHelpers, IdleIsOperation DEF OperationType
<1>4. ASSUME NEW new \in Operations, Start(tab, new)
      PROVE  OperationType'
  BY <1>1, <1>4, OperationHelpers DEF OperationType
<1>5. ASSUME NEW point \in Points, Issue(tab, point),
             point \in SignInPoints => operation[tab].attempt # NoAttempt
      PROVE  OperationType'
  <2>1. issued + 1 \in Tokens /\ issued + 1 # NoToken
    BY <1>5, TokensAssumption DEF Issue, TypeOK, Tokens, NoToken
  <2> QED
    BY <1>1, <1>5, <2>1, OperationHelpers DEF OperationType, Operations
<1>6. "exchanged" \in Points
  BY DEF Points, SignInPoints
<1>7. UNCHANGED operation => OperationType'
  BY <1>1 DEF OperationType
<1> QED
  BY <1>2, <1>3, <1>4, <1>5, <1>6, <1>7

LEMMA OtherTypeKept ==
    ASSUME OtherType
    PROVE  UNCHANGED <<database, leaving, provider, history>> => OtherType'
BY DEF OtherType, database, provider, history

\* What the definitions of the sets of points say of single points.
LEMMA PointFacts ==
    /\ {"idle", "creating", "saving-attempt", "consuming", "exchanging",
        "exchanged", "reading", "refreshing", "kept", "rotated", "refused",
        "storing", "deleting", "clearing"} \subseteq Points
    /\ SignInPoints = {"creating", "saving-attempt", "consuming", "exchanging",
                       "exchanged"}
    /\ TokenPoints = {"exchanged", "refreshing", "kept", "rotated", "storing"}
BY DEF Points, SignInPoints, RefreshPoints, TokenPoints

\* What an operation does on its own keeps the type.
LEMMA OperationStepType ==
    ASSUME TypeOK, NEW tab \in Tabs, OperationStep(tab)
    PROVE  TypeOK'
<1> SUFFICES OperationType' /\ OtherType'
  BY TypePartsPrimed
<1>1. OtherType
  BY TypeParts
<1>2. /\ operation[tab].at \in SignInPoints =>
           operation[tab].attempt \in Attempts
      /\ operation[tab].at \in TokenPoints =>
           operation[tab].token \in Tokens
  BY DEF TypeOK, Operations
<1> USE PointFacts
<1>3. CASE AttemptCreated(tab)
  <2>1. OperationType'
    BY <1>2, <1>3, OperationTypeKept, NoAttemptAssumption DEF AttemptCreated, At, GoUnlessAborted, NoToken, Tokens
  <2> QED
    BY <1>1, <1>3, <2>1, OtherTypeKept DEF AttemptCreated
<1>4. CASE AttemptSaved(tab)
  <2>1. OperationType'
    BY <1>2, <1>4, OperationTypeKept, NoAttemptAssumption DEF AttemptSaved, At, NoToken, Tokens
  <2> QED
    BY <1>1, <1>2, <1>4, <2>1
    DEF AttemptSaved, At, OtherType, database, provider, history
<1>5. CASE CallbackConsumed(tab)
  <2>1. OperationType'
    BY <1>2, <1>5, OperationTypeKept, NoAttemptAssumption DEF CallbackConsumed, At
  <2> QED
    BY <1>1, <1>2, <1>5, <2>1
    DEF CallbackConsumed, At, OtherType, database, provider, history
<1>6. CASE CodeExchanged(tab)
  <2>1. OperationType'
    BY <1>2, <1>6, OperationTypeKept, NoAttemptAssumption DEF CodeExchanged, At, GoUnlessAborted, NoToken, Tokens
  <2> QED
    BY <1>1, <1>2, <1>6, <2>1
    DEF CodeExchanged, At, OtherType, database, provider, history
<1>7. CASE TokenRead(tab)
  <2>1. OperationType'
    <3>1. CASE Stop(tab)
      BY <3>1, OperationTypeKept
    <3>2. CASE /\ stored # NoToken
               /\ operation' = [operation EXCEPT ![tab].at = "refreshing",
                                                ![tab].token = stored]
      BY <1>1, <3>2 DEF OperationType, TypeOK, Operations, OtherType
    <3> QED
      BY <1>7, <3>1, <3>2 DEF TokenRead
  <2> QED
    BY <1>1, <1>7, <2>1, OtherTypeKept DEF TokenRead
<1>8. CASE TokenRefreshed(tab)
  <2>1. OperationType'
    BY <1>2, <1>8, OperationTypeKept, NoAttemptAssumption DEF TokenRefreshed, At, GoUnlessAborted, NoToken, Tokens
  <2> QED
    BY <1>1, <1>2, <1>8, <2>1
    DEF TokenRefreshed, At, OtherType, database, provider, history
<1>9. CASE TokenStored(tab)
  <2>1. OperationType'
    BY <1>2, <1>9, OperationTypeKept, NoAttemptAssumption DEF TokenStored, At, NoToken, Tokens
  <2> QED
    BY <1>1, <1>2, <1>9, <2>1
    DEF TokenStored, At, OtherType, database, provider, history
<1>10. CASE Refused(tab)
  <2>1. OperationType'
    BY <1>2, <1>10, OperationTypeKept, NoAttemptAssumption DEF Refused, At, GoUnlessAborted, NoToken, Tokens
  <2> QED
    BY <1>1, <1>10, <2>1, OtherTypeKept DEF Refused
<1>11. CASE TokenDeleted(tab)
  <2>1. OperationType'
    BY <1>2, <1>11, OperationTypeKept, NoAttemptAssumption DEF TokenDeleted, At, NoToken, Tokens
  <2> QED
    BY <1>1, <1>2, <1>11, <2>1
    DEF TokenDeleted, At, OtherType, database, provider, history
<1>12. CASE RequestFailed(tab)
  <2>1. OperationType'
    BY <1>2, <1>12, OperationTypeKept, NoAttemptAssumption DEF RequestFailed, At, NoToken, Tokens
  <2> QED
    BY <1>1, <1>2, <1>12, <2>1
    DEF RequestFailed, At, OtherType, database, provider, history
<1>13. CASE TransactionFailed(tab)
  <2>1. OperationType'
    BY <1>2, <1>13, OperationTypeKept, NoAttemptAssumption DEF TransactionFailed, At, NoToken, Tokens
  <2> QED
    BY <1>1, <1>2, <1>13, <2>1
    DEF TransactionFailed, At, OtherType, database, provider, history
<1>14. CASE StartLogout(tab)
  <2>1. OperationType'
    <3>1. NewOperation("clearing") \in Operations
      BY DEF NewOperation, Operations
    <3> QED
      BY <1>14, <3>1, OperationTypeKept DEF StartLogout
  <2> QED
    BY <1>1, <1>2, <1>14, <2>1
    DEF StartLogout, At, Start, OtherType, database, provider, history
<1>15. CASE LoggedOut(tab)
  <2>1. OperationType'
    BY <1>2, <1>15, OperationTypeKept, NoAttemptAssumption DEF LoggedOut, At, NoToken, Tokens
  <2> QED
    BY <1>1, <1>2, <1>15, <2>1
    DEF LoggedOut, At, OtherType, database, provider, history
<1> QED
  BY <1>3, <1>4, <1>5, <1>6, <1>7, <1>8, <1>9, <1>10, <1>11, <1>12, <1>13, <1>14, <1>15 DEF OperationStep

\* What the user, the worker and the provider do to a tab keeps the type.
LEMMA TabStepType ==
    ASSUME TypeOK, NEW tab \in Tabs,
           \/ \E attempt \in Attempts :
                 BeginAuthorization(tab, attempt) \/ ConsumeCallback(tab, attempt)
           \/ Refresh(tab)
           \/ Abort(tab) \/ Logout(tab) \/ CloseTab(tab)
           \/ ServeExchange(tab) \/ ServeRefresh(tab)
    PROVE  TypeOK'
<1> SUFFICES OperationType' /\ OtherType'
  BY TypePartsPrimed
<1>1. OtherType
  BY TypeParts
<1>2. /\ operation \in [Tabs -> Operations]
      /\ operation[tab].at \in SignInPoints => operation[tab].attempt \in Attempts
      /\ operation[tab].at \in TokenPoints => operation[tab].token \in Tokens
  BY DEF TypeOK, Operations
<1> USE PointFacts
<1>3. ASSUME NEW attempt \in Attempts, BeginAuthorization(tab, attempt)
      PROVE  OperationType' /\ OtherType'
  <2>1. [NewOperation("creating") EXCEPT !.attempt = attempt] \in Operations
    BY NoAttemptAssumption DEF NewOperation, Operations
  <2>2. OperationType'
    BY <1>3, <2>1, OperationTypeKept DEF BeginAuthorization
  <2> QED
    BY <1>1, <1>3, <2>2
    DEF BeginAuthorization, Start, OtherType, database, provider
<1>4. ASSUME NEW attempt \in Attempts, ConsumeCallback(tab, attempt)
      PROVE  OperationType' /\ OtherType'
  <2>1. [NewOperation("consuming") EXCEPT
           !.attempt = attempt, !.late = attempt \in expired] \in Operations
    <3>1. \A late \in BOOLEAN :
             [NewOperation("consuming") EXCEPT !.attempt = attempt, !.late = late]
               \in Operations
      BY NoAttemptAssumption DEF NewOperation, Operations
    <3> QED
      <4>1. CASE attempt \in expired
        <5>1. (attempt \in expired) = TRUE
          BY <4>1
        <5> QED
          BY <3>1, <5>1
      <4>2. CASE attempt \notin expired
        <5>1. (attempt \in expired) = FALSE
          BY <4>2
        <5> QED
          BY <3>1, <5>1
      <4> QED
        BY <4>1, <4>2
  <2>2. OperationType'
    BY <1>4, <2>1, OperationTypeKept DEF ConsumeCallback
  <2> QED
    BY <1>1, <1>4, <2>2
    DEF ConsumeCallback, Start, OtherType, database, provider
<1>5. CASE Refresh(tab)
  <2>1. NewOperation("reading") \in Operations
    BY DEF NewOperation, Operations
  <2>2. OperationType'
    BY <1>5, <2>1, OperationTypeKept DEF Refresh
  <2> QED
    BY <1>1, <1>5, <2>2 DEF Refresh, Start, OtherType, database, provider
<1>6. CASE Abort(tab)
  <2>1. OperationType'
    BY <1>2, <1>6 DEF Abort, OperationType, Operations
  <2> QED
    BY <1>1, <1>6, <2>1, OtherTypeKept DEF Abort
<1>7. CASE Logout(tab)
  <2>1. OperationType'
    BY <1>2, <1>7 DEF Logout, OperationType, Operations
  <2> QED
    BY <1>1, <1>7, <2>1 DEF Logout, OtherType, database, provider, history
<1>8. CASE CloseTab(tab)
  <2>1. OperationType'
    BY <1>8, OperationTypeKept DEF CloseTab
  <2> QED
    BY <1>1, <1>8, <2>1 DEF CloseTab, OtherType, database, provider
<1>9. CASE ServeExchange(tab)
  <2>1. OperationType'
    BY <1>2, <1>9, OperationTypeKept, NoAttemptAssumption DEF ServeExchange, At
  <2>2. OtherType'
    BY <1>1, <1>2, <1>9, TokensAssumption
    DEF ServeExchange, At, Issue, Tokens, NoToken, OtherType, database, history
  <2> QED
    BY <2>1, <2>2
<1>10. CASE ServeRefresh(tab)
  <2>1. OperationType'
    BY <1>2, <1>10, OperationTypeKept DEF ServeRefresh, At, NoToken, Tokens
  <2>2. OtherType'
    BY <1>1, <1>10, TokensAssumption
    DEF ServeRefresh, Issue, Tokens, NoToken, OtherType, database, history
  <2> QED
    BY <2>1, <2>2
<1> QED
  BY <1>3, <1>4, <1>5, <1>6, <1>7, <1>8, <1>9, <1>10

LEMMA TypeStep == TypeOK /\ [Next]_vars => TypeOK'
<1> SUFFICES ASSUME TypeOK, [Next]_vars PROVE TypeOK'
  OBVIOUS
<1>1. OperationType /\ OtherType
  BY TypeParts
<1>2. ASSUME NEW tab \in Tabs, OperationStep(tab) PROVE TypeOK'
  BY <1>2, OperationStepType
<1>3. ASSUME NEW tab \in Tabs,
             \E attempt \in Attempts :
                BeginAuthorization(tab, attempt) \/ ConsumeCallback(tab, attempt)
      PROVE  TypeOK'
  BY <1>3, TabStepType
<1>4. ASSUME NEW tab \in Tabs,
             \/ Refresh(tab) \/ Abort(tab) \/ Logout(tab) \/ CloseTab(tab)
             \/ ServeExchange(tab) \/ ServeRefresh(tab)
      PROVE  TypeOK'
  BY <1>4, TabStepType
<1>5. ASSUME NEW attempt \in Attempts, UserGrants(attempt) \/ AttemptExpires(attempt)
      PROVE  TypeOK'
  BY <1>1, <1>5, TypePartsPrimed
  DEF UserGrants, AttemptExpires, OperationType, OtherType, database, history
<1>6. ASSUME NEW token \in Tokens, Revoke(token) PROVE TypeOK'
  BY <1>1, <1>6, TypePartsPrimed DEF Revoke, OperationType, OtherType, database
<1>7. CASE UNCHANGED vars
  BY <1>1, <1>7, TypePartsPrimed, OtherTypeKept DEF OperationType, vars
<1> QED
  BY <1>2, <1>3, <1>4, <1>5, <1>6, <1>7 DEF Next

\* Every variable keeps its kind, whatever the tabs, the provider and the
\* failures do (TypeOK).
THEOREM TypeCorrect == Spec => []TypeOK
<1>1. TypeOK /\ [Next]_vars => TypeOK'
  BY TypeStep
<1> QED
  BY InitType, <1>1, PTL DEF Spec

-----------------------------------------------------------------------------
(***************************************************************************)
(* Why a code is sent once.  A sign-in attempt is used by one tab only     *)
(* until it is saved, and the provider first hears of it then; an attempt  *)
(* whose code was sent is no longer in the database and cannot return to   *)
(* it.                                                                     *)
(***************************************************************************)
CreatingPoints == {"creating", "saving-attempt"}

SignInInv ==
    /\ \A attempt \in Attempts :
          /\ sent[attempt] <= 1
          /\ sent[attempt] = 1 => attempt \notin pending /\ code[attempt] # "none"
    /\ \A tab \in Tabs :
          /\ operation[tab].at \in CreatingPoints => code[operation[tab].attempt] = "none"
          /\ At(tab, "consuming") => code[operation[tab].attempt] # "none"
    /\ \A tab, other \in Tabs :
          /\ operation[tab].at \in CreatingPoints
          /\ operation[other].at \in CreatingPoints
          /\ operation[tab].attempt = operation[other].attempt
          => tab = other

\* Most steps neither create an attempt nor use one up.
SignInFrame ==
    /\ pending' \subseteq pending
    /\ sent' = sent
    /\ \A attempt \in Attempts : code'[attempt] = "none" <=> code[attempt] = "none"
    /\ \A tab \in Tabs :
          /\ operation'[tab].at \in CreatingPoints =>
                /\ operation[tab].at \in CreatingPoints
                /\ operation'[tab].attempt = operation[tab].attempt
          /\ operation'[tab].at = "consuming" =>
                /\ operation[tab].at = "consuming"
                /\ operation'[tab].attempt = operation[tab].attempt

LEMMA SignInFramed ==
    ASSUME TypeOK, TypeOK', SignInInv, SignInFrame
    PROVE  SignInInv'
<1>1. \A tab \in Tabs :
         operation[tab].at \in CreatingPoints \cup {"consuming"} =>
            operation[tab].attempt \in Attempts
  BY DEF TypeOK, Operations, SignInPoints, CreatingPoints
<1> QED
  BY <1>1 DEF SignInInv, SignInFrame, At

LEMMA SignInFrames ==
    ASSUME TypeOK, NEW tab \in Tabs,
           \/ AttemptCreated(tab) \/ CodeExchanged(tab) \/ TokenRead(tab)
           \/ TokenRefreshed(tab) \/ TokenStored(tab) \/ Refused(tab)
           \/ TokenDeleted(tab) \/ RequestFailed(tab) \/ TransactionFailed(tab)
           \/ StartLogout(tab) \/ LoggedOut(tab)
           \/ Refresh(tab) \/ Abort(tab) \/ Logout(tab) \/ CloseTab(tab)
           \/ ServeExchange(tab) \/ ServeRefresh(tab)
    PROVE  SignInFrame
<1> USE OperationHelpers DEF CreatingPoints
<1>1. /\ operation \in [Tabs -> Operations]
      /\ IdleOperation.at = "idle"
      /\ \A point : NewOperation(point).at = point
      /\ code \in [Attempts -> {"none", "asked", "granted", "redeemed"}]
  BY DEF TypeOK, IdleOperation, NewOperation
<1>2. CASE AttemptCreated(tab)
  BY <1>1, <1>2 DEF AttemptCreated, GoUnlessAborted, At, SignInFrame, database, provider, history
<1>3. CASE CodeExchanged(tab)
  BY <1>1, <1>3 DEF CodeExchanged, GoUnlessAborted, SignInFrame, database, provider
<1>4. CASE TokenRead(tab)
  BY <1>1, <1>4 DEF TokenRead, Operations, SignInFrame, database, provider, history
<1>5. CASE TokenRefreshed(tab)
  BY <1>1, <1>5 DEF TokenRefreshed, GoUnlessAborted, SignInFrame, database, provider
<1>6. CASE TokenStored(tab) \/ TokenDeleted(tab)
  BY <1>1, <1>6 DEF TokenStored, TokenDeleted, SignInFrame, provider, history
<1>7. CASE Refused(tab)
  BY <1>1, <1>7 DEF Refused, GoUnlessAborted, SignInFrame, database, provider, history
<1>8. CASE RequestFailed(tab) \/ TransactionFailed(tab) \/ CloseTab(tab)
  BY <1>1, <1>8 DEF RequestFailed, TransactionFailed, CloseTab, SignInFrame, database, provider
<1>9. CASE StartLogout(tab) \/ Refresh(tab)
  BY <1>1, <1>9 DEF StartLogout, Refresh, SignInFrame, database, provider
<1>10. CASE LoggedOut(tab)
  BY <1>1, <1>10 DEF LoggedOut, SignInFrame, provider
<1>11. CASE Abort(tab) \/ Logout(tab)
  BY <1>1, <1>11 DEF Abort, Logout, Operations, SignInFrame, database, provider, history
<1>12. CASE ServeExchange(tab)
  BY <1>1, <1>12 DEF ServeExchange, SignInFrame, database, history
<1>13. CASE ServeRefresh(tab)
  BY <1>1, <1>13 DEF ServeRefresh, SignInFrame, database, history
<1> QED
  BY <1>2, <1>3, <1>4, <1>5, <1>6, <1>7, <1>8, <1>9, <1>10, <1>11, <1>12, <1>13

LEMMA SignInStep == TypeOK /\ SignInInv /\ [Next]_vars => SignInInv'
<1> SUFFICES ASSUME TypeOK, SignInInv, [Next]_vars PROVE SignInInv'
  OBVIOUS
<1>1. TypeOK'
  BY TypeStep
<1>2. SignInFrame => SignInInv'
  BY <1>1, SignInFramed
<1>3. /\ operation \in [Tabs -> Operations]
      /\ sent \in [Attempts -> Nat]
      /\ code \in [Attempts -> {"none", "asked", "granted", "redeemed"}]
      /\ \A tab \in Tabs : operation[tab].at \in CreatingPoints \cup {"consuming"} =>
                              operation[tab].attempt \in Attempts
  BY DEF TypeOK, Operations, SignInPoints, CreatingPoints
<1>4. ASSUME NEW tab \in Tabs, NEW attempt \in Attempts, BeginAuthorization(tab, attempt)
      PROVE  SignInInv'
  <2>1. operation' = [t \in Tabs |->
           IF t = tab THEN [NewOperation("creating") EXCEPT !.attempt = attempt]
           ELSE operation[t]]
    BY <1>4, OperationHelpers DEF BeginAuthorization
  <2>2. /\ [NewOperation("creating") EXCEPT !.attempt = attempt].at = "creating"
        /\ [NewOperation("creating") EXCEPT !.attempt = attempt].attempt = attempt
    BY DEF NewOperation
  <2>3. code[attempt] = "none" /\ \A other \in Tabs : operation[other].attempt # attempt
    BY <1>4 DEF BeginAuthorization
  <2>4. pending' = pending /\ code' = code /\ sent' = sent
    BY <1>4 DEF BeginAuthorization, database, provider
  <2> QED
    BY <1>3, <2>1, <2>2, <2>3, <2>4 DEF SignInInv, CreatingPoints, At
<1>5. ASSUME NEW tab \in Tabs, AttemptSaved(tab) PROVE SignInInv'
  <2>1. /\ operation' = [t \in Tabs |-> IF t = tab THEN IdleOperation ELSE operation[t]]
        /\ IdleOperation.at = "idle"
    BY <1>5, OperationHelpers, IdleIsOperation DEF AttemptSaved
  <2>2. /\ operation[tab].at \in CreatingPoints
        /\ operation[tab].attempt \in Attempts
    BY <1>3, <1>5 DEF AttemptSaved, At, CreatingPoints
  <2>3. /\ pending' = pending \cup {operation[tab].attempt}
        /\ code' \in {code, [code EXCEPT ![operation[tab].attempt] = "asked"]}
        /\ sent' = sent
    BY <1>5 DEF AttemptSaved, history
  <2> QED
    BY <1>3, <2>1, <2>2, <2>3 DEF SignInInv, CreatingPoints, At
<1>6. ASSUME NEW tab \in Tabs, NEW attempt \in Attempts, ConsumeCallback(tab, attempt)
      PROVE  SignInInv'
  <2> DEFINE new == [NewOperation("consuming") EXCEPT
                       !.attempt = attempt, !.late = attempt \in expired]
  <2>1. operation' = [t \in Tabs |-> IF t = tab THEN new ELSE operation[t]]
    BY <1>6, OperationHelpers DEF ConsumeCallback
  <2>2. new.at = "consuming" /\ new.attempt = attempt
    BY DEF NewOperation
  <2>3. code[attempt] # "none" /\ pending' = pending /\ code' = code /\ sent' = sent
    BY <1>6 DEF ConsumeCallback, database, provider
  <2> HIDE DEF new
  <2> QED
    BY <1>3, <2>1, <2>2, <2>3 DEF SignInInv, CreatingPoints, At
<1>7. ASSUME NEW tab \in Tabs, CallbackConsumed(tab) PROVE SignInInv'
  <2> DEFINE used == operation[tab].attempt
  <2>1. /\ used \in Attempts /\ operation[tab].at = "consuming"
        /\ pending' = pending \ {used} /\ code' = code
    BY <1>3, <1>7 DEF CallbackConsumed, At, provider
  <2>2. \/ sent' = sent
        \/ used \in pending /\ sent' = [sent EXCEPT ![used] = @ + 1]
    BY <1>7 DEF CallbackConsumed
  <2>3. \A t \in Tabs : \/ t # tab /\ operation'[t] = operation[t]
                        \/ t = tab /\ operation'[t].at \in {"idle", "exchanging"}
    BY <1>7, OperationHelpers, IdleIsOperation DEF CallbackConsumed
  <2>4. \A attempt \in Attempts : sent[attempt] \in Nat
    BY <1>3
  <2>5. \A attempt \in Attempts :
           /\ sent'[attempt] <= 1
           /\ sent'[attempt] = 1 => attempt \notin pending' /\ code'[attempt] # "none"
    <3>1. CASE sent' = sent
      BY <2>1, <3>1 DEF SignInInv
    <3>2. CASE used \in pending /\ sent' = [sent EXCEPT ![used] = @ + 1]
      <4>1. sent[used] = 0
        BY <2>1, <2>4, <3>2 DEF SignInInv
      <4>2. \A attempt \in Attempts :
               sent'[attempt] = IF attempt = used THEN 1 ELSE sent[attempt]
        BY <1>3, <3>2, <4>1
      <4> QED
        BY <2>1, <4>2 DEF SignInInv, At
    <3> QED
      BY <2>2, <3>1, <3>2
  <2> QED
    BY <2>1, <2>3, <2>5 DEF SignInInv, CreatingPoints, At
<1>8. ASSUME NEW attempt \in Attempts, UserGrants(attempt) \/ AttemptExpires(attempt)
      PROVE  SignInFrame
  BY <1>3, <1>8 DEF UserGrants, AttemptExpires, SignInFrame, database, history
<1>9. ASSUME NEW token \in Tokens, Revoke(token) PROVE SignInFrame
  BY <1>9 DEF Revoke, SignInFrame, database
<1>10. CASE UNCHANGED vars
  BY <1>10 DEF vars, database, provider, history, SignInInv, At
<1> QED
  BY <1>2, <1>4, <1>5, <1>6, <1>7, <1>8, <1>9, <1>10, SignInFrames DEF Next, OperationStep

\* A callback's code is sent to the provider at most once, in however many
\* tabs and however often its address is opened (CodeSentOnce).
THEOREM CodeSentOnceTheorem == Spec => []CodeSentOnce
<1>1. Init => SignInInv
  BY IdleIsOperation DEF Init, SignInInv, CreatingPoints, At
<1>2. TypeOK /\ SignInInv /\ [Next]_vars => SignInInv'
  BY SignInStep
<1>3. SignInInv => CodeSentOnce
  BY DEF SignInInv, CodeSentOnce
<1> QED
  BY TypeCorrect, <1>1, <1>2, <1>3, PTL DEF Spec

-----------------------------------------------------------------------------
(***************************************************************************)
(* Why a logout forgets.  A tab that has done nothing since its logout     *)
(* runs nothing, so no transaction of its own is left to store a token.    *)
(***************************************************************************)
LogoutInv ==
    \A tab \in loggedOut : At(tab, "idle") /\ (stored # NoToken => origin # tab)

\* No step but a logout adds to the tabs that are logged out; those stay idle,
\* and a token is stored only by a tab that runs.
LogoutFrame ==
    /\ loggedOut' \subseteq loggedOut
    /\ \A tab \in loggedOut' :
          operation[tab].at = "idle" => operation'[tab].at = "idle"
    /\ \/ stored' = stored /\ origin' = origin
       \/ stored' = NoToken
       \/ \E tab \in Tabs : origin' = tab /\ operation[tab].at = "storing"

LEMMA LogoutFramed == LogoutInv /\ LogoutFrame => LogoutInv'
BY DEF LogoutInv, LogoutFrame, At

LEMMA LogoutFrames ==
    ASSUME TypeOK, [Next]_vars
    PROVE  LogoutFrame \/ \E tab \in Tabs : LoggedOut(tab)
<1> USE OperationHelpers, IdleIsOperation
<1>1. loggedOut \subseteq Tabs /\ operation \in [Tabs -> Operations]
  BY DEF TypeOK
<1>2. ASSUME NEW tab \in Tabs,
             \/ AttemptCreated(tab) \/ AttemptSaved(tab) \/ CallbackConsumed(tab)
             \/ CodeExchanged(tab) \/ TokenRefreshed(tab) \/ Refused(tab)
             \/ RequestFailed(tab) \/ TransactionFailed(tab) \/ CloseTab(tab)
      PROVE  LogoutFrame
  BY <1>1, <1>2
  DEF AttemptCreated, AttemptSaved, CallbackConsumed, CodeExchanged,
      TokenRefreshed, Refused, RequestFailed, TransactionFailed, CloseTab,
      RequestPoints, TransactionPoints,
      GoUnlessAborted, At, LogoutFrame, database, history
<1>3. ASSUME NEW tab \in Tabs, TokenRead(tab) PROVE LogoutFrame
  BY <1>1, <1>3 DEF TokenRead, At, LogoutFrame, database, history
<1>4. ASSUME NEW tab \in Tabs, TokenStored(tab) \/ TokenDeleted(tab) PROVE LogoutFrame
  BY <1>1, <1>4 DEF TokenStored, TokenDeleted, At, LogoutFrame, history
<1>5. ASSUME NEW tab \in Tabs, NEW new, Start(tab, new), UNCHANGED <<stored, origin>>
      PROVE  LogoutFrame
  BY <1>1, <1>5 DEF Start, LogoutFrame
<1>6. ASSUME NEW tab \in Tabs,
             \/ StartLogout(tab) \/ Refresh(tab)
             \/ \E attempt \in Attempts :
                   BeginAuthorization(tab, attempt) \/ ConsumeCallback(tab, attempt)
      PROVE  LogoutFrame
  BY <1>5, <1>6
  DEF StartLogout, Refresh, BeginAuthorization, ConsumeCallback, database
<1>7. ASSUME NEW tab \in Tabs, Abort(tab) \/ Logout(tab) PROVE LogoutFrame
  BY <1>1, <1>7 DEF Abort, Logout, At, Operations, LogoutFrame, database, history
<1>8. ASSUME NEW tab \in Tabs, ServeExchange(tab) \/ ServeRefresh(tab) PROVE LogoutFrame
  BY <1>1, <1>8 DEF ServeExchange, ServeRefresh, At, LogoutFrame, database, history
<1>9. ASSUME \/ \E attempt \in Attempts : UserGrants(attempt) \/ AttemptExpires(attempt)
             \/ \E token \in Tokens : Revoke(token)
             \/ UNCHANGED vars
      PROVE  LogoutFrame
  BY <1>9 DEF UserGrants, AttemptExpires, Revoke, LogoutFrame, vars, database, history
<1> QED
  BY <1>2, <1>3, <1>4, <1>6, <1>7, <1>8, <1>9 DEF Next, OperationStep

\* A token that a tab obtained does not outlive the tab's own logout
\* (LogoutForgets).
THEOREM LogoutForgetsTheorem == Spec => []LogoutForgets
<1>1. Init => LogoutInv
  BY DEF Init, LogoutInv
<1>2. ASSUME TypeOK, LogoutInv, [Next]_vars PROVE LogoutInv'
  <2>1. ASSUME NEW tab \in Tabs, LoggedOut(tab) PROVE LogoutInv'
    <3>1. operation' = [t \in Tabs |-> IF t = tab THEN IdleOperation ELSE operation[t]]
      BY <1>2, <2>1, OperationHelpers DEF LoggedOut
    <3>2. loggedOut \subseteq Tabs /\ loggedOut' = loggedOut \cup {tab} /\ stored' = NoToken
      BY <1>2, <2>1 DEF LoggedOut, TypeOK
    <3> QED
      BY <1>2, <3>1, <3>2, IdleIsOperation DEF LogoutInv, At
  <2> QED
    BY <1>2, <2>1, LogoutFramed, LogoutFrames
<1>3. LogoutInv => LogoutForgets
  BY DEF LogoutInv, LogoutForgets
<1> QED
  BY TypeCorrect, <1>1, <1>2, <1>3, PTL DEF Spec

-----------------------------------------------------------------------------
(***************************************************************************)
(* Why the stored token is usable.  A token that is issued and not stored  *)
(* yet is known to one operation only, so nothing can use it up before it  *)
(* is stored; a token that was refused stays refused.                      *)
(***************************************************************************)
UnsavedPoints == {"exchanged", "rotated", "storing"}
RefusedPoints == {"refused", "deleting"}
TokenlessPoints == {"creating", "saving-attempt", "consuming", "exchanging"}

TokensOfOperations ==
    \A tab \in Tabs :
       /\ operation[tab].token <= issued
       /\ operation[tab].at \in TokenlessPoints => operation[tab].token = NoToken
       /\ operation[tab].at \in RefusedPoints => operation[tab].token \notin valid
       /\ operation[tab].at \in UnsavedPoints =>
             /\ operation[tab].token \in valid \/ disturbed
             /\ operation[tab].token # stored
             /\ \A other \in Tabs \ {tab} :
                   operation[other].token # operation[tab].token

TokenInv ==
    /\ stored <= issued
    /\ StoredTokenUsable
    /\ TokensOfOperations

\* Most steps issue no token and store none: an operation keeps its token and
\* its kind of point, or drops the token.
TokenFrame ==
    /\ stored' \in {stored, NoToken}
    /\ issued' = issued
    /\ valid' = valid \/ (valid' \subseteq valid /\ disturbed')
    /\ disturbed => disturbed'
    /\ \A tab \in Tabs :
          \/ /\ operation'[tab].token = operation[tab].token
             /\ \A points \in {UnsavedPoints, RefusedPoints, TokenlessPoints} :
                   operation'[tab].at \in points => operation[tab].at \in points
          \/ /\ operation'[tab].token = NoToken
             /\ operation'[tab].at \notin UnsavedPoints \cup RefusedPoints
    /\ \A tab \in Tabs :
          operation[tab].at \in {"rotated", "storing"} =>
             operation'[tab].at \in {"rotated", "storing"} \/ disturbed'

LEMMA TokenFramed ==
    ASSUME TypeOK, TypeOK', TokenInv, TokenFrame
    PROVE  TokenInv'
<1>1. \A tab \in Tabs : operation'[tab].at \in UnsavedPoints => operation'[tab].token # NoToken
  BY DEF TypeOK, Operations, TokenPoints, UnsavedPoints
<1>2. stored \in Nat /\ issued \in Nat /\ valid \subseteq 1..issued
      /\ \A tab \in Tabs : operation[tab].token \in Nat
  BY TokensAssumption DEF TypeOK, Operations, Tokens, NoToken
<1>3. (stored <= issued)'
  BY <1>2 DEF TokenInv, TokenFrame, NoToken
<1>4. StoredTokenUsable'
  BY DEF TokenInv, TokenFrame, StoredTokenUsable
<1>5. ASSUME NEW tab \in Tabs, operation'[tab].at \in UnsavedPoints
      PROVE  /\ operation'[tab].token = operation[tab].token
             /\ operation[tab].at \in UnsavedPoints
  BY <1>5 DEF TokenFrame
<1>6. TokensOfOperations'
  <2> SUFFICES ASSUME NEW tab \in Tabs
               PROVE  /\ operation'[tab].token <= issued'
                      /\ operation'[tab].at \in TokenlessPoints =>
                            operation'[tab].token = NoToken
                      /\ operation'[tab].at \in RefusedPoints =>
                            operation'[tab].token \notin valid'
                      /\ operation'[tab].at \in UnsavedPoints =>
                            /\ operation'[tab].token \in valid' \/ disturbed'
                            /\ operation'[tab].token # stored'
                            /\ \A other \in Tabs \ {tab} :
                                  operation'[other].token # operation'[tab].token
    BY DEF TokensOfOperations
  <2>1. operation'[tab].token <= issued'
    BY <1>2 DEF TokenInv, TokensOfOperations, TokenFrame, NoToken
  <2>2. operation'[tab].at \in TokenlessPoints => operation'[tab].token = NoToken
    BY DEF TokenInv, TokensOfOperations, TokenFrame
  <2>3. operation'[tab].at \in RefusedPoints => operation'[tab].token \notin valid'
    BY DEF TokenInv, TokensOfOperations, TokenFrame
  <2>4. ASSUME operation'[tab].at \in UnsavedPoints
        PROVE  /\ operation'[tab].token \in valid' \/ disturbed'
               /\ operation'[tab].token # stored'
               /\ \A other \in Tabs \ {tab} :
                     operation'[other].token # operation'[tab].token
    BY <1>1, <1>5, <2>4 DEF TokenInv, TokensOfOperations, TokenFrame
  <2> QED
    BY <2>1, <2>2, <2>3, <2>4
<1> QED
  BY <1>3, <1>4, <1>6 DEF TokenInv

LEMMA TokenFrames ==
    ASSUME TypeOK, TokenInv, NEW tab \in Tabs,
           \/ AttemptCreated(tab) \/ AttemptSaved(tab) \/ CallbackConsumed(tab)
           \/ CodeExchanged(tab) \/ TokenRefreshed(tab) \/ Refused(tab)
           \/ TokenDeleted(tab) \/ RequestFailed(tab) \/ TransactionFailed(tab)
           \/ LoggedOut(tab) \/ Abort(tab) \/ Logout(tab) \/ CloseTab(tab)
    PROVE  TokenFrame
<1> USE OperationHelpers, IdleIsOperation
    DEF UnsavedPoints, RefusedPoints, TokenlessPoints
<1>1. operation \in [Tabs -> Operations] /\ disturbed \in BOOLEAN
  BY DEF TypeOK
<1>2. CASE AttemptCreated(tab)
  BY <1>1, <1>2
  DEF AttemptCreated, GoUnlessAborted, At, TokenFrame, database, provider, history
<1>3. CASE AttemptSaved(tab)
  BY <1>1, <1>3 DEF AttemptSaved, At, TokenFrame, history
<1>4. CASE CallbackConsumed(tab)
  BY <1>1, <1>4 DEF CallbackConsumed, At, TokenFrame, provider
<1>5. CASE CodeExchanged(tab)
  <2>1. stored' = stored /\ issued' = issued /\ valid' = valid
        /\ (disturbed => disturbed') /\ operation[tab].at = "exchanged"
    BY <1>5 DEF CodeExchanged, At, database, provider
  <2>2. Stop(tab) \/ Go(tab, "storing")
    BY <1>5 DEF CodeExchanged, GoUnlessAborted
  <2> QED
    BY <1>1, <2>1, <2>2 DEF TokenFrame
<1>6. CASE TokenRefreshed(tab)
  <2>1. /\ stored' = stored /\ issued' = issued /\ valid' = valid
        /\ operation[tab].at \in {"kept", "rotated"}
    BY <1>6 DEF TokenRefreshed, At, database, provider
  <2>2. disturbed => disturbed'
    BY ONLY <1>6, Zenon DEF TokenRefreshed
  <2>3. \/ Stop(tab) /\ (operation[tab].at = "kept" \/ disturbed')
        \/ Go(tab, "storing") /\ operation[tab].at = "rotated"
    BY <1>6 DEF TokenRefreshed, At, GoUnlessAborted
  <2> QED
    BY <1>1, <2>1, <2>2, <2>3 DEF TokenFrame
<1>7. CASE Refused(tab)
  BY <1>1, <1>7
  DEF Refused, GoUnlessAborted, At, TokenFrame, database, provider, history
<1>8. CASE TokenDeleted(tab)
  BY <1>1, <1>8 DEF TokenDeleted, At, TokenFrame, provider, history
<1>9. CASE RequestFailed(tab)
  BY <1>1, <1>9 DEF RequestFailed, RequestPoints, IssuedPoints, TokenFrame, database, provider
<1>10. CASE TransactionFailed(tab)
  BY <1>1, <1>10
  DEF TransactionFailed, TransactionPoints, At, TokenFrame, database, provider
<1>11. CASE LoggedOut(tab)
  BY <1>1, <1>11 DEF LoggedOut, At, TokenFrame, provider
<1>12. CASE Abort(tab) \/ Logout(tab)
  BY <1>1, <1>12 DEF Abort, Logout, Operations, TokenFrame, database, provider, history
<1>13. CASE CloseTab(tab)
  <2>1. operation' = [t \in Tabs |-> IF t = tab THEN IdleOperation ELSE operation[t]]
    BY <1>13 DEF CloseTab
  <2>2. stored' = stored /\ issued' = issued /\ valid' = valid
    BY <1>13 DEF CloseTab, database, provider
  <2>3. /\ disturbed => disturbed'
        /\ operation[tab].at \in {"rotated", "storing"} => disturbed'
    BY <1>13 DEF CloseTab, IssuedPoints
  <2> QED
    BY <2>1, <2>2, <2>3 DEF TokenFrame
<1> QED
  BY <1>2, <1>3, <1>4, <1>5, <1>6, <1>7, <1>8, <1>9, <1>10, <1>11, <1>12, <1>13

\* An operation begins without a token.
LEMMA TokenFrameOfStart ==
    ASSUME TypeOK, NEW tab \in Tabs, NEW new, Start(tab, new),
           new.token = NoToken, new.at \notin UnsavedPoints \cup RefusedPoints,
           UNCHANGED <<stored, issued, valid, disturbed>>
    PROVE  TokenFrame
<1>1. /\ operation' = [t \in Tabs |-> IF t = tab THEN new ELSE operation[t]]
      /\ operation[tab].at = "idle"
  BY OperationHelpers DEF Start, At
<1> QED
  BY <1>1 DEF TokenFrame, UnsavedPoints

LEMMA TokenFramesOfStarts ==
    ASSUME TypeOK, NEW tab \in Tabs,
           \/ StartLogout(tab) \/ Refresh(tab)
           \/ \E attempt \in Attempts :
                 BeginAuthorization(tab, attempt) \/ ConsumeCallback(tab, attempt)
    PROVE  TokenFrame
<1> USE DEF NewOperation, UnsavedPoints, RefusedPoints
<1>1. CASE StartLogout(tab) \/ Refresh(tab)
  BY <1>1, TokenFrameOfStart DEF StartLogout, Refresh, database, provider
<1>2. ASSUME NEW attempt \in Attempts, BeginAuthorization(tab, attempt)
      PROVE  TokenFrame
  BY <1>2, TokenFrameOfStart DEF BeginAuthorization, database, provider
<1>3. ASSUME NEW attempt \in Attempts, ConsumeCallback(tab, attempt)
      PROVE  TokenFrame
  BY <1>3, TokenFrameOfStart DEF ConsumeCallback, database, provider
<1> QED
  BY <1>1, <1>2, <1>3

\* The token read is not one that some operation has yet to store.
LEMMA TokenReadStep ==
    ASSUME TypeOK, TokenInv, NEW tab \in Tabs, TokenRead(tab)
    PROVE  TokenInv'
<1>1. /\ operation \in [Tabs -> Operations]
      /\ operation[tab].at = "reading"
      /\ stored' = stored /\ issued' = issued /\ valid' = valid /\ disturbed' = disturbed
  BY DEF TypeOK, TokenRead, At, database, provider, history
<1>2. \/ operation' = [t \in Tabs |-> IF t = tab THEN IdleOperation ELSE operation[t]]
      \/ \A t \in Tabs : IF t = tab THEN /\ operation'[t].at = "refreshing"
                                         /\ operation'[t].token = stored
                         ELSE operation'[t] = operation[t]
  BY <1>1, OperationHelpers DEF TokenRead, Operations
<1>3. StoredTokenUsable'
  BY <1>1, <1>2 DEF TokenInv, StoredTokenUsable
<1>4. \A t \in Tabs : operation[t].at \in UnsavedPoints => operation[t].token # NoToken
  BY <1>1 DEF Operations, TokenPoints, UnsavedPoints
<1>5. NoToken <= issued
  BY TokensAssumption DEF TypeOK, Tokens, NoToken
<1>6. TokensOfOperations'
  BY <1>1, <1>2, <1>4, <1>5, IdleIsOperation
  DEF TokenInv, TokensOfOperations, UnsavedPoints, RefusedPoints, TokenlessPoints
<1> QED
  BY <1>1, <1>3, <1>6 DEF TokenInv

\* What is stored is known to its operation only.
LEMMA TokenStoredStep ==
    ASSUME TypeOK, TokenInv, NEW tab \in Tabs, TokenStored(tab)
    PROVE  TokenInv'
<1>1. /\ operation \in [Tabs -> Operations]
      /\ operation[tab].at = "storing"
      /\ stored' = operation[tab].token
      /\ issued' = issued /\ valid' = valid /\ disturbed' = disturbed
  BY DEF TypeOK, TokenStored, At, provider
<1>2. operation' = [t \in Tabs |-> IF t = tab THEN IdleOperation ELSE operation[t]]
  BY OperationHelpers DEF TokenStored
<1>3. /\ operation[tab].token \in valid \/ disturbed
      /\ operation[tab].token <= issued
      /\ \A other \in Tabs \ {tab} : operation[other].token # operation[tab].token
  BY <1>1 DEF TokenInv, TokensOfOperations, UnsavedPoints
<1>4. StoredTokenUsable'
  BY <1>1, <1>3 DEF StoredTokenUsable
<1>5. NoToken <= issued
  BY TokensAssumption DEF TypeOK, Tokens, NoToken
<1>6. \A t \in Tabs : operation[t].at \in UnsavedPoints => operation[t].token # NoToken
  BY <1>1 DEF Operations, TokenPoints, UnsavedPoints
<1>7. TokensOfOperations'
  BY <1>1, <1>2, <1>3, <1>5, <1>6, IdleIsOperation
  DEF TokenInv, TokensOfOperations, UnsavedPoints, RefusedPoints, TokenlessPoints
<1> QED
  BY <1>1, <1>3, <1>4, <1>7 DEF TokenInv

\* A token that is issued is new, so no other operation has it.
LEMMA TokenIssued ==
    ASSUME TypeOK, TokenInv, NEW tab \in Tabs,
           NEW point \in {"exchanged", "rotated"}, Issue(tab, point),
           \/ valid' = valid \cup {issued + 1}
           \/ /\ point = "rotated"
              /\ operation[tab].at = "refreshing"
              /\ valid' = (valid \ {operation[tab].token}) \cup {issued + 1},
           operation[tab].at \notin UnsavedPoints,
           stored' = stored, disturbed' = disturbed
    PROVE  TokenInv'
<1>1. /\ operation \in [Tabs -> Operations]
      /\ issued \in Nat /\ stored \in Nat /\ valid \subseteq 1..issued
      /\ \A t \in Tabs : operation[t].token \in Nat
      /\ issued' = issued + 1
  BY TokensAssumption DEF TypeOK, Operations, Tokens, NoToken, Issue
<1>2. \A t \in Tabs : IF t = tab THEN operation'[t].at = point /\ operation'[t].token = issued + 1
                      ELSE operation'[t] = operation[t]
  BY OperationHelpers
<1>3. stored <= issued /\ \A t \in Tabs : operation[t].token <= issued
  BY DEF TokenInv, TokensOfOperations
<1>4. StoredTokenUsable'
  <2>1. CASE point = "rotated"
    BY <1>2, <2>1 DEF StoredTokenUsable
  <2>2. CASE point = "exchanged"
    BY <1>2, <2>2 DEF TokenInv, StoredTokenUsable, UnsavedPoints
  <2> QED
    BY <2>1, <2>2
<1>5. ASSUME NEW t \in Tabs
      PROVE  /\ operation'[t].token <= issued'
             /\ operation'[t].at \in TokenlessPoints => operation'[t].token = NoToken
             /\ operation'[t].at \in RefusedPoints => operation'[t].token \notin valid'
  BY <1>1, <1>2, <1>3
  DEF TokenInv, TokensOfOperations, RefusedPoints, TokenlessPoints
<1>6. ASSUME NEW t \in Tabs, operation'[t].at \in UnsavedPoints
      PROVE  /\ operation'[t].token \in valid' \/ disturbed'
             /\ operation'[t].token # stored'
             /\ \A other \in Tabs \ {t} : operation'[other].token # operation'[t].token
  <2>1. CASE t = tab
    BY <1>1, <1>2, <1>3, <2>1
  <2>2. CASE t # tab
    <3>1. operation[t].at \in UnsavedPoints
      BY <1>2, <1>6, <2>2
    <3>2. /\ operation[t].token \in valid \/ disturbed
          /\ operation[t].token # stored
          /\ \A other \in Tabs \ {t} : operation[other].token # operation[t].token
      BY <3>1 DEF TokenInv, TokensOfOperations
    <3> QED
      BY <1>1, <1>2, <1>3, <2>2, <3>2
  <2> QED
    BY <2>1, <2>2
<1>7. TokensOfOperations'
  BY <1>5, <1>6 DEF TokensOfOperations
<1> QED
  BY <1>1, <1>3, <1>4, <1>7 DEF TokenInv

LEMMA TokenServeStep ==
    ASSUME TypeOK, TypeOK', TokenInv, NEW tab \in Tabs,
           ServeExchange(tab) \/ ServeRefresh(tab)
    PROVE  TokenInv'
<1>1. /\ operation \in [Tabs -> Operations]
      /\ stored' = stored /\ disturbed' = disturbed
  BY DEF TypeOK, ServeExchange, ServeRefresh, database, history
<1>2. \/ stored \in valid \cup {NoToken}
      \/ disturbed
      \/ \E t \in Tabs : operation[t].at \in {"rotated", "storing"}
  BY DEF TokenInv, StoredTokenUsable
<1>3. ASSUME NEW point \in {"kept", "refused"}, Go(tab, point),
             UNCHANGED <<issued, valid>>,
             operation[tab].at \in {"exchanging", "refreshing"},
             point = "refused" => operation[tab].token \notin valid
      PROVE  TokenInv'
  <2>1. \A t \in Tabs : IF t = tab THEN /\ operation'[t].at = point
                                        /\ operation'[t].token = operation[t].token
                        ELSE operation'[t] = operation[t]
    BY <1>3, OperationHelpers
  <2>2. StoredTokenUsable'
    BY <1>1, <1>2, <1>3, <2>1 DEF StoredTokenUsable
  <2>3. TokensOfOperations'
    BY <1>1, <1>3, <2>1
    DEF TokenInv, TokensOfOperations, UnsavedPoints, RefusedPoints, TokenlessPoints
  <2> QED
    BY <1>1, <1>3, <2>2, <2>3 DEF TokenInv
<1>4. CASE ServeExchange(tab)
  <2>1. operation[tab].at = "exchanging"
    BY <1>4 DEF ServeExchange, At
  <2>2. operation[tab].token \notin valid
    BY <2>1 DEF TokenInv, TokensOfOperations, TokenlessPoints, TypeOK, NoToken
  <2>3. CASE Issue(tab, "exchanged") /\ valid' = valid \cup {issued + 1}
    BY <1>1, <2>1, <2>3, TokenIssued DEF UnsavedPoints
  <2>4. CASE Go(tab, "refused") /\ UNCHANGED <<issued, valid>>
    BY <1>3, <2>1, <2>2, <2>4
  <2> QED
    BY <1>4, <2>3, <2>4 DEF ServeExchange
<1>5. CASE ServeRefresh(tab)
  <2>1. operation[tab].at = "refreshing"
    BY <1>5 DEF ServeRefresh, At
  <2>2. CASE Issue(tab, "rotated")
             /\ valid' = (valid \ {operation[tab].token}) \cup {issued + 1}
    BY <1>1, <2>1, <2>2, TokenIssued DEF UnsavedPoints
  <2>3. CASE Go(tab, "kept") /\ UNCHANGED <<issued, valid>>
    BY <1>3, <2>1, <2>3
  <2>4. CASE Go(tab, "refused") /\ UNCHANGED <<issued, valid>>
             /\ operation[tab].token \notin valid
    BY <1>3, <2>1, <2>4
  <2> QED
    BY <1>5, <2>2, <2>3, <2>4 DEF ServeRefresh
<1> QED
  BY <1>4, <1>5

LEMMA TokenStep == TypeOK /\ TokenInv /\ [Next]_vars => TokenInv'
<1> SUFFICES ASSUME TypeOK, TokenInv, [Next]_vars PROVE TokenInv'
  OBVIOUS
<1>1. TypeOK'
  BY TypeStep
<1>2. TokenFrame => TokenInv'
  BY <1>1, TokenFramed
<1>3. ASSUME NEW tab \in Tabs,
             \/ OperationStep(tab) \/ Refresh(tab) \/ Abort(tab) \/ Logout(tab)
             \/ CloseTab(tab) \/ ServeExchange(tab) \/ ServeRefresh(tab)
             \/ \E attempt \in Attempts :
                   BeginAuthorization(tab, attempt) \/ ConsumeCallback(tab, attempt)
      PROVE  TokenInv'
  BY <1>1, <1>2, <1>3, TokenFrames, TokenFramesOfStarts, TokenReadStep,
     TokenStoredStep, TokenServeStep
  DEF OperationStep
<1>4. ASSUME \/ \E attempt \in Attempts : UserGrants(attempt) \/ AttemptExpires(attempt)
             \/ \E token \in Tokens : Revoke(token)
             \/ UNCHANGED vars
      PROVE  TokenFrame
  BY <1>4 DEF UserGrants, AttemptExpires, Revoke, TokenFrame, vars, database, provider, history
<1> QED
  BY <1>2, <1>3, <1>4 DEF Next

LEMMA TokenInvariant == Spec => []TokenInv
<1>1. Init => TokenInv
  BY IdleIsOperation
  DEF Init, TokenInv, StoredTokenUsable, TokensOfOperations, UnsavedPoints, RefusedPoints, NoToken
<1>2. TypeOK /\ TokenInv /\ [Next]_vars => TokenInv'
  BY TokenStep
<1> QED
  BY TypeCorrect, <1>1, <1>2, PTL DEF Spec

\* Unless an answer was lost, an operation interrupted or the sign-in revoked,
\* the stored token is usable or its successor is about to be stored
\* (StoredTokenUsable).
THEOREM StoredTokenUsableTheorem == Spec => []StoredTokenUsable
<1>1. TokenInv => StoredTokenUsable
  BY DEF TokenInv
<1> QED
  BY TokenInvariant, <1>1, PTL

\* A tab does not delete a usable token that it has itself presented
\* (DeletesOnlyRefused).
THEOREM DeletesOnlyRefusedTheorem == Spec => DeletesOnlyRefused
<1>1. TokenInv => \A tab \in Tabs :
         (At(tab, "deleting") /\ stored' # stored /\ operation[tab].token = stored)
            => stored \notin valid
  BY DEF TokenInv, TokensOfOperations, RefusedPoints, At
<1> QED
  BY TokenInvariant, <1>1, PTL DEF DeletesOnlyRefused

=============================================================================
