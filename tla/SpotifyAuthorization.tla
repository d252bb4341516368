------------------------ MODULE SpotifyAuthorization ------------------------
(***************************************************************************)
(* Signing in to the provider and keeping the sign-in                      *)
(* (apps/web/src/browser/auth: session.ts, storage.ts, spotify-provider.ts *)
(* and token.ts).                                                          *)
(*                                                                         *)
(* Every tab runs its authorization operations one after the other on its  *)
(* worker's chain, but the tabs share one IndexedDB database and one       *)
(* account at the provider.  An operation is a sequence of awaits:         *)
(* transactions, which take effect atomically, and token requests, which   *)
(* the provider may have answered although the tab never hears of it.  An  *)
(* operation that is aborted skips the transactions it has not begun.      *)
(*                                                                         *)
(* Refresh tokens are the numbers 1..MaxTokens in the order the provider   *)
(* issues them.  The provider is external: it redeems a code once, refuses *)
(* a token that is not valid and may rotate a token when it is used.       *)
(***************************************************************************)
EXTENDS Integers

CONSTANTS
    Tabs,         \* the open displays of one browser profile
    Attempts,     \* sign-in attempts, each with its own PKCE state
    NoTab,        \* stands for: no tab
    NoAttempt,    \* stands for: no attempt
    MaxTokens     \* bound: refresh tokens the provider issues

ASSUME NoTabAssumption == NoTab \notin Tabs
ASSUME NoAttemptAssumption == NoAttempt \notin Attempts
ASSUME TokensAssumption == MaxTokens \in Nat

VARIABLES
    pending,      \* attempts saved in the database
    stored,       \* the refresh token saved in the database
    operation,    \* each tab's running operation
    leaving,      \* tabs whose logout waits on their chain
    expired,      \* attempts older than their lifetime
    code,         \* what the provider knows of each attempt
    issued,       \* the newest refresh token
    valid,        \* the refresh tokens the provider accepts
    sent,         \* history: how often each attempt's code was sent
    origin,       \* history: the tab that saved the stored token
    loggedOut,    \* history: tabs that did nothing since their logout
    disturbed     \* history: a sign-in was revoked or an answer got lost

database == <<pending, stored>>
provider == <<code, issued, valid, expired>>
history  == <<sent, origin, loggedOut, disturbed>>
vars == <<database, operation, leaving, provider, history>>

NoToken == 0
Tokens == 1..MaxTokens

SignInPoints == {"creating", "saving-attempt", "consuming", "exchanging", "exchanged"}
RefreshPoints == {"reading", "refreshing", "kept", "rotated"}
Points == SignInPoints \cup RefreshPoints
             \cup {"idle", "refused", "storing", "deleting", "clearing"}

\* Points where a request is on its way, or its answer is on its way back.
RequestPoints ==
    {"exchanging", "exchanged", "refreshing", "kept", "rotated", "refused"}

\* Points where the provider has issued a token that is not stored yet.
IssuedPoints == {"exchanged", "rotated"}

\* Points where the operation carries a token.
TokenPoints == {"exchanged", "refreshing", "kept", "rotated", "storing"}

\* Points where a transaction has begun.
TransactionPoints ==
    {"saving-attempt", "consuming", "reading", "storing", "deleting", "clearing"}

Operations ==
    {run \in [at : Points, attempt : Attempts \cup {NoAttempt}, late : BOOLEAN,
              token : Tokens \cup {NoToken}, aborted : BOOLEAN] :
        /\ run.at \in SignInPoints => run.attempt # NoAttempt
        /\ run.at \in TokenPoints => run.token # NoToken}

NewOperation(point) ==
    [at |-> point, attempt |-> NoAttempt, late |-> FALSE, token |-> NoToken,
     aborted |-> FALSE]

IdleOperation == NewOperation("idle")

Init ==
    /\ pending = {}
    /\ stored = NoToken
    /\ operation = [tab \in Tabs |-> IdleOperation]
    /\ leaving = {}
    /\ expired = {}
    /\ code = [attempt \in Attempts |-> "none"]
    /\ issued = NoToken
    /\ valid = {}
    /\ sent = [attempt \in Attempts |-> 0]
    /\ origin = NoTab
    /\ loggedOut = {}
    /\ disturbed = FALSE

-----------------------------------------------------------------------------
(* Steps of an operation.                                                   *)

At(tab, point) == operation[tab].at = point

Start(tab, new) ==
    /\ At(tab, "idle")
    /\ operation' = [operation EXCEPT ![tab] = new]
    /\ loggedOut' = loggedOut \ {tab}

Go(tab, point) == operation' = [operation EXCEPT ![tab].at = point]
Stop(tab) == operation' = [operation EXCEPT ![tab] = IdleOperation]

\* cancellationAwareStorage: a transaction is begun only for an operation that
\* has not been aborted.
GoUnlessAborted(tab, point) ==
    IF operation[tab].aborted THEN Stop(tab) ELSE Go(tab, point)

-----------------------------------------------------------------------------
(* Beginning a sign-in: beginSpotifyAuthorization.                          *)

BeginAuthorization(tab, attempt) ==
    /\ code[attempt] = "none"
    /\ attempt \notin pending
    /\ \A other \in Tabs : operation[other].attempt # attempt
    /\ Start(tab, [NewOperation("creating") EXCEPT !.attempt = attempt])
    /\ UNCHANGED <<database, leaving, provider, sent, origin, disturbed>>

AttemptCreated(tab) ==
    /\ At(tab, "creating")
    /\ GoUnlessAborted(tab, "saving-attempt")
    /\ UNCHANGED <<database, leaving, provider, history>>

\* The user is sent to the provider, unless the operation was aborted.
AttemptSaved(tab) ==
    /\ At(tab, "saving-attempt")
    /\ pending' = pending \cup {operation[tab].attempt}
    /\ code' = IF operation[tab].aborted THEN code
               ELSE [code EXCEPT ![operation[tab].attempt] = "asked"]
    /\ Stop(tab)
    /\ UNCHANGED <<stored, leaving, issued, valid, expired, history>>

-----------------------------------------------------------------------------
(* Completing it: consumeSpotifyAuthorizationCallback.  The callback's      *)
(* address can be opened in any tab and more than once; one for an attempt  *)
(* the user did not grant is a denial.                                      *)

ConsumeCallback(tab, attempt) ==
    /\ code[attempt] # "none"
    /\ Start(tab, [NewOperation("consuming") EXCEPT
                     !.attempt = attempt, !.late = attempt \in expired])
    /\ UNCHANGED <<database, leaving, provider, sent, origin, disturbed>>

\* Slip: the record is read and the attempt used without removing it.
CallbackLeavesAttempt(tab) ==
    /\ At(tab, "consuming")
    /\ LET attempt == operation[tab].attempt
       IN IF /\ attempt \in pending
             /\ ~operation[tab].late
             /\ ~operation[tab].aborted
             /\ code[attempt] # "asked"
          THEN /\ Go(tab, "exchanging")
               /\ sent' = [sent EXCEPT ![attempt] = @ + 1]
          ELSE Stop(tab) /\ UNCHANGED sent
    /\ UNCHANGED <<database, leaving, provider, origin, loggedOut, disturbed>>

\* One transaction looks the attempt up and removes it, whatever comes of it.
CallbackConsumed(tab) ==
    /\ At(tab, "consuming")
    /\ pending' = pending \ {operation[tab].attempt}
    /\ LET attempt == operation[tab].attempt
       IN IF /\ attempt \in pending
             /\ ~operation[tab].late
             /\ ~operation[tab].aborted
             /\ code[attempt] # "asked"
          THEN /\ Go(tab, "exchanging")
               /\ sent' = [sent EXCEPT ![attempt] = @ + 1]
          ELSE Stop(tab) /\ UNCHANGED sent
    /\ UNCHANGED <<stored, leaving, provider, origin, loggedOut, disturbed>>

CodeExchanged(tab) ==
    /\ At(tab, "exchanged")
    /\ GoUnlessAborted(tab, "storing")
    /\ disturbed' = (disturbed \/ operation[tab].aborted)
    /\ UNCHANGED <<database, leaving, provider, sent, origin, loggedOut>>

-----------------------------------------------------------------------------
(* Keeping it: refreshSpotifyConnection.                                    *)

Refresh(tab) ==
    /\ Start(tab, NewOperation("reading"))
    /\ UNCHANGED <<database, leaving, provider, sent, origin, disturbed>>

TokenRead(tab) ==
    /\ At(tab, "reading")
    /\ IF stored = NoToken \/ operation[tab].aborted THEN Stop(tab)
       ELSE operation' = [operation EXCEPT ![tab].at = "refreshing",
                                           ![tab].token = stored]
    /\ UNCHANGED <<database, leaving, provider, history>>

\* Slip: the answer's access token is used and its refresh token dropped.
TokenRefreshedOnce(tab) ==
    /\ operation[tab].at \in {"kept", "rotated"}
    /\ Stop(tab)
    /\ UNCHANGED <<database, leaving, provider, history>>

\* A rotated token is stored; a provider that omits it keeps the old one.
TokenRefreshed(tab) ==
    /\ \/ /\ At(tab, "kept")
          /\ Stop(tab)
          /\ UNCHANGED disturbed
       \/ /\ At(tab, "rotated")
          /\ GoUnlessAborted(tab, "storing")
          /\ disturbed' = (disturbed \/ operation[tab].aborted)
    /\ UNCHANGED <<database, leaving, provider, sent, origin, loggedOut>>

TokenStored(tab) ==
    /\ At(tab, "storing")
    /\ stored' = operation[tab].token
    /\ origin' = tab
    /\ Stop(tab)
    /\ UNCHANGED <<pending, leaving, provider, sent, loggedOut, disturbed>>

-----------------------------------------------------------------------------
(* Losing it.                                                               *)

\* invalid_grant, for a code or a refresh token.
Refused(tab) ==
    /\ At(tab, "refused")
    /\ GoUnlessAborted(tab, "deleting")
    /\ UNCHANGED <<database, leaving, provider, history>>

TokenDeleted(tab) ==
    /\ At(tab, "deleting")
    /\ stored' = NoToken
    /\ Stop(tab)
    /\ UNCHANGED <<pending, leaving, provider, history>>

\* Slip: a request without an answer counts as a refusal.
RequestFailedForGood(tab) ==
    /\ operation[tab].at \in RequestPoints \cup {"creating"}
    /\ GoUnlessAborted(tab, "deleting")
    /\ disturbed' = (disturbed \/ operation[tab].at \in IssuedPoints)
    /\ UNCHANGED <<database, leaving, provider, sent, origin, loggedOut>>

\* A deadline, the network, the abort, an unreadable answer or the platform's
\* cryptography: the operation ends without knowing what the provider did.
RequestFailed(tab) ==
    /\ operation[tab].at \in RequestPoints \cup {"creating"}
    /\ Stop(tab)
    /\ disturbed' = (disturbed \/ operation[tab].at \in IssuedPoints)
    /\ UNCHANGED <<database, leaving, provider, sent, origin, loggedOut>>

TransactionFailed(tab) ==
    /\ operation[tab].at \in TransactionPoints
    /\ Stop(tab)
    /\ disturbed' = (disturbed \/ At(tab, "storing"))
    /\ UNCHANGED <<database, leaving, provider, sent, origin, loggedOut>>

\* The worker cancels: hidden, retried or superseded.
Abort(tab) ==
    /\ ~At(tab, "idle")
    /\ ~At(tab, "clearing")
    /\ operation' = [operation EXCEPT ![tab].aborted = TRUE]
    /\ UNCHANGED <<database, leaving, provider, history>>

\* Slip: the database is cleared as soon as the user asks.
LogoutAtOnce(tab) ==
    /\ operation' = [operation EXCEPT ![tab].aborted = TRUE]
    /\ pending' = {}
    /\ stored' = NoToken
    /\ loggedOut' = loggedOut \cup {tab}
    /\ UNCHANGED <<leaving, provider, sent, origin, disturbed>>

\* A logout aborts what runs and waits its turn.
Logout(tab) ==
    /\ ~At(tab, "clearing")
    /\ leaving' = leaving \cup {tab}
    /\ operation' = IF At(tab, "idle") THEN operation
                    ELSE [operation EXCEPT ![tab].aborted = TRUE]
    /\ UNCHANGED <<database, provider, history>>

StartLogout(tab) ==
    /\ tab \in leaving
    /\ Start(tab, NewOperation("clearing"))
    /\ leaving' = leaving \ {tab}
    /\ UNCHANGED <<database, provider, sent, origin, disturbed>>

LoggedOut(tab) ==
    /\ At(tab, "clearing")
    /\ pending' = {}
    /\ stored' = NoToken
    /\ Stop(tab)
    /\ loggedOut' = loggedOut \cup {tab}
    /\ UNCHANGED <<leaving, provider, sent, origin, disturbed>>

\* The tab is closed or reloaded, with whatever it was doing.
CloseTab(tab) ==
    /\ ~At(tab, "idle")
    /\ Stop(tab)
    /\ leaving' = leaving \ {tab}
    /\ disturbed' = (disturbed \/ operation[tab].at \in IssuedPoints \cup {"storing"})
    /\ UNCHANGED <<database, provider, sent, origin, loggedOut>>

-----------------------------------------------------------------------------
(* The provider, the user and the clock.                                    *)

UserGrants(attempt) ==
    /\ code[attempt] = "asked"
    /\ code' = [code EXCEPT ![attempt] = "granted"]
    /\ UNCHANGED <<database, operation, leaving, issued, valid, expired, history>>

AttemptExpires(attempt) ==
    /\ code[attempt] # "none"
    /\ expired' = expired \cup {attempt}
    /\ UNCHANGED <<database, operation, leaving, code, issued, valid, history>>

\* A refresh token is issued to the tab whose request is served.
Issue(tab, point) ==
    /\ issued < MaxTokens
    /\ issued' = issued + 1
    /\ operation' = [operation EXCEPT ![tab].at = point, ![tab].token = issued + 1]

ServeExchange(tab) ==
    LET attempt == operation[tab].attempt
    IN /\ At(tab, "exchanging")
       /\ \/ /\ code[attempt] = "granted"
             /\ Issue(tab, "exchanged")
             /\ valid' = valid \cup {issued + 1}
             /\ code' = [code EXCEPT ![attempt] = "redeemed"]
          \/ /\ code[attempt] = "redeemed"
             /\ Go(tab, "refused")
             /\ UNCHANGED <<issued, valid, code>>
       /\ UNCHANGED <<database, leaving, expired, history>>

ServeRefresh(tab) ==
    LET token == operation[tab].token
    IN /\ At(tab, "refreshing")
       /\ \/ /\ token \in valid
             /\ Go(tab, "kept")
             /\ UNCHANGED <<issued, valid>>
          \/ /\ token \in valid
             /\ Issue(tab, "rotated")
             /\ valid' = (valid \ {token}) \cup {issued + 1}
          \/ /\ token \notin valid
             /\ Go(tab, "refused")
             /\ UNCHANGED <<issued, valid>>
       /\ UNCHANGED <<database, leaving, code, expired, history>>

Revoke(token) ==
    /\ token \in valid
    /\ valid' = valid \ {token}
    /\ disturbed' = TRUE
    /\ UNCHANGED <<database, operation, leaving, code, issued, expired, sent,
                   origin, loggedOut>>

-----------------------------------------------------------------------------
OperationStep(tab) ==
    \/ AttemptCreated(tab) \/ AttemptSaved(tab)
    \/ CallbackConsumed(tab) \/ CodeExchanged(tab)
    \/ TokenRead(tab) \/ TokenRefreshed(tab) \/ TokenStored(tab)
    \/ Refused(tab) \/ TokenDeleted(tab)
    \/ RequestFailed(tab) \/ TransactionFailed(tab)
    \/ StartLogout(tab) \/ LoggedOut(tab)

Next ==
    \/ \E tab \in Tabs :
          \/ \E attempt \in Attempts :
                BeginAuthorization(tab, attempt) \/ ConsumeCallback(tab, attempt)
          \/ Refresh(tab)
          \/ OperationStep(tab)
          \/ Abort(tab) \/ Logout(tab) \/ CloseTab(tab)
          \/ ServeExchange(tab) \/ ServeRefresh(tab)
    \/ \E attempt \in Attempts : UserGrants(attempt) \/ AttemptExpires(attempt)
    \/ \E token \in Tokens : Revoke(token)

Spec == Init /\ [][Next]_vars

-----------------------------------------------------------------------------
(* Properties.                                                              *)

\* Every variable holds a value of its kind, and an operation that presents or
\* stores a token has one.
TypeOK ==
    /\ pending \subseteq Attempts
    /\ stored \in Tokens \cup {NoToken}
    /\ operation \in [Tabs -> Operations]
    /\ leaving \subseteq Tabs
    /\ expired \subseteq Attempts
    /\ code \in [Attempts -> {"none", "asked", "granted", "redeemed"}]
    /\ issued \in Tokens \cup {NoToken}
    /\ valid \subseteq 1..issued
    /\ sent \in [Attempts -> Nat]
    /\ origin \in Tabs \cup {NoTab}
    /\ loggedOut \subseteq Tabs
    /\ disturbed \in BOOLEAN

\* However often and in however many tabs a callback is opened, its code is
\* sent to the provider at most once.
CodeSentOnce == \A attempt \in Attempts : sent[attempt] <= 1

\* A token that a tab obtained does not outlive the tab's own logout, although
\* a transaction that had begun before the logout cannot be aborted.
LogoutForgets ==
    \A tab \in loggedOut : stored # NoToken => origin # tab

\* Unless an answer was lost, an operation interrupted or the sign-in revoked,
\* the stored token is one the provider accepts, or its successor is about to
\* be stored.
StoredTokenUsable ==
    stored \in valid \cup {NoToken}
        \/ disturbed
        \/ \E tab \in Tabs : operation[tab].at \in {"rotated", "storing"}

\* A tab does not delete a usable token that it has itself presented: what it
\* deletes was refused, or is another tab's.
DeletesOnlyRefused ==
    [][\A tab \in Tabs :
          (At(tab, "deleting") /\ stored' # stored /\ operation[tab].token = stored)
             => stored \notin valid]_vars
=============================================================================
