-------------------------- MODULE ProviderRequests --------------------------
(***************************************************************************)
(* One request of the worker to the provider, from the call to its result: *)
(* a poll (providers/spotify.ts) or a token request, of a sign-in's code   *)
(* or of a refresh (auth/spotify-auth-fetch.ts, auth/token.ts), under a    *)
(* deadline (request-deadline.ts) that combines a timer and the caller's   *)
(* own abort signal.                                                       *)
(*                                                                         *)
(* A request awaits twice, for the response's headers and for its body.    *)
(* The timer, the abort and the network interleave with both; an awaited   *)
(* promise that was already resolved is still taken after the abort.  Time *)
(* is not counted: a timer that is armed may fire.  Requests share nothing *)
(* but the code, so one at a time is enough.                               *)
(***************************************************************************)
EXTENDS SpotifyAnswers

CONSTANTS
    Statuses,            \* of the responses considered
    RetryAfters,         \* the Retry-After headers considered
    PollDocuments,       \* what a poll's body can be
    TokenDocuments       \* what a token response's body can be

ASSUME RequestsAssumption ==
    /\ Statuses \subseteq Nat
    /\ RetryAfters \subseteq RetryHeaders
    /\ PollDocuments \subseteq Payloads
    /\ TokenDocuments \subseteq TokenBodies

VARIABLES
    call,         \* which request, if any
    caller,       \* whether the caller's signal is aborted: live or aborted
    stage,        \* idle, fetching (headers), reading (body) or settled
    outcome,      \* the deadline's: active, caller-aborted or deadline-expired
    armed,        \* its timer is set
    observing,    \* it listens to the caller's signal
    status,       \* of the response whose body is read
    result        \* what the caller is about to be told

deadline == <<outcome, armed, observing>>
vars == <<call, caller, stage, deadline, status, result>>

Calls == {"poll", "exchange", "refresh"}

NoCall == "none"
NoStatus == 0

Init ==
    /\ call = NoCall
    /\ caller = "live"
    /\ stage = "idle"
    /\ outcome = "active"
    /\ armed = FALSE
    /\ observing = FALSE
    /\ status = NoStatus
    /\ result = NoResult

\* The deadline's cleanup, which dispose is too.
Dispose == armed' = FALSE /\ observing' = FALSE

SettleWith(answer) ==
    /\ stage' = "settled"
    /\ result' = answer
    /\ status' = NoStatus
    /\ Dispose
    /\ UNCHANGED <<call, caller, outcome>>

-----------------------------------------------------------------------------
(* The call and its deadline.                                               *)

\* createBrowserRequestDeadline and the call of fetch.
Ask(c) ==
    /\ call = NoCall
    /\ call' = c
    /\ caller' = "live"
    /\ stage' = "fetching"
    /\ outcome' = "active"
    /\ armed' = TRUE
    /\ observing' = TRUE
    /\ UNCHANGED <<status, result>>

\* The caller's signal is aborted already: fetch is called all the same, with
\* a signal that is.
AskAborted(c) ==
    /\ call = NoCall
    /\ call' = c
    /\ caller' = "aborted"
    /\ stage' = "fetching"
    /\ outcome' = "caller-aborted"
    /\ UNCHANGED <<armed, observing, status, result>>

\* The platform refuses the timer: nothing is fetched.
AskWithoutTimer(c) ==
    /\ call = NoCall
    /\ call' = c
    /\ caller' = "live"
    /\ stage' = "settled"
    /\ result' = Unreachable(c)
    /\ outcome' = "active"
    /\ Dispose
    /\ UNCHANGED status

\* abortForCaller, when the deadline still listens.
AbortCaller ==
    /\ call # NoCall
    /\ caller = "live"
    /\ caller' = "aborted"
    /\ IF observing /\ outcome = "active"
       THEN outcome' = "caller-aborted" /\ Dispose
       ELSE UNCHANGED deadline
    /\ UNCHANGED <<call, stage, status, result>>

\* expireDeadline.
DeadlineExpires ==
    /\ armed
    /\ outcome = "active"
    /\ outcome' = "deadline-expired"
    /\ Dispose
    /\ UNCHANGED <<call, caller, stage, status, result>>

-----------------------------------------------------------------------------
(* The answers of the network.                                              *)

\* The connection fails, or fetch honours the abort.
FetchRejected ==
    /\ stage = "fetching"
    /\ SettleWith(Unreachable(call))

\* A response that is already there when the request is over is not looked at.
ResponseTooLate ==
    /\ stage = "fetching"
    /\ outcome # "active"
    /\ SettleWith(Unreachable(call))

\* A poll needs the body of a 200 only.
PollAnsweredByStatus(code, retryAfter) ==
    /\ stage = "fetching" /\ call = "poll"
    /\ outcome = "active"
    /\ code # 200
    /\ SettleWith(StatusResult(code, retryAfter))

\* Slip: the deadline is given up as soon as there are headers.
ReadBodyUntimed(code) ==
    /\ stage = "fetching"
    /\ outcome = "active"
    /\ call = "poll" => code = 200
    /\ stage' = "reading"
    /\ status' = code
    /\ Dispose
    /\ UNCHANGED <<call, caller, outcome, result>>

ReadBody(code) ==
    /\ stage = "fetching"
    /\ outcome = "active"
    /\ call = "poll" => code = 200
    /\ stage' = "reading"
    /\ status' = code
    /\ UNCHANGED <<call, caller, deadline, result>>

\* What a body says, to the request that asked for it.
Answered(document) ==
    IF call = "poll" THEN BodyResult(document) ELSE TokenResult(call, status, document)

\* Slip: a body that comes after the deadline is taken for an answer.
BodyReadUnchecked(document) ==
    /\ stage = "reading"
    /\ SettleWith(Answered(document))

\* Slip: the body's answer leaves the timer set.
BodyReadKeepsTimer(document) ==
    /\ stage = "reading"
    /\ stage' = "settled"
    /\ result' = IF outcome = "active" THEN Answered(document) ELSE Unreachable(call)
    /\ status' = NoStatus
    /\ UNCHANGED <<call, caller, deadline>>

\* The body is there, is no JSON, or broke off.
BodyRead(document) ==
    /\ stage = "reading"
    /\ SettleWith(IF outcome = "active" THEN Answered(document) ELSE Unreachable(call))

\* The caller's continuation runs.
Deliver ==
    /\ stage = "settled"
    /\ call' = NoCall
    /\ caller' = "live"
    /\ stage' = "idle"
    /\ outcome' = "active"
    /\ result' = NoResult
    /\ UNCHANGED <<armed, observing, status>>

-----------------------------------------------------------------------------
Documents == (IF call = "poll" THEN PollDocuments ELSE TokenDocuments) \cup {NotJson}

Respond ==
    \/ ResponseTooLate
    \/ \E code \in Statuses :
          \/ \E retryAfter \in RetryAfters : PollAnsweredByStatus(code, retryAfter)
          \/ ReadBody(code)

ReadingEnds == \E document \in Documents : BodyRead(document)

Next ==
    \/ \E c \in Calls : Ask(c) \/ AskAborted(c) \/ AskWithoutTimer(c)
    \/ AbortCaller
    \/ DeadlineExpires
    \/ FetchRejected
    \/ Respond
    \/ ReadingEnds
    \/ Deliver

Spec == Init /\ [][Next]_vars

(***************************************************************************)
(* The platform's timers fire and continuations run.  The network owes     *)
(* nothing: only a request whose signal is aborted is known to end, since  *)
(* fetch and the body's reading honour it.                                 *)
(***************************************************************************)
FairSpec ==
    /\ Spec
    /\ WF_vars(DeadlineExpires)
    /\ WF_vars(outcome # "active" /\ FetchRejected)
    /\ WF_vars(outcome # "active" /\ ReadingEnds)
    /\ WF_vars(Deliver)

-----------------------------------------------------------------------------
(* Properties.                                                              *)

\* The state's shape; a result is NoResult until the request is settled.
TypeOK ==
    /\ call \in Calls \cup {NoCall}
    /\ caller \in {"live", "aborted"}
    /\ stage \in {"idle", "fetching", "reading", "settled"}
    /\ outcome \in {"active", "caller-aborted", "deadline-expired"}
    /\ armed \in BOOLEAN /\ observing \in BOOLEAN
    /\ status \in Statuses \cup {NoStatus}
    /\ call = NoCall <=> stage = "idle"
    /\ stage # "settled" => result = NoResult
    /\ stage = "settled" => Promised(call, result)

(***************************************************************************)
(* A pending request can be ended, by its timer and by its caller, for as  *)
(* long as neither has; and a request that is over or answered leaves no   *)
(* timer and no listener on the operation's signal behind, whichever of    *)
(* the answer, the abort, the deadline and a refused timer came first      *)
(* (cleanup in request-deadline.ts and its callers' finally blocks).       *)
(***************************************************************************)
GuardedWhilePending ==
    LET pending == stage \in {"fetching", "reading"} /\ outcome = "active"
    IN  armed = pending /\ observing = pending

(***************************************************************************)
(* The request implements RequestPort: it is answered once, with a result  *)
(* its caller is prepared for, and after an abort or the deadline only     *)
(* with "no answer", although the response or its body may still arrive.   *)
(***************************************************************************)
Port == INSTANCE RequestPort WITH over <- outcome # "active"

ImplementsRequestPort == Port!Spec

(***************************************************************************)
(* Every request comes to an end although the network may never answer,    *)
(* be it the headers or the body that do not come: the worker's queue      *)
(* behind it is not held up (worker/runtime.ts, enqueue).                  *)
(***************************************************************************)
EveryRequestEnds == stage \in {"fetching", "reading"} ~> stage = "settled"
=============================================================================
