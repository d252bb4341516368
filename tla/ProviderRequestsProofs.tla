----------------------- MODULE ProviderRequestsProofs -----------------------
(***************************************************************************)
(* Proofs about ProviderRequests, for every set of statuses, headers and   *)
(* documents: the parsers return nothing but what the callers are prepared *)
(* for, a pending request is guarded by its timer and its caller and no    *)
(* other is, and the request implements RequestPort.                       *)
(***************************************************************************)
EXTENDS ProviderRequests, TLAPS

-----------------------------------------------------------------------------
(* What the parsers return.                                                 *)

(* A readable list of images gives an artwork of the domain: the first one, *)
(* or the reason why there is none.                                         *)
LEMMA ArtworkPromised ==
    ASSUME NEW document \in Payloads
    PROVE  ArtworkOf(document) \in Artworks
<1>1. document.images \in Seq(ArtworkUrls)
  BY DEF Payloads
<1>2. CASE document.images = <<>>
  BY <1>2 DEF ArtworkOf, Artworks
<1>3. CASE document.images # <<>>
  <2>1. document.images[1] \in ArtworkUrls
    BY <1>1, <1>3
  <2> QED
    BY <2>1 DEF ArtworkOf, Artworks
<1> QED
  BY <1>2, <1>3

(* An item that is shown is readable: createPlaybackSnapshot lets no        *)
(* position pass the duration.                                              *)
LEMMA ItemPromised ==
    ASSUME NEW document \in Payloads
    PROVE  IsPollResult(ParseItem(document))
<1> DEFINE shown == ParseItem(document)
<1>1. \/ shown = WithoutItem("playback-empty")
      \/ shown = WithoutItem("playback-unsupported")
      \/ shown = Failed("malformed-response")
      \/ /\ TimelineReadable(document)
         /\ \E kind \in {"playback-playing", "playback-paused"} :
               shown = Playback(kind, document.item, ArtworkOf(document),
                                [position |-> document.progress, duration |-> document.duration])
  BY DEF ParseItem
<1>2. Failed("malformed-response") \in PollFailures
  BY DEF PollFailures
<1>3. ASSUME TimelineReadable(document), NEW kind \in {"playback-playing", "playback-paused"},
             shown = Playback(kind, document.item, ArtworkOf(document),
                              [position |-> document.progress, duration |-> document.duration])
      PROVE  shown.kind = "playback" /\ ShowsItem(shown)
  <2>1. document.item \in Items
    BY DEF Payloads
  <2>2. 0 <= document.progress /\ document.progress <= document.duration
    BY <1>3 DEF TimelineReadable, Payloads
  <2> QED
    BY <1>3, <2>1, <2>2, ArtworkPromised DEF Playback, ShowsItem, Event
<1>4. WithoutItem("playback-empty").kind = "playback" /\ WithoutItem("playback-unsupported").kind = "playback"
  BY DEF WithoutItem, Playback
<1> QED
  BY <1>1, <1>2, <1>3, <1>4 DEF IsPollResult

(* Whatever a poll's body is.                                               *)
LEMMA BodyPromised ==
    ASSUME NEW document \in Payloads \cup {NotJson}
    PROVE  IsPollResult(BodyResult(document))
<1>1. IsPollResult(Failed("malformed-response"))
  BY DEF IsPollResult, PollFailures
<1>2. IsPollResult(WithoutItem("playback-unsupported"))
  BY DEF IsPollResult, WithoutItem, Playback
<1> QED
  BY <1>1, <1>2, ItemPromised DEF BodyResult, ParsePayload

(* Whatever a poll's status is: no delay longer than a timer can wait comes *)
(* out of a Retry-After header, whatever the unit of the limit.             *)
LEMMA StatusPromised ==
    ASSUME NEW code \in Nat, NEW retryAfter \in RetryHeaders
    PROVE  IsPollResult(StatusResult(code, retryAfter))
<1>1. ParseRetryAfter(retryAfter) \in 0..MaxTimerDelay \cup {NoDelay}
  <2>1. retryAfter.seconds \in Nat /\ MaxTimerDelay \in Nat
    BY AnswersAssumption DEF RetryHeaders
  <2> QED
    BY <2>1 DEF ParseRetryAfter, NoDelay
<1>2. IsPollResult(RateLimited(ParseRetryAfter(retryAfter)))
  BY <1>1 DEF IsPollResult, RateLimited
<1>3. \A kind \in {"empty", "unauthorized", "permission-denied", "server-failure", "unexpected-response"} :
          IsPollResult(Failed(kind))
  BY DEF IsPollResult, PollFailures
<1> QED
  BY <1>2, <1>3 DEF StatusResult

(* Whatever a token response's status and body are: the lifetime is safe    *)
(* and an exchange brings a refresh token.                                  *)
LEMMA TokenPromised ==
    ASSUME NEW c \in {"exchange", "refresh"}, NEW code \in Nat, NEW document \in TokenBodies \cup {NotJson}
    PROVE  IsTokenResult(c, TokenResult(c, code, document))
<1>1. \A kind \in {"authorization-required", "transient-failure", "provider-failure"} :
          IsTokenResult(c, Failed(kind))
  BY DEF IsTokenResult, TokenFailures
<1>2. ASSUME document # NotJson, TokenReadable(c, document)
      PROVE  IsTokenResult(c, Tokens(HasToken(document, "refresh_token"), document.expiresIn))
  <2>1. document.expiresIn \in 1..MaxLifetimeSeconds
    BY <1>2, AnswersAssumption DEF TokenReadable, TokenBodies
  <2>2. HasToken(document, "refresh_token") \/ c = "refresh"
    BY <1>2 DEF TokenReadable
  <2> QED
    BY <2>1, <2>2 DEF IsTokenResult, Tokens
<1> QED
  BY <1>1, <1>2 DEF TokenResult

LEMMA UnreachablePromised ==
    ASSUME NEW c \in Calls
    PROVE  Promised(c, Unreachable(c)) /\ Unreachable(c) # NoResult
BY DEF Calls, Promised, Unreachable, IsPollResult, IsTokenResult, PollFailures, TokenFailures, Failed, NoResult

LEMMA PromisedIsAResult ==
    ASSUME NEW c \in Calls
    PROVE  ~Promised(c, NoResult)
BY DEF Calls, Promised, IsPollResult, IsTokenResult, PollFailures, TokenFailures, Failed, NoResult

-----------------------------------------------------------------------------
(* The state's shape.                                                       *)

LEMMA InitTypeOK == Init => TypeOK
BY DEF Init, TypeOK, Calls, NoCall, NoStatus

(* What the request answers a document with, when it may.                   *)
LEMMA AnsweredPromised ==
    ASSUME TypeOK, stage = "reading", NEW document \in Documents
    PROVE  Promised(call, Answered(document))
<1>1. call \in Calls
  BY DEF TypeOK, NoCall, Calls
<1>2. CASE call = "poll"
  <2>1. document \in Payloads \cup {NotJson}
    BY <1>2, RequestsAssumption DEF Documents
  <2> QED
    BY <1>2, <2>1, BodyPromised DEF Answered, Promised
<1>3. CASE call \in {"exchange", "refresh"}
  <2>1. document \in TokenBodies \cup {NotJson}
    BY <1>3, RequestsAssumption DEF Documents
  <2>2. status \in Nat
    BY RequestsAssumption DEF TypeOK, NoStatus
  <2> QED
    BY <1>3, <2>1, <2>2, TokenPromised DEF Answered, Promised
<1> QED
  BY <1>1, <1>2, <1>3 DEF Calls

LEMMA NextTypeOK == TypeOK /\ [Next]_vars => TypeOK'
<1> SUFFICES ASSUME TypeOK, [Next]_vars PROVE TypeOK'
  OBVIOUS
<1> USE DEF TypeOK
<1>0. stage \in {"fetching", "reading"} => call \in Calls
  BY DEF NoCall
<1>1. ASSUME NEW c \in Calls, Ask(c) \/ AskAborted(c) PROVE TypeOK'
  BY <1>1 DEF Ask, AskAborted, Calls, NoCall
<1>2. ASSUME NEW c \in Calls, AskWithoutTimer(c) PROVE TypeOK'
  BY <1>2, UnreachablePromised DEF AskWithoutTimer, Dispose, Calls, NoCall
<1>3. CASE AbortCaller
  BY <1>3 DEF AbortCaller, Dispose, deadline
<1>4. CASE DeadlineExpires
  BY <1>4 DEF DeadlineExpires, Dispose
<1>5. CASE FetchRejected \/ ResponseTooLate
  BY <1>0, <1>5, UnreachablePromised DEF FetchRejected, ResponseTooLate, SettleWith, Dispose, NoCall, Calls
<1>6. ASSUME NEW code \in Statuses, NEW retryAfter \in RetryAfters, PollAnsweredByStatus(code, retryAfter)
      PROVE  TypeOK'
  <2>1. code \in Nat /\ retryAfter \in RetryHeaders
    BY RequestsAssumption
  <2>2. Promised("poll", StatusResult(code, retryAfter))
    BY <2>1, StatusPromised DEF Promised
  <2> QED
    BY <1>6, <2>2 DEF PollAnsweredByStatus, SettleWith, Dispose, NoCall, Calls
<1>7. ASSUME NEW code \in Statuses, ReadBody(code) PROVE TypeOK'
  BY <1>7 DEF ReadBody, deadline
<1>8. ASSUME NEW document \in Documents, BodyRead(document) PROVE TypeOK'
  BY <1>0, <1>8, AnsweredPromised, UnreachablePromised DEF BodyRead, SettleWith, Dispose, NoCall, Calls
<1>9. CASE Deliver
  BY <1>9 DEF Deliver, NoCall
<1>10. CASE UNCHANGED vars
  BY <1>10 DEF vars, deadline
<1> QED
  BY <1>1, <1>2, <1>3, <1>4, <1>5, <1>6, <1>7, <1>8, <1>9, <1>10 DEF Next, Respond, ReadingEnds

(* The request's state keeps its shape, and what it is answered with is     *)
(* always something the caller is prepared for.                             *)
THEOREM TypeCorrect == Spec => []TypeOK
<1> QED
  BY InitTypeOK, NextTypeOK, PTL DEF Spec

-----------------------------------------------------------------------------
(* The deadline.                                                            *)

LEMMA NextGuarded ==
    TypeOK /\ GuardedWhilePending /\ [Next]_vars => GuardedWhilePending'
<1> SUFFICES ASSUME TypeOK, GuardedWhilePending, [Next]_vars PROVE GuardedWhilePending'
  OBVIOUS
<1> USE DEF GuardedWhilePending
<1>0. call = NoCall <=> stage = "idle"
  BY DEF TypeOK
<1>1. ASSUME NEW c \in Calls, Ask(c) \/ AskAborted(c) \/ AskWithoutTimer(c) PROVE GuardedWhilePending'
  BY <1>0, <1>1 DEF Ask, AskAborted, AskWithoutTimer, Dispose
<1>2. CASE AbortCaller
  BY <1>2 DEF AbortCaller, Dispose, deadline
<1>3. CASE DeadlineExpires
  BY <1>3 DEF DeadlineExpires, Dispose
<1>4. ASSUME NEW answer, SettleWith(answer) PROVE GuardedWhilePending'
  BY <1>4 DEF SettleWith, Dispose
<1>5. ASSUME NEW code \in Statuses, ReadBody(code) PROVE GuardedWhilePending'
  BY <1>5 DEF ReadBody, deadline
<1>6. CASE Deliver
  BY <1>6 DEF Deliver
<1>7. CASE UNCHANGED vars
  BY <1>7 DEF vars, deadline
<1> QED
  BY <1>1, <1>2, <1>3, <1>4, <1>5, <1>6, <1>7
     DEF Next, Respond, ReadingEnds, FetchRejected, ResponseTooLate, PollAnsweredByStatus, BodyRead

(* The timer is set and the caller is listened to exactly while the request *)
(* is pending (request-deadline.ts, cleanup), whatever ends it.             *)
THEOREM GuardedWhilePendingTheorem == Spec => []GuardedWhilePending
<1>1. Init => GuardedWhilePending
  BY DEF Init, GuardedWhilePending
<1> QED
  BY <1>1, NextGuarded, TypeCorrect, PTL DEF Spec

-----------------------------------------------------------------------------
(* The refinement.                                                          *)

LEMMA SameWords ==
    /\ Port!Calls = Calls /\ Port!NoCall = NoCall /\ Port!NoResult = NoResult
    /\ \A c : Port!Unreachable(c) = Unreachable(c)
    /\ \A c, r : Port!Promised(c, r) = Promised(c, r)
BY DEF Port!Calls, Calls, Port!NoCall, NoCall, Port!NoResult, NoResult, Port!Failed, Failed,
       Port!Unreachable, Unreachable, Port!Promised, Promised, Port!IsPollResult, IsPollResult,
       Port!IsTokenResult, IsTokenResult, Port!PollFailures, PollFailures, Port!NoDelay, NoDelay,
       Port!TokenFailures, TokenFailures, Port!WithoutItem, WithoutItem, Port!Playback, Playback,
       Port!NoTimeline, NoTimeline, Port!Event, Event, Port!NoDetail, NoDetail,
       Port!ShowsItem, ShowsItem, Port!Artworks, Artworks

(* A request that settles returns, in the port's words.                     *)
LEMMA SettlingReturns ==
    ASSUME TypeOK, stage \in {"fetching", "reading"}, NEW answer, SettleWith(answer),
           Promised(call, answer), outcome # "active" => answer = Unreachable(call)
    PROVE  Port!Return
<1>1. call \in Calls /\ call # NoCall /\ result = NoResult
  BY DEF TypeOK
<1> QED
  BY <1>1, SameWords DEF SettleWith, Port!Return

LEMMA StepImplementsPort ==
    ASSUME TypeOK, GuardedWhilePending, [Next]_vars
    PROVE  [Port!Next]_(Port!vars)
<1> USE DEF Port!vars, Port!Next
<1>0. /\ call = NoCall <=> stage = "idle"
      /\ call \in Calls \cup {NoCall}
      /\ stage # "settled" => result = NoResult
      /\ stage = "settled" => call \in Calls /\ result # NoResult
  BY PromisedIsAResult DEF TypeOK
<1>1. ASSUME NEW c \in Calls, Ask(c) \/ AskAborted(c) \/ AskWithoutTimer(c) PROVE Port!Ask
  BY <1>0, <1>1, SameWords DEF Ask, AskAborted, AskWithoutTimer, Port!Ask
<1>2. ASSUME outcome = "active", armed \/ observing, outcome' \in {"caller-aborted", "deadline-expired"},
             UNCHANGED <<call, result>>
      PROVE  Port!End
  BY <1>0, <1>2, SameWords DEF GuardedWhilePending, Port!End
<1>3. CASE AbortCaller
  <2>1. CASE observing /\ outcome = "active"
    BY <1>2, <1>3, <2>1 DEF AbortCaller
  <2>2. CASE ~(observing /\ outcome = "active")
    BY <1>3, <2>2 DEF AbortCaller, deadline
  <2> QED
    BY <2>1, <2>2
<1>4. CASE DeadlineExpires
  BY <1>2, <1>4 DEF DeadlineExpires
<1>5. CASE FetchRejected \/ ResponseTooLate
  BY <1>0, <1>5, SettlingReturns, UnreachablePromised DEF FetchRejected, ResponseTooLate
<1>6. ASSUME NEW code \in Statuses, NEW retryAfter \in RetryAfters, PollAnsweredByStatus(code, retryAfter)
      PROVE  Port!Return
  <2>1. Promised("poll", StatusResult(code, retryAfter))
    BY StatusPromised, RequestsAssumption DEF Promised
  <2> QED
    BY <1>6, <2>1, SettlingReturns DEF PollAnsweredByStatus
<1>7. ASSUME NEW code \in Statuses, ReadBody(code) PROVE UNCHANGED Port!vars
  BY <1>7 DEF ReadBody, deadline
<1>8. ASSUME NEW document \in Documents, BodyRead(document) PROVE Port!Return
  <2>1. stage = "reading" /\ call \in Calls
    BY <1>0, <1>8 DEF BodyRead
  <2>2. CASE outcome = "active"
    BY <1>8, <2>1, <2>2, AnsweredPromised, SettlingReturns DEF BodyRead
  <2>3. CASE outcome # "active"
    BY <1>8, <2>1, <2>3, UnreachablePromised, SettlingReturns DEF BodyRead
  <2> QED
    BY <2>2, <2>3
<1>9. CASE Deliver
  <2>1. result # NoResult
    BY <1>0, <1>9 DEF Deliver
  <2> QED
    BY <1>9, <2>1, SameWords DEF Deliver, Port!Take, Port!Init
<1>10. CASE UNCHANGED vars
  BY <1>10 DEF vars, deadline
<1> QED
  BY <1>1, <1>3, <1>4, <1>5, <1>6, <1>7, <1>8, <1>9, <1>10 DEF Next, Respond, ReadingEnds

(* A request has one answer, one its caller is prepared for, and none but   *)
(* "no answer" once it is over, whatever statuses, headers and documents    *)
(* the network brings, and when.                                            *)
THEOREM RequestPortImplemented == Spec => ImplementsRequestPort
<1>1. Init => Port!Init
  BY SameWords DEF Init, Port!Init
<1>2. TypeOK /\ GuardedWhilePending /\ [Next]_vars => [Port!Next]_(Port!vars)
  BY StepImplementsPort
<1> QED
  BY <1>1, <1>2, TypeCorrect, GuardedWhilePendingTheorem, PTL DEF Spec, ImplementsRequestPort, Port!Spec
=============================================================================
