--------------------------- MODULE SpotifyAnswers ---------------------------
(***************************************************************************)
(* What the display makes of the provider's answers: of a poll             *)
(* (apps/web/src/browser/providers) and of a token request                 *)
(* (apps/web/src/browser/auth/token.ts).                                   *)
(*                                                                         *)
(* A JSON document is known by the form each of its fields has, and by the *)
(* values the parsers compare.  A form is what a validation can tell apart *)
(* of a value; a link's field is the URL itself, so that its form is       *)
(* "missing" also when the object around it is missing or is no object.    *)
(***************************************************************************)
EXTENDS PlaybackDomain, Integers, Sequences

CONSTANTS
    ArtworkUrls,           \* what the images of an album or episode can be
    MaxTimerDelay,         \* maximumPlatformTimerDelayMilliseconds
    MaxLifetimeSeconds     \* of an access token, so that milliseconds are safe

ASSUME AnswersAssumption ==
    /\ MaxTimerDelay \in Nat
    /\ MaxLifetimeSeconds \in Nat

Forms ==
    {"missing", "null", "boolean", "integer", "number", "blank", "padded", "text", "url",
     "array", "empty-array", "object"}

\* The forms each validation lets pass; whether an integer is in range is
\* asked where it is used.  Display texts may be padded, tokens may not.
Accepted ==
    [object |-> {"object"}, boolean |-> {"boolean"}, integer |-> {"integer"},
     array |-> {"array", "empty-array"}, creators |-> {"array"},
     text |-> {"padded", "text", "url"}, url |-> {"url"}, token |-> {"text", "url"}]

-----------------------------------------------------------------------------
(* A poll's document.                                                       *)

PayloadFields ==
    {"$", "currently_playing_type", "is_playing", "item", "progress_ms", "is_local", "id", "name",
     "duration_ms", "link", "images", "artists", "artist.name", "artist.link", "album", "album.id",
     "album.name", "album.link", "show", "show.id", "show.name", "show.publisher", "show.link"}

Payloads ==
    [form : [PayloadFields -> Forms], type : {"track", "episode", "ad", "other"},
     playing : BOOLEAN, local : BOOLEAN, item : Items, progress : Int, duration : Int,
     images : Seq(ArtworkUrls)]

NeedOf(field) ==
    CASE field \in {"$", "item", "album", "show"} -> "object"
      [] field \in {"is_playing", "is_local"} -> "boolean"
      [] field \in {"progress_ms", "duration_ms"} -> "integer"
      [] field = "images" -> "array"
      [] field = "artists" -> "creators"
      [] field \in {"link", "artist.link", "album.link", "show.link"} -> "url"
      [] OTHER -> "text"

Readable(payload, fields) ==
    \A field \in fields : payload.form[field] \in Accepted[NeedOf(field)]

\* parseTrackItem and parseEpisodeItem: every part is required.
ItemFields(type) ==
    {"id", "name", "images", "link"}
        \cup (IF type = "track"
              THEN {"artists", "artist.name", "artist.link", "album", "album.id", "album.name", "album.link"}
              ELSE {"show", "show.id", "show.name", "show.publisher", "show.link"})

\* createPlaybackSnapshot, after position and duration have been validated.
TimelineReadable(payload) ==
    /\ Readable(payload, {"progress_ms", "duration_ms"})
    /\ payload.progress >= 0 /\ payload.duration >= 0
    /\ payload.progress <= payload.duration

\* parseArtwork: images holds the valid ones in the provider's order, which is
\* from large to small; the large one is asked for.
ArtworkOf(payload) ==
    IF payload.form["images"] = "empty-array" THEN "provider-did-not-supply-artwork"
    ELSE IF payload.images = <<>> THEN "provider-artwork-is-invalid"
    ELSE payload.images[1]

\* What a poll reports; without an item there is neither artwork nor timeline.
NoTimeline == [position |-> 0, duration |-> 0]

Playback(kind, detail, artwork, timeline) ==
    [kind |-> "playback", event |-> Event(kind, detail), artwork |-> artwork, timeline |-> timeline]

WithoutItem(kind) == Playback(kind, NoDetail, NoDetail, NoTimeline)

Failed(kind) == [kind |-> kind]

\* parseTrackPlayback and parseEpisodePlayback.
ParseItem(payload) ==
    IF payload.form["item"] = "null" THEN WithoutItem("playback-empty")
    ELSE IF \/ ~Readable(payload, {"item"})
            \/ payload.type = "track" /\ ~Readable(payload, {"is_local"})
    THEN Failed("malformed-response")
    ELSE IF payload.type = "track" /\ payload.local THEN WithoutItem("playback-unsupported")
    ELSE IF ~Readable(payload, ItemFields(payload.type)) \/ ~TimelineReadable(payload)
    THEN Failed("malformed-response")
    ELSE Playback(IF payload.playing THEN "playback-playing" ELSE "playback-paused",
                  payload.item, ArtworkOf(payload),
                  [position |-> payload.progress, duration |-> payload.duration])

\* parseSpotifyPlaybackPayload: what is neither a track nor an episode is not
\* looked into, but its item must be there.
ParsePayload(payload) ==
    IF \/ ~Readable(payload, {"$", "currently_playing_type", "is_playing"})
       \/ payload.form["item"] = "missing"
    THEN Failed("malformed-response")
    ELSE IF payload.type \in {"ad", "other"} THEN WithoutItem("playback-unsupported")
    ELSE ParseItem(payload)

-----------------------------------------------------------------------------
(* A poll's answer: fetchCurrentlyPlaying once the response is there.       *)

\* A body that is no JSON.
NotJson == [form |-> "not-json"]

\* The Retry-After header: a canonical decimal number, or anything else.
RetryHeaders == [form : {"seconds", "other"}, seconds : Nat]

NoDelay == -1

\* parseRetryAfter: only what the platform's timers can wait, in milliseconds.
ParseRetryAfter(header) ==
    IF header.form = "seconds" /\ header.seconds <= MaxTimerDelay \div 1000
    THEN header.seconds * 1000
    ELSE NoDelay

RateLimited(delay) == [kind |-> "rate-limited", delay |-> delay]

\* Every status but 200 is answered without the body.
StatusResult(status, retryAfter) ==
    CASE status = 204 -> Failed("empty")
      [] status = 401 -> Failed("unauthorized")
      [] status = 403 -> Failed("permission-denied")
      [] status = 429 -> RateLimited(ParseRetryAfter(retryAfter))
      [] status \in 500..599 -> Failed("server-failure")
      [] OTHER -> Failed("unexpected-response")

BodyResult(document) ==
    IF document = NotJson THEN Failed("malformed-response") ELSE ParsePayload(document)

PollFailures ==
    {Failed(kind) : kind \in {"empty", "malformed-response", "network-failure", "permission-denied",
                              "server-failure", "unauthorized", "unexpected-response"}}

Artworks == ArtworkUrls \cup {"provider-did-not-supply-artwork", "provider-artwork-is-invalid"}

(***************************************************************************)
(* What the worker is prepared to hear of a poll (PlaybackProviderResult): *)
(* a delay its timers can wait, an item of the domain with an artwork and  *)
(* a position that does not exceed the duration, or a plain kind.          *)
(***************************************************************************)
ShowsItem(result) ==
    /\ result.event.kind \in {"playback-playing", "playback-paused"}
    /\ result.event.detail \in Items
    /\ result.artwork \in Artworks
    /\ 0 <= result.timeline.position /\ result.timeline.position <= result.timeline.duration

IsPollResult(result) ==
    \/ result \in PollFailures
    \/ result.kind = "rate-limited" /\ result.delay \in 0..MaxTimerDelay \cup {NoDelay}
    \/ /\ result.kind = "playback"
       /\ \/ result \in {WithoutItem("playback-empty"), WithoutItem("playback-unsupported")}
          \/ ShowsItem(result)

-----------------------------------------------------------------------------
(* A token request's answer: requestSpotifyToken and the two parsers.       *)

TokenFields == {"$", "access_token", "expires_in", "refresh_token"}

TokenBodies ==
    [form : [TokenFields -> Forms], expiresIn : Int, invalidGrant : BOOLEAN]

HasToken(document, field) == document.form[field] \in Accepted.token

\* The code's exchange must bring a refresh token; a refresh may keep the old.
TokenReadable(call, document) ==
    /\ document.form["$"] = "object"
    /\ HasToken(document, "access_token")
    /\ document.form["expires_in"] = "integer"
    /\ document.expiresIn > 0 /\ document.expiresIn <= MaxLifetimeSeconds
    /\ \/ HasToken(document, "refresh_token")
       \/ call = "refresh" /\ document.form["refresh_token"] = "missing"

IsTransientHttpStatus(status) == status \in {408, 429} \/ status >= 500
IsSuccessfulHttpStatus(status) == status \in 200..299

Tokens(rotated, lifetime) == [kind |-> "success", rotated |-> rotated, lifetime |-> lifetime]

\* requestSpotifyToken looks at the status before it looks at the body it read.
TokenResult(call, status, document) ==
    IF IsTransientHttpStatus(status) THEN Failed("transient-failure")
    ELSE IF document = NotJson THEN Failed("provider-failure")
    ELSE IF ~IsSuccessfulHttpStatus(status)
    THEN Failed(IF document.form["$"] = "object" /\ document.invalidGrant
                THEN "authorization-required" ELSE "provider-failure")
    ELSE IF TokenReadable(call, document)
    THEN Tokens(HasToken(document, "refresh_token"), document.expiresIn)
    ELSE Failed("provider-failure")

TokenFailures ==
    {Failed(kind) : kind \in {"authorization-required", "transient-failure", "provider-failure"}}

(***************************************************************************)
(* What the session is prepared to hear of a token request: a lifetime     *)
(* that is positive and safe in milliseconds, with a refresh token unless  *)
(* a refresh keeps the one it has.                                         *)
(***************************************************************************)
IsTokenResult(call, result) ==
    \/ result \in TokenFailures
    \/ /\ result.kind = "success"
       /\ result.lifetime \in 1..MaxLifetimeSeconds
       /\ result.rotated \/ call = "refresh"

-----------------------------------------------------------------------------
(* Both.                                                                    *)

NoResult == Failed("none")

\* networkFailure of a poll; a token request makes a transient failure of it.
Unreachable(call) ==
    Failed(IF call = "poll" THEN "network-failure" ELSE "transient-failure")

Promised(call, result) ==
    IF call = "poll" THEN IsPollResult(result) ELSE IsTokenResult(call, result)
=============================================================================
