---------------------------- MODULE NativeSnapshot ----------------------------
(***************************************************************************)
(* What the native process observes and serves: the collector of the Linux *)
(* build (platform/linux_mpris.rs), the choice of one source among those   *)
(* it finds (phrasic-core), the artwork loader with its one-entry cache    *)
(* (platform/linux_artwork.rs), and the read model that the generated      *)
(* service answers from (phrasic-rpc, service.rs).  What a browser takes   *)
(* the answers for is LocalAnswer's.                                       *)
(*                                                                         *)
(* The collector refreshes on every signal and every second.  A refresh is *)
(* not a snapshot of the session bus: names are listed first, then one     *)
(* player after another is asked, its status before its metadata, while    *)
(* players come, go, change and hang, and while the bus itself may fail.   *)
(***************************************************************************)
EXTENDS Naturals, FiniteSets, LocalAnswer

CONSTANTS
    Players,        \* bus names with the MPRIS prefix
    NoPlayer,
    Pins,           \* what the command line may say: a source, or NoPlayer
    Activities,     \* what PlaybackStatus may say: Playing, Paused, Stopped, other
    Tracks,         \* metadata a player may report
    NoTrack,        \* empty metadata
    ArtOf,          \* the mpris:artUrl of a track's metadata
    NoArt,
    LastRevision,   \* u64::MAX
    MaxChanges      \* bound: what happens to the bus and its players

ASSUME SnapshotAssumption ==
    /\ IsFiniteSet(Players) /\ NoPlayer \notin Players
    /\ Pins \subseteq Players \cup {NoPlayer}
    /\ Activities \subseteq ReadableActivities \cup {"other"}
    /\ NoTrack \notin Tracks
    /\ ArtOf \in [Tracks \cup {NoTrack} -> {ArtOf[track] : track \in Tracks} \cup {NoArt}]
    /\ ArtOf[NoTrack] = NoArt
    /\ LastRevision \in Nat /\ MaxChanges \in Nat

VARIABLES
    strictPin,      \* the source named on the command line, or NoPlayer
    player,         \* per name: its state on the bus
    bus,            \* the session bus: up, hung (accepts, answers nothing) or down
    link,           \* the collector's connection: none, live or broken
    changes,        \* how many changes of player and bus so far
    phase,          \* where the collector is
    toRead,         \* the names of this refresh not yet asked
    half,           \* the player whose status, but not metadata, has been read
    candidate,      \* per name: what this refresh read of it
    cached,         \* the URL of the artwork in the loader's cache, or NoArt
    snapshot,       \* what SnapshotState serves
    revision,       \* its revision
    shutdown,       \* the collector's cancellation token
    during          \* history: per name, its states since this refresh began

worldVars == <<player, bus, changes, during>>
refreshVars == <<toRead, half, candidate>>
servedVars == <<snapshot, revision>>
vars == <<strictPin, worldVars, link, phase, refreshVars, cached, servedVars, shutdown>>

Phases == {"starting", "connecting", "listing", "reading", "loading", "idle", "waiting", "stopped"}

Absent == [hung |-> FALSE, activity |-> "none", track |-> NoTrack]

NotRefreshing == [name \in Players |-> {}]

PlayerStates == {Absent} \cup [hung : BOOLEAN, activity : Activities, track : Tracks]

\* MprisCandidate; a name that was not read, or was skipped, is Skipped.
Skipped == [activity |-> "none", track |-> NoTrack]

Unread == [name \in Players |-> Skipped]

Unavailable(reason) ==
    [kind |-> "unavailable", reason |-> reason, source |-> NoPlayer, activity |-> "none",
     track |-> NoTrack, artwork |-> NoArt]

Ambiguous(reason) == [Unavailable(reason) EXCEPT !.kind = "ambiguous"]

Selected(name, reason, artwork) ==
    [kind |-> "available", reason |-> reason, source |-> name,
     activity |-> candidate[name].activity, track |-> candidate[name].track,
     artwork |-> artwork]

SessionUnavailable == Unavailable("native-session")

\* The response that a snapshot is served as; "stale" is never one of them.
Served ==
    [capability |-> IF snapshot.reason = "native-session" THEN "native-session-unavailable" ELSE "available",
     outcome |-> snapshot.kind, reason |-> snapshot.reason, activity |-> snapshot.activity,
     olderThanClock |-> FALSE]

Init ==
    /\ strictPin \in Pins
    /\ player \in [Players -> {state \in PlayerStates : ~state.hung}]
    /\ bus = "up"
    /\ link = "none"
    /\ changes = 0
    /\ phase = "starting"
    /\ toRead = {}
    /\ half = NoPlayer
    /\ candidate = Unread
    /\ cached = NoArt
    /\ snapshot = SessionUnavailable
    /\ revision = 0
    /\ shutdown = FALSE
    /\ during = NotRefreshing

-----------------------------------------------------------------------------
(* The session bus and its players.                                         *)

\* A player appears or disappears, hangs or answers again, or one of its
\* properties changes.
Successors(state) ==
    IF state = Absent THEN {next \in PlayerStates \ {Absent} : ~next.hung}
    ELSE {Absent, [state EXCEPT !.hung = ~@]}
         \cup {[state EXCEPT !.activity = activity] : activity \in Activities \ {state.activity}}
         \cup {[state EXCEPT !.track = track] : track \in Tracks \ {state.track}}

PlayerChanges(name) ==
    /\ changes < MaxChanges /\ changes' = changes + 1
    /\ \E state \in Successors(player[name]) :
          /\ player' = [player EXCEPT ![name] = state]
          /\ during' = IF during = NotRefreshing THEN during
                       ELSE [during EXCEPT ![name] = @ \cup {state}]
    /\ UNCHANGED <<strictPin, bus, link, phase, refreshVars, cached, servedVars, shutdown>>

BusChanges ==
    /\ changes < MaxChanges /\ changes' = changes + 1
    /\ bus' \in {"up", "hung", "down"} \ {bus}
    /\ link' = IF bus' = "down" /\ link = "live" THEN "broken" ELSE link
    /\ UNCHANGED <<strictPin, player, during, phase, refreshVars, cached, servedVars, shutdown>>

Cancel ==
    /\ ~shutdown
    /\ shutdown' = TRUE
    /\ UNCHANGED <<strictPin, worldVars, link, phase, refreshVars, cached, servedVars>>

-----------------------------------------------------------------------------
(* The read model: SnapshotState.                                           *)

\* replace; what the refresh has read goes out of scope with it.
Replace(response) ==
    /\ snapshot' = response
    /\ revision' = IF revision = LastRevision THEN revision ELSE revision + 1
    /\ candidate' = Unread
    /\ during' = NotRefreshing

-----------------------------------------------------------------------------
(* The connection: run and drive_connection.                                *)

\* Slip: the token is looked at between refreshes only.
StopWhenIdle ==
    /\ shutdown
    /\ phase = "idle"
    /\ phase' = "stopped"
    /\ link' = "none"
    /\ UNCHANGED <<strictPin, worldVars, refreshVars, cached, servedVars, shutdown>>

Stop ==
    /\ shutdown
    /\ phase \in {"starting", "idle", "waiting"}
    /\ phase' = "stopped"
    /\ link' = "none"
    /\ UNCHANGED <<strictPin, worldVars, refreshVars, cached, servedVars, shutdown>>

BeginConnecting ==
    /\ phase = "starting" /\ ~shutdown
    /\ phase' = "connecting"
    /\ UNCHANGED <<strictPin, worldVars, link, refreshVars, cached, servedVars, shutdown>>

\* Each connection has a loader of its own.
Connect ==
    /\ phase = "connecting" /\ bus = "up"
    /\ phase' = "listing"
    /\ link' = "live"
    /\ cached' = NoArt
    /\ UNCHANGED <<strictPin, worldVars, refreshVars, servedVars, shutdown>>

\* A call without a deadline fails, or a signal stream has ended.
ConnectionFails ==
    \/ phase = "connecting" /\ bus = "down"
    \/ phase \in {"listing", "idle"} /\ link = "broken"

\* Slip: the connection is opened again but the last snapshot stays.
DisconnectSilently ==
    /\ ConnectionFails
    /\ phase' = "waiting"
    /\ link' = "none"
    /\ UNCHANGED <<strictPin, worldVars, refreshVars, cached, servedVars, shutdown>>

Disconnect ==
    /\ ConnectionFails
    /\ Replace(SessionUnavailable)
    /\ phase' = "waiting"
    /\ link' = "none"
    /\ UNCHANGED <<strictPin, player, bus, changes, toRead, half, cached, shutdown>>

\* RECONNECT_INTERVAL is over.
WaitOver ==
    /\ phase = "waiting"
    /\ phase' = "starting"
    /\ UNCHANGED <<strictPin, worldVars, link, refreshVars, cached, servedVars, shutdown>>

\* A signal, or the tick of every second.
Wake ==
    /\ phase = "idle" /\ link = "live"
    /\ phase' = "listing"
    /\ UNCHANGED <<strictPin, worldVars, link, refreshVars, cached, servedVars, shutdown>>

-----------------------------------------------------------------------------
(* One refresh: read_candidates and read_candidate.                         *)

Answers(name) ==
    link = "live" /\ bus = "up" /\ player[name] # Absent /\ ~player[name].hung

\* Neither an answer nor an error comes before PROPERTY_DEADLINE.
Silent(name) == link = "live" /\ (bus = "hung" \/ player[name].hung)

\* list_names
ListNames ==
    /\ phase = "listing" /\ link = "live" /\ bus = "up"
    /\ toRead' = {name \in Players : player[name] # Absent}
    /\ phase' = "reading"
    /\ during' = [name \in Players |-> {player[name]}]
    /\ UNCHANGED <<strictPin, player, bus, changes, link, half, candidate, cached, servedVars, shutdown>>

\* Slip: a status nobody knows is passed on.
ReadAnyStatus(name) ==
    /\ phase = "reading" /\ half = NoPlayer
    /\ name \in toRead /\ Answers(name)
    /\ half' = name
    /\ candidate' = [candidate EXCEPT ![name].activity = player[name].activity]
    /\ UNCHANGED <<strictPin, worldVars, link, phase, toRead, cached, servedVars, shutdown>>

ReadStatus(name) ==
    /\ phase = "reading" /\ half = NoPlayer
    /\ name \in toRead /\ Answers(name)
    /\ IF player[name].activity = "other"
       THEN toRead' = toRead \ {name} /\ UNCHANGED <<half, candidate>>
       ELSE /\ half' = name
            /\ candidate' = [candidate EXCEPT ![name].activity = player[name].activity]
            /\ UNCHANGED toRead
    /\ UNCHANGED <<strictPin, worldVars, link, phase, cached, servedVars, shutdown>>

\* Slip: a player that does not answer is taken to be as it was last served.
SkipAsLastServed(name) ==
    /\ phase = "reading" /\ half = NoPlayer
    /\ name \in toRead /\ ~Answers(name)
    /\ toRead' = toRead \ {name}
    /\ candidate' = IF snapshot.source # name THEN candidate
                    ELSE [candidate EXCEPT ![name] = [activity |-> snapshot.activity, track |-> snapshot.track]]
    /\ UNCHANGED <<strictPin, worldVars, link, phase, half, cached, servedVars, shutdown>>

\* The status cannot be read: an error, or the deadline.
SkipPlayer(name) ==
    /\ phase = "reading" /\ half = NoPlayer
    /\ name \in toRead /\ ~Answers(name)
    /\ toRead' = toRead \ {name}
    /\ UNCHANGED <<strictPin, worldVars, link, phase, half, candidate, cached, servedVars, shutdown>>

\* Each field of the metadata is taken as far as it can be read.
MetadataOf(name) == IF Answers(name) THEN player[name].track ELSE NoTrack

\* Metadata that cannot be read is empty; only the deadline gives the player up.
ReadMetadata(name) ==
    /\ phase = "reading" /\ half = name
    /\ half' = NoPlayer
    /\ toRead' = toRead \ {name}
    /\ candidate' = [candidate EXCEPT
          ![name] = IF Silent(name) THEN Skipped
                    ELSE [@ EXCEPT !.track = MetadataOf(name)]]
    /\ UNCHANGED <<strictPin, worldVars, link, phase, cached, servedVars, shutdown>>

-----------------------------------------------------------------------------
(* The choice of a source: select_source.                                   *)

Candidates == {name \in Players : candidate[name].activity # "none"}

PlayingCandidates == {name \in Candidates : candidate[name].activity = "Playing"}

\* What the refresh found, in the order the code asks; artwork is added by the
\* caller.  The pin is never given up for another source.
Selection(artwork) ==
    CASE strictPin # NoPlayer ->
            IF strictPin \in Candidates THEN Selected(strictPin, "strict-pin", artwork)
            ELSE Unavailable("strict-pin-lost")
      [] strictPin = NoPlayer /\ Cardinality(PlayingCandidates) = 1 ->
            Selected(CHOOSE name \in PlayingCandidates : TRUE, "sole-playing", artwork)
      [] strictPin = NoPlayer /\ Cardinality(PlayingCandidates) > 1 -> Ambiguous("multiple-playing")
      [] strictPin = NoPlayer /\ PlayingCandidates = {} ->
            CASE Candidates = {} -> Unavailable("no-source")
              [] Cardinality(Candidates) = 1 ->
                    Selected(CHOOSE name \in Candidates : TRUE, "sole-non-playing", artwork)
              [] OTHER -> Ambiguous("multiple-non-playing")

\* Slip: the one entry is taken for whatever is asked for.
CachedAny(url) == cached # NoArt

\* ArtworkLoader::load, before it loads.
Cached(url) == cached = url

\* The rest of a refresh when no artwork has to be loaded.
Publish ==
    /\ phase = "reading" /\ toRead = {}
    /\ LET url == ArtOf[Selection(NoArt).track] IN
          IF url = NoArt \/ Cached(url)
          THEN /\ Replace(Selection(IF url = NoArt THEN NoArt ELSE cached))
               /\ phase' = "idle"
          ELSE phase' = "loading" /\ UNCHANGED <<servedVars, candidate, during>>
    /\ UNCHANGED <<strictPin, player, bus, changes, link, toRead, half, cached, shutdown>>

\* The rest of load and of the refresh; only a success is cached.
LoadArtwork ==
    /\ phase = "loading"
    /\ \E artwork \in {ArtOf[Selection(NoArt).track], NoArt} :
          /\ cached' = IF artwork = NoArt THEN cached ELSE artwork
          /\ Replace(Selection(artwork))
    /\ phase' = "idle"
    /\ UNCHANGED <<strictPin, player, bus, changes, link, toRead, half, shutdown>>

-----------------------------------------------------------------------------
RefreshStep ==
    \/ ListNames
    \/ \E name \in Players : ReadStatus(name) \/ SkipPlayer(name) \/ ReadMetadata(name)
    \/ Publish \/ LoadArtwork

ConnectionStep == BeginConnecting \/ Connect \/ Disconnect \/ WaitOver \/ Wake

Next ==
    \/ \E name \in Players : PlayerChanges(name)
    \/ BusChanges
    \/ Cancel
    \/ Stop
    \/ ConnectionStep
    \/ RefreshStep

Spec == Init /\ [][Next]_vars

\* The collector's task runs; its select! polls its branches in random order,
\* so a cancelled token is not passed over for ever by signals and ticks.
Fairness ==
    /\ WF_vars(ConnectionStep \/ RefreshStep)
    /\ SF_vars(Stop)

FairSpec == Spec /\ Fairness

-----------------------------------------------------------------------------
(* Properties.                                                              *)

Responses ==
    [kind : {"available", "ambiguous", "unavailable"},
     reason : {"strict-pin", "sole-playing", "sole-non-playing", "multiple-playing",
               "multiple-non-playing", "strict-pin-lost", "no-source", "native-session"},
     source : Players \cup {NoPlayer},
     activity : Activities \cup {"none"},
     track : Tracks \cup {NoTrack},
     artwork : {ArtOf[track] : track \in Tracks} \cup {NoArt}]

\* Every variable holds a value of its kind, and the read model is within the
\* width of its revision.
TypeOK ==
    /\ strictPin \in Pins
    /\ player \in [Players -> PlayerStates]
    /\ bus \in {"up", "hung", "down"} /\ link \in {"none", "live", "broken"}
    /\ changes \in 0..MaxChanges
    /\ phase \in Phases
    /\ toRead \subseteq Players /\ half \in Players \cup {NoPlayer}
    /\ candidate \in [Players -> [activity : Activities \cup {"none"}, track : Tracks \cup {NoTrack}]]
    /\ cached \in {ArtOf[track] : track \in Tracks} \cup {NoArt}
    /\ snapshot \in Responses
    /\ revision \in 0..LastRevision
    /\ shutdown \in BOOLEAN
    /\ during \in [Players -> SUBSET PlayerStates]

\* The artwork served is that of the metadata it is served with, whatever was
\* shown before and however long the loading took.
ArtworkBelongs == snapshot.artwork \in {ArtOf[snapshot.track], NoArt}

\* Every response the process can serve is one the browser can read, and reads
\* as what it says: whatever players claim to be doing, no answer of this
\* process is the unreadable one that resets the browser's native time
\* (generated-mapper.ts, the catch of mapGeneratedSnapshot).
ReadAsServed ==
    MappedOutcome(Served) =
        CASE snapshot.kind = "available" -> Readable("policy-selected", snapshot.reason)
          [] snapshot.kind = "ambiguous" -> Readable("policy-status", "ambiguous-sources")
          [] snapshot = SessionUnavailable -> NativeSessionUnavailable
          [] OTHER -> Readable("policy-status",
                               IF strictPin = NoPlayer THEN "no-source" ELSE "strict-pin-unavailable")

\* What is served as available was so while it was being read: the source was
\* there, and its activity and its track are each one it had since the refresh
\* began, although not always at the same time.
Observed(response) ==
    response.kind = "available" =>
        /\ \E state \in during[response.source] : state.activity = response.activity
        /\ \/ response.track = NoTrack
           \/ \E state \in during[response.source] : state.track = response.track

ServedAsObserved == [][snapshot' # snapshot => Observed(snapshot')]_vars

\* What a reader of the bus would expect to be told, were nothing to change.
Shown == {name \in Players :
             ~player[name].hung /\ player[name].activity \notin {"none", "other"}}

ShownPlaying == {name \in Shown : player[name].activity = "Playing"}

Expected(name) ==
    IF strictPin # NoPlayer THEN name = strictPin
    ELSE ShownPlaying = {name} \/ (ShownPlaying = {} /\ Shown = {name})

Agrees ==
    IF bus = "down" THEN snapshot = SessionUnavailable
    ELSE IF \E name \in Shown : Expected(name)
    THEN \E name \in Shown :
            /\ Expected(name)
            /\ snapshot.kind = "available" /\ snapshot.source = name
            /\ snapshot.activity = player[name].activity
            /\ snapshot.track = player[name].track
    ELSE /\ snapshot.kind = IF strictPin = NoPlayer /\ Shown # {} THEN "ambiguous" ELSE "unavailable"
         /\ snapshot # SessionUnavailable

\* Once the bus and its players keep still, the snapshot comes to say what is
\* there and goes on saying it, through refreshes that overlapped the changes,
\* failed reads and lost connections; unless the bus answers nothing at all.
AgreesInTheEnd == <>[](phase = "stopped" \/ bus = "hung" \/ Agrees)

\* A cancelled collector ends, whatever its players do; only a session bus that
\* accepts calls and never answers them can keep it, and with it the process.
StopsOnShutdown == shutdown ~> (phase = "stopped" \/ bus = "hung")
=============================================================================
