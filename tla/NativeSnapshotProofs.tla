------------------------ MODULE NativeSnapshotProofs ------------------------
(***************************************************************************)
(* Proofs about NativeSnapshot, for any number of players and tracks and   *)
(* any number of changes of the session bus and its players: what is       *)
(* served was observed, carries its own artwork, and can be read.          *)
(***************************************************************************)
EXTENDS NativeSnapshot, FiniteSetTheorems, TLAPS

Artworks == {ArtOf[track] : track \in Tracks} \cup {NoArt}

CandidateReads == [activity : Activities \cup {"none"}, track : Tracks \cup {NoTrack}]

-----------------------------------------------------------------------------
(***************************************************************************)
(* The choice of a source: select_source.                                  *)
(***************************************************************************)
NoneSelected ==
    {Ambiguous(reason) : reason \in AmbiguityReasons}
        \cup {Unavailable(IF strictPin = NoPlayer THEN "no-source" ELSE "strict-pin-lost")}

\* A choice that does not depend on the artwork it will be served with.
Chosen ==
    \/ \E name \in Candidates, reason \in SelectionReasons :
          \A artwork : Selection(artwork) = Selected(name, reason, artwork)
    \/ \E response \in NoneSelected : \A artwork : Selection(artwork) = response

\* One candidate is chosen where there is exactly one to choose.
LEMMA SoleMember ==
    ASSUME NEW S, S \subseteq Players, Cardinality(S) = 1
    PROVE  (CHOOSE name \in S : TRUE) \in S
<1>1. IsFiniteSet(S)
  BY SnapshotAssumption, FS_Subset
<1>2. S # {}
  BY <1>1, FS_EmptySet
<1>. QED  BY <1>2

\* The choice is a candidate, or says which of the reasons there is for none.
LEMMA SelectionForms == Chosen
<1>1. CASE strictPin # NoPlayer
  <2>1. \A artwork : Selection(artwork) =
            IF strictPin \in Candidates THEN Selected(strictPin, "strict-pin", artwork)
            ELSE Unavailable("strict-pin-lost")
    BY <1>1 DEF Selection
  <2>2. CASE strictPin \in Candidates
    BY <2>1, <2>2 DEF Chosen, SelectionReasons
  <2>3. CASE strictPin \notin Candidates
    <3>1. \A artwork : Selection(artwork) = Unavailable("strict-pin-lost")
      BY <2>1, <2>3
    <3>. QED  BY <1>1, <3>1 DEF Chosen, NoneSelected
  <2>. QED  BY <2>2, <2>3
<1>2. CASE strictPin = NoPlayer /\ PlayingCandidates # {}
  <2>1. IsFiniteSet(PlayingCandidates)
    BY SnapshotAssumption, FS_Subset DEF PlayingCandidates, Candidates
  <2>2. Cardinality(PlayingCandidates) \in Nat /\ Cardinality(PlayingCandidates) # 0
    BY <1>2, <2>1, FS_CardinalityType, FS_EmptySet
  <2>3. CASE Cardinality(PlayingCandidates) = 1
    <3>. DEFINE sole == CHOOSE name \in PlayingCandidates : TRUE
    <3>1. sole \in Candidates
      BY <2>3, SoleMember DEF PlayingCandidates, Candidates
    <3>2. \A artwork : Selection(artwork) = Selected(sole, "sole-playing", artwork)
      BY <1>2, <2>3 DEF Selection
    <3>. QED  BY <3>1, <3>2 DEF Chosen, SelectionReasons
  <2>4. CASE Cardinality(PlayingCandidates) > 1
    <3>1. \A artwork : Selection(artwork) = Ambiguous("multiple-playing")
      <4>1. Cardinality(PlayingCandidates) # 1
        BY <2>4
      <4>. QED  BY <1>2, <2>4, <4>1 DEF Selection
    <3>. QED  BY <3>1 DEF Chosen, NoneSelected, AmbiguityReasons
  <2>. QED  BY <2>2, <2>3, <2>4
<1>3. CASE strictPin = NoPlayer /\ PlayingCandidates = {}
  <2>1. Cardinality({}) = 0
    BY FS_EmptySet
  <2>2. \A artwork : Selection(artwork) =
            CASE Candidates = {} -> Unavailable("no-source")
              [] Cardinality(Candidates) = 1 ->
                    Selected(CHOOSE name \in Candidates : TRUE, "sole-non-playing", artwork)
              [] OTHER -> Ambiguous("multiple-non-playing")
    BY <1>3, <2>1 DEF Selection
  <2>3. CASE Candidates = {}
    <3>1. \A artwork : Selection(artwork) = Unavailable("no-source")
      BY <2>1, <2>2, <2>3
    <3>. QED  BY <1>3, <3>1 DEF Chosen, NoneSelected
  <2>4. CASE Candidates # {} /\ Cardinality(Candidates) = 1
    <3>. DEFINE sole == CHOOSE name \in Candidates : TRUE
    <3>1. sole \in Candidates
      BY <2>4
    <3>2. \A artwork : Selection(artwork) = Selected(sole, "sole-non-playing", artwork)
      BY <2>2, <2>4
    <3>. QED  BY <3>1, <3>2 DEF Chosen, SelectionReasons
  <2>5. CASE Candidates # {} /\ Cardinality(Candidates) # 1
    <3>1. \A artwork : Selection(artwork) = Ambiguous("multiple-non-playing")
      BY <2>2, <2>5
    <3>. QED  BY <3>1 DEF Chosen, NoneSelected, AmbiguityReasons
  <2>. QED  BY <2>3, <2>4, <2>5
<1>. QED  BY <1>1, <1>2, <1>3

\* The choice as a response, in a state of the right kind.
LEMMA SelectionTyped ==
    ASSUME TypeOK, NEW artwork \in Artworks
    PROVE  /\ Selection(artwork) \in Responses
           /\ Selection(artwork).track \in Tracks \cup {NoTrack}
           /\ Selection(artwork).track = Selection(NoArt).track
           /\ Selection(artwork).artwork \in {artwork, NoArt}
<1>1. NoArt \in Artworks
  BY DEF Artworks
<1>2. CASE \E name \in Candidates, reason \in SelectionReasons :
              \A art : Selection(art) = Selected(name, reason, art)
  <2>1. PICK name \in Candidates, reason \in SelectionReasons :
            \A art : Selection(art) = Selected(name, reason, art)
    BY <1>2
  <2>2. name \in Players /\ candidate[name] \in CandidateReads
    BY DEF Candidates, TypeOK, CandidateReads
  <2>. QED  BY <2>1, <2>2 DEF Selected, SelectionReasons, Responses, CandidateReads, Artworks
<1>3. CASE \E response \in NoneSelected : \A art : Selection(art) = response
  <2>1. \A response \in NoneSelected : response \in Responses /\ response.artwork = NoArt
                                                /\ response.track = NoTrack
    BY DEF NoneSelected, Ambiguous, Unavailable, AmbiguityReasons, Responses
  <2>. QED  BY <1>3, <2>1
<1>. QED  BY <1>2, <1>3, SelectionForms DEF Chosen

\* The ways a step can change what is served.
ServesChoice ==
    /\ phase \in {"reading", "loading"}
    /\ \E artwork \in Artworks :
          /\ artwork \in {ArtOf[Selection(NoArt).track], NoArt}
          /\ snapshot' = Selection(artwork)

Serves == snapshot' = snapshot \/ snapshot' = SessionUnavailable \/ ServesChoice

\* ArtOf of whatever was chosen is an artwork.
LEMMA ArtTyped == TypeOK => ArtOf[Selection(NoArt).track] \in Artworks
<1>1. NoArt \in Artworks
  BY DEF Artworks
<1>. QED  BY <1>1, SelectionTyped, SnapshotAssumption DEF Artworks

LEMMA PublishServes ==
    ASSUME TypeOK, Publish \/ LoadArtwork
    PROVE  /\ Serves /\ cached' \in Artworks /\ phase' \in {"idle", "loading"}
           /\ \/ candidate' = Unread /\ during' = NotRefreshing /\ phase' = "idle"
              \/ UNCHANGED <<candidate, during>> /\ phase' = "loading"
           /\ revision' \in {revision, revision + 1} /\ (revision = LastRevision => revision' = revision)
<1>. DEFINE url == ArtOf[Selection(NoArt).track]
<1>1. url \in Artworks /\ NoArt \in Artworks /\ cached \in Artworks
  BY ArtTyped DEF Artworks, TypeOK
<1>2. CASE Publish
  <2>1. CASE url = NoArt \/ Cached(url)
    <3>1. Replace(Selection(IF url = NoArt THEN NoArt ELSE cached)) /\ UNCHANGED cached
          /\ phase = "reading" /\ phase' = "idle"
      BY <1>2, <2>1 DEF Publish
    <3>2. (IF url = NoArt THEN NoArt ELSE cached) \in {url, NoArt}
      BY <2>1 DEF Cached
    <3>. HIDE DEF url
    <3>3. \E artwork \in Artworks : artwork \in {url, NoArt} /\ snapshot' = Selection(artwork)
      BY <1>1, <3>1, <3>2 DEF Replace
    <3>. QED  BY <1>1, <3>1, <3>3 DEF Replace, Serves, ServesChoice, url
  <2>2. CASE ~(url = NoArt \/ Cached(url))
    BY <1>1, <1>2, <2>2 DEF Publish, Serves, servedVars
  <2>. QED  BY <2>1, <2>2
<1>3. CASE LoadArtwork
  <2>1. PICK artwork \in {url, NoArt} :
            cached' = (IF artwork = NoArt THEN cached ELSE artwork) /\ Replace(Selection(artwork))
    BY <1>3 DEF LoadArtwork
  <2>2. phase = "loading" /\ phase' = "idle"
    BY <1>3 DEF LoadArtwork
  <2>3. artwork \in Artworks /\ cached' \in Artworks
    BY <1>1, <2>1
  <2>. QED  BY <2>1, <2>2, <2>3 DEF Replace, Serves, ServesChoice
<1>. QED  BY <1>2, <1>3

LEMMA NextServes == TypeOK /\ [Next]_vars => Serves
<1>. SUFFICES ASSUME TypeOK, [Next]_vars PROVE Serves
  OBVIOUS
<1>1. CASE Disconnect
  BY <1>1 DEF Disconnect, Replace, Serves
<1>2. CASE Publish \/ LoadArtwork
  BY <1>2, PublishServes
<1>3. ASSUME ~Disconnect, ~Publish, ~LoadArtwork PROVE snapshot' = snapshot
  BY <1>3 DEF Next, PlayerChanges, BusChanges, Cancel, Stop, ConnectionStep, BeginConnecting, Connect,
              WaitOver, Wake, RefreshStep, ListNames, ReadStatus, SkipPlayer, ReadMetadata,
              servedVars, vars
<1>. QED  BY <1>1, <1>2, <1>3 DEF Serves

-----------------------------------------------------------------------------
(***************************************************************************)
(* Type correctness.                                                       *)
(***************************************************************************)
LEMMA TypeInit == Init => TypeOK
<1>. SUFFICES ASSUME Init PROVE TypeOK
  OBVIOUS
<1>1. SessionUnavailable \in Responses
  BY DEF SessionUnavailable, Unavailable, Responses
<1>2. Unread \in [Players -> CandidateReads]
  BY DEF Unread, Skipped, CandidateReads
<1>3. player \in [Players -> PlayerStates] /\ during \in [Players -> SUBSET PlayerStates]
  BY DEF Init, NotRefreshing
<1>4. candidate \in [Players -> CandidateReads] /\ snapshot \in Responses
  BY <1>1, <1>2 DEF Init
<1>5. changes \in 0..MaxChanges /\ revision \in 0..LastRevision
  BY SnapshotAssumption DEF Init
<1>6. /\ strictPin \in Pins /\ bus = "up" /\ link = "none" /\ phase = "starting" /\ toRead = {}
      /\ half = NoPlayer /\ cached = NoArt /\ shutdown = FALSE
  BY DEF Init
<1>. QED  BY <1>3, <1>4, <1>5, <1>6 DEF TypeOK, Phases, CandidateReads

LEMMA TypeInductive == TypeOK /\ [Next]_vars => TypeOK'
<1>. SUFFICES ASSUME TypeOK, [Next]_vars PROVE TypeOK'
  OBVIOUS
<1>. USE DEF TypeOK, Phases
<1>1. SessionUnavailable \in Responses
  BY DEF SessionUnavailable, Unavailable, Responses
<1>2. Unread \in [Players -> CandidateReads] /\ NotRefreshing \in [Players -> SUBSET PlayerStates]
  BY DEF Unread, Skipped, CandidateReads, NotRefreshing
<1>3. ASSUME NEW name \in Players, PlayerChanges(name) PROVE TypeOK'
  <2>1. ASSUME NEW state \in PlayerStates PROVE Successors(state) \subseteq PlayerStates
    <3>1. CASE state = Absent
      BY <3>1 DEF Successors, PlayerStates
    <3>2. CASE state # Absent
      <4>1. state \in [hung : BOOLEAN, activity : Activities, track : Tracks]
        BY <3>2 DEF PlayerStates
      <4>2. (~state.hung) \in BOOLEAN
        BY Zenon
      <4>3. \A flag \in BOOLEAN : [state EXCEPT !.hung = flag] \in PlayerStates
        BY <4>1 DEF PlayerStates
      <4>4. [state EXCEPT !.hung = ~state.hung] \in PlayerStates
        BY <4>2, <4>3
      <4>5. \A activity \in Activities : [state EXCEPT !.activity = activity] \in PlayerStates
        BY <4>1 DEF PlayerStates
      <4>6. \A track \in Tracks : [state EXCEPT !.track = track] \in PlayerStates
        BY <4>1 DEF PlayerStates
      <4>7. Absent \in PlayerStates
        BY DEF PlayerStates
      <4>. QED  BY <3>2, <4>4, <4>5, <4>6, <4>7 DEF Successors
    <3>. QED  BY <3>1, <3>2
  <2>. QED  BY <1>3, <2>1, SnapshotAssumption DEF PlayerChanges, refreshVars, servedVars
<1>4. CASE BusChanges
  <2>1. bus' \in {"up", "hung", "down"} /\ link' \in {"none", "live", "broken"}
    BY <1>4 DEF BusChanges
  <2>2. changes' \in 0..MaxChanges
    BY <1>4, SnapshotAssumption DEF BusChanges
  <2>. QED  BY <1>4, <2>1, <2>2 DEF BusChanges, refreshVars, servedVars
<1>13. CASE Cancel
  BY <1>13 DEF Cancel, worldVars, refreshVars, servedVars
<1>5. CASE Stop \/ BeginConnecting \/ Connect \/ WaitOver \/ Wake
  BY <1>5 DEF Stop, BeginConnecting, Connect, WaitOver, Wake, worldVars, refreshVars, servedVars
<1>6. CASE Disconnect
  BY <1>1, <1>2, <1>6, SnapshotAssumption DEF Disconnect, Replace, CandidateReads
<1>7. CASE ListNames
  BY <1>7 DEF ListNames, servedVars
<1>8. ASSUME NEW name \in Players, ReadStatus(name) PROVE TypeOK'
  <2>1. player[name].activity \in Activities
    BY <1>8 DEF ReadStatus, Answers, PlayerStates, Absent
  <2>. QED  BY <1>8, <2>1 DEF ReadStatus, worldVars, servedVars
<1>9. ASSUME NEW name \in Players, SkipPlayer(name) PROVE TypeOK'
  BY <1>9 DEF SkipPlayer, worldVars, servedVars
<1>10. ASSUME NEW name \in Players, ReadMetadata(name) PROVE TypeOK'
  <2>1. MetadataOf(name) \in Tracks \cup {NoTrack}
    BY DEF MetadataOf, Answers, PlayerStates, Absent
  <2>2. candidate' \in [Players -> CandidateReads]
    BY <1>10, <2>1 DEF ReadMetadata, Skipped, CandidateReads
  <2>. QED  BY <1>10, <2>2 DEF ReadMetadata, worldVars, servedVars, CandidateReads
<1>11. CASE Publish \/ LoadArtwork
  <2>1. snapshot' \in Responses
    BY <1>1, <1>11, PublishServes, SelectionTyped DEF Serves, ServesChoice
  <2>2. revision' \in 0..LastRevision
    BY <1>11, PublishServes, SnapshotAssumption
  <2>3. /\ candidate' \in [Players -> CandidateReads] /\ during' \in [Players -> SUBSET PlayerStates]
        /\ cached' \in Artworks /\ phase' \in Phases
    BY <1>2, <1>11, PublishServes DEF CandidateReads
  <2>. QED  BY <1>11, <2>1, <2>2, <2>3 DEF Publish, LoadArtwork, CandidateReads, Artworks
<1>12. CASE UNCHANGED vars
  BY <1>12 DEF vars, worldVars, refreshVars, servedVars
<1>. QED
  BY <1>3, <1>4, <1>5, <1>6, <1>7, <1>8, <1>9, <1>10, <1>11, <1>12, <1>13
     DEF Next, ConnectionStep, RefreshStep

\* Every variable keeps to its kind and the revision to its width, for any
\* number of players, tracks and changes (linux_mpris.rs, service.rs).
THEOREM TypeCorrect == Spec => []TypeOK
BY TypeInit, TypeInductive, PTL DEF Spec

-----------------------------------------------------------------------------
(***************************************************************************)
(* What a refresh has read.  Between two of its awaits the world moves on, *)
(* so what was read need not be true any more; but it was, since it began. *)
(***************************************************************************)
Witnessed(name) ==
    /\ \E state \in during[name] : state.activity = candidate[name].activity
    /\ \/ candidate[name].track = NoTrack
       \/ \E state \in during[name] : state.track = candidate[name].track

ReadInv ==
    /\ phase \in {"reading", "loading"} => \A name \in Players : player[name] \in during[name]
    /\ phase \notin {"reading", "loading"} => candidate = Unread
    /\ \A name \in Candidates : candidate[name].activity \in ReadableActivities /\ Witnessed(name)
    /\ \A name \in toRead \ {half} : candidate[name] = Skipped

\* Reading one player tells of one player.
LEMMA ReadingTells ==
    ASSUME TypeOK, ReadInv, phase \in {"reading", "loading"}, phase' = phase, UNCHANGED <<player, during>>,
           NEW name \in Players, NEW read \in CandidateReads,
           candidate' = [candidate EXCEPT ![name] = read],
           toRead' \ {half'} \subseteq (toRead \ {half}) \ {name},
           \/ read.activity = "none"
           \/ /\ read.activity \in ReadableActivities
              /\ \E state \in during[name] : state.activity = read.activity
              /\ read.track = NoTrack \/ \E state \in during[name] : state.track = read.track
    PROVE  ReadInv'
<1>1. candidate \in [Players -> CandidateReads]
  BY DEF TypeOK, CandidateReads
<1>2. ASSUME NEW other \in Candidates' PROVE candidate'[other].activity \in ReadableActivities /\ Witnessed(other)'
  <2>1. CASE other = name
    <3>1. candidate'[other] = read /\ read.activity # "none"
      BY <1>1, <1>2, <2>1 DEF Candidates
    <3>. QED  BY <2>1, <3>1 DEF Witnessed
  <2>2. CASE other # name
    <3>1. candidate'[other] = candidate[other] /\ other \in Candidates
      BY <1>1, <1>2, <2>2 DEF Candidates
    <3>. QED  BY <3>1 DEF ReadInv, Witnessed
  <2>. QED  BY <2>1, <2>2
<1>3. \A other \in toRead' \ {half'} : candidate'[other] = Skipped
  <2>1. toRead \subseteq Players
    BY DEF TypeOK
  <2>. QED  BY <1>1, <2>1 DEF ReadInv
<1>. QED  BY <1>2, <1>3 DEF ReadInv

LEMMA ReadInductive == TypeOK /\ ReadInv /\ [Next]_vars => ReadInv'
<1>. SUFFICES ASSUME TypeOK, ReadInv, [Next]_vars PROVE ReadInv'
  OBVIOUS
<1>1. ASSUME candidate' = Unread, phase' \notin {"reading", "loading"}, toRead' \subseteq Players
      PROVE  ReadInv'
  BY <1>1 DEF ReadInv, Unread, Skipped, Candidates
<1>2. ASSUME UNCHANGED <<candidate, during, player>>, toRead' \ {half'} \subseteq toRead \ {half},
             phase' \in {"reading", "loading"} <=> phase \in {"reading", "loading"}
      PROVE  ReadInv'
  BY <1>2 DEF ReadInv, Candidates, Witnessed
<1>3. ASSUME NEW name \in Players, PlayerChanges(name) PROVE ReadInv'
  <2>1. PICK state \in Successors(player[name]) :
            /\ player' = [player EXCEPT ![name] = state]
            /\ during' = IF during = NotRefreshing THEN during
                         ELSE [during EXCEPT ![name] = @ \cup {state}]
    BY <1>3 DEF PlayerChanges
  <2>2. UNCHANGED <<candidate, phase, toRead, half>> /\ Candidates' = Candidates
    BY <1>3 DEF PlayerChanges, refreshVars, Candidates
  <2>3. \A other \in Players : during[other] \subseteq during'[other]
    BY <2>1 DEF TypeOK
  <2>4. \A other \in Candidates : Witnessed(other) => Witnessed(other)'
    BY <2>2, <2>3 DEF Witnessed, Candidates
  <2>5. phase \in {"reading", "loading"} => \A other \in Players : player'[other] \in during'[other]
    <3>1. SUFFICES ASSUME phase \in {"reading", "loading"}, NEW other \in Players
                   PROVE  player'[other] \in during'[other]
      OBVIOUS
    <3>2. during # NotRefreshing
      BY <3>1 DEF ReadInv, NotRefreshing
    <3>3. player[other] \in during[other]
      BY <3>1 DEF ReadInv
    <3>. QED  BY <2>1, <3>2, <3>3 DEF TypeOK
  <2>. QED  BY <2>2, <2>4, <2>5 DEF ReadInv
<1>4. CASE BusChanges \/ Cancel \/ UNCHANGED vars
  BY <1>2, <1>4 DEF BusChanges, Cancel, worldVars, refreshVars, vars
<1>5. CASE Stop \/ BeginConnecting \/ Connect \/ WaitOver \/ Wake
  BY <1>2, <1>5 DEF Stop, BeginConnecting, Connect, WaitOver, Wake, worldVars, refreshVars
<1>6. CASE Disconnect
  BY <1>1, <1>6 DEF Disconnect, Replace, TypeOK
<1>7. CASE ListNames
  <2>1. candidate' = Unread /\ phase' = "reading" /\ player' = player
        /\ during' = [name \in Players |-> {player[name]}] /\ toRead' \subseteq Players
    BY <1>7 DEF ListNames, ReadInv
  <2>. QED  BY <2>1 DEF ReadInv, Unread, Skipped, Candidates
<1>8. ASSUME NEW name \in Players, ReadStatus(name) PROVE ReadInv'
  <2>1. phase = "reading" /\ phase' = phase /\ UNCHANGED <<player, during>>
    BY <1>8 DEF ReadStatus, worldVars
  <2>2. CASE player[name].activity = "other"
    BY <1>2, <1>8, <2>1, <2>2 DEF ReadStatus
  <2>3. CASE player[name].activity # "other"
    <3>. DEFINE read == [candidate[name] EXCEPT !.activity = player[name].activity]
    <3>1. player[name] \in during[name] /\ player[name] \in PlayerStates /\ player[name] # Absent
      BY <1>8, <2>1 DEF ReadStatus, Answers, ReadInv, TypeOK
    <3>2. player[name].activity \in Activities /\ player[name].activity \in ReadableActivities
      BY <2>3, <3>1, SnapshotAssumption DEF PlayerStates
    <3>3. read \in CandidateReads /\ read.activity = player[name].activity
          /\ read.track = candidate[name].track
      BY <3>2 DEF TypeOK, CandidateReads
    <3>4. candidate' = [candidate EXCEPT ![name] = read]
      BY <1>8, <2>3 DEF ReadStatus
    <3>5. candidate[name].track = NoTrack /\ toRead' \ {half'} \subseteq (toRead \ {half}) \ {name}
      <4>1. half = NoPlayer /\ name # NoPlayer /\ name \in toRead /\ half' = name /\ toRead' = toRead
        BY <1>8, <2>3, SnapshotAssumption DEF ReadStatus
      <4>2. candidate[name] = Skipped
        BY <4>1 DEF ReadInv
      <4>3. NoPlayer \notin toRead
        BY SnapshotAssumption DEF TypeOK
      <4>. QED  BY <4>1, <4>2, <4>3 DEF Skipped
    <3>. QED  BY <2>1, <3>1, <3>2, <3>3, <3>4, <3>5, ReadingTells
  <2>. QED  BY <2>2, <2>3
<1>9. ASSUME NEW name \in Players, SkipPlayer(name) PROVE ReadInv'
  BY <1>2, <1>9 DEF SkipPlayer, worldVars
<1>10. ASSUME NEW name \in Players, ReadMetadata(name) PROVE ReadInv'
  <2>. DEFINE read == IF Silent(name) THEN Skipped ELSE [candidate[name] EXCEPT !.track = MetadataOf(name)]
  <2>1. /\ phase = "reading" /\ phase' = phase /\ UNCHANGED <<player, during>>
        /\ candidate' = [candidate EXCEPT ![name] = read]
        /\ toRead' \ {half'} \subseteq (toRead \ {half}) \ {name}
    BY <1>10 DEF ReadMetadata, worldVars
  <2>2. /\ MetadataOf(name) \in Tracks \cup {NoTrack}
        /\ \/ MetadataOf(name) = NoTrack
           \/ \E state \in during[name] : state.track = MetadataOf(name)
    BY <2>1 DEF MetadataOf, Answers, ReadInv, TypeOK, PlayerStates, Absent
  <2>3. candidate[name] \in CandidateReads
    BY DEF TypeOK, CandidateReads
  <2>4. read \in CandidateReads
    <3>1. Skipped \in CandidateReads
      BY DEF Skipped, CandidateReads
    <3>2. PICK track \in Tracks \cup {NoTrack} : track = MetadataOf(name)
      BY <2>2
    <3>3. [candidate[name] EXCEPT !.track = track] \in CandidateReads
      BY <2>3 DEF CandidateReads
    <3>. QED  BY <3>1, <3>2, <3>3
  <2>5. CASE Silent(name) \/ candidate[name].activity = "none"
    <3>1. read.activity = "none"
      BY <2>3, <2>5 DEF Skipped, CandidateReads
    <3>. QED  BY <2>1, <2>4, <3>1, ReadingTells
  <2>6. CASE ~Silent(name) /\ candidate[name].activity # "none"
    <3>1. read.activity = candidate[name].activity /\ read.track = MetadataOf(name)
      BY <2>3, <2>6 DEF CandidateReads
    <3>2. candidate[name].activity \in ReadableActivities /\ Witnessed(name)
      BY <2>6 DEF Candidates, ReadInv
    <3>. HIDE DEF read
    <3>. QED  BY <2>1, <2>2, <2>4, <3>1, <3>2, ReadingTells DEF Witnessed
  <2>. QED  BY <2>5, <2>6
<1>11. CASE Publish \/ LoadArtwork
  <2>1. toRead' = toRead /\ half' = half /\ player' = player /\ toRead \subseteq Players
    BY <1>11 DEF Publish, LoadArtwork, TypeOK
  <2>2. CASE candidate' = Unread /\ phase' = "idle"
    BY <1>1, <2>1, <2>2
  <2>3. CASE UNCHANGED <<candidate, during>> /\ phase' = "loading"
    <3>1. phase \in {"reading", "loading"}
      BY <1>11 DEF Publish, LoadArtwork
    <3>. QED  BY <1>2, <2>1, <2>3, <3>1
  <2>. QED  BY <1>11, <2>2, <2>3, PublishServes
<1>. QED
  BY <1>3, <1>4, <1>5, <1>6, <1>7, <1>8, <1>9, <1>10, <1>11
     DEF Next, ConnectionStep, RefreshStep

LEMMA ReadInit == Init => ReadInv
BY DEF Init, ReadInv, Unread, Skipped, Candidates

LEMMA ReadInvariant == Spec => [](TypeOK /\ ReadInv)
<1>1. Init => TypeOK /\ ReadInv
  BY TypeInit, ReadInit
<1>2. TypeOK /\ ReadInv /\ [Next]_vars => (TypeOK /\ ReadInv)'
  BY TypeInductive, ReadInductive
<1>. QED  BY <1>1, <1>2, PTL DEF Spec

-----------------------------------------------------------------------------
(***************************************************************************)
(* What is served.                                                         *)
(***************************************************************************)

\* Whatever was shown before and however long loading took, the artwork is that
\* of the metadata it is served with (ArtworkLoader::load, refresh).
THEOREM ArtworkBelongsTheorem == Spec => []ArtworkBelongs
<1>1. Init => ArtworkBelongs
  BY DEF Init, ArtworkBelongs, SessionUnavailable, Unavailable
<1>2. ASSUME TypeOK, ArtworkBelongs, [Next]_vars PROVE ArtworkBelongs'
  <2>1. CASE snapshot' = snapshot
    BY <1>2, <2>1 DEF ArtworkBelongs
  <2>2. CASE snapshot' = SessionUnavailable
    BY <2>2 DEF ArtworkBelongs, SessionUnavailable, Unavailable
  <2>3. CASE ServesChoice
    BY <1>2, <2>3, SelectionTyped DEF ServesChoice, ArtworkBelongs
  <2>. QED  BY <1>2, <2>1, <2>2, <2>3, NextServes DEF Serves
<1>. QED  BY <1>1, <1>2, ReadInvariant, PTL DEF Spec

\* Players are asked one after another while they change, so a response may mix
\* two moments; but each part of it was so since the refresh began.
THEOREM ServedAsObservedTheorem == Spec => ServedAsObserved
<1>1. ASSUME TypeOK, ReadInv, [Next]_vars, snapshot' # snapshot PROVE Observed(snapshot')
  <2>1. CASE snapshot' = SessionUnavailable
    BY <2>1 DEF Observed, SessionUnavailable, Unavailable
  <2>2. CASE ServesChoice
    <3>1. PICK artwork : snapshot' = Selection(artwork)
      BY <2>2 DEF ServesChoice
    <3>2. CASE \E name \in Candidates, reason \in SelectionReasons :
                  \A art : Selection(art) = Selected(name, reason, art)
      <4>1. PICK name \in Candidates, reason \in SelectionReasons :
                snapshot' = Selected(name, reason, artwork)
        BY <3>1, <3>2
      <4>2. Witnessed(name)
        BY <1>1 DEF ReadInv
      <4>. QED  BY <4>1, <4>2 DEF Selected, Observed, Witnessed
    <3>3. CASE \E response \in NoneSelected : \A art : Selection(art) = response
      <4>1. \A reason : Ambiguous(reason).kind = "ambiguous" /\ Unavailable(reason).kind = "unavailable"
        BY DEF Ambiguous, Unavailable
      <4>2. \A response \in NoneSelected : response.kind # "available"
        BY <4>1 DEF NoneSelected
      <4>. QED  BY <3>1, <3>3, <4>2 DEF Observed
    <3>. QED  BY <3>2, <3>3, SelectionForms DEF Chosen
  <2>. QED  BY <1>1, <2>1, <2>2, NextServes DEF Serves
<1>2. TypeOK /\ ReadInv /\ [Next]_vars => [snapshot' # snapshot => Observed(snapshot')]_vars
  BY <1>1
<1>. QED  BY <1>2, ReadInvariant, PTL DEF Spec, ServedAsObserved

\* What the process can serve at all.
Servable ==
    \/ snapshot \in {SessionUnavailable} \cup NoneSelected
    \/ /\ snapshot.kind = "available"
       /\ snapshot.reason \in SelectionReasons /\ snapshot.activity \in ReadableActivities

LEMMA ServableReads == Servable => ReadAsServed
<1>1. ASSUME snapshot = SessionUnavailable PROVE ReadAsServed
  BY <1>1 DEF SessionUnavailable, Unavailable, ReadAsServed, Served, MappedOutcome
<1>2. ASSUME NEW reason \in AmbiguityReasons, snapshot = Ambiguous(reason) PROVE ReadAsServed
  <2>1. /\ Ambiguous(reason).kind = "ambiguous" /\ Ambiguous(reason).reason = reason
        /\ reason # "native-session" /\ SessionUnavailable.kind = "unavailable"
    BY DEF Ambiguous, Unavailable, SessionUnavailable, AmbiguityReasons
  <2>. QED  BY <1>2, <2>1 DEF ReadAsServed, Served, MappedOutcome, AvailableCapabilityOutcome, AmbiguousOutcome
<1>3. ASSUME snapshot = Unavailable(IF strictPin = NoPlayer THEN "no-source" ELSE "strict-pin-lost")
      PROVE  ReadAsServed
  <2>1. \A reason : Unavailable(reason).kind = "unavailable" /\ Unavailable(reason).reason = reason
    BY DEF Unavailable
  <2>2. snapshot # SessionUnavailable
    BY <1>3, <2>1 DEF SessionUnavailable
  <2>. QED
    BY <1>3, <2>1, <2>2 DEF ReadAsServed, Served, MappedOutcome, AvailableCapabilityOutcome, UnavailableOutcome
<1>4. ASSUME snapshot.kind = "available", snapshot.reason \in SelectionReasons,
             snapshot.activity \in ReadableActivities
      PROVE  ReadAsServed
  <2>1. snapshot # SessionUnavailable /\ snapshot.reason # "native-session"
    BY <1>4 DEF SessionUnavailable, Unavailable, SelectionReasons
  <2>. QED
    BY <1>4, <2>1
       DEF ReadAsServed, Served, MappedOutcome, AvailableCapabilityOutcome, AvailableOutcome
<1>. QED  BY <1>1, <1>2, <1>3, <1>4 DEF Servable, NoneSelected

\* Whatever players claim, every response of the process is one the browser
\* can read and reads as what it says: mappedSnapshot never throws on it.
THEOREM ReadAsServedTheorem == Spec => []ReadAsServed
<1>1. Init => Servable
  BY DEF Init, Servable
<1>2. ASSUME TypeOK, ReadInv, Servable, [Next]_vars PROVE Servable'
  <2>1. strictPin' = strictPin
    BY <1>2 DEF Next, PlayerChanges, BusChanges, Cancel, Stop, ConnectionStep, BeginConnecting, Connect,
                Disconnect, WaitOver, Wake, RefreshStep, ListNames, ReadStatus, SkipPlayer, ReadMetadata,
                Publish, LoadArtwork, vars
  <2>2. NoneSelected' = NoneSelected
    BY <2>1 DEF NoneSelected
  <2>3. CASE snapshot' = snapshot \/ snapshot' = SessionUnavailable
    BY <1>2, <2>2, <2>3 DEF Servable
  <2>4. CASE ServesChoice
    <3>1. PICK artwork : snapshot' = Selection(artwork)
      BY <2>4 DEF ServesChoice
    <3>2. CASE \E name \in Candidates, reason \in SelectionReasons :
                  \A art : Selection(art) = Selected(name, reason, art)
      BY <1>2, <3>1, <3>2 DEF Selected, Servable, ReadInv
    <3>3. CASE \E response \in NoneSelected : \A art : Selection(art) = response
      BY <2>2, <3>1, <3>3 DEF Servable
    <3>. QED  BY <3>2, <3>3, SelectionForms DEF Chosen
  <2>. QED  BY <1>2, <2>3, <2>4, NextServes DEF Serves
<1>. QED  BY <1>1, <1>2, ReadInvariant, ServableReads, PTL DEF Spec

-----------------------------------------------------------------------------
(***************************************************************************)
(* Once the world keeps still: what AgreesInTheEnd promises, short of that *)
(* a refresh will come.                                                    *)
(***************************************************************************)

\* No refresh is under way, and no connection that is yet to be found broken.
Settled == phase \notin {"reading", "loading"} /\ link # "broken"

\* What is left to read, and only during a refresh.
Bounds ==
    /\ half \in toRead \cup {NoPlayer}
    /\ phase # "reading" => toRead = {}

\* What a reader of the bus reads of a name.
ReadOf(name) ==
    IF name \in Shown THEN [activity |-> player[name].activity, track |-> player[name].track]
    ELSE Skipped

\* Of a world that keeps still a refresh reads what is there, name by name.
Exact ==
    /\ link # "broken"
    /\ phase \in {"reading", "loading"} =>
          /\ link = "live" /\ bus = "up"
          /\ \A name \in Players \ toRead : candidate[name] = ReadOf(name)
          /\ half # NoPlayer => half \in Shown /\ candidate[half].activity = player[half].activity

LEMMA BoundsInit == Init => Bounds
BY DEF Init, Bounds

LEMMA BoundsInductive == TypeOK /\ Bounds /\ [Next]_vars => Bounds'
<1>. SUFFICES ASSUME TypeOK, Bounds, [Next]_vars PROVE Bounds'
  OBVIOUS
<1>. USE DEF Bounds
<1>1. ASSUME NEW name \in Players, ReadStatus(name) \/ SkipPlayer(name) \/ ReadMetadata(name) PROVE Bounds'
  BY <1>1, SnapshotAssumption DEF ReadStatus, SkipPlayer, ReadMetadata
<1>2. CASE ListNames \/ Publish \/ LoadArtwork
  BY <1>2 DEF ListNames, Publish, LoadArtwork
<1>3. CASE Disconnect
  BY <1>3 DEF Disconnect, ConnectionFails
<1>4. CASE Stop \/ BeginConnecting \/ Connect \/ WaitOver \/ Wake
  BY <1>4 DEF Stop, BeginConnecting, Connect, WaitOver, Wake, refreshVars
<1>5. ASSUME UNCHANGED <<phase, refreshVars>> PROVE Bounds'
  BY <1>5 DEF refreshVars
<1>6. CASE BusChanges \/ Cancel \/ UNCHANGED vars \/ \E name \in Players : PlayerChanges(name)
  BY <1>5, <1>6 DEF BusChanges, Cancel, PlayerChanges, vars
<1>. QED  BY <1>1, <1>2, <1>3, <1>4, <1>6 DEF Next, ConnectionStep, RefreshStep

\* What is shown depends on the players only.
LEMMA ExactInductive ==
    ASSUME TypeOK, ReadInv, Bounds, Exact, [Next]_vars, UNCHANGED <<player, bus>>
    PROVE  Exact'
<1>. USE DEF Exact
<1>1. Shown' = Shown /\ \A name \in Players : ReadOf(name)' = ReadOf(name)
  BY DEF Shown, ReadOf
<1>2. candidate \in [Players -> CandidateReads] /\ toRead \subseteq Players /\ NoPlayer \notin Players
  BY SnapshotAssumption DEF TypeOK, CandidateReads
<1>3. ASSUME link' # "broken", phase' \notin {"reading", "loading"} PROVE Exact'
  BY <1>3
<1>4. ASSUME UNCHANGED <<link, phase, toRead, half, candidate>> PROVE Exact'
  BY <1>1, <1>4
<1>5. CASE ListNames
  <2>1. /\ phase' = "reading" /\ link' = "live" /\ bus' = "up" /\ candidate' = Unread
        /\ half' = NoPlayer /\ toRead' = {name \in Players : player[name] # Absent}
    BY <1>5 DEF ListNames, Bounds, ReadInv
  <2>2. \A name \in Players \ toRead' : candidate'[name] = Skipped /\ name \notin Shown
    BY <2>1 DEF Unread, Shown, Absent
  <2>. QED  BY <1>1, <2>1, <2>2 DEF ReadOf
<1>6. ASSUME NEW name \in Players, ReadStatus(name) PROVE Exact'
  <2>1. /\ phase = "reading" /\ half = NoPlayer /\ name \in toRead /\ Answers(name)
        /\ UNCHANGED <<link, phase>>
    BY <1>6 DEF ReadStatus
  <2>2. CASE player[name].activity = "other"
    <3>1. toRead' = toRead \ {name} /\ UNCHANGED <<half, candidate>>
      BY <1>6, <2>2 DEF ReadStatus
    <3>2. name \notin Shown /\ candidate[name] = Skipped
      BY <1>2, <2>1, <2>2 DEF Shown, ReadInv
    <3>. QED  BY <1>1, <2>1, <3>1, <3>2 DEF ReadOf
  <2>3. CASE player[name].activity # "other"
    <3>1. /\ half' = name /\ toRead' = toRead
          /\ candidate' = [candidate EXCEPT ![name].activity = player[name].activity]
      BY <1>6, <2>3 DEF ReadStatus
    <3>2. player[name].activity # "none"
      <4>1. player[name] \in PlayerStates /\ player[name] # Absent
        BY <2>1 DEF TypeOK, Answers
      <4>. QED  BY <4>1, SnapshotAssumption DEF PlayerStates, ReadableActivities
    <3>3. name \in Shown
      BY <2>1, <2>3, <3>2 DEF Shown, Answers
    <3>4. candidate'[name].activity = player[name].activity
      BY <1>2, <3>1 DEF CandidateReads
    <3>5. \A other \in Players \ toRead' : candidate'[other] = candidate[other]
      BY <1>2, <2>1, <3>1
    <3>. QED  BY <1>1, <2>1, <3>1, <3>3, <3>4, <3>5
  <2>. QED  BY <2>2, <2>3
<1>7. ASSUME NEW name \in Players, SkipPlayer(name) PROVE Exact'
  <2>1. /\ phase = "reading" /\ half = NoPlayer /\ name \in toRead /\ ~Answers(name)
        /\ toRead' = toRead \ {name} /\ UNCHANGED <<link, phase, half, candidate>>
    BY <1>7 DEF SkipPlayer
  <2>2. candidate[name] = Skipped
    BY <1>2, <2>1 DEF ReadInv
  <2>3. name \notin Shown
    BY <2>1 DEF Answers, Shown, Absent
  <2>. QED  BY <1>1, <2>1, <2>2, <2>3 DEF ReadOf
<1>8. ASSUME NEW name \in Players, ReadMetadata(name) PROVE Exact'
  <2>1. /\ phase = "reading" /\ half = name /\ half' = NoPlayer /\ toRead' = toRead \ {name}
        /\ candidate' = [candidate EXCEPT
              ![name] = IF Silent(name) THEN Skipped ELSE [@ EXCEPT !.track = MetadataOf(name)]]
        /\ UNCHANGED <<link, phase>>
    BY <1>8 DEF ReadMetadata
  <2>2. name \in Shown /\ candidate[name].activity = player[name].activity
    BY <1>2, <2>1
  <2>3. ~Silent(name) /\ Answers(name)
    BY <2>1, <2>2 DEF Silent, Answers, Shown, Absent
  <2>4. candidate'[name] = [candidate[name] EXCEPT !.track = player[name].track]
    BY <1>2, <2>1, <2>3 DEF MetadataOf
  <2>5. candidate'[name] = ReadOf(name)
    BY <1>2, <2>2, <2>4 DEF ReadOf, CandidateReads
  <2>6. \A other \in Players \ {name} : candidate'[other] = candidate[other]
    BY <1>2, <2>1
  <2>. QED  BY <1>1, <2>1, <2>5, <2>6
<1>9. CASE Publish \/ LoadArtwork
  <2>1. UNCHANGED <<link, toRead, half>> /\ phase \in {"reading", "loading"}
    BY <1>9 DEF Publish, LoadArtwork
  <2>2. CASE phase' = "idle"
    BY <1>3, <2>1, <2>2
  <2>3. CASE UNCHANGED candidate /\ phase' = "loading"
    BY <1>1, <2>1, <2>3
  <2>. QED  BY <1>9, <2>2, <2>3, PublishServes
<1>10. CASE Stop \/ ConnectionStep
  BY <1>3, <1>10 DEF Stop, ConnectionStep, BeginConnecting, Connect, Disconnect, WaitOver, Wake
<1>11. CASE Cancel \/ UNCHANGED vars \/ \E name \in Players : PlayerChanges(name)
  BY <1>4, <1>11 DEF Cancel, PlayerChanges, vars, refreshVars
<1>12. CASE BusChanges
  BY <1>12 DEF BusChanges
<1>. QED  BY <1>5, <1>6, <1>7, <1>8, <1>9, <1>10, <1>11, <1>12 DEF Next, RefreshStep

\* Of exactly what is there the right source is chosen, or the right reason
\* given for none.
LEMMA ChoiceAgrees ==
    ASSUME TypeOK, Exact, phase \in {"reading", "loading"}, toRead = {},
           NEW artwork, snapshot' = Selection(artwork), UNCHANGED <<strictPin, player, bus>>
    PROVE  Agrees'
<1>1. /\ Shown' = Shown /\ ShownPlaying' = ShownPlaying /\ bus' = "up"
      /\ \A name \in Players : Expected(name)' = Expected(name)
  BY DEF Exact, Shown, ShownPlaying, Expected
<1>2. /\ \A name \in Shown : /\ candidate[name].activity = player[name].activity
                             /\ candidate[name].track = player[name].track
      /\ \A name \in Players \ Shown : candidate[name].activity = "none"
  <2>1. \A name \in Players : candidate[name] = ReadOf(name)
    BY DEF Exact
  <2>2. ASSUME NEW name \in Shown PROVE /\ candidate[name].activity = player[name].activity
                                        /\ candidate[name].track = player[name].track
    <3>1. candidate[name] = [activity |-> player[name].activity, track |-> player[name].track]
      BY <2>1 DEF ReadOf, Shown
    <3>. QED  BY <3>1
  <2>3. ASSUME NEW name \in Players \ Shown PROVE candidate[name].activity = "none"
    <3>1. candidate[name] = Skipped
      BY <2>1 DEF ReadOf
    <3>. QED  BY <3>1 DEF Skipped
  <2>. QED  BY <2>2, <2>3
<1>3. Candidates = Shown /\ PlayingCandidates = ShownPlaying
  <2>1. \A name \in Players : candidate[name].activity # "none" <=> name \in Shown
    BY <1>2 DEF Shown
  <2>2. Candidates = Shown
    BY <2>1 DEF Candidates, Shown
  <2>. QED  BY <1>2, <2>2 DEF PlayingCandidates, ShownPlaying
<1>4. IsFiniteSet(Shown) /\ IsFiniteSet(ShownPlaying) /\ ShownPlaying \subseteq Shown /\ Shown \subseteq Players
  BY SnapshotAssumption, FS_Subset DEF Shown, ShownPlaying
<1>5. ASSUME NEW name \in Shown, Expected(name), NEW reason, snapshot' = Selected(name, reason, artwork)
      PROVE  Agrees'
  <2>1. candidate[name].activity = player[name].activity /\ candidate[name].track = player[name].track
    BY <1>2
  <2>2. /\ snapshot'.kind = "available" /\ snapshot'.source = name
        /\ snapshot'.activity = player[name].activity /\ snapshot'.track = player[name].track
    BY <1>5, <2>1 DEF Selected
  <2>3. Expected(name)'
    BY <1>1, <1>4, <1>5
  <2>. QED  BY <1>1, <2>2, <2>3 DEF Agrees
<1>6. ASSUME \A name \in Shown : ~Expected(name), NEW reason, reason # "native-session",
             snapshot' = IF strictPin = NoPlayer /\ Shown # {} THEN Ambiguous(reason) ELSE Unavailable(reason)
      PROVE  Agrees'
  <2>1. snapshot'.kind = IF strictPin = NoPlayer /\ Shown # {} THEN "ambiguous" ELSE "unavailable"
    BY <1>6 DEF Ambiguous, Unavailable
  <2>2. snapshot'.reason = reason /\ SessionUnavailable.reason = "native-session"
    BY <1>6 DEF Ambiguous, Unavailable, SessionUnavailable
  <2>3. ~\E name \in Shown' : Expected(name)'
    BY <1>1, <1>4, <1>6
  <2>. QED  BY <1>1, <1>6, <2>1, <2>2, <2>3 DEF Agrees
<1>7. CASE strictPin # NoPlayer
  <2>1. CASE strictPin \in Shown
    BY <1>3, <1>5, <1>7, <2>1 DEF Selection, Expected
  <2>2. CASE strictPin \notin Shown
    BY <1>3, <1>6, <1>7, <2>2 DEF Selection, Expected
  <2>. QED  BY <2>1, <2>2
<1>8. ASSUME NEW S, IsFiniteSet(S) PROVE /\ S = {} <=> Cardinality(S) = 0
                                         /\ Cardinality(S) = 1 <=> \E name : S = {name}
                                         /\ Cardinality(S) \in Nat
  BY <1>8, FS_EmptySet, FS_Singleton, FS_CardinalityType
<1>9. CASE strictPin = NoPlayer /\ ShownPlaying # {}
  <2>1. CASE Cardinality(ShownPlaying) = 1
    <3>1. PICK name : ShownPlaying = {name}
      BY <1>4, <1>8, <2>1
    <3>2. Selection(artwork) = Selected(name, "sole-playing", artwork)
      BY <1>3, <1>9, <2>1, <3>1 DEF Selection
    <3>3. name \in Shown /\ Expected(name)
      BY <1>4, <1>9, <3>1 DEF Expected
    <3>. QED  BY <1>5, <3>2, <3>3
  <2>2. CASE Cardinality(ShownPlaying) # 1
    <3>1. Cardinality(ShownPlaying) > 1
      <4>1. Cardinality(ShownPlaying) \in Nat /\ Cardinality(ShownPlaying) # 0
        BY <1>4, <1>8, <1>9
      <4>. QED  BY <2>2, <4>1
    <3>2. Selection(artwork) = Ambiguous("multiple-playing")
      BY <1>3, <1>9, <2>2, <3>1 DEF Selection
    <3>3. \A name \in Shown : ~Expected(name)
      BY <1>4, <1>8, <1>9, <2>2 DEF Expected
    <3>. QED  BY <1>4, <1>6, <1>9, <3>2, <3>3
  <2>. QED  BY <2>1, <2>2
<1>10. CASE strictPin = NoPlayer /\ ShownPlaying = {}
  <2>1. Selection(artwork) =
            CASE Shown = {} -> Unavailable("no-source")
              [] Cardinality(Shown) = 1 ->
                    Selected(CHOOSE name \in Shown : TRUE, "sole-non-playing", artwork)
              [] OTHER -> Ambiguous("multiple-non-playing")
    <3>1. Cardinality({}) = 0
      BY FS_EmptySet
    <3>. QED  BY <1>3, <1>10, <3>1 DEF Selection
  <2>2. CASE Shown = {}
    <3>1. Selection(artwork) = Unavailable("no-source")
      BY <2>1, <2>2, FS_EmptySet
    <3>2. snapshot' = IF strictPin = NoPlayer /\ Shown # {} THEN Ambiguous("no-source")
                      ELSE Unavailable("no-source")
      BY <2>2, <3>1
    <3>3. \A name \in Shown : ~Expected(name)
      BY <2>2
    <3>. QED  BY <1>6, <3>2, <3>3
  <2>3. CASE Shown # {} /\ Cardinality(Shown) = 1
    <3>1. PICK name : Shown = {name}
      BY <1>4, <1>8, <2>3
    <3>2. Selection(artwork) = Selected(name, "sole-non-playing", artwork)
      BY <2>1, <2>3, <3>1
    <3>3. Expected(name)
      BY <1>10, <3>1 DEF Expected
    <3>. QED  BY <1>5, <3>1, <3>2, <3>3
  <2>4. CASE Shown # {} /\ Cardinality(Shown) # 1
    <3>1. Selection(artwork) = Ambiguous("multiple-non-playing")
      BY <2>1, <2>4
    <3>2. \A name \in Shown : ~Expected(name)
      BY <1>4, <1>8, <1>10, <2>4 DEF Expected
    <3>. QED  BY <1>6, <1>10, <2>4, <3>1, <3>2
  <2>. QED  BY <2>2, <2>3, <2>4
<1>. QED  BY <1>7, <1>9, <1>10

\* In a world that keeps still, what is served agrees with it from the first
\* snapshot served on, and what agrees goes on doing so.
LEMMA StillAgrees ==
    ASSUME TypeOK, ReadInv, Bounds, Exact, [Next]_vars, UNCHANGED <<player, bus>>,
           Agrees \/ snapshot' # snapshot
    PROVE  Agrees'
<1>1. strictPin' = strictPin
  BY DEF Next, PlayerChanges, BusChanges, Cancel, Stop, ConnectionStep, BeginConnecting, Connect,
         Disconnect, WaitOver, Wake, RefreshStep, ListNames, ReadStatus, SkipPlayer, ReadMetadata,
         Publish, LoadArtwork, vars
<1>2. CASE snapshot' = snapshot
  BY <1>1, <1>2 DEF Agrees, Shown, Expected, ShownPlaying
<1>3. CASE Disconnect
  <2>1. bus' = "down" /\ snapshot' = SessionUnavailable
    BY <1>3 DEF Disconnect, ConnectionFails, Exact, Replace
  <2>. QED  BY <2>1 DEF Agrees
<1>4. CASE (Publish \/ LoadArtwork) /\ snapshot' # snapshot
  <2>1. PICK artwork : snapshot' = Selection(artwork)
    BY <1>4, SelectionTyped DEF Publish, LoadArtwork, Replace, servedVars
  <2>2. phase \in {"reading", "loading"} /\ toRead = {}
    BY <1>4 DEF Publish, LoadArtwork, Bounds
  <2>. QED  BY <1>1, <2>1, <2>2, ChoiceAgrees
<1>5. ASSUME ~Disconnect, ~Publish, ~LoadArtwork PROVE snapshot' = snapshot
  BY <1>5 DEF Next, PlayerChanges, BusChanges, Cancel, Stop, ConnectionStep, BeginConnecting, Connect,
              WaitOver, Wake, RefreshStep, ListNames, ReadStatus, SkipPlayer, ReadMetadata,
              servedVars, vars
<1>. QED  BY <1>2, <1>3, <1>4, <1>5

\* The bus and its players change no more.
KeepsStill == [][UNCHANGED <<player, bus>>]_vars

\* Once the bus and its players keep still and what overlapped their changes is
\* over, every snapshot served says what is there, whichever refreshes, failed
\* reads and lost connections come in between, and none is ever served again
\* that does not (read_candidates, select_source, drive_connection).
THEOREM AgreesWhileStill ==
    Spec => [](Settled /\ KeepsStill => [][Agrees \/ snapshot' # snapshot => Agrees']_vars)
<1>1. Spec => [](TypeOK /\ ReadInv /\ Bounds)
  BY TypeInit, TypeInductive, ReadInit, ReadInductive, BoundsInit, BoundsInductive, PTL DEF Spec
<1>2. Settled => Exact
  BY DEF Settled, Exact
<1>3. TypeOK /\ ReadInv /\ Bounds /\ Exact /\ [Next]_vars /\ [UNCHANGED <<player, bus>>]_vars => Exact'
  BY ExactInductive DEF vars, worldVars
<1>4. TypeOK /\ ReadInv /\ Bounds /\ Exact /\ [Next]_vars /\ [UNCHANGED <<player, bus>>]_vars
          => [Agrees \/ snapshot' # snapshot => Agrees']_vars
  BY StillAgrees DEF vars, worldVars
<1>. QED  BY <1>1, <1>2, <1>3, <1>4, PTL DEF Spec, KeepsStill
=============================================================================
