SPECIFICATION FairSpec
CONSTANTS
    player1 = player1
    player2 = player2
    song = song
    speech = speech
    cover = cover
    portrait = portrait
    Players <- MCPlayers
    NoPlayer = NoPlayer
    Pins <- MCPins
    Activities = {"Playing", "Paused", "other"}
    Tracks <- MCTracks
    NoTrack = NoTrack
    ArtOf <- MCArtOf
    NoArt = NoArt
    LastRevision = 1
    MaxChanges = 2
INVARIANTS
    ArtworkBelongs
    ReadAsServed
PROPERTIES
    ServedAsObserved
    AgreesInTheEnd
    StopsOnShutdown
CHECK_DEADLOCK FALSE
