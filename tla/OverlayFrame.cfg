SPECIFICATION FairSpec
CONSTANTS
    song = song
    corrected = corrected
    talk = talk
    tune = tune
    hum = hum
    cover = cover
    Items <- MCItems
    IdOf <- MCIdOf
    Episodes = {talk}
    ArtworkUrl <- MCArtworkUrl
    NoArtwork = NoArtwork
    Linked = {song, corrected}
    LocalItems = {tune, hum}
    Creators = {tune}
    Collections = {}
    LocalArtworks = {cover, NoArtwork}
    WidthOf <- MCWidthOf
    HostedEvents <- MCHostedEvents
    LocalViews <- MCLocalViews
    Queries <- MCQueries
    MaxUpdates = 3
INVARIANTS
    RestsOnCurrent
    SizedByItsTexts
PROPERTIES
    ChangesBehindShell
    SettlesOnCurrent
CHECK_DEADLOCK FALSE
