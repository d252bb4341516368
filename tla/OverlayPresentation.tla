------------------------- MODULE OverlayPresentation -------------------------
(***************************************************************************)
(* What the two displays draw for a snapshot: the hosted display of a      *)
(* playback state (components/overlay) and the local display of a          *)
(* presentation (components/local).  These are the tables the components   *)
(* are made of: the identity that tells one picture from the next, the     *)
(* texts on its lines, artwork, links, announcement and controls, and the  *)
(* arithmetic of the shell's width.                                        *)
(*                                                                         *)
(* A text is a tuple of what it is made from; its width is WidthOf(text).  *)
(***************************************************************************)
EXTENDS PlaybackDomain, Naturals, Sequences, FiniteSetsExt

CONSTANTS
    IdOf,           \* per item: its identity at the provider
    Episodes,       \* the items that are episodes; the others are tracks
    ArtworkUrl,     \* per item: the URL of its artwork, or NoArtwork
    NoArtwork,
    Linked,         \* the items all of whose parts have a link of the provider
    LocalItems,     \* metadata of local playback, artwork apart
    Creators,       \* the local items with a creator
    Collections,    \* the local items with a collection
    LocalArtworks,  \* artwork of local playback; NoArtwork where it has none
    WidthOf(_)      \* the width of a text as drawn

ASSUME PresentationAssumption ==
    /\ NoDetail \notin Items
    /\ Episodes \subseteq Items /\ Linked \subseteq Items
    /\ Creators \subseteq LocalItems /\ Collections \subseteq LocalItems
    /\ NoArtwork \in LocalArtworks

Displays == {"hosted", "local"}

FatalReasons == {"browser-capability-unavailable", "configuration-unavailable"}

\* BrowserPlaybackApplicationSnapshot: what is playing or paused is an item, and
\* what is reconnected to may be one.
HostedSnapshots ==
    {state \in PlaybackStates :
        /\ state.kind \in {"playing", "paused"} => state.detail \in Items
        /\ state.kind = "reconnecting" => state.detail \in Items \cup {NoDetail}}
    \cup {State("fatal", reason) : reason \in FatalReasons}

LocalStatuses ==
    {"ambiguous-sources", "incompatible-api", "native-session-unavailable", "no-source",
     "strict-pin-unavailable", "unsupported-platform"}

Activities == {"paused", "playing", "stopped"}

\* LocalPlaybackView
LocalView(kind, item, activity, artwork, status) ==
    [kind |-> kind, item |-> item, activity |-> activity, artwork |-> artwork, status |-> status]

LocalStatusView(kind, status) == LocalView(kind, NoDetail, NoDetail, NoArtwork, status)

LocalSnapshots ==
    {LocalView("content", item, activity, artwork, NoDetail) :
        item \in LocalItems, activity \in Activities, artwork \in LocalArtworks}
    \cup {LocalView("stale-content", item, activity, artwork, status) :
        item \in LocalItems, activity \in Activities, artwork \in LocalArtworks, status \in LocalStatuses}
    \cup {LocalStatusView(kind, NoDetail) : kind \in {"idle", "metadata-unavailable"}}
    \cup {LocalStatusView("unavailable", status) : status \in LocalStatuses}

Snapshots(display) == IF display = "hosted" THEN HostedSnapshots ELSE LocalSnapshots

-----------------------------------------------------------------------------
(* Identities.                                                              *)

\* An item keeps its identity while it is paused or the connection is lost.
OverlayAnimationIdentity(snapshot) ==
    LET item == CurrentItem(snapshot) IN
    IF item # NoDetail THEN <<"item", IdOf[item]>>
    ELSE <<"state", snapshot.kind, snapshot.detail>>

\* Everything but the artwork tells two local presentations apart.
LocalAnimationIdentity(view) == <<view.kind, view.item, view.activity, view.status>>

AnimationIdentity(display, snapshot) ==
    IF display = "hosted" THEN OverlayAnimationIdentity(snapshot)
    ELSE LocalAnimationIdentity(snapshot)

-----------------------------------------------------------------------------
(* The lines of text.                                                       *)

Lines == {"creator", "title", "detail", "context"}

StatusTexts(kind, reason) == [line \in Lines |-> <<kind, reason, line>>]

\* The context line tells how current the item is, the others only what it is.
ItemTexts(kind, item) ==
    [line \in Lines |->
        IF line = "context" THEN <<kind, IF item \in Episodes THEN "EPISODE" ELSE "TRACK">>
        ELSE <<item, line>>]

OverlayTexts(snapshot) ==
    LET item == CurrentItem(snapshot) IN
    IF item # NoDetail THEN ItemTexts(snapshot.kind, item)
    ELSE StatusTexts(snapshot.kind, snapshot.detail)

\* A local item's optional lines are left out with its metadata.
LocalItemTexts(view) ==
    [line \in {"title", "context"}
              \cup (IF view.item \in Creators THEN {"creator"} ELSE {})
              \cup (IF view.item \in Collections THEN {"detail"} ELSE {}) |->
        IF line = "context"
        THEN <<view.kind, IF view.kind = "content" THEN view.activity ELSE NoDetail>>
        ELSE <<view.item, line>>]

LocalTexts(view) ==
    IF view.item # NoDetail THEN LocalItemTexts(view)
    ELSE IF view.kind = "idle" THEN [line \in {} |-> <<>>]
    ELSE StatusTexts(view.kind, view.status)

Texts(display, snapshot) ==
    IF display = "hosted" THEN OverlayTexts(snapshot) ELSE LocalTexts(snapshot)

\* The width of a text's bounding box as drawn, in whole units of the view box.
ASSUME WidthAssumption ==
    \A display \in Displays : \A snapshot \in Snapshots(display) :
        \A line \in DOMAIN Texts(display, snapshot) : WidthOf(Texts(display, snapshot)[line]) \in Nat

-----------------------------------------------------------------------------
(* Artwork, links, announcement and controls.                               *)

OverlayArtwork(snapshot) ==
    LET item == CurrentItem(snapshot) IN
    IF item # NoDetail THEN ArtworkUrl[item] ELSE NoArtwork

Artwork(display, snapshot) ==
    IF display = "hosted" THEN OverlayArtwork(snapshot) ELSE snapshot.artwork

\* All the links of an item or, when the provider lacks one of them, none.
ItemDestinations(item) ==
    IF item \notin Linked THEN {}
    ELSE {IdOf[item]} \X (IF item \in Episodes THEN {"episode", "show"}
                          ELSE {"track", "creator", "album"})

Destinations(display, snapshot) ==
    IF display = "local" \/ CurrentItem(snapshot) = NoDetail THEN {}
    ELSE ItemDestinations(CurrentItem(snapshot))

\* What a reader of the screen is told of: terms and what each is made from.
ItemTerms(item) ==
    IF item \in Episodes THEN {"Episode", "Show", "Publisher"} ELSE {"Track", "Artists", "Album"}

OverlayDefinitions(snapshot) ==
    LET item == CurrentItem(snapshot)
        about == IF item = NoDetail THEN {"Details", "Guidance"} ELSE ItemTerms(item)
    IN [term \in {"Playback state", "Status"} \cup about
                 \cup (IF item = NoDetail THEN {} ELSE {"Metadata freshness"}) |->
           IF term \in ItemTerms(item) THEN item
           ELSE IF item = NoDetail THEN <<snapshot.kind, snapshot.detail>> ELSE <<snapshot.kind>>]

LocalDefinitions(view) ==
    [term \in {"Playback state", "Status", "Connection behavior"}
              \cup (IF view.item # NoDetail THEN {"Title"} ELSE {})
              \cup (IF view.item \in Creators THEN {"Creator"} ELSE {})
              \cup (IF view.item \in Collections THEN {"Collection"} ELSE {}) |->
        IF term \in {"Title", "Creator", "Collection"} THEN view.item
        ELSE <<view.kind, view.activity, view.status>>]

Definitions(display, snapshot) ==
    IF display = "hosted" THEN OverlayDefinitions(snapshot) ELSE LocalDefinitions(snapshot)

\* What the live region says: the status, or how current which item is.
Announcement(display, snapshot) ==
    IF display = "hosted"
    THEN <<snapshot.kind, IF CurrentItem(snapshot) # NoDetail THEN CurrentItem(snapshot) ELSE snapshot.detail>>
    ELSE <<snapshot.kind, snapshot.activity, snapshot.status>>

\* The controls of the setup page; the overlay itself only offers to connect.
SetupControls(kind) ==
    CASE kind = "authorization-required" -> {"begin-authorization"}
      [] kind \in {"authorizing", "empty", "playing", "paused", "unsupported"} -> {"logout"}
      [] kind \in {"reconnecting", "failure"} -> {"retry", "logout"}
      [] OTHER -> {}

Controls(display, snapshot, setup) ==
    IF display = "local" THEN {}
    ELSE IF setup THEN SetupControls(snapshot.kind)
    ELSE SetupControls(snapshot.kind) \cap {"begin-authorization"}

-----------------------------------------------------------------------------
(* Widths.                                                                  *)

MinimumWidth == 1080
MaximumWidth == 4725
MetadataX == 1380
RightPadding == 200

NoWidths == [line \in Lines |-> 0]

BoundedTextWidth(width) == IF width > MaximumWidth THEN MaximumWidth ELSE width

Clamp(width) ==
    IF width < MinimumWidth THEN MinimumWidth
    ELSE IF width > MaximumWidth THEN MaximumWidth ELSE width

\* A shell without text is closed around its artwork.
ShellWidth(widths) ==
    LET widest == Max({widths[line] : line \in Lines}) IN
    IF widest = 0 THEN MinimumWidth ELSE Clamp(MetadataX + widest + RightPadding)

AvailableWidth(shellWidth) ==
    IF shellWidth < MetadataX + RightPadding THEN 0
    ELSE shellWidth - MetadataX - RightPadding

\* marqueeDecisionForTextBounds
Overflows(text, available) == WidthOf(text) > available

\* How a line is drawn by what was decided when this much was available: it
\* stands still, runs through, or is shrunk to fit.
DrawnAs(motion, overflows, available) ==
    CASE ~overflows -> "still"
      [] overflows /\ motion = "enabled" -> "moving"
      [] OTHER -> IF available > 0 THEN "shrunk" ELSE "still"

-----------------------------------------------------------------------------
(* The page's query: a width and setup=1, each at most once.                *)

DefaultDisplayWidth == 1920
DisplayWidths == 320..7680

\* What is wrong with a query whose parameters have these values.
QueryProblem(query) ==
    CASE query.others -> "unsupported-display-query"
      [] Len(query.widths) > 1 \/ Len(query.setups) > 1 -> "repeated-display-query-parameter"
      [] query.setups # <<>> /\ query.setups # <<"1">> -> "unsupported-display-query"
      [] query.widths = <<>> -> "none"
      [] query.widths[1].form = "fraction" -> "fractional-display-width"
      [] query.widths[1].form = "other" -> "malformed-display-width"
      [] query.widths[1].form = "unsafe" -> "unsafe-display-width"
      [] OTHER -> IF query.widths[1].value \in DisplayWidths THEN "none" ELSE "out-of-range-display-width"

\* One problem and the page is the overlay of its default width.
ResolveOverlayGeometry(query) ==
    LET valid == QueryProblem(query) = "none" IN
    [diagnostic |-> QueryProblem(query),
     setup |-> valid /\ query.setups # <<>>,
     width |-> IF valid /\ query.widths # <<>> THEN query.widths[1].value ELSE DefaultDisplayWidth]
=============================================================================
