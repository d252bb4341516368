---------------------------- MODULE MCOverlayFrame ----------------------------
(***************************************************************************)
(* Constant values for checking OverlayFrame: a song, the same song after  *)
(* its title was corrected, and an episode; local playback with and        *)
(* without a creator.  Titles are too long, long and short, and a line may *)
(* be empty.                                                               *)
(***************************************************************************)
EXTENDS OverlayFrame

CONSTANTS song, corrected, talk, tune, hum, cover

MCItems == {song, corrected, talk}
MCIdOf == [item \in MCItems |-> IF item = talk THEN "talk" ELSE "song"]
MCArtworkUrl == [item \in MCItems |-> IF item = talk THEN NoArtwork ELSE cover]

MCWidthOf(text) ==
    CASE text = <<song, "title">> -> 5000
      [] text = <<tune, "creator">> -> 2000
      [] text = <<talk, "creator">> -> 0
      [] OTHER -> 500

MCHostedEvents ==
    {Event("authorization-available", NoDetail), Event("playback-empty", NoDetail),
     Event("connection-lost", NoDetail), Event("failure", "network")}
    \cup {Event("playback-playing", item) : item \in MCItems}
    \cup {Event("playback-paused", song)}

MCLocalViews ==
    {LocalView("content", tune, "playing", cover, NoDetail),
     LocalView("content", tune, "playing", NoArtwork, NoDetail),
     LocalView("content", hum, "playing", NoArtwork, NoDetail),
     LocalView("stale-content", tune, "playing", cover, "no-source"),
     LocalStatusView("unavailable", "no-source"), LocalStatusView("idle", NoDetail)}

\* A setup page of a width, and one whose width is out of range.
MCQueries ==
    {[others |-> FALSE, setups |-> <<"1">>, widths |-> <<[form |-> "whole", value |-> 2160]>>],
     [others |-> FALSE, setups |-> <<"1">>, widths |-> <<[form |-> "whole", value |-> 8000]>>]}
=============================================================================
