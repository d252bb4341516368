-------------------------- MODULE MCNativeSnapshot --------------------------
(***************************************************************************)
(* Constant values for checking NativeSnapshot: two players, one track     *)
(* with artwork and one without it or with another one, a revision that    *)
(* reaches its width.                                                      *)
(***************************************************************************)
EXTENDS NativeSnapshot

CONSTANTS player1, player2, song, speech, cover, portrait

MCPins == {player1, NoPlayer}
MCPlayers == {player1, player2}
MCTracks == {song, speech}
MCArtOf == [track \in {song, speech, NoTrack} |->
               CASE track = song -> cover [] track = speech -> portrait [] OTHER -> NoArt]
=============================================================================
