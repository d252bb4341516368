---------------------- MODULE MCSpotifyAuthorization ------------------------
(***************************************************************************)
(* Constant values for checking SpotifyAuthorization.                      *)
(***************************************************************************)
EXTENDS SpotifyAuthorization, TLC

TabSymmetry == Permutations(Tabs) \cup Permutations(Attempts)
=============================================================================
