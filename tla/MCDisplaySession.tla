-------------------------- MODULE MCDisplaySession --------------------------
(***************************************************************************)
(* Constant values for checking DisplaySession.  What exactly is playing   *)
(* does not matter to the channels, so nothing playable is enumerated:     *)
(* polls find an empty or an unsupported player.                           *)
(***************************************************************************)
EXTENDS DisplaySession

NoItems == {}
=============================================================================
