-------------------------- MODULE MCPlaybackWorker --------------------------
(***************************************************************************)
(* Constant values for checking PlaybackWorker.                            *)
(***************************************************************************)
EXTENDS PlaybackWorker

CONSTANT song

MCItems == {song}

\* A page that never posts a sign-in callback to a connected display, on a
\* platform whose clock and timers work.
PageCommands == AllCommands \ {"consume-callback"}
=============================================================================
