------------------------ MODULE MCNativeSupervisor ------------------------
(***************************************************************************)
(* Constant values for checking NativeSupervisor: two processes, of which  *)
(* one may crash and the other be its restart, or run at the same time.    *)
(***************************************************************************)
EXTENDS NativeSupervisor
=============================================================================
