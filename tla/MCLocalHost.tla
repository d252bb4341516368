----------------------------- MODULE MCLocalHost -----------------------------
(***************************************************************************)
(* Constant values for checking LocalHost: more calls than places, and two *)
(* clients that know the capability.                                       *)
(***************************************************************************)
EXTENDS LocalHost
=============================================================================
