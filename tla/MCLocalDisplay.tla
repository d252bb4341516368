--------------------------- MODULE MCLocalDisplay ---------------------------
(* The local display with the durations of the code on a coarse scale: the  *)
(* order of the thresholds is kept, their distances are not.                *)
EXTENDS LocalDisplay

MCRetryDelays == <<1, 2>>
=============================================================================
