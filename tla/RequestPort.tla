---------------------------- MODULE RequestPort ----------------------------
(***************************************************************************)
(* What the worker's models take for granted of a request to the provider, *)
(* whatever the network does: it has one answer, one the caller knows what *)
(* to do with, and once it is over - its caller gave it up, or its time    *)
(* has passed - the answer can only be that there was none.                *)
(***************************************************************************)
EXTENDS SpotifyAnswers

VARIABLES call, over, result

vars == <<call, over, result>>

Calls == {"poll", "exchange", "refresh"}

NoCall == "none"

Init == call = NoCall /\ over = FALSE /\ result = NoResult

\* A request may be over before it begins, and may fail to begin.
Ask ==
    /\ call = NoCall
    /\ call' \in Calls
    /\ over' \in BOOLEAN
    /\ result' \in {NoResult, Unreachable(call')}

End ==
    /\ call # NoCall
    /\ result = NoResult
    /\ over = FALSE
    /\ over' = TRUE
    /\ UNCHANGED <<call, result>>

Return ==
    /\ call # NoCall
    /\ result = NoResult
    /\ Promised(call, result')
    /\ over => result' = Unreachable(call)
    /\ UNCHANGED <<call, over>>

Take == result # NoResult /\ Init'

Next == Ask \/ End \/ Return \/ Take

Spec == Init /\ [][Next]_vars
=============================================================================
