----------------------------- MODULE HostProcess -----------------------------
(***************************************************************************)
(* What a host process of the local display promises the native process    *)
(* that starts it, and the pages it serves: the abstract specification of  *)
(* apps/host/src/local as crates/phrasic/src/platform/linux.rs relies on   *)
(* it.  Whatever it reads from its control input, it revokes its sessions  *)
(* before it stops, and it lets at most one page in, ever.                 *)
(***************************************************************************)
EXTENDS Sequences

VARIABLES
    stage,       \* absent, starting, serving, revoked, stopping, exited
    session,     \* none, paired or over
    control,     \* lines written to the host and not yet read
    closed       \* no more lines will be written

vars == <<stage, session, control, closed>>

Lines == {"REVOKE_SESSIONS", "SHUTDOWN", "other"}

Init ==
    /\ stage = "absent"
    /\ session = "none"
    /\ control = <<>>
    /\ closed = FALSE

-----------------------------------------------------------------------------
(* The process that starts it.                                              *)

Spawn ==
    /\ stage = "absent"
    /\ stage' = "starting"
    /\ UNCHANGED <<session, control, closed>>

Write ==
    /\ stage # "absent"
    /\ ~closed
    /\ \/ (\E line \in Lines : control' = Append(control, line)) /\ UNCHANGED closed
       \/ closed' = TRUE /\ UNCHANGED control
    /\ UNCHANGED <<stage, session>>

-----------------------------------------------------------------------------
(* The host.                                                                *)

Serve ==
    /\ stage = "starting"
    /\ stage' = "serving"
    /\ UNCHANGED <<session, control, closed>>

Pair ==
    /\ stage = "serving"
    /\ session = "none"
    /\ session' = "paired"
    /\ UNCHANGED <<stage, control, closed>>

\* The capability outlives its time.
Expire ==
    /\ stage = "serving"
    /\ session = "none"
    /\ session' = "over"
    /\ UNCHANGED <<stage, control, closed>>

ReadRevoke ==
    /\ stage = "serving"
    /\ control # <<>> /\ Head(control) = "REVOKE_SESSIONS"
    /\ stage' = "revoked"
    /\ session' = "over"
    /\ control' = Tail(control)
    /\ UNCHANGED closed

\* Told to, told nonsense, or left alone.
Stop ==
    /\ stage \in {"serving", "revoked"}
    /\ \/ /\ control # <<>>
          /\ stage = "serving" => Head(control) # "REVOKE_SESSIONS"
          /\ control' = Tail(control)
       \/ control = <<>> /\ closed /\ UNCHANGED control
    /\ stage' = "stopping"
    /\ session' = "over"
    /\ UNCHANGED closed

\* It ends, fails to start, crashes or is killed.
Exit ==
    /\ stage \in {"starting", "serving", "revoked", "stopping"}
    /\ stage' = "exited"
    /\ session' = "over"
    /\ UNCHANGED <<control, closed>>

Next ==
    \/ Spawn \/ Write
    \/ Serve \/ Pair \/ Expire \/ ReadRevoke \/ Stop \/ Exit

Spec == Init /\ [][Next]_vars
=============================================================================
