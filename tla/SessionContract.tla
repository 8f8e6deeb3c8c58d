--------------------------- MODULE SessionContract ---------------------------
(***************************************************************************)
(* What an application may rely on when it follows a session:               *)
(*   - the session state changes it hears of are a walk of the OpenXR       *)
(*     lifecycle, without gaps, each session starting from IDLE;            *)
(*   - a session runs once: frames are accepted between xrBeginSession and  *)
(*     the return to IDLE, and never again until the session is destroyed;  *)
(*   - when it hears EXITING, frames are no longer accepted.                *)
(***************************************************************************)
EXTENDS Naturals

VARIABLES
    sessions,   (* how many sessions were created                            *)
    phase,      (* none, created, running (frames are accepted), ended       *)
    heard       (* the last session event: <<session, state>>                *)

vars == <<sessions, phase, heard>>

(* The edges of the OpenXR session lifecycle. *)
Lifecycle ==
    {<<"IDLE", "READY">>, <<"READY", "SYNCHRONIZED">>,
     <<"SYNCHRONIZED", "VISIBLE">>, <<"VISIBLE", "FOCUSED">>,
     <<"FOCUSED", "VISIBLE">>, <<"VISIBLE", "SYNCHRONIZED">>,
     <<"SYNCHRONIZED", "STOPPING">>, <<"STOPPING", "IDLE">>,
     <<"IDLE", "EXITING">>}

Follows(e, f) ==
    \/ f[1] = e[1] /\ <<e[2], f[2]>> \in Lifecycle
    \/ f = <<e[1] + 1, "IDLE">>

Init == sessions = 0 /\ phase = "none" /\ heard = <<0, "UNKNOWN">>

Create ==
    /\ phase = "none"
    /\ phase' = "created" /\ sessions' = sessions + 1
    /\ UNCHANGED heard

Begin == phase = "created" /\ phase' = "running" /\ UNCHANGED <<sessions, heard>>

End == phase = "running" /\ phase' = "ended" /\ UNCHANGED <<sessions, heard>>

Destroy == phase # "none" /\ phase' = "none" /\ UNCHANGED <<sessions, heard>>

Hear ==
    /\ Follows(heard, heard')
    /\ heard' = <<sessions, "EXITING">> => phase \in {"ended", "none"}
    /\ UNCHANGED <<sessions, phase>>

Next == Create \/ Begin \/ End \/ Destroy \/ Hear

Spec == Init /\ [][Next]_vars
=============================================================================
