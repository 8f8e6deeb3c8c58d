---------------------------- MODULE FrameContract ----------------------------
(***************************************************************************)
(* What the frame loop promises an application and the compositor,          *)
(* whichever thread submits and however the calls interleave:               *)
(*   - frames are waited for, begun and completed in that order, at most    *)
(*     one of them waited for and not begun;                                *)
(*   - a frame completed while another one was begun and never ended stands *)
(*     for both (the earlier one was discarded);                            *)
(*   - the layers of a completed frame are shown once, before those of any  *)
(*     later frame are taken, except that the very first frame of a session *)
(*     may be forfeited.                                                    *)
(***************************************************************************)
EXTENDS Naturals

VARIABLES
    waited, begun, completed,  (* frame counters, numbered from 1 in a session *)
    inFlight,   (* the completed frame whose layers are still to be shown, or 0 *)
    shown,      (* the last frame shown                                     *)
    forfeits    (* how many completed frames were never shown               *)

vars == <<waited, begun, completed, inFlight, shown, forfeits>>

Init ==
    /\ waited = 0 /\ begun = 0 /\ completed = 0
    /\ inFlight = 0 /\ shown = 0 /\ forfeits = 0

Wait ==
    /\ waited = begun
    /\ waited' = waited + 1
    /\ UNCHANGED <<begun, completed, inFlight, shown, forfeits>>

Begin ==
    /\ begun < waited
    /\ begun' = waited
    /\ UNCHANGED <<waited, completed, inFlight, shown, forfeits>>

(* The frame is shown before the call returns. *)
EndAndShow ==
    /\ completed < begun
    /\ inFlight = 0
    /\ completed' = begun
    /\ shown' = begun
    /\ UNCHANGED <<waited, begun, inFlight, forfeits>>

(* The frame is left to be shown later. *)
EndAndLeave ==
    /\ completed < begun
    /\ inFlight = 0
    /\ completed' = begun
    /\ inFlight' = begun
    /\ UNCHANGED <<waited, begun, shown, forfeits>>

Show ==
    /\ inFlight # 0
    /\ shown' = inFlight
    /\ inFlight' = 0
    /\ UNCHANGED <<waited, begun, completed, forfeits>>

ForfeitFirst ==
    /\ inFlight # 0
    /\ shown = 0 /\ forfeits = 0
    /\ forfeits' = 1
    /\ inFlight' = 0
    /\ UNCHANGED <<waited, begun, completed, shown>>

(* A new session starts over; a frame in flight goes down with the old one. *)
StartOver ==
    /\ waited' = 0 /\ begun' = 0 /\ completed' = 0
    /\ inFlight' = 0 /\ shown' = 0 /\ forfeits' = 0

Next ==
    \/ Wait \/ Begin \/ EndAndShow \/ EndAndLeave \/ Show \/ ForfeitFirst
    \/ StartOver

Spec == Init /\ [][Next]_vars
=============================================================================
