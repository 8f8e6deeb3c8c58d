----------------------------- MODULE MCRuntime -----------------------------
(* Small instances of Runtime. *)
EXTENDS Runtime, TLC

CONSTANTS d1, d2

MCDevices == {d1, d2}
=============================================================================
