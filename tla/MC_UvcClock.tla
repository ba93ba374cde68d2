----------------------------- MODULE MC_UvcClock -----------------------------
(* Small instances of UvcClock for TLC. *)
EXTENDS UvcClock
=============================================================================
