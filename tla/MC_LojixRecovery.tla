------------------------- MODULE MC_LojixRecovery -------------------------
(* Small instances of LojixRecovery for TLC. *)
EXTENDS LojixRecovery

NoSidecars == <<>>
OneSidecar == <<".schema-v3.pending">>
=============================================================================
