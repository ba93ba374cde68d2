---------------------------- MODULE MC_NoteSave ----------------------------
(* Small instances of NoteSave for TLC. *)
EXTENDS NoteSave

\* Nothing is promised for the meetings that NeverGoesBack exempts.
Uncontested == contested = {}
=============================================================================
