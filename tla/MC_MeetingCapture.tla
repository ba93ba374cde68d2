------------------------- MODULE MC_MeetingCapture -------------------------
(* Small instances of MeetingCapture for TLC. *)
EXTENDS MeetingCapture, TLC

CONSTANTS e1, e2

MCSessions == {e1, e2}

\* Two meetings, and one during which the recovery may be at work.
TwoOrRescued == [on \in BOOLEAN |-> IF on THEN {e1} ELSE {e1, e2}]
=============================================================================
