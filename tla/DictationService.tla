-------------------------- MODULE DictationService --------------------------
(***************************************************************************)
(* What the main process of the dictation program may rely on: of the      *)
(* dictations that it asks for, one at a time records; each begins at most *)
(* once, after the one before it was reported done; and each that began is *)
(* reported done exactly once.  Module Dictation implements this.          *)
(***************************************************************************)
EXTENDS Naturals

CONSTANT Sessions  \* the dictations, each with its transcriptionEntityUuid

VARIABLES
  phase,     \* "new", "recording", "ended" or "refused"
  reported   \* how often RecordingDone was sent for each dictation

vars == <<phase, reported>>

Init ==
  /\ phase = [u \in Sessions |-> "new"]
  /\ reported = [u \in Sessions |-> 0]

Begin(u) ==
  /\ phase[u] = "new"
  /\ \A v \in Sessions : phase[v] # "recording"
  /\ phase' = [phase EXCEPT ![u] = "recording"]
  /\ UNCHANGED reported

Refuse(u) ==
  /\ phase[u] = "new"
  /\ phase' = [phase EXCEPT ![u] = "refused"]
  /\ UNCHANGED reported

End(u) ==
  /\ phase[u] = "recording"
  /\ phase' = [phase EXCEPT ![u] = "ended"]
  /\ reported' = [reported EXCEPT ![u] = 1]

Next == \E u \in Sessions : Begin(u) \/ Refuse(u) \/ End(u)

Spec == Init /\ [][Next]_vars
=============================================================================
