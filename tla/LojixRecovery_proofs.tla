----------------------- MODULE LojixRecovery_proofs -----------------------
(***************************************************************************)
(* Theorems about the recovery helper, for every set of operators, every   *)
(* list of sidecars, every set of faults and every bound.                  *)
(***************************************************************************)
EXTENDS LojixRecovery, TLAPS

\* The cursors of a shell are within bounds wherever a command uses them.
SideLabels == {"sideChown", "sideChmod", "sideMove", "sideFlag"}

CursorsInRange ==
  \A p \in Procs :
    /\ pc[p] \in {"lock", "preflight"} => sh[p].step <= Len(Artefacts)
    /\ pc[p] \in SideLabels => sh[p].side <= Len(Sidecars)

TypeInv == TypeOK /\ CursorsInRange

LEMMA ArtefactsLength == Len(Artefacts) = 11 /\ DOMAIN Artefacts = 1..11
  BY DEF Artefacts

LEMMA SidecarsLength == Len(Sidecars) \in Nat /\ DOMAIN Sidecars = 1..Len(Sidecars)
  BY SidecarsAssumption

LEMMA ShellIsRecord == ASSUME NEW mode \in Modes PROVE Shell(mode) \in ShellRecord
  BY ArtefactsLength, SidecarsLength DEF Shell, ShellRecord

LEMMA NoFileIsRecord == NoFile \in FileRecord
  BY DEF NoFile, FileRecord

LEMMA InitType == Init => TypeInv
  <1> SUFFICES ASSUME Init PROVE TypeInv
    OBVIOUS
  <1>1. "preflight" \in Modes
    BY DEF Modes
  <1>2. ScriptTypeOK
    BY <1>1, ShellIsRecord DEF Init, ScriptTypeOK, Labels
  <1>3. file \in [Files -> FileRecord]
    <2>1. PICK present \in SUBSET SidecarNames : file = StoreFiles(present)
      BY DEF Init
    <2>2. ASSUME NEW f \in SidecarNames
          PROVE  (CHOOSE i \in DOMAIN Sidecars : Sidecars[i] = f) \in Nat
      BY SidecarsLength DEF SidecarNames
    <2>3. ASSUME NEW f \in Files PROVE StoreFiles(present)[f] \in FileRecord
      <3>1. CASE f = "store"
        BY <3>1 DEF StoreFiles, FileRecord, Versions
      <3>2. CASE f # "store" /\ f \in present
        <4>1. (CHOOSE i \in DOMAIN Sidecars : Sidecars[i] = f) \in Nat
          BY <3>2, <2>2
        <4> QED BY <3>2, <4>1 DEF StoreFiles, FileRecord, Versions
      <3>3. CASE f # "store" /\ f \notin present
        BY <3>3, NoFileIsRecord DEF StoreFiles
      <3> QED BY <3>1, <3>2, <3>3
    <2>4. StoreFiles(present) = [f \in Files |-> StoreFiles(present)[f]]
      BY DEF StoreFiles
    <2> QED BY <2>1, <2>3, <2>4
  <1>4. HostTypeOK
    <2>1. dir \in [owner : {"li", "root"}, mode : {750, 700}]
      BY DEF Init
    <2>2. inodes \in Nat
      BY SidecarsLength DEF Init
    <2>3. svc \in {"inactive", "retry"} \cup Versions
      BY DEF Init, Versions
    <2>4. profile \in Versions /\ current \in Versions /\ masked \in BOOLEAN /\ pid \in Nat
      BY DEF Init, Versions
    <2> QED BY <1>3, <2>1, <2>2, <2>3, <2>4 DEF HostTypeOK
  <1>5. StateTypeOK
    BY NoFileIsRecord DEF Init, StateTypeOK
  <1>6. CursorsInRange
    BY DEF Init, CursorsInRange, SideLabels
  <1> QED BY <1>2, <1>4, <1>5, <1>6 DEF Init, TypeInv, TypeOK, BoundTypeOK

-----------------------------------------------------------------------------
(* Every step keeps the types.  The control part of a step is a Goto or an *)
(* Exit of one process, or both a Check.                                   *)

Outcomes == {"none", "refused", "failed", "killed", "success"}

\* What every step of p but Spawn and AcquireLock does to pc, lock and outcome.
Control(p) ==
  \/ \E label \in Labels \ {"lock"} : Goto(p, label)
  \/ \E how \in Outcomes : Exit(p, how)

LEMMA ControlType ==
  ASSUME TypeInv, NEW p \in Procs, Control(p),
         sh' \in [Procs -> ShellRecord],
         \A q \in Procs \ {p} : sh'[q] = sh[q],
         pc'[p] = "preflight" => sh'[p].step <= Len(Artefacts),
         pc'[p] \in SideLabels => sh'[p].side <= Len(Sidecars)
  PROVE  ScriptTypeOK' /\ CursorsInRange'
  <1>1. pc' \in [Procs -> Labels] /\ lock' \in Procs \cup {NoProc}
        /\ outcome' \in [Procs -> Outcomes] /\ pc'[p] # "lock"
        /\ \A q \in Procs \ {p} : pc'[q] = pc[q]
    <2>1. CASE \E label \in Labels \ {"lock"} : Goto(p, label)
      BY <2>1 DEF Goto, TypeInv, TypeOK, ScriptTypeOK, Outcomes
    <2>2. CASE \E how \in Outcomes : Exit(p, how)
      BY <2>2 DEF Exit, TypeInv, TypeOK, ScriptTypeOK, Outcomes, Labels
    <2> QED BY <2>1, <2>2 DEF Control
  <1>2. ScriptTypeOK'
    BY <1>1 DEF ScriptTypeOK, Outcomes
  <1>3. CursorsInRange'
    BY <1>1 DEF CursorsInRange, TypeInv, SideLabels
  <1> QED BY <1>2, <1>3

LEMMA DieControl == ASSUME NEW p \in Procs, Die(p) PROVE Control(p)
  BY DEF Die, Control, Labels, Cleanup, Outcomes

LEMMA CheckControl ==
  ASSUME NEW p \in Procs, NEW ok, NEW label \in Labels \ {"lock"}, Check(p, ok, label)
  PROVE  Control(p)
  BY DieControl DEF Check, Control

LEMMA Targets ==
  ASSUME TypeInv, NEW p \in Procs
  PROVE  /\ \A label : Goto(p, label) => pc'[p] = label
         /\ \A how : Exit(p, how) => pc'[p] = "idle"
         /\ Die(p) => pc'[p] \in {"clStop", "idle"}
         /\ \A ok, label : Check(p, ok, label) => pc'[p] \in {label, "clStop", "idle"}
  BY DEF Goto, Exit, Die, Check, TypeInv, TypeOK, ScriptTypeOK

\* What Set does to the shell variables, for the fields it is used with.
Flags == {"storeMoved", "dirCustody", "fileCustody", "sideCustody", "filesBack",
          "dirBack", "stopped"}

LEMMA SetFlag ==
  ASSUME TypeInv, NEW p \in Procs, NEW flag \in Flags, NEW v \in BOOLEAN, Set(p, flag, v)
  PROVE  /\ sh' \in [Procs -> ShellRecord]
         /\ \A q \in Procs \ {p} : sh'[q] = sh[q]
         /\ sh'[p].step = sh[p].step /\ sh'[p].side = sh[p].side
  <1>1. sh \in [Procs -> ShellRecord] /\ sh[p] \in ShellRecord
    BY DEF TypeInv, TypeOK, ScriptTypeOK
  <1>2. sh' = [sh EXCEPT ![p] = [sh[p] EXCEPT ![flag] = v]]
    BY DEF Set
  <1>3. [sh[p] EXCEPT ![flag] = v] \in ShellRecord
    BY <1>1 DEF ShellRecord, Flags
  <1>4. [sh[p] EXCEPT ![flag] = v].step = sh[p].step
        /\ [sh[p] EXCEPT ![flag] = v].side = sh[p].side
    BY <1>1 DEF ShellRecord, Flags
  <1> QED BY <1>1, <1>2, <1>3, <1>4

LEMMA SetNumber ==
  ASSUME TypeInv, NEW p \in Procs, NEW field \in {"inode", "pid"}, NEW v \in Nat,
         Set(p, field, v)
  PROVE  /\ sh' \in [Procs -> ShellRecord]
         /\ \A q \in Procs \ {p} : sh'[q] = sh[q]
         /\ sh'[p].step = sh[p].step /\ sh'[p].side = sh[p].side
  <1>1. sh \in [Procs -> ShellRecord] /\ sh[p] \in ShellRecord
    BY DEF TypeInv, TypeOK, ScriptTypeOK
  <1>2. sh' = [sh EXCEPT ![p] = [sh[p] EXCEPT ![field] = v]]
    BY DEF Set
  <1>3. [sh[p] EXCEPT ![field] = v] \in ShellRecord
    BY <1>1 DEF ShellRecord
  <1>4. [sh[p] EXCEPT ![field] = v].step = sh[p].step
        /\ [sh[p] EXCEPT ![field] = v].side = sh[p].side
    BY <1>1 DEF ShellRecord
  <1> QED BY <1>1, <1>2, <1>3, <1>4

LEMMA SetCursor ==
  ASSUME TypeInv, NEW p \in Procs, NEW v,
         \/ v \in 1..12 /\ Set(p, "step", v)
         \/ v \in 1..(Len(Sidecars) + 1) /\ Set(p, "side", v)
  PROVE  /\ sh' \in [Procs -> ShellRecord]
         /\ \A q \in Procs \ {p} : sh'[q] = sh[q]
         /\ sh'[p].step \in {v, sh[p].step}
         /\ sh'[p].side \in {v, sh[p].side}
  <1>1. sh \in [Procs -> ShellRecord] /\ sh[p] \in ShellRecord
    BY DEF TypeInv, TypeOK, ScriptTypeOK
  <1>2. CASE v \in 1..12 /\ Set(p, "step", v)
    <2>1. sh' = [sh EXCEPT ![p] = [sh[p] EXCEPT !.step = v]]
      BY <1>2 DEF Set
    <2>2. [sh[p] EXCEPT !.step = v] \in ShellRecord
      BY SMTT(30), <1>1, <1>2, ArtefactsLength DEF ShellRecord
    <2> QED BY <1>1, <2>1, <2>2 DEF ShellRecord
  <1>3. CASE v \in 1..(Len(Sidecars) + 1) /\ Set(p, "side", v)
    <2>1. sh' = [sh EXCEPT ![p] = [sh[p] EXCEPT !.side = v]]
      BY <1>3 DEF Set
    <2>2. [sh[p] EXCEPT !.side = v] \in ShellRecord
      BY <1>1, <1>3 DEF ShellRecord
    <2> QED BY <1>1, <2>1, <2>2 DEF ShellRecord
  <1> QED BY <1>2, <1>3

\* The steps that take the lock, and those of the modes that do not activate.
Modal(p) ==
  \/ AcquireLock(p) \/ SelfTest(p) \/ Preflight(p) \/ Load(p)
  \/ CheckAcknowledged(p) \/ Spawn(p) \/ WaitReturns(p)

LEMMA ModalType == ASSUME TypeInv, NEW p \in Procs, Modal(p) PROVE TypeInv'
  <1> USE DEF TypeInv, TypeOK
  <1>1. CASE AcquireLock(p)
    <2>1. LockLabel(sh[p].mode) \in {"preflight", "selfTest", "load"}
      BY DEF LockLabel
    <2>2. ScriptTypeOK' /\ CursorsInRange'
      BY <1>1, <2>1 DEF AcquireLock, Exit, ScriptTypeOK, CursorsInRange, Labels, Untrapped, SideLabels
    <2>3. StateTypeOK' /\ HostTypeOK' /\ BoundTypeOK'
      BY <1>1 DEF AcquireLock, stateVars, hostVars, boundVars, StateTypeOK, HostTypeOK, BoundTypeOK
    <2> QED BY <2>2, <2>3
  <1>2. CASE SelfTest(p)
    <2>1. Control(p)
      BY <1>2 DEF SelfTest, Control, Outcomes
    <2>2. ScriptTypeOK' /\ CursorsInRange'
      BY <1>2, <2>1, Targets, ControlType DEF SelfTest, ScriptTypeOK, SideLabels
    <2>3. StateTypeOK' /\ HostTypeOK' /\ BoundTypeOK'
      BY <1>2 DEF SelfTest, stateVars, hostVars, boundVars, StateTypeOK, HostTypeOK, BoundTypeOK
    <2> QED BY <2>2, <2>3
  <1>3. CASE Preflight(p)
    <2>1. HostTypeOK' /\ BoundTypeOK'
      BY <1>3 DEF Preflight, hostVars, boundVars, HostTypeOK, BoundTypeOK
    <2>2. CASE Die(p) /\ UNCHANGED <<sh, written, reviewed, discarded, recovery>>
      <3>1. ScriptTypeOK' /\ CursorsInRange'
        BY <2>2, Targets, DieControl, ControlType DEF ScriptTypeOK, SideLabels
      <3>2. StateTypeOK'
        BY <2>2 DEF StateTypeOK
      <3> QED BY <2>1, <3>1, <3>2
    <2>3. CASE /\ written' = written \cup {Artefacts[sh[p].step]}
               /\ reviewed' = IF Artefacts[sh[p].step] = "current" THEN current ELSE reviewed
               /\ Set(p, "step", sh[p].step + 1)
               /\ IF sh[p].step = Len(Artefacts) THEN Exit(p, "success") ELSE Goto(p, "preflight")
               /\ UNCHANGED <<discarded, recovery>>
      <3>1. sh[p].step \in 1..11
        BY <1>3, ArtefactsLength DEF Preflight, ScriptTypeOK, ShellRecord, CursorsInRange
      <3>2. Control(p)
        BY <2>3 DEF Control, Outcomes, Labels, Untrapped
      <3>3. sh' \in [Procs -> ShellRecord] /\ \A q \in Procs \ {p} : sh'[q] = sh[q]
        BY <2>3, <3>1, SetCursor
      <3>4. pc'[p] = "idle" \/ (pc'[p] = "preflight" /\ sh[p].step # Len(Artefacts))
        <4>1. CASE sh[p].step = Len(Artefacts)
          BY <2>3, <4>1, Targets
        <4>2. CASE sh[p].step # Len(Artefacts)
          BY <2>3, <4>2, Targets
        <4> QED BY <4>1, <4>2
      <3>5. ScriptTypeOK' /\ CursorsInRange'
        <4>1. sh'[p].step \in {sh[p].step + 1, sh[p].step}
          <5>1. sh[p].step + 1 \in 1..12
            BY <3>1
          <5> QED BY <2>3, <5>1, SetCursor
        <4>2. pc'[p] = "preflight" => sh'[p].step <= Len(Artefacts)
          BY <3>1, <3>4, <4>1, ArtefactsLength
        <4>3. pc'[p] \notin SideLabels
          BY <3>4 DEF SideLabels
        <4> QED BY <3>2, <3>3, <4>2, <4>3, ControlType
      <3>6. StateTypeOK'
        BY <2>3, <3>1, ArtefactsLength DEF StateTypeOK, HostTypeOK
      <3> QED BY <2>1, <3>5, <3>6
    <2> QED BY <1>3, <2>2, <2>3 DEF Preflight
  <1>4. CASE Load(p)
    <2>1. ScriptTypeOK' /\ CursorsInRange'
      BY <1>4, Targets, CheckControl, ControlType
         DEF Load, ScriptTypeOK, SideLabels, Labels, Trapped, Untrapped
    <2>2. StateTypeOK' /\ HostTypeOK' /\ BoundTypeOK'
      BY <1>4 DEF Load, stateVars, hostVars, boundVars, StateTypeOK, HostTypeOK, BoundTypeOK
    <2> QED BY <2>1, <2>2
  <1>5. CASE CheckAcknowledged(p)
    <2>1. ScriptTypeOK' /\ CursorsInRange'
      BY <1>5, Targets, CheckControl, ControlType
         DEF CheckAcknowledged, ScriptTypeOK, SideLabels, Labels, Untrapped
    <2>2. StateTypeOK' /\ HostTypeOK' /\ BoundTypeOK'
      BY <1>5 DEF CheckAcknowledged, stateVars, hostVars, boundVars, StateTypeOK, HostTypeOK, BoundTypeOK
    <2> QED BY <2>1, <2>2
  <1>6. CASE Spawn(p)
    <2>1. ASSUME Die(p), UNCHANGED sh
          PROVE  ScriptTypeOK' /\ CursorsInRange'
      BY <2>1, Targets, DieControl, ControlType DEF ScriptTypeOK, SideLabels
    <2>2. ASSUME pc' = [pc EXCEPT ![p] = "wait", ![Unit] = "lock"],
                 sh' = [sh EXCEPT ![Unit] = Shell("activate-inner")],
                 UNCHANGED <<lock, outcome>>
          PROVE  ScriptTypeOK' /\ CursorsInRange'
      <3>1. Shell("activate-inner") \in ShellRecord /\ Shell("activate-inner").step = 1
        BY ShellIsRecord DEF Modes, Shell
      <3>2. ScriptTypeOK'
        BY <2>2, <3>1 DEF ScriptTypeOK, Labels, Untrapped, Waiting
      <3>3. CursorsInRange'
        BY <2>2, <3>1, ArtefactsLength DEF ScriptTypeOK, CursorsInRange, SideLabels, Procs
      <3> QED BY <3>2, <3>3
    <2>3. StateTypeOK' /\ HostTypeOK' /\ BoundTypeOK'
      BY <1>6 DEF Spawn, stateVars, hostVars, boundVars, StateTypeOK, HostTypeOK, BoundTypeOK
    <2>4. ScriptTypeOK' /\ CursorsInRange'
      BY <1>6, <2>1, <2>2 DEF Spawn
    <2> QED BY <2>3, <2>4
  <1>7. CASE WaitReturns(p)
    <2>1. Control(p)
      BY <1>7 DEF WaitReturns, Control, Outcomes
    <2>2. ScriptTypeOK' /\ CursorsInRange'
      BY <1>7, <2>1, Targets, ControlType DEF WaitReturns, ScriptTypeOK, SideLabels
    <2>3. StateTypeOK' /\ HostTypeOK' /\ BoundTypeOK'
      BY <1>7 DEF WaitReturns, stateVars, hostVars, boundVars, StateTypeOK, HostTypeOK, BoundTypeOK
    <2> QED BY <2>2, <2>3
  <1> QED BY <1>1, <1>2, <1>3, <1>4, <1>5, <1>6, <1>7 DEF Modal

LEMMA DirectoryType ==
  ASSUME TypeInv, NEW p \in Procs, NEW from \in Labels, NEW to \in Labels \ SideLabels,
         to \notin {"lock", "preflight"},
         NEW field, NEW value,
         \/ field = "owner" /\ value \in {"li", "root"}
         \/ field = "mode" /\ value \in {750, 700},
         SetDirectory(p, from, to, field, value)
  PROVE  TypeInv'
  <1> USE DEF TypeInv, TypeOK
  <1>1. ScriptTypeOK' /\ CursorsInRange'
    BY Targets, ControlType DEF SetDirectory, Control, ScriptTypeOK, SideLabels
  <1>2. dir' \in [owner : {"li", "root"}, mode : {750, 700}]
    BY DEF SetDirectory, HostTypeOK
  <1>3. StateTypeOK' /\ HostTypeOK' /\ BoundTypeOK'
    BY <1>2 DEF SetDirectory, stateVars, boundVars, StateTypeOK, HostTypeOK, BoundTypeOK
  <1> QED BY <1>1, <1>3

LEMMA SetFileType ==
  ASSUME TypeInv, NEW p \in Procs, NEW f \in Files, NEW from \in Labels,
         NEW to \in Labels \ {"lock", "preflight"},
         to \in SideLabels => from \in SideLabels,
         NEW field, NEW value,
         \/ field = "owner" /\ value \in {"li", "root"}
         \/ field = "mode" /\ value \in {644, 600},
         SetFile(p, f, from, to, field, value)
  PROVE  TypeInv'
  <1> USE DEF TypeInv, TypeOK
  <1>1. ScriptTypeOK' /\ CursorsInRange'
    BY Targets, ControlType DEF SetFile, Control, ScriptTypeOK, CursorsInRange
  <1>2. file' \in [Files -> FileRecord]
    <2>1. file[f] \in FileRecord
      BY DEF HostTypeOK
    <2>2. [file[f] EXCEPT ![field] = value] \in FileRecord
      BY <2>1 DEF FileRecord
    <2>3. file' = [file EXCEPT ![f] = [file[f] EXCEPT ![field] = value]]
      BY DEF SetFile
    <2> QED BY <2>2, <2>3 DEF HostTypeOK
  <1>3. StateTypeOK' /\ HostTypeOK' /\ BoundTypeOK'
    BY <1>2 DEF SetFile, stateVars, boundVars, StateTypeOK, HostTypeOK, BoundTypeOK
  <1> QED BY <1>1, <1>3

LEMMA MoveFileType ==
  ASSUME TypeInv, NEW p \in Procs, NEW f \in Files, NEW from \in Labels,
         NEW to \in Labels \ {"lock", "preflight"},
         to \in SideLabels => from \in SideLabels,
         MoveFile(p, f, from, to)
  PROVE  TypeInv'
  <1> USE DEF TypeInv, TypeOK
  <1>1. ScriptTypeOK' /\ CursorsInRange'
    BY Targets, ControlType DEF MoveFile, Control, ScriptTypeOK, CursorsInRange
  <1>2. file' \in [Files -> FileRecord] /\ discarded' \in [Files -> FileRecord]
    BY NoFileIsRecord DEF MoveFile, HostTypeOK, StateTypeOK
  <1>3. StateTypeOK' /\ HostTypeOK' /\ BoundTypeOK'
    BY <1>2 DEF MoveFile, boundVars, StateTypeOK, HostTypeOK, BoundTypeOK
  <1> QED BY <1>1, <1>3

\* A step that only reads the host, and leaves the cursors of its shell alone.
LEMMA QuietType ==
  ASSUME TypeInv, NEW p \in Procs, Control(p),
         pc'[p] \notin SideLabels \cup {"preflight"},
         sh' \in [Procs -> ShellRecord], \A q \in Procs \ {p} : sh'[q] = sh[q],
         UNCHANGED <<stateVars, hostVars, boundVars>>
  PROVE  TypeInv'
  <1>1. ScriptTypeOK' /\ CursorsInRange'
    BY ControlType
  <1>2. StateTypeOK' /\ HostTypeOK' /\ BoundTypeOK'
    BY DEF stateVars, hostVars, boundVars, StateTypeOK, HostTypeOK, BoundTypeOK, TypeInv, TypeOK
  <1> QED BY <1>1, <1>2 DEF TypeInv, TypeOK

LEMMA CustodyType == ASSUME TypeInv, NEW p \in Procs, Custody(p) PROVE TypeInv'
  <1> USE DEF TypeInv, TypeOK
  <1> USE DEF Labels, Trapped
  <1>1. CASE MaskService(p)
    <2>1. ScriptTypeOK' /\ CursorsInRange'
      BY <1>1, Targets, ControlType DEF MaskService, Control, ScriptTypeOK, SideLabels
    <2> QED BY <1>1, <2>1
            DEF MaskService, stateVars, boundVars, StateTypeOK, HostTypeOK, BoundTypeOK
  <1>2. CASE StopService(p)
    <2>1. ScriptTypeOK' /\ CursorsInRange'
      BY <1>2, Targets, CheckControl, ControlType DEF StopService, ScriptTypeOK, SideLabels
    <2> QED BY <1>2, <2>1
            DEF StopService, stateVars, boundVars, StateTypeOK, HostTypeOK, BoundTypeOK
  <1>3. CASE CheckDirectory(p)
    <2>1. file["store"].inode \in Nat
      BY DEF HostTypeOK, FileRecord, Files
    <2>2. sh' \in [Procs -> ShellRecord] /\ \A q \in Procs \ {p} : sh'[q] = sh[q]
      BY <1>3, <2>1, SetNumber DEF CheckDirectory, ScriptTypeOK
    <2>3. Control(p) /\ pc'[p] \in {"dirChown", "clStop", "idle"}
      BY <1>3, Targets, CheckControl DEF CheckDirectory
    <2> QED BY <1>3, <2>2, <2>3, QuietType DEF CheckDirectory, SideLabels
  <1>4. CASE ChownDirectory(p)
    BY <1>4, DirectoryType DEF ChownDirectory, SideLabels
  <1>5. CASE ChmodDirectory(p)
    BY <1>5, DirectoryType DEF ChmodDirectory, SideLabels
  <1>6. CASE FlagDirectory(p)
    <2>1. sh' \in [Procs -> ShellRecord] /\ \A q \in Procs \ {p} : sh'[q] = sh[q]
      <3>1. Original("store") \in BOOLEAN
        BY DEF Original
      <3>2. ASSUME NEW r \in ShellRecord, NEW v \in BOOLEAN
            PROVE  [r EXCEPT !.dirCustody = TRUE, !.fileCustody = v] \in ShellRecord
        BY DEF ShellRecord
      <3> QED BY <1>6, <3>1, <3>2 DEF FlagDirectory, ScriptTypeOK
    <2>2. Control(p) /\ pc'[p] \in {"storeChown", "clStop", "idle"}
      BY <1>6, Targets, CheckControl DEF FlagDirectory
    <2> QED BY <1>6, <2>1, <2>2, QuietType DEF FlagDirectory, SideLabels
  <1>7. CASE ChownStore(p)
    BY <1>7, SetFileType DEF ChownStore, SideLabels, Files
  <1>8. CASE ChmodStore(p)
    BY <1>8, SetFileType DEF ChmodStore, SideLabels, Files
  <1>9. CASE MoveStore(p)
    <2>1. CASE MoveFile(p, "store", "storeMove", "storeFlag")
      BY <2>1, MoveFileType DEF SideLabels, Files
    <2>2. CASE Die(p) /\ UNCHANGED <<sh, stateVars, hostVars, boundVars>>
      BY <2>2, Targets, DieControl, QuietType DEF SideLabels, ScriptTypeOK
    <2> QED BY <1>9, <2>1, <2>2 DEF MoveStore
  <1>10. CASE FlagStore(p)
    <2>1. sh' \in [Procs -> ShellRecord] /\ \A q \in Procs \ {p} : sh'[q] = sh[q]
      <3>1. ASSUME NEW r \in ShellRecord
            PROVE  [r EXCEPT !.storeMoved = TRUE, !.fileCustody = FALSE] \in ShellRecord
        BY DEF ShellRecord
      <3> QED BY <1>10, <3>1 DEF FlagStore, ScriptTypeOK
    <2>2. Control(p) /\ pc'[p] = "sideCheck"
      BY <1>10, Targets DEF FlagStore, Control
    <2> QED BY <1>10, <2>1, <2>2, QuietType DEF FlagStore, SideLabels
  <1>11. CASE CheckSidecar(p)
    <2> DEFINE f == Sidecars[sh[p].side]
               ok == Original(f) /\ discarded[f] = NoFile
    <2>1. sh[p] \in ShellRecord /\ sh[p].side \in 1..(Len(Sidecars) + 1)
      BY DEF ScriptTypeOK, ShellRecord
    <2>2. CASE sh[p].side > Len(Sidecars)
      <3>1. Goto(p, "gone") /\ UNCHANGED <<sh, stateVars, hostVars, boundVars>>
        BY <1>11, <2>2 DEF CheckSidecar
      <3> QED BY <3>1, Targets, QuietType DEF Control, SideLabels, ScriptTypeOK
    <2>3. CASE ~(sh[p].side > Len(Sidecars)) /\ ~Exists(f)
      <3>1. Goto(p, "sideCheck") /\ Set(p, "side", sh[p].side + 1)
            /\ UNCHANGED <<stateVars, hostVars, boundVars>>
        BY <1>11, <2>3 DEF CheckSidecar
      <3>2. sh[p].side + 1 \in 1..(Len(Sidecars) + 1)
        BY <2>1, <2>3, SidecarsLength
      <3>3. sh' \in [Procs -> ShellRecord] /\ \A q \in Procs \ {p} : sh'[q] = sh[q]
        BY <3>1, <3>2, SetCursor
      <3> QED BY <3>1, <3>3, Targets, QuietType DEF Control, SideLabels
    <2>4. CASE ~(sh[p].side > Len(Sidecars)) /\ Exists(f)
      <3>1. /\ Check(p, ok, "sideChown")
            /\ sh' = [sh EXCEPT ![p].sideInode = IF Original(f) THEN file[f].inode ELSE @,
                                ![p].sideCustody = ok]
            /\ UNCHANGED <<stateVars, hostVars, boundVars>>
        BY <1>11, <2>4 DEF CheckSidecar
      <3>2. f \in Files /\ sh[p].side <= Len(Sidecars)
        BY <2>1, <2>4, SidecarsLength DEF Files, SidecarNames
      <3>3. file[f].inode \in Nat /\ ok \in BOOLEAN
        BY <3>2 DEF HostTypeOK, FileRecord, Original
      <3>4. ASSUME NEW r \in ShellRecord, NEW n \in Nat, NEW v \in BOOLEAN
            PROVE  /\ [r EXCEPT !.sideInode = n, !.sideCustody = v] \in ShellRecord
                   /\ [r EXCEPT !.sideInode = n, !.sideCustody = v].side = r.side
        BY DEF ShellRecord
      <3>5. PICK n \in Nat : sh' = [sh EXCEPT ![p].sideInode = n, ![p].sideCustody = ok]
        <4>1. CASE Original(f)
          BY <3>1, <3>3, <4>1
        <4>2. CASE ~Original(f)
          <5>1. sh[p].sideInode \in Nat
            BY <2>1 DEF ShellRecord
          <5> QED BY <3>1, <4>2, <5>1
        <4> QED BY <4>1, <4>2
      <3>6. sh' = [sh EXCEPT ![p] = [sh[p] EXCEPT !.sideInode = n, !.sideCustody = ok]]
        BY <3>5
      <3> HIDE DEF ok
      <3>7. sh' \in [Procs -> ShellRecord] /\ (\A q \in Procs \ {p} : sh'[q] = sh[q])
            /\ sh'[p].side = sh[p].side
        BY ZenonT(60), <2>1, <3>3, <3>4, <3>6 DEF ScriptTypeOK
      <3>8. Control(p) /\ pc'[p] \in {"sideChown", "clStop", "idle"}
        BY <3>1, Targets, CheckControl
      <3>9. ScriptTypeOK' /\ CursorsInRange'
        BY <3>2, <3>7, <3>8, ControlType
      <3> QED BY <3>1, <3>9
              DEF stateVars, hostVars, boundVars, StateTypeOK, HostTypeOK, BoundTypeOK
    <2> QED BY <2>2, <2>3, <2>4
  <1>12. CASE ChownSidecar(p)
    <2>1. Sidecar(p) \in Files
      BY <1>12 DEF ChownSidecar, AtSidecar, Sidecar, Files, SidecarNames
    <2> QED BY <1>12, <2>1, SetFileType DEF ChownSidecar, SideLabels
  <1>13. CASE ChmodSidecar(p)
    <2>1. Sidecar(p) \in Files
      BY <1>13 DEF ChmodSidecar, AtSidecar, Sidecar, Files, SidecarNames
    <2> QED BY <1>13, <2>1, SetFileType DEF ChmodSidecar, SideLabels
  <1>14. CASE MoveSidecar(p)
    <2>1. Sidecar(p) \in Files
      BY <1>14 DEF MoveSidecar, AtSidecar, Sidecar, Files, SidecarNames
    <2> QED BY <1>14, <2>1, MoveFileType DEF MoveSidecar, SideLabels
  <1>15. CASE FlagSidecar(p)
    <2>1. sh[p] \in ShellRecord /\ sh[p].side + 1 \in 1..(Len(Sidecars) + 1)
      BY <1>15, SidecarsLength
         DEF FlagSidecar, ScriptTypeOK, ShellRecord, CursorsInRange, SideLabels
    <2>2. ASSUME NEW r \in ShellRecord, NEW n \in 1..(Len(Sidecars) + 1)
          PROVE  [r EXCEPT !.sideCustody = FALSE, !.side = n] \in ShellRecord
      BY DEF ShellRecord
    <2>3. sh' = [sh EXCEPT ![p] = [sh[p] EXCEPT !.sideCustody = FALSE, !.side = sh[p].side + 1]]
      BY <1>15, <2>1 DEF FlagSidecar, ShellRecord, ScriptTypeOK
    <2>4. sh' \in [Procs -> ShellRecord] /\ \A q \in Procs \ {p} : sh'[q] = sh[q]
      BY <2>1, <2>2, <2>3 DEF ScriptTypeOK
    <2>5. Control(p) /\ pc'[p] = "sideCheck"
      BY <1>15, Targets DEF FlagSidecar, Control
    <2> QED BY <1>15, <2>4, <2>5, QuietType DEF FlagSidecar, SideLabels
  <1>16. CASE CheckGone(p)
    BY <1>16, Targets, CheckControl, QuietType DEF CheckGone, SideLabels, ScriptTypeOK
  <1>17. CASE ReturnDirectoryOwner(p)
    BY <1>17, DirectoryType DEF ReturnDirectoryOwner, SideLabels
  <1>18. CASE ReturnDirectoryMode(p)
    BY <1>18, DirectoryType DEF ReturnDirectoryMode, SideLabels
  <1>19. CASE FlagDirectoryReturned(p)
    <2>1. sh' \in [Procs -> ShellRecord] /\ \A q \in Procs \ {p} : sh'[q] = sh[q]
      BY <1>19, SetFlag DEF FlagDirectoryReturned, Flags
    <2>2. Control(p) /\ pc'[p] = "profile"
      BY <1>19, Targets DEF FlagDirectoryReturned, Control
    <2> QED BY <1>19, <2>1, <2>2, QuietType DEF FlagDirectoryReturned, SideLabels
  <1> QED BY <1>1, <1>2, <1>3, <1>4, <1>5, <1>6, <1>7, <1>8, <1>9, <1>10, <1>11, <1>12, <1>13,
             <1>14, <1>15, <1>16, <1>17, <1>18, <1>19 DEF Custody

LEMMA StartDaemonType ==
  ASSUME TypeInv, NEW v \in Versions, StartDaemon(v)
  PROVE  svc' \in {"retry", v} /\ pid' \in Nat /\ inodes' \in Nat
         /\ file' \in [Files -> FileRecord]
  <1> USE DEF TypeInv, TypeOK, HostTypeOK
  <1>1. CASE ~DirOpen
    BY <1>1 DEF StartDaemon
  <1>2. CASE DirOpen
    <2>1. svc' = v /\ pid' \in Nat
      BY <1>2 DEF StartDaemon
    <2>2. CASE Exists("store")
      BY <1>2, <2>1, <2>2 DEF StartDaemon
    <2>3. CASE ~Exists("store")
      <3>1. inodes' \in Nat
            /\ file' = [file EXCEPT !["store"] =
                         [inode |-> inodes', owner |-> "li",
                          mode |-> IF v = "new" THEN 600 ELSE 644, format |-> v]]
        BY <1>2, <2>3 DEF StartDaemon
      <3>2. [inode |-> inodes', owner |-> "li",
             mode |-> IF v = "new" THEN 600 ELSE 644, format |-> v] \in FileRecord
        BY <3>1 DEF FileRecord
      <3>3. file' \in [Files -> FileRecord]
        BY <3>1, <3>2 DEF Files
      <3> QED BY <2>1, <3>1, <3>3
    <2> QED BY <2>2, <2>3
  <1> QED BY <1>1, <1>2

LEMMA ActivationType == ASSUME TypeInv, NEW p \in Procs, Activation(p) PROVE TypeInv'
  <1> USE DEF TypeInv, TypeOK, Labels, Trapped, Cleanup
  <1>1. CASE SetProfile(p)
    <2>1. ScriptTypeOK' /\ CursorsInRange'
      BY <1>1, Targets, ControlType DEF SetProfile, Control, ScriptTypeOK, SideLabels
    <2> QED BY <1>1, <2>1
            DEF SetProfile, stateVars, boundVars, StateTypeOK, HostTypeOK, BoundTypeOK, Versions
  <1>2. CASE UnmaskService(p)
    <2>1. ScriptTypeOK' /\ CursorsInRange'
      BY <1>2, Targets, ControlType DEF UnmaskService, Control, ScriptTypeOK, SideLabels
    <2>2. masked' \in BOOLEAN
      BY <1>2 DEF UnmaskService
    <2> QED BY <1>2, <2>1, <2>2
            DEF UnmaskService, stateVars, boundVars, StateTypeOK, HostTypeOK, BoundTypeOK
  <1>3. CASE SwitchConfiguration(p)
    <2>1. Control(p) /\ pc'[p] \in {"start", "clStop", "idle"}
      BY <1>3, Targets, DieControl DEF SwitchConfiguration, Control
    <2>2. ScriptTypeOK' /\ CursorsInRange'
      BY <1>3, <2>1, ControlType DEF SwitchConfiguration, ScriptTypeOK, SideLabels
    <2>3. svc' \in {"retry", "new", svc} /\ pid' \in Nat /\ inodes' \in Nat
          /\ file' \in [Files -> FileRecord]
      BY <1>3, StartDaemonType DEF SwitchConfiguration, Versions, HostTypeOK
    <2> QED BY <1>3, <2>2, <2>3
            DEF SwitchConfiguration, stateVars, boundVars, StateTypeOK, HostTypeOK, BoundTypeOK, Versions
  <1>4. CASE StartService(p)
    <2>1. ScriptTypeOK' /\ CursorsInRange'
      BY <1>4, Targets, ControlType DEF StartService, Control, ScriptTypeOK, SideLabels
    <2>2. current \in Versions
      BY DEF HostTypeOK
    <2>3. svc' \in {"retry", current, svc} /\ pid' \in Nat /\ inodes' \in Nat
          /\ file' \in [Files -> FileRecord]
      BY <1>4, <2>2, StartDaemonType DEF StartService, HostTypeOK
    <2> QED BY <1>4, <2>1, <2>2, <2>3
            DEF StartService, stateVars, boundVars, StateTypeOK, HostTypeOK, BoundTypeOK
  <1>5. CASE Accept(p)
    <2>1. sh' \in [Procs -> ShellRecord] /\ \A q \in Procs \ {p} : sh'[q] = sh[q]
      BY <1>5, SetNumber DEF Accept, HostTypeOK
    <2>2. Control(p) /\ pc'[p] \in {"dwell", "clStop", "idle"}
      BY <1>5, Targets, CheckControl DEF Accept
    <2> QED BY <1>5, <2>1, <2>2, QuietType DEF Accept, SideLabels
  <1>6. CASE Dwell(p)
    BY <1>6, Targets, CheckControl, QuietType DEF Dwell, SideLabels, ScriptTypeOK
  <1>7. CASE RestartService(p)
    <2>1. ScriptTypeOK' /\ CursorsInRange'
      BY <1>7, Targets, ControlType DEF RestartService, Control, ScriptTypeOK, SideLabels
    <2>2. current \in Versions
      BY DEF HostTypeOK
    <2>3. svc' \in {"retry", current} /\ pid' \in Nat /\ inodes' \in Nat
          /\ file' \in [Files -> FileRecord]
      BY <1>7, <2>2, StartDaemonType DEF RestartService
    <2> QED BY <1>7, <2>1, <2>2, <2>3
            DEF RestartService, stateVars, boundVars, StateTypeOK, HostTypeOK, BoundTypeOK
  <1>8. CASE AcceptRestart(p)
    <2>1. Control(p) /\ pc'[p] \in {"clStop", "idle"}
      BY <1>8, Targets, DieControl DEF AcceptRestart, Control, Outcomes
    <2> QED BY <1>8, <2>1, QuietType DEF AcceptRestart, SideLabels, ScriptTypeOK
  <1> QED BY <1>1, <1>2, <1>3, <1>4, <1>5, <1>6, <1>7, <1>8 DEF Activation

LEMMA RestoreFileType ==
  ASSUME TypeInv, NEW p \in Procs, NEW f \in Files, NEW inode, NEW flag \in Flags,
         RestoreFile(p, f, inode, flag)
  PROVE  /\ file' \in [Files -> FileRecord]
         /\ sh' \in [Procs -> ShellRecord]
         /\ \A q \in Procs \ {p} : sh'[q] = sh[q]
  <1>1. file \in [Files -> FileRecord] /\ file[f] \in FileRecord
    BY DEF TypeInv, TypeOK, HostTypeOK
  <1>2. CASE inode = 0 \/ file[f].inode # inode
    BY <1>1, <1>2, SetFlag DEF RestoreFile, Flags
  <1>3. CASE ~(inode = 0 \/ file[f].inode # inode)
    <2>1. PICK owner \in {"li"} \cup (IF Erring THEN {file[f].owner} ELSE {}),
               mode \in {644} \cup (IF Erring THEN {file[f].mode} ELSE {}) :
            /\ file' = [file EXCEPT ![f].owner = owner, ![f].mode = mode]
            /\ IF owner = "li" /\ mode = 644
               THEN Set(p, flag, FALSE) ELSE Set(p, "filesBack", FALSE)
      BY <1>3 DEF RestoreFile
    <2>2. owner \in {"none", "li", "root"} /\ mode \in {0, 644, 600}
      BY <1>1 DEF FileRecord
    <2>3. [[file[f] EXCEPT !.owner = owner] EXCEPT !.mode = mode] \in FileRecord
      <3>1. PICK r \in FileRecord : r = [file[f] EXCEPT !.owner = owner]
        <4>1. [file[f] EXCEPT !.owner = owner] \in FileRecord
          BY <1>1, <2>2 DEF FileRecord
        <4> QED BY <4>1, Zenon
      <3>2. [r EXCEPT !.mode = mode] \in FileRecord
        BY <2>2 DEF FileRecord
      <3> QED BY <3>1, <3>2
    <2>4. file' \in [Files -> FileRecord]
      <3>1. file' = [file EXCEPT ![f] = [[file[f] EXCEPT !.owner = owner] EXCEPT !.mode = mode]]
        <4>1. file' = [file EXCEPT ![f].owner = owner, ![f].mode = mode]
          BY <2>1
        <4> QED BY <1>1, <4>1, Zenon
      <3>2. file' = [file EXCEPT ![f] = [[file[f] EXCEPT !.owner = owner] EXCEPT !.mode = mode]]
            => file' \in [Files -> FileRecord]
        BY <1>1, <2>3
      <3> QED BY <3>1, <3>2
    <2>5. PICK field \in Flags, v \in BOOLEAN : Set(p, field, v)
      BY ZenonT(60), <2>1 DEF Flags
    <2> QED BY <2>4, <2>5, SetFlag
  <1> QED BY <1>2, <1>3

LEMMA FailureType == ASSUME TypeInv, NEW p \in Procs, Failure(p) PROVE TypeInv'
  <1> USE DEF TypeInv, TypeOK, Labels, Cleanup
  <1>1. CASE StopForCleanup(p)
    <2>1. sh' \in [Procs -> ShellRecord] /\ \A q \in Procs \ {p} : sh'[q] = sh[q]
      <3>1. PICK shown \in BOOLEAN : Set(p, "stopped", shown /\ svc' = "inactive")
        BY <1>1 DEF StopForCleanup
      <3>2. (shown /\ svc' = "inactive") \in BOOLEAN
        OBVIOUS
      <3> QED BY <3>1, <3>2, SetFlag DEF Flags
    <2>2. ScriptTypeOK' /\ CursorsInRange'
      BY <1>1, <2>1, Targets, ControlType DEF StopForCleanup, Control, SideLabels
    <2>3. svc' \in {"inactive", svc}
      BY <1>1 DEF StopForCleanup
    <2> QED BY <1>1, <2>2, <2>3
            DEF StopForCleanup, stateVars, boundVars, StateTypeOK, HostTypeOK, BoundTypeOK
  <1>2. CASE RestoreStore(p)
    <2>1. /\ file' \in [Files -> FileRecord]
          /\ sh' \in [Procs -> ShellRecord]
          /\ \A q \in Procs \ {p} : sh'[q] = sh[q]
      BY <1>2, RestoreFileType DEF RestoreStore, Files, Flags, ScriptTypeOK, HostTypeOK
    <2>2. ScriptTypeOK' /\ CursorsInRange'
      BY <1>2, <2>1, Targets, ControlType DEF RestoreStore, Control, SideLabels
    <2> QED BY <1>2, <2>1, <2>2
            DEF RestoreStore, stateVars, boundVars, StateTypeOK, HostTypeOK, BoundTypeOK
  <1>3. CASE RestoreSidecar(p)
    <2>1. /\ file' \in [Files -> FileRecord]
          /\ sh' \in [Procs -> ShellRecord]
          /\ \A q \in Procs \ {p} : sh'[q] = sh[q]
      <3>1. AtSidecar(p) => Sidecar(p) \in Files
        BY DEF AtSidecar, Sidecar, Files, SidecarNames
      <3> QED BY <1>3, <3>1, RestoreFileType DEF RestoreSidecar, Flags, ScriptTypeOK, HostTypeOK
    <2>2. ScriptTypeOK' /\ CursorsInRange'
      BY <1>3, <2>1, Targets, ControlType DEF RestoreSidecar, Control, SideLabels
    <2> QED BY <1>3, <2>1, <2>2
            DEF RestoreSidecar, stateVars, boundVars, StateTypeOK, HostTypeOK, BoundTypeOK
  <1>4. CASE RestoreDirectory(p)
    <2>1. /\ dir' \in [owner : {"li", "root"}, mode : {750, 700}]
          /\ sh' \in [Procs -> ShellRecord]
          /\ \A q \in Procs \ {p} : sh'[q] = sh[q]
      <3>1. CASE ~sh[p].dirCustody
        BY <1>4, <3>1 DEF RestoreDirectory, HostTypeOK, ScriptTypeOK
      <3>2. CASE sh[p].dirCustody
        <4>1. PICK owner \in {"li"} \cup (IF Erring THEN {dir.owner} ELSE {}),
                   mode \in {750} \cup (IF Erring THEN {dir.mode} ELSE {}) :
                /\ dir' = [owner |-> owner, mode |-> mode]
                /\ IF SettledDir' THEN Set(p, "dirCustody", FALSE) ELSE Set(p, "dirBack", FALSE)
          BY <1>4, <3>2 DEF RestoreDirectory
        <4>2. owner \in {"li", dir.owner} /\ mode \in {750, dir.mode}
          OBVIOUS
        <4>3. dir' \in [owner : {"li", "root"}, mode : {750, 700}]
          BY <4>1, <4>2 DEF HostTypeOK
        <4>4. PICK flag \in Flags, v \in BOOLEAN : Set(p, flag, v)
          BY ZenonT(60), <4>1 DEF Flags
        <4> QED BY <4>3, <4>4, SetFlag
      <3> QED BY <3>1, <3>2
    <2>2. ScriptTypeOK' /\ CursorsInRange'
      BY <1>4, <2>1, Targets, ControlType DEF RestoreDirectory, Control, SideLabels
    <2> QED BY <1>4, <2>1, <2>2
            DEF RestoreDirectory, stateVars, boundVars, StateTypeOK, HostTypeOK, BoundTypeOK
  <1>5. CASE WriteRecoveryState(p)
    <2>1. ScriptTypeOK' /\ CursorsInRange'
      BY <1>5, Targets, ControlType DEF WriteRecoveryState, Control, SideLabels, ScriptTypeOK
    <2>2. HostTypeOK' /\ BoundTypeOK'
      BY <1>5 DEF WriteRecoveryState, hostVars, boundVars, HostTypeOK, BoundTypeOK
    <2>3. sh[p].storeMoved \in BOOLEAN
      BY DEF ScriptTypeOK, ShellRecord
    <2>4. recovery' \in [exists : BOOLEAN, discarded : BOOLEAN]
      <3>1. recovery' = [exists |-> TRUE, discarded |-> sh[p].storeMoved] \/ recovery' = recovery
        BY <1>5, Zenon DEF WriteRecoveryState
      <3>2. ASSUME NEW v \in BOOLEAN
            PROVE  [exists |-> TRUE, discarded |-> v] \in [exists : BOOLEAN, discarded : BOOLEAN]
        OBVIOUS
      <3>3. [exists |-> TRUE, discarded |-> sh[p].storeMoved] \in [exists : BOOLEAN, discarded : BOOLEAN]
        BY <2>3, <3>2
      <3>4. recovery \in [exists : BOOLEAN, discarded : BOOLEAN]
        BY DEF StateTypeOK
      <3> QED BY <3>1, <3>3, <3>4, Zenon
    <2>5. written' \subseteq written \cup {"recovery", "fallback"}
      BY <1>5 DEF WriteRecoveryState
    <2>6. StateTypeOK'
      BY <1>5, <2>4, <2>5 DEF WriteRecoveryState, StateTypeOK, HostTypeOK
    <2> QED BY <2>1, <2>2, <2>6
  <1>6. CASE SettleMask(p)
    <2>1. ScriptTypeOK' /\ CursorsInRange'
      BY <1>6, Targets, ControlType DEF SettleMask, Control, Outcomes, SideLabels, ScriptTypeOK
    <2>2. masked' \in BOOLEAN
      <3>1. masked \in BOOLEAN
        BY DEF HostTypeOK
      <3>2. masked' \in {~(sh[p].filesBack /\ sh[p].dirBack /\ sh[p].stopped)}
                        \cup (IF Erring THEN {masked} ELSE {})
        BY <1>6, Zenon DEF SettleMask
      <3>3. ASSUME NEW want \in BOOLEAN,
                   masked' \in {want} \cup (IF Erring THEN {masked} ELSE {})
            PROVE  masked' \in BOOLEAN
        BY <3>1, <3>3
      <3> QED BY <3>2, <3>3
    <2> QED BY <1>6, <2>1, <2>2
            DEF SettleMask, stateVars, boundVars, StateTypeOK, HostTypeOK, BoundTypeOK
  <1> QED BY <1>1, <1>2, <1>3, <1>4, <1>5, <1>6 DEF Failure

LEMMA FaultType == ASSUME TypeInv, NEW p \in Procs, Fault(p) PROVE TypeInv'
  <1>1. UNCHANGED <<sh, stateVars, hostVars, boundVars>>
    BY DEF Fault, Fail, Signal, Kill, KillShell
  <1>2. Control(p) /\ pc'[p] \in {"clStop", "idle", "orphan"}
    BY Targets, DieControl
       DEF Fault, Fail, Signal, Kill, KillShell, Control, Outcomes, Labels, Cleanup, Waiting
  <1> QED BY <1>1, <1>2, QuietType DEF SideLabels, TypeInv, TypeOK, ScriptTypeOK

LEMMA HostStepType ==
  ASSUME TypeInv, Acknowledge \/ DaemonCrash \/ SystemdRetry \/ Reboot
  PROVE  TypeInv'
  <1> USE DEF TypeInv, TypeOK
  <1>1. CASE Acknowledge
    BY <1>1 DEF Acknowledge, scriptVars, hostVars, boundVars, ScriptTypeOK, StateTypeOK,
                HostTypeOK, BoundTypeOK, CursorsInRange
  <1>2. CASE DaemonCrash
    BY <1>2 DEF DaemonCrash, scriptVars, stateVars, ScriptTypeOK, StateTypeOK,
                HostTypeOK, BoundTypeOK, CursorsInRange
  <1>3. CASE SystemdRetry
    <2>1. current \in Versions
      BY DEF HostTypeOK
    <2> QED BY <1>3, <2>1, StartDaemonType
            DEF SystemdRetry, scriptVars, stateVars, boundVars, ScriptTypeOK, StateTypeOK,
                HostTypeOK, BoundTypeOK, CursorsInRange
  <1>4. CASE Reboot
    <2>1. profile \in Versions
      BY DEF HostTypeOK
    <2>2. HostTypeOK'
      <3>1. svc' \in {"retry", profile} /\ pid' \in Nat /\ inodes' \in Nat
            /\ file' \in [Files -> FileRecord]
        BY <1>4, <2>1, StartDaemonType DEF Reboot
      <3>2. profile' = profile /\ current' = profile /\ masked' \in BOOLEAN /\ dir' = dir
        BY <1>4, Zenon DEF Reboot
      <3> QED BY <2>1, <3>1, <3>2 DEF HostTypeOK
    <2>4. BoundTypeOK' /\ StateTypeOK'
      BY <1>4 DEF Reboot, stateVars, StateTypeOK, HostTypeOK, BoundTypeOK
    <2>3. ScriptTypeOK' /\ CursorsInRange'
      BY <1>4 DEF Reboot, ScriptTypeOK, CursorsInRange, Labels, SideLabels
    <2> QED BY <2>2, <2>3, <2>4
  <1> QED BY <1>1, <1>2, <1>3, <1>4

LEMMA LaunchType ==
  ASSUME TypeInv, NEW p \in Operators, NEW mode \in Modes, Launch(p, mode)
  PROVE  TypeInv'
  <1> USE DEF TypeInv, TypeOK
  <1>1. p \in Procs
    BY DEF Procs
  <1>2. Shell(mode) \in ShellRecord /\ Shell(mode).step = 1
    BY ShellIsRecord DEF Shell
  <1>3. ScriptTypeOK'
    BY <1>1, <1>2 DEF Launch, Goto, ScriptTypeOK, Labels, Untrapped
  <1>4. CursorsInRange'
    BY <1>1, <1>2, ArtefactsLength DEF Launch, Goto, ScriptTypeOK, CursorsInRange, SideLabels
  <1>5. StateTypeOK' /\ HostTypeOK' /\ BoundTypeOK'
    BY DEF Launch, stateVars, hostVars, StateTypeOK, HostTypeOK, BoundTypeOK
  <1> QED BY <1>3, <1>4, <1>5

LEMMA NextType == TypeInv /\ [Next]_vars => TypeInv'
  <1> SUFFICES ASSUME TypeInv, [Next]_vars PROVE TypeInv'
    OBVIOUS
  <1>1. ASSUME NEW p \in Procs, Step(p) PROVE TypeInv'
    BY <1>1, ModalType, CustodyType, ActivationType, FailureType DEF Step, Modal
  <1>2. ASSUME NEW p \in Procs, Fault(p) PROVE TypeInv'
    BY <1>2, FaultType
  <1>3. ASSUME NEW p \in Operators, NEW mode \in Modes, Launch(p, mode) PROVE TypeInv'
    BY <1>3, LaunchType
  <1>4. CASE UNCHANGED vars
    BY <1>4 DEF vars, scriptVars, stateVars, hostVars, boundVars, TypeInv, TypeOK,
                ScriptTypeOK, StateTypeOK, HostTypeOK, BoundTypeOK, CursorsInRange
  <1> QED BY <1>1, <1>2, <1>3, <1>4, HostStepType DEF Next

\* Every variable keeps its type, whatever the instance: in particular no
\* command runs with a cursor beyond the last artefact or the last sidecar.
THEOREM TypeCorrect == Spec => []TypeOK
  <1>1. TypeInv => TypeOK
    BY DEF TypeInv
  <1> QED BY InitType, NextType, <1>1, PTL DEF Spec

-----------------------------------------------------------------------------
(* The flock: whoever is past "lock" holds it.                             *)

LockHeld == \A p \in Procs : pc[p] \notin {"idle", "lock"} => lock = p

\* The store, by the progress of the run that holds the lock.
AfterStop == {"dirCheck", "dirChown", "dirChmod", "dirFlag", "storeChown", "storeChmod",
              "storeMove", "storeFlag", "sideCheck", "sideChown", "sideChmod", "sideMove",
              "sideFlag", "gone", "backChown", "backChmod", "backFlag", "profile"}
AfterGone == {"backChown", "backChmod", "backFlag", "profile"}
AfterSwitch == {"start", "accept", "dwell", "restart", "accept2"}

StoreInv ==
  /\ \A p \in Procs :
       /\ pc[p] \in AfterStop => svc = "inactive"
       /\ pc[p] \in AfterGone => file["store"] = NoFile
       /\ pc[p] \in AfterSwitch => current = "new"
  /\ profile = "new" /\ current = "old" => svc = "inactive"
  /\ NewProfileNoOldStore

\* What Spawn does to pc, lock and outcome.
Spawned(p) ==
  /\ pc[Unit] = "idle" /\ pc[p] = "spawn"
  /\ pc' = [pc EXCEPT ![p] = "wait", ![Unit] = "lock"]
  /\ UNCHANGED <<lock, outcome>>

LEMMA StepControl ==
  ASSUME TypeInv, NEW p \in Procs, Step(p)
  PROVE  AcquireLock(p) \/ (pc[p] \notin {"idle", "lock"} /\ (Control(p) \/ Spawned(p)))
  <1> USE DEF Labels, Trapped, Cleanup, Untrapped, Waiting
  <1>1. CASE Custody(p)
    <2>1. CASE MaskService(p)
      BY <2>1 DEF MaskService, Control
    <2>2. CASE StopService(p)
      BY <2>2, CheckControl DEF StopService
    <2>3. CASE CheckDirectory(p)
      BY <2>3, CheckControl DEF CheckDirectory
    <2>4. CASE ChownDirectory(p) \/ ChmodDirectory(p) \/ ReturnDirectoryOwner(p) \/ ReturnDirectoryMode(p)
      BY <2>4 DEF ChownDirectory, ChmodDirectory, ReturnDirectoryOwner, ReturnDirectoryMode,
                  SetDirectory, Control
    <2>5. CASE FlagDirectory(p)
      BY <2>5, CheckControl DEF FlagDirectory
    <2>6. CASE ChownStore(p) \/ ChmodStore(p) \/ ChownSidecar(p) \/ ChmodSidecar(p)
      BY <2>6 DEF ChownStore, ChmodStore, ChownSidecar, ChmodSidecar, SetFile, Control
    <2>7. CASE MoveStore(p)
      BY <2>7, DieControl DEF MoveStore, MoveFile, Control
    <2>8. CASE MoveSidecar(p)
      BY <2>8 DEF MoveSidecar, MoveFile, Control
    <2>9. CASE FlagStore(p) \/ FlagSidecar(p) \/ FlagDirectoryReturned(p)
      BY <2>9 DEF FlagStore, FlagSidecar, FlagDirectoryReturned, Control
    <2>10. CASE CheckSidecar(p)
      <3> DEFINE f == Sidecars[sh[p].side]
      <3>1. pc[p] = "sideCheck"
            /\ (Goto(p, "gone") \/ Goto(p, "sideCheck")
                \/ Check(p, Original(f) /\ discarded[f] = NoFile, "sideChown"))
        BY <2>10 DEF CheckSidecar
      <3> QED BY <3>1, CheckControl DEF Control
    <2>11. CASE CheckGone(p)
      BY <2>11, CheckControl DEF CheckGone
    <2> QED BY <1>1, <2>1, <2>2, <2>3, <2>4, <2>5, <2>6, <2>7, <2>8, <2>9, <2>10, <2>11 DEF Custody
  <1>2. CASE Activation(p)
    <2>1. CASE SetProfile(p) \/ UnmaskService(p) \/ StartService(p) \/ RestartService(p)
      BY <2>1 DEF SetProfile, UnmaskService, StartService, RestartService, Control
    <2>2. CASE SwitchConfiguration(p)
      BY <2>2, DieControl DEF SwitchConfiguration, Control
    <2>3. CASE Accept(p) \/ Dwell(p)
      BY <2>3, CheckControl DEF Accept, Dwell
    <2>4. CASE AcceptRestart(p)
      BY <2>4, DieControl DEF AcceptRestart, Control, Outcomes
    <2> QED BY <1>2, <2>1, <2>2, <2>3, <2>4 DEF Activation
  <1>3. CASE Failure(p)
    BY ZenonT(60), <1>3 DEF Failure, StopForCleanup, RestoreStore, RestoreSidecar, RestoreDirectory,
                WriteRecoveryState, SettleMask, Control, Outcomes
  <1>4. CASE SelfTest(p) \/ WaitReturns(p)
    BY <1>4 DEF SelfTest, WaitReturns, Control, Outcomes
  <1>5. CASE Preflight(p)
    BY <1>5, DieControl DEF Preflight, Control, Outcomes
  <1>6. CASE Load(p) \/ CheckAcknowledged(p)
    BY <1>6, CheckControl DEF Load, CheckAcknowledged
  <1>7. CASE Spawn(p)
    BY <1>7, DieControl DEF Spawn, Spawned
  <1> QED BY <1>1, <1>2, <1>3, <1>4, <1>5, <1>6, <1>7 DEF Step

LEMMA FaultControl ==
  ASSUME TypeInv, NEW p \in Procs, Fault(p)
  PROVE  /\ Control(p) /\ pc[p] # "idle" /\ pc'[p] \in {"clStop", "idle", "orphan"}
         /\ pc[p] = "lock" => \E how \in Outcomes : Exit(p, how)
         /\ UNCHANGED <<sh, stateVars, hostVars, boundVars>>
  <1> USE DEF Labels, Trapped, Cleanup, Untrapped, Waiting, Outcomes
  <1>1. CASE Fail(p)
    BY <1>1, Targets, DieControl DEF Fail, Die
  <1>2. CASE Signal(p)
    BY <1>2, Targets DEF Signal, Control
  <1>3. CASE Kill(p)
    BY <1>3, Targets DEF Kill, Control
  <1>4. CASE KillShell(p)
    BY <1>4, Targets DEF KillShell, Control
  <1> QED BY <1>1, <1>2, <1>3, <1>4 DEF Fault

LEMMA ControlLock ==
  ASSUME TypeInv, LockHeld, NEW p \in Procs, Control(p),
         pc[p] \in {"idle", "lock"} => \E how \in Outcomes : Exit(p, how)
  PROVE  LockHeld' /\ \A q \in Procs \ {p} : pc'[q] = pc[q]
  <1> USE DEF TypeInv, TypeOK, ScriptTypeOK
  <1>1. CASE \E how \in Outcomes : Exit(p, how)
    BY <1>1 DEF Exit, LockHeld
  <1>2. CASE pc[p] \notin {"idle", "lock"} /\ \E label \in Labels : Goto(p, label)
    BY <1>2 DEF Goto, LockHeld
  <1> QED BY <1>1, <1>2 DEF Control

LEMMA LockNext == TypeInv /\ LockHeld /\ [Next]_vars => LockHeld'
  <1> SUFFICES ASSUME TypeInv, LockHeld, [Next]_vars PROVE LockHeld'
    OBVIOUS
  <1> USE DEF TypeInv, TypeOK, ScriptTypeOK
  <1>1. ASSUME NEW p \in Procs, Step(p) PROVE LockHeld'
    <2>1. CASE AcquireLock(p)
      <3>1. CASE lock = NoProc
        BY <2>1, <3>1, ProcsAssumption DEF AcquireLock, LockHeld
      <3>2. CASE lock # NoProc
        BY <2>1, <3>2 DEF AcquireLock, Exit, LockHeld
      <3> QED BY <3>1, <3>2
    <2>2. CASE pc[p] \notin {"idle", "lock"} /\ Control(p)
      BY <2>2, ControlLock
    <2>3. CASE Spawned(p)
      BY <2>3 DEF Spawned, LockHeld, Procs
    <2> QED BY <1>1, <2>1, <2>2, <2>3, StepControl
  <1>2. ASSUME NEW p \in Procs, Fault(p) PROVE LockHeld'
    BY <1>2, FaultControl, ControlLock
  <1>3. ASSUME NEW p \in Operators, NEW mode \in Modes, Launch(p, mode) PROVE LockHeld'
    BY <1>3 DEF Launch, Goto, LockHeld, Procs
  <1>4. CASE Acknowledge \/ DaemonCrash \/ SystemdRetry \/ UNCHANGED vars
    BY <1>4 DEF Acknowledge, DaemonCrash, SystemdRetry, vars, scriptVars, LockHeld
  <1>5. CASE Reboot
    BY <1>5 DEF Reboot, LockHeld
  <1> QED BY <1>1, <1>2, <1>3, <1>4, <1>5 DEF Next

\* Mutual exclusion: at most one invocation is between its lock and its end,
\* so no two of them interleave their commands on STATE or on the store.
THEOREM OneRunIsAlone == Spec => []OneRunAtATime
  <1>1. Init => LockHeld
    BY DEF Init, LockHeld
  <1>2. TypeInv /\ LockHeld => OneRunAtATime
    BY DEF LockHeld, OneRunAtATime
  <1> QED BY InitType, NextType, LockNext, <1>1, <1>2, PTL DEF Spec

-----------------------------------------------------------------------------
(* The run that holds the lock is the only one whose label matters.        *)

\* Every process but p is idle or about to ask for the lock.
Alone(p) == \A q \in Procs \ {p} : pc'[q] \in {"idle", "lock"}

\* A step that leaves the host and the shells alone, and takes p to a label at
\* which it has done nothing yet or nothing more.
Still(p) ==
  /\ UNCHANGED <<sh, stateVars, hostVars>>
  /\ pc'[p] \in {"idle", "selfTest", "load", "preflight", "clStop", "orphan"}
  /\ pc'[p] = "preflight" => pc[p] = "lock"
  /\ pc'[p] = "clStop" => pc[p] \in Trapped
  /\ pc[p] # "idle"
  /\ \A q \in Procs \ {p} : pc'[q] = pc[q]

LEMMA StepAlone ==
  ASSUME TypeInv, LockHeld, NEW p \in Procs, Step(p)
  PROVE  Still(p) \/ (Alone(p) /\ pc[p] \notin {"idle", "lock"})
  <1> USE DEF TypeInv, TypeOK, ScriptTypeOK
  <1>1. CASE AcquireLock(p)
    BY <1>1 DEF AcquireLock, Exit, Still, LockLabel
  <1>2. CASE pc[p] \notin {"idle", "lock"} /\ (Control(p) \/ Spawned(p))
    <2>1. \A q \in Procs \ {p} : pc[q] \in {"idle", "lock"}
      BY <1>2 DEF LockHeld
    <2> QED BY <1>2, <2>1, ControlLock DEF Alone, Spawned
  <1> QED BY <1>1, <1>2, StepControl

LEMMA FaultStill ==
  ASSUME TypeInv, LockHeld, NEW p \in Procs, Fault(p) PROVE Still(p)
  <1>1. pc'[p] = "clStop" => pc[p] \in Trapped
    BY Targets DEF Fault, Fail, Die, Signal, Kill, KillShell, TypeInv, TypeOK, ScriptTypeOK, Exit
  <1> QED BY <1>1, FaultControl, ControlLock DEF Still

-----------------------------------------------------------------------------
(* The store.                                                              *)

LEMMA InitStore == Init => StoreInv
  BY DEF Init, StoreInv, NewProfileNoOldStore, AfterStop, AfterGone, AfterSwitch

\* A daemon of the version that the profile names never creates an old store.
LEMMA StartDaemonStore ==
  ASSUME TypeInv, NEW v \in Versions, StartDaemon(v), NewProfileNoOldStore,
         profile' = "new" => v = "new", profile' = profile
  PROVE  NewProfileNoOldStore' /\ svc' # "inactive"
  <1> USE DEF TypeInv, TypeOK, HostTypeOK, Versions
  <1>1. CASE ~DirOpen \/ Exists("store")
    BY <1>1 DEF StartDaemon, NewProfileNoOldStore
  <1>2. CASE DirOpen /\ ~Exists("store")
    <2>1. file'["store"] = [inode |-> inodes', owner |-> "li",
                            mode |-> IF v = "new" THEN 600 ELSE 644, format |-> v]
      BY <1>2 DEF StartDaemon, Files
    <2> QED BY <1>2, <2>1 DEF StartDaemon, NewProfileNoOldStore
  <1> QED BY <1>1, <1>2

\* Outside the daemon's starts, no step makes a file of the old format.
LEMMA SetFileFormat ==
  ASSUME TypeInv, NEW p \in Procs, NEW f \in Files, NEW from, NEW to,
         NEW field \in {"owner", "mode"}, NEW value, SetFile(p, f, from, to, field, value),
         NewProfileNoOldStore
  PROVE  NewProfileNoOldStore'
  <1>1. file \in [Files -> FileRecord] /\ "store" \in Files /\ file["store"] \in FileRecord
    BY DEF TypeInv, TypeOK, HostTypeOK, Files
  <1>2. file'["store"].format = file["store"].format
    BY <1>1 DEF SetFile, FileRecord
  <1> QED BY <1>2 DEF SetFile, NewProfileNoOldStore

LEMMA MoveFileFormat ==
  ASSUME TypeInv, NEW p \in Procs, NEW f \in Files, NEW from, NEW to,
         MoveFile(p, f, from, to), NewProfileNoOldStore
  PROVE  NewProfileNoOldStore'
  <1>1. file \in [Files -> FileRecord] /\ "store" \in Files
    BY DEF TypeInv, TypeOK, HostTypeOK, Files
  <1> QED BY <1>1 DEF MoveFile, NewProfileNoOldStore, NoFile

LEMMA CustodyStore ==
  ASSUME TypeInv, StoreInv, NEW p \in Procs, Custody(p), Alone(p)
  PROVE  StoreInv'
  <1> USE DEF StoreInv, Alone
  <1>1. CASE MaskService(p)
    BY <1>1, Targets DEF MaskService, AfterStop, AfterGone, AfterSwitch, NewProfileNoOldStore
  <1>2. CASE StopService(p)
    BY <1>2, Targets DEF StopService, AfterStop, AfterGone, AfterSwitch, NewProfileNoOldStore
  <1>3. CASE CheckDirectory(p)
    BY <1>3, Targets DEF CheckDirectory, hostVars, AfterStop, AfterGone, AfterSwitch, NewProfileNoOldStore
  <1>4. CASE ChownDirectory(p) \/ ChmodDirectory(p)
    BY <1>4, Targets DEF ChownDirectory, ChmodDirectory, SetDirectory,
                         AfterStop, AfterGone, AfterSwitch, NewProfileNoOldStore
  <1>5. CASE FlagDirectory(p)
    BY <1>5, Targets DEF FlagDirectory, hostVars, AfterStop, AfterGone, AfterSwitch, NewProfileNoOldStore
  <1>6. CASE ChownStore(p) \/ ChmodStore(p)
    <2>1. NewProfileNoOldStore'
      BY <1>6, SetFileFormat DEF ChownStore, ChmodStore, Files
    <2> QED BY <1>6, <2>1, Targets DEF ChownStore, ChmodStore, SetFile, AfterStop, AfterGone, AfterSwitch
  <1>7. CASE MoveStore(p)
    <2>1. CASE MoveFile(p, "store", "storeMove", "storeFlag")
      <3>1. NewProfileNoOldStore'
        BY <2>1, MoveFileFormat DEF Files
      <3> QED BY <2>1, <3>1, Targets DEF MoveFile, AfterStop, AfterGone, AfterSwitch
    <2>2. CASE Die(p) /\ UNCHANGED hostVars
      BY <2>2, Targets DEF hostVars, AfterStop, AfterGone, AfterSwitch, NewProfileNoOldStore
    <2> QED BY <1>7, <2>1, <2>2 DEF MoveStore
  <1>8. CASE FlagStore(p) \/ FlagSidecar(p)
    BY <1>8, Targets DEF FlagStore, FlagSidecar, hostVars, AfterStop, AfterGone, AfterSwitch, NewProfileNoOldStore
  <1>9. CASE CheckSidecar(p)
    <2>1. pc'[p] \in {"gone", "sideCheck", "sideChown", "clStop", "idle"}
      <3> DEFINE f == Sidecars[sh[p].side]
      <3>1. Goto(p, "gone") \/ Goto(p, "sideCheck")
            \/ Check(p, Original(f) /\ discarded[f] = NoFile, "sideChown")
        BY <1>9 DEF CheckSidecar
      <3> QED BY <3>1, Targets
    <2>2. pc[p] = "sideCheck" /\ UNCHANGED hostVars
      BY <1>9 DEF CheckSidecar
    <2> QED BY <2>1, <2>2 DEF hostVars, AfterStop, AfterGone, AfterSwitch, NewProfileNoOldStore
  <1>10. CASE ChownSidecar(p) \/ ChmodSidecar(p)
    <2>1. AtSidecar(p) => Sidecar(p) \in Files
      BY DEF AtSidecar, Sidecar, Files, SidecarNames
    <2>2. NewProfileNoOldStore'
      BY <1>10, <2>1, SetFileFormat DEF ChownSidecar, ChmodSidecar
    <2> QED BY <1>10, <2>2, Targets
            DEF ChownSidecar, ChmodSidecar, SetFile, AfterStop, AfterGone, AfterSwitch
  <1>11. CASE MoveSidecar(p)
    <2>1. AtSidecar(p) => Sidecar(p) \in Files
      BY DEF AtSidecar, Sidecar, Files, SidecarNames
    <2>2. NewProfileNoOldStore'
      BY <1>11, <2>1, MoveFileFormat DEF MoveSidecar
    <2> QED BY <1>11, <2>2, Targets DEF MoveSidecar, MoveFile, AfterStop, AfterGone, AfterSwitch
  <1>12. CASE CheckGone(p)
    <2>1. pc'[p] \in {"clStop", "idle"} \/ (pc'[p] = "backChown" /\ file["store"] = NoFile)
      BY <1>12, Targets DEF CheckGone, Check, Exists
    <2> QED BY <1>12, <2>1 DEF CheckGone, hostVars, AfterStop, AfterGone, AfterSwitch, NewProfileNoOldStore
  <1>13. CASE ReturnDirectoryOwner(p) \/ ReturnDirectoryMode(p)
    BY <1>13, Targets DEF ReturnDirectoryOwner, ReturnDirectoryMode, SetDirectory,
                          AfterStop, AfterGone, AfterSwitch, NewProfileNoOldStore
  <1>14. CASE FlagDirectoryReturned(p)
    BY <1>14, Targets DEF FlagDirectoryReturned, hostVars, AfterStop, AfterGone, AfterSwitch, NewProfileNoOldStore
  <1> QED BY <1>1, <1>2, <1>3, <1>4, <1>5, <1>6, <1>7, <1>8, <1>9, <1>10, <1>11, <1>12, <1>13,
             <1>14 DEF Custody

LEMMA ActivationStore ==
  ASSUME TypeInv, StoreInv, NEW p \in Procs, Activation(p), Alone(p)
  PROVE  StoreInv'
  <1> USE DEF StoreInv, Alone
  <1>0. current \in Versions /\ profile \in Versions
    BY DEF TypeInv, TypeOK, HostTypeOK
  <1>1. CASE SetProfile(p)
    BY <1>1, Targets DEF SetProfile, AfterStop, AfterGone, AfterSwitch, NewProfileNoOldStore, NoFile
  <1>2. CASE UnmaskService(p)
    BY <1>2, Targets DEF UnmaskService, AfterStop, AfterGone, AfterSwitch, NewProfileNoOldStore
  <1>3. CASE SwitchConfiguration(p)
    <2>1. pc'[p] \in {"start", "clStop", "idle"} /\ current' = "new" /\ profile' = profile
      BY <1>3, Targets DEF SwitchConfiguration
    <2>2. NewProfileNoOldStore'
      BY <1>3, StartDaemonStore DEF SwitchConfiguration, NewProfileNoOldStore, Versions
    <2> QED BY <2>1, <2>2 DEF AfterStop, AfterGone
  <1>4. CASE StartService(p) \/ RestartService(p)
    <2>1. pc'[p] \in {"accept", "accept2"} /\ current = "new" /\ UNCHANGED <<current, profile>>
      BY <1>4, Targets DEF StartService, RestartService, AfterSwitch
    <2>2. NewProfileNoOldStore'
      BY <1>4, <1>0, <2>1, StartDaemonStore DEF StartService, RestartService, NewProfileNoOldStore
    <2> QED BY <2>1, <2>2 DEF AfterStop, AfterGone
  <1>5. CASE Accept(p) \/ Dwell(p) \/ AcceptRestart(p)
    BY <1>5, Targets DEF Accept, Dwell, AcceptRestart, hostVars, AfterStop, AfterGone, AfterSwitch,
                         NewProfileNoOldStore
  <1> QED BY <1>1, <1>2, <1>3, <1>4, <1>5 DEF Activation

LEMMA FailureStore ==
  ASSUME TypeInv, StoreInv, NEW p \in Procs, Failure(p), Alone(p)
  PROVE  StoreInv'
  <1> USE DEF StoreInv, Alone
  <1>1. pc'[p] \in Cleanup \cup {"idle"}
    BY ZenonT(60), Targets DEF Failure, StopForCleanup, RestoreStore, RestoreSidecar, RestoreDirectory,
                   WriteRecoveryState, SettleMask, Cleanup
  <1>2. profile' = profile /\ current' = current /\ svc' \in {"inactive", svc}
    BY DEF Failure, StopForCleanup, RestoreStore, RestoreSidecar, RestoreDirectory,
           WriteRecoveryState, SettleMask, hostVars
  <1>3. file'["store"].format = file["store"].format
    <2>1. ASSUME NEW f \in Files, NEW inode, NEW flag, RestoreFile(p, f, inode, flag)
          PROVE  file'["store"].format = file["store"].format
      <3>1. file \in [Files -> FileRecord] /\ "store" \in Files /\ file["store"] \in FileRecord
        BY DEF TypeInv, TypeOK, HostTypeOK, Files
      <3>2. PICK owner, mode : file' = file \/ file' = [file EXCEPT ![f].owner = owner, ![f].mode = mode]
        <4>1. CASE inode = 0 \/ file[f].inode # inode
          BY <2>1, <4>1 DEF RestoreFile
        <4>2. CASE ~(inode = 0 \/ file[f].inode # inode)
          <5>1. PICK owner \in {"li"} \cup (IF Erring THEN {file[f].owner} ELSE {}),
                     mode \in {644} \cup (IF Erring THEN {file[f].mode} ELSE {}) :
                  /\ file' = [file EXCEPT ![f].owner = owner, ![f].mode = mode]
                  /\ IF owner = "li" /\ mode = 644
                     THEN Set(p, flag, FALSE) ELSE Set(p, "filesBack", FALSE)
            BY <2>1, <4>2 DEF RestoreFile
          <5> QED BY ZenonT(60), <5>1
        <4> QED BY <4>1, <4>2
      <3> QED BY <3>1, <3>2 DEF FileRecord
    <2>2. AtSidecar(p) => Sidecar(p) \in Files
      BY DEF AtSidecar, Sidecar, Files, SidecarNames
    <2>3. CASE RestoreStore(p)
      BY <2>1, <2>3 DEF RestoreStore, Files
    <2>4. CASE RestoreSidecar(p)
      BY <2>1, <2>2, <2>4 DEF RestoreSidecar
    <2>5. CASE StopForCleanup(p) \/ RestoreDirectory(p) \/ WriteRecoveryState(p) \/ SettleMask(p)
      BY <2>5 DEF StopForCleanup, RestoreDirectory, WriteRecoveryState, SettleMask, hostVars
    <2> QED BY <2>3, <2>4, <2>5 DEF Failure
  <1> QED BY <1>1, <1>2, <1>3 DEF Cleanup, AfterStop, AfterGone, AfterSwitch, NewProfileNoOldStore

LEMMA StoreNext == TypeInv /\ LockHeld /\ StoreInv /\ [Next]_vars => StoreInv'
  <1> SUFFICES ASSUME TypeInv, LockHeld, StoreInv, [Next]_vars PROVE StoreInv'
    OBVIOUS
  <1>1. ASSUME NEW p \in Procs, Still(p) PROVE StoreInv'
    BY <1>1 DEF Still, hostVars, StoreInv, AfterStop, AfterGone, AfterSwitch, NewProfileNoOldStore
  <1>2. ASSUME NEW p \in Procs, Step(p) PROVE StoreInv'
    <2>1. CASE Still(p)
      BY <2>1, <1>1
    <2>2. CASE Alone(p) /\ Modal(p) /\ pc[p] \notin {"idle", "lock"}
      <3>1. UNCHANGED hostVars /\ pc'[p] \notin AfterStop \cup AfterGone \cup AfterSwitch
        <4>1. CASE SelfTest(p) \/ WaitReturns(p) \/ Preflight(p)
          BY <4>1, Targets DEF SelfTest, WaitReturns, Preflight, AfterStop, AfterGone, AfterSwitch
        <4>2. CASE Load(p) \/ CheckAcknowledged(p)
          BY <4>2, Targets DEF Load, CheckAcknowledged, AfterStop, AfterGone, AfterSwitch
        <4>3. CASE Spawn(p)
          BY <4>3, Targets DEF Spawn, AfterStop, AfterGone, AfterSwitch, TypeInv, TypeOK, ScriptTypeOK, Procs
        <4> QED BY <2>2, <4>1, <4>2, <4>3 DEF Modal, AcquireLock
      <3> QED BY <2>2, <3>1 DEF hostVars, Alone, StoreInv, AfterStop, AfterGone, AfterSwitch, NewProfileNoOldStore
    <2>3. CASE Alone(p) /\ (Custody(p) \/ Activation(p) \/ Failure(p))
      BY <2>3, CustodyStore, ActivationStore, FailureStore
    <2> QED BY <1>2, <2>1, <2>2, <2>3, StepAlone DEF Step, Modal
  <1>3. ASSUME NEW p \in Procs, Fault(p) PROVE StoreInv'
    BY <1>1, <1>3, FaultStill
  <1>4. ASSUME NEW p \in Operators, NEW mode \in Modes, Launch(p, mode) PROVE StoreInv'
    BY <1>4 DEF Launch, Goto, hostVars, StoreInv, AfterStop, AfterGone, AfterSwitch,
                NewProfileNoOldStore, TypeInv, TypeOK, ScriptTypeOK, Procs
  <1>5. CASE Acknowledge \/ UNCHANGED vars
    BY <1>5 DEF Acknowledge, vars, scriptVars, hostVars, StoreInv, NewProfileNoOldStore
  <1>6. CASE DaemonCrash
    BY <1>6 DEF DaemonCrash, scriptVars, StoreInv, NewProfileNoOldStore, Versions
  <1>7. CASE SystemdRetry
    <2>1. NewProfileNoOldStore'
      <3>1. current \in Versions /\ (profile = "new" => current = "new")
        BY <1>7 DEF SystemdRetry, StoreInv, TypeInv, TypeOK, HostTypeOK, Versions
      <3> QED BY <1>7, <3>1, StartDaemonStore DEF SystemdRetry, StoreInv
    <2> QED BY <1>7, <2>1 DEF SystemdRetry, scriptVars, StoreInv, AfterStop, AfterGone
  <1>8. CASE Reboot
    <2>1. NewProfileNoOldStore'
      <3>1. profile \in Versions /\ profile' = profile
        BY <1>8 DEF Reboot, TypeInv, TypeOK, HostTypeOK
      <3> QED BY <1>8, <3>1, StartDaemonStore DEF Reboot, StoreInv
    <2> QED BY <1>8, <2>1 DEF Reboot, StoreInv, AfterStop, AfterGone, AfterSwitch
  <1> QED BY <1>2, <1>3, <1>4, <1>5, <1>6, <1>7, <1>8 DEF Next

\* Whatever fails, is killed or is run again, and whenever the power goes: once
\* the profile names the new system, no store of the old format lies where the
\* new daemon would open it.
THEOREM NewSystemNeverMeetsOldStore == Spec => []NewProfileNoOldStore
  <1>1. Init => LockHeld
    BY DEF Init, LockHeld
  <1>2. StoreInv => NewProfileNoOldStore
    BY DEF StoreInv
  <1> QED BY InitType, NextType, LockNext, InitStore, StoreNext, <1>1, <1>2, PTL DEF Spec

-----------------------------------------------------------------------------
(* What the commands of one shell leave alone.                             *)

\* The shell variables of the others, and what the shell of p remembers.
OthersKept(p) == \A q \in Procs \ {p} : sh'[q] = sh[q]
CursorKept(p) ==
  /\ sh'[p].mode = sh[p].mode
  /\ sh'[p].side = sh[p].side
  /\ sh'[p].inode = sh[p].inode
  /\ sh'[p].sideInode = sh[p].sideInode
CustodyKept(p) ==
  /\ sh'[p].fileCustody = sh[p].fileCustody
  /\ sh'[p].sideCustody = sh[p].sideCustody

LEMMA SetKeeps ==
  ASSUME TypeInv, NEW p \in Procs, NEW field, NEW v, Set(p, field, v) \/ UNCHANGED sh
  PROVE  OthersKept(p)
  BY DEF Set, OthersKept, TypeInv, TypeOK, ScriptTypeOK

ShellFields == {"mode", "step", "side", "inode", "sideInode", "storeMoved", "dirCustody",
                "fileCustody", "sideCustody", "pid", "filesBack", "dirBack", "stopped"}

LEMMA SetField ==
  ASSUME TypeInv, NEW p \in Procs, NEW field \in ShellFields, NEW v, Set(p, field, v)
  PROVE  /\ field # "mode" => sh'[p].mode = sh[p].mode
         /\ field # "side" => sh'[p].side = sh[p].side
         /\ field # "inode" => sh'[p].inode = sh[p].inode
         /\ field # "sideInode" => sh'[p].sideInode = sh[p].sideInode
         /\ field # "storeMoved" => sh'[p].storeMoved = sh[p].storeMoved
         /\ field # "fileCustody" => sh'[p].fileCustody = sh[p].fileCustody
         /\ field # "sideCustody" => sh'[p].sideCustody = sh[p].sideCustody
         /\ field = "inode" => sh'[p].inode = v
         /\ field = "side" => sh'[p].side = v
         /\ field = "fileCustody" => sh'[p].fileCustody = v
         /\ field = "sideCustody" => sh'[p].sideCustody = v
  <1>1. sh \in [Procs -> ShellRecord] /\ sh[p] \in ShellRecord
    BY DEF TypeInv, TypeOK, ScriptTypeOK
  <1>2. sh' = [sh EXCEPT ![p] = [sh[p] EXCEPT ![field] = v]]
    BY DEF Set
  <1>3. sh'[p] = [sh[p] EXCEPT ![field] = v]
    BY <1>1, <1>2
  <1> QED BY <1>1, <1>3 DEF ShellRecord, ShellFields

\* The cleanup writes these fields only, and an acceptance check only the pid.
LEMMA SetCleanup ==
  ASSUME TypeInv, NEW p \in Procs,
         \/ UNCHANGED sh
         \/ \E field \in {"filesBack", "dirBack", "stopped", "dirCustody", "fileCustody",
                          "sideCustody"}, v \in BOOLEAN : Set(p, field, v)
  PROVE  OthersKept(p) /\ CursorKept(p) /\ sh'[p].storeMoved = sh[p].storeMoved
  <1>1. CASE UNCHANGED sh
    BY <1>1 DEF CursorKept, OthersKept
  <1>2. ASSUME NEW field \in {"filesBack", "dirBack", "stopped", "dirCustody", "fileCustody",
                              "sideCustody"}, NEW v \in BOOLEAN, Set(p, field, v)
        PROVE  OthersKept(p) /\ CursorKept(p) /\ sh'[p].storeMoved = sh[p].storeMoved
    BY <1>2, SetKeeps, SetField DEF ShellFields, CursorKept
  <1> QED BY <1>1, <1>2

LEMMA RestoreKeeps ==
  ASSUME TypeInv, NEW p \in Procs, NEW f, NEW inode, NEW flag \in {"fileCustody", "sideCustody"},
         RestoreFile(p, f, inode, flag)
  PROVE  OthersKept(p) /\ CursorKept(p) /\ sh'[p].storeMoved = sh[p].storeMoved
  <1>1. Set(p, "filesBack", FALSE) \/ Set(p, flag, FALSE)
    BY ZenonT(60) DEF RestoreFile
  <1> QED BY <1>1, SetCleanup

\* The commands from the mask to the return of the directory.
CustodyLabels == {"mask", "stop", "dirCheck", "dirChown", "dirChmod", "dirFlag", "storeChown",
                  "storeChmod", "storeMove", "storeFlag", "sideCheck", "sideChown", "sideChmod",
                  "sideMove", "sideFlag", "gone", "backChown", "backChmod", "backFlag"}

LEMMA CustodyKeeps ==
  ASSUME TypeInv, NEW p \in Procs, Custody(p)
  PROVE  /\ OthersKept(p) /\ sh'[p].mode = sh[p].mode
         /\ sh'[p].storeMoved = sh[p].storeMoved \/ FlagStore(p)
         /\ UNCHANGED <<written, reviewed, recovery, profile, current>>
         /\ pc[p] \in Trapped /\ pc'[p] \in Trapped \cup {"clStop", "idle"}
         /\ pc[p] \in CustodyLabels /\ pc'[p] \in CustodyLabels \cup {"profile", "clStop", "idle"}
  <1> USE DEF Trapped, CustodyLabels
  <1>0. sh \in [Procs -> ShellRecord] /\ sh[p] \in ShellRecord
    BY DEF TypeInv, TypeOK, ScriptTypeOK
  <1>1. CASE MaskService(p) \/ StopService(p)
    BY <1>1, Targets, SetKeeps DEF MaskService, StopService, stateVars
  <1>2. CASE CheckDirectory(p)
    <2>1. OthersKept(p) /\ sh'[p].mode = sh[p].mode /\ sh'[p].storeMoved = sh[p].storeMoved
      BY <1>2, SetKeeps, SetField DEF CheckDirectory, ShellFields
    <2> QED BY <1>2, <2>1, Targets DEF CheckDirectory, stateVars, hostVars
  <1>3. CASE ChownDirectory(p) \/ ChmodDirectory(p) \/ ReturnDirectoryOwner(p) \/ ReturnDirectoryMode(p)
    BY <1>3, Targets, SetKeeps DEF ChownDirectory, ChmodDirectory, ReturnDirectoryOwner,
       ReturnDirectoryMode, SetDirectory, stateVars
  <1>4. CASE FlagDirectory(p)
    <2>1. OthersKept(p) /\ sh'[p].mode = sh[p].mode /\ sh'[p].storeMoved = sh[p].storeMoved
      BY <1>0, <1>4 DEF FlagDirectory, OthersKept, ShellRecord
    <2> QED BY <1>4, <2>1, Targets DEF FlagDirectory, stateVars, hostVars
  <1>5. CASE ChownStore(p) \/ ChmodStore(p) \/ ChownSidecar(p) \/ ChmodSidecar(p)
    BY <1>5, Targets, SetKeeps DEF ChownStore, ChmodStore, ChownSidecar, ChmodSidecar, SetFile, stateVars
  <1>6. CASE MoveStore(p)
    BY <1>6, Targets, SetKeeps DEF MoveStore, MoveFile, stateVars, hostVars
  <1>7. CASE MoveSidecar(p)
    BY <1>7, Targets, SetKeeps DEF MoveSidecar, MoveFile
  <1>8. CASE FlagStore(p) \/ FlagSidecar(p)
    <2>1. OthersKept(p) /\ sh'[p].mode = sh[p].mode
          /\ (FlagSidecar(p) => sh'[p].storeMoved = sh[p].storeMoved)
      BY <1>0, <1>8 DEF FlagStore, FlagSidecar, OthersKept, ShellRecord
    <2> QED BY <1>8, <2>1, Targets DEF FlagStore, FlagSidecar, stateVars, hostVars
  <1>9. CASE CheckSidecar(p)
    <2> DEFINE f == Sidecars[sh[p].side]
    <2>1. pc[p] = "sideCheck"
          /\ (Goto(p, "gone") \/ Goto(p, "sideCheck")
              \/ Check(p, Original(f) /\ discarded[f] = NoFile, "sideChown"))
      BY <1>9 DEF CheckSidecar
    <2>2. OthersKept(p) /\ sh'[p].mode = sh[p].mode /\ sh'[p].storeMoved = sh[p].storeMoved
      <3>1. CASE UNCHANGED sh \/ Set(p, "side", sh[p].side + 1)
        BY <3>1, SetKeeps, SetField DEF ShellFields
      <3>2. CASE \E a, b : sh' = [sh EXCEPT ![p].sideInode = a, ![p].sideCustody = b]
        BY <1>0, <3>2 DEF OthersKept, ShellRecord
      <3>3. \/ UNCHANGED sh \/ Set(p, "side", sh[p].side + 1)
            \/ \E a, b : sh' = [sh EXCEPT ![p].sideInode = a, ![p].sideCustody = b]
        BY ZenonT(60), <1>9 DEF CheckSidecar
      <3> QED BY <3>1, <3>2, <3>3
    <2> QED BY <1>9, <2>1, <2>2, Targets DEF CheckSidecar, stateVars, hostVars
  <1>10. CASE CheckGone(p)
    BY <1>10, Targets, SetKeeps DEF CheckGone, stateVars, hostVars
  <1>11. CASE FlagDirectoryReturned(p)
    <2>1. OthersKept(p) /\ sh'[p].mode = sh[p].mode /\ sh'[p].storeMoved = sh[p].storeMoved
      BY <1>11, SetKeeps, SetField DEF FlagDirectoryReturned, ShellFields
    <2> QED BY <1>11, <2>1, Targets DEF FlagDirectoryReturned, stateVars, hostVars
  <1> QED BY <1>1, <1>2, <1>3, <1>4, <1>5, <1>6, <1>7, <1>8, <1>9, <1>10, <1>11 DEF Custody

LEMMA ActivationKeeps ==
  ASSUME TypeInv, NEW p \in Procs, Activation(p)
  PROVE  /\ OthersKept(p) /\ CursorKept(p) /\ CustodyKept(p)
         /\ sh'[p].storeMoved = sh[p].storeMoved
         /\ UNCHANGED <<stateVars, dir>>
         /\ pc[p] \in Trapped /\ pc'[p] \in Trapped \cup {"clStop", "idle"}
  <1> USE DEF Trapped
  <1>0. ASSUME UNCHANGED sh \/ Set(p, "pid", pid)
        PROVE  OthersKept(p) /\ CursorKept(p) /\ CustodyKept(p) /\ sh'[p].storeMoved = sh[p].storeMoved
    BY <1>0, SetKeeps, SetField DEF ShellFields, CursorKept, CustodyKept
  <1>1. CASE SetProfile(p) \/ UnmaskService(p) \/ StartService(p) \/ RestartService(p)
    BY <1>0, <1>1, Targets DEF SetProfile, UnmaskService, StartService, RestartService
  <1>2. CASE SwitchConfiguration(p)
    BY <1>0, <1>2, Targets DEF SwitchConfiguration
  <1>3. CASE Accept(p)
    BY <1>0, <1>3, Targets DEF Accept, hostVars
  <1>4. CASE Dwell(p) \/ AcceptRestart(p)
    BY <1>0, <1>4, Targets DEF Dwell, AcceptRestart, hostVars
  <1> QED BY <1>1, <1>2, <1>3, <1>4 DEF Activation

LEMMA FailureKeeps ==
  ASSUME TypeInv, NEW p \in Procs, Failure(p)
  PROVE  /\ OthersKept(p) /\ CursorKept(p) /\ sh'[p].storeMoved = sh[p].storeMoved
         /\ UNCHANGED <<reviewed, discarded, profile, current, pid, inodes>>
         /\ pc[p] \in Cleanup /\ pc'[p] \in Cleanup \cup {"idle"}
         /\ written' = written \/ written' = written \cup {"recovery"}
            \/ written' = written \cup {"fallback"}
  <1> USE DEF Cleanup
  <1>1. CASE StopForCleanup(p)
    <2>1. \E v \in BOOLEAN : Set(p, "stopped", v)
      <3>1. PICK shown \in {TRUE} \cup (IF Erring THEN {FALSE} ELSE {}) :
                   Set(p, "stopped", shown /\ svc' = "inactive")
        BY <1>1 DEF StopForCleanup
      <3>2. (shown /\ svc' = "inactive") \in BOOLEAN
        OBVIOUS
      <3> QED BY <3>1, <3>2
    <2> QED BY <1>1, <2>1, SetCleanup, Targets DEF StopForCleanup, stateVars
  <1>2. CASE RestoreStore(p)
    BY <1>2, SetCleanup, RestoreKeeps, Targets DEF RestoreStore, stateVars
  <1>3. CASE RestoreSidecar(p)
    BY <1>3, SetCleanup, RestoreKeeps, Targets DEF RestoreSidecar, stateVars
  <1>4. CASE RestoreDirectory(p)
    <2>1. UNCHANGED sh \/ Set(p, "dirCustody", FALSE) \/ Set(p, "dirBack", FALSE)
      <3> HIDE DEF Cleanup
      <3>0. sh[p].dirCustody \in BOOLEAN
        BY DEF TypeInv, TypeOK, ScriptTypeOK, ShellRecord
      <3>1. CASE ~sh[p].dirCustody
        BY <1>4, <3>0, <3>1 DEF RestoreDirectory
      <3>2. CASE sh[p].dirCustody
        <4>1. PICK owner \in {"li"} \cup (IF Erring THEN {dir.owner} ELSE {}),
                   mode \in {750} \cup (IF Erring THEN {dir.mode} ELSE {}) :
                /\ dir' = [owner |-> owner, mode |-> mode]
                /\ IF SettledDir' THEN Set(p, "dirCustody", FALSE) ELSE Set(p, "dirBack", FALSE)
          BY <1>4, <3>2 DEF RestoreDirectory, TypeInv, TypeOK
        <4> QED BY ZenonT(60), <4>1
      <3> QED BY <3>1, <3>2
    <2>2. OthersKept(p) /\ CursorKept(p) /\ sh'[p].storeMoved = sh[p].storeMoved
      BY <2>1, SetCleanup
    <2> QED BY <1>4, <2>2, Targets DEF RestoreDirectory, stateVars
  <1>5. CASE WriteRecoveryState(p)
    BY <1>5, Targets, SetCleanup DEF WriteRecoveryState, hostVars
  <1>6. CASE SettleMask(p)
    BY <1>6, Targets, SetCleanup DEF SettleMask, stateVars
  <1> QED BY <1>1, <1>2, <1>3, <1>4, <1>5, <1>6 DEF Failure

-----------------------------------------------------------------------------
(* The record that a preflight leaves behind.                              *)

\* The artefacts are written in their order and never twice, whatever run of
\* the script wrote them; the running system is the old one until the last of
\* them exists, so that the old one is what the preflight has recorded.
RecordInv ==
  /\ \A i, j \in DOMAIN Artefacts : j < i /\ Artefacts[i] \in written => Artefacts[j] \in written
  /\ \A p \in Procs :
       /\ pc[p] = "lock" => sh[p].step = 1
       /\ pc[p] = "preflight" /\ sh[p].step > 1 =>
            \A i \in DOMAIN Artefacts : Artefacts[i] \in written <=> i < sh[p].step
       /\ pc[p] \in {"ack", "spawn"} \cup Trapped \cup Cleanup => "ok" \in written
  /\ "ok" \notin written => current = "old" /\ profile = "old"
  /\ reviewed # "new"

LEMMA ArtefactsDistinct ==
  \A i, j \in DOMAIN Artefacts : Artefacts[i] = Artefacts[j] => i = j
  BY DEF Artefacts

LEMMA ArtefactNames ==
  /\ \A i \in DOMAIN Artefacts : Artefacts[i] \notin {"ack", "recovery", "fallback"}
  /\ Artefacts[11] = "ok" /\ Artefacts[9] = "current" /\ Artefacts[1] = "state"
  /\ \A i \in DOMAIN Artefacts : (Artefacts[i] = "ok" <=> i = 11) /\ (Artefacts[i] = "current" <=> i = 9)
  BY DEF Artefacts

LEMMA InitRecord == Init => RecordInv
  BY DEF Init, RecordInv, Shell, Trapped, Cleanup

\* RecordInv depends on the record, the versions, and pc and step of p only.
LEMMA RecordFrame ==
  ASSUME TypeInv, RecordInv, NEW p \in Procs,
         \A q \in Procs \ {p} : pc'[q] \in {"idle", pc[q]} /\ sh'[q] = sh[q],
         pc'[p] \notin {"lock", "preflight"},
         pc'[p] \in {"ack", "spawn"} \cup Trapped \cup Cleanup => "ok" \in written,
         \E more \in SUBSET {"ack", "recovery", "fallback"} : written' = written \cup more,
         "ok" \notin written => UNCHANGED <<current, profile>>,
         reviewed' = reviewed
  PROVE  RecordInv'
  <1> USE DEF RecordInv
  <1>1. \A i \in DOMAIN Artefacts : Artefacts[i] \in written' <=> Artefacts[i] \in written
    BY ArtefactNames
  <1>2. "ok" \in written' <=> "ok" \in written
    OBVIOUS
  <1>3. ASSUME NEW q \in Procs
        PROVE  /\ pc'[q] = "lock" => sh'[q].step = 1
               /\ pc'[q] = "preflight" /\ sh'[q].step > 1 =>
                    \A i \in DOMAIN Artefacts : Artefacts[i] \in written' <=> i < sh'[q].step
               /\ pc'[q] \in {"ack", "spawn"} \cup Trapped \cup Cleanup => "ok" \in written'
    <2>1. CASE q = p
      BY <2>1, <1>2
    <2>2. CASE q # p
      BY <2>2, <1>1, <1>2 DEF Trapped, Cleanup
    <2> QED BY <2>1, <2>2
  <1> QED BY <1>1, <1>2, <1>3

\* The next artefact of a preflight, or the refusal of a second one.
LEMMA PreflightRecord ==
  ASSUME TypeInv, LockHeld, RecordInv, NEW p \in Procs, Preflight(p) PROVE RecordInv'
  <1> DEFINE n == sh[p].step
  <1> USE DEF RecordInv
  <1>1. pc[p] = "preflight" /\ n \in 1..11 /\ DOMAIN Artefacts = 1..11 /\ Len(Artefacts) = 11
    BY ArtefactsLength DEF Preflight, TypeInv, CursorsInRange, TypeOK, ScriptTypeOK, ShellRecord
  <1>2. \A q \in Procs \ {p} : pc[q] \in {"idle", "lock"}
    BY <1>1 DEF LockHeld
  <1>3. UNCHANGED <<current, profile>>
    BY DEF Preflight, hostVars
  <1>4. CASE Die(p) /\ UNCHANGED <<sh, written, reviewed>>
    <2>1. Exit(p, "failed")
      BY <1>1, <1>4 DEF Die, Trapped
    <2>2. pc' = [pc EXCEPT ![p] = "idle"]
      BY <2>1 DEF Exit
    <2>3. pc'[p] = "idle" /\ \A q \in Procs \ {p} : pc'[q] = pc[q]
      BY <2>2 DEF TypeInv, TypeOK, ScriptTypeOK
    <2> QED BY <1>3, <1>4, <2>3 DEF Trapped, Cleanup
  <1>5. CASE /\ ~(n = 1 /\ {"state", "log"} \cap written # {})
             /\ written' = written \cup {Artefacts[n]}
             /\ reviewed' = IF Artefacts[n] = "current" THEN current ELSE reviewed
             /\ Set(p, "step", n + 1)
             /\ IF n = Len(Artefacts) THEN Exit(p, "success") ELSE Goto(p, "preflight")
    <2>1. \A i \in 1..11 : Artefacts[i] \in written <=> i < n
      <3>1. CASE n = 1
        <4>1. Artefacts[1] \notin written
          BY <1>5, <3>1, ArtefactNames
        <4>2. \A i \in 1..11 : i = 1 \/ 1 < i
          OBVIOUS
        <4> QED BY <1>1, <3>1, <4>1, <4>2
      <3> QED BY <1>1, <3>1
    <2>2. \A i \in 1..11 : Artefacts[i] \in written' <=> i < n + 1
      BY <1>1, <1>5, <2>1, ArtefactsDistinct
    <2>3. sh'[p].step = n + 1 /\ OthersKept(p)
      <3>1. sh[p] \in ShellRecord /\ sh \in [Procs -> ShellRecord]
        BY DEF TypeInv, TypeOK, ScriptTypeOK
      <3>2. sh' = [sh EXCEPT ![p] = [sh[p] EXCEPT !.step = n + 1]]
        BY <1>5 DEF Set
      <3> QED BY <3>1, <3>2 DEF OthersKept, ShellRecord
    <2>4. /\ pc'[p] \in {"idle", "preflight"} /\ (pc'[p] = "preflight" => n # 11)
          /\ \A q \in Procs \ {p} : pc'[q] = pc[q]
      <3>1. CASE n = 11
        BY <1>1, <1>5, <3>1 DEF Exit, TypeInv, TypeOK, ScriptTypeOK
      <3>2. CASE n # 11
        BY <1>1, <1>5, <3>2 DEF Goto, TypeInv, TypeOK, ScriptTypeOK
      <3> QED BY <3>1, <3>2
    <2>5. reviewed' # "new"
      <3>1. CASE n = 9
        <4>1. Artefacts[11] \notin written
          BY <2>1, <3>1
        <4> QED BY <1>5, <4>1, ArtefactNames
      <3> QED BY <1>1, <1>5, <3>1, ArtefactNames
    <2>6. "ok" \notin written' => current' = "old" /\ profile' = "old"
      BY <1>3, <1>5
    <2>7. \A i, j \in 1..11 : j < i /\ Artefacts[i] \in written' => Artefacts[j] \in written'
      BY <1>1, <2>2
    <2>8. ASSUME NEW q \in Procs
          PROVE  /\ pc'[q] = "lock" => sh'[q].step = 1
                 /\ pc'[q] = "preflight" /\ sh'[q].step > 1 =>
                      \A i \in DOMAIN Artefacts : Artefacts[i] \in written' <=> i < sh'[q].step
                 /\ pc'[q] \in {"ack", "spawn"} \cup Trapped \cup Cleanup => "ok" \in written'
      <3>1. CASE q = p
        BY <1>1, <2>2, <2>3, <2>4, <3>1 DEF Trapped, Cleanup
      <3>2. CASE q # p
        BY <1>2, <2>3, <2>4, <3>2 DEF OthersKept, Trapped, Cleanup
      <3> QED BY <3>1, <3>2
    <2> QED BY <1>1, <2>5, <2>6, <2>7, <2>8
  <1> QED BY <1>4, <1>5 DEF Preflight

LEMMA ModalRecord ==
  ASSUME TypeInv, LockHeld, RecordInv, NEW p \in Procs, Modal(p) PROVE RecordInv'
  <1> USE DEF RecordInv, TypeInv, TypeOK, ScriptTypeOK
  <1>1. CASE AcquireLock(p)
    <2>1. LockLabel(sh[p].mode) \in {"preflight", "selfTest", "load"}
      BY DEF LockLabel
    <2>2. /\ UNCHANGED <<sh, written, reviewed, current, profile>>
          /\ pc[p] = "lock" /\ pc'[p] \in {"idle", "preflight", "selfTest", "load"}
          /\ \A q \in Procs \ {p} : pc'[q] = pc[q]
      BY <1>1, <2>1 DEF AcquireLock, Exit, stateVars, hostVars
    <2> QED BY <2>2 DEF Trapped, Cleanup
  <1>2. CASE SelfTest(p) \/ WaitReturns(p)
    <2>1. /\ UNCHANGED <<sh, written, reviewed, current, profile>> /\ pc'[p] = "idle"
          /\ \A q \in Procs \ {p} : pc'[q] = pc[q]
      BY <1>2 DEF SelfTest, WaitReturns, Exit, stateVars, hostVars
    <2> QED BY <2>1 DEF Trapped, Cleanup
  <1>3. CASE Preflight(p)
    BY <1>3, PreflightRecord
  <1>4. CASE Load(p) \/ CheckAcknowledged(p)
    <2>1. /\ UNCHANGED <<sh, written, reviewed, current, profile>>
          /\ pc'[p] \in {"ack", "spawn", "mask"} => "ok" \in written
          /\ pc'[p] \in {"ack", "spawn", "mask", "idle"}
          /\ \A q \in Procs \ {p} : pc'[q] = pc[q]
      BY <1>4 DEF Load, CheckAcknowledged, Check, Die, Goto, Exit, Required, Trapped, stateVars, hostVars
    <2> QED BY <2>1 DEF Trapped, Cleanup
  <1>5. CASE Spawn(p)
    <2>1. CASE pc[Unit] # "idle"
      <3>1. /\ UNCHANGED <<sh, written, reviewed, current, profile>> /\ pc'[p] = "idle"
            /\ \A q \in Procs \ {p} : pc'[q] = pc[q]
        BY <1>5, <2>1 DEF Spawn, Die, Exit, Trapped, stateVars, hostVars
      <3> QED BY <3>1 DEF Trapped, Cleanup
    <2>2. CASE pc[Unit] = "idle"
      <3>1. /\ UNCHANGED <<written, reviewed, current, profile>>
            /\ pc' = [pc EXCEPT ![p] = "wait", ![Unit] = "lock"]
            /\ sh' = [sh EXCEPT ![Unit] = Shell("activate-inner")]
        BY <1>5, <2>2 DEF Spawn, stateVars, hostVars
      <3>2. Unit \in Procs /\ pc'[Unit] = "lock" /\ sh'[Unit].step = 1
        BY <3>1 DEF Procs, Shell
      <3>3. \A q \in Procs \ {Unit} : sh'[q] = sh[q] /\ pc'[q] \in {"wait", pc[q]}
        BY <3>1
      <3> QED BY <3>1, <3>2, <3>3 DEF Trapped, Cleanup
    <2> QED BY <2>1, <2>2
  <1> QED BY <1>1, <1>2, <1>3, <1>4, <1>5 DEF Modal

LEMMA RecordNext == TypeInv /\ LockHeld /\ RecordInv /\ [Next]_vars => RecordInv'
  <1> SUFFICES ASSUME TypeInv, LockHeld, RecordInv, [Next]_vars PROVE RecordInv'
    OBVIOUS
  <1>1. ASSUME NEW p \in Procs, Still(p) PROVE RecordInv'
    BY <1>1 DEF Still, RecordInv, stateVars, hostVars, Trapped, Cleanup
  <1>2. ASSUME NEW p \in Procs, Step(p) PROVE RecordInv'
    <2>1. CASE Modal(p)
      BY <2>1, ModalRecord
    <2>2. CASE (Custody(p) \/ Activation(p) \/ Failure(p))
      <3>1. /\ OthersKept(p) /\ reviewed' = reviewed
            /\ pc[p] \in Trapped \cup Cleanup
            /\ pc'[p] \in Trapped \cup Cleanup \cup {"idle"}
            /\ \E more \in SUBSET {"ack", "recovery", "fallback"} : written' = written \cup more
        <4>1. ASSUME written' = written \/ written' = written \cup {"recovery"}
                     \/ written' = written \cup {"fallback"}
              PROVE  \E more \in SUBSET {"ack", "recovery", "fallback"} : written' = written \cup more
          <5>1. CASE written' = written
            <6> WITNESS {} \in SUBSET {"ack", "recovery", "fallback"}
            <6> QED BY <5>1
          <5>2. CASE written' = written \cup {"recovery"}
            <6> WITNESS {"recovery"} \in SUBSET {"ack", "recovery", "fallback"}
            <6> QED BY <5>2
          <5>3. CASE written' = written \cup {"fallback"}
            <6> WITNESS {"fallback"} \in SUBSET {"ack", "recovery", "fallback"}
            <6> QED BY <5>3
          <5> QED BY <4>1, <5>1, <5>2, <5>3
        <4> QED BY <2>2, <4>1, CustodyKeeps, ActivationKeeps, FailureKeeps DEF stateVars, Cleanup
      <3>2. \A q \in Procs \ {p} : pc'[q] = pc[q]
        <4>1. Control(p)
          <5>1. ~AcquireLock(p) /\ ~Spawned(p)
            BY <3>1 DEF AcquireLock, Spawned, Trapped, Cleanup
          <5> QED BY <1>2, <5>1, StepControl
        <4> QED BY <3>1, <4>1, ControlLock DEF Trapped, Cleanup
      <3>3. "ok" \in written
        BY <3>1 DEF RecordInv
      <3>4. pc'[p] \notin {"lock", "preflight"}
        BY <3>1 DEF Trapped, Cleanup
      <3> QED BY <3>1, <3>2, <3>3, <3>4, RecordFrame DEF OthersKept
    <2> QED BY <1>2, <2>1, <2>2 DEF Step, Modal
  <1>3. ASSUME NEW p \in Procs, Fault(p) PROVE RecordInv'
    BY <1>1, <1>3, FaultStill
  <1>4. ASSUME NEW p \in Operators, NEW mode \in Modes, Launch(p, mode) PROVE RecordInv'
    <2>1. Shell(mode).step = 1
      BY DEF Shell
    <2>2. /\ UNCHANGED <<written, reviewed, current, profile>>
          /\ pc' = [pc EXCEPT ![p] = "lock"] /\ sh' = [sh EXCEPT ![p] = Shell(mode)]
      BY <1>4 DEF Launch, Goto, stateVars, hostVars
    <2>3. pc'[p] = "lock" /\ sh'[p].step = 1
          /\ \A q \in Procs \ {p} : pc'[q] = pc[q] /\ sh'[q] = sh[q]
      BY <2>1, <2>2 DEF TypeInv, TypeOK, ScriptTypeOK, Procs
    <2> QED BY <2>2, <2>3 DEF RecordInv, Trapped, Cleanup
  <1>5. CASE Acknowledge
    BY <1>5, ArtefactNames DEF Acknowledge, RecordInv, scriptVars, hostVars
  <1>6. CASE DaemonCrash \/ SystemdRetry \/ UNCHANGED vars
    BY <1>6 DEF DaemonCrash, SystemdRetry, vars, scriptVars, stateVars, hostVars, RecordInv
  <1>7. CASE Reboot
    BY <1>7 DEF Reboot, RecordInv, stateVars, Trapped, Cleanup
  <1> QED BY <1>2, <1>3, <1>4, <1>5, <1>6, <1>7 DEF Next

\* Whatever fails, and however often the script is run again: an invocation
\* that may change the host does so after a preflight that ran to its end.
THEOREM PreflightCameFirst == Spec => []ActivationFollowsPreflight
  <1>1. Init => LockHeld
    BY DEF Init, LockHeld
  <1>2. RecordInv => ActivationFollowsPreflight
    <2> SUFFICES ASSUME RecordInv, NEW p \in Committed, NEW i \in DOMAIN Artefacts
                 PROVE  Artefacts[i] \in written
      BY DEF ActivationFollowsPreflight
    <2>1. Artefacts[11] \in written
      BY ArtefactNames DEF RecordInv, Committed
    <2>2. i \in 1..11 /\ 11 \in DOMAIN Artefacts
      BY ArtefactsLength
    <2>3. i = 11 \/ i < 11
      BY <2>2
    <2> QED BY <2>1, <2>2, <2>3 DEF RecordInv
  <1> QED BY InitType, NextType, LockNext, InitRecord, RecordNext, <1>1, <1>2, PTL DEF Spec

-----------------------------------------------------------------------------
(* What was moved to STATE.                                                *)

\* A sidecar is on its way only while nothing lies at its target, and whatever
\* a shell or the recovery state says to have been moved lies there.
MoveInv ==
  /\ \A p \in Procs :
       /\ pc[p] \in {"sideChown", "sideChmod", "sideMove"} => discarded[Sidecar(p)] = NoFile
       /\ pc[p] \in {"storeChown", "storeChmod", "storeMove"} => Exists("store")
       /\ pc[p] = "storeFlag" \/ sh[p].storeMoved => discarded["store"] # NoFile
  /\ recovery.exists /\ recovery.discarded => discarded["store"] # NoFile

\* The step of DiscardedNeverOverwritten.
DiscardedKept == \A f \in Files : discarded[f] # NoFile => discarded'[f] = discarded[f]

LEMMA InitMove == Init => MoveInv
  BY DEF Init, MoveInv, Shell

LEMMA StepDiscards ==
  ASSUME TypeInv, MoveInv, NEW p \in Procs, Step(p) PROVE DiscardedKept
  <1>1. CASE MoveStore(p)
    BY <1>1 DEF MoveStore, MoveFile, DiscardedKept, stateVars, TypeInv, TypeOK, StateTypeOK
  <1>2. CASE MoveSidecar(p)
    BY <1>2 DEF MoveSidecar, MoveFile, DiscardedKept, MoveInv, TypeInv, TypeOK, StateTypeOK
  <1>3. CASE Custody(p) /\ ~MoveStore(p) /\ ~MoveSidecar(p)
    BY <1>3 DEF Custody, MaskService, StopService, CheckDirectory, ChownDirectory, ChmodDirectory,
       ReturnDirectoryOwner, ReturnDirectoryMode, SetDirectory, FlagDirectory, ChownStore,
       ChmodStore, ChownSidecar, ChmodSidecar, SetFile, FlagStore, FlagSidecar, CheckSidecar,
       CheckGone, FlagDirectoryReturned, stateVars, DiscardedKept
  <1>4. CASE Activation(p) \/ Failure(p)
    BY <1>4, ActivationKeeps, FailureKeeps DEF stateVars, DiscardedKept
  <1>5. CASE Modal(p)
    BY <1>5 DEF Modal, AcquireLock, SelfTest, Preflight, Load, CheckAcknowledged, Spawn,
       WaitReturns, stateVars, DiscardedKept
  <1> QED BY <1>1, <1>2, <1>3, <1>4, <1>5 DEF Step, Modal

LEMMA NextDiscards == TypeInv /\ MoveInv /\ [Next]_vars => DiscardedKept
  <1> SUFFICES ASSUME TypeInv, MoveInv, [Next]_vars PROVE DiscardedKept
    OBVIOUS
  <1>1. ASSUME NEW p \in Procs, Step(p) PROVE DiscardedKept
    BY <1>1, StepDiscards
  <1>2. ASSUME NEW p \in Procs, Fault(p) PROVE DiscardedKept
    BY <1>2, FaultControl DEF DiscardedKept, stateVars
  <1>3. ASSUME NEW p \in Operators, NEW mode \in Modes, Launch(p, mode) PROVE DiscardedKept
    BY <1>3 DEF Launch, DiscardedKept, stateVars
  <1>4. CASE Acknowledge \/ DaemonCrash \/ SystemdRetry \/ Reboot \/ UNCHANGED vars
    BY <1>4 DEF Acknowledge, DaemonCrash, SystemdRetry, Reboot, vars, stateVars, DiscardedKept
  <1> QED BY <1>1, <1>2, <1>3, <1>4 DEF Next

\* A step of the run that holds the lock keeps MoveInv if its own clauses hold.
LEMMA MoveFrame ==
  ASSUME TypeInv, MoveInv, NEW p \in Procs, Alone(p), OthersKept(p), DiscardedKept,
         pc'[p] \in {"sideChown", "sideChmod", "sideMove"} => discarded'[Sidecar(p)'] = NoFile,
         pc'[p] \in {"storeChown", "storeChmod", "storeMove"} => Exists("store")',
         pc'[p] = "storeFlag" \/ sh'[p].storeMoved => discarded'["store"] # NoFile,
         recovery' = recovery \/ recovery' = [exists |-> TRUE, discarded |-> sh[p].storeMoved]
  PROVE  MoveInv'
  <1>1. discarded["store"] # NoFile => discarded'["store"] # NoFile
    BY DEF DiscardedKept, Files
  <1>2. recovery'.exists /\ recovery'.discarded => discarded'["store"] # NoFile
    BY <1>1 DEF MoveInv
  <1>3. ASSUME NEW q \in Procs
        PROVE  /\ pc'[q] \in {"sideChown", "sideChmod", "sideMove"} => discarded'[Sidecar(q)'] = NoFile
               /\ pc'[q] \in {"storeChown", "storeChmod", "storeMove"} => Exists("store")'
               /\ pc'[q] = "storeFlag" \/ sh'[q].storeMoved => discarded'["store"] # NoFile
    <2>1. CASE q = p
      BY <2>1
    <2>2. CASE q # p
      BY <1>1, <2>2 DEF Alone, OthersKept, MoveInv
    <2> QED BY <2>1, <2>2
  <1> QED BY <1>2, <1>3 DEF MoveInv

LEMMA CustodyMove ==
  ASSUME TypeInv, MoveInv, NEW p \in Procs, Custody(p), Alone(p), DiscardedKept PROVE MoveInv'
  <1>0. /\ file \in [Files -> FileRecord] /\ "store" \in Files
        /\ sh[p] \in ShellRecord /\ sh \in [Procs -> ShellRecord]
        /\ discarded \in [Files -> FileRecord]
    BY DEF TypeInv, TypeOK, HostTypeOK, ScriptTypeOK, StateTypeOK, Files
  <1>1. recovery' = recovery /\ OthersKept(p) /\ (sh'[p].storeMoved = sh[p].storeMoved \/ FlagStore(p))
    BY CustodyKeeps
  <1>2. discarded["store"] # NoFile => discarded'["store"] # NoFile
    BY DEF DiscardedKept, Files
  <1>3. sh[p].storeMoved => discarded["store"] # NoFile
    BY DEF MoveInv
  <1>4. FlagStore(p) => discarded'["store"] # NoFile
    BY <1>2 DEF FlagStore, MoveInv
  <1>5. sh'[p].storeMoved => discarded'["store"] # NoFile
    BY <1>1, <1>2, <1>3, <1>4
  <1>6. ASSUME pc'[p] \notin {"sideChown", "sideChmod", "sideMove", "storeChown", "storeChmod",
                             "storeMove", "storeFlag"}
        PROVE  MoveInv'
    BY <1>1, <1>5, <1>6, MoveFrame
  <1>7. CASE MaskService(p) \/ StopService(p) \/ CheckDirectory(p) \/ CheckGone(p)
             \/ FlagStore(p) \/ FlagSidecar(p) \/ FlagDirectoryReturned(p)
    <2>1. pc'[p] \in {"stop", "dirCheck", "dirChown", "backChown", "sideCheck", "profile", "clStop", "idle"}
      BY <1>7, Targets DEF MaskService, StopService, CheckDirectory, CheckGone, FlagStore,
                           FlagSidecar, FlagDirectoryReturned
    <2> QED BY <1>6, <2>1
  <1>8. CASE ChownDirectory(p) \/ ChmodDirectory(p) \/ ReturnDirectoryOwner(p) \/ ReturnDirectoryMode(p)
    <2>1. pc'[p] \in {"dirChmod", "dirFlag", "backChmod", "backFlag"}
      BY <1>8, Targets DEF ChownDirectory, ChmodDirectory, ReturnDirectoryOwner, ReturnDirectoryMode, SetDirectory
    <2> QED BY <1>6, <2>1
  <1>9. CASE FlagDirectory(p)
    <2>1. pc'[p] \in {"clStop", "idle"} \/ (pc'[p] = "storeChown" /\ Exists("store")')
      BY <1>9, Targets DEF FlagDirectory, Check, hostVars, Exists
    <2> QED BY <1>1, <1>5, <2>1, MoveFrame
  <1>10. CASE ChownStore(p) \/ ChmodStore(p)
    <2>1. pc'[p] \in {"storeChmod", "storeMove"}
      BY <1>10, Targets DEF ChownStore, ChmodStore, SetFile
    <2>2. Exists("store")'
      <3>1. CASE ChownStore(p)
        <4>1. file'["store"] = [file["store"] EXCEPT !.owner = "root"]
          BY <1>0, <3>1 DEF ChownStore, SetFile
        <4>2. file'["store"].owner = "root"
          BY <1>0, <4>1 DEF FileRecord
        <4> QED BY <4>2 DEF Exists, NoFile
      <3>2. CASE ChmodStore(p)
        <4>1. file'["store"] = [file["store"] EXCEPT !.mode = 600]
          BY <1>0, <3>2 DEF ChmodStore, SetFile
        <4>2. file'["store"].mode = 600
          BY <1>0, <4>1 DEF FileRecord
        <4> QED BY <4>2 DEF Exists, NoFile
      <3> QED BY <1>10, <3>1, <3>2
    <2> QED BY <1>1, <1>5, <2>1, <2>2, MoveFrame
  <1>11. CASE MoveStore(p)
    <2>1. CASE MoveFile(p, "store", "storeMove", "storeFlag")
      <3>1. pc'[p] = "storeFlag" /\ discarded'["store"] # NoFile
        BY <1>0, <2>1, Targets DEF MoveFile, MoveInv, Exists
      <3> QED BY <1>1, <3>1, MoveFrame
    <2>2. CASE pc[p] = "storeMove" /\ Die(p)
      BY <2>2, <1>6, Targets
    <2> QED BY <1>11, <2>1, <2>2 DEF MoveStore
  <1>12. CASE CheckSidecar(p)
    <2> DEFINE f == Sidecars[sh[p].side]
    <2>1. CASE Check(p, Original(f) /\ discarded[f] = NoFile, "sideChown")
               /\ sh'[p].side = sh[p].side /\ UNCHANGED discarded
      <3>1. pc'[p] \in {"clStop", "idle"} \/ (pc'[p] = "sideChown" /\ discarded[f] = NoFile)
        BY <2>1, Targets DEF Check
      <3>2. Sidecar(p)' = f
        BY <2>1 DEF Sidecar
      <3> QED BY <1>1, <1>5, <2>1, <3>1, <3>2, MoveFrame
    <2>2. CASE Goto(p, "gone") \/ Goto(p, "sideCheck")
      BY <2>2, <1>6, Targets
    <2>3. \/ Goto(p, "gone") \/ Goto(p, "sideCheck")
          \/ /\ Check(p, Original(f) /\ discarded[f] = NoFile, "sideChown")
             /\ sh'[p].side = sh[p].side
      BY <1>0, <1>12 DEF CheckSidecar, ShellRecord
    <2> QED BY <1>12, <2>1, <2>2, <2>3 DEF CheckSidecar, stateVars
  <1>13. CASE ChownSidecar(p) \/ ChmodSidecar(p)
    <2>1. pc'[p] \in {"sideChmod", "sideMove"} /\ pc[p] \in {"sideChown", "sideChmod"}
          /\ UNCHANGED <<sh, discarded>>
      BY <1>13, Targets DEF ChownSidecar, ChmodSidecar, SetFile, stateVars
    <2>2. discarded'[Sidecar(p)'] = NoFile
      BY <2>1 DEF MoveInv, Sidecar
    <2> QED BY <1>1, <1>5, <2>1, <2>2, MoveFrame
  <1>14. CASE MoveSidecar(p)
    <2>1. pc'[p] = "sideFlag"
      BY <1>14, Targets DEF MoveSidecar, MoveFile
    <2> QED BY <2>1, <1>6
  <1> QED BY <1>7, <1>8, <1>9, <1>10, <1>11, <1>12, <1>13, <1>14 DEF Custody

LEMMA MoveNext == TypeInv /\ LockHeld /\ MoveInv /\ [Next]_vars => MoveInv'
  <1> SUFFICES ASSUME TypeInv, LockHeld, MoveInv, [Next]_vars PROVE MoveInv'
    OBVIOUS
  <1>0. DiscardedKept
    BY NextDiscards
  <1>1. ASSUME NEW p \in Procs, Still(p) PROVE MoveInv'
    BY <1>1 DEF Still, MoveInv, stateVars, hostVars, Exists, Sidecar
  <1>2. ASSUME NEW p \in Procs, Step(p) PROVE MoveInv'
    <2>1. CASE Modal(p)
      <3>1. CASE Spawn(p) /\ pc[Unit] = "idle"
        <4>1. UNCHANGED <<discarded, recovery, file>>
              /\ pc' = [pc EXCEPT ![p] = "wait", ![Unit] = "lock"]
              /\ sh' = [sh EXCEPT ![Unit] = Shell("activate-inner")]
          BY <3>1 DEF Spawn, stateVars, hostVars
        <4>2. \A q \in Procs : /\ pc'[q] \in {"wait", "lock", pc[q]}
                               /\ sh'[q] = sh[q] \/ (pc'[q] = "lock" /\ sh'[q] = Shell("activate-inner"))
          BY <4>1 DEF TypeInv, TypeOK, ScriptTypeOK, Procs
        <4>3. ~Shell("activate-inner").storeMoved
          BY DEF Shell
        <4> QED BY <4>1, <4>2, <4>3 DEF MoveInv, Exists, Sidecar
      <3>2. CASE ~(Spawn(p) /\ pc[Unit] = "idle")
        <4>1. /\ UNCHANGED <<discarded, recovery, file>>
              /\ OthersKept(p) /\ sh'[p].storeMoved = sh[p].storeMoved
          <5>1. CASE Preflight(p)
            <6>1. UNCHANGED sh \/ Set(p, "step", sh[p].step + 1)
              BY <5>1 DEF Preflight
            <6>2. OthersKept(p) /\ sh'[p].storeMoved = sh[p].storeMoved
              BY <6>1, SetKeeps, SetField DEF ShellFields
            <6> QED BY <5>1, <6>2 DEF Preflight, hostVars
          <5>2. CASE Modal(p) /\ ~Preflight(p)
            BY <3>2, <5>2 DEF Modal, AcquireLock, SelfTest, Load, CheckAcknowledged, Spawn,
               WaitReturns, stateVars, hostVars, OthersKept
          <5> QED BY <2>1, <5>1, <5>2
        <4>2. /\ \A q \in Procs \ {p} : pc'[q] = pc[q]
              /\ pc'[p] \in {"idle", "preflight", "selfTest", "load", "ack", "mask", "spawn"}
          <5>1. CASE AcquireLock(p)
            BY <5>1 DEF AcquireLock, Exit, LockLabel, TypeInv, TypeOK, ScriptTypeOK
          <5>2. CASE Preflight(p) \/ SelfTest(p) \/ Load(p) \/ CheckAcknowledged(p) \/ WaitReturns(p)
            BY <5>2 DEF Preflight, SelfTest, Load, CheckAcknowledged, WaitReturns, Check, Die,
               Goto, Exit, Trapped, TypeInv, TypeOK, ScriptTypeOK
          <5>3. CASE Spawn(p)
            BY <3>2, <5>3 DEF Spawn, Die, Goto, Exit, Trapped, TypeInv, TypeOK, ScriptTypeOK
          <5> QED BY <2>1, <5>1, <5>2, <5>3 DEF Modal
        <4> QED BY <4>1, <4>2 DEF MoveInv, Exists, Sidecar, OthersKept
      <3> QED BY <3>1, <3>2
    <2>2. CASE Custody(p) \/ Activation(p) \/ Failure(p)
      <3>1. pc[p] \in Trapped \cup Cleanup /\ pc'[p] \in Trapped \cup Cleanup \cup {"idle"}
        BY <2>2, CustodyKeeps, ActivationKeeps, FailureKeeps DEF Cleanup
      <3>2. CASE Still(p)
        BY <3>2, <1>1
      <3>3. CASE Alone(p)
        <4>1. CASE Custody(p)
          BY <1>0, <3>3, <4>1, CustodyMove
        <4>2. CASE Activation(p)
          <5>1. pc'[p] \in {"unmask", "switch", "start", "accept", "dwell", "restart", "accept2",
                            "clStop", "idle"}
            BY <4>2, Targets DEF Activation, SetProfile, UnmaskService, SwitchConfiguration,
               StartService, Accept, Dwell, RestartService, AcceptRestart
          <5> QED BY <1>0, <3>3, <4>2, <5>1, ActivationKeeps, MoveFrame DEF stateVars, MoveInv
        <4>3. CASE Failure(p)
          <5>1. recovery' = recovery \/ recovery' = [exists |-> TRUE, discarded |-> sh[p].storeMoved]
            BY <4>3 DEF Failure, StopForCleanup, RestoreStore, RestoreSidecar, RestoreDirectory,
               WriteRecoveryState, SettleMask, stateVars
          <5>2. /\ OthersKept(p) /\ sh'[p].storeMoved = sh[p].storeMoved /\ UNCHANGED discarded
                /\ pc'[p] \in Cleanup \cup {"idle"}
            BY <4>3, FailureKeeps
          <5> QED BY <1>0, <3>3, <5>1, <5>2, MoveFrame DEF Cleanup, MoveInv
        <4> QED BY <2>2, <4>1, <4>2, <4>3
      <3> QED BY <1>2, <3>2, <3>3, StepAlone
    <2> QED BY <1>2, <2>1, <2>2 DEF Step, Modal
  <1>3. ASSUME NEW p \in Procs, Fault(p) PROVE MoveInv'
    BY <1>1, <1>3, FaultStill
  <1>4. ASSUME NEW p \in Operators, NEW mode \in Modes, Launch(p, mode) PROVE MoveInv'
    <2>1. ~Shell(mode).storeMoved
      BY DEF Shell
    <2>2. /\ UNCHANGED <<discarded, recovery, file>>
          /\ pc' = [pc EXCEPT ![p] = "lock"] /\ sh' = [sh EXCEPT ![p] = Shell(mode)]
      BY <1>4 DEF Launch, Goto, stateVars, hostVars
    <2>3. pc'[p] = "lock" /\ ~sh'[p].storeMoved
          /\ \A q \in Procs \ {p} : pc'[q] = pc[q] /\ sh'[q] = sh[q]
      BY <2>1, <2>2 DEF TypeInv, TypeOK, ScriptTypeOK, Procs
    <2> QED BY <2>2, <2>3 DEF MoveInv, Exists, Sidecar
  <1>5. CASE Acknowledge \/ DaemonCrash \/ UNCHANGED vars
    BY <1>5 DEF Acknowledge, DaemonCrash, vars, scriptVars, stateVars, hostVars, MoveInv, Exists, Sidecar
  <1>6. CASE SystemdRetry \/ Reboot
    <2>1. UNCHANGED <<sh, discarded, recovery>>
          /\ (pc' = pc \/ \A q \in Procs : pc'[q] = "idle")
      BY <1>6 DEF SystemdRetry, Reboot, scriptVars, stateVars
    <2>2. Exists("store") => Exists("store")'
      BY <1>6 DEF SystemdRetry, Reboot, StartDaemon, Exists
    <2> QED BY <2>1, <2>2 DEF MoveInv, Sidecar
  <1> QED BY <1>2, <1>3, <1>4, <1>5, <1>6 DEF Next

\* What was moved to STATE is kept: no later run, of whatever history, puts
\* another file at the path of a discarded store or sidecar.
THEOREM DiscardedFilesAreKept == Spec => DiscardedNeverOverwritten
  <1>1. Init => LockHeld
    BY DEF Init, LockHeld
  <1>2. TypeInv /\ MoveInv /\ [Next]_vars =>
          [\A f \in Files : discarded[f] # NoFile => discarded'[f] = discarded[f]]_vars
    BY NextDiscards DEF DiscardedKept
  <1> QED BY InitType, NextType, LockNext, InitMove, MoveNext, <1>1, <1>2, PTL
          DEF Spec, DiscardedNeverOverwritten

-----------------------------------------------------------------------------
(* What a successful run reports.                                          *)

\* The modes of the labels outside activate_inner.
ModeInv ==
  \A p \in Procs :
    /\ pc[p] = "preflight" => sh[p].mode = "preflight"
    /\ pc[p] = "selfTest" => sh[p].mode = "self-test"
    /\ pc[p] \in {"ack", "spawn"} \cup Waiting => sh[p].mode = "switch"

LEMMA InitMode == Init => ModeInv
  BY DEF Init, ModeInv, Waiting

\* What a step that starts no unit and is not in activate_inner leaves alone.
LEMMA ModalKeeps ==
  ASSUME TypeInv, NEW p \in Procs, Modal(p), ~Spawned(p)
  PROVE  /\ OthersKept(p) /\ sh'[p].mode = sh[p].mode
         /\ UNCHANGED <<discarded, recovery, hostVars>>
         /\ \A q \in Procs \ {p} : pc'[q] = pc[q] /\ outcome'[q] = outcome[q]
         /\ pc[p] \in {"lock"} \cup (Untrapped \cup Waiting)
         /\ pc'[p] \in {"idle", "preflight", "selfTest", "load", "ack", "mask", "spawn"}
         /\ pc'[p] = "preflight" => pc[p] = "preflight" \/ sh[p].mode = "preflight"
         /\ pc'[p] = "selfTest" => sh[p].mode = "self-test"
         /\ pc'[p] \in {"ack", "spawn"} => pc[p] = "ack" \/ sh[p].mode = "switch"
         /\ pc'[p] = "mask" => current = reviewed
         /\ pc'[p] = "idle" /\ outcome'[p] = "success" => pc[p] \in {"selfTest", "preflight"} \cup Waiting
  <1> USE DEF TypeInv, TypeOK, ScriptTypeOK, Untrapped, Waiting
  <1>1. CASE AcquireLock(p)
    BY <1>1 DEF AcquireLock, Exit, LockLabel, OthersKept, stateVars, hostVars
  <1>2. CASE Preflight(p)
    <2>1. UNCHANGED sh \/ Set(p, "step", sh[p].step + 1)
      BY <1>2 DEF Preflight
    <2>2. OthersKept(p) /\ sh'[p].mode = sh[p].mode
      BY <2>1, SetKeeps, SetField DEF ShellFields
    <2>3. pc[p] = "preflight" /\ (Die(p) \/ Exit(p, "success") \/ Goto(p, "preflight"))
          /\ UNCHANGED <<discarded, recovery, hostVars>>
      BY <1>2 DEF Preflight
    <2> QED BY <2>2, <2>3 DEF Die, Goto, Exit, Trapped
  <1>3. CASE SelfTest(p) \/ WaitReturns(p)
    BY <1>3 DEF SelfTest, WaitReturns, Exit, OthersKept, stateVars, hostVars
  <1>4. CASE Load(p) \/ CheckAcknowledged(p)
    BY <1>4 DEF Load, CheckAcknowledged, Check, Die, Goto, Exit, Trapped, OthersKept, stateVars, hostVars
  <1>5. CASE Spawn(p)
    <2>1. pc[p] = "spawn" /\ Die(p) /\ UNCHANGED <<sh, stateVars, hostVars>>
      BY <1>5 DEF Spawn, Spawned
    <2> QED BY <2>1 DEF Die, Exit, Trapped, OthersKept, stateVars, hostVars
  <1> QED BY <1>1, <1>2, <1>3, <1>4, <1>5 DEF Modal

LEMMA ModeFrame ==
  ASSUME TypeInv, ModeInv, NEW p \in Procs, OthersKept(p), \A q \in Procs \ {p} : pc'[q] = pc[q],
         pc'[p] = "preflight" => sh'[p].mode = "preflight",
         pc'[p] = "selfTest" => sh'[p].mode = "self-test",
         pc'[p] \in {"ack", "spawn"} \cup Waiting => sh'[p].mode = "switch"
  PROVE  ModeInv'
  <1>1. ASSUME NEW q \in Procs
        PROVE  /\ pc'[q] = "preflight" => sh'[q].mode = "preflight"
               /\ pc'[q] = "selfTest" => sh'[q].mode = "self-test"
               /\ pc'[q] \in {"ack", "spawn"} \cup Waiting => sh'[q].mode = "switch"
    <2>1. CASE q = p
      BY <2>1
    <2>2. CASE q # p
      BY <2>2 DEF ModeInv, OthersKept
    <2> QED BY <2>1, <2>2
  <1> QED BY <1>1 DEF ModeInv

\* The commands of activate_inner and of the cleanup, which run under the lock.
Active(p) == Custody(p) \/ Activation(p) \/ Failure(p)

LEMMA TrappedTargets ==
  ASSUME NEW p \in Procs, pc[p] \in Trapped
  PROVE  /\ Die(p) => Goto(p, "clStop")
         /\ \A ok, label : Check(p, ok, label) => Goto(p, label) \/ Goto(p, "clStop")
  BY DEF Die, Check

LEMMA ActiveGoes ==
  ASSUME TypeInv, NEW p \in Procs, Active(p)
  PROVE  \/ \E label : label # "idle" /\ Goto(p, label)
         \/ Exit(p, "failed")
         \/ AcceptRestart(p) /\ LiveService /\ Exit(p, "success")
  <1> USE DEF Trapped
  <1>1. CASE Failure(p)
    BY ZenonT(60), <1>1 DEF Failure, StopForCleanup, RestoreStore, RestoreSidecar, RestoreDirectory,
       WriteRecoveryState, SettleMask
  <1>2. CASE MaskService(p) \/ ChownDirectory(p) \/ ChmodDirectory(p) \/ ReturnDirectoryOwner(p)
             \/ ReturnDirectoryMode(p) \/ ChownStore(p) \/ ChmodStore(p) \/ ChownSidecar(p)
             \/ ChmodSidecar(p) \/ MoveSidecar(p) \/ FlagStore(p) \/ FlagSidecar(p)
             \/ FlagDirectoryReturned(p)
    BY <1>2 DEF MaskService, ChownDirectory, ChmodDirectory, ReturnDirectoryOwner,
       ReturnDirectoryMode, SetDirectory, ChownStore, ChmodStore, ChownSidecar, ChmodSidecar,
       SetFile, MoveSidecar, MoveFile, FlagStore, FlagSidecar, FlagDirectoryReturned
  <1>3. CASE StopService(p) \/ CheckDirectory(p) \/ FlagDirectory(p) \/ CheckGone(p)
    BY <1>3, TrappedTargets DEF StopService, CheckDirectory, FlagDirectory, CheckGone
  <1>4. CASE MoveStore(p)
    BY <1>4, TrappedTargets DEF MoveStore, MoveFile
  <1>5. CASE CheckSidecar(p)
    <2> DEFINE f == Sidecars[sh[p].side]
    <2>1. pc[p] = "sideCheck"
          /\ (Goto(p, "gone") \/ Goto(p, "sideCheck")
              \/ Check(p, Original(f) /\ discarded[f] = NoFile, "sideChown"))
      BY <1>5 DEF CheckSidecar
    <2> QED BY <2>1, TrappedTargets
  <1>6. CASE SetProfile(p) \/ UnmaskService(p) \/ StartService(p) \/ RestartService(p)
    BY <1>6 DEF SetProfile, UnmaskService, StartService, RestartService
  <1>7. CASE SwitchConfiguration(p) \/ Accept(p) \/ Dwell(p)
    BY <1>7, TrappedTargets DEF SwitchConfiguration, Accept, Dwell
  <1>8. CASE AcceptRestart(p)
    BY <1>8, TrappedTargets DEF AcceptRestart
  <1> QED BY <1>1, <1>2, <1>3, <1>4, <1>5, <1>6, <1>7, <1>8 DEF Active, Custody, Activation

LEMMA ActiveKeeps ==
  ASSUME TypeInv, LockHeld, NEW p \in Procs, Active(p)
  PROVE  /\ Alone(p) /\ OthersKept(p) /\ sh'[p].mode = sh[p].mode
         /\ \A q \in Procs \ {p} : pc'[q] = pc[q] /\ outcome'[q] = outcome[q]
         /\ pc[p] \in Trapped \cup Cleanup /\ pc'[p] \in Trapped \cup Cleanup \cup {"idle"}
         /\ pc'[p] = "idle" /\ outcome'[p] = "success" => AcceptRestart(p) /\ LiveService
  <1>1. OthersKept(p) /\ sh'[p].mode = sh[p].mode
        /\ pc[p] \in Trapped \cup Cleanup /\ pc'[p] \in Trapped \cup Cleanup \cup {"idle"}
    BY CustodyKeeps, ActivationKeeps, FailureKeeps DEF Active, Cleanup, CursorKept
  <1>2. \A q \in Procs \ {p} : pc'[q] = pc[q] /\ outcome'[q] = outcome[q]
    BY ActiveGoes DEF Goto, Exit, TypeInv, TypeOK, ScriptTypeOK
  <1>3. pc[p] \notin {"idle", "lock"}
    BY <1>1 DEF Trapped, Cleanup
  <1>4. Alone(p)
    BY <1>2, <1>3 DEF Alone, LockHeld
  <1>5. pc'[p] = "idle" /\ outcome'[p] = "success" => AcceptRestart(p) /\ LiveService
    <2>1. CASE \E label : label # "idle" /\ Goto(p, label)
      BY <2>1, Targets
    <2>2. CASE Exit(p, "failed")
      BY <2>2 DEF Exit, TypeInv, TypeOK, ScriptTypeOK
    <2> QED BY <2>1, <2>2, ActiveGoes
  <1> QED BY <1>1, <1>2, <1>4, <1>5

LEMMA SpawnedShells ==
  ASSUME TypeInv, NEW p \in Procs, Modal(p), Spawned(p)
  PROVE  /\ UNCHANGED <<stateVars, hostVars, outcome>>
         /\ \A q \in Procs : /\ pc'[q] \in {"wait", "lock", pc[q]}
                             /\ pc'[q] = "wait" => pc[q] \in {"wait", "spawn"}
                             /\ sh'[q] = sh[q] \/ pc'[q] = "lock"
  <1>1. pc[p] = "spawn" /\ pc[Unit] = "idle" /\ pc' = [pc EXCEPT ![p] = "wait", ![Unit] = "lock"]
    BY DEF Spawned
  <1>2. Spawn(p)
    BY <1>1 DEF Modal, AcquireLock, SelfTest, Preflight, Load, CheckAcknowledged, WaitReturns, Waiting
  <1>3. sh' = [sh EXCEPT ![Unit] = Shell("activate-inner")] /\ UNCHANGED <<stateVars, hostVars, outcome>>
    BY <1>1, <1>2 DEF Spawn
  <1> QED BY <1>1, <1>3 DEF TypeInv, TypeOK, ScriptTypeOK, Procs

\* What a fault does to the one process it hits.
LEMMA FaultKeeps ==
  ASSUME TypeInv, LockHeld, NEW p \in Procs, Fault(p)
  PROVE  /\ UNCHANGED <<sh, stateVars, hostVars>>
         /\ \A q \in Procs \ {p} : pc'[q] = pc[q] /\ outcome'[q] = outcome[q]
         /\ pc'[p] \in {"idle", "clStop", "orphan"}
         /\ pc'[p] = "orphan" => pc[p] = "wait"
         /\ pc'[p] = "clStop" => pc[p] \in Trapped
         /\ pc'[p] = "idle" => outcome'[p] # "success"
  <1> USE DEF TypeInv, TypeOK, ScriptTypeOK
  <1>1. CASE Fail(p)
    BY <1>1 DEF Fail, Die, Goto, Exit
  <1>2. CASE Signal(p)
    BY <1>2 DEF Signal, Goto, Exit
  <1>3. CASE Kill(p)
    BY <1>3 DEF Kill, Exit
  <1>4. CASE KillShell(p)
    BY <1>4 DEF KillShell, Goto
  <1> QED BY <1>1, <1>2, <1>3, <1>4 DEF Fault

LEMMA LaunchShells ==
  ASSUME TypeInv, NEW p \in Operators, NEW mode \in Modes, Launch(p, mode)
  PROVE  /\ pc[p] = "idle" /\ pc'[p] = "lock" /\ sh'[p] = Shell(mode)
         /\ \A q \in Procs \ {p} : pc'[q] = pc[q] /\ sh'[q] = sh[q]
         /\ UNCHANGED <<stateVars, hostVars, outcome>>
  BY DEF Launch, Goto, TypeInv, TypeOK, ScriptTypeOK, Procs

LEMMA ModeNext == TypeInv /\ LockHeld /\ ModeInv /\ [Next]_vars => ModeInv'
  <1> SUFFICES ASSUME TypeInv, LockHeld, ModeInv, [Next]_vars PROVE ModeInv'
    OBVIOUS
  <1>1. ASSUME NEW p \in Procs, Step(p) PROVE ModeInv'
    <2>1. CASE Modal(p) /\ ~Spawned(p)
      BY <2>1, ModalKeeps, ModeFrame DEF ModeInv, Waiting
    <2>2. CASE Modal(p) /\ Spawned(p)
      BY <2>2, SpawnedShells DEF ModeInv, Waiting
    <2>3. CASE Active(p)
      BY <2>3, ActiveKeeps, ModeFrame DEF Trapped, Cleanup, Waiting
    <2> QED BY <1>1, <2>1, <2>2, <2>3 DEF Step, Modal, Active
  <1>2. ASSUME NEW p \in Procs, Fault(p) PROVE ModeInv'
    BY <1>2, FaultKeeps DEF ModeInv, Waiting
  <1>3. ASSUME NEW p \in Operators, NEW mode \in Modes, Launch(p, mode) PROVE ModeInv'
    BY <1>3, LaunchShells DEF ModeInv, Waiting, Procs
  <1>4. CASE Acknowledge \/ DaemonCrash \/ SystemdRetry \/ UNCHANGED vars
    BY <1>4 DEF Acknowledge, DaemonCrash, SystemdRetry, vars, scriptVars, ModeInv
  <1>5. CASE Reboot
    BY <1>5 DEF Reboot, ModeInv, Waiting
  <1> QED BY <1>1, <1>2, <1>3, <1>4, <1>5 DEF Next

-----------------------------------------------------------------------------
(* The versions of the profile, the running system and the store.          *)

BeforeSwitch == {"mask", "stop", "dirCheck", "dirChown", "dirChmod", "dirFlag", "storeChown",
                 "storeChmod", "storeMove", "storeFlag", "sideCheck", "sideChown", "sideChmod",
                 "sideMove", "sideFlag", "gone", "backChown", "backChmod", "backFlag",
                 "profile", "unmask", "switch"}

\* No format but the old one, or none at all, for a store.
OldOrNone(r) == r = NoFile \/ r.format = "old"

\* The running system follows the profile.  While they differ there is no
\* store, and while both are old no store is of the new format; a run that has
\* not switched yet was started on the old system.
VersionInv ==
  /\ current = "new" => profile = "new"
  /\ profile = "new" /\ current = "old" => file["store"] = NoFile
  /\ profile = "old" => OldOrNone(file["store"])
  /\ \A p \in Procs :
       /\ pc[p] \in BeforeSwitch => current = "old"
       /\ pc[p] \in {"unmask", "switch"} => profile = "new"

LEMMA InitVersion == Init => VersionInv
  BY DEF Init, VersionInv, BeforeSwitch, StoreFiles, OldOrNone, Files

\* What a command does to the file at the path of the store, when it neither
\* moves it nor starts the daemon.
LEMMA SetFileStore ==
  ASSUME TypeInv, NEW f \in Files, NEW p, NEW from, NEW to, NEW field \in {"owner", "mode"},
         NEW value, SetFile(p, f, from, to, field, value), f = "store" => Exists("store")
  PROVE  /\ file["store"] = NoFile => file'["store"] = NoFile
         /\ OldOrNone(file["store"]) => OldOrNone(file'["store"])
  <1>1. file \in [Files -> FileRecord] /\ "store" \in Files /\ file["store"] \in FileRecord
    BY DEF TypeInv, TypeOK, HostTypeOK, Files
  <1>2. CASE f = "store"
    <2>1. file'["store"] = [file["store"] EXCEPT ![field] = value]
      BY <1>1, <1>2 DEF SetFile
    <2>2. file'["store"].format = file["store"].format
      BY <1>1, <2>1 DEF FileRecord
    <2> QED BY <1>2, <2>2 DEF OldOrNone, Exists
  <1>3. CASE f # "store"
    BY <1>1, <1>3 DEF SetFile
  <1> QED BY <1>2, <1>3

LEMMA RestoreFileStore ==
  ASSUME TypeInv, NEW f \in Files, NEW p, NEW inode, NEW flag, RestoreFile(p, f, inode, flag)
  PROVE  /\ file["store"] = NoFile => file'["store"] = NoFile
         /\ OldOrNone(file["store"]) => OldOrNone(file'["store"])
  <1>1. file \in [Files -> FileRecord] /\ "store" \in Files /\ file["store"] \in FileRecord
    BY DEF TypeInv, TypeOK, HostTypeOK, Files
  <1>2. CASE inode = 0 \/ file[f].inode # inode
    BY <1>2 DEF RestoreFile
  <1>3. CASE ~(inode = 0 \/ file[f].inode # inode)
    <2>1. PICK owner \in {"li"} \cup (IF Erring THEN {file[f].owner} ELSE {}),
               mode \in {644} \cup (IF Erring THEN {file[f].mode} ELSE {}) :
             /\ file' = [file EXCEPT ![f].owner = owner, ![f].mode = mode]
             /\ IF owner = "li" /\ mode = 644
                THEN Set(p, flag, FALSE) ELSE Set(p, "filesBack", FALSE)
      BY <1>3 DEF RestoreFile
    <2>2. CASE f = "store"
      <3>1. file'["store"] = [file["store"] EXCEPT !.owner = owner, !.mode = mode]
        BY <1>1, <2>1, <2>2
      <3>2. file'["store"].format = file["store"].format
        BY <1>1, <3>1 DEF FileRecord
      <3>3. file["store"] # NoFile
        BY <1>3, <2>2 DEF NoFile
      <3> QED BY <3>2, <3>3 DEF OldOrNone
    <2>3. CASE f # "store"
      BY <1>1, <2>1, <2>3
    <2> QED BY <2>2, <2>3
  <1> QED BY <1>2, <1>3

\* A starting daemon leaves a store alone and creates a missing one.
LEMMA StartDaemonFile ==
  ASSUME TypeInv, NEW v \in Versions, StartDaemon(v)
  PROVE  /\ Exists("store") => file'["store"] = file["store"]
         /\ v = "old" /\ OldOrNone(file["store"]) => OldOrNone(file'["store"])
  <1>1. file \in [Files -> FileRecord] /\ "store" \in Files
    BY DEF TypeInv, TypeOK, HostTypeOK, Files
  <1>2. CASE ~DirOpen \/ Exists("store")
    BY <1>2 DEF StartDaemon
  <1>3. CASE DirOpen /\ ~Exists("store")
    <2>1. file'["store"] = [inode |-> inodes', owner |-> "li",
                            mode |-> IF v = "new" THEN 600 ELSE 644, format |-> v]
      BY <1>1, <1>3 DEF StartDaemon
    <2> QED BY <1>3, <2>1 DEF OldOrNone
  <1> QED BY <1>2, <1>3

LEMMA CustodyVersion ==
  ASSUME TypeInv, MoveInv, NEW p \in Procs, Custody(p)
  PROVE  /\ file["store"] = NoFile => file'["store"] = NoFile
         /\ OldOrNone(file["store"]) => OldOrNone(file'["store"])
  <1>1. file \in [Files -> FileRecord] /\ "store" \in Files
    BY DEF TypeInv, TypeOK, HostTypeOK, Files
  <1>2. AtSidecar(p) => Sidecar(p) \in Files \ {"store"}
    BY SidecarsAssumption DEF AtSidecar, Sidecar, Files, SidecarNames
  <1>3. CASE ChownStore(p) \/ ChmodStore(p)
    <2>1. Exists("store")
      BY <1>3 DEF ChownStore, ChmodStore, SetFile, MoveInv
    <2> QED BY <1>1, <1>3, <2>1, SetFileStore DEF ChownStore, ChmodStore
  <1>4. CASE ChownSidecar(p) \/ ChmodSidecar(p)
    BY <1>2, <1>4, SetFileStore DEF ChownSidecar, ChmodSidecar
  <1>5. CASE MoveStore(p)
    BY <1>1, <1>5 DEF MoveStore, MoveFile, hostVars, OldOrNone
  <1>6. CASE MoveSidecar(p)
    BY <1>1, <1>2, <1>6 DEF MoveSidecar, MoveFile
  <1>7. CASE UNCHANGED file
    BY <1>7
  <1>8. CASE MaskService(p) \/ StopService(p) \/ CheckDirectory(p) \/ ChownDirectory(p)
             \/ ChmodDirectory(p) \/ FlagDirectory(p) \/ FlagStore(p) \/ CheckSidecar(p)
             \/ FlagSidecar(p) \/ CheckGone(p) \/ ReturnDirectoryOwner(p)
             \/ ReturnDirectoryMode(p) \/ FlagDirectoryReturned(p)
    BY <1>7, <1>8 DEF MaskService, StopService, CheckDirectory, ChownDirectory, ChmodDirectory,
       FlagDirectory, FlagStore, CheckSidecar, FlagSidecar, CheckGone, ReturnDirectoryOwner,
       ReturnDirectoryMode, FlagDirectoryReturned, SetDirectory, hostVars
  <1> QED BY <1>3, <1>4, <1>5, <1>6, <1>8 DEF Custody

LEMMA FailureVersion ==
  ASSUME TypeInv, NEW p \in Procs, Failure(p)
  PROVE  /\ file["store"] = NoFile => file'["store"] = NoFile
         /\ OldOrNone(file["store"]) => OldOrNone(file'["store"])
  <1>1. AtSidecar(p) => Sidecar(p) \in Files
    BY DEF AtSidecar, Sidecar, Files, SidecarNames
  <1>2. CASE RestoreStore(p)
    BY <1>2, RestoreFileStore DEF RestoreStore, Files
  <1>3. CASE RestoreSidecar(p)
    BY <1>1, <1>3, RestoreFileStore DEF RestoreSidecar
  <1>4. CASE StopForCleanup(p) \/ RestoreDirectory(p) \/ WriteRecoveryState(p) \/ SettleMask(p)
    BY <1>4 DEF StopForCleanup, RestoreDirectory, WriteRecoveryState, SettleMask, hostVars
  <1> QED BY <1>2, <1>3, <1>4 DEF Failure

LEMMA ActivationVersion ==
  ASSUME TypeInv, StoreInv, VersionInv, NEW p \in Procs, Activation(p), Alone(p)
  PROVE  VersionInv'
  <1> USE DEF VersionInv, Alone
  <1>0. current \in Versions /\ profile \in Versions /\ Versions = {"old", "new"}
    BY DEF TypeInv, TypeOK, HostTypeOK, Versions
  <1>1. CASE SetProfile(p)
    <2>1. pc[p] = "profile" /\ pc'[p] = "unmask" /\ profile' = "new" /\ UNCHANGED <<current, file>>
      BY <1>1, Targets DEF SetProfile
    <2>2. current = "old" /\ file["store"] = NoFile
      BY <2>1 DEF StoreInv, AfterGone, BeforeSwitch
    <2> QED BY <2>1, <2>2 DEF BeforeSwitch
  <1>2. CASE UnmaskService(p)
    <2>1. pc[p] = "unmask" /\ pc'[p] = "switch" /\ UNCHANGED <<profile, current, file>>
      BY <1>2, Targets DEF UnmaskService
    <2> QED BY <2>1 DEF BeforeSwitch
  <1>3. CASE SwitchConfiguration(p)
    <2>1. pc[p] = "switch" /\ pc'[p] \in {"start", "clStop", "idle"} /\ current' = "new"
          /\ profile' = profile
      BY <1>3, Targets DEF SwitchConfiguration
    <2> QED BY <2>1 DEF BeforeSwitch
  <1>4. CASE StartService(p) \/ Accept(p) \/ Dwell(p) \/ RestartService(p) \/ AcceptRestart(p)
    <2>1. pc[p] \in AfterSwitch /\ pc'[p] \in AfterSwitch \cup {"clStop", "idle"}
          /\ UNCHANGED <<profile, current>>
      BY <1>4, Targets DEF StartService, Accept, Dwell, RestartService, AcceptRestart, AfterSwitch, hostVars
    <2>2. current = "new"
      BY <2>1 DEF StoreInv
    <2> QED BY <2>1, <2>2 DEF BeforeSwitch, AfterSwitch
  <1> QED BY <1>1, <1>2, <1>3, <1>4 DEF Activation

LEMMA VersionNext ==
  TypeInv /\ LockHeld /\ RecordInv /\ StoreInv /\ MoveInv /\ VersionInv /\ [Next]_vars => VersionInv'
  <1> SUFFICES ASSUME TypeInv, LockHeld, RecordInv, StoreInv, MoveInv, VersionInv, [Next]_vars
               PROVE VersionInv'
    OBVIOUS
  <1>0. current \in Versions /\ profile \in Versions /\ Versions = {"old", "new"}
    BY DEF TypeInv, TypeOK, HostTypeOK, Versions
  <1>1. ASSUME NEW p \in Procs, Step(p) PROVE VersionInv'
    <2>1. CASE Modal(p) /\ ~Spawned(p)
      <3>1. UNCHANGED <<file, profile, current>> /\ \A q \in Procs \ {p} : pc'[q] = pc[q]
        BY <2>1, ModalKeeps DEF hostVars
      <3>2. pc'[p] \in {"idle", "preflight", "selfTest", "load", "ack", "spawn"}
            \/ (pc'[p] = "mask" /\ current = reviewed)
        BY <2>1, ModalKeeps
      <3>3. pc'[p] = "mask" => current = "old"
        BY <1>0, <3>2 DEF RecordInv
      <3> QED BY <3>1, <3>2, <3>3 DEF VersionInv, BeforeSwitch
    <2>2. CASE Modal(p) /\ Spawned(p)
      BY <2>2, SpawnedShells DEF VersionInv, BeforeSwitch, hostVars
    <2>3. CASE Active(p)
      <3>1. Alone(p)
        BY <2>3, ActiveKeeps
      <3>2. CASE Custody(p)
        BY <3>1, <3>2, CustodyKeeps, CustodyVersion DEF VersionInv, BeforeSwitch, CustodyLabels, Alone
      <3>3. CASE Activation(p)
        BY <3>1, <3>3, ActivationVersion
      <3>4. CASE Failure(p)
        BY <3>1, <3>4, FailureKeeps, FailureVersion DEF VersionInv, BeforeSwitch, Cleanup, Alone
      <3> QED BY <2>3, <3>2, <3>3, <3>4 DEF Active
    <2> QED BY <1>1, <2>1, <2>2, <2>3 DEF Step, Modal, Active
  <1>2. ASSUME NEW p \in Procs, Fault(p) PROVE VersionInv'
    BY <1>2, FaultKeeps DEF VersionInv, BeforeSwitch, hostVars
  <1>3. ASSUME NEW p \in Operators, NEW mode \in Modes, Launch(p, mode) PROVE VersionInv'
    BY <1>3, LaunchShells DEF VersionInv, BeforeSwitch, hostVars, Procs
  <1>4. CASE Acknowledge \/ DaemonCrash \/ UNCHANGED vars
    BY <1>4 DEF Acknowledge, DaemonCrash, vars, scriptVars, hostVars, VersionInv
  <1>5. CASE SystemdRetry
    <2>1. svc = "retry" /\ StartDaemon(current) /\ UNCHANGED <<pc, profile, current>>
      BY <1>5 DEF SystemdRetry, scriptVars
    <2>2. ~(profile = "new" /\ current = "old")
      BY <2>1 DEF StoreInv
    <2> QED BY <1>0, <2>1, <2>2, StartDaemonFile DEF VersionInv
  <1>6. CASE Reboot
    <2>1. StartDaemon(profile) /\ current' = profile /\ profile' = profile
          /\ \A p \in Procs : pc'[p] = "idle"
      BY <1>6 DEF Reboot
    <2> QED BY <1>0, <2>1, StartDaemonFile DEF VersionInv, BeforeSwitch
  <1> QED BY <1>1, <1>2, <1>3, <1>4, <1>5, <1>6 DEF Next

-----------------------------------------------------------------------------
(* The stages of a run, and what it reports when it has ended.             *)

\* From the move of the store on; from the return of the directory on; and
\* from the unmasking on.
Kept == {"storeFlag", "sideCheck", "sideChown", "sideChmod", "sideMove", "sideFlag", "gone",
         "backChown", "backChmod", "backFlag", "profile", "unmask", "switch"} \cup AfterSwitch
Returned == {"backFlag", "profile", "unmask", "switch"} \cup AfterSwitch
Unmasked == {"switch"} \cup AfterSwitch

StageInv ==
  \A p \in Procs :
    /\ pc[p] \in Kept => discarded["store"].format = "old"
    /\ pc[p] = "backChmod" => dir.owner = "li"
    /\ pc[p] \in Returned => SettledDir
    /\ pc[p] \in Unmasked => ~masked

LEMMA InitStage == Init => StageInv
  BY DEF Init, StageInv, Kept, Returned, Unmasked, AfterSwitch

LEMMA CustodyStage ==
  ASSUME TypeInv, MoveInv, VersionInv, StageInv, NEW p \in Procs, Custody(p), Alone(p), DiscardedKept
  PROVE  StageInv'
  <1> USE DEF StageInv, Alone
  <1>0. /\ discarded \in [Files -> FileRecord] /\ file \in [Files -> FileRecord] /\ "store" \in Files
        /\ dir \in [owner : {"li", "root"}, mode : {750, 700}]
        /\ current \in {"old", "new"} /\ profile \in {"old", "new"}
    BY DEF TypeInv, TypeOK, StateTypeOK, HostTypeOK, Files, Versions
  <1>1. discarded["store"].format = "old" => discarded'["store"].format = "old"
    BY <1>0 DEF DiscardedKept, NoFile
  <1>2. ASSUME pc'[p] \in {"stop", "dirCheck", "dirChown", "dirChmod", "dirFlag", "storeChown",
                          "storeChmod", "storeMove", "clStop", "idle"}
        PROVE  StageInv'
    BY <1>2 DEF Kept, Returned, Unmasked, AfterSwitch
  <1>3. CASE MaskService(p) \/ StopService(p) \/ CheckDirectory(p) \/ FlagDirectory(p)
    BY <1>2, <1>3, Targets DEF MaskService, StopService, CheckDirectory, FlagDirectory
  <1>4. CASE ChownDirectory(p) \/ ChmodDirectory(p) \/ ChownStore(p) \/ ChmodStore(p)
    BY <1>2, <1>4, Targets DEF ChownDirectory, ChmodDirectory, SetDirectory, ChownStore, ChmodStore, SetFile
  <1>5. CASE MoveStore(p)
    <2>1. CASE MoveFile(p, "store", "storeMove", "storeFlag")
      <3>1. Exists("store") /\ current = "old"
        BY <2>1 DEF MoveFile, MoveInv, VersionInv, BeforeSwitch
      <3>2. file["store"].format = "old"
        BY <1>0, <3>1 DEF VersionInv, OldOrNone, Exists
      <3>3. pc'[p] = "storeFlag" /\ discarded'["store"].format = "old"
        BY <1>0, <2>1, <3>2, Targets DEF MoveFile
      <3> QED BY <3>3 DEF Kept, Returned, Unmasked, AfterSwitch
    <2>2. CASE pc[p] = "storeMove" /\ Die(p)
      BY <2>2, <1>2, Targets
    <2> QED BY <1>5, <2>1, <2>2 DEF MoveStore
  <1>6. ASSUME pc'[p] \in {"sideCheck", "sideChown", "sideChmod", "sideMove", "sideFlag", "gone",
                          "backChown", "clStop", "idle"}, pc[p] \in Kept
        PROVE  StageInv'
    BY <1>1, <1>6 DEF Kept, Returned, Unmasked, AfterSwitch
  <1>7. CASE FlagStore(p) \/ FlagSidecar(p) \/ CheckGone(p)
    BY <1>6, <1>7, Targets DEF FlagStore, FlagSidecar, CheckGone, Kept
  <1>8. CASE CheckSidecar(p)
    <2> DEFINE f == Sidecars[sh[p].side]
    <2>1. pc[p] = "sideCheck"
          /\ (Goto(p, "gone") \/ Goto(p, "sideCheck")
              \/ Check(p, Original(f) /\ discarded[f] = NoFile, "sideChown"))
      BY <1>8 DEF CheckSidecar
    <2> QED BY <1>6, <2>1, Targets DEF Kept
  <1>9. CASE ChownSidecar(p) \/ ChmodSidecar(p) \/ MoveSidecar(p)
    BY <1>6, <1>9, Targets DEF ChownSidecar, ChmodSidecar, MoveSidecar, SetFile, MoveFile, Kept
  <1>10. CASE ReturnDirectoryOwner(p)
    <2>1. pc[p] = "backChown" /\ pc'[p] = "backChmod" /\ dir'.owner = "li"
      BY <1>0, <1>10, Targets DEF ReturnDirectoryOwner, SetDirectory
    <2> QED BY <1>1, <2>1 DEF Kept, Returned, Unmasked, AfterSwitch
  <1>11. CASE ReturnDirectoryMode(p)
    <2>1. pc[p] = "backChmod" /\ pc'[p] = "backFlag" /\ dir' = [dir EXCEPT !.mode = 750]
      BY <1>11, Targets DEF ReturnDirectoryMode, SetDirectory
    <2>2. SettledDir'
      BY <1>0, <2>1 DEF SettledDir
    <2> QED BY <1>1, <2>1, <2>2 DEF Kept, Returned, Unmasked, AfterSwitch
  <1>12. CASE FlagDirectoryReturned(p)
    BY <1>1, <1>12, Targets DEF FlagDirectoryReturned, hostVars, Kept, Returned, Unmasked, AfterSwitch, SettledDir
  <1> QED BY <1>3, <1>4, <1>5, <1>7, <1>8, <1>9, <1>10, <1>11, <1>12 DEF Custody

LEMMA ActivationStage ==
  ASSUME TypeInv, StageInv, NEW p \in Procs, Activation(p), Alone(p)
  PROVE  StageInv'
  <1> USE DEF StageInv, Alone, Kept, Returned, Unmasked, AfterSwitch
  <1>1. UNCHANGED <<discarded, dir>>
    BY ActivationKeeps DEF stateVars
  <1>2. CASE SetProfile(p)
    BY <1>1, <1>2, Targets DEF SetProfile, SettledDir
  <1>3. CASE UnmaskService(p)
    BY <1>1, <1>3, Targets DEF UnmaskService, SettledDir
  <1>4. CASE SwitchConfiguration(p)
    BY <1>1, <1>4, Targets DEF SwitchConfiguration, SettledDir
  <1>5. CASE StartService(p) \/ RestartService(p)
    BY <1>1, <1>5, Targets DEF StartService, RestartService, SettledDir
  <1>6. CASE Accept(p) \/ Dwell(p) \/ AcceptRestart(p)
    BY <1>1, <1>6, Targets DEF Accept, Dwell, AcceptRestart, hostVars, SettledDir
  <1> QED BY <1>2, <1>3, <1>4, <1>5, <1>6 DEF Activation

LEMMA StageNext ==
  TypeInv /\ LockHeld /\ MoveInv /\ VersionInv /\ StageInv /\ [Next]_vars => StageInv'
  <1> SUFFICES ASSUME TypeInv, LockHeld, MoveInv, VersionInv, StageInv, [Next]_vars PROVE StageInv'
    OBVIOUS
  <1>1. ASSUME NEW p \in Procs, Step(p) PROVE StageInv'
    <2>1. CASE Modal(p) /\ ~Spawned(p)
      BY <2>1, ModalKeeps DEF StageInv, Kept, Returned, Unmasked, AfterSwitch, hostVars, SettledDir
    <2>2. CASE Modal(p) /\ Spawned(p)
      BY <2>2, SpawnedShells DEF StageInv, Kept, Returned, Unmasked, AfterSwitch, stateVars, hostVars, SettledDir
    <2>3. CASE Active(p)
      <3>1. Alone(p)
        BY <2>3, ActiveKeeps
      <3>2. CASE Custody(p)
        BY <3>1, <3>2, NextDiscards, CustodyStage
      <3>3. CASE Activation(p)
        BY <3>1, <3>3, ActivationStage
      <3>4. CASE Failure(p)
        BY <3>1, <3>4, FailureKeeps DEF StageInv, Kept, Returned, Unmasked, AfterSwitch, Cleanup, Alone
      <3> QED BY <2>3, <3>2, <3>3, <3>4 DEF Active
    <2> QED BY <1>1, <2>1, <2>2, <2>3 DEF Step, Modal, Active
  <1>2. ASSUME NEW p \in Procs, Fault(p) PROVE StageInv'
    BY <1>2, FaultKeeps DEF StageInv, Kept, Returned, Unmasked, AfterSwitch, stateVars, hostVars, SettledDir
  <1>3. ASSUME NEW p \in Operators, NEW mode \in Modes, Launch(p, mode) PROVE StageInv'
    BY <1>3, LaunchShells DEF StageInv, Kept, Returned, Unmasked, AfterSwitch, stateVars, hostVars, SettledDir, Procs
  <1>4. CASE Acknowledge \/ DaemonCrash \/ SystemdRetry \/ UNCHANGED vars
    BY <1>4 DEF Acknowledge, DaemonCrash, SystemdRetry, vars, scriptVars, stateVars, hostVars,
                StageInv, SettledDir
  <1>5. CASE Reboot
    BY <1>5 DEF Reboot, StageInv, Kept, Returned, Unmasked, AfterSwitch
  <1> QED BY <1>1, <1>2, <1>3, <1>4, <1>5 DEF Next

\* While the last run of a process is a successful activation, the host is as
\* that run left it, and no invocation has got past its checks since: the
\* running system is no longer the one that the preflight recorded.
Succeeded(p) == outcome[p] = "success" /\ sh[p].mode = "activate-inner" /\ pc[p] = "idle"

Switched ==
  /\ profile = "new" /\ current = "new"
  /\ ~masked /\ SettledDir
  /\ discarded["store"].format = "old"

SuccessInv ==
  \A p \in Procs : Succeeded(p) => Switched /\ \A q \in Procs : pc[q] \notin Trapped \cup Cleanup

LEMMA InitSuccess == Init => SuccessInv
  BY DEF Init, SuccessInv, Succeeded

\* A step that leaves the switched host alone keeps SuccessInv, unless it ends
\* an activation or starts to act.
LEMMA SuccessFrame ==
  ASSUME SuccessInv, NEW p \in Procs, OthersKept(p),
         \A q \in Procs \ {p} : pc'[q] = pc[q] /\ outcome'[q] = outcome[q],
         Switched => Switched',
         ~Succeeded(p)',
         pc[p] \in Trapped \cup Cleanup \/ ~Switched \/ pc'[p] \notin Trapped \cup Cleanup
  PROVE  SuccessInv'
  <1> SUFFICES ASSUME NEW q \in Procs, Succeeded(q)', NEW r \in Procs
               PROVE  Switched' /\ pc'[r] \notin Trapped \cup Cleanup
    BY DEF SuccessInv
  <1>1. q # p /\ Succeeded(q)
    BY DEF Succeeded, OthersKept
  <1>2. Switched /\ \A o \in Procs : pc[o] \notin Trapped \cup Cleanup
    BY <1>1 DEF SuccessInv
  <1> QED BY <1>2

LEMMA SuccessNext ==
  /\ TypeInv /\ LockHeld /\ RecordInv /\ StoreInv /\ MoveInv /\ ModeInv
  /\ VersionInv /\ StageInv /\ SuccessInv /\ [Next]_vars
  => SuccessInv'
  <1> SUFFICES ASSUME TypeInv, LockHeld, RecordInv, StoreInv, MoveInv, ModeInv,
                      VersionInv, StageInv, SuccessInv, [Next]_vars
               PROVE SuccessInv'
    OBVIOUS
  <1>1. ASSUME NEW p \in Procs, Step(p) PROVE SuccessInv'
    <2>1. CASE Modal(p) /\ ~Spawned(p)
      <3>1. Switched => Switched'
        BY <2>1, ModalKeeps DEF Switched, SettledDir, hostVars
      <3>2. ~Succeeded(p)'
        <4>1. ASSUME Succeeded(p)' PROVE FALSE
          <5>1. sh[p].mode = "activate-inner" /\ pc[p] \in {"selfTest", "preflight"} \cup Waiting
            BY <2>1, <4>1, ModalKeeps DEF Succeeded
          <5> QED BY <5>1 DEF ModeInv
        <4> QED BY <4>1
      <3>3. ~Switched \/ pc'[p] \notin Trapped \cup Cleanup
        <4>1. pc'[p] = "mask" => current = reviewed
          BY <2>1, ModalKeeps
        <4>2. pc'[p] \in {"idle", "preflight", "selfTest", "load", "ack", "mask", "spawn"}
          BY <2>1, ModalKeeps
        <4> QED BY <4>1, <4>2 DEF Switched, RecordInv, Trapped, Cleanup
      <3> QED BY <2>1, <3>1, <3>2, <3>3, ModalKeeps, SuccessFrame
    <2>2. CASE Modal(p) /\ Spawned(p)
      <3>1. UNCHANGED <<stateVars, hostVars, outcome>>
            /\ \A q \in Procs : /\ pc'[q] \in {"wait", "lock", pc[q]}
                                /\ sh'[q] = sh[q] \/ pc'[q] = "lock"
        BY <2>2, SpawnedShells
      <3>2. ASSUME NEW q \in Procs, Succeeded(q)' PROVE Succeeded(q)
        BY <3>1, <3>2 DEF Succeeded
      <3>3. Switched => Switched'
        BY <3>1 DEF Switched, SettledDir, stateVars, hostVars
      <3>4. ASSUME NEW q \in Procs, pc[q] \notin Trapped \cup Cleanup
            PROVE  pc'[q] \notin Trapped \cup Cleanup
        BY <3>1, <3>4 DEF Trapped, Cleanup
      <3> QED BY <3>2, <3>3, <3>4 DEF SuccessInv
    <2>3. CASE Active(p)
      <3>1. /\ Alone(p) /\ OthersKept(p)
            /\ \A q \in Procs \ {p} : pc'[q] = pc[q] /\ outcome'[q] = outcome[q]
            /\ pc[p] \in Trapped \cup Cleanup
            /\ pc'[p] = "idle" /\ outcome'[p] = "success" => AcceptRestart(p) /\ LiveService
        BY <2>3, ActiveKeeps
      <3>2. \A q \in Procs : ~Succeeded(q)
        BY <3>1 DEF SuccessInv
      <3>3. ASSUME NEW q \in Procs, Succeeded(q)'
            PROVE  q = p /\ AcceptRestart(p) /\ LiveService
        <4>1. q = p
          BY <3>1, <3>2, <3>3 DEF Succeeded, OthersKept
        <4> QED BY <3>1, <3>3, <4>1 DEF Succeeded
      <3>4. ASSUME AcceptRestart(p), LiveService
            PROVE  Switched' /\ \A q \in Procs : pc'[q] \notin Trapped \cup Cleanup
        <4>1. pc[p] = "accept2" /\ pc'[p] = "idle" /\ UNCHANGED <<stateVars, hostVars>>
          BY <3>4, Targets DEF AcceptRestart
        <4>2. Switched
          BY <4>1 DEF Switched, StoreInv, StageInv, VersionInv, Kept, Returned, Unmasked, AfterSwitch
        <4>3. Switched'
          BY <4>1, <4>2 DEF Switched, SettledDir, stateVars, hostVars
        <4>4. \A q \in Procs : pc'[q] \in {"idle", "lock"}
          BY <3>1, <4>1 DEF Alone
        <4> QED BY <4>3, <4>4 DEF Trapped, Cleanup
      <3> QED BY <3>3, <3>4 DEF SuccessInv
    <2> QED BY <1>1, <2>1, <2>2, <2>3 DEF Step, Modal, Active
  <1>2. ASSUME NEW p \in Procs, Fault(p) PROVE SuccessInv'
    <2>1. Switched => Switched'
      BY <1>2, FaultKeeps DEF Switched, SettledDir, stateVars, hostVars
    <2>2. ~Succeeded(p)'
      BY <1>2, FaultKeeps DEF Succeeded
    <2>3. pc[p] \in Trapped \cup Cleanup \/ pc'[p] \notin Trapped \cup Cleanup
      BY <1>2, FaultKeeps DEF Trapped, Cleanup
    <2>4. OthersKept(p)
      BY <1>2, FaultKeeps DEF OthersKept
    <2> QED BY <1>2, <2>1, <2>2, <2>3, <2>4, FaultKeeps, SuccessFrame
  <1>3. ASSUME NEW p \in Operators, NEW mode \in Modes, Launch(p, mode) PROVE SuccessInv'
    <2>1. Switched => Switched'
      BY <1>3, LaunchShells DEF Switched, SettledDir, stateVars, hostVars
    <2>2. p \in Procs /\ ~Succeeded(p)' /\ pc'[p] \notin Trapped \cup Cleanup
      BY <1>3, LaunchShells DEF Succeeded, Trapped, Cleanup, Procs
    <2>3. OthersKept(p) /\ \A q \in Procs \ {p} : pc'[q] = pc[q] /\ outcome'[q] = outcome[q]
      BY <1>3, LaunchShells DEF OthersKept
    <2> QED BY <2>1, <2>2, <2>3, SuccessFrame
  <1>4. CASE Acknowledge \/ DaemonCrash \/ SystemdRetry \/ UNCHANGED vars
    BY <1>4 DEF Acknowledge, DaemonCrash, SystemdRetry, vars, scriptVars, stateVars, hostVars,
                SuccessInv, Succeeded, Switched, SettledDir
  <1>5. CASE Reboot
    <2>1. ASSUME NEW p \in Procs, Succeeded(p)' PROVE Succeeded(p)
      BY <1>5, <2>1 DEF Reboot, Succeeded
    <2>2. Switched => Switched'
      BY <1>5 DEF Reboot, Switched, SettledDir, stateVars
    <2>3. \A p \in Procs : pc'[p] = "idle"
      BY <1>5 DEF Reboot
    <2> QED BY <2>1, <2>2, <2>3 DEF SuccessInv, Trapped, Cleanup
  <1> QED BY <1>1, <1>2, <1>3, <1>4, <1>5 DEF Next

\* What a run says is so, whatever fails and whatever was run before or since:
\* the recovery state claims no move that did not happen, and a process whose
\* activation has succeeded left the host on the new system, with the old store
\* in STATE, the directory returned and the unit unmasked.
THEOREM ReportsAreTrue == Spec => []ReportsTrue
  <1>1. Init => LockHeld
    BY DEF Init, LockHeld
  <1>2. MoveInv /\ SuccessInv => ReportsTrue
    BY DEF MoveInv, SuccessInv, Succeeded, Switched, ReportsTrue, RecoveryStateNeverOverclaims,
           SuccessMeansSwitched
  <1> QED BY InitType, NextType, LockNext, InitRecord, RecordNext, InitStore, StoreNext,
             InitMove, MoveNext, InitMode, ModeNext, InitVersion, VersionNext, InitStage, StageNext,
             InitSuccess, SuccessNext, <1>1, <1>2, PTL DEF Spec

-----------------------------------------------------------------------------
(* Custody of the directory.                                               *)

\* A daemon needs the directory to start, and is stopped before it is taken.
DirInv == ~DirOpen => svc \notin Versions

LEMMA InitDir == Init => DirInv
  BY DEF Init, DirInv, DirOpen

LEMMA StartDaemonDir ==
  ASSUME NEW v \in Versions, StartDaemon(v), dir' = dir PROVE DirInv'
  BY DEF StartDaemon, DirInv, DirOpen, Versions

LEMMA DirNext == TypeInv /\ LockHeld /\ StoreInv /\ DirInv /\ [Next]_vars => DirInv'
  <1> SUFFICES ASSUME TypeInv, LockHeld, StoreInv, DirInv, [Next]_vars PROVE DirInv'
    OBVIOUS
  <1>0. /\ current \in Versions /\ profile \in Versions /\ "new" \in Versions
        /\ "inactive" \notin Versions /\ "retry" \notin Versions
        /\ dir \in [owner : {"li", "root"}, mode : {750, 700}]
    BY DEF TypeInv, TypeOK, HostTypeOK, Versions
  <1>1. ASSUME UNCHANGED <<svc, dir>> PROVE DirInv'
    BY <1>1 DEF DirInv, DirOpen
  <1>2. ASSUME NEW p \in Procs, Custody(p) PROVE DirInv'
    <2>1. CASE ChownDirectory(p) \/ ChmodDirectory(p) \/ ReturnDirectoryOwner(p) \/ ReturnDirectoryMode(p)
      <3>1. svc = "inactive" /\ svc' = svc
        BY <2>1 DEF ChownDirectory, ChmodDirectory, ReturnDirectoryOwner, ReturnDirectoryMode,
           SetDirectory, StoreInv, AfterStop
      <3> QED BY <1>0, <3>1 DEF DirInv
    <2>2. CASE StopService(p)
      BY <1>0, <2>2 DEF StopService, DirInv
    <2>3. CASE Custody(p) /\ ~StopService(p) /\ ~ChownDirectory(p) /\ ~ChmodDirectory(p)
               /\ ~ReturnDirectoryOwner(p) /\ ~ReturnDirectoryMode(p)
      BY <1>1, <2>3 DEF Custody, MaskService, CheckDirectory, FlagDirectory, ChownStore, ChmodStore,
         SetFile, MoveStore, MoveSidecar, MoveFile, FlagStore, CheckSidecar, ChownSidecar,
         ChmodSidecar, FlagSidecar, CheckGone, FlagDirectoryReturned, hostVars
    <2> QED BY <1>2, <2>1, <2>2, <2>3
  <1>3. ASSUME NEW p \in Procs, Activation(p) PROVE DirInv'
    <2>1. dir' = dir
      BY <1>3, ActivationKeeps
    <2>2. svc' = svc \/ \E v \in Versions : StartDaemon(v)
      BY <1>0, <1>3 DEF Activation, SetProfile, UnmaskService, SwitchConfiguration, StartService,
         Accept, Dwell, RestartService, AcceptRestart, hostVars
    <2> QED BY <1>1, <2>1, <2>2, StartDaemonDir
  <1>4. ASSUME NEW p \in Procs, Failure(p) PROVE DirInv'
    <2>1. svc' \in {"inactive", svc}
      BY <1>4 DEF Failure, StopForCleanup, RestoreStore, RestoreSidecar, RestoreDirectory,
         WriteRecoveryState, SettleMask, hostVars
    <2>2. DirOpen => DirOpen'
      <3>1. CASE RestoreDirectory(p)
        <4>0. sh[p].dirCustody \in BOOLEAN
          BY DEF TypeInv, TypeOK, ScriptTypeOK, ShellRecord
        <4>1. CASE ~sh[p].dirCustody
          BY <3>1, <4>0, <4>1 DEF RestoreDirectory, DirOpen
        <4>2. CASE sh[p].dirCustody
          <5>1. PICK owner \in {"li"} \cup (IF Erring THEN {dir.owner} ELSE {}),
                     mode \in {750} \cup (IF Erring THEN {dir.mode} ELSE {}) :
                  /\ dir' = [owner |-> owner, mode |-> mode]
                  /\ IF SettledDir' THEN Set(p, "dirCustody", FALSE) ELSE Set(p, "dirBack", FALSE)
            BY <3>1, <4>2 DEF RestoreDirectory, TypeInv, TypeOK
          <5>2. dir'.owner \in {"li", dir.owner}
            BY <5>1
          <5> QED BY <5>2 DEF DirOpen
        <4> QED BY <4>0, <4>1, <4>2
      <3>2. CASE Failure(p) /\ ~RestoreDirectory(p)
        BY <3>2 DEF Failure, StopForCleanup, RestoreStore, RestoreSidecar,
           WriteRecoveryState, SettleMask, hostVars, DirOpen
      <3> QED BY <1>4, <3>1, <3>2
    <2> QED BY <1>0, <2>1, <2>2 DEF DirInv
  <1>5. ASSUME NEW p \in Procs, Modal(p) PROVE DirInv'
    BY <1>1, <1>5 DEF Modal, AcquireLock, SelfTest, Preflight, Load, CheckAcknowledged, Spawn,
       WaitReturns, hostVars
  <1>6. ASSUME NEW p \in Procs, Fault(p) PROVE DirInv'
    BY <1>1, <1>6, FaultControl DEF hostVars
  <1>7. ASSUME NEW p \in Operators, NEW mode \in Modes, Launch(p, mode) PROVE DirInv'
    BY <1>1, <1>7 DEF Launch, hostVars
  <1>8. CASE Acknowledge \/ UNCHANGED vars
    BY <1>1, <1>8 DEF Acknowledge, vars, hostVars
  <1>9. CASE DaemonCrash
    BY <1>0, <1>9 DEF DaemonCrash, DirInv
  <1>10. CASE SystemdRetry \/ Reboot
    BY <1>0, <1>10, StartDaemonDir DEF SystemdRetry, Reboot
  <1> QED BY <1>2, <1>3, <1>4, <1>5, <1>6, <1>7, <1>8, <1>9, <1>10 DEF Next, Step, Modal

-----------------------------------------------------------------------------
(* Custody of the files, when nothing fails that no trap can catch.        *)

\* Commands fail and single signals arrive, but no shell is killed, no cleanup
\* is disturbed and the power stays on.
HandledFaults == Faults \subseteq {"error", "signal"}

Settled(f) == file[f].owner = "li" /\ file[f].mode = IF file[f].format = "old" THEN 644 ELSE 600
Unsettled(f) == Exists(f) /\ ~Settled(f)

\* The commands that run under the mask.
UnderMask == {"stop", "dirCheck", "dirChown", "dirChmod", "dirFlag", "storeChown", "storeChmod",
              "storeMove", "storeFlag", "sideCheck", "sideChown", "sideChmod", "sideMove",
              "sideFlag", "gone", "backChown", "backChmod", "backFlag", "profile", "unmask"}
StoreLabels == {"storeChown", "storeChmod", "storeMove"}
SidecarLabels == {"sideChown", "sideChmod", "sideMove"}

\* The shell of p knows that it has custody of the file at f, which it can
\* still move or give back.
HoldsStore(p) ==
  /\ sh[p].fileCustody /\ sh[p].inode = file["store"].inode
  /\ pc[p] \in StoreLabels \cup {"clStop", "clStore"}
HoldsSidecar(p, f) ==
  /\ sh[p].sideCustody /\ sh[p].sideInode = file[f].inode
  /\ AtSidecar(p) /\ f = Sidecar(p)
  /\ pc[p] \in SidecarLabels \cup {"clStop", "clStore", "clSide"}
Holds(p, f) == IF f = "store" THEN HoldsStore(p) ELSE HoldsSidecar(p, f)

FileInv ==
  /\ \A f \in Files : Exists(f) => file[f].inode # 0
  /\ \A f \in SidecarNames : Exists(f) => file[f].format = "old"

\* What the shell of p knows, by its stage.
Knows(p) ==
  /\ pc[p] \in UnderMask => masked
  /\ pc[p] \in {"dirChown", "dirChmod", "dirFlag"} =>
       /\ Exists("store") /\ file["store"].format = "old"
       /\ sh[p].inode = file["store"].inode
  /\ pc[p] \in StoreLabels => HoldsStore(p)
  /\ pc[p] \in SidecarLabels => HoldsSidecar(p, Sidecar(p)) /\ Exists(Sidecar(p))
  /\ pc[p] \in Untrapped \cup (Trapped \ (StoreLabels \cup {"storeFlag"})) => ~sh[p].fileCustody
  /\ pc[p] \in Untrapped \cup (Trapped \ (SidecarLabels \cup {"sideFlag"})) => ~sh[p].sideCustody
  /\ pc[p] \in Trapped \cup {"clStop", "clStore"} /\ sh[p].fileCustody =>
       masked /\ svc = "inactive" /\ (Exists("store") => file["store"].format = "old")
  /\ pc[p] \in Trapped \cup {"clStop", "clStore", "clSide"} /\ sh[p].sideCustody =>
       masked /\ svc = "inactive"

\* A file in root's hands is one whose custody a living shell knows of, while
\* the daemon is down and masked.
CustodyInv ==
  /\ FileInv
  /\ \A p \in Procs : Knows(p)
  /\ \A f \in Files : Unsettled(f) =>
       masked /\ svc = "inactive" /\ \E p \in Procs : Holds(p, f)

LEMMA InitCustody == Init => CustodyInv
  <1> SUFFICES ASSUME Init PROVE CustodyInv
    OBVIOUS
  <1>1. PICK present \in SUBSET SidecarNames : file = StoreFiles(present)
    BY DEF Init
  <1>2. ASSUME NEW f \in Files
        PROVE  file[f] = NoFile \/ (file[f].inode # 0 /\ file[f].owner = "li" /\ file[f].mode = 644
                                    /\ file[f].format = "old")
    <2>1. CASE f = "store"
      BY <1>1, <2>1 DEF StoreFiles
    <2>2. CASE f # "store" /\ f \in present
      <3>1. (CHOOSE i \in DOMAIN Sidecars : Sidecars[i] = f) \in Nat \ {0}
        BY <2>2, SidecarsLength DEF SidecarNames
      <3> QED BY <1>1, <2>2, <3>1 DEF StoreFiles
    <2>3. CASE f # "store" /\ f \notin present
      BY <1>1, <2>3 DEF StoreFiles
    <2> QED BY <2>1, <2>2, <2>3
  <1>3. FileInv
    <2>1. \A f \in Files : Exists(f) => file[f].inode # 0 /\ file[f].format = "old"
      BY <1>2 DEF Exists
    <2>2. SidecarNames \subseteq Files
      BY DEF Files
    <2> QED BY <2>1, <2>2 DEF FileInv
  <1>4. \A p \in Procs : pc[p] = "idle"
    BY DEF Init
  <1> QED BY <1>2, <1>3, <1>4
          DEF CustodyInv, Unsettled, Settled, Exists, Knows, UnderMask, StoreLabels, SidecarLabels,
              Untrapped, Trapped

\* The one run past "lock" is the only one that can hold anything.
LEMMA OnlyHolder ==
  ASSUME LockHeld, CustodyInv, NEW p \in Procs, pc[p] \notin {"idle", "lock"}
  PROVE  \A f \in Files : Unsettled(f) => masked /\ svc = "inactive" /\ Holds(p, f)
  <1> SUFFICES ASSUME NEW f \in Files, Unsettled(f)
               PROVE  masked /\ svc = "inactive" /\ Holds(p, f)
    OBVIOUS
  <1>1. masked /\ svc = "inactive" /\ \E q \in Procs : Holds(q, f)
    BY DEF CustodyInv
  <1>2. PICK q \in Procs : Holds(q, f)
    BY <1>1
  <1>3. pc[q] \notin {"idle", "lock"}
    BY <1>2 DEF Holds, HoldsStore, HoldsSidecar, StoreLabels, SidecarLabels
  <1>4. q = p
    BY <1>3 DEF LockHeld
  <1> QED BY <1>1, <1>2, <1>4

LEMMA NothingHeld ==
  ASSUME LockHeld, CustodyInv, NEW p \in Procs,
         pc[p] \notin {"idle", "lock", "clStop", "clStore", "clSide"} \cup StoreLabels \cup SidecarLabels
  PROVE  \A f \in Files : ~Unsettled(f)
  BY OnlyHolder DEF Holds, HoldsStore, HoldsSidecar

LEMMA CustodyFrame ==
  ASSUME CustodyInv, NEW p \in Procs, Alone(p), OthersKept(p),
         \A q \in Procs \ {p} : pc'[q] = pc[q],
         FileInv', Knows(p)',
         \A f \in Files : Unsettled(f)' => masked' /\ svc' = "inactive" /\ Holds(p, f)'
  PROVE  CustodyInv'
  <1>1. ASSUME NEW q \in Procs PROVE Knows(q)'
    <2>1. CASE q = p
      BY <2>1
    <2>2. CASE q # p
      <3>1. Knows(q) /\ pc'[q] = pc[q] /\ pc'[q] \in {"idle", "lock"} /\ sh'[q] = sh[q]
        BY <2>2 DEF CustodyInv, Alone, OthersKept
      <3> QED BY <3>1 DEF Knows, UnderMask, StoreLabels, SidecarLabels, Trapped
    <2> QED BY <2>1, <2>2
  <1> QED BY <1>1 DEF CustodyInv

\* A command that leaves the files alone, while none of them is held.
LEMMA FilesKept ==
  ASSUME UNCHANGED file, FileInv
  PROVE  FileInv' /\ \A f \in Files : Unsettled(f)' = Unsettled(f)
  BY DEF FileInv, Unsettled, Settled, Exists

LEMMA IdleCustody ==
  ASSUME LockHeld, CustodyInv, NEW p \in Procs, Alone(p), OthersKept(p),
         \A q \in Procs \ {p} : pc'[q] = pc[q], UNCHANGED file, Knows(p)',
         pc[p] \notin {"idle", "lock", "clStop", "clStore", "clSide"} \cup StoreLabels \cup SidecarLabels
  PROVE  CustodyInv'
  <1>1. FileInv' /\ \A f \in Files : ~Unsettled(f)'
    BY FilesKept, NothingHeld DEF CustodyInv
  <1> QED BY <1>1, CustodyFrame

\* A chown or chmod of a file whose custody p has, by one command before the move.
LEMMA TakeCustody ==
  ASSUME TypeInv, LockHeld, StoreInv, CustodyInv, NEW p \in Procs, Alone(p), OthersKept(p),
         \A q \in Procs \ {p} : pc'[q] = pc[q],
         NEW f \in Files, NEW from, NEW to, NEW field \in {"owner", "mode"}, NEW value,
         SetFile(p, f, from, to, field, value),
         \/ f = "store" /\ Exists("store") /\ from \in {"storeChown", "storeChmod"} /\ to \in StoreLabels
         \/ /\ f = Sidecar(p) /\ f # "store" /\ f \in SidecarNames /\ AtSidecar(p) /\ Exists(f)
            /\ from \in {"sideChown", "sideChmod"} /\ to \in SidecarLabels
  PROVE  CustodyInv'
  <1>1. file \in [Files -> FileRecord] /\ file[f] \in FileRecord /\ file'[f] = [file[f] EXCEPT ![field] = value]
        /\ \A g \in Files \ {f} : file'[g] = file[g]
    BY DEF SetFile, TypeInv, TypeOK, HostTypeOK
  <1>2. file'[f].inode = file[f].inode /\ file'[f].format = file[f].format
    BY <1>1 DEF FileRecord
  <1>3. pc[p] = from /\ pc'[p] = to /\ UNCHANGED <<sh, masked, svc>>
    BY Targets DEF SetFile
  <1>4. Knows(p) /\ FileInv
    BY DEF CustodyInv
  <1>5. masked /\ svc = "inactive" /\ Holds(p, f)
    BY <1>3, <1>4 DEF Knows, Holds, UnderMask, StoreInv, AfterStop, StoreLabels, SidecarLabels
  <1>6. Holds(p, f)'
    BY <1>2, <1>3, <1>5 DEF Holds, HoldsStore, HoldsSidecar, AtSidecar, Sidecar, StoreLabels, SidecarLabels
  <1>7. \A g \in Files \ {f} : ~Unsettled(g)
    <2> SUFFICES ASSUME NEW g \in Files \ {f}, Unsettled(g) PROVE FALSE
      OBVIOUS
    <2>1. Holds(p, g)
      BY <1>3, OnlyHolder DEF StoreLabels, SidecarLabels
    <2> QED BY <1>3, <2>1 DEF Holds, HoldsStore, HoldsSidecar, StoreLabels, SidecarLabels
  <1>8. \A g \in Files \ {f} : ~Unsettled(g)'
    BY <1>1, <1>7 DEF Unsettled, Settled, Exists
  <1>9. FileInv'
    <2>1. \A g \in Files : file'[g].inode = file[g].inode /\ file'[g].format = file[g].format
      BY <1>1, <1>2
    <2>2. \A g \in Files : Exists(g)' => Exists(g)
      BY <1>1 DEF Exists
    <2>3. SidecarNames \subseteq Files
      BY DEF Files
    <2> QED BY <1>4, <2>1, <2>2, <2>3 DEF FileInv
  <1>10. Exists(f)'
    <2>1. file'[f].inode # 0
      BY <1>2, <1>4 DEF FileInv
    <2> QED BY <2>1 DEF Exists, NoFile
  <1>11. Knows(p)'
    <2>1. CASE f = "store"
      <3>1. from \in {"storeChown", "storeChmod"} /\ to \in StoreLabels
        BY <2>1
      <3> QED BY <1>2, <1>3, <1>4, <1>5, <1>6, <2>1, <3>1
              DEF Knows, Holds, UnderMask, StoreLabels, SidecarLabels, Untrapped, Trapped, Exists
    <2>2. CASE f # "store"
      <3>1. from \in {"sideChown", "sideChmod"} /\ to \in SidecarLabels /\ f = Sidecar(p)
        BY <2>2
      <3>2. Sidecar(p)' = Sidecar(p)
        BY <1>3 DEF Sidecar
      <3>3. Exists(Sidecar(p))'
        BY <1>10, <3>1, <3>2
      <3> QED BY <1>2, <1>3, <1>4, <1>5, <1>6, <2>2, <3>1, <3>2, <3>3
              DEF Knows, Holds, UnderMask, StoreLabels, SidecarLabels, Untrapped, Trapped, Exists
    <2> QED BY <2>1, <2>2
  <1> QED BY <1>3, <1>5, <1>6, <1>8, <1>9, <1>11, CustodyFrame

\* The move of a file whose custody p has.
LEMMA MoveCustody ==
  ASSUME TypeInv, LockHeld, StoreInv, CustodyInv, NEW p \in Procs, Alone(p), OthersKept(p),
         \A q \in Procs \ {p} : pc'[q] = pc[q],
         NEW f \in Files, NEW from, NEW to, MoveFile(p, f, from, to),
         \/ f = "store" /\ from = "storeMove" /\ to = "storeFlag"
         \/ f = Sidecar(p) /\ f # "store" /\ from = "sideMove" /\ to = "sideFlag"
  PROVE  CustodyInv'
  <1>1. pc[p] = from /\ pc'[p] = to /\ UNCHANGED <<sh, masked, svc>>
        /\ file'[f] = NoFile /\ \A g \in Files \ {f} : file'[g] = file[g]
    BY Targets DEF MoveFile, TypeInv, TypeOK, HostTypeOK
  <1>2. Knows(p) /\ FileInv
    BY DEF CustodyInv
  <1>3. \A g \in Files \ {f} : ~Unsettled(g)
    <2> SUFFICES ASSUME NEW g \in Files \ {f}, Unsettled(g) PROVE FALSE
      OBVIOUS
    <2>1. Holds(p, g)
      BY <1>1, OnlyHolder
    <2> QED BY <1>1, <2>1 DEF Holds, HoldsStore, HoldsSidecar, StoreLabels, SidecarLabels
  <1>4. \A g \in Files : ~Unsettled(g)'
    BY <1>1, <1>3 DEF Unsettled, Settled, Exists
  <1>5. FileInv'
    <2>1. SidecarNames \subseteq Files
      BY DEF Files
    <2> QED BY <1>1, <1>2, <2>1 DEF FileInv, Exists
  <1>6. Knows(p)'
    <2>1. CASE f = "store"
      BY <1>1, <1>2, <2>1 DEF Knows, UnderMask, StoreLabels, SidecarLabels, Untrapped, Trapped, Exists,
                              StoreInv, AfterStop
    <2>2. CASE f # "store"
      BY <1>1, <1>2, <2>2 DEF Knows, UnderMask, StoreLabels, SidecarLabels, Untrapped, Trapped, Exists
    <2> QED BY <2>1, <2>2
  <1> QED BY <1>4, <1>5, <1>6, CustodyFrame

LEMMA CustodyCustody ==
  ASSUME TypeInv, LockHeld, StoreInv, MoveInv, CustodyInv, NEW p \in Procs, Custody(p), Alone(p)
  PROVE  CustodyInv'
  <1> USE DEF Trapped
  <1>0. /\ sh \in [Procs -> ShellRecord] /\ sh[p] \in ShellRecord
        /\ file \in [Files -> FileRecord] /\ "store" \in Files
        /\ Knows(p) /\ FileInv
        /\ OthersKept(p) /\ \A q \in Procs \ {p} : pc'[q] = pc[q]
    <2>1. OthersKept(p) /\ \A q \in Procs \ {p} : pc'[q] = pc[q]
      BY ActiveKeeps DEF Active
    <2> QED BY <2>1 DEF TypeInv, TypeOK, ScriptTypeOK, HostTypeOK, Files, CustodyInv
  <1>1. ASSUME UNCHANGED file, Knows(p)',
               pc[p] \notin {"idle", "lock", "clStop", "clStore", "clSide"} \cup StoreLabels \cup SidecarLabels
        PROVE  CustodyInv'
    BY <1>0, <1>1, IdleCustody
  <1>2. CASE MaskService(p)
    <2>1. pc[p] = "mask" /\ pc'[p] = "stop" /\ masked' /\ UNCHANGED <<sh, file>>
      BY <1>2, Targets DEF MaskService
    <2> QED BY <1>0, <1>1, <2>1 DEF Knows, UnderMask, StoreLabels, SidecarLabels
  <1>3. CASE StopService(p)
    <2>1. pc[p] = "stop" /\ pc'[p] \in {"dirCheck", "clStop", "idle"} /\ UNCHANGED <<sh, file, masked>>
      BY <1>3, Targets DEF StopService
    <2> QED BY <1>0, <1>1, <2>1 DEF Knows, UnderMask, StoreLabels, SidecarLabels, Untrapped
  <1>4. CASE CheckDirectory(p)
    <2>1. /\ pc[p] = "dirCheck" /\ UNCHANGED <<file, masked, svc>>
          /\ Check(p, SettledDir /\ Exists("store") /\ Original("store"), "dirChown")
          /\ IF pc'[p] = "dirChown" THEN Set(p, "inode", file["store"].inode) ELSE UNCHANGED sh
      BY <1>4 DEF CheckDirectory, hostVars
    <2>2. /\ pc'[p] \in {"clStop", "idle"} \/ (pc'[p] = "dirChown" /\ Exists("store") /\ Original("store"))
          /\ sh'[p].fileCustody = sh[p].fileCustody /\ sh'[p].sideCustody = sh[p].sideCustody
          /\ pc'[p] = "dirChown" => sh'[p].inode = file["store"].inode
      BY <2>1, Targets, SetField DEF Check, ShellFields
    <2>3. Exists("store") /\ Original("store") => file["store"].format = "old"
      <3>1. ~Unsettled("store")
        BY <1>0, <2>1, NothingHeld DEF StoreLabels, SidecarLabels
      <3> QED BY <3>1 DEF Unsettled, Settled, Original
    <2> QED BY <1>0, <1>1, <2>1, <2>2, <2>3
            DEF Knows, UnderMask, StoreLabels, SidecarLabels, Untrapped, Exists
  <1>5. CASE ChownDirectory(p) \/ ChmodDirectory(p)
    <2>1. pc[p] \in {"dirChown", "dirChmod"} /\ pc'[p] \in {"dirChmod", "dirFlag"}
          /\ UNCHANGED <<sh, file, masked, svc>>
      BY <1>5, Targets DEF ChownDirectory, ChmodDirectory, SetDirectory
    <2> QED BY <1>0, <1>1, <2>1 DEF Knows, UnderMask, StoreLabels, SidecarLabels, Untrapped, Exists
  <1>6. CASE FlagDirectory(p)
    <2>1. /\ pc[p] = "dirFlag" /\ UNCHANGED <<file, masked, svc>>
          /\ pc'[p] \in {"clStop", "idle"} \/ (pc'[p] = "storeChown" /\ Original("store"))
      BY <1>6, Targets DEF FlagDirectory, Check, hostVars
    <2>2. /\ sh'[p].fileCustody = Original("store") /\ sh'[p].sideCustody = sh[p].sideCustody
          /\ sh'[p].inode = sh[p].inode
      BY <1>0, <1>6 DEF FlagDirectory, ShellRecord
    <2>3. svc = "inactive" /\ masked
      BY <1>0, <2>1 DEF StoreInv, AfterStop, Knows, UnderMask
    <2> QED BY <1>0, <1>1, <2>1, <2>2, <2>3
            DEF Knows, HoldsStore, UnderMask, StoreLabels, SidecarLabels, Untrapped, Exists
  <1>7. CASE ChownStore(p) \/ ChmodStore(p)
    <2>1. Exists("store")
      BY <1>7 DEF ChownStore, ChmodStore, SetFile, MoveInv
    <2> QED BY <1>0, <1>7, <2>1, TakeCustody DEF ChownStore, ChmodStore, StoreLabels
  <1>8. CASE MoveStore(p)
    <2>1. CASE MoveFile(p, "store", "storeMove", "storeFlag")
      BY <1>0, <2>1, MoveCustody
    <2>2. CASE pc[p] = "storeMove" /\ Die(p) /\ UNCHANGED <<sh, hostVars>>
      <3>1. pc'[p] = "clStop" /\ UNCHANGED <<file, masked, svc>>
        BY <2>2, TrappedTargets, Targets DEF hostVars
      <3>2. \A f \in Files : Unsettled(f)' => masked' /\ svc' = "inactive" /\ Holds(p, f)'
        <4> SUFFICES ASSUME NEW f \in Files, Unsettled(f)'
                     PROVE  masked' /\ svc' = "inactive" /\ Holds(p, f)'
          OBVIOUS
        <4>1. Unsettled(f)
          BY <1>0, <3>1, FilesKept
        <4>2. masked /\ svc = "inactive" /\ Holds(p, f)
          BY <2>2, <4>1, OnlyHolder
        <4> QED BY <2>2, <3>1, <4>2 DEF Holds, HoldsStore, HoldsSidecar, AtSidecar, Sidecar
      <3>3. Knows(p)'
        BY <1>0, <2>2, <3>1 DEF Knows, UnderMask, StoreLabels, SidecarLabels, Untrapped, Exists
      <3> QED BY <1>0, <3>1, <3>2, <3>3, FilesKept, CustodyFrame
    <2> QED BY <1>8, <2>1, <2>2 DEF MoveStore
  <1>9. CASE FlagStore(p)
    <2>1. pc[p] = "storeFlag" /\ pc'[p] = "sideCheck" /\ UNCHANGED <<file, masked, svc>>
      BY <1>9, Targets DEF FlagStore, hostVars
    <2>2. ~sh'[p].fileCustody /\ sh'[p].sideCustody = sh[p].sideCustody
      BY <1>0, <1>9 DEF FlagStore, ShellRecord
    <2> QED BY <1>0, <1>1, <2>1, <2>2 DEF Knows, UnderMask, StoreLabels, SidecarLabels, Untrapped
  <1>10. CASE CheckSidecar(p)
    <2> DEFINE f == Sidecars[sh[p].side]
               ok == Original(f) /\ discarded[f] = NoFile
    <2>1. pc[p] = "sideCheck" /\ UNCHANGED <<file, masked, svc>>
      BY <1>10 DEF CheckSidecar, hostVars
    <2>2. ~sh[p].fileCustody /\ ~sh[p].sideCustody /\ masked
      BY <1>0, <2>1 DEF Knows, UnderMask, StoreLabels, SidecarLabels
    <2>3. CASE (Goto(p, "gone") /\ UNCHANGED sh) \/ (Set(p, "side", sh[p].side + 1) /\ Goto(p, "sideCheck"))
      <3>1. pc'[p] \in {"gone", "sideCheck"} /\ ~sh'[p].fileCustody /\ ~sh'[p].sideCustody
        BY <2>2, <2>3, Targets, SetField DEF ShellFields
      <3> QED BY <1>1, <2>1, <2>2, <3>1 DEF Knows, UnderMask, StoreLabels, SidecarLabels, Untrapped
    <2>4. CASE /\ ~(sh[p].side > Len(Sidecars)) /\ Exists(f)
               /\ Check(p, ok, "sideChown")
               /\ sh' = [sh EXCEPT ![p].sideInode = IF Original(f) THEN file[f].inode ELSE @,
                                   ![p].sideCustody = ok]
      <3>1. sh[p].side \in DOMAIN Sidecars
        BY <1>0, <2>4, SidecarsLength DEF ShellRecord
      <3>2. sh'[p].fileCustody = sh[p].fileCustody /\ sh'[p].side = sh[p].side
            /\ sh'[p].sideCustody = ok /\ (Original(f) => sh'[p].sideInode = file[f].inode)
        BY <1>0, <2>4 DEF ShellRecord
      <3>3. pc'[p] \in {"clStop", "idle"} \/ (pc'[p] = "sideChown" /\ ok)
        BY <2>4, Targets DEF Check
      <3>4. svc = "inactive"
        BY <2>1 DEF StoreInv, AfterStop
      <3>5. /\ pc'[p] = "sideChown" => HoldsSidecar(p, Sidecar(p))'
            /\ Exists(Sidecar(p))'
        BY <2>1, <2>4, <3>1, <3>2, <3>3 DEF HoldsSidecar, AtSidecar, Sidecar, SidecarLabels, Exists
      <3>6. Knows(p)'
        BY <2>1, <2>2, <3>2, <3>3, <3>4, <3>5
           DEF Knows, UnderMask, StoreLabels, SidecarLabels, Untrapped
      <3> QED BY <1>1, <2>1, <3>6 DEF StoreLabels, SidecarLabels
    <2> QED BY <1>10, <2>3, <2>4 DEF CheckSidecar
  <1>11. CASE ChownSidecar(p) \/ ChmodSidecar(p)
    <2>1. AtSidecar(p) /\ Sidecar(p) \in SidecarNames /\ Sidecar(p) # "store" /\ SidecarNames \subseteq Files
      BY <1>11, SidecarsAssumption DEF ChownSidecar, ChmodSidecar, AtSidecar, Sidecar, SidecarNames, Files
    <2>2. Exists(Sidecar(p))
      <3>1. HoldsSidecar(p, Sidecar(p)) /\ pc[p] \in {"sideChown", "sideChmod"}
        BY <1>0, <1>11 DEF ChownSidecar, ChmodSidecar, SetFile, Knows, SidecarLabels
      <3> QED BY <1>0, <3>1 DEF Knows, SidecarLabels
    <2> QED BY <1>0, <1>11, <2>1, <2>2, TakeCustody DEF ChownSidecar, ChmodSidecar, SidecarLabels
  <1>12. CASE MoveSidecar(p)
    <2>1. AtSidecar(p) /\ Sidecar(p) \in Files /\ Sidecar(p) # "store"
      BY <1>12, SidecarsAssumption DEF MoveSidecar, AtSidecar, Sidecar, SidecarNames, Files
    <2> QED BY <1>0, <1>12, <2>1, MoveCustody DEF MoveSidecar
  <1>13. CASE FlagSidecar(p)
    <2>1. pc[p] = "sideFlag" /\ pc'[p] = "sideCheck" /\ UNCHANGED <<file, masked, svc>>
      BY <1>13, Targets DEF FlagSidecar, hostVars
    <2>2. ~sh'[p].sideCustody /\ sh'[p].fileCustody = sh[p].fileCustody
      BY <1>0, <1>13 DEF FlagSidecar, ShellRecord
    <2> QED BY <1>0, <1>1, <2>1, <2>2 DEF Knows, UnderMask, StoreLabels, SidecarLabels, Untrapped
  <1>14. CASE CheckGone(p) \/ ReturnDirectoryOwner(p) \/ ReturnDirectoryMode(p)
    <2>1. pc[p] \in {"gone", "backChown", "backChmod"} /\ UNCHANGED <<sh, file, masked, svc>>
          /\ pc'[p] \in {"backChown", "backChmod", "backFlag", "clStop", "idle"}
      BY <1>14, Targets DEF CheckGone, ReturnDirectoryOwner, ReturnDirectoryMode, SetDirectory, hostVars
    <2> QED BY <1>0, <1>1, <2>1 DEF Knows, UnderMask, StoreLabels, SidecarLabels, Untrapped
  <1>15. CASE FlagDirectoryReturned(p)
    <2>1. pc[p] = "backFlag" /\ pc'[p] = "profile" /\ UNCHANGED <<file, masked, svc>>
          /\ sh'[p].sideCustody = sh[p].sideCustody /\ sh'[p].fileCustody = sh[p].fileCustody
      BY <1>15, Targets, SetField DEF FlagDirectoryReturned, hostVars, ShellFields
    <2> QED BY <1>0, <1>1, <2>1 DEF Knows, UnderMask, StoreLabels, SidecarLabels, Untrapped
  <1> QED BY <1>2, <1>3, <1>4, <1>5, <1>6, <1>7, <1>8, <1>9, <1>10, <1>11, <1>12, <1>13, <1>14,
             <1>15 DEF Custody

\* The daemon creates a store that is its own, and touches no other file.
LEMMA StartDaemonCustody ==
  ASSUME TypeInv, FileInv, NEW v \in Versions, StartDaemon(v), \A f \in Files : ~Unsettled(f)
  PROVE  FileInv' /\ \A f \in Files : ~Unsettled(f)'
  <1>1. file \in [Files -> FileRecord] /\ "store" \in Files /\ inodes \in Nat
    BY DEF TypeInv, TypeOK, HostTypeOK, Files
  <1>2. CASE UNCHANGED file
    BY <1>2, FilesKept
  <1>3. CASE /\ inodes' = inodes + 1
             /\ file' = [file EXCEPT !["store"] =
                   [inode |-> inodes', owner |-> "li",
                    mode |-> IF v = "new" THEN 600 ELSE 644, format |-> v]]
    <2>1. \A f \in Files \ {"store"} : file'[f] = file[f]
      BY <1>1, <1>3
    <2>2. file'["store"] = [inode |-> inodes + 1, owner |-> "li",
                            mode |-> IF v = "new" THEN 600 ELSE 644, format |-> v]
      BY <1>1, <1>3
    <2>3. file'["store"].inode # 0
      BY <1>1, <2>2
    <2>4. ~Unsettled("store")'
      BY <2>2 DEF Unsettled, Settled, Versions
    <2>5. "store" \notin SidecarNames /\ SidecarNames \subseteq Files
      BY SidecarsAssumption DEF SidecarNames, Files
    <2>6. FileInv'
      BY <2>1, <2>3, <2>5 DEF FileInv, Exists
    <2>7. \A f \in Files \ {"store"} : ~Unsettled(f)'
      BY <2>1 DEF Unsettled, Settled, Exists
    <2> QED BY <2>4, <2>6, <2>7
  <1> QED BY <1>2, <1>3 DEF StartDaemon

LEMMA ActivationCustody ==
  ASSUME TypeInv, LockHeld, CustodyInv, NEW p \in Procs, Activation(p), Alone(p)
  PROVE  CustodyInv'
  <1>0. /\ Knows(p) /\ FileInv /\ current \in Versions /\ "new" \in Versions
        /\ OthersKept(p) /\ CustodyKept(p) /\ \A q \in Procs \ {p} : pc'[q] = pc[q]
    <2>1. \A q \in Procs \ {p} : pc'[q] = pc[q]
      BY ActiveKeeps DEF Active
    <2> QED BY <2>1, ActivationKeeps DEF CustodyInv, TypeInv, TypeOK, HostTypeOK, Versions
  <1>1. /\ pc[p] \in {"profile", "unmask", "switch"} \cup AfterSwitch
        /\ pc'[p] \in {"unmask", "switch", "clStop", "idle"} \cup AfterSwitch
        /\ pc'[p] = "unmask" => pc[p] = "profile" /\ UNCHANGED masked
        /\ UNCHANGED file \/ \E v \in Versions : StartDaemon(v)
    <2>1. CASE SetProfile(p) \/ UnmaskService(p)
      BY <2>1, Targets DEF SetProfile, UnmaskService
    <2>2. CASE SwitchConfiguration(p)
      BY <1>0, <2>2, Targets DEF SwitchConfiguration, AfterSwitch
    <2>3. CASE StartService(p) \/ RestartService(p)
      BY <1>0, <2>3, Targets DEF StartService, RestartService, AfterSwitch
    <2>4. CASE Accept(p) \/ Dwell(p) \/ AcceptRestart(p)
      BY <2>4, Targets DEF Accept, Dwell, AcceptRestart, AfterSwitch, hostVars
    <2> QED BY <2>1, <2>2, <2>3, <2>4 DEF Activation
  <1>2. ~sh[p].fileCustody /\ ~sh[p].sideCustody /\ (pc[p] = "profile" => masked)
    BY <1>0, <1>1 DEF Knows, StoreLabels, SidecarLabels, Trapped, AfterSwitch, UnderMask
  <1>3. \A f \in Files : ~Unsettled(f)
    BY <1>1, NothingHeld DEF StoreLabels, SidecarLabels, AfterSwitch
  <1>4. FileInv' /\ \A f \in Files : ~Unsettled(f)'
    BY <1>0, <1>1, <1>3, FilesKept, StartDaemonCustody
  <1>5. Knows(p)'
    BY <1>0, <1>1, <1>2 DEF CustodyKept, Knows, UnderMask, StoreLabels, SidecarLabels, AfterSwitch
  <1> QED BY <1>0, <1>4, <1>5, CustodyFrame

\* Without an error in the cleanup a file goes back to its owner and mode, if
\* it is the one that the shell remembers; otherwise nothing is touched.
LEMMA RestoreCustody ==
  ASSUME TypeInv, FileInv, ~Erring, NEW p \in Procs, NEW f \in Files, NEW inode,
         NEW flag \in {"fileCustody", "sideCustody"}, RestoreFile(p, f, inode, flag),
         Exists(f) => file[f].format = "old", Unsettled(f) => inode = file[f].inode
  PROVE  /\ FileInv' /\ ~Unsettled(f)'
         /\ \A g \in Files \ {f} : file'[g] = file[g]
         /\ flag = "fileCustody" => sh'[p].sideCustody = sh[p].sideCustody
         /\ flag = "sideCustody" => sh'[p].fileCustody = sh[p].fileCustody
  <1>1. file \in [Files -> FileRecord] /\ file[f] \in FileRecord
    BY DEF TypeInv, TypeOK, HostTypeOK
  <1>2. CASE inode = 0 \/ file[f].inode # inode
    <2>1. Set(p, "filesBack", FALSE) /\ UNCHANGED file
      BY <1>2 DEF RestoreFile
    <2>2. ~Unsettled(f)
      BY <1>2 DEF FileInv, Unsettled
    <2> QED BY <2>1, <2>2, FilesKept, SetField DEF ShellFields
  <1>3. CASE ~(inode = 0 \/ file[f].inode # inode)
    <2>1. /\ file' = [file EXCEPT ![f].owner = "li", ![f].mode = 644]
          /\ Set(p, flag, FALSE)
      <3>1. PICK owner \in {"li"} \cup (IF Erring THEN {file[f].owner} ELSE {}),
                 mode \in {644} \cup (IF Erring THEN {file[f].mode} ELSE {}) :
              /\ file' = [file EXCEPT ![f].owner = owner, ![f].mode = mode]
              /\ IF owner = "li" /\ mode = 644
                 THEN Set(p, flag, FALSE)
                 ELSE Set(p, "filesBack", FALSE)
        BY <1>3, ZenonT(60) DEF RestoreFile
      <3>2. owner = "li" /\ mode = 644
        OBVIOUS
      <3>3. Set(p, flag, FALSE)
        BY <3>1, <3>2 DEF Set
      <3>4. file' = [file EXCEPT ![f].owner = "li", ![f].mode = 644]
        BY <3>1, <3>2
      <3> QED BY <3>3, <3>4
    <2>2. file'[f] = [file[f] EXCEPT !.owner = "li", !.mode = 644]
          /\ \A g \in Files \ {f} : file'[g] = file[g]
      BY <1>1, <2>1
    <2>3. /\ file'[f].owner = "li" /\ file'[f].mode = 644
          /\ file'[f].inode = file[f].inode /\ file'[f].format = file[f].format
      BY <1>1, <2>2 DEF FileRecord
    <2>4. Exists(f)
      BY <1>3 DEF Exists, NoFile
    <2>5. ~Unsettled(f)'
      BY <2>3, <2>4 DEF Unsettled, Settled
    <2>6. FileInv'
      <3>1. SidecarNames \subseteq Files
        BY DEF Files
      <3>2. \A g \in Files : file'[g].inode = file[g].inode /\ file'[g].format = file[g].format
        <4> SUFFICES ASSUME NEW g \in Files
                     PROVE  file'[g].inode = file[g].inode /\ file'[g].format = file[g].format
          OBVIOUS
        <4>1. CASE g = f
          BY <2>3, <4>1
        <4>2. CASE g # f
          BY <2>2, <4>2
        <4> QED BY <4>1, <4>2
      <3>3. \A g \in Files : Exists(g)' => Exists(g)
        BY <2>2, <2>4 DEF Exists
      <3> QED BY <3>1, <3>2, <3>3 DEF FileInv
    <2>7. flag = "fileCustody" => sh'[p].sideCustody = sh[p].sideCustody
      BY <2>1, SetField DEF ShellFields
    <2>8. flag = "sideCustody" => sh'[p].fileCustody = sh[p].fileCustody
      BY <2>1, SetField DEF ShellFields
    <2> QED BY <2>2, <2>5, <2>6, <2>7, <2>8
  <1> QED BY <1>2, <1>3

LEMMA FailureCustody ==
  ASSUME HandledFaults, TypeInv, LockHeld, CustodyInv, NEW p \in Procs, Failure(p), Alone(p)
  PROVE  CustodyInv'
  <1>0. /\ Knows(p) /\ FileInv /\ ~Erring
        /\ OthersKept(p) /\ CursorKept(p) /\ \A q \in Procs \ {p} : pc'[q] = pc[q]
    <2>1. \A q \in Procs \ {p} : pc'[q] = pc[q]
      BY ActiveKeeps DEF Active
    <2> QED BY <2>1, FailureKeeps DEF CustodyInv, HandledFaults, Erring
  <1>1. pc[p] \in Cleanup /\ \A f \in Files : Unsettled(f) => masked /\ svc = "inactive" /\ Holds(p, f)
    BY FailureKeeps, OnlyHolder DEF Cleanup
  <1>2. "store" \in Files /\ "store" \notin SidecarNames /\ SidecarNames \subseteq Files
    BY SidecarsAssumption DEF Files, SidecarNames
  <1>3. CASE StopForCleanup(p)
    <2>1. /\ pc[p] = "clStop" /\ pc'[p] = "clStore" /\ svc' = "inactive"
          /\ UNCHANGED <<file, masked>>
      BY <1>0, <1>3, Targets DEF StopForCleanup
    <2>2. sh'[p].fileCustody = sh[p].fileCustody /\ sh'[p].sideCustody = sh[p].sideCustody
      <3>1. \E v : Set(p, "stopped", v)
        BY <1>3 DEF StopForCleanup
      <3> QED BY <3>1, SetField DEF ShellFields
    <2>3. \A f \in Files : Unsettled(f)' => masked' /\ svc' = "inactive" /\ Holds(p, f)'
      <3> SUFFICES ASSUME NEW f \in Files, Unsettled(f)' PROVE masked' /\ svc' = "inactive" /\ Holds(p, f)'
        OBVIOUS
      <3>1. masked /\ Holds(p, f)
        BY <1>0, <1>1, <2>1, FilesKept
      <3> QED BY <1>0, <2>1, <2>2, <3>1 DEF Holds, HoldsStore, HoldsSidecar, AtSidecar, Sidecar, CursorKept
    <2>4. Knows(p)'
      BY <1>0, <2>1, <2>2 DEF Knows, UnderMask, StoreLabels, SidecarLabels, Untrapped, Trapped, Exists
    <2> QED BY <1>0, <2>1, <2>3, <2>4, FilesKept, CustodyFrame
  <1>4. CASE RestoreStore(p)
    <2>1. pc[p] = "clStore" /\ pc'[p] = "clSide" /\ UNCHANGED <<masked, svc>>
      BY <1>4, Targets DEF RestoreStore
    <2>2. sh[p].fileCustody \in BOOLEAN
      BY DEF TypeInv, TypeOK, ScriptTypeOK, ShellRecord
    <2>3. /\ FileInv' /\ ~Unsettled("store")' /\ sh'[p].sideCustody = sh[p].sideCustody
          /\ \A g \in Files \ {"store"} : file'[g] = file[g]
      <3>1. CASE sh[p].fileCustody
        <4>1. RestoreFile(p, "store", sh[p].inode, "fileCustody")
          BY <1>4, <3>1 DEF RestoreStore
        <4>2. Exists("store") => file["store"].format = "old"
          BY <1>0, <2>1, <3>1 DEF Knows
        <4>3. Unsettled("store") => sh[p].inode = file["store"].inode
          BY <1>1, <1>2 DEF Holds, HoldsStore
        <4> QED BY <1>0, <1>2, <4>1, <4>2, <4>3, RestoreCustody
      <3>2. CASE ~sh[p].fileCustody
        <4>1. UNCHANGED <<sh, file>>
          BY <1>4, <2>2, <3>2 DEF RestoreStore
        <4>2. ~Unsettled("store")
          BY <1>1, <1>2, <3>2 DEF Holds, HoldsStore
        <4> QED BY <1>0, <1>2, <4>1, <4>2, FilesKept
      <3> QED BY <2>2, <3>1, <3>2
    <2>4. \A f \in Files : Unsettled(f)' => masked' /\ svc' = "inactive" /\ Holds(p, f)'
      <3> SUFFICES ASSUME NEW f \in Files, Unsettled(f)' PROVE masked' /\ svc' = "inactive" /\ Holds(p, f)'
        OBVIOUS
      <3>1. f # "store" /\ file'[f] = file[f]
        BY <2>3
      <3>2. Unsettled(f)
        BY <3>1 DEF Unsettled, Settled, Exists
      <3>3. masked /\ svc = "inactive" /\ HoldsSidecar(p, f)
        BY <1>1, <3>1, <3>2 DEF Holds
      <3> QED BY <1>0, <2>1, <2>3, <3>1, <3>3 DEF Holds, HoldsSidecar, AtSidecar, Sidecar, CursorKept
    <2>5. Knows(p)'
      BY <1>0, <2>1, <2>3 DEF Knows, UnderMask, StoreLabels, SidecarLabels, Untrapped, Trapped
    <2> QED BY <1>0, <2>3, <2>4, <2>5, CustodyFrame
  <1>5. CASE RestoreSidecar(p)
    <2>1. pc[p] = "clSide" /\ pc'[p] = "clDir"
      BY <1>5, Targets DEF RestoreSidecar
    <2>2. sh[p].sideCustody \in BOOLEAN /\ AtSidecar(p) \in BOOLEAN
      BY DEF TypeInv, TypeOK, ScriptTypeOK, ShellRecord, AtSidecar
    <2>3. FileInv' /\ \A f \in Files : ~Unsettled(f)'
      <3>1. CASE sh[p].sideCustody /\ AtSidecar(p)
        <4>1. RestoreFile(p, Sidecar(p), sh[p].sideInode, "sideCustody")
          BY <1>5, <3>1 DEF RestoreSidecar
        <4>2. Sidecar(p) \in SidecarNames
          BY <3>1 DEF AtSidecar, Sidecar, SidecarNames
        <4>3. Exists(Sidecar(p)) => file[Sidecar(p)].format = "old"
          BY <1>0, <4>2 DEF FileInv
        <4>4. Unsettled(Sidecar(p)) => sh[p].sideInode = file[Sidecar(p)].inode
          BY <1>1, <1>2, <4>2 DEF Holds, HoldsSidecar
        <4>5. /\ FileInv' /\ ~Unsettled(Sidecar(p))'
              /\ \A g \in Files \ {Sidecar(p)} : file'[g] = file[g]
          <5> DEFINE f == Sidecar(p)
          <5>1. f \in Files
            BY <1>2, <4>2
          <5>2. \A g \in Files \ {f} : file'[g] = file[g]
            BY <1>0, <4>1, <4>3, <4>4, <5>1, RestoreCustody
          <5>3. FileInv'
            BY <1>0, <4>1, <4>3, <4>4, <5>1, RestoreCustody
          <5>4. ASSUME NEW h \in Files, h = Sidecar(p) PROVE ~Unsettled(h)'
            <6>1. RestoreFile(p, h, sh[p].sideInode, "sideCustody")
              BY <4>1, <5>4
            <6> QED BY <1>0, <4>3, <4>4, <5>4, <6>1, RestoreCustody
          <5>5. Sidecar(p)' = Sidecar(p)
            BY <1>0 DEF Sidecar, CursorKept
          <5> QED BY <5>1, <5>2, <5>3, <5>4, <5>5
        <4>6. Sidecar(p)' = Sidecar(p)
          BY <1>0 DEF Sidecar, CursorKept
        <4>7. ASSUME NEW g \in Files, g # Sidecar(p) PROVE ~Unsettled(g)'
          <5>1. ~Unsettled(g)
            BY <1>1, <2>1, <4>7 DEF Holds, HoldsStore, HoldsSidecar, StoreLabels
          <5> QED BY <4>5, <4>7, <5>1 DEF Unsettled, Settled, Exists
        <4> QED BY <4>5, <4>6, <4>7
      <3>2. CASE ~(sh[p].sideCustody /\ AtSidecar(p))
        <4>1. UNCHANGED <<sh, file>>
          BY <1>5, <2>2, <3>2 DEF RestoreSidecar
        <4>2. \A f \in Files : ~Unsettled(f)
          BY <1>1, <2>1, <3>2 DEF Holds, HoldsStore, HoldsSidecar, StoreLabels
        <4> QED BY <1>0, <4>1, <4>2, FilesKept
      <3> QED BY <3>1, <3>2
    <2>4. Knows(p)'
      BY <2>1 DEF Knows, UnderMask, StoreLabels, SidecarLabels, Untrapped, Trapped
    <2> QED BY <1>0, <2>3, <2>4, CustodyFrame
  <1>6. CASE RestoreDirectory(p) \/ WriteRecoveryState(p) \/ SettleMask(p)
    <2>1. pc[p] \in {"clDir", "clRecord", "clMask"} /\ pc'[p] \in {"clRecord", "clMask", "idle"}
          /\ UNCHANGED file
      BY <1>6, Targets DEF RestoreDirectory, WriteRecoveryState, SettleMask, hostVars
    <2>2. Knows(p)'
      BY <2>1 DEF Knows, UnderMask, StoreLabels, SidecarLabels, Untrapped, Trapped
    <2> QED BY <1>0, <2>1, <2>2, IdleCustody DEF StoreLabels, SidecarLabels
  <1> QED BY <1>3, <1>4, <1>5, <1>6 DEF Failure
\* A fault ends the one run that holds anything only by sending it to clean up.
LEMMA FaultCustody ==
  ASSUME HandledFaults, TypeInv, LockHeld, StoreInv, CustodyInv, NEW p \in Procs, Fault(p)
  PROVE  CustodyInv'
  <1>1. pc[p] \notin Cleanup /\ pc[p] # "idle"
        /\ (pc'[p] = "clStop" <=> pc[p] \in Trapped) /\ pc'[p] \in {"idle", "clStop"}
    <2>1. CASE Fail(p)
      BY <2>1, Targets DEF Fail, Die, Trapped, Untrapped, Cleanup
    <2>2. CASE Signal(p)
      BY <2>2, Targets DEF Signal, HandledFaults, Trapped
    <2>3. ~Kill(p) /\ ~KillShell(p)
      BY DEF Kill, KillShell, HandledFaults
    <2> QED BY <2>1, <2>2, <2>3 DEF Fault
  <1>2. UNCHANGED <<sh, file, masked, svc>> /\ \A q \in Procs \ {p} : pc'[q] = pc[q]
    BY FaultKeeps DEF hostVars
  <1>3. FileInv' /\ \A f \in Files : Unsettled(f)' = Unsettled(f)
    BY <1>2, FilesKept DEF CustodyInv
  <1>4. ASSUME NEW q \in Procs PROVE Knows(q)'
    <2>1. CASE q # p
      BY <1>2, <2>1 DEF CustodyInv, Knows, HoldsStore, HoldsSidecar, Exists, AtSidecar, Sidecar
    <2>2. CASE q = p
      <3>1. Knows(p)
        BY DEF CustodyInv
      <3>2. CASE pc'[p] = "idle"
        BY <2>2, <3>2 DEF Knows, UnderMask, StoreLabels, SidecarLabels, Untrapped, Trapped
      <3>3. CASE pc'[p] = "clStop" /\ pc[p] \in Trapped
        BY <1>2, <2>2, <3>1, <3>3
           DEF Knows, UnderMask, StoreLabels, SidecarLabels, Untrapped, Trapped, Exists
      <3> QED BY <1>1, <3>2, <3>3
    <2> QED BY <2>1, <2>2
  <1>5. ASSUME NEW f \in Files, Unsettled(f)'
        PROVE  masked' /\ svc' = "inactive" /\ \E q \in Procs : Holds(q, f)'
    <2>1. PICK q \in Procs : Holds(q, f)
      BY <1>3, <1>5 DEF CustodyInv
    <2>2. masked /\ svc = "inactive"
      BY <1>3, <1>5 DEF CustodyInv
    <2>3. Holds(q, f)'
      <3>1. CASE q # p
        BY <1>2, <2>1, <3>1 DEF Holds, HoldsStore, HoldsSidecar, AtSidecar, Sidecar
      <3>2. CASE q = p
        <4>1. pc[p] \in Trapped \cup Cleanup
          BY <2>1, <3>2 DEF Holds, HoldsStore, HoldsSidecar, StoreLabels, SidecarLabels, Trapped, Cleanup
        <4>2. pc'[p] = "clStop"
          BY <1>1, <4>1
        <4> QED BY <1>2, <2>1, <3>2, <4>2 DEF Holds, HoldsStore, HoldsSidecar, AtSidecar, Sidecar
      <3> QED BY <3>1, <3>2
    <2> QED BY <1>2, <2>2, <2>3
  <1> QED BY <1>3, <1>4, <1>5 DEF CustodyInv

\* A step that leaves the host alone, and every shell that may hold something.
LEMMA QuietCustody ==
  ASSUME CustodyInv, UNCHANGED <<file, masked, svc>>,
         \A q \in Procs : \/ pc'[q] = pc[q] /\ sh'[q] = sh[q]
                          \/ pc[q] \notin Trapped \cup Cleanup /\ Knows(q)'
  PROVE  CustodyInv'
  <1>1. FileInv' /\ \A f \in Files : Unsettled(f)' = Unsettled(f)
    BY FilesKept DEF CustodyInv
  <1>2. ASSUME NEW q \in Procs PROVE Knows(q)'
    <2>1. CASE pc'[q] = pc[q] /\ sh'[q] = sh[q]
      BY <2>1 DEF CustodyInv, Knows, HoldsStore, HoldsSidecar, Exists, AtSidecar, Sidecar
    <2> QED BY <2>1
  <1>3. ASSUME NEW f \in Files, Unsettled(f)'
        PROVE  masked' /\ svc' = "inactive" /\ \E q \in Procs : Holds(q, f)'
    <2>1. PICK q \in Procs : Holds(q, f)
      BY <1>1, <1>3 DEF CustodyInv
    <2>2. masked /\ svc = "inactive"
      BY <1>1, <1>3 DEF CustodyInv
    <2>3. pc[q] \in Trapped \cup Cleanup
      BY <2>1 DEF Holds, HoldsStore, HoldsSidecar, StoreLabels, SidecarLabels, Trapped, Cleanup
    <2>4. pc'[q] = pc[q] /\ sh'[q] = sh[q]
      BY <2>3
    <2>5. Holds(q, f)'
      BY <2>1, <2>4 DEF Holds, HoldsStore, HoldsSidecar, AtSidecar, Sidecar
    <2> QED BY <2>2, <2>5
  <1> QED BY <1>1, <1>2, <1>3 DEF CustodyInv

\* The steps before the traps are set leave the host and the custody alone.
LEMMA ModalCustody ==
  ASSUME TypeInv, CustodyInv, NEW p \in Procs, Modal(p) PROVE CustodyInv'
  <1>1. CASE Spawned(p)
    <2>1. UNCHANGED <<file, masked, svc>>
      BY <1>1, SpawnedShells DEF hostVars
    <2>2. ASSUME NEW q \in Procs, ~(pc'[q] = pc[q] /\ sh'[q] = sh[q])
          PROVE  pc[q] \notin Trapped \cup Cleanup /\ Knows(q)'
      <3>1. CASE q = Unit
        <4>1. pc[q] = "idle" /\ pc'[q] = "lock"
          BY <1>1, <3>1 DEF Spawned, TypeInv, TypeOK, ScriptTypeOK, Procs
        <4>2. sh'[q] = Shell("activate-inner")
          <5>1. Spawn(p)
            BY <1>1 DEF Spawned, Modal, AcquireLock, SelfTest, Preflight, Load, CheckAcknowledged,
               WaitReturns, Waiting
          <5> QED BY <1>1, <3>1, <5>1 DEF Spawn, Spawned, TypeInv, TypeOK, ScriptTypeOK, Procs
        <4> QED BY <4>1, <4>2
                DEF Knows, Shell, UnderMask, StoreLabels, SidecarLabels, Trapped, Cleanup
      <3>2. CASE q # Unit
        <4>1. pc[q] = "spawn" /\ pc'[q] = "wait"
          <5>1. sh'[q] = sh[q]
            <6>1. Spawn(p)
              BY <1>1 DEF Spawned, Modal, AcquireLock, SelfTest, Preflight, Load, CheckAcknowledged,
                 WaitReturns, Waiting
            <6> QED BY <1>1, <3>2, <6>1 DEF Spawn, Spawned, TypeInv, TypeOK, ScriptTypeOK, Procs
          <5> QED BY <1>1, <2>2, <3>2, <5>1 DEF Spawned, TypeInv, TypeOK, ScriptTypeOK
        <4> QED BY <4>1 DEF Knows, UnderMask, StoreLabels, SidecarLabels, Trapped, Cleanup, Untrapped
      <3> QED BY <3>1, <3>2
    <2> QED BY <2>1, <2>2, QuietCustody
  <1>2. CASE ~Spawned(p)
    <2>1. /\ UNCHANGED <<file, masked, svc>>
          /\ \A q \in Procs \ {p} : pc'[q] = pc[q] /\ sh'[q] = sh[q]
          /\ pc[p] \in Untrapped \cup Waiting
          /\ pc'[p] \in {"idle", "preflight", "selfTest", "load", "ack", "mask", "spawn"}
      BY <1>2, ModalKeeps DEF hostVars, OthersKept, Untrapped
    <2>2. pc[p] \in Waiting => pc'[p] = "idle"
      BY <1>2, Targets DEF Modal, AcquireLock, SelfTest, Preflight, Load, CheckAcknowledged, Spawn,
         WaitReturns, Waiting
    <2>3. sh'[p].fileCustody = sh[p].fileCustody /\ sh'[p].sideCustody = sh[p].sideCustody
      <3>1. UNCHANGED sh \/ Set(p, "step", sh[p].step + 1)
        BY <1>2 DEF Modal, AcquireLock, SelfTest, Preflight, Load, CheckAcknowledged, Spawn, Spawned,
           WaitReturns
      <3>2. CASE UNCHANGED sh
        BY <3>2
      <3>3. CASE Set(p, "step", sh[p].step + 1)
        BY <3>3, SetField DEF ShellFields
      <3> QED BY <3>1, <3>2, <3>3
    <2>4. Knows(p)'
      <3>1. pc[p] \in Untrapped => ~sh[p].fileCustody /\ ~sh[p].sideCustody
        BY DEF CustodyInv, Knows
      <3> QED BY <2>1, <2>2, <2>3, <3>1
              DEF Knows, UnderMask, StoreLabels, SidecarLabels, Untrapped, Trapped, Waiting
    <2> QED BY <2>1, <2>4, QuietCustody DEF Untrapped, Waiting, Trapped, Cleanup
  <1> QED BY <1>1, <1>2

\* The daemon comes and goes while nothing is held.
LEMMA DaemonCustody ==
  ASSUME StoreInv, CustodyInv, svc # "inactive", UNCHANGED <<pc, sh, masked>>,
         FileInv', \A f \in Files : ~Unsettled(f)'
  PROVE  CustodyInv'
  <1>1. ASSUME NEW q \in Procs PROVE Knows(q)'
    <2>1. Knows(q) /\ pc[q] \notin AfterStop
      BY DEF CustodyInv, StoreInv
    <2> QED BY <2>1 DEF Knows, UnderMask, StoreLabels, SidecarLabels, AfterStop, Trapped, Untrapped
  <1> QED BY <1>1 DEF CustodyInv

LEMMA CustodyNext ==
  ASSUME HandledFaults
  PROVE  TypeInv /\ LockHeld /\ StoreInv /\ MoveInv /\ CustodyInv /\ [Next]_vars => CustodyInv'
  <1> SUFFICES ASSUME TypeInv, LockHeld, StoreInv, MoveInv, CustodyInv, [Next]_vars PROVE CustodyInv'
    OBVIOUS
  <1>1. ASSUME NEW p \in Procs, Step(p) PROVE CustodyInv'
    <2>1. CASE Modal(p)
      BY <2>1, ModalCustody
    <2>2. CASE Active(p)
      <3>1. Alone(p)
        BY <2>2, ActiveKeeps
      <3> QED BY <2>2, <3>1, CustodyCustody, ActivationCustody, FailureCustody DEF Active
    <2> QED BY <1>1, <2>1, <2>2 DEF Step, Modal, Active
  <1>2. ASSUME NEW p \in Procs, Fault(p) PROVE CustodyInv'
    BY <1>2, FaultCustody
  <1>3. ASSUME NEW p \in Operators, NEW mode \in Modes, Launch(p, mode) PROVE CustodyInv'
    <2>1. /\ pc[p] = "idle" /\ pc'[p] = "lock" /\ sh'[p] = Shell(mode)
          /\ \A q \in Procs \ {p} : pc'[q] = pc[q] /\ sh'[q] = sh[q]
          /\ UNCHANGED <<file, masked, svc>>
      BY <1>3, LaunchShells DEF hostVars
    <2>2. Knows(p)'
      BY <2>1 DEF Knows, Shell, UnderMask, StoreLabels, SidecarLabels, Trapped
    <2> QED BY <2>1, <2>2, QuietCustody DEF Trapped, Cleanup
  <1>4. CASE Acknowledge \/ UNCHANGED vars
    BY <1>4, QuietCustody DEF Acknowledge, vars, scriptVars, hostVars
  <1>5. CASE DaemonCrash
    <2>1. svc # "inactive" /\ UNCHANGED <<pc, sh, masked, file>>
      BY <1>5 DEF DaemonCrash, Versions, scriptVars
    <2>2. FileInv' /\ \A f \in Files : ~Unsettled(f)'
      BY <2>1, FilesKept DEF CustodyInv
    <2> QED BY <2>1, <2>2, DaemonCustody
  <1>6. CASE SystemdRetry
    <2>1. svc # "inactive" /\ UNCHANGED <<pc, sh, masked>> /\ StartDaemon(current) /\ current \in Versions
      BY <1>6 DEF SystemdRetry, scriptVars, TypeInv, TypeOK, HostTypeOK
    <2>2. FileInv' /\ \A f \in Files : ~Unsettled(f)'
      BY <2>1, StartDaemonCustody DEF CustodyInv
    <2> QED BY <2>1, <2>2, DaemonCustody
  <1>7. ~Reboot
    BY DEF Reboot, HandledFaults
  <1> QED BY <1>1, <1>2, <1>3, <1>4, <1>5, <1>6, <1>7 DEF Next

\* While the unit can start, no file at a service path is in root's hands:
\* whatever command fails or whatever signal arrives during an activation, the
\* cleanup gives back exactly the files that were taken, or the mask stays.  A
\* shell that is killed, or a failure of the cleanup itself, leaves a file
\* behind, and a reboot then drops the mask: that is what HandledFaults excludes.
THEOREM FilesComeBackBeforeTheMaskGoes ==
  ASSUME HandledFaults PROVE Spec => []FilesSettledWhenUnmasked
  <1>1. Init => LockHeld
    BY DEF Init, LockHeld
  <1>2. TypeInv /\ LockHeld /\ StoreInv /\ MoveInv /\ CustodyInv /\ [Next]_vars => CustodyInv'
    BY CustodyNext
  <1>3. CustodyInv => FilesSettledWhenUnmasked
    BY DEF CustodyInv, FilesSettledWhenUnmasked, FilesSettled, Unsettled, Settled
  <1> QED BY InitType, NextType, LockNext, InitStore, StoreNext, InitMove, MoveNext, InitCustody,
             <1>1, <1>2, <1>3, PTL DEF Spec

\* No daemon runs while root holds the directory of the store or a file in it.
THEOREM DaemonStaysOutOfCustody ==
  ASSUME HandledFaults PROVE Spec => []CustodyExcludesDaemon
  <1>1. Init => LockHeld
    BY DEF Init, LockHeld
  <1>2. TypeInv /\ LockHeld /\ StoreInv /\ MoveInv /\ CustodyInv /\ [Next]_vars => CustodyInv'
    BY CustodyNext
  <1>3. CustodyInv /\ DirInv => CustodyExcludesDaemon
    <2>1. CustodyInv /\ ~FilesSettled => svc = "inactive"
      BY DEF CustodyInv, FilesSettled, Unsettled, Settled
    <2> QED BY <2>1 DEF DirInv, CustodyExcludesDaemon, Versions
  <1> QED BY InitType, NextType, LockNext, InitStore, StoreNext, InitMove, MoveNext, InitCustody,
             InitDir, DirNext, <1>1, <1>2, <1>3, PTL DEF Spec

\* Both: no daemon, old or new, meets a store that root has in its custody, nor can one be
\* started while a file is.
THEOREM CustodyIsKept ==
  ASSUME HandledFaults PROVE Spec => []CustodySafe
  <1>1. FilesSettledWhenUnmasked /\ CustodyExcludesDaemon => CustodySafe
    BY DEF CustodySafe
  <1> QED BY FilesComeBackBeforeTheMaskGoes, DaemonStaysOutOfCustody, <1>1, PTL
=============================================================================
