--------------------------- MODULE LojixRecovery ---------------------------
(***************************************************************************)
(* The OS-owned recovery helper for the Lojix daemon of the host Ouranos   *)
(* (agent-outputs/LojixOsOnlyActivation/ouranos-activate.sh): a root shell *)
(* script with the modes preflight, switch, activate-inner and             *)
(* self-test-file-custody.  The module models every invocation of main as  *)
(* a process, the flock that serialises them, the transient systemd unit   *)
(* that "switch" starts, and the host they change: the system profile, the *)
(* runtime mask and state of lojix-daemon.service, and owner and mode of   *)
(* the store directory and of the files that are moved out of it.          *)
(*                                                                         *)
(* A step is one command, or a run of commands that only read, because the *)
(* script's traps run between two commands.                                *)
(***************************************************************************)
EXTENDS Integers, Sequences, FiniteSets

CONSTANTS
  Operators,    \* root shells in which a person starts the script
  Unit,         \* the transient unit lojix-recovery-primary-mjl2.service
  NoProc,       \* nobody holds the lock
  Sidecars,     \* the recognised store sidecars, in the order they are moved
  Faults,       \* what may go wrong in this instance, a subset of AllFaults
  MaxLaunches,  \* bound on invocations started by a person
  MaxCrashes,   \* bound on crashes of the daemon
  MaxReboots    \* bound on power losses

\* "error": a command fails; "signal": HUP, INT or TERM arrives; both while
\* the script is not cleaning up.  "errorInCleanup", "signalInCleanup": the
\* same while it is.  "kill": SIGKILL.  "reboot": the power fails and the
\* host boots again.
AllFaults == {"error", "signal", "errorInCleanup", "signalInCleanup", "kill", "reboot"}

Procs == Operators \cup {Unit}
SidecarNames == {Sidecars[i] : i \in DOMAIN Sidecars}
Files == {"store"} \cup SidecarNames

ASSUME ProcsAssumption ==
  /\ Unit \notin Operators
  /\ NoProc \notin Procs
ASSUME SidecarsAssumption ==
  /\ Sidecars \in Seq(STRING \ {"store"})
  /\ \A i, j \in DOMAIN Sidecars : Sidecars[i] = Sidecars[j] => i = j
ASSUME FaultsAssumption == Faults \subseteq AllFaults
ASSUME BoundsAssumption ==
  /\ MaxLaunches \in Nat
  /\ MaxCrashes \in Nat
  /\ MaxReboots \in Nat

VARIABLES
  pc,         \* where each invocation is; "idle" when there is none
  sh,         \* the shell variables of each invocation
  lock,       \* whose open file description holds the flock on SWITCH_LOCK
  outcome,    \* how the last invocation of each process ended
  written,    \* the paths that exist below STATE and LOG_DIRECTORY
  reviewed,   \* the content of CURRENT_SYSTEM_RECORD
  discarded,  \* the file at STATE/discarded-lojix<suffix>, per file
  recovery,   \* the content of RECOVERY_STATE
  profile,    \* what /nix/var/nix/profiles/system points to
  current,    \* what /run/current-system points to; its units are loaded
  masked,     \* is lojix-daemon.service runtime-masked?
  svc,        \* the daemon: "inactive", "retry" (auto-restart pending), or
              \* the version that is running
  pid,        \* its MainPID, as the number of starts so far
  dir,        \* owner and mode of STORE_DIRECTORY
  file,       \* the file at each service path, or NoFile
  inodes,     \* number of inodes handed out
  launches, crashes, reboots

scriptVars == <<pc, sh, lock, outcome>>
stateVars  == <<written, reviewed, discarded, recovery>>
hostVars   == <<profile, current, masked, svc, pid, dir, file, inodes>>
boundVars  == <<launches, crashes, reboots>>
vars == <<scriptVars, stateVars, hostVars, boundVars>>

-----------------------------------------------------------------------------
(* Values.                                                                 *)

Versions == {"old", "new"}   \* the running system, and the reviewed closure

\* Mutant of Artefacts: success is recorded before the dry activation.
ArtefactsOkEarly == <<"state", "log", "runner", "graphical", "evidence", "generated",
                      "closure", "home", "current", "ok", "dryLog">>

\* The files a preflight leaves behind, in the order it writes them.
Artefacts == <<"state", "log", "runner", "graphical", "evidence", "generated",
               "closure", "home", "current", "dryLog", "ok">>

\* What load_reviewed_closure requires to exist.
Required == {"state", "log", "runner", "ok", "closure", "home", "current",
             "evidence", "generated"}

NoFile == [inode |-> 0, owner |-> "none", mode |-> 0, format |-> "none"]
Exists(f) == file[f] # NoFile
\* The identity 'li:users 644 1', which STORE_ORIGINAL_IDENTITY always holds.
Original(f) == file[f].owner = "li" /\ file[f].mode = 644
SettledDir == dir = [owner |-> "li", mode |-> 750]
DirOpen == dir.owner = "li"   \* the daemon runs as li

Modes == {"preflight", "switch", "activate-inner", "self-test"}

\* A fresh shell: no custody flag is set and no inode is recorded.
Shell(mode) ==
  [mode |-> mode, step |-> 1, side |-> 1, inode |-> 0, sideInode |-> 0,
   storeMoved |-> FALSE, dirCustody |-> FALSE, fileCustody |-> FALSE,
   sideCustody |-> FALSE, pid |-> 0, filesBack |-> TRUE, dirBack |-> TRUE,
   stopped |-> FALSE]

\* Labels after the traps of activate_inner are set, and those of
\* activation_failure, which resets every trap to its default.
Trapped == {"mask", "stop", "dirCheck", "dirChown", "dirChmod", "dirFlag",
            "storeChown", "storeChmod", "storeMove", "storeFlag", "sideCheck",
            "sideChown", "sideChmod", "sideMove", "sideFlag", "gone",
            "backChown", "backChmod", "backFlag", "profile", "unmask",
            "switch", "start", "accept", "dwell", "restart", "accept2"}
Cleanup == {"clStop", "clStore", "clSide", "clDir", "clRecord", "clMask"}
Untrapped == {"lock", "preflight", "selfTest", "load", "ack", "spawn"}
Waiting == {"wait", "orphan"}
Labels == {"idle"} \cup Trapped \cup Cleanup \cup Untrapped \cup Waiting

-----------------------------------------------------------------------------
(* Control flow of one invocation.                                         *)

Goto(p, label) ==
  /\ pc' = [pc EXCEPT ![p] = label]
  /\ UNCHANGED <<lock, outcome>>

\* The process ends; the kernel drops the flock with its file description.
Exit(p, how) ==
  /\ pc' = [pc EXCEPT ![p] = "idle"]
  /\ outcome' = [outcome EXCEPT ![p] = how]
  /\ lock' = IF lock = p THEN NoProc ELSE lock

\* fail, or a command that fails under "set -e": before the traps are set
\* the shell just exits, afterwards the EXIT or ERR trap starts the cleanup.
Die(p) == IF pc[p] \in Trapped THEN Goto(p, "clStop") ELSE Exit(p, "failed")

\* The step at "label" of p, when its checks hold, and otherwise fail.
Check(p, ok, label) == IF ok THEN Goto(p, label) ELSE Die(p)

Set(p, field, value) == sh' = [sh EXCEPT ![p][field] = value]

-----------------------------------------------------------------------------
(* main, the lock and the modes that do not activate.                      *)

Launch(p, mode) ==
  /\ pc[p] = "idle" /\ launches < MaxLaunches
  /\ launches' = launches + 1
  /\ Goto(p, "lock")
  /\ sh' = [sh EXCEPT ![p] = Shell(mode)]
  /\ UNCHANGED <<stateVars, hostVars, crashes, reboots>>

\* main's case on the mode.
LockLabel(mode) == CASE mode = "preflight" -> "preflight"
                     [] mode = "self-test" -> "selfTest"
                     [] OTHER -> "load"

\* Mutants of AcquireLock: the descriptor is opened but never locked, and
\* flock without -n, which waits.
AcquireNoLock(p) ==
  /\ pc[p] = "lock"
  /\ pc' = [pc EXCEPT ![p] = LockLabel(sh[p].mode)]
  /\ lock' = p
  /\ UNCHANGED <<outcome, sh, stateVars, hostVars, boundVars>>
AcquireBlocking(p) == lock = NoProc /\ AcquireNoLock(p)

\* exec 9>SWITCH_LOCK; flock -n 9 || fail.
AcquireLock(p) ==
  /\ pc[p] = "lock"
  /\ IF lock # NoProc
     THEN Exit(p, "refused")
     ELSE /\ lock' = p
          /\ pc' = [pc EXCEPT ![p] = LockLabel(sh[p].mode)]
          /\ UNCHANGED outcome
  /\ UNCHANGED <<sh, stateVars, hostVars, boundVars>>

\* The fixture of self_test_file_custody lies outside the store directory.
SelfTest(p) ==
  /\ pc[p] = "selfTest"
  /\ Exit(p, "success")
  /\ UNCHANGED <<sh, stateVars, hostVars, boundVars>>

\* The next artefact of preflight.  prepare_directories refuses a STATE or
\* LOG_DIRECTORY that an earlier preflight, finished or not, left behind.
Preflight(p) ==
  LET i == sh[p].step IN
  /\ pc[p] = "preflight"
  /\ IF i = 1 /\ {"state", "log"} \cap written # {}
     THEN Die(p) /\ UNCHANGED <<sh, written, reviewed>>
     ELSE /\ written' = written \cup {Artefacts[i]}
          /\ reviewed' = IF Artefacts[i] = "current" THEN current ELSE reviewed
          /\ Set(p, "step", i + 1)
          /\ IF i = Len(Artefacts) THEN Exit(p, "success") ELSE Goto(p, "preflight")
  /\ UNCHANGED <<discarded, recovery, hostVars, boundVars>>

\* A person reads the logs of a successful preflight and installs the
\* acknowledgement DRY_ACTIVATE_REVIEWED.
Acknowledge ==
  /\ "ok" \in written
  /\ written' = written \cup {"ack"}
  /\ UNCHANGED <<reviewed, discarded, recovery, scriptVars, hostVars, boundVars>>

\* load_reviewed_closure, for switch and for activate_inner; the latter then
\* sets its traps, so that from "mask" on a failure is cleaned up.
Load(p) ==
  /\ pc[p] = "load"
  /\ Check(p, Required \subseteq written /\ current = reviewed,
           IF sh[p].mode = "switch" THEN "ack" ELSE "mask")
  /\ UNCHANGED <<sh, stateVars, hostVars, boundVars>>

CheckAcknowledged(p) ==
  /\ pc[p] = "ack"
  /\ Check(p, "ack" \in written, "spawn")
  /\ UNCHANGED <<sh, stateVars, hostVars, boundVars>>

\* systemd-run --wait: the unit runs main again, in mode activate-inner, as
\* a child of systemd, so it does not inherit descriptor 9.
Spawn(p) ==
  /\ pc[p] = "spawn"
  /\ IF pc[Unit] # "idle"
     THEN Die(p) /\ UNCHANGED sh
     ELSE /\ pc' = [pc EXCEPT ![p] = "wait", ![Unit] = "lock"]
          /\ sh' = [sh EXCEPT ![Unit] = Shell("activate-inner")]
          /\ UNCHANGED <<lock, outcome>>
  /\ UNCHANGED <<stateVars, hostVars, boundVars>>

\* systemd-run returns when the unit has ended.
WaitReturns(p) ==
  /\ pc[p] \in Waiting /\ pc[Unit] = "idle"
  /\ Exit(p, IF pc[p] = "orphan" THEN "killed"
             ELSE IF outcome[Unit] = "success" THEN "success" ELSE "failed")
  /\ UNCHANGED <<sh, stateVars, hostVars, boundVars>>

-----------------------------------------------------------------------------
(* activate_inner: stop the daemon and take custody of the store.          *)

\* Mutant of MaskService: the profile is set before the store is moved.
MaskAfterProfile(p) ==
  /\ pc[p] = "mask"
  /\ masked' = TRUE /\ profile' = "new"
  /\ Goto(p, "stop")
  /\ UNCHANGED <<sh, stateVars, current, svc, pid, dir, file, inodes, boundVars>>

\* assert_graphical_preserved, then systemctl mask --runtime.
MaskService(p) ==
  /\ pc[p] = "mask"
  /\ masked' = TRUE
  /\ Goto(p, "stop")
  /\ UNCHANGED <<sh, stateVars, profile, current, svc, pid, dir, file, inodes, boundVars>>

\* Mutant of StopService: nobody looks whether the daemon has stopped.
StopUnchecked(p) ==
  /\ pc[p] = "stop"
  /\ svc' \in {svc, "inactive"}
  /\ Goto(p, "dirCheck")
  /\ UNCHANGED <<sh, stateVars, profile, current, masked, pid, dir, file, inodes, boundVars>>

\* systemctl stop, and the assertions that the unit is inactive and masked.
StopService(p) ==
  /\ pc[p] = "stop"
  /\ svc' = "inactive"
  /\ Check(p, masked, "dirCheck")
  /\ UNCHANGED <<sh, stateVars, profile, current, masked, pid, dir, file, inodes, boundVars>>

\* The identity checks that open secure_store_directory_for_move; they record
\* the inode whose custody a failure may have to give back.
CheckDirectory(p) ==
  /\ pc[p] = "dirCheck"
  /\ Check(p, SettledDir /\ Exists("store") /\ Original("store"), "dirChown")
  /\ IF pc'[p] = "dirChown" THEN Set(p, "inode", file["store"].inode) ELSE UNCHANGED sh
  /\ UNCHANGED <<stateVars, hostVars, boundVars>>

\* A chown or chmod of the store directory at "from", when "from" is reached.
SetDirectory(p, from, to, field, value) ==
  /\ pc[p] = from
  /\ dir' = [dir EXCEPT ![field] = value]
  /\ Goto(p, to)
  /\ UNCHANGED <<sh, stateVars, profile, current, masked, svc, pid, file, inodes, boundVars>>

ChownDirectory(p) == SetDirectory(p, "dirChown", "dirChmod", "owner", "root")
ChmodDirectory(p) == SetDirectory(p, "dirChmod", "dirFlag", "mode", 700)

\* Mutant of FlagDirectory: custody of the file is not noted in advance.
FlagDirectoryOnly(p) ==
  /\ pc[p] = "dirFlag"
  /\ Set(p, "dirCustody", TRUE)
  /\ Check(p, Exists("store") /\ Original("store"), "storeChown")
  /\ UNCHANGED <<stateVars, hostVars, boundVars>>

\* Only after both commands does the shell note that it holds the directory;
\* it then rechecks the file and notes that it is about to hold that, too.
FlagDirectory(p) ==
  /\ pc[p] = "dirFlag"
  /\ sh' = [sh EXCEPT ![p].dirCustody = TRUE, ![p].fileCustody = Original("store")]
  /\ Check(p, Exists("store") /\ Original("store"), "storeChown")
  /\ UNCHANGED <<stateVars, hostVars, boundVars>>

\* A chown or chmod of the file at the service path of f.
SetFile(p, f, from, to, field, value) ==
  /\ pc[p] = from
  /\ file' = [file EXCEPT ![f][field] = value]
  /\ Goto(p, to)
  /\ UNCHANGED <<sh, stateVars, profile, current, masked, svc, pid, dir, inodes, boundVars>>

\* mv -- path target.
MoveFile(p, f, from, to) ==
  /\ pc[p] = from
  /\ discarded' = [discarded EXCEPT ![f] = file[f]]
  /\ file' = [file EXCEPT ![f] = NoFile]
  /\ Goto(p, to)
  /\ UNCHANGED <<sh, written, reviewed, recovery, profile, current, masked, svc,
                 pid, dir, inodes, boundVars>>

\* Mutant of ChmodStore: the move is noted before it is made.
ChmodStoreNotedMoved(p) ==
  /\ pc[p] = "storeChmod"
  /\ file' = [file EXCEPT !["store"].mode = 600]
  /\ Set(p, "storeMoved", TRUE)
  /\ Goto(p, "storeMove")
  /\ UNCHANGED <<stateVars, profile, current, masked, svc, pid, dir, inodes, boundVars>>

ChownStore(p) == SetFile(p, "store", "storeChown", "storeChmod", "owner", "root")
ChmodStore(p) == SetFile(p, "store", "storeChmod", "storeMove", "mode", 600)

\* Mutant of MoveStore: the target is not checked.
MoveStoreOver(p) == MoveFile(p, "store", "storeMove", "storeFlag")

\* [ ! -e target ] || fail, then the move.
MoveStore(p) ==
  IF discarded["store"] = NoFile
  THEN MoveFile(p, "store", "storeMove", "storeFlag")
  ELSE pc[p] = "storeMove" /\ Die(p) /\ UNCHANGED <<sh, stateVars, hostVars, boundVars>>

FlagStore(p) ==
  /\ pc[p] = "storeFlag"
  /\ sh' = [sh EXCEPT ![p].storeMoved = TRUE, ![p].fileCustody = FALSE]
  /\ Goto(p, "sideCheck")
  /\ UNCHANGED <<stateVars, hostVars, boundVars>>

\* move_recognised_sidecar_if_present, for the next sidecar: absent ones are
\* skipped, and custody is noted before it is taken.
CheckSidecar(p) ==
  /\ pc[p] = "sideCheck"
  /\ IF sh[p].side > Len(Sidecars)
     THEN Goto(p, "gone") /\ UNCHANGED sh
     ELSE LET f == Sidecars[sh[p].side]
              ok == Original(f) /\ discarded[f] = NoFile
          IN IF ~Exists(f)
             THEN Set(p, "side", sh[p].side + 1) /\ Goto(p, "sideCheck")
             ELSE /\ Check(p, ok, "sideChown")
                  /\ sh' = [sh EXCEPT ![p].sideInode = IF Original(f) THEN file[f].inode ELSE @,
                                      ![p].sideCustody = ok]
  /\ UNCHANGED <<stateVars, hostVars, boundVars>>

Sidecar(p) == Sidecars[sh[p].side]
AtSidecar(p) == sh[p].side \in DOMAIN Sidecars
ChownSidecar(p) == AtSidecar(p) /\ SetFile(p, Sidecar(p), "sideChown", "sideChmod", "owner", "root")
ChmodSidecar(p) == AtSidecar(p) /\ SetFile(p, Sidecar(p), "sideChmod", "sideMove", "mode", 600)
MoveSidecar(p) == AtSidecar(p) /\ MoveFile(p, Sidecar(p), "sideMove", "sideFlag")

FlagSidecar(p) ==
  /\ pc[p] = "sideFlag"
  /\ sh' = [sh EXCEPT ![p].sideCustody = FALSE, ![p].side = @ + 1]
  /\ Goto(p, "sideCheck")
  /\ UNCHANGED <<stateVars, hostVars, boundVars>>

\* [ ! -e STORE ], the last check before the directory is handed back.
CheckGone(p) ==
  /\ pc[p] = "gone"
  /\ Check(p, ~Exists("store"), "backChown")
  /\ UNCHANGED <<sh, stateVars, hostVars, boundVars>>

\* Mutant of ReturnDirectoryMode: the mode of the custody is kept.
ReturnOwnerOnly(p) == SetDirectory(p, "backChmod", "backFlag", "mode", 700)

\* restore_store_directory_owner.
ReturnDirectoryOwner(p) == SetDirectory(p, "backChown", "backChmod", "owner", "li")
ReturnDirectoryMode(p) == SetDirectory(p, "backChmod", "backFlag", "mode", 750)
FlagDirectoryReturned(p) ==
  /\ pc[p] = "backFlag"
  /\ Set(p, "dirCustody", FALSE)
  /\ Goto(p, "profile")
  /\ UNCHANGED <<stateVars, hostVars, boundVars>>

-----------------------------------------------------------------------------
(* activate_inner: switch to the reviewed closure and accept the daemon.   *)

\* The daemon of version v starts.  It runs as li, so it needs the directory;
\* without a store it creates one of its own format.
StartDaemon(v) ==
  IF ~DirOpen
  THEN svc' = "retry" /\ UNCHANGED <<pid, file, inodes>>
  ELSE /\ svc' = v
       /\ pid' = pid + 1
       /\ IF Exists("store")
          THEN UNCHANGED <<file, inodes>>
          ELSE /\ inodes' = inodes + 1
               /\ file' = [file EXCEPT !["store"] =
                     [inode |-> inodes', owner |-> "li",
                      mode |-> IF v = "new" THEN 600 ELSE 644, format |-> v]]

\* nix-env --set, and the check of what the profile then names.
SetProfile(p) ==
  /\ pc[p] = "profile"
  /\ profile' = "new"
  /\ Goto(p, "unmask")
  /\ UNCHANGED <<sh, stateVars, current, masked, svc, pid, dir, file, inodes, boundVars>>

UnmaskService(p) ==
  /\ pc[p] = "unmask"
  /\ masked' = FALSE
  /\ Goto(p, "switch")
  /\ UNCHANGED <<sh, stateVars, profile, current, svc, pid, dir, file, inodes, boundVars>>

\* switch-to-configuration switch: loads the new units, starts the daemon,
\* and may fail at any point of that.
SwitchConfiguration(p) ==
  /\ pc[p] = "switch"
  /\ current' = "new"
  /\ StartDaemon("new") \/ UNCHANGED <<svc, pid, file, inodes>>
  /\ Goto(p, "start") \/ ("error" \in Faults /\ Die(p))
  /\ UNCHANGED <<sh, stateVars, profile, masked, dir, boundVars>>

\* systemctl start does nothing for a daemon that already runs.
StartService(p) ==
  /\ pc[p] = "start"
  /\ IF svc \in Versions THEN UNCHANGED <<svc, pid, file, inodes>> ELSE StartDaemon(current)
  /\ Goto(p, "accept")
  /\ UNCHANGED <<sh, stateVars, profile, current, masked, dir, boundVars>>

\* assert_live_service: the new daemon runs, on a store of its own.
LiveService == svc = "new" /\ file["store"].owner = "li" /\ file["store"].mode = 600

\* The acceptance checks; they end with reading MainPID and NRestarts.
Accept(p) ==
  /\ pc[p] = "accept"
  /\ Check(p, LiveService, "dwell")
  /\ Set(p, "pid", pid)
  /\ UNCHANGED <<stateVars, hostVars, boundVars>>

\* The checks after ten minutes of sleep: the same process still runs.
Dwell(p) ==
  /\ pc[p] = "dwell"
  /\ Check(p, LiveService /\ pid = sh[p].pid, "restart")
  /\ UNCHANGED <<sh, stateVars, hostVars, boundVars>>

RestartService(p) ==
  /\ pc[p] = "restart"
  /\ StartDaemon(current)
  /\ Goto(p, "accept2")
  /\ UNCHANGED <<sh, stateVars, profile, current, masked, dir, boundVars>>

\* The last checks, the removal of the traps, and ACTIVATION_SUCCESS.
AcceptRestart(p) ==
  /\ pc[p] = "accept2"
  /\ IF LiveService THEN Exit(p, "success") ELSE Die(p)
  /\ UNCHANGED <<sh, stateVars, hostVars, boundVars>>

-----------------------------------------------------------------------------
(* activation_failure: the cleanup.  "set +e" lets every step go on after  *)
(* a failed command, whose effect may then be missing or partial.          *)

Erring == "errorInCleanup" \in Faults

StopForCleanup(p) ==
  /\ pc[p] = "clStop"
  /\ svc' \in {"inactive"} \cup (IF Erring THEN {svc} ELSE {})
  /\ \E shown \in {TRUE} \cup (IF Erring THEN {FALSE} ELSE {}) :
        Set(p, "stopped", shown /\ svc' = "inactive")
  /\ Goto(p, "clStore")
  /\ UNCHANGED <<stateVars, profile, current, masked, pid, dir, file, inodes, boundVars>>

\* restore_exact_file_custody_for_cleanup: only the recorded inode is given
\* back; chown and chmod may each fail, and the final stat decides.
RestoreFile(p, f, inode, flag) ==
  IF inode = 0 \/ file[f].inode # inode
  THEN /\ Set(p, "filesBack", FALSE)
       /\ UNCHANGED file
  ELSE \E owner \in {"li"} \cup (IF Erring THEN {file[f].owner} ELSE {}),
          mode \in {644} \cup (IF Erring THEN {file[f].mode} ELSE {}) :
       /\ file' = [file EXCEPT ![f].owner = owner, ![f].mode = mode]
       /\ IF owner = "li" /\ mode = 644
          THEN Set(p, flag, FALSE)
          ELSE Set(p, "filesBack", FALSE)

RestoreStore(p) ==
  /\ pc[p] = "clStore"
  /\ IF sh[p].fileCustody
     THEN RestoreFile(p, "store", sh[p].inode, "fileCustody")
     ELSE UNCHANGED <<sh, file>>
  /\ Goto(p, "clSide")
  /\ UNCHANGED <<stateVars, profile, current, masked, svc, pid, dir, inodes, boundVars>>

RestoreSidecar(p) ==
  /\ pc[p] = "clSide"
  /\ IF sh[p].sideCustody /\ AtSidecar(p)
     THEN RestoreFile(p, Sidecar(p), sh[p].sideInode, "sideCustody")
     ELSE UNCHANGED <<sh, file>>
  /\ Goto(p, "clDir")
  /\ UNCHANGED <<stateVars, profile, current, masked, svc, pid, dir, inodes, boundVars>>

\* restore_store_directory_owner_for_cleanup, when the flag is set.
RestoreDirectory(p) ==
  /\ pc[p] = "clDir"
  /\ IF ~sh[p].dirCustody THEN UNCHANGED <<sh, dir>>
     ELSE \E owner \in {"li"} \cup (IF Erring THEN {dir.owner} ELSE {}),
             mode \in {750} \cup (IF Erring THEN {dir.mode} ELSE {}) :
          /\ dir' = [owner |-> owner, mode |-> mode]
          /\ IF SettledDir' THEN Set(p, "dirCustody", FALSE) ELSE Set(p, "dirBack", FALSE)
  /\ Goto(p, "clRecord")
  /\ UNCHANGED <<stateVars, profile, current, masked, svc, pid, file, inodes, boundVars>>

\* write_recovery_state; when it fails, the fallback line is written instead,
\* and a failure of that is ignored.
WriteRecoveryState(p) ==
  /\ pc[p] = "clRecord"
  /\ \/ /\ recovery' = [exists |-> TRUE, discarded |-> sh[p].storeMoved]
        /\ written' = written \cup {"recovery"}
     \/ /\ Erring
        /\ written' \in {written, written \cup {"fallback"}}
        /\ UNCHANGED recovery
  /\ Goto(p, "clMask")
  /\ UNCHANGED <<sh, reviewed, discarded, hostVars, boundVars>>

\* Unmask only after a full restoration, mask otherwise, and exit.
SettleMask(p) ==
  LET want == ~(sh[p].filesBack /\ sh[p].dirBack /\ sh[p].stopped) IN
  /\ pc[p] = "clMask"
  /\ masked' \in {want} \cup (IF Erring THEN {masked} ELSE {})
  /\ Exit(p, "failed")
  /\ UNCHANGED <<sh, stateVars, profile, current, svc, pid, dir, file, inodes, boundVars>>

-----------------------------------------------------------------------------
(* What goes wrong.                                                        *)

\* A command fails with no effect.
Fail(p) ==
  /\ "error" \in Faults
  /\ pc[p] \in Trapped \cup Untrapped
  /\ Die(p)
  /\ UNCHANGED <<sh, stateVars, hostVars, boundVars>>

\* HUP, INT or TERM.  The handler runs activation_failure while the traps are
\* set; otherwise, and so during the cleanup, the signal ends the shell.
Signal(p) ==
  /\ pc[p] # "idle"
  /\ IF pc[p] \in Cleanup THEN "signalInCleanup" \in Faults ELSE "signal" \in Faults
  /\ IF pc[p] \in Trapped THEN Goto(p, "clStop") ELSE Exit(p, "killed")
  /\ UNCHANGED <<sh, stateVars, hostVars, boundVars>>

\* SIGKILL, and a hangup that also ends systemd-run.
Kill(p) ==
  /\ "kill" \in Faults
  /\ pc[p] # "idle"
  /\ Exit(p, "killed")
  /\ UNCHANGED <<sh, stateVars, hostVars, boundVars>>

\* The shell of a switch dies alone: systemd-run lives on with descriptor 9.
KillShell(p) ==
  /\ "kill" \in Faults
  /\ pc[p] = "wait"
  /\ Goto(p, "orphan")
  /\ UNCHANGED <<sh, stateVars, hostVars, boundVars>>

DaemonCrash ==
  /\ svc \in Versions /\ crashes < MaxCrashes
  /\ crashes' = crashes + 1
  /\ svc' = "retry"
  /\ UNCHANGED <<scriptVars, stateVars, profile, current, masked, pid, dir, file,
                 inodes, launches, reboots>>

\* systemd restarts a crashed daemon, unless its unit is masked.
SystemdRetry ==
  /\ svc = "retry" /\ ~masked /\ DirOpen
  /\ StartDaemon(current)
  /\ UNCHANGED <<scriptVars, stateVars, profile, current, masked, dir, boundVars>>

\* Runtime masks and the lock live in /run; the profile decides what boots.
Reboot ==
  /\ "reboot" \in Faults /\ reboots < MaxReboots
  /\ reboots' = reboots + 1
  /\ pc' = [p \in Procs |-> "idle"]
  /\ outcome' = [p \in Procs |-> IF pc[p] = "idle" THEN outcome[p] ELSE "killed"]
  /\ lock' = NoProc
  /\ masked' = FALSE
  /\ current' = profile
  /\ StartDaemon(profile)
  /\ UNCHANGED <<sh, stateVars, profile, dir, launches, crashes>>

-----------------------------------------------------------------------------
\* The old store and the sidecars it has at the start, each with its own inode.
StoreFiles(present) ==
  [f \in Files |->
     IF f \in {"store"} \cup present
     THEN [inode |-> IF f = "store" THEN 1
                     ELSE 1 + CHOOSE i \in DOMAIN Sidecars : Sidecars[i] = f,
           owner |-> "li", mode |-> 644, format |-> "old"]
     ELSE NoFile]

Init ==
  /\ pc = [p \in Procs |-> "idle"]
  /\ sh = [p \in Procs |-> Shell("preflight")]
  /\ lock = NoProc
  /\ outcome = [p \in Procs |-> "none"]
  /\ written = {}
  /\ reviewed = "none"
  /\ discarded = [f \in Files |-> NoFile]
  /\ recovery = [exists |-> FALSE, discarded |-> FALSE]
  /\ profile = "old" /\ current = "old"
  /\ masked = FALSE
  /\ svc \in {"inactive", "retry", "old"}
  /\ pid = 0
  /\ dir = [owner |-> "li", mode |-> 750]
  /\ \E present \in SUBSET SidecarNames : file = StoreFiles(present)
  /\ inodes = 1 + Len(Sidecars)
  /\ launches = 0 /\ crashes = 0 /\ reboots = 0

Custody(p) ==
  \/ MaskService(p) \/ StopService(p) \/ CheckDirectory(p)
  \/ ChownDirectory(p) \/ ChmodDirectory(p) \/ FlagDirectory(p)
  \/ ChownStore(p) \/ ChmodStore(p) \/ MoveStore(p) \/ FlagStore(p)
  \/ CheckSidecar(p) \/ ChownSidecar(p) \/ ChmodSidecar(p) \/ MoveSidecar(p)
  \/ FlagSidecar(p) \/ CheckGone(p)
  \/ ReturnDirectoryOwner(p) \/ ReturnDirectoryMode(p) \/ FlagDirectoryReturned(p)

Activation(p) ==
  \/ SetProfile(p) \/ UnmaskService(p) \/ SwitchConfiguration(p)
  \/ StartService(p) \/ Accept(p) \/ Dwell(p) \/ RestartService(p) \/ AcceptRestart(p)

Failure(p) ==
  \/ StopForCleanup(p) \/ RestoreStore(p) \/ RestoreSidecar(p)
  \/ RestoreDirectory(p) \/ WriteRecoveryState(p) \/ SettleMask(p)

\* A step the script itself takes.
Step(p) ==
  \/ AcquireLock(p) \/ SelfTest(p) \/ Preflight(p) \/ Load(p)
  \/ CheckAcknowledged(p) \/ Spawn(p) \/ WaitReturns(p)
  \/ Custody(p) \/ Activation(p) \/ Failure(p)

Fault(p) == Fail(p) \/ Signal(p) \/ Kill(p) \/ KillShell(p)

Next ==
  \/ \E p \in Procs : Step(p) \/ Fault(p)
  \/ \E p \in Operators, mode \in Modes : Launch(p, mode)
  \/ Acknowledge
  \/ DaemonCrash \/ SystemdRetry \/ Reboot

Spec == Init /\ [][Next]_vars

\* A live shell runs its next command, and every command returns.
FairSpec == Spec /\ \A p \in Procs : WF_vars(Step(p))

-----------------------------------------------------------------------------
(* Properties.                                                             *)

FileRecord == [inode : Nat, owner : {"none", "li", "root"}, mode : {0, 644, 600},
               format : {"none"} \cup Versions]

ShellRecord ==
  [mode : Modes, step : 1..(Len(Artefacts) + 1), side : 1..(Len(Sidecars) + 1),
   inode : Nat, sideInode : Nat, storeMoved : BOOLEAN, dirCustody : BOOLEAN,
   fileCustody : BOOLEAN, sideCustody : BOOLEAN, pid : Nat,
   filesBack : BOOLEAN, dirBack : BOOLEAN, stopped : BOOLEAN]

\* The four groups of variables have their types.
ScriptTypeOK ==
  /\ pc \in [Procs -> Labels]
  /\ sh \in [Procs -> ShellRecord]
  /\ lock \in Procs \cup {NoProc}
  /\ outcome \in [Procs -> {"none", "refused", "failed", "killed", "success"}]

StateTypeOK ==
  /\ written \subseteq {Artefacts[i] : i \in DOMAIN Artefacts} \cup {"ack", "recovery", "fallback"}
  /\ reviewed \in {"none"} \cup Versions
  /\ discarded \in [Files -> FileRecord]
  /\ recovery \in [exists : BOOLEAN, discarded : BOOLEAN]

HostTypeOK ==
  /\ profile \in Versions /\ current \in Versions
  /\ masked \in BOOLEAN
  /\ svc \in {"inactive", "retry"} \cup Versions
  /\ pid \in Nat /\ inodes \in Nat
  /\ dir \in [owner : {"li", "root"}, mode : {750, 700}]
  /\ file \in [Files -> FileRecord]

BoundTypeOK == launches \in Nat /\ crashes \in Nat /\ reboots \in Nat

\* Every variable keeps its type, the cursors of the shells over artefacts and
\* sidecars included: no command is run on a path beyond the last.
TypeOK == ScriptTypeOK /\ StateTypeOK /\ HostTypeOK /\ BoundTypeOK

\* Invocations that have read the reviewed closure and may now change the host.
Committed == {p \in Procs : pc[p] \in Trapped \cup Cleanup}

FilesSettled ==
  \A f \in Files : Exists(f) =>
    file[f].owner = "li" /\ file[f].mode = IF file[f].format = "old" THEN 644 ELSE 600

\* "Failed custody restoration is a hard stop: preserve the mask so neither
\* old nor new daemon can observe an ambiguous store directory" (line 386):
\* while the unit can start, no file at a service path is in root's custody.
FilesSettledWhenUnmasked == ~masked => FilesSettled

\* The switch to the closure selects a daemon for a fresh store only: once the
\* profile names the new system, whatever crashed or was run again in between,
\* no store of the old format lies where the new daemon would open it.
NewProfileNoOldStore == profile = "new" => file["store"].format # "old"

\* No daemon runs while root holds the store directory or a file in it (the
\* service is stopped first, and stays stopped until the directory is back).
CustodyExcludesDaemon == ~(FilesSettled /\ DirOpen) => svc \notin Versions

\* What root takes into its custody is out of every daemon's reach until it is given back.
CustodySafe == FilesSettledWhenUnmasked /\ CustodyExcludesDaemon

\* What was moved to STATE is kept: no later run, of whatever history,
\* overwrites a discarded store or sidecar with another file.
DiscardedNeverOverwritten ==
  [][\A f \in Files : discarded[f] # NoFile => discarded'[f] = discarded[f]]_vars

\* An invocation that may change the host does so after a preflight that ran
\* to its end, dry activation and graphical record included, although
\* load_reviewed_closure looks at neither of these two.
ActivationFollowsPreflight ==
  Committed # {} => {Artefacts[i] : i \in DOMAIN Artefacts} \subseteq written

\* The evidence of a failed run does not claim a move that did not happen.
RecoveryStateNeverOverclaims ==
  recovery.exists /\ recovery.discarded => discarded["store"] # NoFile

\* At most one invocation at a time is between its lock and its end, the
\* clients of a waiting switch excepted.
OneRunAtATime ==
  \A p, q \in Procs : pc[p] \notin {"idle", "lock"} /\ pc[q] \notin {"idle", "lock"} => p = q

\* Success is reported for a fully switched host only: the old store kept in
\* STATE, the directory back, profile and system new, the unit unmasked.
SuccessMeansSwitched ==
  \A p \in Procs : outcome[p] = "success" /\ sh[p].mode = "activate-inner" /\ pc[p] = "idle" =>
     profile = "new" /\ current = "new" /\ ~masked /\ SettledDir
     /\ discarded["store"].format = "old"

\* What a run says is so, whether it fails or succeeds: nobody is led to believe
\* that the old store was put away, or the host switched, when it was not.
ReportsTrue == RecoveryStateNeverOverclaims /\ SuccessMeansSwitched

\* 'another Lojix recovery preflight or switch is already running' (line 547)
\* is said only if a run other than the one that spawned the refused process
\* is alive.
Spawner(p) == {q \in Operators : p = Unit /\ pc[q] \in Waiting}
RefusalNamesAnotherRun ==
  [][\A p \in Procs : pc[p] = "lock" /\ pc'[p] = "idle" /\ outcome'[p] = "refused" =>
        \E q \in Procs \ ({p} \cup Spawner(p)) : pc[q] # "idle"]_vars

\* Every invocation ends: none waits for ever for the lock, for the transient
\* unit or in its cleanup, whatever command fails on the way.
EveryRunEnds == \A p \in Procs : pc[p] # "idle" ~> pc[p] = "idle"
=============================================================================
