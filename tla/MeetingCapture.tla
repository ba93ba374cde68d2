--------------------------- MODULE MeetingCapture ---------------------------
(***************************************************************************)
(* The capture of a meeting's audio by the MediaManager of index.js (class *)
(* Vm): of the microphone and of what the system plays.                    *)
(*                                                                         *)
(* Both are started and stopped by functions of the same shape that wait   *)
(* for each other by two promises, StartingPromise and StoppingPromise.    *)
(* They are called by the main process, by the restart of a capture whose  *)
(* source failed or changed, and by the coordinated recovery, which has    *)
(* the audio service killed and starts both captures again.                *)
(*                                                                         *)
(* The code runs on one thread: continuations whose await is settled run   *)
(* before the next message, timer or answer is handled (Quiescent).        *)
(***************************************************************************)
EXTENDS Integers, FiniteSets

CONSTANTS
  Sessions,     \* the meetings that are recorded
  None,         \* null
  MaxAttempts,  \* maxAttempts of the system's restarts, and of the microphone's loop
  MaxDead,      \* maxAttemptsDeadFromStart
  Meetings      \* bound: the sessions there are, with and without the recovery enabled

ASSUME SessionsAssumption == IsFiniteSet(Sessions) /\ None \notin Sessions
ASSUME AttemptsAssumption == MaxAttempts \in Nat \ {0} /\ MaxDead \in 1 .. MaxAttempts
ASSUME MeetingsAssumption == Meetings \in [BOOLEAN -> SUBSET Sessions]

Captures == {"mic", "system"}

\* Who calls the start and the stop of a capture: the main process with its two
\* messages, a restart of that capture, and the coordinated recovery.
Callers == {"start", "stop", "restart", "recovery"}

ASSUME NoneAssumption == None \notin Callers

VARIABLES
  enabled,    \* isCaptureRecoveryEnabled: may the audio service be killed?
  wanted,     \* the session that the main process wants each capture to be for
  fresh,      \* the sessions it has not started yet
  told,       \* history: the captures whose last start ended in a CaptureError
  at,         \* where each caller of each capture is
  of,         \* the session that it is about
  awaited,    \* whose start a stop awaits
  session,    \* meetingMicSessionId and meetingSystemSessionId
  playing,    \* do the tracks of the stream in the variable run?
  open,       \* how many streams have running tracks
  starting,   \* whose start StartingPromise is
  stopping,   \* whose stop StoppingPromise is
  owned,      \* meetingMicRestartOwnedSession
  loop,       \* attempt of the microphone's restart
  attempt,    \* attemptsConsumed of the system's restarts
  pending,    \* systemRestartCoordinator.pending: is a restart deferred?
  heard,      \* everCrossedThreshold: has the system's capture delivered audio?
  last,       \* lastStartedSystemSessionId
  rescued,    \* the session of the coordinated recovery that runs
  phase,      \* what it is at: waiting for the kill, or one of the captures
  active,     \* coordinatedRecoveryInFlight: it has not been abandoned
  retried,    \* systemRetriesUsed
  killed,     \* killsConsumed
  dictating,  \* isRecording
  contested   \* history: captures that callers who do not know of each other were after,
              \* or that a recovery was abandoned at

main == <<enabled, wanted, fresh>>
calls == <<at, of, awaited>>
capture == <<session, playing, open>>
system == <<attempt, pending, heard, last>>
recovery == <<rescued, phase, active, retried>>
vars == <<main, told, calls, capture, starting, stopping, owned, loop, system, recovery, killed,
          dictating, contested>>

Init ==
  /\ enabled \in BOOLEAN /\ fresh = [c \in Captures |-> Meetings[enabled]]
  /\ wanted = [c \in Captures |-> None] /\ told = {}
  /\ at = [c \in Captures |-> [p \in Callers |-> "idle"]]
  /\ of = [c \in Captures |-> [p \in Callers |-> None]]
  /\ awaited = [c \in Captures |-> [p \in Callers |-> None]]
  /\ session = [c \in Captures |-> None]
  /\ playing = [c \in Captures |-> FALSE] /\ open = [c \in Captures |-> 0]
  /\ starting = [c \in Captures |-> None] /\ stopping = [c \in Captures |-> None]
  /\ owned = None /\ loop = 0
  /\ attempt = 0 /\ pending = FALSE /\ heard = FALSE /\ last = None
  /\ rescued = None /\ phase = "none" /\ active = FALSE /\ retried = FALSE /\ killed = FALSE
  /\ dictating = FALSE /\ contested = {}

Goto(c, p, stage, e) == at' = [at EXCEPT ![c][p] = stage] /\ of' = [of EXCEPT ![c][p] = e]

\* A call of p returns: the main process is done, the others go on.
Returns(c, p, stage, e) ==
  IF p \in {"start", "stop"} THEN Goto(c, p, "idle", None) ELSE Goto(c, p, stage, e)

StartRuns(c, p) == at[c][p] \in {"awaitStop", "awaitDictation", "opening"}

\* Has the await of p settled?
Continues(c, p) ==
  \/ at[c][p] \in {"awaitStop", "joined"} /\ stopping[c] = None
  \/ at[c][p] = "awaitStart" /\ ~StartRuns(c, awaited[c][p])
  \/ at[c][p] \in {"started", "stopped"}

\* The recovery is about to stop the capture that it is at.
RecoveryStops == phase \in Captures /\ at[phase]["recovery"] = "idle"

Quiescent == ~RecoveryStops /\ \A c \in Captures, p \in Callers : ~Continues(c, p)

-----------------------------------------------------------------------------
(* startMeetingMicCapture and startMeetingSystemCapture *)

\* p's start returns, with an error or not; its promise is cleared unless a later
\* start has replaced it.
StartReturns(c, p, e, error) ==
  /\ Returns(c, p, "started", e)
  /\ starting' = [starting EXCEPT ![c] = IF @ = p THEN None ELSE @]
  /\ told' = IF error THEN told \cup {<<c, e>>} ELSE told \ {<<c, e>>}

StartWaits(c, p, e, stage) ==
  /\ Goto(c, p, stage, e)
  /\ starting' = [starting EXCEPT ![c] = p]
  /\ UNCHANGED told

\* Not while one is active.  A new session of the system's capture has a new
\* budget of restarts and kills.
TryOpen(c, p, e) ==
  IF session[c] # None
  THEN StartReturns(c, p, e, TRUE) /\ UNCHANGED <<system, killed>>
  ELSE /\ StartWaits(c, p, e, "opening")
       /\ IF c = "system" /\ e # last
          THEN attempt' = 0 /\ pending' = FALSE /\ heard' = FALSE /\ last' = e /\ killed' = FALSE
          ELSE UNCHANGED <<system, killed>>

\* The microphone is not opened while a dictation records: the capture waits until
\* recordingMutex is free.
Admit(c, p, e) ==
  IF c = "mic" /\ dictating
  THEN StartWaits(c, p, e, "awaitDictation") /\ UNCHANGED <<system, killed>>
  ELSE TryOpen(c, p, e)

StartCalled(c, p, e) ==
  IF stopping[c] # None
  THEN StartWaits(c, p, e, "awaitStop") /\ UNCHANGED <<system, killed>>
  ELSE Admit(c, p, e)

StopAwaited(c, p) ==
  /\ at[c][p] = "awaitStop" /\ stopping[c] = None
  /\ Admit(c, p, of[c][p])
  /\ UNCHANGED <<main, awaited, capture, stopping, owned, loop, recovery, dictating, contested>>

\* Mutant: the refusal is not reported.
DictationAwaitedSilently(c, p) ==
  /\ at[c][p] = "awaitDictation" /\ Quiescent
  /\ IF dictating
     THEN StartReturns(c, p, of[c][p], FALSE) /\ UNCHANGED <<system, killed>>
     ELSE TryOpen(c, p, of[c][p])
  /\ UNCHANGED <<main, awaited, capture, stopping, owned, loop, recovery, dictating, contested>>

\* The mutex was free; a dictation that records now refuses the capture.
DictationAwaited(c, p) ==
  /\ at[c][p] = "awaitDictation" /\ Quiescent
  /\ IF dictating
     THEN StartReturns(c, p, of[c][p], TRUE) /\ UNCHANGED <<system, killed>>
     ELSE TryOpen(c, p, of[c][p])
  /\ UNCHANGED <<main, awaited, capture, stopping, owned, loop, recovery, dictating, contested>>

\* The worklet is loaded and the stream acquired.
Opened(c, p) ==
  /\ at[c][p] = "opening" /\ Quiescent
  /\ session' = [session EXCEPT ![c] = of[c][p]]
  /\ playing' = [playing EXCEPT ![c] = TRUE] /\ open' = [open EXCEPT ![c] = @ + 1]
  /\ StartReturns(c, p, of[c][p], FALSE)
  /\ UNCHANGED <<main, awaited, stopping, owned, loop, system, recovery, killed, dictating, contested>>

\* One of the two fails, or the track has ended already: the variables are cleared.
OpenFails(c, p) ==
  /\ at[c][p] = "opening" /\ Quiescent
  /\ session' = [session EXCEPT ![c] = None]
  /\ playing' = [playing EXCEPT ![c] = FALSE] /\ UNCHANGED open
  /\ StartReturns(c, p, of[c][p], TRUE)
  /\ UNCHANGED <<main, awaited, stopping, owned, loop, system, recovery, killed, dictating, contested>>

-----------------------------------------------------------------------------
(* stopMeetingMicCapture and stopMeetingSystemCapture *)

\* Only the active session is stopped, and two stops of it are one.
TryStop(c, p, e) ==
  IF session[c] # e
  THEN Returns(c, p, "stopped", e) /\ UNCHANGED stopping
  ELSE IF stopping[c] # None
  THEN Goto(c, p, "joined", e) /\ UNCHANGED stopping
  ELSE Goto(c, p, "draining", e) /\ stopping' = [stopping EXCEPT ![c] = p]

\* Mutant: the start that is under way is not awaited.
StopCalledAtOnce(c, p, e) ==
  /\ UNCHANGED awaited
  /\ TryStop(c, p, e)

\* A stop first awaits the start that is under way.
StopCalled(c, p, e) ==
  /\ awaited' = [awaited EXCEPT ![c][p] = starting[c]]
  /\ IF starting[c] # None
     THEN Goto(c, p, "awaitStart", e) /\ UNCHANGED stopping
     ELSE TryStop(c, p, e)

StartAwaited(c, p) ==
  /\ at[c][p] = "awaitStart" /\ ~StartRuns(c, awaited[c][p])
  /\ awaited' = [awaited EXCEPT ![c][p] = None]
  /\ TryStop(c, p, of[c][p])
  /\ UNCHANGED <<main, told, capture, starting, owned, loop, system, recovery, killed, dictating,
                 contested>>

\* Mutant: only the variables are cleared.
DrainedOnly(c, p) ==
  /\ at[c][p] = "draining" /\ Quiescent
  /\ Goto(c, p, "closing", of[c][p])
  /\ playing' = [playing EXCEPT ![c] = FALSE]
  /\ UNCHANGED <<main, told, awaited, session, open, starting, stopping, owned, loop, system, recovery,
                 killed, dictating, contested>>

\* The worklet has sent its last chunk, or 500 ms are over; the tracks are stopped.
Drained(c, p) ==
  /\ at[c][p] = "draining" /\ Quiescent
  /\ Goto(c, p, "closing", of[c][p])
  /\ playing' = [playing EXCEPT ![c] = FALSE]
  /\ open' = [open EXCEPT ![c] = IF playing[c] THEN @ - 1 ELSE @]
  /\ UNCHANGED <<main, told, awaited, session, starting, stopping, owned, loop, system, recovery,
                 killed, dictating, contested>>

\* Mutant: StoppingPromise is not cleared.
ClosesForGood(c) ==
  /\ session' = [session EXCEPT ![c] = None] /\ playing' = [playing EXCEPT ![c] = FALSE]
  /\ UNCHANGED <<main, told, awaited, open, starting, stopping, owned, loop, last, rescued, phase,
                 retried, dictating>>

\* The context is closed.
Closes(c) ==
  /\ session' = [session EXCEPT ![c] = None] /\ playing' = [playing EXCEPT ![c] = FALSE]
  /\ stopping' = [stopping EXCEPT ![c] = None]
  /\ UNCHANGED <<main, told, awaited, open, starting, owned, loop, last, rescued, phase, retried, dictating>>

Closed(c, p) ==
  /\ at[c][p] = "closing" /\ Quiescent /\ ~(c = "system" /\ p = "stop")
  /\ Closes(c)
  /\ Returns(c, p, "stopped", of[c][p])
  /\ UNCHANGED <<attempt, pending, heard, active, killed, contested>>

\* The recovery, if there is one, is abandoned at the capture that it is at.
Abandons ==
  /\ active' = FALSE
  /\ contested' = IF active THEN contested \cup (Captures \cap {phase}) ELSE contested

\* A stop of the system's capture that is not part of a restart or recovery ends
\* these, too.
SystemClosed ==
  /\ at["system"]["stop"] = "closing" /\ Quiescent
  /\ Closes("system")
  /\ LET over == {"stop"} \cup (IF at["system"]["restart"] = "backoff" THEN {"restart"} ELSE {})
     IN  /\ at' = [at EXCEPT !["system"] = [p \in Callers |-> IF p \in over THEN "idle" ELSE @[p]]]
         /\ of' = [of EXCEPT !["system"] = [p \in Callers |-> IF p \in over THEN None ELSE @[p]]]
  /\ attempt' = 0 /\ pending' = FALSE /\ heard' = FALSE
  /\ Abandons /\ killed' = FALSE

\* A stop that joined another one returns with it.
JoinReturns(c, p) ==
  /\ at[c][p] = "joined" /\ stopping[c] = None
  /\ Returns(c, p, "stopped", of[c][p])
  /\ UNCHANGED <<main, told, awaited, capture, starting, stopping, owned, loop, system, recovery,
                 killed, dictating, contested>>

-----------------------------------------------------------------------------
(* The messages of the main process.  It starts the captures of one meeting  *)
(* after the other, those of the next while the last are being stopped, too. *)

\* Bounds: not while the stop awaits a start, which the new one would overlap, and
\* not for a capture that may go on behind its stop.
MainStarts(c, e) ==
  /\ Quiescent /\ wanted[c] = None /\ e \in fresh[c]
  /\ \A d \in Captures : wanted[d] \in {None, e}
  /\ at[c]["start"] = "idle" /\ at[c]["stop"] # "awaitStart" /\ c \notin contested
  /\ wanted' = [wanted EXCEPT ![c] = e] /\ fresh' = [fresh EXCEPT ![c] = @ \ {e}]
  /\ StartCalled(c, "start", e)
  /\ UNCHANGED <<enabled, awaited, capture, stopping, owned, loop, recovery, dictating, contested>>

\* Mutant: the session is left to the microphone's restart.
MainStopsOnly(c) ==
  /\ Quiescent /\ wanted[c] # None /\ at[c]["stop"] = "idle"
  /\ wanted' = [wanted EXCEPT ![c] = None]
  /\ StopCalled(c, "stop", wanted[c])
  /\ contested' = IF rescued = wanted[c] THEN Captures
                  ELSE IF c = "system" /\ stopping[c] = "restart" THEN contested \cup {c}
                  ELSE contested
  /\ UNCHANGED <<enabled, fresh, told, capture, starting, owned, loop, system, recovery, killed,
                 dictating>>

\* StopMeetingMicCapture takes the session away from a restart of it; nothing takes
\* it away from a restart of the system's capture that is stopping it, too, or from a
\* recovery.
MainStops(c) ==
  /\ Quiescent /\ wanted[c] # None /\ at[c]["stop"] = "idle"
  /\ wanted' = [wanted EXCEPT ![c] = None]
  /\ owned' = IF c = "mic" /\ owned = wanted[c] THEN None ELSE owned
  /\ StopCalled(c, "stop", wanted[c])
  /\ contested' = IF rescued = wanted[c] THEN Captures
                  ELSE IF c = "system" /\ stopping[c] = "restart" THEN contested \cup {c}
                  ELSE contested
  /\ UNCHANGED <<enabled, fresh, told, capture, starting, loop, system, recovery, killed, dictating>>

\* A dictation begins or ends: its own check for a meeting comes before its last
\* await, and does not keep it away.
DictationTurns ==
  /\ Quiescent
  /\ dictating' = ~dictating
  /\ UNCHANGED <<main, told, calls, capture, starting, stopping, owned, loop, system, recovery,
                 killed, contested>>

-----------------------------------------------------------------------------
(* attemptMeetingMicRestart *)

\* The restart gives up its session, if that is still its own.
MicRestartEnds ==
  /\ Goto("mic", "restart", "idle", None)
  /\ loop' = 0
  /\ owned' = IF owned = of["mic"]["restart"] THEN None ELSE owned
  /\ UNCHANGED <<awaited, stopping>>

\* The track has ended, or the default device has changed.
MicRestartCalled ==
  /\ Quiescent /\ ~active /\ session["mic"] # None
  /\ stopping["mic"] = None /\ starting["mic"] = None /\ ~dictating
  /\ at["mic"]["restart"] = "idle"
  /\ owned' = session["mic"] /\ loop' = 1
  /\ StopCalled("mic", "restart", session["mic"])
  /\ UNCHANGED <<main, told, capture, starting, system, recovery, killed, dictating, contested>>

MicRestartStopped ==
  /\ at["mic"]["restart"] = "stopped"
  /\ LET e == of["mic"]["restart"]
     IN  IF owned # e
         THEN MicRestartEnds /\ UNCHANGED <<starting, told, system, killed>>
         ELSE StartCalled("mic", "restart", e) /\ UNCHANGED <<loop, owned, awaited, stopping>>
  /\ UNCHANGED <<main, capture, recovery, dictating, contested>>

MicRestartStarted ==
  /\ at["mic"]["restart"] = "started"
  /\ LET e == of["mic"]["restart"]
     IN  IF session["mic"] = e
         THEN MicRestartEnds
         ELSE Goto("mic", "restart", "pause", e) /\ UNCHANGED <<loop, owned, awaited, stopping>>
  /\ UNCHANGED <<main, told, capture, starting, system, recovery, killed, dictating, contested>>

MayProceed(e) ==
  /\ ~active /\ stopping["mic"] = None /\ ~dictating
  /\ IF session["mic"] = None THEN owned = e ELSE session["mic"] = e

\* The pause after a failed attempt is over.
MicRestartAgain ==
  /\ at["mic"]["restart"] = "pause" /\ Quiescent
  /\ LET e == of["mic"]["restart"]
     IN  IF loop < MaxAttempts /\ MayProceed(e)
         THEN loop' = loop + 1 /\ StopCalled("mic", "restart", e) /\ UNCHANGED owned
         ELSE MicRestartEnds
  /\ UNCHANGED <<main, told, capture, starting, system, recovery, killed, dictating, contested>>

-----------------------------------------------------------------------------
(* attemptSystemCaptureRestart and executeSystemCaptureRestart *)

\* Mutant: one restart too many.
BudgetAndOne == IF heard THEN MaxAttempts + 1 ELSE MaxDead

Budget == IF heard THEN MaxAttempts ELSE MaxDead

Execute(n) ==
  /\ attempt' = n /\ pending' = FALSE
  /\ StopCalled("system", "restart", session["system"])

\* The first restart of a session is done at once, the others after a pause, and
\* none while a dictation records.
RestartSystem(deferred) ==
  IF active \/ stopping["system"] # None \/ at["system"]["restart"] # "idle" \/ attempt >= Budget
  THEN pending' = deferred /\ UNCHANGED <<attempt, calls, stopping>>
  ELSE IF dictating
  THEN pending' = TRUE /\ UNCHANGED <<attempt, calls, stopping>>
  ELSE IF attempt = 0
  THEN Execute(1)
  ELSE /\ Goto("system", "restart", "backoff", session["system"])
       /\ pending' = deferred
       /\ UNCHANGED <<attempt, awaited, stopping>>

\* The track has ended or is muted, or the silence lasts.
SystemFails ==
  /\ Quiescent /\ session["system"] # None
  /\ RestartSystem(pending)
  /\ UNCHANGED <<main, told, capture, starting, owned, loop, heard, last, recovery, killed,
                 dictating, contested>>

\* A chunk of audio, silent or not, takes up a restart that was deferred.
ChunkArrives ==
  /\ Quiescent /\ session["system"] # None /\ playing["system"] /\ stopping["system"] = None
  /\ heard' \in {heard, TRUE}
  /\ IF pending /\ ~dictating /\ at["system"]["restart"] \in {"idle", "backoff"}
     THEN RestartSystem(FALSE)
     ELSE UNCHANGED <<pending, attempt, calls, stopping>>
  /\ UNCHANGED <<main, told, capture, starting, owned, loop, last, recovery, killed, dictating,
                 contested>>

BackoffEnds ==
  /\ at["system"]["restart"] = "backoff" /\ Quiescent
  /\ IF ~active /\ stopping["system"] = None /\ session["system"] = of["system"]["restart"]
     THEN Execute(attempt + 1)
     ELSE /\ Goto("system", "restart", "idle", None)
          /\ UNCHANGED <<attempt, pending, awaited, stopping>>
  /\ UNCHANGED <<main, told, capture, starting, owned, loop, heard, last, recovery, killed,
                 dictating, contested>>

\* It starts whatever has become of the session meanwhile.
SystemRestartStopped ==
  /\ at["system"]["restart"] = "stopped"
  /\ StartCalled("system", "restart", of["system"]["restart"])
  /\ UNCHANGED <<main, awaited, capture, stopping, owned, loop, recovery, dictating, contested>>

SystemRestartStarted ==
  /\ at["system"]["restart"] = "started"
  /\ Goto("system", "restart", "idle", None)
  /\ UNCHANGED <<main, told, awaited, capture, starting, stopping, owned, loop, system, recovery,
                 killed, dictating, contested>>

-----------------------------------------------------------------------------
(* attemptCoordinatedCaptureRecovery and runCoordinatedReacquire *)

\* The system's capture has been silent from its start: the audio service is killed,
\* once for a session.  Bound: not while an abandoned recovery still runs.
RecoveryBegins ==
  /\ enabled /\ Quiescent /\ rescued = None
  /\ session["system"] # None /\ ~heard /\ ~dictating /\ ~killed
  /\ LET e == session["system"]
         backoff == at["system"]["restart"] = "backoff"
     IN  /\ rescued' = e /\ phase' = "kill" /\ active' = TRUE /\ retried' = FALSE /\ killed' = TRUE
         /\ IF backoff THEN Goto("system", "restart", "idle", None) ELSE UNCHANGED <<at, of>>
         /\ contested' = contested \cup {c \in Captures : \/ wanted[c] # e
                                                         \/ at[c]["restart"] \notin {"idle", "backoff"}}
  /\ UNCHANGED <<main, told, awaited, capture, starting, stopping, owned, loop, system, dictating>>

\* The recovery is over.  A restart of the microphone that it asks for in the end is
\* for one that is not active, and returns at once.
RecoveryEnds == rescued' = None /\ phase' = "none" /\ active' = FALSE /\ retried' = FALSE

\* 750 ms after the kill: the session must be there and no dictation record.  A bail
\* for a dictation gives the kill back.  A kill that was refused ends it, too.
KillEnds ==
  /\ phase = "kill" /\ Quiescent
  /\ LET there == session["system"] = rescued /\ stopping["system"] = None
     IN  \/ RecoveryEnds /\ UNCHANGED killed
         \/ there /\ dictating /\ active /\ RecoveryEnds /\ killed' = FALSE
         \/ /\ there /\ ~dictating /\ active
            /\ phase' = "system" /\ UNCHANGED <<rescued, active, retried, killed>>
  /\ UNCHANGED <<main, told, calls, capture, starting, stopping, owned, loop, system, dictating,
                 contested>>

\* An abandoned recovery takes no further step.
RecoveryStep(c) ==
  /\ phase = c
  /\ \/ /\ at[c]["recovery"] = "idle"
        /\ IF active
           THEN StopCalled(c, "recovery", rescued) /\ UNCHANGED recovery
           ELSE RecoveryEnds /\ UNCHANGED <<calls, stopping>>
        /\ UNCHANGED <<starting, told, system, killed>>
     \/ /\ at[c]["recovery"] = "stopped"
        /\ IF active
           THEN StartCalled(c, "recovery", rescued) /\ UNCHANGED recovery
           ELSE /\ Goto(c, "recovery", "idle", None) /\ RecoveryEnds
                /\ UNCHANGED <<starting, told, system, killed>>
        /\ UNCHANGED <<awaited, stopping>>
     \/ /\ at[c]["recovery"] = "started"
        /\ Goto(c, "recovery", "idle", None)
        /\ IF active /\ c = "system"
           THEN phase' = "mic" /\ UNCHANGED <<rescued, active, retried>>
           ELSE IF active /\ session["system"] # rescued /\ ~retried
           THEN phase' = "system" /\ retried' = TRUE /\ UNCHANGED <<rescued, active>>
           ELSE RecoveryEnds
        /\ UNCHANGED <<awaited, stopping, starting, told, system, killed>>
  /\ UNCHANGED <<main, capture, owned, loop, dictating, contested>>

\* After 20 seconds the recovery is abandoned, with the capture that it is at stopped
\* or not.
RecoveryTimesOut ==
  /\ active /\ Quiescent
  /\ Abandons
  /\ UNCHANGED <<main, told, calls, capture, starting, stopping, owned, loop, system, rescued, phase,
                 retried, killed, dictating>>

-----------------------------------------------------------------------------

Calls(c, p) ==
  \/ StopAwaited(c, p)
  \/ DictationAwaited(c, p)
  \/ Opened(c, p) \/ OpenFails(c, p)
  \/ StartAwaited(c, p)
  \/ Drained(c, p)
  \/ Closed(c, p)
  \/ JoinReturns(c, p)

MicRestart == MicRestartStopped \/ MicRestartStarted \/ MicRestartAgain

SystemRestart == BackoffEnds \/ SystemRestartStopped \/ SystemRestartStarted

Recovers == KillEnds \/ \E c \in Captures : RecoveryStep(c)

\* What promises, timers and devices bring about by themselves.
Internal ==
  \/ \E c \in Captures, p \in Callers : Calls(c, p)
  \/ SystemClosed
  \/ MicRestart \/ SystemRestart \/ Recovers

Next ==
  \/ \E c \in Captures, e \in Sessions : MainStarts(c, e)
  \/ \E c \in Captures : MainStops(c)
  \/ DictationTurns
  \/ MicRestartCalled \/ SystemFails \/ ChunkArrives
  \/ RecoveryBegins \/ RecoveryTimesOut
  \/ Internal

Spec == Init /\ [][Next]_vars

-----------------------------------------------------------------------------
(* Properties *)

\* Type correctness; a restart's counters keep to their limit.
TypeOK ==
  /\ enabled \in BOOLEAN
  /\ wanted \in [Captures -> Sessions \cup {None}] /\ fresh \in [Captures -> SUBSET Sessions]
  /\ told \subseteq Captures \X Sessions
  /\ at \in [Captures -> [Callers ->
        {"idle", "awaitStop", "awaitDictation", "opening", "awaitStart", "draining", "closing",
         "joined", "started", "stopped", "pause", "backoff"}]]
  /\ of \in [Captures -> [Callers -> Sessions \cup {None}]]
  /\ awaited \in [Captures -> [Callers -> Callers \cup {None}]]
  /\ session \in [Captures -> Sessions \cup {None}]
  /\ playing \in [Captures -> BOOLEAN] /\ open \in [Captures -> Nat]
  /\ starting \in [Captures -> Callers \cup {None}]
  /\ stopping \in [Captures -> Callers \cup {None}]
  /\ owned \in Sessions \cup {None} /\ last \in Sessions \cup {None}
  /\ loop \in 0 .. MaxAttempts /\ attempt \in 0 .. MaxAttempts
  /\ pending \in BOOLEAN /\ heard \in BOOLEAN /\ dictating \in BOOLEAN
  /\ rescued \in Sessions \cup {None} /\ phase \in {"none", "kill"} \cup Captures
  /\ active \in BOOLEAN /\ retried \in BOOLEAN /\ killed \in BOOLEAN
  /\ contested \subseteq Captures

\* Once a stop of the main process has returned, nothing of its session is captured
\* or about to be: at most the session that it has started since.
Stopped(c) ==
  Quiescent /\ at[c]["stop"] = "idle" =>
    /\ session[c] \in {None, wanted[c]}
    /\ wanted[c] = None => open[c] = 0 /\ \A p \in Callers : ~StartRuns(c, p)

\* A stop is final, though a restart was under way (restartOwnedSession, the end of
\* the restarts in runMeetingSystemStop), unless the capture was contested.
StopIsFinal == \A c \in Captures : c \in contested \/ Stopped(c)

\* No stream is left running that the variables do not refer to.
NoStreamLost == \A c \in Captures : c \in contested \/ open[c] = IF playing[c] THEN 1 ELSE 0

\* Every stream belongs to the session that the variables name.
StreamsOwned == TypeOK /\ NoStreamLost

\* A capture that the main process wants and that is neither active nor on its way
\* was reported with a CaptureError: no restart or recovery loses it in silence.
LossReported ==
  \A c \in Captures :
    Quiescent /\ wanted[c] # None /\ session[c] # wanted[c] /\ c \notin contested
      => \/ <<c, wanted[c]>> \in told
         \/ \E p \in Callers : of[c][p] = wanted[c] /\ at[c][p] \notin {"idle", "pause", "backoff"}

\* What p waits for has happened, or is a timer, a device or a mutex that does not wait
\* for this capture.
Ready(c, p) ==
  \/ Continues(c, p)
  \/ at[c][p] \in {"awaitDictation", "opening", "draining", "closing"}

\* While a stop of the main process has not returned, somebody at the same capture can
\* go on: starts, stops, restarts and recoveries that await each other's promises never
\* wait in a circle.
NeverStuck == \A c \in Captures : at[c]["stop"] # "idle" => \E p \in Callers : Ready(c, p)
=============================================================================
