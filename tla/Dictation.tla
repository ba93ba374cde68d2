----------------------------- MODULE Dictation -----------------------------
(***************************************************************************)
(* The dictations of the MediaManager of index.js (class Vm): starting and *)
(* stopping a recording, the microphone, the audio graph with its worklet, *)
(* and what a meeting's capture has to do with them.                       *)
(*                                                                         *)
(* The code runs on one thread and interleaves at its awaits.  An action   *)
(* is what one continuation does up to its next await of something that    *)
(* is not settled yet.  Starts, stops and initialize exclude each other by *)
(* recordingMutex, which is passed on in the order of the calls, but much  *)
(* runs outside of it: the messages of the worklet, the repair of the      *)
(* audio graph, orphaned getUserMedia calls, the rest of a stop after it   *)
(* has released the mutex, and the meeting's capture.                      *)
(***************************************************************************)
EXTENDS Integers, Sequences, FiniteSets, SequencesExt

CONSTANTS
  Sessions,    \* the dictations the main process asks for
  Stops,       \* calls of stopRecording that may be under way at once
  None,        \* null
  MaxPending,  \* bound: messages of the worklet that wait to be handled
  Codecs,      \* values of useOpus that the main process sends
  Faults       \* what may go wrong in this instance, a subset of AllFaults

\* "mic": getUserMedia fails; "graph": an audio graph cannot be built or be
\* connected; "suspend": the audio context is suspended by the system; "late":
\* the worklet answers a stop that has timed out; "lateGrant": the system grants
\* a getUserMedia call after the retry that made it was aborted; "meeting":
\* meetings are recorded meanwhile.
AllFaults == {"mic", "graph", "suspend", "late", "lateGrant", "meeting"}

ASSUME SessionsAssumption == IsFiniteSet(Sessions) /\ IsFiniteSet(Stops)
ASSUME NoneAssumption == None \notin Sessions /\ Sessions \cap Stops = {}
ASSUME NamesAssumption == {"init", "meeting"} \cap (Sessions \cup Stops) = {}
ASSUME BoundAssumption == MaxPending \in Nat \ {0} /\ Codecs \subseteq BOOLEAN
ASSUME FaultsAssumption == Faults \subseteq AllFaults

VARIABLES
  start,             \* where startRecording of each session is; "idle" when it is not called
  answer,            \* what the main process was last told about each start
  stop,              \* where each call of stopRecording is
  init,              \* where initialize is
  mutex,             \* recordingMutex: its holder and those who wait, in order
  shouldAbortStart,
  current,           \* currentTranscriptionEntityUuid
  active,            \* activeChunkUuid
  draining,          \* drainingChunkUuid
  isRecording,
  useOpus,
  finalizing,        \* the session of opusFinalizePending
  done,              \* how often RecordingDone was sent for each session
  mic,               \* the getUserMedia call of each session's start
  wanted,            \* whose getUserMedia call setupMediaStream awaits (its own or an orphan)
  orphan,            \* Eu: the call that is kept for the next start
  stream,            \* the call that Vm.stream came from
  graph,             \* state of the published audioContext, "none" before the first
  building,          \* audioGraphRecovery.inFlight: is a graph being built?
  toNode,            \* messages on their way to the recorder worklet
  fromNode,          \* messages on their way from it
  capturing,         \* the session the worklet captures for
  meet,              \* the meeting's microphone capture
  order              \* what the main process asked for last

starts == <<start, answer, wanted>>
orders == <<shouldAbortStart, current, useOpus, order>>
recording == <<active, draining, isRecording, finalizing, done>>
microphone == <<mic, orphan, stream>>
nodes == <<graph, building, toNode, fromNode, capturing>>
vars == <<starts, stop, init, mutex, orders, recording, microphone, nodes, meet>>

InFlight == {u \in Sessions : start[u] # "idle"}
Holds(x) == mutex # <<>> /\ Head(mutex) = x
Calls(x) == mutex' = Append(mutex, x)
Release == mutex' = Tail(mutex)

\* meetingMicStartingPromise and meetingMicSessionId
MeetingStarting == meet \in {"queued", "acquiring"}
MeetingSession == meet \in {"on", "stopping"}

Init ==
  /\ start = [u \in Sessions |-> "idle"] /\ answer = [u \in Sessions |-> "none"]
  /\ stop = [k \in Stops |-> "idle"] /\ init = "idle" /\ mutex = <<>>
  /\ shouldAbortStart = FALSE /\ current = None /\ useOpus = FALSE /\ order = "stop"
  /\ active = None /\ draining = None /\ isRecording = FALSE
  /\ finalizing = None /\ done = [u \in Sessions |-> 0]
  /\ mic = [u \in Sessions |-> "free"] /\ wanted = None
  /\ orphan = None /\ stream = None
  /\ graph = "none" /\ building = FALSE /\ capturing = None
  /\ toNode = <<>> /\ fromNode = <<>> /\ meet = "off"

-----------------------------------------------------------------------------
(* startRecording *)

\* The main process starts a dictation: a new one, one whose graph was being
\* repaired, or again the one that is recording and that nobody stops.
MayStart(u) ==
  \/ answer[u] \in {"none", "recovering"} /\ start[u] = "idle"
  \/ isRecording /\ active = u /\ \A k \in Stops : stop[k] = "idle"

\* AudioStart: the call waits for the mutex, or is dropped while another is in
\* flight.
AudioStart(u) ==
  /\ MayStart(u)
  /\ \E opus \in Codecs : useOpus' = opus
  /\ current' = u /\ order' = "start"
  /\ IF InFlight = {}
     THEN /\ start' = [start EXCEPT ![u] = "queued"]
          /\ Calls(u)
          /\ UNCHANGED answer
     ELSE /\ answer' = IF u \in InFlight THEN answer ELSE [answer EXCEPT ![u] = "aborted"]
          /\ UNCHANGED <<start, mutex>>
  /\ UNCHANGED <<wanted, stop, init, shouldAbortStart, recording, microphone, nodes, meet>>

\* The start ends with an answer and gives up the mutex.
Answer(u, a) ==
  /\ start' = [start EXCEPT ![u] = "idle"]
  /\ answer' = [answer EXCEPT ![u] = a]
  /\ wanted' = None
  /\ Release

Waits(u, stage) ==
  /\ start' = [start EXCEPT ![u] = stage]
  /\ wanted' = None
  /\ UNCHANGED <<answer, mutex>>

\* The graph is not usable: it is repaired behind the back of the caller.
Repair(u) ==
  /\ Answer(u, IF shouldAbortStart THEN "aborted" ELSE "recovering")
  /\ building' = (building \/ ~shouldAbortStart)
  /\ UNCHANGED microphone

\* setupMediaStream up to getUserMedia.  The call of an aborted start is used
\* again when it is for the same microphone.
Acquire(u) ==
  IF shouldAbortStart
  THEN Answer(u, "aborted") /\ UNCHANGED <<building, microphone>>
  ELSE /\ start' = [start EXCEPT ![u] = "acquiring"]
       /\ orphan' = None
       /\ \/ /\ orphan # None
             /\ wanted' = orphan
             /\ UNCHANGED mic
          \/ /\ wanted' = u
             /\ mic' = [r \in Sessions |-> IF r = u THEN "pending"
                                           ELSE IF r = orphan THEN "free" ELSE mic[r]]
       /\ UNCHANGED <<answer, mutex, building, stream>>

\* After the meeting: the state of the graph decides.
CheckGraph(u) ==
  \/ graph = "running" /\ Acquire(u)
  \/ graph = "suspended" /\ Waits(u, "resuming") /\ UNCHANGED <<building, microphone>>
  \/ graph = "none" /\ Repair(u)

CheckMeeting(u) ==
  \/ meet = "on" /\ Answer(u, "aborted") /\ UNCHANGED <<building, microphone>>
  \/ meet = "stopping" /\ Waits(u, "meetingStop") /\ UNCHANGED <<building, microphone>>
  \/ ~MeetingSession /\ CheckGraph(u)

CheckRecording(u) ==
  \/ isRecording /\ Answer(u, "started") /\ UNCHANGED <<building, microphone>>
  \/ ~isRecording /\ MeetingStarting /\ Waits(u, "meetingStart") /\ UNCHANGED <<building, microphone>>
  \/ ~isRecording /\ ~MeetingStarting /\ CheckMeeting(u)

Started == <<stop, init, orders, recording, graph, toNode, fromNode, capturing, meet>>

\* Mutant: a recording that is still being finished does not count.
BlockerRecordingOnly == IF isRecording /\ active # current THEN active ELSE None

\* zu: the session that a new start has to wait for or to give way to.
Blocker ==
  LET owner == IF draining # None THEN draining ELSE IF isRecording THEN active ELSE None
  IN IF owner = current THEN None ELSE owner

StartEntered(u) ==
  /\ start[u] = "queued" /\ Holds(u)
  /\ \/ Blocker = None /\ CheckRecording(u)
     \/ /\ Blocker # None /\ isRecording
        /\ Answer(u, "aborted")
        /\ UNCHANGED <<building, microphone>>
     \/ /\ Blocker # None /\ ~isRecording
        /\ Waits(u, "draining")
        /\ UNCHANGED <<building, microphone>>
  /\ UNCHANGED Started

\* waitForDrainToSettle
DrainSettled(u) ==
  /\ start[u] = "draining" /\ draining = None
  /\ CheckRecording(u)
  /\ UNCHANGED Started

DrainTimesOut(u) ==
  /\ start[u] = "draining" /\ draining # None
  /\ Answer(u, "aborted")
  /\ UNCHANGED <<Started, building, microphone>>

MeetingAwaited(u) ==
  /\ \/ start[u] = "meetingStart" /\ ~MeetingStarting /\ CheckMeeting(u)
     \/ start[u] = "meetingStop" /\ meet # "stopping" /\ CheckGraph(u)
  /\ UNCHANGED Started

\* The suspended context resumes within the grace of 300 ms or it does not.
ResumeEnds(u) ==
  /\ \/ start[u] = "resuming" /\ graph = "running" /\ Acquire(u)
     \/ start[u] \in {"resuming", "replaced"} /\ Repair(u)
  /\ UNCHANGED Started

\* The stream is there: connect it to the graph and record.
Connect(u, r) ==
  \/ /\ graph # "none"
     /\ mic' = [mic EXCEPT ![r] = "live"]
     /\ stream' = r
     /\ active' = u /\ isRecording' = TRUE
     /\ toNode' = Append(toNode, [type |-> "start", of |-> u])
     /\ Answer(u, "started")
  \/ /\ graph = "none" \/ "graph" \in Faults
     /\ mic' = [mic EXCEPT ![r] = "free"]
     /\ Answer(u, "failed")
     /\ UNCHANGED <<stream, active, isRecording, toNode>>

Acquired == <<stop, init, orders, draining, finalizing, done, orphan,
              graph, building, fromNode, capturing, meet>>

MicGranted(u) ==
  /\ start[u] = "acquiring"
  /\ Connect(u, wanted)
  /\ UNCHANGED Acquired

\* getUserMedia is refused for good, or tried again after 250 and 750 ms.
MicFails(u) ==
  /\ start[u] = "acquiring" /\ "mic" \in Faults
  /\ mic' = [mic EXCEPT ![wanted] = "free"]
  /\ Answer(u, "failed") \/ Waits(u, "backoff1")
  /\ UNCHANGED <<Acquired, active, isRecording, toNode, stream>>

\* retryGetUserMediaWithBackoff
BackoffEnds(u) ==
  /\ start[u] \in {"backoff1", "backoff2"}
  /\ IF shouldAbortStart
     THEN Answer(u, "aborted") /\ UNCHANGED mic
     ELSE /\ Waits(u, IF start[u] = "backoff1" THEN "retry1" ELSE "retry2")
          /\ mic' = [mic EXCEPT ![u] = "pending"]
  /\ UNCHANGED <<Acquired, active, isRecording, toNode, stream>>

RetryGranted(u) ==
  /\ start[u] \in {"retry1", "retry2"}
  /\ Connect(u, u)
  /\ UNCHANGED Acquired

RetryFails(u) ==
  /\ start[u] \in {"retry1", "retry2"} /\ "mic" \in Faults
  /\ mic' = [mic EXCEPT ![u] = "free"]
  /\ Answer(u, "failed") \/ (start[u] = "retry1" /\ Waits(u, "backoff2"))
  /\ UNCHANGED <<Acquired, active, isRecording, toNode, stream>>

-----------------------------------------------------------------------------
(* stopRecording *)

Aborted == {u \in Sessions : start[u] \in {"acquiring", "retry1", "retry2"}}

\* Mutant: a stop is dropped when nothing records yet.
StopCalledWhileRecording(k) ==
  /\ stop[k] = "idle"
  /\ order' = "stop"
  /\ IF isRecording
     THEN stop' = [stop EXCEPT ![k] = "queued"] /\ Calls(k) /\ shouldAbortStart' = TRUE
     ELSE UNCHANGED <<stop, mutex, shouldAbortStart>>
  /\ UNCHANGED <<starts, init, current, useOpus, recording, microphone, nodes, meet>>

\* AudioStop, or handleDeviceChange when the microphone of a recording is gone.
\* The signal makes a start that awaits the microphone end at once: its first
\* getUserMedia call is kept as an orphan, that of a retry is forgotten.
StopCalled(k) ==
  /\ stop[k] = "idle"
  /\ stop' = [stop EXCEPT ![k] = "queued"]
  /\ shouldAbortStart' = TRUE /\ order' = "stop"
  /\ start' = [u \in Sessions |-> IF u \in Aborted THEN "idle" ELSE start[u]]
  /\ answer' = [u \in Sessions |-> IF u \in Aborted THEN "aborted" ELSE answer[u]]
  /\ mutex' = Append(IF Aborted = {} THEN mutex ELSE Tail(mutex), k)
  /\ mic' = [u \in Sessions |-> IF start[u] \in {"retry1", "retry2"} THEN "forgotten" ELSE mic[u]]
  /\ orphan' = IF \E u \in Sessions : start[u] = "acquiring"
               THEN wanted
               ELSE orphan
  /\ wanted' = None
  /\ UNCHANGED <<init, current, useOpus, recording, stream, nodes, meet>>

\* The orphan resolves or fails unclaimed, expires after 10 s, or is discarded
\* because the devices or preferences changed.
OrphanDiscarded ==
  /\ orphan # None
  /\ orphan' = None
  /\ mic' = [mic EXCEPT ![orphan] = "free"]
  /\ UNCHANGED <<starts, stop, init, mutex, orders, recording, stream, nodes, meet>>

\* The call of a retry that was aborted settles, and nothing refers to it: what
\* is granted to it stays open.
ForgottenSettles ==
  /\ \E r \in Sessions :
       /\ mic[r] = "forgotten"
       /\ \E m \in {"free"} \cup (IF "lateGrant" \in Faults THEN {"live"} ELSE {}) :
            mic' = [mic EXCEPT ![r] = m]
  /\ UNCHANGED <<starts, stop, init, mutex, orders, recording, orphan, stream, nodes, meet>>

\* Mutant: the stop does not wait for the worklet.
StopEnteredAtOnce(k) ==
  /\ stop[k] = "queued" /\ Holds(k)
  /\ shouldAbortStart' = FALSE
  /\ IF isRecording
     THEN /\ stop' = [stop EXCEPT ![k] = "probing"]
          /\ draining' = active /\ isRecording' = FALSE
          /\ done' = [done EXCEPT ![active] = @ + 1]
          /\ toNode' = Append(toNode, [type |-> "stop", of |-> active])
          /\ UNCHANGED mutex
     ELSE /\ stop' = [stop EXCEPT ![k] = "idle"]
          /\ Release
          /\ UNCHANGED <<draining, toNode, isRecording, done>>
  /\ UNCHANGED <<starts, init, current, useOpus, order, active, finalizing,
                 microphone, graph, building, fromNode, capturing, meet>>

StopEntered(k) ==
  /\ stop[k] = "queued" /\ Holds(k)
  /\ shouldAbortStart' = FALSE
  /\ IF isRecording
     THEN /\ stop' = [stop EXCEPT ![k] = "lastChunk"]
          /\ draining' = active
          /\ toNode' = Append(toNode, [type |-> "stop", of |-> active])
          /\ UNCHANGED mutex
     ELSE /\ stop' = [stop EXCEPT ![k] = "idle"]
          /\ Release
          /\ UNCHANGED <<draining, toNode>>
  /\ UNCHANGED <<starts, init, current, useOpus, order, active, isRecording, finalizing, done,
                 microphone, graph, building, fromNode, capturing, meet>>

RecordingDone(u) == done' = [done EXCEPT ![u] = @ + 1]

\* owningChunkUuid
Owning == IF draining # None THEN draining ELSE active

LastChunkIn(k) ==
  /\ stop[k] = "lastChunk" /\ ~isRecording
  /\ stop' = [stop EXCEPT ![k] = "probing"]
  /\ UNCHANGED <<starts, init, mutex, orders, recording, microphone, nodes, meet>>

\* Mutant: there is no timeout.
LastChunkAwaited(k) == FALSE

\* Mutant: the microphone is not closed after the timeout.
TimeoutWithoutCleanup(k) ==
  /\ stop[k] = "lastChunk" /\ isRecording
  /\ isRecording' = FALSE
  /\ RecordingDone(Owning)
  /\ stop' = [stop EXCEPT ![k] = "finalising"] /\ Release
  /\ toNode' = <<>> /\ capturing' = None
  /\ UNCHANGED <<starts, init, orders, active, draining, finalizing, microphone,
                 graph, building, fromNode, meet>>

\* waitForRecordingToStop gives up after two seconds.  The worklet answers
\* sooner, or not at all, unless Faults has "late".
LastChunkTimesOut(k) ==
  /\ stop[k] = "lastChunk" /\ isRecording
  /\ "late" \in Faults \/ (fromNode = <<>> /\ (toNode = <<>> \/ graph # "running"))
  /\ isRecording' = FALSE
  /\ RecordingDone(Owning)
  /\ stop' = [stop EXCEPT ![k] = "probing"]
  /\ toNode' = IF "late" \in Faults THEN toNode ELSE <<>>
  /\ capturing' = IF "late" \in Faults THEN capturing ELSE None
  /\ UNCHANGED <<starts, init, mutex, orders, active, draining, finalizing, microphone,
                 graph, building, fromNode, meet>>

\* cleanupMediaStream: its own getUserMedia call ends within three seconds and
\* is stopped, and so is the stream.
ProbeEnds(k) ==
  /\ stop[k] = "probing"
  /\ mic' = [mic EXCEPT ![stream] = "free"]
  /\ stop' = [stop EXCEPT ![k] = "settling"]
  /\ UNCHANGED <<starts, init, mutex, orders, recording, orphan, stream, nodes, meet>>

\* 40 ms later; condReloadAudioCxOnStop may reload the graph.
Settled(k) ==
  /\ stop[k] = "settling"
  /\ stream' = None
  /\ \/ stop' = [stop EXCEPT ![k] = "reloading"] /\ building' = TRUE /\ UNCHANGED mutex
     \/ stop' = [stop EXCEPT ![k] = "finalising"] /\ Release /\ UNCHANGED building
  /\ UNCHANGED <<starts, init, orders, recording, mic, orphan,
                 graph, toNode, fromNode, capturing, meet>>

Reloaded(k) ==
  /\ stop[k] = "reloading" /\ ~building
  /\ stop' = [stop EXCEPT ![k] = "finalising"]
  /\ Release
  /\ UNCHANGED <<starts, init, orders, recording, microphone, nodes, meet>>

\* Mutant: drainingChunkUuid is not cleared.
FinalisedOnly(k) ==
  /\ stop[k] = "finalising" /\ finalizing = None
  /\ stop' = [stop EXCEPT ![k] = "idle"]
  /\ orphan' = None
  /\ mic' = [r \in Sessions |-> IF r = orphan THEN "free" ELSE mic[r]]
  /\ UNCHANGED <<starts, init, mutex, orders, recording, stream, nodes, meet>>

\* Outside of the mutex: wait for the encoder, then let the next start pass.
\* The refresh of the devices discards an orphan.
Finalised(k) ==
  /\ stop[k] = "finalising" /\ finalizing = None
  /\ stop' = [stop EXCEPT ![k] = "idle"]
  /\ draining' = None
  /\ orphan' = None
  /\ mic' = [r \in Sessions |-> IF r = orphan THEN "free" ELSE mic[r]]
  /\ UNCHANGED <<starts, init, mutex, orders, active, isRecording, finalizing, done,
                 stream, nodes, meet>>

-----------------------------------------------------------------------------
(* The worklet and its messages *)

\* A suspended context processes nothing.
NodeStarts ==
  /\ graph = "running" /\ toNode # <<>> /\ Head(toNode).type = "start"
  /\ toNode' = Tail(toNode)
  /\ capturing' = Head(toNode).of
  /\ UNCHANGED <<starts, stop, init, mutex, orders, recording, microphone,
                 graph, building, fromNode, meet>>

NodeCaptures ==
  /\ graph = "running" /\ capturing # None /\ Len(fromNode) < MaxPending
  /\ fromNode' = Append(fromNode, [type |-> "chunk", of |-> capturing])
  /\ UNCHANGED <<starts, stop, init, mutex, orders, recording, microphone,
                 graph, building, toNode, capturing, meet>>

\* The worklet sends its last chunk before done.  One that was not capturing,
\* because the graph was replaced, may answer or not.
NodeStops ==
  /\ graph = "running" /\ toNode # <<>> /\ Head(toNode).type = "stop"
  /\ toNode' = Tail(toNode)
  /\ capturing' = None
  /\ \/ fromNode' = Append(fromNode, [type |-> "done", of |-> capturing])
     \/ capturing = None /\ UNCHANGED fromNode
  /\ UNCHANGED <<starts, stop, init, mutex, orders, recording, microphone, graph, building, meet>>

\* handleRecorderWorkletMessage: a chunk is sent to the main process as one of
\* activeChunkUuid.
ChunkArrives ==
  /\ fromNode # <<>> /\ Head(fromNode).type = "chunk"
  /\ fromNode' = Tail(fromNode)
  /\ UNCHANGED <<starts, stop, init, mutex, orders, recording, microphone,
                 graph, building, toNode, capturing, meet>>

DoneArrives ==
  /\ fromNode # <<>> /\ Head(fromNode).type = "done"
  /\ fromNode' = Tail(fromNode)
  /\ isRecording' = FALSE
  /\ IF ~isRecording THEN UNCHANGED <<finalizing, done>>
     ELSE IF useOpus THEN finalizing' = active /\ UNCHANGED done
     ELSE RecordingDone(Owning) /\ UNCHANGED finalizing
  /\ UNCHANGED <<starts, stop, init, mutex, orders, active, draining, microphone,
                 graph, building, toNode, capturing, meet>>

\* finalizeOpusEncoding: the flush ends or times out after a second.
FlushEnds ==
  /\ finalizing # None
  /\ finalizing' = None
  /\ RecordingDone(finalizing)
  /\ UNCHANGED <<starts, stop, init, mutex, orders, active, draining, isRecording,
                 microphone, nodes, meet>>

-----------------------------------------------------------------------------
(* The audio graph *)

\* buildAndPublishAudioGraph: the new graph replaces the published one, whatever
\* that one is used for.
BuildEnds ==
  /\ building
  /\ building' = FALSE
  /\ \/ /\ graph' \in {"running"} \cup (IF "suspend" \in Faults THEN {"suspended"} ELSE {})
        /\ toNode' = <<>> /\ capturing' = None
        /\ start' = [u \in Sessions |-> IF start[u] = "resuming" THEN "replaced" ELSE start[u]]
     \/ "graph" \in Faults /\ UNCHANGED <<graph, toNode, capturing, start>>
  /\ UNCHANGED <<answer, wanted, stop, init, mutex, orders, recording, microphone, fromNode, meet>>

ContextSuspended ==
  /\ graph = "running" /\ "suspend" \in Faults
  /\ graph' = "suspended"
  /\ UNCHANGED <<starts, stop, init, mutex, orders, recording, microphone,
                 building, toNode, fromNode, capturing, meet>>

\* A resume() of startRecording or of the state handler succeeds.
ContextResumed ==
  /\ graph = "suspended" /\ (isRecording \/ \E u \in Sessions : start[u] = "resuming")
  /\ graph' = "running"
  /\ UNCHANGED <<starts, stop, init, mutex, orders, recording, microphone,
                 building, toNode, fromNode, capturing, meet>>

InitializeCalled ==
  /\ init = "idle" /\ ~isRecording
  /\ init' = "queued"
  /\ Calls("init")
  /\ UNCHANGED <<starts, stop, orders, recording, microphone, nodes, meet>>

InitializeEntered ==
  /\ init = "queued" /\ Holds("init")
  /\ IF isRecording
     THEN init' = "idle" /\ Release /\ UNCHANGED building
     ELSE init' = "reloading" /\ building' = TRUE /\ UNCHANGED mutex
  /\ UNCHANGED <<starts, stop, orders, recording, microphone,
                 graph, toNode, fromNode, capturing, meet>>

InitializeEnds ==
  /\ init = "reloading" /\ ~building
  /\ init' = "idle"
  /\ Release
  /\ UNCHANGED <<starts, stop, orders, recording, microphone, nodes, meet>>

-----------------------------------------------------------------------------
(* The meeting's microphone (module MeetingCapture has all of it) *)

MeetingStep == <<starts, stop, init, orders, recording, microphone, nodes>>

\* A start that awaited the meeting goes on before the next message is handled.
NoneToContinue ==
  \A u \in Sessions :
    ~(\/ start[u] = "meetingStart" /\ ~MeetingStarting
      \/ start[u] = "meetingStop" /\ meet # "stopping")

\* runMeetingMicStart: while a dictation records, wait for the mutex.
MeetingStarts ==
  /\ "meeting" \in Faults /\ meet = "off" /\ NoneToContinue
  /\ IF isRecording
     THEN meet' = "queued" /\ Calls("meeting")
     ELSE meet' = "acquiring" /\ UNCHANGED mutex
  /\ UNCHANGED MeetingStep

MeetingAdmitted ==
  /\ meet = "queued" /\ Holds("meeting")
  /\ Release
  /\ meet' = IF isRecording THEN "off" ELSE "acquiring"
  /\ UNCHANGED MeetingStep

MeetingAcquires ==
  /\ meet = "acquiring"
  /\ meet' \in {"on"} \cup (IF "mic" \in Faults THEN {"off"} ELSE {})
  /\ UNCHANGED <<MeetingStep, mutex>>

MeetingStops ==
  /\ meet = "on" /\ NoneToContinue
  /\ meet' = "stopping"
  /\ UNCHANGED <<MeetingStep, mutex>>

MeetingStopped ==
  /\ meet = "stopping"
  /\ meet' = "off"
  /\ UNCHANGED <<MeetingStep, mutex>>

-----------------------------------------------------------------------------
Starting(u) ==
  StartEntered(u) \/ DrainSettled(u) \/ MeetingAwaited(u) \/ ResumeEnds(u) \/ BackoffEnds(u)

MicAnswers(u) == MicGranted(u) \/ MicFails(u) \/ RetryGranted(u) \/ RetryFails(u)

Stopping(k) ==
  \/ StopEntered(k) \/ LastChunkIn(k) \/ ProbeEnds(k) \/ Settled(k)
  \/ Reloaded(k) \/ Finalised(k)

Messages == ChunkArrives \/ DoneArrives \/ FlushEnds
Worklet == NodeStarts \/ NodeStops
Background == BuildEnds \/ InitializeEntered \/ InitializeEnds
Meeting == MeetingAdmitted \/ MeetingAcquires \/ MeetingStopped

Next ==
  \/ \E u \in Sessions :
       AudioStart(u) \/ Starting(u) \/ DrainTimesOut(u) \/ MicAnswers(u)
  \/ \E k \in Stops : StopCalled(k) \/ Stopping(k) \/ LastChunkTimesOut(k)
  \/ OrphanDiscarded \/ ForgottenSettles \/ Messages \/ Worklet \/ NodeCaptures
  \/ Background \/ ContextSuspended \/ ContextResumed \/ InitializeCalled
  \/ MeetingStarts \/ Meeting \/ MeetingStops

Spec == Init /\ [][Next]_vars

\* What goes on by itself: the event loop runs every continuation whose await is
\* settled, timers expire, and getUserMedia settles.
Internal ==
  \/ \E u \in Sessions : Starting(u) \/ MicAnswers(u)
  \/ \E k \in Stops : Stopping(k) \/ LastChunkTimesOut(k)
  \/ Messages \/ Worklet \/ Background \/ Meeting

\* It does so again and again.  What the user, the main process and the system
\* do is not fair.
Fairness ==
  /\ \A u \in Sessions : WF_vars(Starting(u)) /\ WF_vars(MicAnswers(u))
  /\ \A k \in Stops : WF_vars(Stopping(k)) /\ WF_vars(LastChunkTimesOut(k))
  /\ WF_vars(Messages) /\ SF_vars(Worklet) /\ WF_vars(Background) /\ WF_vars(Meeting)

FairSpec == Spec /\ Fairness

-----------------------------------------------------------------------------
(* Properties *)

TypeOK ==
  /\ start \in [Sessions -> {"idle", "queued", "draining", "meetingStart", "meetingStop",
                             "resuming", "replaced", "acquiring", "backoff1", "retry1",
                             "backoff2", "retry2"}]
  /\ answer \in [Sessions -> {"none", "started", "aborted", "failed", "recovering"}]
  /\ stop \in [Stops -> {"idle", "queued", "lastChunk", "probing", "settling", "reloading",
                         "finalising"}]
  /\ init \in {"idle", "queued", "reloading"}
  /\ mutex \in Seq(Sessions \cup Stops \cup {"init", "meeting"}) /\ IsInjective(mutex)
  /\ {shouldAbortStart, isRecording, useOpus, building} \subseteq BOOLEAN
  /\ {current, active, draining, finalizing, orphan, wanted, stream, capturing}
       \subseteq Sessions \cup {None}
  /\ done \in [Sessions -> Nat]
  /\ mic \in [Sessions -> {"free", "pending", "live", "forgotten"}]
  /\ graph \in {"none", "running", "suspended"}
  /\ meet \in {"off", "queued", "acquiring", "on", "stopping"}
  /\ order \in {"start", "stop"}

\* When the last thing asked for was a stop and every stop has returned, nothing
\* records or is about to, and Vm.stream is gone.
StopIsFinal ==
  order = "stop" /\ (\A k \in Stops : stop[k] = "idle")
    => ~isRecording /\ stream = None /\ InFlight = {}

\* What the log of the orphan says, "resolved unclaimed - stopped tracks", holds of
\* every call whose start was aborted: an open microphone is that of Vm.stream.
AbortedMicsClose == \A r \in Sessions : mic[r] = "live" => stream = r

\* Vm.stream outlives its recording only in the hands of a stop that closes it.
StreamHeld ==
  stream # None => isRecording \/ \E k \in Stops : stop[k] \in {"lastChunk", "probing", "settling"}

\* No microphone stays open: those of aborted starts are closed, that of Vm.stream
\* is recording or a stop closes it.
MicReleased == AbortedMicsClose /\ StreamHeld

\* Audio is sent under the session that it was recorded for.
AudioGoesHome ==
  \A i \in DOMAIN fromNode : fromNode[i].type = "chunk" => fromNode[i].of = active

Phase(u) ==
  IF done[u] > 0 THEN "ended"
  ELSE IF (isRecording /\ active = u) \/ finalizing = u THEN "recording"
  ELSE IF answer[u] \in {"aborted", "failed"} THEN "refused"
  ELSE "new"

Service == INSTANCE DictationService
             WITH phase <- [u \in Sessions |-> Phase(u)], reported <- done

\* One dictation at a time, each reported done exactly once, and none begins
\* before the end of the one before it was reported.
ImplementsService == Service!Spec

\* A start that holds the mutex awaits the meeting's start, which waits for the
\* mutex.
CircularWait == meet = "queued" /\ \E u \in Sessions : start[u] = "meetingStart"

\* What it awaits has happened, is a timer or getUserMedia, or comes by itself.
StartReady(u) ==
  \/ start[u] = "queued" /\ Holds(u)
  \/ start[u] = "draining" /\ draining = None
  \/ start[u] = "meetingStart" /\ ~MeetingStarting
  \/ start[u] = "meetingStop" /\ meet # "stopping"
  \/ start[u] \in {"resuming", "replaced", "acquiring", "backoff1", "retry1", "backoff2", "retry2"}
StopReady(k) ==
  \/ stop[k] = "queued" /\ Holds(k)
  \/ stop[k] = "lastChunk" /\ (isRecording => fromNode = <<>> /\ (toNode = <<>> \/ graph # "running"))
  \/ stop[k] \in {"probing", "settling"}
  \/ stop[k] = "reloading" /\ ~building
  \/ stop[k] = "finalising" /\ finalizing = None
OthersReady ==
  \/ fromNode # <<>> \/ finalizing # None \/ (toNode # <<>> /\ graph = "running")
  \/ building \/ (init = "queued" /\ Holds("init")) \/ (init = "reloading" /\ ~building)
  \/ meet \in {"acquiring", "stopping"} \/ (meet = "queued" /\ Holds("meeting"))
Ready == (\E u \in Sessions : StartReady(u)) \/ (\E k \in Stops : StopReady(k)) \/ OthersReady

UnderWay == InFlight # {} \/ \E k \in Stops : stop[k] # "idle"

\* While a start or a stop is under way somebody can go on, except in a circular wait:
\* the mutex, the end of the recording before, its encoder, the worklet and the meeting
\* never wait for each other in a circle otherwise.
NeverStuck == UnderWay => CircularWait \/ Ready

\* Every stop that was asked for returns, whatever the worklet, the graph, the
\* microphone and the calls before it in the mutex do, unless a start and a
\* meeting wait for each other.
EveryStopReturns ==
  \A k \in Stops : stop[k] # "idle" ~> (stop[k] = "idle" \/ CircularWait)

\* What startRecording means by "awaiting in-flight meeting mic start before dictation
\* start": that start settles, and the dictation is answered.
MeetingWaitEnds ==
  \A u \in Sessions : start[u] = "meetingStart" ~> start[u] # "meetingStart"
=============================================================================
