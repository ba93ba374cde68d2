-------------------------- MODULE Dictation_proofs --------------------------
(***************************************************************************)
(* Proofs about Dictation, for any number of dictations and of stops, and  *)
(* under every fault except the late answer of the worklet: the mutex      *)
(* excludes, every variable has its type, Dictation implements             *)
(* DictationService, the microphone is released, audio is sent under its   *)
(* own session, the last stop leaves nothing recording, and nobody waits   *)
(* in a circle but for the one of a start and a meeting.                   *)
(***************************************************************************)
EXTENDS Dictation, TLAPS

Names == Sessions \cup Stops \cup {"init", "meeting"}

-----------------------------------------------------------------------------
(* The queue of the mutex *)

In(s, x) == \E i \in DOMAIN s : s[i] = x

\* No stop stands before u.
First(s, u) == \A i, j \in DOMAIN s : s[i] \in Stops /\ s[j] = u => j < i

\* Who calls acquire() goes to the end of the queue.
LEMMA AppendQueue ==
  ASSUME NEW s \in Seq(Names), IsInjective(s), NEW x \in Names, ~In(s, x)
  PROVE  /\ Append(s, x) \in Seq(Names)
         /\ IsInjective(Append(s, x))
         /\ \A y : In(Append(s, x), y) <=> In(s, y) \/ y = x
         /\ s # <<>> => Head(Append(s, x)) = Head(s)
         /\ Append(s, x) # <<>>
         /\ \A u : First(s, u) /\ u # x => First(Append(s, x), u)
         /\ (\A k \in Stops : ~In(s, k)) /\ x \notin Stops => First(Append(s, x), x)
<1> DEFINE t == Append(s, x)
<1>1. /\ t \in Seq(Names) /\ Len(t) = Len(s) + 1
      /\ DOMAIN t = 1 .. Len(s) + 1 /\ DOMAIN s = 1 .. Len(s) /\ Len(s) \in Nat
      /\ \A i \in 1 .. Len(s) : t[i] = s[i]
      /\ t[Len(s) + 1] = x
  OBVIOUS
<1> HIDE DEF t
<1>2. IsInjective(t)
  BY <1>1 DEF IsInjective, In
<1>3. \A y : In(t, y) <=> In(s, y) \/ y = x
  <2> TAKE y
  <2>1. In(t, y) => In(s, y) \/ y = x
    BY <1>1 DEF In
  <2>2. In(s, y) => In(t, y)
    BY <1>1 DEF In
  <2>3. In(t, x)
    BY <1>1 DEF In
  <2> QED BY <2>1, <2>2, <2>3
<1>4. s # <<>> => Head(t) = Head(s)
  BY DEF t
<1>5. t # <<>>
  BY <1>1
<1>6. ASSUME NEW u, First(s, u), u # x PROVE First(t, u)
  BY <1>1, <1>6 DEF First
<1>7. ASSUME \A k \in Stops : ~In(s, k), x \notin Stops PROVE First(t, x)
  BY <1>1, <1>7 DEF First, In
<1> QED BY <1>1, <1>2, <1>3, <1>4, <1>5, <1>6, <1>7 DEF t

\* Who releases the mutex leaves the queue, and nobody else does.
LEMMA TailQueue ==
  ASSUME NEW s \in Seq(Names), IsInjective(s), s # <<>>
  PROVE  /\ Tail(s) \in Seq(Names)
         /\ IsInjective(Tail(s))
         /\ \A y : In(Tail(s), y) <=> In(s, y) /\ y # Head(s)
         /\ Head(s) \in Names /\ In(s, Head(s))
         /\ \A u : First(s, u) => First(Tail(s), u)
<1> DEFINE t == Tail(s)
<1>1. /\ t \in Seq(Names) /\ Len(t) = Len(s) - 1
      /\ DOMAIN t = 1 .. Len(s) - 1 /\ DOMAIN s = 1 .. Len(s) /\ Len(s) \in Nat /\ Len(s) > 0
      /\ \A i \in 1 .. Len(s) - 1 : t[i] = s[i + 1]
      /\ s[1] = Head(s) /\ Head(s) \in Names
  OBVIOUS
<1> HIDE DEF t
<1>2. IsInjective(t)
  BY <1>1 DEF IsInjective
<1>3. \A y : In(t, y) <=> In(s, y) /\ y # Head(s)
  <2> TAKE y
  <2>1. ASSUME In(t, y) PROVE In(s, y) /\ y # Head(s)
    <3>1. PICK i \in 1 .. Len(s) - 1 : t[i] = y
      BY <1>1, <2>1 DEF In
    <3>2. s[i + 1] = y /\ i + 1 \in 1 .. Len(s) /\ i + 1 # 1
      BY <1>1, <3>1
    <3> QED BY <1>1, <3>2 DEF In, IsInjective
  <2>2. ASSUME In(s, y), y # Head(s) PROVE In(t, y)
    <3>1. PICK i \in 1 .. Len(s) : s[i] = y
      BY <1>1, <2>2 DEF In
    <3>2. i - 1 \in 1 .. Len(s) - 1
      BY <1>1, <2>2, <3>1
    <3>3. i - 1 \in DOMAIN t /\ t[i - 1] = y
      BY <1>1, <3>1, <3>2
    <3> QED BY <3>3 DEF In
  <2> QED BY <2>1, <2>2
<1>4. In(s, Head(s))
  BY <1>1 DEF In
<1>5. ASSUME NEW u, First(s, u) PROVE First(t, u)
  <2> SUFFICES ASSUME NEW i \in DOMAIN t, NEW j \in DOMAIN t, t[i] \in Stops, t[j] = u
               PROVE  j < i
    BY DEF First
  <2>1. /\ i + 1 \in DOMAIN s /\ j + 1 \in DOMAIN s
        /\ s[i + 1] = t[i] /\ s[j + 1] = t[j]
    BY <1>1
  <2>2. j + 1 < i + 1
    BY <1>5, <2>1 DEF First
  <2> QED BY <1>1, <2>2
<1> QED BY <1>1, <1>2, <1>3, <1>4, <1>5 DEF t

-----------------------------------------------------------------------------
(* The inductive invariant *)

\* Who is in the queue, and that what goes on inside the mutex is its holder's.
MutexInv ==
  /\ \A u \in Sessions : start[u] # "idle" <=> In(mutex, u)
  /\ \A k \in Stops : stop[k] \notin {"idle", "finalising"} <=> In(mutex, k)
  /\ init # "idle" <=> In(mutex, "init")
  /\ meet = "queued" <=> In(mutex, "meeting")
  /\ \A u \in Sessions : start[u] \notin {"idle", "queued"} => Holds(u)
  /\ \A k \in Stops : stop[k] \notin {"idle", "queued", "finalising"} => Holds(k)
  /\ init = "reloading" => Holds("init")
  /\ \A u, v \in InFlight : u = v
  /\ InFlight # {} => current \in Sessions

Ends(k) == stop[k] \notin {"idle", "queued"}

\* One stop at a time ends a recording, and drainingChunkUuid is set as long.
EndInv ==
  /\ \A k, l \in Stops : Ends(k) /\ Ends(l) => k = l
  /\ draining # None <=> \E k \in Stops : Ends(k)
  /\ draining # None => draining = active
  /\ isRecording => active \in Sessions
  /\ \A k \in Stops : isRecording /\ Ends(k) => stop[k] = "lastChunk"
  /\ finalizing # None => finalizing = draining /\ ~isRecording

\* No stop has got or will get the mutex before u.
Ahead(u) == draining = None /\ First(mutex, u)

\* u has not begun, and may be asked for.
Unheard(u) == answer[u] \in {"none", "recovering"}

\* A start past its checks finds nothing that records or drains.  One that is asked
\* for again while it records, or while currentTranscriptionEntityUuid is that of
\* the recording, gets the mutex before any stop.
StartInv ==
  \A u \in Sessions :
    /\ start[u] \notin {"idle", "queued"} => ~isRecording /\ Unheard(u)
    /\ start[u] \notin {"idle", "queued", "draining"} => draining = None
    /\ start[u] = "queued" /\ ~Unheard(u) => active = u
    /\ start[u] = "queued" /\ (~Unheard(u) \/ current = active) => isRecording /\ Ahead(u)

Message(types) == [type : types, of : Sessions \cup {None}]

Has(s, t) == \E i \in DOMAIN s : s[i].type = t
Once(s, t) == \A i, j \in DOMAIN s : s[i].type = t /\ s[j].type = t => i = j

\* The worklet is asked to stop, or says that it has, once for each recording.
MessageInv ==
  /\ toNode \in Seq(Message({"start", "stop"})) /\ Once(toNode, "stop")
  /\ fromNode \in Seq(Message({"chunk", "done"})) /\ Once(fromNode, "done")
  /\ Has(toNode, "stop") => isRecording /\ draining # None /\ ~Has(fromNode, "done")
  /\ Has(fromNode, "done") => isRecording /\ draining # None

\* What was reported done does not record, and what was not heard of never did.
DoneInv ==
  \A u \in Sessions :
    /\ done[u] \in {0, 1}
    /\ done[u] = 1 => ~(isRecording /\ active = u) /\ finalizing # u
    /\ Unheard(u) => done[u] = 0 /\ active # u

ServiceInv == TypeOK /\ MutexInv /\ EndInv /\ StartInv /\ MessageInv /\ DoneInv

LEMMA ServiceInit == Init => ServiceInv
<1> SUFFICES ASSUME Init PROVE ServiceInv
  OBVIOUS
<1> USE NoneAssumption DEF Init
<1>1. TypeOK
  <2>1. IsInjective(mutex) /\ mutex \in Seq(Sessions \cup Stops \cup {"init", "meeting"})
    BY DEF IsInjective
  <2>2. {shouldAbortStart, isRecording, useOpus, building} \subseteq BOOLEAN
    OBVIOUS
  <2> QED BY <2>1, <2>2 DEF TypeOK
<1>2. MutexInv
  BY DEF MutexInv, In, InFlight
<1>3. EndInv /\ StartInv /\ DoneInv
  BY DEF EndInv, Ends, StartInv, Unheard, DoneInv
<1>4. MessageInv
  BY DEF MessageInv, Has, Once
<1> QED BY <1>1, <1>2, <1>3, <1>4 DEF ServiceInv

-----------------------------------------------------------------------------
(* What a step of a start can do *)

Stages == {"draining", "meetingStart", "meetingStop", "resuming", "replaced", "acquiring",
           "backoff1", "retry1", "backoff2", "retry2"}

StopStages == {"idle", "queued", "lastChunk", "probing", "settling", "reloading", "finalising"}

Ended(u, a) ==
  /\ start' = [start EXCEPT ![u] = "idle"]
  /\ answer' = [answer EXCEPT ![u] = a]
  /\ mutex' = Tail(mutex)

Waited(u, stage) ==
  /\ start' = [start EXCEPT ![u] = stage]
  /\ UNCHANGED <<answer, mutex>>

NoRecordingYet == UNCHANGED <<active, isRecording, toNode>>

Begun(u) ==
  /\ active' = u /\ isRecording' = TRUE
  /\ toNode' = Append(toNode, [type |-> "start", of |-> u])

StartStays ==
  /\ UNCHANGED <<stop, init, shouldAbortStart, current, useOpus, order, draining, finalizing, done,
                 graph, fromNode, capturing, meet>>
  /\ mic' \in [Sessions -> {"free", "pending", "live", "forgotten"}]
  /\ {wanted', orphan', stream'} \subseteq Sessions \cup {None}
  /\ building' \in BOOLEAN

\* A start answers, waits, or begins to record; it goes on only while nothing records
\* or drains.
StartMoves(u) ==
  /\ start[u] # "idle" /\ Holds(u)
  /\ StartStays
  /\ \/ \E a \in {"aborted", "failed", "started"} : Ended(u, a) /\ NoRecordingYet
     \/ ~isRecording /\ Ended(u, "recovering") /\ NoRecordingYet
     \/ /\ \E s \in Stages : Waited(u, s) /\ (s # "draining" => draining = None)
        /\ ~isRecording /\ NoRecordingYet
     \/ ~isRecording /\ draining = None /\ Ended(u, "started") /\ Begun(u)

\* What a start knows behind its checks.
Clear(u) == TypeOK /\ u \in Sessions /\ start[u] # "idle" /\ Holds(u) /\ ~isRecording /\ draining = None

LEMMA RepairMoves ==
  ASSUME NEW u, Clear(u), Repair(u), UNCHANGED Started
  PROVE  StartMoves(u)
<1> USE DEF Clear, Started, orders, recording, microphone
<1>1. StartStays
  BY NoneAssumption DEF Repair, Answer, StartStays, TypeOK
<1>2. NoRecordingYet
  BY DEF NoRecordingYet
<1>3. Ended(u, "aborted") \/ Ended(u, "recovering")
  BY DEF Repair, Answer, Release, Ended
<1> QED BY <1>1, <1>2, <1>3 DEF StartMoves

LEMMA WaitMoves ==
  ASSUME NEW u, Clear(u), NEW s \in Stages, Waits(u, s), UNCHANGED Started,
         UNCHANGED <<building, microphone>>
  PROVE  StartMoves(u)
<1> USE DEF Clear, Started, orders, recording, microphone
<1>1. StartStays
  BY NoneAssumption DEF Waits, StartStays, TypeOK
<1>2. NoRecordingYet
  BY DEF NoRecordingYet
<1>3. Waited(u, s)
  BY DEF Waits, Waited
<1> QED BY <1>1, <1>2, <1>3 DEF StartMoves

LEMMA AbortMoves ==
  ASSUME NEW u \in Sessions, TypeOK, start[u] # "idle", Holds(u), UNCHANGED Started,
         NEW a \in {"aborted", "failed", "started"}, Answer(u, a),
         UNCHANGED <<building, microphone>>
  PROVE  StartMoves(u)
<1> USE DEF Started, orders, recording, microphone
<1>1. StartStays
  BY NoneAssumption DEF Answer, StartStays, TypeOK
<1>2. NoRecordingYet
  BY DEF NoRecordingYet
<1>3. Ended(u, a)
  BY DEF Answer, Release, Ended
<1> QED BY <1>1, <1>2, <1>3 DEF StartMoves

LEMMA AcquireMoves ==
  ASSUME NEW u, Clear(u), Acquire(u), UNCHANGED Started
  PROVE  StartMoves(u)
<1>1. CASE shouldAbortStart
  BY <1>1, AbortMoves DEF Acquire, Clear, microphone
<1>2. CASE ~shouldAbortStart
  <2> USE DEF Clear, Started, orders, recording
  <2>1. /\ start' = [start EXCEPT ![u] = "acquiring"] /\ orphan' = None
        /\ wanted' \in {orphan, u} /\ (wanted' = orphan => orphan # None \/ orphan = u)
        /\ mic' = mic \/ mic' = [r \in Sessions |-> IF r = u THEN "pending"
                                                   ELSE IF r = orphan THEN "free" ELSE mic[r]]
        /\ UNCHANGED <<answer, mutex, building, stream>>
    BY <1>2 DEF Acquire
  <2>2. StartStays
    <3>1. mic' \in [Sessions -> {"free", "pending", "live", "forgotten"}]
      BY <2>1 DEF TypeOK
    <3>2. {wanted', orphan', stream'} \subseteq Sessions \cup {None} /\ building' \in BOOLEAN
      BY <2>1 DEF TypeOK
    <3> QED BY <3>1, <3>2 DEF StartStays
  <2>3. Waited(u, "acquiring") /\ NoRecordingYet
    BY <2>1 DEF Waited, NoRecordingYet
  <2> QED BY <2>2, <2>3 DEF StartMoves, Stages
<1> QED BY <1>1, <1>2

LEMMA CheckGraphMoves ==
  ASSUME NEW u, Clear(u), CheckGraph(u), UNCHANGED Started
  PROVE  StartMoves(u)
BY AcquireMoves, RepairMoves, WaitMoves DEF CheckGraph, Stages

LEMMA CheckMeetingMoves ==
  ASSUME NEW u, Clear(u), CheckMeeting(u), UNCHANGED Started
  PROVE  StartMoves(u)
BY AbortMoves, CheckGraphMoves, WaitMoves DEF CheckMeeting, Stages, Clear

LEMMA CheckRecordingMoves ==
  ASSUME NEW u \in Sessions, TypeOK, start[u] # "idle", Holds(u), UNCHANGED Started,
         isRecording \/ draining = None, CheckRecording(u)
  PROVE  StartMoves(u)
BY AbortMoves, CheckMeetingMoves, WaitMoves DEF CheckRecording, Stages, Clear

LEMMA ConnectMoves ==
  ASSUME NEW u, Clear(u), NEW r \in Sessions \cup {None}, Connect(u, r), UNCHANGED Acquired
  PROVE  StartMoves(u)
<1> USE DEF Clear, Acquired, orders
<1>1. StartStays
  <2>1. wanted' = None /\ stream' \in {r, stream} /\ orphan' = orphan /\ building' = building
    BY DEF Connect, Answer
  <2>2. mic' = [mic EXCEPT ![r] = "live"] \/ mic' = [mic EXCEPT ![r] = "free"]
    BY DEF Connect
  <2>3. mic' \in [Sessions -> {"free", "pending", "live", "forgotten"}]
    BY <2>2 DEF TypeOK
  <2>4. {wanted', orphan', stream'} \subseteq Sessions \cup {None} /\ building' \in BOOLEAN
    BY <2>1 DEF TypeOK
  <2> QED BY <2>3, <2>4 DEF StartStays
<1>2. \/ Ended(u, "started") /\ Begun(u)
      \/ Ended(u, "failed") /\ NoRecordingYet
  BY DEF Connect, Answer, Release, Ended, Begun, NoRecordingYet
<1> QED BY <1>1, <1>2 DEF StartMoves

StartStep(u) == Starting(u) \/ DrainTimesOut(u) \/ MicAnswers(u)

LEMMA StartStepMoves ==
  ASSUME ServiceInv, NEW u \in Sessions, StartStep(u)
  PROVE  StartMoves(u)
<1> USE DEF ServiceInv
<1>1. CASE StartEntered(u)
  <2>1. start[u] # "idle" /\ Holds(u) /\ UNCHANGED Started
    BY <1>1 DEF StartEntered
  <2>2. CASE Blocker = None /\ CheckRecording(u)
    <3>1. isRecording \/ draining = None
      <4> SUFFICES ASSUME draining # None PROVE FALSE
        BY <1>1, <2>2
      <4>1. draining = active /\ draining = current
        BY <2>2 DEF Blocker, EndInv
      <4>2. start[u] = "queued"
        BY <1>1 DEF StartEntered
      <4> QED BY <4>1, <4>2 DEF StartInv, Ahead
    <3> QED BY <2>1, <2>2, <3>1, CheckRecordingMoves
  <2>3. CASE Answer(u, "aborted") /\ UNCHANGED <<building, microphone>>
    BY <2>1, <2>3, AbortMoves
  <2>4. CASE ~isRecording /\ Waits(u, "draining") /\ UNCHANGED <<building, microphone>>
    <3> USE DEF Started, orders, recording, microphone
    <3>1. StartStays
      BY <2>1, <2>4, NoneAssumption DEF Waits, StartStays, TypeOK
    <3>2. Waited(u, "draining") /\ NoRecordingYet
      BY <2>1, <2>4 DEF Waits, Waited, NoRecordingYet
    <3> QED BY <2>1, <2>4, <3>1, <3>2 DEF StartMoves, Stages
  <2> QED BY <1>1, <2>2, <2>3, <2>4 DEF StartEntered
<1>2. CASE DrainSettled(u)
  <2>1. Holds(u) /\ ~isRecording
    BY <1>2 DEF DrainSettled, MutexInv, StartInv
  <2> QED BY <1>2, <2>1, CheckRecordingMoves DEF DrainSettled
<1>3. CASE DrainTimesOut(u)
  <2>1. Holds(u)
    BY <1>3 DEF DrainTimesOut, MutexInv
  <2> QED BY <1>3, <2>1, AbortMoves DEF DrainTimesOut
<1> DEFINE Past == start[u] \in Stages \ {"draining"}
<1>4. Past => Clear(u)
  BY DEF MutexInv, StartInv, Clear, Stages
<1>5. CASE MeetingAwaited(u)
  BY <1>4, <1>5, CheckMeetingMoves, CheckGraphMoves DEF MeetingAwaited, Stages
<1>6. CASE ResumeEnds(u)
  BY <1>4, <1>6, AcquireMoves, RepairMoves DEF ResumeEnds, Stages
<1>7. CASE BackoffEnds(u)
  <2> USE DEF Acquired, orders, Clear
  <2>1. Clear(u)
    BY <1>4, <1>7 DEF BackoffEnds, Stages
  <2>2. CASE shouldAbortStart
    <3>1. StartStays
      BY <1>7, <2>1, <2>2, NoneAssumption DEF BackoffEnds, Answer, StartStays, TypeOK
    <3>2. Ended(u, "aborted") /\ NoRecordingYet
      BY <1>7, <2>2 DEF BackoffEnds, Answer, Release, Ended, NoRecordingYet
    <3> QED BY <2>1, <3>1, <3>2 DEF StartMoves
  <2>3. CASE ~shouldAbortStart
    <3>1. PICK s \in {"retry1", "retry2"} : Waits(u, s)
      BY <1>7, <2>3 DEF BackoffEnds
    <3>2. StartStays
      BY <1>7, <2>1, <2>3, <3>1, NoneAssumption DEF BackoffEnds, Waits, StartStays, TypeOK
    <3>3. Waited(u, s) /\ NoRecordingYet
      BY <1>7, <3>1 DEF BackoffEnds, Waits, Waited, NoRecordingYet
    <3> QED BY <2>1, <3>2, <3>3 DEF StartMoves, Stages
  <2> QED BY <2>2, <2>3
<1>8. CASE MicGranted(u)
  BY <1>4, <1>8, ConnectMoves DEF MicGranted, Stages, TypeOK
<1>9. CASE RetryGranted(u)
  BY <1>4, <1>9, ConnectMoves DEF RetryGranted, Stages
<1>10. CASE MicFails(u) \/ RetryFails(u)
  <2> USE DEF Acquired, orders, Clear
  <2>1. Clear(u)
    BY <1>4, <1>10 DEF MicFails, RetryFails, Stages
  <2>2. /\ UNCHANGED <<Acquired, active, isRecording, toNode, stream>>
        /\ \E r \in Sessions \cup {None} : mic' = [mic EXCEPT ![r] = "free"]
    BY <1>10 DEF MicFails, RetryFails, TypeOK
  <2>3. Answer(u, "failed") \/ \E s \in {"backoff1", "backoff2"} : Waits(u, s)
    BY <1>10 DEF MicFails, RetryFails
  <2>4. StartStays
    BY <2>1, <2>2, <2>3, NoneAssumption DEF Answer, Waits, StartStays, TypeOK
  <2>5. NoRecordingYet
    BY <2>2 DEF NoRecordingYet
  <2>6. Ended(u, "failed") \/ \E s \in {"backoff1", "backoff2"} : Waited(u, s)
    BY <2>2, <2>3 DEF Answer, Waits, Release, Ended, Waited
  <2> QED BY <2>1, <2>4, <2>5, <2>6 DEF StartMoves, Stages
<1> QED BY <1>1, <1>2, <1>3, <1>5, <1>6, <1>7, <1>8, <1>9, <1>10
        DEF StartStep, Starting, MicAnswers

-----------------------------------------------------------------------------
(* The queue and its holder *)

Queue == mutex \in Seq(Names) /\ IsInjective(mutex)

LEMMA TypeQueue == TypeOK => Queue
BY DEF TypeOK, Queue, Names

\* The holder of the mutex leaves it.
LEMMA Leaves ==
  ASSUME Queue, NEW x, Holds(x), mutex' = Tail(mutex)
  PROVE  /\ Queue'
         /\ \A y : In(mutex', y) <=> In(mutex, y) /\ y # x
         /\ \A u : First(mutex, u) => First(mutex', u)
BY TailQueue DEF Queue, Holds

\* Somebody joins the queue.
LEMMA Joins ==
  ASSUME Queue, NEW x \in Names, ~In(mutex, x), mutex' = Append(mutex, x)
  PROVE  /\ Queue'
         /\ \A y : In(mutex', y) <=> In(mutex, y) \/ y = x
         /\ \A y : Holds(y) => Holds(y)'
BY AppendQueue DEF Queue, Holds

LEMMA MutexUnchanged ==
  MutexInv /\ Queue /\ UNCHANGED <<start, stop, init, meet, mutex, current>> => MutexInv' /\ Queue'
BY DEF MutexInv, Queue, Holds, InFlight

LEMMA MutexStart ==
  ASSUME MutexInv, Queue, TypeOK, NEW u \in Sessions, StartMoves(u)
  PROVE  MutexInv' /\ Queue'
<1> USE NoneAssumption, NamesAssumption
<1>1. Holds(u) /\ start[u] # "idle" /\ UNCHANGED <<stop, init, meet, current>>
  BY DEF StartMoves, StartStays
<1>2. ASSUME NEW a, Ended(u, a) PROVE MutexInv' /\ Queue'
  <2>1. /\ Queue'
        /\ \A y : In(mutex', y) <=> In(mutex, y) /\ y # u
    BY <1>1, <1>2, Leaves DEF Ended
  <2>2. start' = [start EXCEPT ![u] = "idle"] /\ start \in [Sessions -> Stages \cup {"idle", "queued"}]
    BY <1>2 DEF Ended, TypeOK, Stages
  <2>3. \A y : Holds(y) => y = u
    BY <1>1 DEF Holds
  <2> QED BY <1>1, <2>1, <2>2, <2>3 DEF MutexInv, InFlight
<1>3. ASSUME NEW s \in Stages, Waited(u, s) PROVE MutexInv' /\ Queue'
  <2>1. /\ start' = [start EXCEPT ![u] = s] /\ start \in [Sessions -> Stages \cup {"idle", "queued"}] /\ s # "idle"
        /\ UNCHANGED mutex
    BY <1>3 DEF Waited, TypeOK, Stages
  <2> QED BY <1>1, <2>1 DEF MutexInv, InFlight, Queue, Holds
<1> QED BY <1>2, <1>3 DEF StartMoves

LEMMA MutexAudioStart ==
  ASSUME MutexInv, Queue, TypeOK, NEW u \in Sessions, AudioStart(u)
  PROVE  MutexInv' /\ Queue'
<1> USE NoneAssumption, NamesAssumption
<1>1. UNCHANGED <<stop, init, meet>> /\ current' = u
  BY DEF AudioStart
<1>2. CASE InFlight = {}
  <2>1. /\ start' = [start EXCEPT ![u] = "queued"] /\ start \in [Sessions -> Stages \cup {"idle", "queued"}]
        /\ mutex' = Append(mutex, u)
    BY <1>2 DEF AudioStart, Calls, TypeOK, Stages
  <2>2. ~In(mutex, u) /\ \A v \in Sessions : start[v] = "idle"
    BY <1>2 DEF MutexInv, InFlight
  <2>3. /\ Queue'
        /\ \A y : In(mutex', y) <=> In(mutex, y) \/ y = u
        /\ \A y : Holds(y) => Holds(y)'
    BY <2>1, <2>2, Joins DEF Names
  <2> QED BY <1>1, <2>1, <2>2, <2>3 DEF MutexInv, InFlight
<1>3. CASE InFlight # {}
  BY <1>1, <1>3 DEF AudioStart, MutexInv, Queue, InFlight, Holds
<1> QED BY <1>2, <1>3

LEMMA MutexStopCalled ==
  ASSUME MutexInv, Queue, TypeOK, NEW k \in Stops, StopCalled(k)
  PROVE  MutexInv' /\ Queue'
<1> USE NoneAssumption, NamesAssumption
<1>1. /\ UNCHANGED <<init, meet, current>> /\ stop[k] = "idle"
      /\ stop' = [stop EXCEPT ![k] = "queued"] /\ stop \in [Stops -> StopStages]
      /\ start' = [u \in Sessions |-> IF u \in Aborted THEN "idle" ELSE start[u]]
      /\ ~In(mutex, k)
  BY DEF StopCalled, TypeOK, StopStages, MutexInv
<1>2. CASE Aborted = {}
  <2>1. mutex' = Append(mutex, k) /\ \A u \in Sessions : start'[u] = start[u]
    BY <1>1, <1>2 DEF StopCalled
  <2>2. /\ Queue'
        /\ \A y : In(mutex', y) <=> In(mutex, y) \/ y = k
        /\ \A y : Holds(y) => Holds(y)'
    BY <1>1, <2>1, Joins DEF Names
  <2> QED BY <1>1, <2>1, <2>2 DEF MutexInv, InFlight
<1>3. CASE Aborted # {}
  <2>1. PICK u \in Sessions : start[u] \in {"acquiring", "retry1", "retry2"}
    BY <1>3 DEF Aborted
  <2>2. Holds(u) /\ In(mutex, u) /\ \A v \in Sessions : v # u => start[v] = "idle"
    BY <2>1 DEF MutexInv, InFlight
  <2>3. \A v \in Sessions : start'[v] = "idle"
    BY <1>1, <2>1, <2>2 DEF Aborted
  <2>4. /\ Tail(mutex) \in Seq(Names) /\ IsInjective(Tail(mutex))
        /\ \A y : In(Tail(mutex), y) <=> In(mutex, y) /\ y # u
    BY <2>2, TailQueue DEF Queue, Holds
  <2>5. mutex' = Append(Tail(mutex), k) /\ ~In(Tail(mutex), k)
    BY <1>1, <1>3, <2>4 DEF StopCalled
  <2>6. /\ mutex' \in Seq(Names) /\ IsInjective(mutex')
        /\ \A y : In(mutex', y) <=> In(Tail(mutex), y) \/ y = k
    BY <2>4, <2>5, AppendQueue DEF Names
  <2>7. \A y : Holds(y) => y = u
    BY <2>2 DEF Holds
  <2> QED BY <1>1, <2>2, <2>3, <2>4, <2>6, <2>7 DEF MutexInv, InFlight, Queue
<1> QED BY <1>2, <1>3

\* A stop goes on inside the mutex, leaves it, or ends outside of it.
LEMMA MutexStop ==
  ASSUME MutexInv, Queue, TypeOK, NEW k \in Stops, Stopping(k) \/ LastChunkTimesOut(k)
  PROVE  MutexInv' /\ Queue'
<1> USE NoneAssumption, NamesAssumption
<1>1. /\ UNCHANGED <<start, init, meet, current>> /\ stop \in [Stops -> StopStages]
      /\ \E s \in {"idle", "lastChunk", "probing", "settling", "reloading", "finalising"} :
           /\ stop' = [stop EXCEPT ![k] = s]
           /\ \/ /\ Holds(k) /\ s \notin {"idle", "finalising"} /\ UNCHANGED mutex
                 /\ stop[k] \notin {"idle", "finalising"}
              \/ /\ Holds(k) /\ s \in {"idle", "finalising"} /\ Release
                 /\ stop[k] \notin {"idle", "finalising"}
              \/ stop[k] = "finalising" /\ s = "idle" /\ UNCHANGED mutex
  <2>1. CASE StopEntered(k)
    BY <2>1 DEF StopEntered, starts, TypeOK, StopStages
  <2>2. CASE LastChunkIn(k) \/ ProbeEnds(k) \/ LastChunkTimesOut(k)
    BY <2>2 DEF LastChunkIn, ProbeEnds, LastChunkTimesOut, starts, orders, TypeOK, StopStages, MutexInv
  <2>3. CASE Settled(k)
    BY <2>3 DEF Settled, starts, orders, TypeOK, StopStages, MutexInv
  <2>4. CASE Reloaded(k)
    BY <2>4 DEF Reloaded, starts, orders, TypeOK, StopStages, MutexInv
  <2>5. CASE Finalised(k)
    BY <2>5 DEF Finalised, starts, orders, TypeOK, StopStages, MutexInv
  <2> QED BY <2>1, <2>2, <2>3, <2>4, <2>5 DEF Stopping
<1>2. PICK s \in {"idle", "lastChunk", "probing", "settling", "reloading", "finalising"} :
           /\ stop' = [stop EXCEPT ![k] = s]
           /\ \/ /\ Holds(k) /\ s \notin {"idle", "finalising"} /\ UNCHANGED mutex
                 /\ stop[k] \notin {"idle", "finalising"}
              \/ /\ Holds(k) /\ s \in {"idle", "finalising"} /\ Release
                 /\ stop[k] \notin {"idle", "finalising"}
              \/ stop[k] = "finalising" /\ s = "idle" /\ UNCHANGED mutex
  BY <1>1
<1>3. CASE UNCHANGED mutex
  <2>1. stop'[k] \notin {"idle", "finalising"} <=> stop[k] \notin {"idle", "finalising"}
    <3>1. stop'[k] = s
      BY <1>1, <1>2
    <3>2. Release => mutex = <<>>
      BY <1>3, TailQueue DEF Queue, Release
    <3> QED BY <1>2, <3>1, <3>2 DEF Holds
  <2>2. stop'[k] \notin {"idle", "queued", "finalising"} => Holds(k)'
    BY <1>1, <1>2, <1>3, <2>1 DEF Holds, MutexInv
  <2>3. /\ \A l \in Stops : l # k => stop'[l] = stop[l]
        /\ \A y : In(mutex', y) <=> In(mutex, y)
        /\ \A y : Holds(y) => Holds(y)'
    BY <1>1, <1>2, <1>3 DEF Holds
  <2> QED BY <1>1, <1>3, <2>1, <2>2, <2>3 DEF MutexInv, InFlight, Queue
<1>4. CASE Release /\ Holds(k)
  <2>1. Queue' /\ \A y : In(mutex', y) <=> In(mutex, y) /\ y # k
    BY <1>4, Leaves DEF Release
  <2>2. \A y : Holds(y) => y = k
    BY <1>4 DEF Holds
  <2>3. stop' = [stop EXCEPT ![k] = s] /\ s \in {"idle", "finalising", "lastChunk", "probing", "settling", "reloading"}
    BY <1>2
  <2>4. CASE s \in {"idle", "finalising"}
    BY <1>1, <2>1, <2>2, <2>3, <2>4 DEF MutexInv, InFlight
  <2>5. CASE s \notin {"idle", "finalising"}
    BY <1>1, <1>2, <1>3, <2>5
  <2> QED BY <2>4, <2>5
<1> QED BY <1>2, <1>3, <1>4

LEMMA MutexBackground ==
  ASSUME MutexInv, Queue, TypeOK, Background \/ InitializeCalled
  PROVE  MutexInv' /\ Queue'
<1> USE NoneAssumption, NamesAssumption DEF starts, orders
<1>1. CASE BuildEnds
  <2>1. /\ UNCHANGED <<stop, init, mutex, meet, current>> /\ start \in [Sessions -> Stages \cup {"idle", "queued"}]
        /\ \/ start' = start
           \/ start' = [u \in Sessions |-> IF start[u] = "resuming" THEN "replaced" ELSE start[u]]
    BY <1>1 DEF BuildEnds, TypeOK, Stages
  <2>2. \A u \in Sessions : \/ start'[u] = start[u]
                            \/ start[u] = "resuming" /\ start'[u] = "replaced"
    BY <2>1
  <2> QED BY <2>1, <2>2 DEF MutexInv, InFlight, Queue, Holds
<1>2. CASE InitializeCalled
  <2>1. /\ UNCHANGED <<start, stop, meet, current>> /\ init' = "queued"
        /\ ~In(mutex, "init") /\ mutex' = Append(mutex, "init")
    BY <1>2 DEF InitializeCalled, MutexInv, Calls
  <2>2. /\ Queue'
        /\ \A y : In(mutex', y) <=> In(mutex, y) \/ y = "init"
        /\ \A y : Holds(y) => Holds(y)'
    BY <2>1, Joins DEF Names
  <2> QED BY <2>1, <2>2 DEF MutexInv, InFlight
<1>3. CASE InitializeEntered \/ InitializeEnds
  <2>1. UNCHANGED <<start, stop, meet, current>> /\ Holds("init") /\ init # "idle"
    BY <1>3 DEF InitializeEntered, InitializeEnds, MutexInv
  <2>2. CASE init' = "idle" /\ Release
    <3>1. Queue' /\ \A y : In(mutex', y) <=> In(mutex, y) /\ y # "init"
      BY <2>1, <2>2, Leaves DEF Release
    <3>2. \A y : Holds(y) => y = "init"
      BY <2>1 DEF Holds
    <3> QED BY <2>1, <2>2, <3>1, <3>2 DEF MutexInv, InFlight
  <2>3. CASE init' = "reloading" /\ UNCHANGED mutex
    BY <2>1, <2>3 DEF MutexInv, InFlight, Queue, Holds
  <2> QED BY <1>3, <2>2, <2>3 DEF InitializeEntered, InitializeEnds
<1> QED BY <1>1, <1>2, <1>3 DEF Background

LEMMA MutexMeeting ==
  ASSUME MutexInv, Queue, TypeOK, MeetingStarts \/ Meeting \/ MeetingStops
  PROVE  MutexInv' /\ Queue'
<1> USE NoneAssumption, NamesAssumption DEF MeetingStep, starts, orders
<1>1. UNCHANGED <<start, stop, init, current>>
  BY DEF MeetingStarts, Meeting, MeetingAdmitted, MeetingAcquires, MeetingStopped, MeetingStops
<1>2. CASE meet = "off" /\ meet' = "queued" /\ Calls("meeting")
  <2>1. ~In(mutex, "meeting") /\ mutex' = Append(mutex, "meeting")
    BY <1>2 DEF MutexInv, Calls
  <2>2. /\ Queue'
        /\ \A y : In(mutex', y) <=> In(mutex, y) \/ y = "meeting"
        /\ \A y : Holds(y) => Holds(y)'
    BY <2>1, Joins DEF Names
  <2> QED BY <1>1, <1>2, <2>1, <2>2 DEF MutexInv, InFlight
<1>3. CASE MeetingAdmitted
  <2>1. meet = "queued" /\ meet' # "queued" /\ Holds("meeting") /\ mutex' = Tail(mutex)
    BY <1>3 DEF MeetingAdmitted, Release
  <2>2. Queue' /\ \A y : In(mutex', y) <=> In(mutex, y) /\ y # "meeting"
    BY <2>1, Leaves
  <2>3. \A y : Holds(y) => y = "meeting"
    BY <2>1 DEF Holds
  <2> QED BY <1>1, <2>1, <2>2, <2>3 DEF MutexInv, InFlight
<1>4. CASE meet # "queued" /\ meet' # "queued" /\ UNCHANGED mutex
  BY <1>1, <1>4 DEF MutexInv, InFlight, Queue, Holds
<1>5. MeetingStarts => \/ meet = "off" /\ meet' = "queued" /\ Calls("meeting")
                       \/ meet # "queued" /\ meet' # "queued" /\ UNCHANGED mutex
  BY DEF MeetingStarts
<1>6. MeetingAcquires \/ MeetingStopped \/ MeetingStops
        => meet # "queued" /\ meet' # "queued" /\ UNCHANGED mutex
  BY DEF MeetingAcquires, MeetingStopped, MeetingStops
<1> QED BY <1>2, <1>3, <1>4, <1>5, <1>6 DEF Meeting

\* What touches neither the mutex nor those who wait for it.
Bystander ==
  \/ OrphanDiscarded \/ ForgottenSettles \/ Messages \/ Worklet \/ NodeCaptures
  \/ ContextSuspended \/ ContextResumed

LEMMA MutexBystander ==
  Bystander => UNCHANGED <<start, stop, init, meet, mutex, current, answer>>
BY DEF Bystander, OrphanDiscarded, ForgottenSettles, Messages, ChunkArrives, DoneArrives, FlushEnds, Worklet,
       NodeStarts, NodeStops, NodeCaptures, ContextSuspended, ContextResumed, starts, orders

LEMMA MutexStep == ServiceInv /\ [Next]_vars => MutexInv' /\ Queue'
<1> SUFFICES ASSUME ServiceInv, [Next]_vars PROVE MutexInv' /\ Queue'
  OBVIOUS
<1> USE TypeQueue DEF ServiceInv
<1>1. CASE \E u \in Sessions : StartStep(u)
  BY <1>1, StartStepMoves, MutexStart
<1>2. CASE \E u \in Sessions : AudioStart(u)
  BY <1>2, MutexAudioStart
<1>3. CASE \E k \in Stops : StopCalled(k)
  BY <1>3, MutexStopCalled
<1>4. CASE \E k \in Stops : Stopping(k) \/ LastChunkTimesOut(k)
  BY <1>4, MutexStop
<1>5. CASE Background \/ InitializeCalled
  BY <1>5, MutexBackground
<1>6. CASE MeetingStarts \/ Meeting \/ MeetingStops
  BY <1>6, MutexMeeting
<1>7. CASE Bystander
  BY <1>7, MutexBystander, MutexUnchanged
<1>8. CASE UNCHANGED vars
  BY <1>8, MutexUnchanged DEF vars, starts, orders
<1> QED BY <1>1, <1>2, <1>3, <1>4, <1>5, <1>6, <1>7, <1>8 DEF Next, StartStep, Bystander

-----------------------------------------------------------------------------
(* Types *)

Typed == TypeOK /\ Queue'

LEMMA DoneCounts ==
  ASSUME TypeOK, NEW x, RecordingDone(x)
  PROVE  /\ done' = [u \in Sessions |-> IF u = x THEN done[u] + 1 ELSE done[u]]
         /\ done' \in [Sessions -> Nat]
<1>1. done' = [u \in Sessions |-> IF u = x THEN done[u] + 1 ELSE done[u]]
  BY DEF TypeOK, RecordingDone
<1>2. \A u \in Sessions : done[u] \in Nat /\ done[u] + 1 \in Nat
  BY DEF TypeOK
<1> QED BY <1>1, <1>2

LEMMA TypeStart ==
  ASSUME Typed, NEW u \in Sessions, StartMoves(u)
  PROVE  TypeOK'
<1> USE DEF Typed, Queue, Names
<1>1. start' \in [Sessions -> Stages \cup {"idle", "queued"}]
  <2>1. \E s \in Stages \cup {"idle"} : start' = [start EXCEPT ![u] = s]
    BY DEF StartMoves, Ended, Waited
  <2> QED BY <2>1 DEF TypeOK, Stages
<1>2. answer' \in [Sessions -> {"none", "started", "aborted", "failed", "recovering"}]
  <2>1. \/ answer' = answer
        \/ \E a \in {"started", "aborted", "failed", "recovering"} :
             answer' = [answer EXCEPT ![u] = a]
    BY DEF StartMoves, Ended, Waited
  <2> QED BY <2>1 DEF TypeOK
<1>3. active' \in Sessions \cup {None} /\ isRecording' \in BOOLEAN
  BY DEF StartMoves, NoRecordingYet, Begun, TypeOK
<1>4. StartStays
  BY DEF StartMoves
<1>5. {shouldAbortStart', isRecording', useOpus', building'} \subseteq BOOLEAN
  BY <1>3, <1>4 DEF TypeOK, StartStays
<1>6. {current', active', draining', finalizing', orphan', wanted', stream', capturing'}
          \subseteq Sessions \cup {None}
  BY <1>3, <1>4 DEF TypeOK, StartStays
<1>7. mic' \in [Sessions -> {"free", "pending", "live", "forgotten"}]
      /\ UNCHANGED <<stop, init, order, done, graph, meet>>
  BY <1>4 DEF StartStays
<1> QED BY <1>1, <1>2, <1>5, <1>6, <1>7 DEF TypeOK, Stages

LEMMA TypeAudioStart ==
  ASSUME Typed, NEW u \in Sessions, AudioStart(u)
  PROVE  TypeOK'
<1> USE DEF Typed, Queue, Names, AudioStart, recording, microphone, nodes
<1>1. useOpus' \in BOOLEAN
  BY BoundAssumption
<1>2. /\ start' = start \/ start' = [start EXCEPT ![u] = "queued"]
      /\ answer' = answer \/ answer' = [answer EXCEPT ![u] = "aborted"]
  OBVIOUS
<1>3. start' \in [Sessions -> Stages \cup {"idle", "queued"}]
  <2>1. start \in [Sessions -> Stages \cup {"idle", "queued"}]
    BY DEF TypeOK, Stages
  <2> HIDE DEF AudioStart
  <2> QED BY <1>2, <2>1
<1>4. answer' \in [Sessions -> {"none", "started", "aborted", "failed", "recovering"}]
  BY <1>2 DEF TypeOK
<1> QED BY <1>1, <1>3, <1>4 DEF TypeOK, Stages

LEMMA TypeStopCalled ==
  ASSUME Typed, NEW k \in Stops, StopCalled(k)
  PROVE  TypeOK'
<1> USE DEF Typed, Queue, Names, StopCalled, recording, nodes
<1>1. start' \in [Sessions -> Stages \cup {"idle", "queued"}]
  <2>1. start' = [u \in Sessions |-> IF u \in Aborted THEN "idle" ELSE start[u]]
    OBVIOUS
  <2>2. start \in [Sessions -> Stages \cup {"idle", "queued"}]
    BY DEF TypeOK, Stages
  <2> HIDE DEF StopCalled
  <2> QED BY <2>1, <2>2
<1>2. answer' \in [Sessions -> {"none", "started", "aborted", "failed", "recovering"}]
  BY DEF TypeOK
<1>3. stop' \in [Stops -> StopStages]
  BY DEF TypeOK, StopStages
<1>4. mic' \in [Sessions -> {"free", "pending", "live", "forgotten"}]
  BY DEF TypeOK
<1>5. orphan' \in Sessions \cup {None} /\ wanted' = None /\ shouldAbortStart' \in BOOLEAN
  BY DEF TypeOK
<1> QED BY <1>1, <1>2, <1>3, <1>4, <1>5 DEF TypeOK, Stages, StopStages

LEMMA TypeStop ==
  ASSUME Typed, NEW k \in Stops, Stopping(k) \/ LastChunkTimesOut(k)
  PROVE  TypeOK'
<1> USE DEF Typed, Queue, Names, starts, orders, recording, microphone, nodes
<1>1. stop' \in [Stops -> StopStages]
  <2>1. \E s \in StopStages : stop' = [stop EXCEPT ![k] = s]
    BY DEF Stopping, StopEntered, LastChunkIn, LastChunkTimesOut, ProbeEnds, Settled, Reloaded,
           Finalised, StopStages
  <2> QED BY <2>1 DEF TypeOK, StopStages
<1>2. CASE StopEntered(k)
  <2>1. draining' \in Sessions \cup {None} /\ shouldAbortStart' \in BOOLEAN
    BY <1>2 DEF StopEntered, TypeOK
  <2> QED BY <1>1, <1>2, <2>1 DEF StopEntered, TypeOK, StopStages
<1>3. CASE LastChunkIn(k) \/ Reloaded(k)
  BY <1>1, <1>3 DEF LastChunkIn, Reloaded, TypeOK, StopStages
<1>4. CASE LastChunkTimesOut(k)
  <2>1. done' \in [Sessions -> Nat]
    BY <1>4, DoneCounts DEF LastChunkTimesOut
  <2>2. isRecording' \in BOOLEAN /\ capturing' \in Sessions \cup {None}
    BY <1>4 DEF LastChunkTimesOut, TypeOK
  <2>3. UNCHANGED <<start, answer, wanted, init, mutex, orders, active, draining, finalizing,
                    microphone, graph, building, meet>>
    BY <1>4 DEF LastChunkTimesOut
  <2>4. {shouldAbortStart', isRecording', useOpus', building'} \subseteq BOOLEAN
    BY <2>2, <2>3 DEF TypeOK
  <2>5. {current', active', draining', finalizing', orphan', wanted', stream', capturing'}
            \subseteq Sessions \cup {None}
    BY <2>2, <2>3 DEF TypeOK
  <2> QED BY <1>1, <2>1, <2>3, <2>4, <2>5 DEF TypeOK, StopStages
<1>5. CASE ProbeEnds(k)
  <2>1. mic' \in [Sessions -> {"free", "pending", "live", "forgotten"}]
    BY <1>5 DEF ProbeEnds, TypeOK
  <2> QED BY <1>1, <1>5, <2>1 DEF ProbeEnds, TypeOK, StopStages
<1>6. CASE Settled(k)
  <2>1. stream' = None /\ building' \in BOOLEAN
    BY <1>6 DEF Settled, TypeOK
  <2> QED BY <1>1, <1>6, <2>1 DEF Settled, TypeOK, StopStages
<1>7. CASE Finalised(k)
  <2>1. mic' \in [Sessions -> {"free", "pending", "live", "forgotten"}]
    BY <1>7 DEF Finalised, TypeOK
  <2> QED BY <1>1, <1>7, <2>1 DEF Finalised, TypeOK, StopStages
<1> QED BY <1>2, <1>3, <1>4, <1>5, <1>6, <1>7 DEF Stopping

LEMMA TypeBackground ==
  ASSUME Typed, Background \/ InitializeCalled
  PROVE  TypeOK'
<1> USE DEF Typed, Queue, Names, starts, orders, recording, microphone, nodes
<1>1. CASE BuildEnds
  <2>1. start' \in [Sessions -> Stages \cup {"idle", "queued"}]
    <3>1. \/ start' = start
          \/ start' = [u \in Sessions |-> IF start[u] = "resuming" THEN "replaced" ELSE start[u]]
      BY <1>1 DEF BuildEnds
    <3>2. start \in [Sessions -> Stages \cup {"idle", "queued"}]
      BY DEF TypeOK, Stages
    <3> QED BY <3>1, <3>2 DEF Stages
  <2>2. /\ graph' \in {"none", "running", "suspended"} /\ building' = FALSE
        /\ capturing' \in {None, capturing}
    BY <1>1 DEF BuildEnds, TypeOK
  <2>3. UNCHANGED <<answer, wanted, stop, init, mutex, orders, recording, microphone, meet>>
    BY <1>1 DEF BuildEnds
  <2>4. {shouldAbortStart', isRecording', useOpus', building'} \subseteq BOOLEAN
    BY <2>2, <2>3 DEF TypeOK
  <2>5. {current', active', draining', finalizing', orphan', wanted', stream', capturing'}
            \subseteq Sessions \cup {None}
    BY <2>2, <2>3 DEF TypeOK
  <2> QED BY <2>1, <2>2, <2>3, <2>4, <2>5 DEF TypeOK, Stages
<1>2. CASE InitializeEntered \/ InitializeEnds \/ InitializeCalled
  <2>1. /\ init' \in {"idle", "queued", "reloading"} /\ building' \in {TRUE, building}
        /\ UNCHANGED <<starts, stop, orders, recording, microphone, graph, capturing, meet>>
    BY <1>2 DEF InitializeEntered, InitializeEnds, InitializeCalled
  <2>2. {shouldAbortStart', isRecording', useOpus', building'} \subseteq BOOLEAN
    BY <2>1 DEF TypeOK
  <2> QED BY <2>1, <2>2 DEF TypeOK
<1> QED BY <1>1, <1>2 DEF Background

LEMMA TypeMeeting ==
  ASSUME Typed, MeetingStarts \/ Meeting \/ MeetingStops
  PROVE  TypeOK'
BY DEF Typed, Queue, Names, MeetingStep, starts, orders, recording, microphone, nodes, Meeting,
       MeetingStarts, MeetingAdmitted, MeetingAcquires, MeetingStops, MeetingStopped, TypeOK

LEMMA TypeBystander ==
  ASSUME Typed, Bystander, MessageInv
  PROVE  TypeOK'
<1> USE DEF Typed, Queue, Names, starts, orders, recording, microphone, nodes
<1>1. CASE OrphanDiscarded
  <2>1. mic' \in [Sessions -> {"free", "pending", "live", "forgotten"}]
    BY <1>1 DEF OrphanDiscarded, TypeOK
  <2> QED BY <1>1, <2>1 DEF OrphanDiscarded, TypeOK
<1>7. CASE ForgottenSettles
  <2>1. mic' \in [Sessions -> {"free", "pending", "live", "forgotten"}]
    BY <1>7 DEF ForgottenSettles, TypeOK
  <2> QED BY <1>7, <2>1 DEF ForgottenSettles, TypeOK
<1>2. CASE DoneArrives
  <2>1. done' \in [Sessions -> Nat] /\ finalizing' \in Sessions \cup {None}
    BY <1>2, DoneCounts DEF DoneArrives, TypeOK
  <2>2. isRecording' \in BOOLEAN
    BY <1>2 DEF DoneArrives
  <2>3. UNCHANGED <<starts, stop, init, mutex, orders, active, draining, microphone,
                    graph, building, capturing, meet>>
    BY <1>2 DEF DoneArrives
  <2>4. {shouldAbortStart', isRecording', useOpus', building'} \subseteq BOOLEAN
    BY <2>1, <2>2, <2>3 DEF TypeOK
  <2>5. {current', active', draining', finalizing', orphan', wanted', stream', capturing'}
            \subseteq Sessions \cup {None}
    BY <2>1, <2>2, <2>3 DEF TypeOK
  <2> QED BY <2>1, <2>3, <2>4, <2>5 DEF TypeOK
<1>3. CASE FlushEnds
  <2>1. done' \in [Sessions -> Nat]
    BY <1>3, DoneCounts DEF FlushEnds
  <2>2. finalizing' = None /\ UNCHANGED <<starts, stop, init, mutex, orders, active, draining,
                                          isRecording, microphone, nodes, meet>>
    BY <1>3 DEF FlushEnds
  <2>3. {shouldAbortStart', isRecording', useOpus', building'} \subseteq BOOLEAN
    BY <2>2 DEF TypeOK
  <2>4. {current', active', draining', finalizing', orphan', wanted', stream', capturing'}
            \subseteq Sessions \cup {None}
    BY <2>2 DEF TypeOK
  <2> QED BY <2>1, <2>2, <2>3, <2>4 DEF TypeOK
<1>4. CASE NodeStarts
  <2>1. Head(toNode) \in Message({"start", "stop"})
    BY <1>4 DEF NodeStarts, MessageInv
  <2>2. capturing' \in Sessions \cup {None}
    BY <1>4, <2>1 DEF NodeStarts, Message
  <2> QED BY <1>4, <2>2 DEF NodeStarts, TypeOK
<1>5. CASE ChunkArrives \/ NodeCaptures \/ NodeStops
  BY <1>5 DEF ChunkArrives, NodeCaptures, NodeStops, TypeOK
<1>6. CASE ContextSuspended \/ ContextResumed
  BY <1>6 DEF ContextSuspended, ContextResumed, TypeOK
<1> QED BY <1>1, <1>2, <1>3, <1>4, <1>5, <1>6, <1>7 DEF Bystander, Messages, Worklet

LEMMA TypeStep == ServiceInv /\ [Next]_vars => TypeOK'
<1> SUFFICES ASSUME ServiceInv, [Next]_vars PROVE TypeOK'
  OBVIOUS
<1>1. Typed /\ MessageInv
  BY MutexStep DEF ServiceInv, Typed
<1>2. CASE \E u \in Sessions : StartStep(u)
  BY <1>1, <1>2, StartStepMoves, TypeStart
<1>3. CASE \E u \in Sessions : AudioStart(u)
  BY <1>1, <1>3, TypeAudioStart
<1>4. CASE \E k \in Stops : StopCalled(k)
  BY <1>1, <1>4, TypeStopCalled
<1>5. CASE \E k \in Stops : Stopping(k) \/ LastChunkTimesOut(k)
  BY <1>1, <1>5, TypeStop
<1>6. CASE Background \/ InitializeCalled
  BY <1>1, <1>6, TypeBackground
<1>7. CASE MeetingStarts \/ Meeting \/ MeetingStops
  BY <1>1, <1>7, TypeMeeting
<1>8. CASE Bystander
  BY <1>1, <1>8, TypeBystander
<1>9. CASE UNCHANGED vars
  BY <1>1, <1>9 DEF Typed, TypeOK, vars, starts, orders, recording, microphone, nodes
<1> QED BY <1>2, <1>3, <1>4, <1>5, <1>6, <1>7, <1>8, <1>9 DEF Next, StartStep, Bystander

-----------------------------------------------------------------------------
(* The queues of messages *)

LEMMA AppendMessage ==
  ASSUME NEW S, NEW s \in Seq(S), NEW m \in S
  PROVE  /\ Append(s, m) \in Seq(S)
         /\ \A t : Has(Append(s, m), t) <=> Has(s, t) \/ m.type = t
         /\ \A t : Once(s, t) /\ (m.type = t => ~Has(s, t)) => Once(Append(s, m), t)
<1> DEFINE r == Append(s, m)
<1>1. /\ r \in Seq(S) /\ Len(s) \in Nat
      /\ DOMAIN r = 1 .. Len(s) + 1 /\ DOMAIN s = 1 .. Len(s)
      /\ \A i \in 1 .. Len(s) : r[i] = s[i]
      /\ r[Len(s) + 1] = m
  OBVIOUS
<1> HIDE DEF r
<1>2. ASSUME NEW t PROVE Has(r, t) <=> Has(s, t) \/ m.type = t
  <2>1. Has(r, t) => Has(s, t) \/ m.type = t
    BY <1>1 DEF Has
  <2>2. Has(s, t) => Has(r, t)
    BY <1>1 DEF Has
  <2>3. m.type = t => Has(r, t)
    BY <1>1 DEF Has
  <2> QED BY <2>1, <2>2, <2>3
<1>3. ASSUME NEW t, Once(s, t), m.type = t => ~Has(s, t) PROVE Once(r, t)
  BY <1>1, <1>3 DEF Once, Has
<1> QED BY <1>1, <1>2, <1>3 DEF r

LEMMA TailMessage ==
  ASSUME NEW S, NEW s \in Seq(S), s # <<>>
  PROVE  /\ Tail(s) \in Seq(S) /\ Head(s) \in S /\ Has(s, Head(s).type)
         /\ \A t : Has(Tail(s), t) => Has(s, t)
         /\ \A t : Once(s, t) => Once(Tail(s), t)
         /\ \A t : Once(s, t) /\ Head(s).type = t => ~Has(Tail(s), t)
<1> DEFINE r == Tail(s)
<1>1. /\ r \in Seq(S) /\ Len(s) \in Nat /\ Len(s) > 0
      /\ DOMAIN r = 1 .. Len(s) - 1 /\ DOMAIN s = 1 .. Len(s)
      /\ \A i \in 1 .. Len(s) - 1 : r[i] = s[i + 1]
      /\ s[1] = Head(s) /\ Head(s) \in S
  OBVIOUS
<1> HIDE DEF r
<1>2. Has(s, Head(s).type)
  BY <1>1 DEF Has
<1>3. ASSUME NEW t, Has(r, t) PROVE Has(s, t)
  <2>1. PICK i \in 1 .. Len(s) - 1 : r[i].type = t
    BY <1>1, <1>3 DEF Has
  <2>2. i + 1 \in DOMAIN s /\ s[i + 1].type = t
    BY <1>1, <2>1
  <2> QED BY <2>2 DEF Has
<1>4. ASSUME NEW t, Once(s, t), NEW i \in DOMAIN r, NEW j \in DOMAIN r, r[i].type = t, r[j].type = t
      PROVE  i = j
  <2>1. /\ i + 1 \in DOMAIN s /\ s[i + 1].type = t
        /\ j + 1 \in DOMAIN s /\ s[j + 1].type = t
    BY <1>1, <1>4
  <2> QED BY <1>1, <1>4, <2>1 DEF Once
<1>5. ASSUME NEW t, Once(s, t), Head(s).type = t, NEW i \in DOMAIN r, r[i].type = t
      PROVE  FALSE
  <2>1. /\ i + 1 \in DOMAIN s /\ s[i + 1].type = t /\ i + 1 # 1
        /\ 1 \in DOMAIN s /\ s[1].type = t
    BY <1>1, <1>5
  <2> QED BY <1>5, <2>1 DEF Once
<1> QED BY <1>1, <1>2, <1>3, <1>4, <1>5 DEF r, Once, Has

-----------------------------------------------------------------------------
(* What the other steps do to the recordings *)

\* Nobody gets in front of a start.
Kept == \A u \in Sessions : First(mutex, u) => First(mutex', u)

LEMMA KeptByTail == TypeOK /\ mutex # <<>> /\ mutex' = Tail(mutex) => Kept
BY TypeQueue, TailQueue DEF Kept, Queue

LEMMA KeptByAppend ==
  ASSUME TypeOK, NEW x \in Names \ Sessions, ~In(mutex, x), mutex' = Append(mutex, x)
  PROVE  Kept
BY TypeQueue, AppendQueue DEF Kept, Queue

\* The graph, initialize, the meeting and the orphan leave the recordings alone; only
\* what the old worklet was told is lost with it.
Aside ==
  /\ UNCHANGED <<answer, stop, current, recording, fromNode>>
  /\ toNode' = toNode \/ toNode' = <<>>
  /\ \A u \in Sessions : \/ start'[u] = start[u]
                         \/ start[u] = "resuming" /\ start'[u] = "replaced"
  /\ Kept

Elsewhere ==
  \/ Background \/ InitializeCalled \/ MeetingStarts \/ Meeting \/ MeetingStops
  \/ OrphanDiscarded \/ ForgottenSettles \/ ContextSuspended \/ ContextResumed
  \/ UNCHANGED vars

LEMMA ElsewhereAside == ServiceInv /\ Elsewhere => Aside
<1> SUFFICES ASSUME ServiceInv, Elsewhere PROVE Aside
  OBVIOUS
<1> USE DEF ServiceInv
<1>1. CASE BuildEnds
  <2>1. \A u \in Sessions : \/ start'[u] = start[u]
                            \/ start[u] = "resuming" /\ start'[u] = "replaced"
    BY <1>1 DEF BuildEnds
  <2>2. toNode' = toNode \/ toNode' = <<>>
    BY <1>1 DEF BuildEnds
  <2>3. UNCHANGED <<answer, stop, current, recording, fromNode, mutex>>
    BY <1>1 DEF BuildEnds, orders
  <2> QED BY <2>1, <2>2, <2>3 DEF Aside, Kept
<1>2. CASE InitializeCalled
  <2>1. mutex' = Append(mutex, "init") /\ "init" \in Names \ Sessions /\ ~In(mutex, "init")
    BY <1>2, NamesAssumption DEF InitializeCalled, Calls, Names, MutexInv
  <2>2. Kept
    BY <2>1, KeptByAppend
  <2> QED BY <1>2, <2>2 DEF InitializeCalled, Aside, starts, orders, nodes
<1>3. CASE InitializeEntered \/ InitializeEnds
  <2>1. mutex # <<>> /\ (mutex' = mutex \/ mutex' = Tail(mutex))
    BY <1>3 DEF InitializeEntered, InitializeEnds, MutexInv, Holds, Release
  <2>2. Kept
    BY <2>1, KeptByTail DEF Kept
  <2> QED BY <1>3, <2>2 DEF InitializeEntered, InitializeEnds, Aside, starts, orders, nodes
<1>4. CASE MeetingStarts
  <2>1. mutex' = mutex \/ (mutex' = Append(mutex, "meeting") /\ ~In(mutex, "meeting"))
    BY <1>4 DEF MeetingStarts, Calls, MutexInv
  <2>2. "meeting" \in Names \ Sessions
    BY NamesAssumption DEF Names
  <2>3. Kept
    BY <2>1, <2>2, KeptByAppend DEF Kept
  <2> QED BY <1>4, <2>3 DEF MeetingStarts, MeetingStep, Aside, starts, orders, nodes
<1>5. CASE MeetingAdmitted
  <2>1. Kept
    BY <1>5, KeptByTail DEF MeetingAdmitted, Holds, Release
  <2> QED BY <1>5, <2>1 DEF MeetingAdmitted, MeetingStep, Aside, starts, orders, nodes
<1>6. CASE MeetingAcquires \/ MeetingStopped \/ MeetingStops
  BY <1>6 DEF MeetingAcquires, MeetingStopped, MeetingStops, MeetingStep, Aside, Kept, starts,
              orders, nodes
<1>7. CASE OrphanDiscarded \/ ForgottenSettles \/ ContextSuspended \/ ContextResumed
  BY <1>7 DEF OrphanDiscarded, ForgottenSettles, ContextSuspended, ContextResumed, Aside, Kept,
              starts, orders, nodes
<1>8. CASE UNCHANGED vars
  BY <1>8 DEF vars, Aside, Kept, starts, orders, nodes
<1> QED BY <1>1, <1>2, <1>3, <1>4, <1>5, <1>6, <1>7, <1>8 DEF Elsewhere, Background, Meeting

\* A stop enters the mutex while something records, or finds nothing to stop.
StopTakes(k) ==
  /\ stop[k] = "queued" /\ Holds(k) /\ isRecording
  /\ stop' = [stop EXCEPT ![k] = "lastChunk"]
  /\ draining' = active
  /\ toNode' = Append(toNode, [type |-> "stop", of |-> active])
  /\ UNCHANGED <<mutex, active, isRecording, finalizing, done, fromNode>>

StopFindsNothing(k) ==
  /\ stop[k] = "queued" /\ Holds(k) /\ ~isRecording
  /\ stop' = [stop EXCEPT ![k] = "idle"]
  /\ UNCHANGED <<recording, toNode, fromNode>>
  /\ Kept

\* It goes on when the recording has ended.
StopGoesOn(k) ==
  /\ Ends(k) /\ ~isRecording
  /\ \E s \in {"probing", "settling", "reloading", "finalising"} : stop' = [stop EXCEPT ![k] = s]
  /\ UNCHANGED <<recording, toNode, fromNode>>
  /\ Kept

StopTimesOut(k) ==
  /\ stop[k] = "lastChunk" /\ isRecording /\ fromNode = <<>>
  /\ isRecording' = FALSE
  /\ RecordingDone(Owning)
  /\ stop' = [stop EXCEPT ![k] = "probing"]
  /\ toNode' = <<>>
  /\ UNCHANGED <<mutex, active, draining, finalizing, fromNode>>

StopReturns(k) ==
  /\ stop[k] = "finalising" /\ finalizing = None
  /\ stop' = [stop EXCEPT ![k] = "idle"]
  /\ draining' = None
  /\ UNCHANGED <<mutex, active, isRecording, finalizing, done, toNode, fromNode>>

StopMoves(k) ==
  /\ UNCHANGED <<start, answer, current>>
  /\ \/ StopTakes(k) \/ StopFindsNothing(k) \/ StopGoesOn(k) \/ StopTimesOut(k) \/ StopReturns(k)

LEMMA StopStepMoves ==
  ASSUME ServiceInv, "late" \notin Faults, NEW k \in Stops, Stopping(k) \/ LastChunkTimesOut(k)
  PROVE  StopMoves(k)
<1> USE DEF ServiceInv
<1>1. UNCHANGED <<start, answer, current>>
  BY DEF Stopping, StopEntered, LastChunkIn, LastChunkTimesOut, ProbeEnds, Settled, Reloaded,
         Finalised, starts, orders
<1>2. CASE StopEntered(k) /\ isRecording
  BY <1>1, <1>2 DEF StopEntered, StopTakes, StopMoves
<1>3. CASE StopEntered(k) /\ ~isRecording
  <2>1. Kept
    BY <1>3, KeptByTail DEF StopEntered, Holds, Release
  <2> QED BY <1>1, <1>3, <2>1 DEF StopEntered, StopFindsNothing, StopMoves, recording
<1>4. CASE LastChunkIn(k) \/ ProbeEnds(k) \/ Settled(k) \/ Reloaded(k)
  <2>1. Ends(k) /\ ~isRecording
    BY <1>4 DEF LastChunkIn, ProbeEnds, Settled, Reloaded, Ends, EndInv
  <2>2. mutex # <<>> /\ (mutex' = mutex \/ mutex' = Tail(mutex))
    BY <1>4 DEF LastChunkIn, ProbeEnds, Settled, Reloaded, MutexInv, Holds, Release
  <2>3. Kept
    BY <2>2, KeptByTail DEF Kept
  <2>4. \E s \in {"probing", "settling", "reloading", "finalising"} : stop' = [stop EXCEPT ![k] = s]
    BY <1>4 DEF LastChunkIn, ProbeEnds, Settled, Reloaded
  <2>5. UNCHANGED <<recording, toNode, fromNode>>
    BY <1>4 DEF LastChunkIn, ProbeEnds, Settled, Reloaded, nodes
  <2> QED BY <1>1, <2>1, <2>3, <2>4, <2>5 DEF StopGoesOn, StopMoves
<1>5. CASE LastChunkTimesOut(k)
  BY <1>1, <1>5 DEF LastChunkTimesOut, StopTimesOut, StopMoves
<1>6. CASE Finalised(k)
  BY <1>1, <1>6 DEF Finalised, StopReturns, StopMoves, nodes
<1> QED BY <1>2, <1>3, <1>4, <1>5, <1>6 DEF Stopping

\* The steps of the worklet and of its messages.
Heard == NodeStarts \/ NodeStops \/ NodeCaptures \/ ChunkArrives \/ DoneArrives \/ FlushEnds

LEMMA NextCases ==
  ASSUME [Next]_vars
  PROVE  \/ \E u \in Sessions : StartStep(u) \/ AudioStart(u)
         \/ \E k \in Stops : StopCalled(k) \/ Stopping(k) \/ LastChunkTimesOut(k)
         \/ Elsewhere \/ Heard
BY DEF Next, StartStep, Elsewhere, Heard, Messages, Worklet

-----------------------------------------------------------------------------
(* Stops: one at a time, each recording is asked to stop once *)

\* A stop that takes over a recording finds no other that has not returned.
LEMMA TakesAlone ==
  ASSUME ServiceInv, NEW k \in Stops, StopTakes(k)
  PROVE  draining = None /\ (\A l \in Stops : ~Ends(l)) /\ active \in Sessions
<1> USE DEF ServiceInv
<1>1. ASSUME NEW l \in Stops, Ends(l) PROVE FALSE
  <2>1. stop[l] = "lastChunk"
    BY <1>1 DEF StopTakes, EndInv
  <2>2. Holds(l)
    BY <2>1 DEF MutexInv
  <2> QED BY <2>1, <2>2 DEF StopTakes, Holds
<1> QED BY <1>1 DEF StopTakes, EndInv

LEMMA StopsEnds ==
  ASSUME TypeOK, NEW k \in Stops, NEW s, stop' = [stop EXCEPT ![k] = s]
  PROVE  /\ Ends(k)' <=> s \notin {"idle", "queued"}
         /\ stop'[k] = s
         /\ \A l \in Stops : l # k => stop'[l] = stop[l] /\ (Ends(l)' <=> Ends(l))
BY DEF TypeOK, Ends

LEMMA EndStep ==
  ASSUME ServiceInv, [Next]_vars, "late" \notin Faults
  PROVE  EndInv'
<1> USE NoneAssumption DEF ServiceInv
<1>1. CASE UNCHANGED <<stop, active, draining, isRecording, finalizing>>
  BY <1>1 DEF EndInv, Ends
<1>2. ASSUME NEW u \in Sessions, StartStep(u) PROVE EndInv'
  <2>1. CASE NoRecordingYet
    BY <1>1, <1>2, <2>1, StartStepMoves DEF StartMoves, StartStays, NoRecordingYet
  <2>2. CASE ~isRecording /\ draining = None /\ Begun(u)
    <3>1. UNCHANGED <<stop, draining, finalizing>>
      BY <1>2, StartStepMoves DEF StartMoves, StartStays
    <3> QED BY <2>2, <3>1 DEF EndInv, Ends, Begun
  <2> QED BY <1>2, <2>1, <2>2, StartStepMoves DEF StartMoves
<1>3. ASSUME NEW u \in Sessions, AudioStart(u) PROVE EndInv'
  BY <1>1, <1>3 DEF AudioStart, recording
<1>4. ASSUME NEW k \in Stops, StopCalled(k) PROVE EndInv'
  <2>1. \A l \in Stops : Ends(l)' <=> Ends(l)
    BY <1>4, StopsEnds DEF StopCalled, Ends
  <2>2. \A l \in Stops : Ends(l) => stop'[l] = stop[l]
    BY <1>4, StopsEnds DEF StopCalled, Ends
  <2> QED BY <1>4, <2>1, <2>2 DEF StopCalled, recording, EndInv
<1>5. ASSUME NEW k \in Stops, StopMoves(k) PROVE EndInv'
  <2>1. CASE StopTakes(k)
    <3>1. /\ draining = None /\ finalizing = None /\ active \in Sessions
          /\ \A l \in Stops : Ends(l)' <=> l = k
          /\ stop'[k] = "lastChunk"
      BY <2>1, TakesAlone, StopsEnds DEF StopTakes, EndInv
    <3> QED BY <2>1, <3>1 DEF StopTakes, EndInv
  <2>2. CASE StopFindsNothing(k)
    <3>1. \A l \in Stops : (Ends(l)' <=> Ends(l)) /\ (Ends(l) => stop'[l] = stop[l])
      BY <2>2, StopsEnds DEF StopFindsNothing, Ends
    <3> QED BY <2>2, <3>1 DEF StopFindsNothing, recording, EndInv
  <2>3. CASE StopGoesOn(k)
    <3>1. \A l \in Stops : Ends(l)' <=> Ends(l)
      BY <2>3, StopsEnds DEF StopGoesOn, Ends
    <3> QED BY <2>3, <3>1 DEF StopGoesOn, recording, EndInv
  <2>4. CASE StopTimesOut(k)
    <3>1. \A l \in Stops : Ends(l)' <=> Ends(l)
      BY <2>4, StopsEnds DEF StopTimesOut, Ends
    <3> QED BY <2>4, <3>1 DEF StopTimesOut, EndInv
  <2>5. CASE StopReturns(k)
    <3>1. \A l \in Stops : ~Ends(l)' /\ (Ends(l) => l = k)
      BY <2>5, StopsEnds DEF StopReturns, EndInv, Ends
    <3>2. ~isRecording /\ draining' = None /\ finalizing' = None
      BY <2>5 DEF StopReturns, EndInv, Ends
    <3> QED BY <2>5, <3>1, <3>2 DEF StopReturns, EndInv
  <2> QED BY <1>5, <2>1, <2>2, <2>3, <2>4, <2>5 DEF StopMoves
<1>6. CASE Elsewhere
  BY <1>1, <1>6, ElsewhereAside DEF Aside, recording
<1>7. CASE DoneArrives
  <2>1. isRecording /\ draining # None /\ draining = active /\ finalizing = None
    BY <1>7, TailMessage DEF DoneArrives, MessageInv, EndInv
  <2>2. /\ isRecording' = FALSE /\ finalizing' \in {active, finalizing}
        /\ UNCHANGED <<stop, draining, active>>
    BY <1>7 DEF DoneArrives
  <2> QED BY <2>1, <2>2 DEF EndInv, Ends
<1>8. CASE FlushEnds
  BY <1>8 DEF FlushEnds, EndInv, Ends
<1>9. CASE NodeStarts \/ NodeStops \/ NodeCaptures \/ ChunkArrives
  BY <1>1, <1>9 DEF NodeStarts, NodeStops, NodeCaptures, ChunkArrives, recording
<1> QED BY <1>2, <1>3, <1>4, <1>5, <1>6, <1>7, <1>8, <1>9, NextCases, StopStepMoves DEF Heard

LEMMA MessageStep ==
  ASSUME ServiceInv, [Next]_vars, "late" \notin Faults
  PROVE  MessageInv'
<1> USE NoneAssumption DEF ServiceInv
<1>1. CASE UNCHANGED <<toNode, fromNode, draining, isRecording>>
  BY <1>1 DEF MessageInv
<1>2. ASSUME NEW u \in Sessions, StartStep(u) PROVE MessageInv'
  <2>1. CASE NoRecordingYet
    BY <1>1, <1>2, <2>1, StartStepMoves DEF StartMoves, StartStays, NoRecordingYet
  <2>2. CASE ~isRecording /\ draining = None /\ Begun(u)
    <3>1. UNCHANGED <<draining, fromNode>>
      BY <1>2, StartStepMoves DEF StartMoves, StartStays
    <3>2. [type |-> "start", of |-> u] \in Message({"start", "stop"})
      BY DEF Message
    <3>3. /\ toNode' \in Seq(Message({"start", "stop"})) /\ Once(toNode', "stop")
          /\ ~Has(toNode', "stop")
      BY <2>2, <3>2, AppendMessage DEF Begun, MessageInv
    <3> QED BY <2>2, <3>1, <3>3 DEF MessageInv, Begun
  <2> QED BY <1>2, <2>1, <2>2, StartStepMoves DEF StartMoves
<1>3. ASSUME NEW u \in Sessions, AudioStart(u) PROVE MessageInv'
  BY <1>1, <1>3 DEF AudioStart, recording, nodes
<1>4. ASSUME NEW k \in Stops, StopCalled(k) PROVE MessageInv'
  BY <1>1, <1>4 DEF StopCalled, recording, nodes
<1>5. ASSUME NEW k \in Stops, StopMoves(k) PROVE MessageInv'
  <2>1. CASE StopTakes(k)
    <3>1. draining = None /\ active \in Sessions
      BY <2>1, TakesAlone
    <3>2. [type |-> "stop", of |-> active] \in Message({"start", "stop"})
      BY <3>1 DEF Message
    <3>3. ~Has(toNode, "stop") /\ ~Has(fromNode, "done")
      BY <3>1 DEF MessageInv
    <3>4. toNode' \in Seq(Message({"start", "stop"})) /\ Once(toNode', "stop")
      BY <2>1, <3>2, <3>3, AppendMessage DEF StopTakes, MessageInv
    <3> QED BY <2>1, <3>1, <3>3, <3>4 DEF StopTakes, MessageInv
  <2>2. CASE StopFindsNothing(k) \/ StopGoesOn(k)
    BY <1>1, <2>2 DEF StopFindsNothing, StopGoesOn, recording
  <2>3. CASE StopTimesOut(k)
    BY <2>3 DEF StopTimesOut, MessageInv, Has, Once
  <2>4. CASE StopReturns(k)
    <3>1. ~isRecording
      BY <2>4 DEF StopReturns, EndInv, Ends
    <3> QED BY <2>4, <3>1 DEF StopReturns, MessageInv
  <2> QED BY <1>5, <2>1, <2>2, <2>3, <2>4 DEF StopMoves
<1>6. CASE Elsewhere
  <2>1. UNCHANGED <<fromNode, draining, isRecording>> /\ (toNode' = toNode \/ toNode' = <<>>)
    BY <1>6, ElsewhereAside DEF Aside, recording
  <2>2. toNode' = <<>> => toNode' \in Seq(Message({"start", "stop"})) /\ Once(toNode', "stop")
                         /\ ~Has(toNode', "stop")
    BY DEF Has, Once
  <2> QED BY <1>1, <2>1, <2>2 DEF MessageInv
<1>7. CASE NodeStarts
  <2>1. toNode' = Tail(toNode) /\ toNode # <<>> /\ UNCHANGED <<fromNode, draining, isRecording>>
    BY <1>7 DEF NodeStarts, recording
  <2>2. /\ toNode' \in Seq(Message({"start", "stop"})) /\ Once(toNode', "stop")
        /\ Has(toNode', "stop") => Has(toNode, "stop")
    BY <2>1, TailMessage DEF MessageInv
  <2> QED BY <2>1, <2>2 DEF MessageInv
<1>8. CASE NodeStops
  <2>1. /\ toNode' = Tail(toNode) /\ toNode # <<>> /\ Head(toNode).type = "stop"
        /\ UNCHANGED <<draining, isRecording>>
        /\ \/ fromNode' = Append(fromNode, [type |-> "done", of |-> capturing])
           \/ UNCHANGED fromNode
    BY <1>8 DEF NodeStops, recording
  <2>2. /\ toNode' \in Seq(Message({"start", "stop"})) /\ Once(toNode', "stop")
        /\ Has(toNode, "stop") /\ ~Has(toNode', "stop")
    BY <2>1, TailMessage DEF MessageInv
  <2>3. isRecording /\ draining # None /\ ~Has(fromNode, "done")
    BY <2>2 DEF MessageInv
  <2>4. [type |-> "done", of |-> capturing] \in Message({"chunk", "done"})
    BY DEF Message, TypeOK
  <2> DEFINE m == [type |-> "done", of |-> capturing]
  <2>5. /\ Append(fromNode, m) \in Seq(Message({"chunk", "done"}))
        /\ Once(Append(fromNode, m), "done")
    <3> fromNode \in Seq(Message({"chunk", "done"})) /\ Once(fromNode, "done")
      BY DEF MessageInv
    <3> HIDE DEF m
    <3> QED BY <2>3, <2>4, AppendMessage DEF m
  <2>6. fromNode' \in Seq(Message({"chunk", "done"})) /\ Once(fromNode', "done")
    BY <2>1, <2>5 DEF MessageInv
  <2> QED BY <2>1, <2>2, <2>3, <2>6 DEF MessageInv
<1>9. CASE NodeCaptures
  <2>1. /\ fromNode' = Append(fromNode, [type |-> "chunk", of |-> capturing])
        /\ UNCHANGED <<toNode, draining, isRecording>>
    BY <1>9 DEF NodeCaptures, recording
  <2>2. [type |-> "chunk", of |-> capturing] \in Message({"chunk", "done"})
    BY DEF Message, TypeOK
  <2>3. /\ fromNode' \in Seq(Message({"chunk", "done"})) /\ Once(fromNode', "done")
        /\ Has(fromNode', "done") <=> Has(fromNode, "done")
    BY <2>1, <2>2, AppendMessage DEF MessageInv
  <2> QED BY <2>1, <2>3 DEF MessageInv
<1>10. CASE ChunkArrives
  <2>1. fromNode' = Tail(fromNode) /\ fromNode # <<>> /\ UNCHANGED <<toNode, draining, isRecording>>
    BY <1>10 DEF ChunkArrives, recording
  <2>2. /\ fromNode' \in Seq(Message({"chunk", "done"})) /\ Once(fromNode', "done")
        /\ Has(fromNode', "done") => Has(fromNode, "done")
    BY <2>1, TailMessage DEF MessageInv
  <2> QED BY <2>1, <2>2 DEF MessageInv
<1>11. CASE DoneArrives
  <2>1. /\ fromNode' = Tail(fromNode) /\ fromNode # <<>> /\ Head(fromNode).type = "done"
        /\ UNCHANGED toNode
    BY <1>11 DEF DoneArrives
  <2>2. /\ fromNode' \in Seq(Message({"chunk", "done"})) /\ Once(fromNode', "done")
        /\ ~Has(fromNode', "done") /\ Has(fromNode, "done")
    BY <2>1, TailMessage DEF MessageInv
  <2> QED BY <2>1, <2>2 DEF MessageInv
<1>12. CASE FlushEnds
  BY <1>1, <1>12 DEF FlushEnds, nodes
<1> QED BY <1>2, <1>3, <1>4, <1>5, <1>6, <1>7, <1>8, <1>9, <1>10, <1>11, <1>12,
           NextCases, StopStepMoves DEF Heard

-----------------------------------------------------------------------------
(* Starts: past its checks a start has the microphone to itself *)

\* u is the only start in flight.
LEMMA StartsAlone ==
  ASSUME MutexInv, NEW u \in Sessions, start[u] # "idle"
  PROVE  \A v \in Sessions : v # u => start[v] = "idle"
BY DEF MutexInv, InFlight

\* A start that may pass its checks has not begun.
LEMMA StartUnheard ==
  ASSUME StartInv, NEW u \in Sessions, start[u] # "idle", ~isRecording
  PROVE  Unheard(u)
BY DEF StartInv

\* Nobody stops what is asked for again.
LEMMA StopsIdle ==
  ASSUME MutexInv, EndInv, \A k \in Stops : stop[k] = "idle"
  PROVE  draining = None /\ \A k \in Stops : ~In(mutex, k)
BY DEF MutexInv, EndInv, Ends

StartInvOf(u) ==
  /\ start[u] \notin {"idle", "queued"} => ~isRecording /\ Unheard(u)
  /\ start[u] \notin {"idle", "queued", "draining"} => draining = None
  /\ start[u] = "queued" /\ ~Unheard(u) => active = u
  /\ start[u] = "queued" /\ (~Unheard(u) \/ current = active) => isRecording /\ Ahead(u)

LEMMA StartInvParts == StartInv <=> \A u \in Sessions : StartInvOf(u)
BY DEF StartInv, StartInvOf

LEMMA StartInvStart ==
  ASSUME ServiceInv, NEW u \in Sessions, StartMoves(u)
  PROVE  StartInv'
<1> USE DEF ServiceInv
<1>1. start[u] # "idle" /\ UNCHANGED draining
  BY DEF StartMoves, StartStays
<1>2. \A v \in Sessions : v # u => start[v] = "idle"
  BY <1>1, StartsAlone
<1>3. ASSUME NEW a, Ended(u, a) PROVE StartInv'
  <2>1. \A v \in Sessions : start'[v] = "idle"
    BY <1>2, <1>3 DEF Ended, TypeOK
  <2> QED BY <2>1 DEF StartInv
<1>4. ASSUME NEW s \in Stages, Waited(u, s), s # "draining" => draining = None, ~isRecording,
             NoRecordingYet
      PROVE  StartInv'
  <2>1. /\ start'[u] = s /\ UNCHANGED <<answer, isRecording>>
        /\ \A v \in Sessions : v # u => start'[v] = "idle"
    BY <1>2, <1>4 DEF Waited, NoRecordingYet, TypeOK
  <2>2. Unheard(u)
    BY <1>1, <1>4, StartUnheard
  <2>3. StartInvOf(u)'
    BY <1>1, <1>4, <2>1, <2>2 DEF StartInvOf, Unheard, Stages
  <2>4. \A v \in Sessions : v # u => StartInvOf(v)'
    BY <2>1 DEF StartInvOf
  <2> QED BY <2>3, <2>4 DEF StartInvOf, StartInv
<1> QED BY <1>3, <1>4 DEF StartMoves

\* Who may be asked for has not begun, or records and is not being stopped.
LEMMA MayStartCases ==
  ASSUME ServiceInv, NEW u \in Sessions, MayStart(u)
  PROVE  \/ Unheard(u) /\ start[u] = "idle" /\ active # u
         \/ isRecording /\ active = u /\ draining = None /\ \A k \in Stops : ~In(mutex, k)
BY StopsIdle DEF ServiceInv, MayStart, Unheard, DoneInv

LEMMA StartInvAudioStart ==
  ASSUME ServiceInv, NEW u \in Sessions, AudioStart(u)
  PROVE  StartInv'
<1> USE DEF ServiceInv
<1>1. MayStart(u) /\ current' = u /\ UNCHANGED <<active, draining, isRecording>>
  BY DEF AudioStart, recording
<1>2. CASE InFlight = {}
  <2>1. /\ start' = [start EXCEPT ![u] = "queued"] /\ mutex' = Append(mutex, u) /\ UNCHANGED answer
        /\ \A v \in Sessions : start[v] = "idle"
    BY <1>2 DEF AudioStart, Calls, InFlight
  <2>2. start'[u] = "queued" /\ \A v \in Sessions : v # u => start'[v] = "idle"
    BY <2>1 DEF TypeOK
  <2>3. (\A k \in Stops : ~In(mutex, k)) => First(mutex', u)
    <3>1. ~In(mutex, u) /\ u \in Names /\ u \notin Stops
      BY <2>1, NoneAssumption DEF MutexInv, Names
    <3> QED BY <2>1, <3>1, TypeQueue, AppendQueue DEF Queue
  <2>4. StartInvOf(u)'
    <3>1. Unheard(u)' <=> Unheard(u)
      BY <2>1 DEF Unheard
    <3> QED BY <1>1, <2>2, <2>3, <3>1, MayStartCases DEF StartInvOf, Ahead
  <2>5. \A v \in Sessions : v # u => StartInvOf(v)'
    BY <2>2 DEF StartInvOf
  <2> QED BY <2>4, <2>5 DEF StartInvOf, StartInv
<1>3. CASE InFlight # {}
  <2>1. /\ UNCHANGED <<start, mutex>>
        /\ answer' = IF u \in InFlight THEN answer ELSE [answer EXCEPT ![u] = "aborted"]
    BY <1>3 DEF AudioStart
  <2>2. ASSUME NEW v \in Sessions, start[v] # "idle" PROVE StartInvOf(v)'
    <3>1. Unheard(v)' <=> Unheard(v)
      BY <2>1, <2>2 DEF Unheard, InFlight, TypeOK
    <3>2. (\A k \in Stops : ~In(mutex, k)) => First(mutex, v)
      BY DEF First, In
    <3>3. CASE Unheard(u) /\ start[u] = "idle" /\ active # u
      BY <1>1, <2>1, <3>1, <3>3 DEF StartInvOf, StartInv, Ahead
    <3>4. CASE isRecording /\ active = u /\ draining = None /\ \A k \in Stops : ~In(mutex, k)
      BY <1>1, <2>1, <3>1, <3>2, <3>4 DEF StartInvOf, StartInv, Ahead
    <3> QED BY <1>1, <3>3, <3>4, MayStartCases
  <2>3. ASSUME NEW v \in Sessions, start[v] = "idle" PROVE StartInvOf(v)'
    BY <2>1, <2>3 DEF StartInvOf
  <2> QED BY <2>2, <2>3 DEF StartInvOf, StartInv
<1> QED BY <1>2, <1>3

LEMMA StartInvStopCalled ==
  ASSUME ServiceInv, NEW k \in Stops, StopCalled(k)
  PROVE  StartInv'
<1> USE DEF ServiceInv
<1>1. /\ UNCHANGED <<current, active, draining, isRecording>> /\ stop[k] = "idle"
      /\ mutex' = Append(IF Aborted = {} THEN mutex ELSE Tail(mutex), k)
  BY DEF StopCalled, recording
<1>2. ASSUME NEW u \in Sessions PROVE StartInvOf(u)'
  <2>1. CASE Aborted # {}
    <3>1. PICK v \in Sessions : start[v] \in {"acquiring", "retry1", "retry2"}
      BY <2>1 DEF Aborted
    <3>2. start'[u] = "idle"
      BY <3>1, StartsAlone DEF StopCalled, Aborted
    <3> QED BY <3>2 DEF StartInvOf
  <2>2. CASE Aborted = {}
    <3>1. start'[u] = start[u] /\ answer'[u] = answer[u]
      BY <2>2 DEF StopCalled
    <3>2. ~In(mutex, k) /\ k \in Names /\ k # u
      BY <1>1, NoneAssumption DEF MutexInv, Names
    <3>3. First(mutex, u) => First(mutex', u)
      BY <1>1, <2>2, <3>2, TypeQueue, AppendQueue DEF Queue
    <3> QED BY <1>1, <3>1, <3>3 DEF StartInvOf, StartInv, Unheard, Ahead
  <2> QED BY <2>1, <2>2
<1> QED BY <1>2 DEF StartInvOf, StartInv

\* What changes nothing that a start relies on.
LEMMA StartInvKept ==
  ASSUME ServiceInv, Kept, UNCHANGED <<answer, current, recording>>,
         \A u \in Sessions : \/ start'[u] = start[u]
                             \/ start[u] = "resuming" /\ start'[u] = "replaced"
  PROVE  StartInv'
<1>1. ASSUME NEW u \in Sessions PROVE StartInvOf(u)'
  BY DEF ServiceInv, StartInv, StartInvOf, Kept, Ahead, Unheard, recording
<1> QED BY <1>1 DEF StartInvOf, StartInv

\* Who is the first of the queue is not in front of a stop that holds it.
LEMMA NotAheadOfHolder ==
  ASSUME ServiceInv, NEW k \in Stops, Holds(k), NEW u \in Sessions, start[u] # "idle"
  PROVE  ~First(mutex, u) /\ ~Holds(u)
<1>1. PICK j \in DOMAIN mutex : mutex[j] = u
  BY DEF ServiceInv, MutexInv, In
<1>2. 1 \in DOMAIN mutex /\ mutex[1] = k /\ j \in Nat /\ j >= 1
  BY <1>1 DEF ServiceInv, TypeOK, Holds
<1> QED BY <1>1, <1>2, NoneAssumption DEF First, Holds

LEMMA StartInvStop ==
  ASSUME ServiceInv, NEW k \in Stops, StopMoves(k)
  PROVE  StartInv'
<1> USE DEF ServiceInv
<1>1. UNCHANGED <<start, answer, current>>
  BY DEF StopMoves
<1>2. CASE StopTakes(k)
  <2>1. ASSUME NEW u \in Sessions PROVE StartInvOf(u)'
    <3>1. start[u] # "idle" => ~First(mutex, u) /\ ~Holds(u)
      BY <1>2, NotAheadOfHolder DEF StopTakes
    <3>2. start[u] \in {"idle", "queued"}
      BY <3>1 DEF MutexInv
    <3>3. start[u] = "queued" => Unheard(u) /\ current # active
      BY <3>1 DEF StartInv, Ahead
    <3> QED BY <1>1, <1>2, <3>2, <3>3 DEF StartInvOf, StopTakes, Unheard
  <2> QED BY <2>1 DEF StartInvOf, StartInv
<1>3. CASE StopFindsNothing(k) \/ StopGoesOn(k)
  BY <1>1, <1>3, StartInvKept DEF StopFindsNothing, StopGoesOn
<1>4. CASE StopTimesOut(k)
  <2>1. draining # None
    BY <1>4 DEF StopTimesOut, EndInv, Ends
  <2>2. ASSUME NEW u \in Sessions PROVE StartInvOf(u)'
    <3>1. start[u] = "queued" => Unheard(u) /\ current # active
      BY <2>1 DEF StartInv, Ahead
    <3> QED BY <1>1, <1>4, <2>1, <3>1 DEF StartInvOf, StartInv, StopTimesOut, Unheard
  <2> QED BY <2>2 DEF StartInvOf, StartInv
<1>5. CASE StopReturns(k)
  <2>1. draining # None
    BY <1>5 DEF StopReturns, EndInv, Ends
  <2>2. ASSUME NEW u \in Sessions PROVE StartInvOf(u)'
    BY <1>1, <1>5, <2>1 DEF StartInvOf, StartInv, StopReturns, Unheard, Ahead
  <2> QED BY <2>2 DEF StartInvOf, StartInv
<1> QED BY <1>2, <1>3, <1>4, <1>5 DEF StopMoves

LEMMA StartInvStep ==
  ASSUME ServiceInv, [Next]_vars, "late" \notin Faults
  PROVE  StartInv'
<1>1. ASSUME Elsewhere PROVE StartInv'
  BY <1>1, ElsewhereAside, StartInvKept DEF Aside
<1>2. CASE DoneArrives
  <2>1. /\ draining # None
        /\ UNCHANGED <<start, answer, current, active, draining, mutex>> /\ isRecording' = FALSE
    BY <1>2, TailMessage DEF ServiceInv, DoneArrives, MessageInv, starts, orders
  <2>2. ASSUME NEW u \in Sessions PROVE StartInvOf(u)'
    <3>1. start[u] = "queued" => Unheard(u) /\ current # active
      BY <2>1 DEF ServiceInv, StartInv, Ahead
    <3> QED BY <2>1, <3>1 DEF ServiceInv, StartInvOf, StartInv, Unheard
  <2> QED BY <2>2 DEF StartInvOf, StartInv
<1>3. CASE FlushEnds
  <2>1. UNCHANGED <<start, answer, current, active, draining, isRecording, mutex>>
    BY <1>3 DEF FlushEnds, starts, orders
  <2> QED BY <2>1 DEF ServiceInv, StartInv, Unheard, Ahead
<1>4. CASE NodeStarts \/ NodeStops \/ NodeCaptures \/ ChunkArrives
  <2>1. UNCHANGED <<start, answer, current, active, draining, isRecording, mutex>>
    BY <1>4 DEF NodeStarts, NodeStops, NodeCaptures, ChunkArrives, starts, orders, recording
  <2> QED BY <2>1 DEF ServiceInv, StartInv, Unheard, Ahead
<1> QED BY <1>1, <1>2, <1>3, <1>4, NextCases, StartStepMoves, StartInvStart, StartInvAudioStart,
           StartInvStopCalled, StopStepMoves, StartInvStop DEF Heard

-----------------------------------------------------------------------------
(* Each recording is reported done once *)

LEMMA DoneStep ==
  ASSUME ServiceInv, [Next]_vars, "late" \notin Faults
  PROVE  DoneInv'
<1> USE NoneAssumption DEF ServiceInv
<1>1. ASSUME UNCHANGED recording, \A u \in Sessions : Unheard(u)' => Unheard(u)
      PROVE  DoneInv'
  BY <1>1 DEF DoneInv, recording
<1>2. ASSUME NEW u \in Sessions, StartMoves(u) PROVE DoneInv'
  <2>1. UNCHANGED <<draining, finalizing, done>>
    BY <1>2 DEF StartMoves, StartStays
  <2>2. ASSUME NEW a \in {"aborted", "failed", "started"}, Ended(u, a), NEW v \in Sessions, Unheard(v)'
        PROVE  v # u /\ Unheard(v)
    BY <2>2 DEF Ended, Unheard, TypeOK
  <2>3. CASE \E a \in {"aborted", "failed", "started"} : Ended(u, a) /\ NoRecordingYet
    BY <1>1, <2>1, <2>2, <2>3 DEF NoRecordingYet, recording
  <2>4. CASE ~isRecording /\ Ended(u, "recovering") /\ NoRecordingYet
    <3>1. Unheard(u)
      BY <1>2, <2>4, StartUnheard DEF StartMoves
    <3>2. \A v \in Sessions : v # u => answer'[v] = answer[v]
      BY <2>4 DEF Ended, TypeOK
    <3> QED BY <1>1, <2>1, <2>4, <3>1, <3>2 DEF NoRecordingYet, recording, Unheard
  <2>5. CASE (\E s \in Stages : Waited(u, s)) /\ NoRecordingYet
    BY <1>1, <2>1, <2>5 DEF NoRecordingYet, recording, Waited, Unheard
  <2>6. CASE ~isRecording /\ draining = None /\ Ended(u, "started") /\ Begun(u)
    <3>1. Unheard(u)
      BY <1>2, <2>6, StartUnheard DEF StartMoves
    <3>2. done[u] = 0 /\ active' = u
      BY <2>6, <3>1 DEF DoneInv, Begun
    <3> QED BY <2>1, <2>2, <2>6, <3>2 DEF DoneInv
  <2> QED BY <1>2, <2>3, <2>4, <2>5, <2>6 DEF StartMoves
<1>3. ASSUME NEW u \in Sessions, AudioStart(u) PROVE DoneInv'
  <2>1. answer' = answer \/ answer' = [answer EXCEPT ![u] = "aborted"]
    BY <1>3 DEF AudioStart
  <2>2. \A v \in Sessions : Unheard(v)' => Unheard(v)
    BY <2>1 DEF Unheard, TypeOK
  <2> QED BY <1>1, <1>3, <2>2 DEF AudioStart
<1>4. ASSUME NEW k \in Stops, StopCalled(k) PROVE DoneInv'
  <2>1. \A v \in Sessions : answer'[v] \in {answer[v], "aborted"}
    BY <1>4 DEF StopCalled
  <2> QED BY <1>1, <1>4, <2>1 DEF StopCalled, Unheard
<1>5. ASSUME isRecording, draining # None, isRecording' = FALSE, RecordingDone(Owning),
             UNCHANGED <<answer, active, finalizing>>
      PROVE  DoneInv'
  <2>1. active \in Sessions /\ Owning = active
    BY <1>5 DEF EndInv, Owning
  <2>2. done[active] = 0 /\ finalizing = None /\ ~Unheard(active)
    BY <1>5, <2>1 DEF DoneInv, EndInv
  <2>3. done' = [u \in Sessions |-> IF u = active THEN done[u] + 1 ELSE done[u]]
    BY <1>5, <2>1, DoneCounts
  <2> QED BY <1>5, <2>1, <2>2, <2>3 DEF DoneInv, Unheard
<1>6. ASSUME NEW k \in Stops, StopMoves(k) PROVE DoneInv'
  <2>1. UNCHANGED answer
    BY <1>6 DEF StopMoves
  <2>2. CASE StopTakes(k) \/ StopFindsNothing(k) \/ StopGoesOn(k) \/ StopReturns(k)
    <3>1. UNCHANGED <<active, isRecording, finalizing, done>>
      BY <2>2 DEF StopTakes, StopFindsNothing, StopGoesOn, StopReturns, recording
    <3> QED BY <2>1, <3>1 DEF DoneInv, Unheard
  <2>3. CASE StopTimesOut(k)
    <3>1. draining # None
      BY <2>3 DEF StopTimesOut, EndInv, Ends
    <3> QED BY <1>5, <2>1, <2>3, <3>1 DEF StopTimesOut
  <2> QED BY <1>6, <2>2, <2>3 DEF StopMoves
<1>7. CASE Elsewhere
  BY <1>1, <1>7, ElsewhereAside DEF Aside, Unheard
<1>8. CASE DoneArrives
  <2>1. isRecording /\ draining # None /\ isRecording' = FALSE /\ UNCHANGED <<answer, active, draining>>
    BY <1>8, TailMessage DEF DoneArrives, MessageInv, starts
  <2>2. CASE useOpus
    <3>1. finalizing' = active /\ UNCHANGED done
      BY <1>8, <2>1, <2>2 DEF DoneArrives
    <3>2. active \in Sessions /\ done[active] = 0
      BY <2>1 DEF EndInv, DoneInv
    <3> QED BY <2>1, <3>1, <3>2 DEF DoneInv, Unheard
  <2>3. CASE ~useOpus
    BY <1>5, <1>8, <2>1, <2>3 DEF DoneArrives
  <2> QED BY <2>2, <2>3
<1>9. CASE FlushEnds
  <2>1. finalizing \in Sessions /\ finalizing = active /\ ~isRecording
    BY <1>9 DEF FlushEnds, EndInv, TypeOK
  <2>2. done' = [u \in Sessions |-> IF u = finalizing THEN done[u] + 1 ELSE done[u]]
    BY <1>9, DoneCounts DEF FlushEnds
  <2>3. done[finalizing] = 0 /\ ~Unheard(finalizing)
    BY <2>1 DEF DoneInv
  <2>4. finalizing' = None /\ UNCHANGED <<answer, active, isRecording>>
    BY <1>9 DEF FlushEnds, starts
  <2> QED BY <2>1, <2>2, <2>3, <2>4 DEF DoneInv, Unheard
<1>10. CASE NodeStarts \/ NodeStops \/ NodeCaptures \/ ChunkArrives
  BY <1>1, <1>10 DEF NodeStarts, NodeStops, NodeCaptures, ChunkArrives, Unheard, starts
<1> QED BY <1>2, <1>3, <1>4, <1>6, <1>7, <1>8, <1>9, <1>10, NextCases, StartStepMoves, StopStepMoves
        DEF Heard

\* The inductive invariant holds, unless the worklet answers a stop that has timed out.
THEOREM Invariance ==
  ASSUME "late" \notin Faults
  PROVE  Spec => []ServiceInv
<1>1. ServiceInv /\ [Next]_vars => ServiceInv'
  BY MutexStep, TypeStep, EndStep, StartInvStep, MessageStep, DoneStep DEF ServiceInv
<1> QED BY <1>1, ServiceInit, PTL DEF Spec

\* Every variable has its type, and nobody enters recordingMutex twice.
THEOREM TypeCorrect ==
  ASSUME "late" \notin Faults
  PROVE  Spec => []TypeOK
<1>1. ServiceInv => TypeOK
  BY DEF ServiceInv
<1> QED BY <1>1, Invariance, PTL

-----------------------------------------------------------------------------
(* Dictation implements DictationService *)

Refused(u) == answer[u] \in {"aborted", "failed"}
Records(u) == (isRecording /\ active = u) \/ finalizing = u

LEMMA PhaseIs ==
  ASSUME ServiceInv, NEW u \in Sessions
  PROVE  /\ Records(u) => Phase(u) = "recording" /\ done[u] = 0
         /\ Unheard(u) => Phase(u) = "new" /\ ~Records(u) /\ done[u] = 0
         /\ \A v \in Sessions : Records(u) /\ Records(v) => u = v
<1> USE NoneAssumption DEF ServiceInv
<1>1. Records(u) => done[u] = 0
  BY DEF DoneInv, Records
<1>2. Records(u) => Phase(u) = "recording"
  BY <1>1 DEF Phase, Records
<1>3. Unheard(u) => done[u] = 0 /\ ~Records(u)
  BY DEF DoneInv, EndInv, Records
<1>4. Unheard(u) => Phase(u) = "new"
  BY <1>3 DEF Phase, Records, Unheard
<1>5. \A v \in Sessions : Records(u) /\ Records(v) => u = v
  BY DEF EndInv, Records
<1> QED BY <1>1, <1>2, <1>3, <1>4, <1>5

\* A phase depends on nothing else.
LEMMA PhaseSame ==
  ASSUME NEW u, done'[u] = done[u], Records(u)' <=> Records(u), Refused(u)' <=> Refused(u)
  PROVE  Phase(u)' = Phase(u)
BY DEF Phase, Records, Refused

LEMMA ServiceRefuses ==
  ASSUME NEW u \in Sessions, Phase(u) = "new", Phase(u)' = "refused", UNCHANGED done,
         \A v \in Sessions : v # u => Phase(v)' = Phase(v)
  PROVE  Service!Refuse(u)
<1> DEFINE p == [v \in Sessions |-> Phase(v)]
<1>1. p' = [p EXCEPT ![u] = "refused"] /\ p[u] = "new"
  OBVIOUS
<1> QED BY <1>1 DEF Service!Refuse

LEMMA ServiceBegins ==
  ASSUME NEW u \in Sessions, Phase(u) = "new", Phase(u)' = "recording", UNCHANGED done,
         \A v \in Sessions : Phase(v) # "recording",
         \A v \in Sessions : v # u => Phase(v)' = Phase(v)
  PROVE  Service!Begin(u)
<1> DEFINE p == [v \in Sessions |-> Phase(v)]
<1>1. /\ p' = [p EXCEPT ![u] = "recording"] /\ p[u] = "new"
      /\ \A v \in Sessions : p[v] # "recording"
  OBVIOUS
<1> QED BY <1>1 DEF Service!Begin

LEMMA ServiceEnds ==
  ASSUME NEW u \in Sessions, Phase(u) = "recording", Phase(u)' = "ended",
         done' = [done EXCEPT ![u] = 1],
         \A v \in Sessions : v # u => Phase(v)' = Phase(v)
  PROVE  Service!End(u)
<1> DEFINE p == [v \in Sessions |-> Phase(v)]
<1>1. p' = [p EXCEPT ![u] = "ended"] /\ p[u] = "recording"
  OBVIOUS
<1> QED BY <1>1 DEF Service!End

LEMMA ServiceStutters ==
  ASSUME UNCHANGED done, \A v \in Sessions : Phase(v)' = Phase(v)
  PROVE  UNCHANGED Service!vars
<1>1. [v \in Sessions |-> Phase(v)]' = [v \in Sessions |-> Phase(v)]
  OBVIOUS
<1> QED BY <1>1 DEF Service!vars

ServiceStep == [Service!Next]_(Service!vars)

LEMMA StutterStep ==
  ASSUME UNCHANGED <<done, answer>>, \A v \in Sessions : Records(v)' <=> Records(v)
  PROVE  ServiceStep
<1>1. \A v \in Sessions : Phase(v)' = Phase(v)
  BY PhaseSame DEF Refused
<1> QED BY <1>1, ServiceStutters DEF ServiceStep

\* A dictation that has not begun is refused; one that records is not affected.
LEMMA AnswerStep ==
  ASSUME ServiceInv, ServiceInv', NEW u \in Sessions, Unheard(u) \/ Records(u),
         UNCHANGED <<done, isRecording, active, finalizing>>,
         \A v \in Sessions : v # u => answer'[v] = answer[v]
  PROVE  ServiceStep
<1>1. \A v \in Sessions : Records(v)' <=> Records(v)
  BY DEF Records
<1>2. \A v \in Sessions : v # u => Phase(v)' = Phase(v)
  BY <1>1, PhaseSame DEF Refused
<1>3. CASE Records(u)
  <2>1. Phase(u)' = "recording" /\ Phase(u) = "recording"
    <3>1. Phase(u) = "recording" /\ done[u] = 0
      BY <1>3, PhaseIs
    <3>2. done'[u] = 0 /\ Records(u)'
      BY <1>1, <1>3, <3>1
    <3> QED BY <3>1, <3>2 DEF Phase, Records
  <2> QED BY <1>2, <2>1, ServiceStutters DEF ServiceStep
<1>4. CASE Unheard(u)
  <2>1. Phase(u) = "new" /\ done[u] = 0 /\ ~Records(u)
    BY <1>4, PhaseIs
  <2>2. Phase(u)' \in {"new", "refused"}
    <3>1. done'[u] = 0 /\ ~Records(u)'
      BY <1>1, <2>1
    <3> QED BY <3>1 DEF Phase, Records
  <2>3. CASE Phase(u)' = "new"
    BY <1>2, <2>1, <2>3, ServiceStutters DEF ServiceStep
  <2>4. CASE Phase(u)' = "refused"
    BY <1>2, <2>1, <2>4, ServiceRefuses DEF ServiceStep, Service!Next
  <2> QED BY <2>2, <2>3, <2>4
<1> QED BY <1>3, <1>4

LEMMA EndStepOf ==
  ASSUME ServiceInv, NEW u \in Sessions, Records(u), ~Records(u)', RecordingDone(u), UNCHANGED answer,
         \A v \in Sessions : v # u => (Records(v)' <=> Records(v))
  PROVE  ServiceStep
<1>1. Phase(u) = "recording" /\ done[u] = 0
  BY PhaseIs
<1>2. done' = [v \in Sessions |-> IF v = u THEN done[v] + 1 ELSE done[v]]
  BY DoneCounts DEF ServiceInv
<1>3. done' = [done EXCEPT ![u] = 1] /\ done'[u] = 1
  <2>1. done \in [Sessions -> Nat]
    BY DEF ServiceInv, TypeOK
  <2>2. done' = [v \in Sessions |-> IF v = u THEN 1 ELSE done[v]]
    BY <1>1, <1>2
  <2>3. done' = [done EXCEPT ![u] = 1]
    BY <2>1, <2>2
  <2> QED BY <2>2, <2>3
<1>4. Phase(u)' = "ended"
  BY <1>3 DEF Phase
<1>5. \A v \in Sessions : v # u => Phase(v)' = Phase(v)
  BY <1>2, PhaseSame DEF Refused
<1> QED BY <1>1, <1>3, <1>4, <1>5, ServiceEnds DEF ServiceStep, Service!Next

\* A start knows its dictation: it has not begun, or it records.
LEMMA StartKnows ==
  ASSUME ServiceInv, NEW u \in Sessions, start[u] # "idle"
  PROVE  Unheard(u) \/ Records(u)
BY DEF ServiceInv, StartInv, Records

LEMMA StartImplements ==
  ASSUME ServiceInv, ServiceInv', NEW u \in Sessions, StartMoves(u)
  PROVE  ServiceStep
<1>1. start[u] # "idle" /\ UNCHANGED <<finalizing, done, draining>>
  BY DEF StartMoves, StartStays
<1>2. Unheard(u) \/ Records(u)
  BY <1>1, StartKnows
<1>3. CASE NoRecordingYet
  <2>1. \A v \in Sessions : v # u => answer'[v] = answer[v]
    BY DEF StartMoves, Ended, Waited, ServiceInv, TypeOK
  <2> QED BY <1>1, <1>2, <1>3, <2>1, AnswerStep DEF NoRecordingYet
<1>4. CASE ~isRecording /\ draining = None /\ Ended(u, "started") /\ Begun(u)
  <2>1. finalizing = None /\ ~isRecording
    BY <1>4 DEF ServiceInv, EndInv
  <2>2. \A v \in Sessions : ~Records(v)
    BY <2>1, NoneAssumption DEF Records
  <2>3. Phase(u) = "new" /\ done[u] = 0
    BY <1>2, <2>2, PhaseIs
  <2>4. \A v \in Sessions : Phase(v) # "recording"
    BY <2>2 DEF Phase, Records
  <2>5. /\ \A v \in Sessions : Records(v)' <=> v = u
        /\ \A v \in Sessions : v # u => answer'[v] = answer[v]
    <3>1. active' = u /\ isRecording' = TRUE /\ finalizing' = None
      BY <1>1, <1>4, <2>1 DEF Begun
    <3>2. \A v \in Sessions : Records(v)' <=> v = u
      BY <3>1, NoneAssumption DEF Records
    <3>3. \A v \in Sessions : v # u => answer'[v] = answer[v]
      BY <1>4 DEF Ended, ServiceInv, TypeOK
    <3> QED BY <3>2, <3>3
  <2>6. Phase(u)' = "recording"
    BY <1>1, <2>3, <2>5 DEF Phase, Records
  <2>7. \A v \in Sessions : v # u => Phase(v)' = Phase(v)
    BY <1>1, <2>2, <2>5, PhaseSame DEF Refused
  <2> QED BY <1>1, <2>3, <2>4, <2>6, <2>7, ServiceBegins DEF ServiceStep, Service!Next
<1> QED BY <1>3, <1>4 DEF StartMoves

LEMMA StepImplements ==
  ASSUME ServiceInv, ServiceInv', [Next]_vars, "late" \notin Faults
  PROVE  ServiceStep
<1> USE NoneAssumption
<1>1. ASSUME UNCHANGED <<done, answer, isRecording, active, finalizing>> PROVE ServiceStep
  <2>1. \A v \in Sessions : Records(v)' <=> Records(v)
    BY <1>1 DEF Records
  <2> QED BY <1>1, <2>1, StutterStep
<1>2. ASSUME NEW u \in Sessions, AudioStart(u) PROVE ServiceStep
  <2>1. /\ UNCHANGED <<done, isRecording, active, finalizing>> /\ MayStart(u)
        /\ answer' = answer \/ answer' = [answer EXCEPT ![u] = "aborted"]
    BY <1>2 DEF AudioStart, recording
  <2>2. \A v \in Sessions : v # u => answer'[v] = answer[v]
    BY <2>1 DEF ServiceInv, TypeOK
  <2>3. Unheard(u) \/ Records(u)
    BY <2>1, MayStartCases DEF Records
  <2> QED BY <2>1, <2>2, <2>3, AnswerStep
<1>3. ASSUME NEW k \in Stops, StopCalled(k) PROVE ServiceStep
  <2>1. /\ UNCHANGED <<done, isRecording, active, finalizing>>
        /\ answer' = [u \in Sessions |-> IF u \in Aborted THEN "aborted" ELSE answer[u]]
    BY <1>3 DEF StopCalled, recording
  <2>2. CASE Aborted = {}
    <3>1. answer' = answer
      BY <2>1, <2>2 DEF ServiceInv, TypeOK
    <3> QED BY <1>1, <2>1, <3>1
  <2>3. CASE Aborted # {}
    <3>1. PICK u \in Sessions : u \in Aborted
      BY <2>3 DEF Aborted
    <3>2. start[u] # "idle"
      BY <3>1 DEF Aborted
    <3>3. \A v \in Sessions : v # u => v \notin Aborted
      BY <3>2, StartsAlone DEF Aborted, ServiceInv
    <3>4. \A v \in Sessions : v # u => answer'[v] = answer[v]
      BY <2>1, <3>3
    <3> QED BY <2>1, <3>2, <3>4, StartKnows, AnswerStep
  <2> QED BY <2>2, <2>3
<1>4. ASSUME isRecording, draining # None, isRecording' = FALSE, RecordingDone(Owning),
             UNCHANGED <<answer, active, finalizing>>
      PROVE  ServiceStep
  <2>1. active \in Sessions /\ Owning = active /\ finalizing = None
    BY <1>4 DEF ServiceInv, EndInv, Owning
  <2>2. \A v \in Sessions : (Records(v) <=> v = active) /\ ~Records(v)'
    BY <1>4, <2>1 DEF Records
  <2> QED BY <1>4, <2>1, <2>2, EndStepOf
<1>5. ASSUME NEW k \in Stops, StopMoves(k) PROVE ServiceStep
  <2>1. CASE StopTakes(k) \/ StopFindsNothing(k) \/ StopGoesOn(k) \/ StopReturns(k)
    BY <1>1, <1>5, <2>1
       DEF StopMoves, StopTakes, StopFindsNothing, StopGoesOn, StopReturns, recording
  <2>2. CASE StopTimesOut(k)
    <3>1. draining # None
      BY <2>2 DEF StopTimesOut, ServiceInv, EndInv, Ends
    <3> QED BY <1>4, <1>5, <2>2, <3>1 DEF StopMoves, StopTimesOut
  <2> QED BY <1>5, <2>1, <2>2 DEF StopMoves
<1>6. CASE Elsewhere
  BY <1>1, <1>6, ElsewhereAside DEF Aside, recording
<1>7. CASE DoneArrives
  <2>1. isRecording /\ draining # None /\ isRecording' = FALSE /\ UNCHANGED <<answer, active>>
    BY <1>7, TailMessage DEF DoneArrives, ServiceInv, MessageInv, starts
  <2>2. CASE useOpus
    <3>1. finalizing' = active /\ UNCHANGED done
      BY <1>7, <2>1, <2>2 DEF DoneArrives
    <3>2. finalizing = None
      BY <2>1 DEF ServiceInv, EndInv
    <3>3. \A v \in Sessions : Records(v)' <=> Records(v)
      BY <2>1, <3>1, <3>2 DEF Records
    <3> QED BY <2>1, <3>1, <3>3, StutterStep
  <2>3. CASE ~useOpus
    BY <1>4, <1>7, <2>1, <2>3 DEF DoneArrives
  <2> QED BY <2>2, <2>3
<1>8. CASE FlushEnds
  <2>1. finalizing \in Sessions /\ ~isRecording /\ RecordingDone(finalizing) /\ finalizing' = None
    BY <1>8 DEF FlushEnds, ServiceInv, TypeOK, EndInv
  <2>2. UNCHANGED <<answer, active, isRecording>>
    BY <1>8 DEF FlushEnds, starts
  <2>3. \A v \in Sessions : (Records(v) <=> v = finalizing) /\ ~Records(v)'
    BY <2>1, <2>2 DEF Records
  <2> QED BY <2>1, <2>2, <2>3, EndStepOf
<1>9. CASE NodeStarts \/ NodeStops \/ NodeCaptures \/ ChunkArrives
  BY <1>1, <1>9 DEF NodeStarts, NodeStops, NodeCaptures, ChunkArrives, recording, starts
<1> QED BY <1>2, <1>3, <1>5, <1>6, <1>7, <1>8, <1>9, NextCases, StartStepMoves, StartImplements,
           StopStepMoves DEF Heard

\* One dictation at a time records, each is reported done exactly once, and none
\* begins before the end of the one before it was reported.
THEOREM Implementation ==
  ASSUME "late" \notin Faults
  PROVE  Spec => ImplementsService
<1>1. Init => Service!Init
  <2> SUFFICES ASSUME Init PROVE Service!Init
    OBVIOUS
  <2>1. \A u \in Sessions : Phase(u) = "new"
    BY NoneAssumption DEF Init, Phase
  <2> QED BY <2>1 DEF Init, Service!Init
<1>2. ServiceInv /\ ServiceInv' /\ [Next]_vars => [Service!Next]_(Service!vars)
  BY StepImplements DEF ServiceStep
<1> QED BY <1>1, <1>2, Invariance, PTL DEF Spec, ImplementsService, Service!Spec

-----------------------------------------------------------------------------
(* The microphone *)

\* While a stop settles its own call has closed the microphone, so that giving up
\* Vm.stream loses none.  What is granted to a call that a retry forgot is not closed.
MicInv ==
  /\ StreamHeld
  /\ "lateGrant" \notin Faults =>
       /\ AbortedMicsClose
       /\ \A k \in Stops : stop[k] = "settling" => \A r \in Sessions : mic[r] # "live"

\* No microphone is opened but for nobody.
MicKept ==
  /\ UNCHANGED <<stream, isRecording>>
  /\ "lateGrant" \notin Faults => \A r \in Sessions : mic'[r] = "live" => mic[r] = "live"

\* The microphone of the call r is opened for a recording.
MicOpens ==
  /\ ~isRecording /\ draining = None /\ isRecording' = TRUE
  /\ \E r \in Sessions \cup {None} : mic' = [mic EXCEPT ![r] = "live"] /\ stream' = r

\* A start keeps the microphones as they are or opens its own.
LEMMA MicAcquire ==
  ASSUME TypeOK, NEW u \in Sessions, Acquire(u), UNCHANGED isRecording
  PROVE  MicKept
<1>1. CASE shouldAbortStart
  BY <1>1 DEF Acquire, microphone, MicKept
<1>2. CASE ~shouldAbortStart
  <2>1. UNCHANGED <<stream, isRecording>>
    BY <1>2 DEF Acquire
  <2>2. \/ UNCHANGED mic
        \/ mic' = [r \in Sessions |-> IF r = u THEN "pending"
                                      ELSE IF r = orphan THEN "free" ELSE mic[r]]
    BY <1>2 DEF Acquire
  <2> QED BY <2>1, <2>2 DEF MicKept
<1> QED BY <1>1, <1>2

LEMMA MicConnect ==
  ASSUME TypeOK, NEW u \in Sessions, ~isRecording, draining = None,
         NEW r \in Sessions \cup {None}, Connect(u, r)
  PROVE  MicKept \/ MicOpens
<1>1. CASE isRecording' = TRUE /\ stream' = r /\ mic' = [mic EXCEPT ![r] = "live"]
  BY <1>1 DEF MicOpens
<1>2. CASE UNCHANGED <<stream, isRecording>> /\ mic' = [mic EXCEPT ![r] = "free"]
  BY <1>2 DEF MicKept, TypeOK
<1> QED BY <1>1, <1>2 DEF Connect

LEMMA MicStartStep ==
  ASSUME ServiceInv, NEW u \in Sessions, StartStep(u)
  PROVE  MicKept \/ MicOpens
<1> USE DEF ServiceInv
<1>1. CASE UNCHANGED <<isRecording, microphone>>
  BY <1>1 DEF MicKept, microphone
<1>2. CASE Acquire(u) /\ UNCHANGED isRecording
  BY <1>2, MicAcquire
<1>3. CASE StartEntered(u) \/ DrainSettled(u) \/ MeetingAwaited(u) \/ ResumeEnds(u)
  <2>1. UNCHANGED isRecording
    BY <1>3 DEF StartEntered, DrainSettled, MeetingAwaited, ResumeEnds, Started, recording
  <2>2. UNCHANGED microphone \/ Acquire(u)
    BY <1>3 DEF StartEntered, DrainSettled, MeetingAwaited, ResumeEnds, CheckRecording,
                CheckMeeting, CheckGraph, Repair
  <2> QED BY <1>1, <1>2, <2>1, <2>2
<1>4. CASE DrainTimesOut(u)
  BY <1>1, <1>4 DEF DrainTimesOut, Started, recording
<1>5. CASE BackoffEnds(u)
  <2>1. UNCHANGED <<stream, isRecording>> /\ (UNCHANGED mic \/ mic' = [mic EXCEPT ![u] = "pending"])
    BY <1>5 DEF BackoffEnds
  <2> QED BY <2>1 DEF MicKept, TypeOK
<1>6. CASE MicGranted(u) \/ RetryGranted(u)
  <2>1. ~isRecording /\ draining = None
    BY <1>6 DEF MicGranted, RetryGranted, StartInv
  <2>2. wanted \in Sessions \cup {None}
    BY DEF TypeOK
  <2> QED BY <1>6, <2>1, <2>2, MicConnect DEF MicGranted, RetryGranted
<1>7. CASE MicFails(u) \/ RetryFails(u)
  <2>1. UNCHANGED <<stream, isRecording>> /\ \E r : mic' = [mic EXCEPT ![r] = "free"]
    BY <1>7 DEF MicFails, RetryFails
  <2> QED BY <2>1 DEF MicKept, TypeOK
<1> QED BY <1>3, <1>4, <1>5, <1>6, <1>7 DEF StartStep, Starting, MicAnswers

LEMMA MicElsewhere ==
  ASSUME TypeOK, Elsewhere
  PROVE  MicKept
<1>1. CASE OrphanDiscarded
  <2>1. UNCHANGED <<stream, isRecording>> /\ \E r : mic' = [mic EXCEPT ![r] = "free"]
    BY <1>1 DEF OrphanDiscarded, recording
  <2> QED BY <2>1 DEF MicKept, TypeOK
<1>4. CASE ForgottenSettles
  <2>1. UNCHANGED <<stream, isRecording>>
    BY <1>4 DEF ForgottenSettles, recording
  <2>2. "lateGrant" \notin Faults => \E r : mic' = [mic EXCEPT ![r] = "free"]
    BY <1>4 DEF ForgottenSettles
  <2> QED BY <2>1, <2>2 DEF MicKept, TypeOK
<1>2. CASE UNCHANGED <<stream, isRecording, mic>>
  BY <1>2 DEF MicKept
<1>3. CASE ~OrphanDiscarded /\ ~ForgottenSettles
  <2>1. UNCHANGED <<recording, microphone>>
    BY <1>3 DEF Elsewhere, Background, BuildEnds, InitializeCalled, InitializeEntered, InitializeEnds,
                MeetingStarts, Meeting, MeetingAdmitted, MeetingAcquires, MeetingStopped, MeetingStops,
                MeetingStep, ContextSuspended, ContextResumed, vars
  <2> QED BY <1>2, <2>1 DEF recording, microphone
<1> QED BY <1>1, <1>3, <1>4

\* The stop that holds the mutex closes the microphone, then gives up Vm.stream.
LEMMA MicStop ==
  ASSUME ServiceInv, MicInv, "late" \notin Faults, NEW k \in Stops, Stopping(k) \/ LastChunkTimesOut(k)
  PROVE  MicInv'
<1> USE DEF ServiceInv
<1> DEFINE Has3(l) == stop[l] \in {"lastChunk", "probing", "settling"}
<1>1. ASSUME NEW s, stop' = [stop EXCEPT ![k] = s],
             UNCHANGED <<mic, stream>>, s # "settling",
             stream # None => isRecording' \/ s \in {"lastChunk", "probing", "settling"}
                              \/ \E l \in Stops \ {k} : Has3(l)
      PROVE  MicInv'
  <2>1. stop'[k] = s /\ \A l \in Stops : l # k => stop'[l] = stop[l]
    BY <1>1 DEF TypeOK
  <2>2. StreamHeld' /\ ("lateGrant" \notin Faults => AbortedMicsClose')
    BY <1>1, <2>1 DEF MicInv, StreamHeld, AbortedMicsClose
  <2>3. \A l \in Stops : stop'[l] = "settling" => stop[l] = "settling"
    BY <1>1, <2>1
  <2> QED BY <1>1, <2>2, <2>3 DEF MicInv
<1>2. CASE StopEntered(k)
  <2>1. UNCHANGED <<mic, stream, isRecording>>
    BY <1>2 DEF StopEntered, microphone
  <2>2. CASE isRecording
    BY <1>1, <1>2, <2>1, <2>2 DEF StopEntered
  <2>3. CASE ~isRecording
    <3>1. stream # None => \E l \in Stops \ {k} : Has3(l)
      BY <1>2, <2>3 DEF MicInv, StreamHeld, AbortedMicsClose, StopEntered
    <3> QED BY <1>1, <1>2, <2>1, <2>3, <3>1 DEF StopEntered
  <2> QED BY <2>2, <2>3
<1>3. CASE LastChunkIn(k) \/ LastChunkTimesOut(k)
  BY <1>1, <1>3 DEF LastChunkIn, LastChunkTimesOut, microphone
<1>4. CASE ProbeEnds(k)
  <2>1. /\ mic' = [mic EXCEPT ![stream] = "free"] /\ stop' = [stop EXCEPT ![k] = "settling"]
        /\ UNCHANGED <<stream, isRecording>>
    BY <1>4 DEF ProbeEnds, recording
  <2>2. "lateGrant" \notin Faults => \A r \in Sessions : mic'[r] # "live"
    BY <2>1 DEF MicInv, StreamHeld, AbortedMicsClose, TypeOK
  <2>3. stop'[k] = "settling"
    BY <2>1 DEF TypeOK
  <2> QED BY <2>2, <2>3 DEF MicInv, StreamHeld, AbortedMicsClose
<1>5. CASE Settled(k)
  <2>1. /\ UNCHANGED mic /\ stream' = None
        /\ "lateGrant" \notin Faults => \A r \in Sessions : mic'[r] # "live"
    BY <1>5 DEF Settled, MicInv
  <2> QED BY <2>1 DEF MicInv, StreamHeld, AbortedMicsClose
<1>6. CASE Reloaded(k)
  <2>1. stream = None
    <3>1. \A l \in Stops : Has3(l) => l = k
      BY <1>6 DEF Reloaded, EndInv, Ends
    <3> QED BY <1>6, <3>1 DEF Reloaded, MicInv, StreamHeld, AbortedMicsClose, EndInv, Ends
  <2> QED BY <1>1, <1>6, <2>1 DEF Reloaded, microphone
<1>7. CASE Finalised(k)
  <2>1. stop' = [stop EXCEPT ![k] = "idle"] /\ UNCHANGED <<stream, isRecording>>
    BY <1>7 DEF Finalised
  <2>2. \A r \in Sessions : mic'[r] = "live" => mic[r] = "live"
    BY <1>7 DEF Finalised
  <2>3. /\ \A l \in Stops : stop'[l] = "settling" => stop[l] = "settling"
        /\ \A l \in Stops : Has3(l) => stop'[l] = stop[l]
    BY <1>7, <2>1 DEF Finalised, TypeOK
  <2> QED BY <2>1, <2>2, <2>3 DEF MicInv, StreamHeld, AbortedMicsClose
<1> QED BY <1>2, <1>3, <1>4, <1>5, <1>6, <1>7 DEF Stopping

LEMMA MicStep ==
  ASSUME ServiceInv, MicInv, [Next]_vars, "late" \notin Faults
  PROVE  MicInv'
<1> USE DEF ServiceInv
<1>1. ASSUME MicKept, UNCHANGED stop PROVE MicInv'
  BY <1>1 DEF MicKept, MicInv, StreamHeld, AbortedMicsClose
<1>2. ASSUME NEW u \in Sessions, StartStep(u) PROVE MicInv'
  <2>1. UNCHANGED stop
    BY <1>2, StartStepMoves DEF StartMoves, StartStays
  <2>2. CASE MicOpens
    <3>1. \A k \in Stops : ~Ends(k)
      BY <2>2 DEF MicOpens, EndInv
    <3>2. stream = None
      BY <2>2, <3>1 DEF MicOpens, MicInv, StreamHeld, AbortedMicsClose, Ends
    <3>3. "lateGrant" \notin Faults => \A r \in Sessions : mic[r] # "live"
      BY <3>2, NoneAssumption DEF MicInv, StreamHeld, AbortedMicsClose
    <3>4. PICK r \in Sessions \cup {None} : mic' = [mic EXCEPT ![r] = "live"] /\ stream' = r
      BY <2>2 DEF MicOpens
    <3>5. "lateGrant" \notin Faults => \A q \in Sessions : mic'[q] = "live" => q = r
      BY <3>3, <3>4 DEF TypeOK
    <3>6. StreamHeld' /\ ("lateGrant" \notin Faults => AbortedMicsClose')
      BY <2>2, <3>4, <3>5 DEF MicOpens, StreamHeld, AbortedMicsClose
    <3>7. \A k \in Stops : stop'[k] # "settling"
      BY <2>1, <3>1 DEF Ends
    <3> QED BY <3>6, <3>7 DEF MicInv
  <2> QED BY <1>1, <1>2, <2>1, <2>2, MicStartStep
<1>3. ASSUME NEW u \in Sessions, AudioStart(u) PROVE MicInv'
  BY <1>1, <1>3 DEF AudioStart, recording, microphone, MicKept
<1>4. ASSUME NEW k \in Stops, StopCalled(k) PROVE MicInv'
  <2>1. MicKept
    <3>1. UNCHANGED <<stream, isRecording>>
      BY <1>4 DEF StopCalled, recording
    <3>2. \A r \in Sessions : mic'[r] = "live" => mic[r] = "live"
      BY <1>4 DEF StopCalled
    <3> QED BY <3>1, <3>2 DEF MicKept
  <2>2. \A l \in Stops : stop'[l] = stop[l] \/ (stop[l] = "idle" /\ stop'[l] = "queued")
    BY <1>4 DEF StopCalled, TypeOK
  <2> QED BY <2>1, <2>2 DEF MicKept, MicInv, StreamHeld, AbortedMicsClose
<1>5. ASSUME NEW k \in Stops, Stopping(k) \/ LastChunkTimesOut(k) PROVE MicInv'
  BY <1>5, MicStop
<1>6. CASE Elsewhere
  BY <1>1, <1>6, MicElsewhere, ElsewhereAside DEF Aside
<1>7. CASE DoneArrives
  <2>1. isRecording /\ draining # None
    BY <1>7, TailMessage DEF DoneArrives, MessageInv
  <2>2. \E k \in Stops : stop[k] = "lastChunk"
    BY <2>1 DEF EndInv
  <2>3. UNCHANGED <<stop, mic, stream>>
    BY <1>7 DEF DoneArrives, microphone
  <2> QED BY <2>2, <2>3 DEF MicInv, StreamHeld, AbortedMicsClose
<1>8. CASE NodeStarts \/ NodeStops \/ NodeCaptures \/ ChunkArrives \/ FlushEnds
  <2>1. UNCHANGED <<stop, mic, stream, isRecording>>
    BY <1>8 DEF NodeStarts, NodeStops, NodeCaptures, ChunkArrives, FlushEnds, recording, microphone
  <2> QED BY <2>1 DEF MicInv, StreamHeld, AbortedMicsClose
<1> QED BY <1>2, <1>3, <1>4, <1>5, <1>6, <1>7, <1>8, NextCases DEF Heard

-----------------------------------------------------------------------------
(* The audio *)

\* Nothing follows a message of type t.
AtEnd(s, t) == \A i \in DOMAIN s : s[i].type = t => i = Len(s)

\* All messages of type t are about u.
About(s, t, u) == \A i \in DOMAIN s : s[i].type = t => s[i].of = u

\* The worklet and the messages from and to it are of the recording under way, and
\* there are none without one: done is the worklet's last word and stop the last word
\* to it.
AudioInv ==
  /\ ~isRecording => capturing = None /\ toNode = <<>> /\ fromNode = <<>>
  /\ Has(fromNode, "done") => capturing = None /\ toNode = <<>>
  /\ AtEnd(toNode, "stop") /\ AtEnd(fromNode, "done")
  /\ capturing # None => capturing = active
  /\ About(toNode, "start", active) /\ About(fromNode, "chunk", active)

LEMMA AppendAtEnd ==
  ASSUME NEW S, NEW s \in Seq(S), NEW m \in S
  PROVE  /\ \A t : ~Has(s, t) => AtEnd(Append(s, m), t)
         /\ \A t, u : About(s, t, u) /\ (m.type = t => m.of = u) => About(Append(s, m), t, u)
<1> DEFINE r == Append(s, m)
<1>1. /\ Len(r) = Len(s) + 1 /\ Len(s) \in Nat
      /\ DOMAIN r = 1 .. Len(s) + 1 /\ DOMAIN s = 1 .. Len(s)
      /\ \A i \in 1 .. Len(s) : r[i] = s[i]
      /\ r[Len(s) + 1] = m
  OBVIOUS
<1> HIDE DEF r
<1>2. ASSUME NEW t, ~Has(s, t) PROVE AtEnd(r, t)
  BY <1>1, <1>2 DEF Has, AtEnd
<1>3. ASSUME NEW t, NEW u, About(s, t, u), m.type = t => m.of = u PROVE About(r, t, u)
  BY <1>1, <1>3 DEF About
<1> QED BY <1>2, <1>3 DEF r

LEMMA TailAtEnd ==
  ASSUME NEW S, NEW s \in Seq(S), s # <<>>
  PROVE  /\ \A t : AtEnd(s, t) => AtEnd(Tail(s), t)
         /\ \A t : AtEnd(s, t) /\ Head(s).type = t => Tail(s) = <<>>
         /\ \A t, u : About(s, t, u) => About(Tail(s), t, u)
         /\ \A t, u : About(s, t, u) /\ Head(s).type = t => Head(s).of = u
<1> DEFINE r == Tail(s)
<1>1. /\ r \in Seq(S) /\ Len(r) = Len(s) - 1 /\ Len(s) \in Nat /\ Len(s) > 0
      /\ DOMAIN r = 1 .. Len(s) - 1 /\ DOMAIN s = 1 .. Len(s)
      /\ \A i \in 1 .. Len(s) - 1 : r[i] = s[i + 1]
      /\ s[1] = Head(s)
  OBVIOUS
<1> HIDE DEF r
<1>2. Len(s) = 1 => r = <<>>
  <2>1. Len(s) = 1 => Len(r) = 0
    BY <1>1
  <2> QED BY <1>1, <2>1
<1>3. ASSUME NEW t, AtEnd(s, t), NEW i \in DOMAIN r, r[i].type = t PROVE i = Len(r)
  <2>1. i + 1 \in DOMAIN s /\ s[i + 1].type = t
    BY <1>1, <1>3
  <2>2. i + 1 = Len(s)
    BY <1>3, <2>1 DEF AtEnd
  <2> QED BY <1>1, <2>2
<1>4. ASSUME NEW t, AtEnd(s, t), Head(s).type = t PROVE r = <<>>
  BY <1>1, <1>2, <1>4 DEF AtEnd
<1>5. ASSUME NEW t, NEW u, About(s, t, u), NEW i \in DOMAIN r, r[i].type = t PROVE r[i].of = u
  <2>1. i + 1 \in DOMAIN s /\ s[i + 1] = r[i]
    BY <1>1, <1>5
  <2> QED BY <1>5, <2>1 DEF About
<1>6. ASSUME NEW t, NEW u, About(s, t, u), Head(s).type = t PROVE Head(s).of = u
  BY <1>1, <1>6 DEF About
<1> QED BY <1>3, <1>4, <1>5, <1>6 DEF r, AtEnd, About

LEMMA EmptyAtEnd ==
  /\ \A t : ~Has(<<>>, t) /\ AtEnd(<<>>, t)
  /\ \A t, u : About(<<>>, t, u)
BY DEF Has, AtEnd, About

\* What the audio depends on beside the worklet and its messages stays as it is.
LEMMA AudioKept ==
  ASSUME AudioInv, UNCHANGED <<active, fromNode>>, isRecording' = isRecording,
         UNCHANGED <<toNode, capturing>> \/ (toNode' = <<>> /\ capturing' = None)
  PROVE  AudioInv'
BY EmptyAtEnd DEF AudioInv

LEMMA AudioStep ==
  ASSUME ServiceInv, AudioInv, [Next]_vars, "late" \notin Faults
  PROVE  AudioInv'
<1> USE NoneAssumption DEF ServiceInv
<1>1. ASSUME NEW u \in Sessions, StartStep(u) PROVE AudioInv'
  <2>1. UNCHANGED <<fromNode, capturing>>
    BY <1>1, StartStepMoves DEF StartMoves, StartStays
  <2>2. CASE NoRecordingYet
    BY <2>1, <2>2, AudioKept DEF NoRecordingYet
  <2>3. CASE ~isRecording /\ Begun(u)
    <3>1. capturing = None /\ toNode = <<>> /\ fromNode = <<>>
      BY <2>3 DEF AudioInv
    <3>2. toNode' = <<[type |-> "start", of |-> u]>> /\ active' = u /\ isRecording'
      BY <2>3, <3>1 DEF Begun
    <3>3. AtEnd(toNode', "stop") /\ About(toNode', "start", u)
      BY <3>2 DEF AtEnd, About
    <3> QED BY <2>1, <3>1, <3>2, <3>3, EmptyAtEnd DEF AudioInv
  <2> QED BY <1>1, <2>2, <2>3, StartStepMoves DEF StartMoves
<1>2. ASSUME NEW u \in Sessions, AudioStart(u) PROVE AudioInv'
  BY <1>2, AudioKept DEF AudioStart, recording, nodes
<1>3. ASSUME NEW k \in Stops, StopCalled(k) PROVE AudioInv'
  BY <1>3, AudioKept DEF StopCalled, recording, nodes
<1>4. ASSUME NEW k \in Stops, Stopping(k) \/ LastChunkTimesOut(k) PROVE AudioInv'
  <2>1. UNCHANGED <<active, fromNode>>
    BY <1>4 DEF Stopping, StopEntered, LastChunkIn, LastChunkTimesOut, ProbeEnds, Settled, Reloaded,
                Finalised, recording, nodes
  <2>2. CASE StopTakes(k)
    <3>1. UNCHANGED <<capturing, isRecording>>
      BY <1>4, <2>2 DEF StopTakes, Stopping, StopEntered, LastChunkIn, LastChunkTimesOut, ProbeEnds,
                        Settled, Reloaded, Finalised, nodes, Ends
    <3>2. ~Has(toNode, "stop") /\ ~Has(fromNode, "done") /\ active \in Sessions
      BY <2>2, TakesAlone DEF MessageInv
    <3>3. [type |-> "stop", of |-> active] \in Message({"start", "stop"})
      BY <3>2 DEF Message
    <3>4. AtEnd(toNode', "stop") /\ About(toNode', "start", active)
      BY <2>2, <3>2, <3>3, AppendAtEnd DEF StopTakes, MessageInv, AudioInv
    <3> QED BY <2>1, <2>2, <3>1, <3>2, <3>4 DEF AudioInv, StopTakes
  <2>3. CASE StopFindsNothing(k) \/ StopGoesOn(k) \/ StopReturns(k)
    <3>1. UNCHANGED <<toNode, isRecording>>
      BY <2>3 DEF StopFindsNothing, StopGoesOn, StopReturns, recording
    <3>2. UNCHANGED capturing
      BY <1>4, <2>3 DEF StopFindsNothing, StopGoesOn, StopReturns, Stopping, StopEntered, LastChunkIn,
                        LastChunkTimesOut, ProbeEnds, Settled, Reloaded, Finalised, nodes
    <3> QED BY <2>1, <3>1, <3>2, AudioKept
  <2>4. CASE StopTimesOut(k)
    <3>1. toNode' = <<>> /\ fromNode' = <<>>
      BY <2>4 DEF StopTimesOut
    <3>2. capturing' = None
      BY <1>4, <2>4 DEF StopTimesOut, Stopping, StopEntered, LastChunkIn, LastChunkTimesOut, ProbeEnds,
                        Settled, Reloaded, Finalised
    <3> QED BY <2>1, <3>1, <3>2, EmptyAtEnd DEF AudioInv
  <2> QED BY <1>4, <2>2, <2>3, <2>4, StopStepMoves DEF StopMoves
<1>5. CASE Elsewhere
  <2>1. UNCHANGED <<active, fromNode, isRecording>>
    BY <1>5, ElsewhereAside DEF Aside, recording
  <2>2. UNCHANGED <<toNode, capturing>> \/ (toNode' = <<>> /\ capturing' = None)
    BY <1>5 DEF Elsewhere, Background, BuildEnds, InitializeCalled, InitializeEntered, InitializeEnds,
                MeetingStarts, Meeting, MeetingAdmitted, MeetingAcquires, MeetingStopped, MeetingStops,
                MeetingStep, OrphanDiscarded, ForgottenSettles, ContextSuspended, ContextResumed,
                vars, nodes
  <2> QED BY <2>1, <2>2, AudioKept
<1>6. CASE NodeStarts
  <2>1. /\ toNode # <<>> /\ Head(toNode).type = "start"
        /\ toNode' = Tail(toNode) /\ capturing' = Head(toNode).of
        /\ UNCHANGED <<active, isRecording, fromNode>>
    BY <1>6 DEF NodeStarts, recording
  <2>2. isRecording /\ ~Has(fromNode, "done")
    BY <2>1 DEF AudioInv
  <2>3. capturing' = active
    BY <2>1, TailAtEnd DEF AudioInv, MessageInv
  <2>4. AtEnd(toNode', "stop") /\ About(toNode', "start", active)
    BY <2>1, TailAtEnd DEF AudioInv, MessageInv
  <2> QED BY <2>1, <2>2, <2>3, <2>4 DEF AudioInv
<1>7. CASE NodeStops
  <2>1. /\ toNode # <<>> /\ Head(toNode).type = "stop"
        /\ toNode' = Tail(toNode) /\ capturing' = None
        /\ UNCHANGED <<active, isRecording>>
    BY <1>7 DEF NodeStops, recording
  <2>2. isRecording /\ ~Has(fromNode, "done")
    BY <2>1 DEF AudioInv
  <2>3. toNode' = <<>>
    BY <2>1, TailAtEnd DEF AudioInv, MessageInv
  <2> DEFINE m == [type |-> "done", of |-> capturing]
  <2>4. m \in Message({"chunk", "done"}) /\ m.type = "done"
    BY DEF Message, TypeOK
  <2>5. fromNode' \in {fromNode, Append(fromNode, m)}
    BY <1>7 DEF NodeStops
  <2> HIDE DEF m
  <2>6. AtEnd(fromNode', "done") /\ About(fromNode', "chunk", active)
    BY <2>2, <2>4, <2>5, AppendAtEnd DEF AudioInv, MessageInv
  <2> QED BY <2>1, <2>2, <2>3, <2>6, EmptyAtEnd DEF AudioInv
<1>8. CASE NodeCaptures
  <2>1. capturing # None /\ UNCHANGED <<active, isRecording, toNode, capturing>>
    BY <1>8 DEF NodeCaptures, recording
  <2>2. isRecording /\ ~Has(fromNode, "done") /\ capturing = active
    BY <2>1 DEF AudioInv
  <2> DEFINE m == [type |-> "chunk", of |-> capturing]
  <2>3. m \in Message({"chunk", "done"}) /\ m.type = "chunk" /\ m.of = active
    BY <2>2 DEF Message, TypeOK
  <2>4. fromNode' = Append(fromNode, m)
    BY <1>8 DEF NodeCaptures
  <2> HIDE DEF m
  <2>5. AtEnd(fromNode', "done") /\ About(fromNode', "chunk", active) /\ ~Has(fromNode', "done")
    BY <2>2, <2>3, <2>4, AppendAtEnd, AppendMessage DEF AudioInv, MessageInv
  <2> QED BY <2>1, <2>2, <2>5 DEF AudioInv
<1>9. CASE ChunkArrives
  <2>1. /\ fromNode # <<>> /\ fromNode' = Tail(fromNode)
        /\ UNCHANGED <<active, isRecording, toNode, capturing>>
    BY <1>9 DEF ChunkArrives, recording
  <2>2. isRecording
    BY <2>1 DEF AudioInv
  <2>3. /\ AtEnd(fromNode', "done") /\ About(fromNode', "chunk", active)
        /\ Has(fromNode', "done") => Has(fromNode, "done")
    BY <2>1, TailAtEnd, TailMessage DEF AudioInv, MessageInv
  <2> QED BY <2>1, <2>2, <2>3 DEF AudioInv
<1>10. CASE DoneArrives
  <2>1. /\ fromNode # <<>> /\ Head(fromNode).type = "done" /\ fromNode' = Tail(fromNode)
        /\ UNCHANGED <<active, toNode, capturing>>
    BY <1>10 DEF DoneArrives
  <2>2. Has(fromNode, "done")
    BY <2>1, TailMessage DEF MessageInv
  <2>3. fromNode' = <<>>
    BY <2>1, TailAtEnd DEF AudioInv, MessageInv
  <2> QED BY <2>1, <2>2, <2>3, EmptyAtEnd DEF AudioInv
<1>11. CASE FlushEnds
  BY <1>11, AudioKept DEF FlushEnds, nodes
<1> QED BY <1>1, <1>2, <1>3, <1>4, <1>5, <1>6, <1>7, <1>8, <1>9, <1>10, <1>11, NextCases DEF Heard

-----------------------------------------------------------------------------
(* The last stop *)

\* x stands in the queue before y.
Before(s, x, y) == \E i, j \in DOMAIN s : i < j /\ s[i] = x /\ s[j] = y

\* When the last thing asked for was a stop, one is to come after every start in
\* flight, and one is to end what records.
StopInv ==
  order = "stop" =>
    /\ \A u \in InFlight : \E k \in Stops : stop[k] = "queued" /\ Before(mutex, u, k)
    /\ isRecording => \E k \in Stops : stop[k] \in {"queued", "lastChunk"}

LEMMA AppendBefore ==
  ASSUME NEW s \in Seq(Names), NEW z
  PROVE  /\ \A x, y : Before(s, x, y) => Before(Append(s, z), x, y)
         /\ \A x : In(s, x) => Before(Append(s, z), x, z)
<1> DEFINE r == Append(s, z)
<1>1. /\ Len(s) \in Nat
      /\ DOMAIN r = 1 .. Len(s) + 1 /\ DOMAIN s = 1 .. Len(s)
      /\ \A i \in 1 .. Len(s) : r[i] = s[i]
      /\ r[Len(s) + 1] = z
  OBVIOUS
<1> HIDE DEF r
<1>2. ASSUME NEW x, NEW y, Before(s, x, y) PROVE Before(r, x, y)
  BY <1>1, <1>2 DEF Before
<1>3. ASSUME NEW x, In(s, x) PROVE Before(r, x, z)
  <2>1. PICK i \in 1 .. Len(s) : s[i] = x
    BY <1>1, <1>3 DEF In
  <2>2. i < Len(s) + 1 /\ r[i] = x
    BY <1>1, <2>1
  <2> QED BY <1>1, <2>1, <2>2 DEF Before
<1> QED BY <1>2, <1>3 DEF r

LEMMA TailBefore ==
  ASSUME NEW s \in Seq(Names), IsInjective(s), s # <<>>
  PROVE  /\ \A x, y : Before(s, x, y) /\ x # Head(s) => Before(Tail(s), x, y)
         /\ \A x, y : Before(s, x, y) => y # Head(s)
<1> DEFINE r == Tail(s)
<1>1. /\ Len(s) \in Nat /\ Len(s) > 0
      /\ DOMAIN r = 1 .. Len(s) - 1 /\ DOMAIN s = 1 .. Len(s)
      /\ \A i \in 1 .. Len(s) - 1 : r[i] = s[i + 1]
      /\ s[1] = Head(s)
  OBVIOUS
<1> HIDE DEF r
<1>2. ASSUME NEW x, NEW y, Before(s, x, y), x # Head(s) PROVE Before(r, x, y)
  <2>1. PICK i \in 1 .. Len(s), j \in 1 .. Len(s) : i < j /\ s[i] = x /\ s[j] = y
    BY <1>1, <1>2 DEF Before
  <2>2. i - 1 \in DOMAIN r /\ j - 1 \in DOMAIN r /\ i - 1 < j - 1
    BY <1>1, <1>2, <2>1
  <2>3. r[i - 1] = x /\ r[j - 1] = y
    BY <1>1, <2>1, <2>2
  <2> QED BY <2>2, <2>3 DEF Before
<1>3. ASSUME NEW x, NEW y, Before(s, x, y) PROVE y # Head(s)
  BY <1>1, <1>3 DEF Before, IsInjective
<1> QED BY <1>2, <1>3 DEF r

\* The holder leaves the queue, or somebody joins it, or neither.
QueueMoves ==
  \/ UNCHANGED mutex
  \/ mutex # <<>> /\ mutex' = Tail(mutex) /\ Head(mutex) \notin InFlight
  \/ \E x \in Names : mutex' = Append(mutex, x)

\* No start comes nor goes, and no stop that waits behind one gets the mutex.
LEMMA StopInvKept ==
  ASSUME ServiceInv, StopInv, UNCHANGED order, InFlight' = InFlight,
         isRecording' => isRecording, QueueMoves,
         \A k \in Stops : \/ stop'[k] = stop[k]
                          \/ Holds(k) /\ (isRecording' => stop'[k] \in {"queued", "lastChunk"})
                          \/ stop[k] \notin {"queued", "lastChunk"}
  PROVE  StopInv'
<1> USE DEF ServiceInv
<1> SUFFICES ASSUME order = "stop" PROVE StopInv'
  BY DEF StopInv
<1>1. mutex \in Seq(Names) /\ IsInjective(mutex)
  BY TypeQueue DEF Queue
<1>2. ASSUME NEW u \in InFlight
      PROVE  \E k \in Stops : stop'[k] = "queued" /\ Before(mutex', u, k)
  <2>1. PICK k \in Stops : stop[k] = "queued" /\ Before(mutex, u, k)
    BY <1>2 DEF StopInv
  <2>2. ~Holds(k)
    BY <1>1, <2>1, TailBefore DEF Holds
  <2>3. stop'[k] = "queued"
    BY <2>1, <2>2
  <2>4. Before(mutex', u, k)
    <3>1. CASE mutex # <<>> /\ mutex' = Tail(mutex) /\ Head(mutex) \notin InFlight
      BY <1>1, <1>2, <2>1, <3>1, TailBefore
    <3>2. CASE \E x \in Names : mutex' = Append(mutex, x)
      BY <1>1, <2>1, <3>2, AppendBefore
    <3> QED BY <2>1, <3>1, <3>2 DEF QueueMoves
  <2> QED BY <2>3, <2>4
<1>3. isRecording' => \E k \in Stops : stop'[k] \in {"queued", "lastChunk"}
  BY DEF StopInv
<1> QED BY <1>2, <1>3 DEF StopInv

LEMMA StopInvStart ==
  ASSUME ServiceInv, StopInv, NEW u \in Sessions, StartMoves(u)
  PROVE  StopInv'
<1> USE DEF ServiceInv
<1>1. UNCHANGED <<order, stop>> /\ u \in InFlight /\ \A v \in Sessions : v # u => start[v] = "idle"
  BY StartsAlone DEF StartMoves, StartStays, InFlight
<1>2. ASSUME NEW s \in Stages, Waited(u, s), NoRecordingYet PROVE StopInv'
  <2>1. InFlight' = InFlight
    BY <1>1, <1>2 DEF InFlight, Waited, Stages, TypeOK
  <2> QED BY <1>1, <1>2, <2>1, StopInvKept DEF Waited, NoRecordingYet, QueueMoves
<1>3. ASSUME NEW a, Ended(u, a) PROVE StopInv'
  <2>1. InFlight' = {}
    BY <1>1, <1>3 DEF InFlight, Ended, TypeOK
  <2>2. order = "stop" => \E k \in Stops : stop'[k] = "queued"
    BY <1>1 DEF StopInv
  <2> QED BY <1>1, <2>1, <2>2 DEF StopInv
<1> QED BY <1>2, <1>3 DEF StartMoves

LEMMA StopInvStopCalled ==
  ASSUME ServiceInv, NEW k \in Stops, StopCalled(k)
  PROVE  StopInv'
<1> USE DEF ServiceInv
<1>1. stop'[k] = "queued"
  BY DEF StopCalled, TypeOK
<1>2. ASSUME NEW u \in InFlight' PROVE Before(mutex', u, k)
  <2>1. u \in Sessions /\ start[u] # "idle" /\ u \notin Aborted
    BY <1>2 DEF InFlight, StopCalled
  <2>2. Aborted = {}
    BY <2>1, StartsAlone DEF Aborted
  <2>3. mutex' = Append(mutex, k) /\ In(mutex, u) /\ mutex \in Seq(Names)
    BY <2>1, <2>2, TypeQueue DEF StopCalled, MutexInv, Queue
  <2> QED BY <2>3, AppendBefore
<1> QED BY <1>1, <1>2 DEF StopInv

LEMMA StopInvStop ==
  ASSUME ServiceInv, StopInv, "late" \notin Faults, NEW k \in Stops, Stopping(k) \/ LastChunkTimesOut(k)
  PROVE  StopInv'
<1> USE DEF ServiceInv
<1>1. UNCHANGED <<order, start>>
  BY DEF Stopping, StopEntered, LastChunkIn, LastChunkTimesOut, ProbeEnds, Settled, Reloaded,
         Finalised, starts, orders
<1>2. InFlight' = InFlight
  BY <1>1 DEF InFlight
<1>3. \A l \in Stops : l # k => stop'[l] = stop[l]
  BY DEF Stopping, StopEntered, LastChunkIn, LastChunkTimesOut, ProbeEnds, Settled, Reloaded,
         Finalised, TypeOK
<1>4. CASE Finalised(k)
  BY <1>1, <1>2, <1>3, <1>4, StopInvKept DEF Finalised, QueueMoves
<1>5. CASE ~Finalised(k)
  <2>1. Holds(k)
    BY <1>5 DEF Stopping, StopEntered, LastChunkIn, LastChunkTimesOut, ProbeEnds, Settled, Reloaded, MutexInv
  <2>2. UNCHANGED mutex \/ mutex' = Tail(mutex)
    BY <1>5 DEF Stopping, StopEntered, LastChunkIn, LastChunkTimesOut, ProbeEnds, Settled, Reloaded, Release
  <2>3. Head(mutex) \notin InFlight /\ mutex # <<>>
    BY <2>1, SessionsAssumption, NoneAssumption DEF Holds, InFlight
  <2>4. isRecording' => isRecording /\ stop'[k] \in {"queued", "lastChunk"}
    <3>1. CASE StopEntered(k)
      BY <3>1 DEF StopEntered, TypeOK
    <3>2. CASE LastChunkIn(k) \/ ProbeEnds(k) \/ Settled(k) \/ Reloaded(k) \/ LastChunkTimesOut(k)
      BY <3>2 DEF LastChunkIn, ProbeEnds, Settled, Reloaded, LastChunkTimesOut, recording, EndInv, Ends
    <3> QED BY <1>5, <3>1, <3>2 DEF Stopping
  <2> QED BY <1>1, <1>2, <1>3, <2>1, <2>2, <2>3, <2>4, StopInvKept DEF QueueMoves
<1> QED BY <1>4, <1>5

LEMMA StopInvElsewhere ==
  ASSUME ServiceInv, StopInv, Elsewhere
  PROVE  StopInv'
<1> USE NamesAssumption DEF ServiceInv
<1>1. UNCHANGED <<stop, isRecording>>
  BY ElsewhereAside DEF Aside, recording
<1>2. UNCHANGED order
  BY DEF Elsewhere, Background, BuildEnds, InitializeCalled, InitializeEntered, InitializeEnds,
         MeetingStarts, Meeting, MeetingAdmitted, MeetingAcquires, MeetingStopped, MeetingStops,
         MeetingStep, OrphanDiscarded, ForgottenSettles, ContextSuspended, ContextResumed, vars, orders
<1>3. InFlight' = InFlight
  <2>1. \A u \in Sessions : start'[u] # "idle" <=> start[u] # "idle"
    BY ElsewhereAside DEF Aside
  <2> QED BY <2>1 DEF InFlight
<1>4. QueueMoves
  <2>1. CASE InitializeEntered \/ InitializeEnds
    <3>1. Holds("init") /\ (UNCHANGED mutex \/ mutex' = Tail(mutex))
      BY <2>1 DEF InitializeEntered, InitializeEnds, MutexInv, Release
    <3> QED BY <3>1 DEF QueueMoves, Holds, InFlight
  <2>2. CASE MeetingAdmitted
    <3>1. Holds("meeting") /\ mutex' = Tail(mutex)
      BY <2>2 DEF MeetingAdmitted, Release
    <3> QED BY <3>1 DEF QueueMoves, Holds, InFlight
  <2>3. CASE InitializeCalled \/ MeetingStarts
    <3>1. UNCHANGED mutex \/ mutex' = Append(mutex, "init") \/ mutex' = Append(mutex, "meeting")
      BY <2>3 DEF InitializeCalled, MeetingStarts, Calls
    <3> QED BY <3>1 DEF QueueMoves, Names
  <2>4. CASE \/ BuildEnds \/ MeetingAcquires \/ MeetingStopped \/ MeetingStops
             \/ OrphanDiscarded \/ ForgottenSettles \/ ContextSuspended \/ ContextResumed
             \/ UNCHANGED vars
    <3>1. UNCHANGED mutex
      BY <2>4 DEF BuildEnds, MeetingAcquires, MeetingStopped, MeetingStops, OrphanDiscarded,
                  ForgottenSettles, ContextSuspended, ContextResumed, vars
    <3> QED BY <3>1 DEF QueueMoves
  <2> QED BY <2>1, <2>2, <2>3, <2>4 DEF Elsewhere, Background, Meeting
<1> QED BY <1>1, <1>2, <1>3, <1>4, StopInvKept

LEMMA StopInvStep ==
  ASSUME ServiceInv, StopInv, [Next]_vars, "late" \notin Faults
  PROVE  StopInv'
<1>1. ASSUME NEW u \in Sessions, StartStep(u) PROVE StopInv'
  BY <1>1, StartStepMoves, StopInvStart
<1>2. ASSUME NEW u \in Sessions, AudioStart(u) PROVE StopInv'
  BY <1>2 DEF AudioStart, StopInv
<1>3. ASSUME NEW k \in Stops, StopCalled(k) PROVE StopInv'
  BY <1>3, StopInvStopCalled
<1>4. ASSUME NEW k \in Stops, Stopping(k) \/ LastChunkTimesOut(k) PROVE StopInv'
  BY <1>4, StopInvStop
<1>5. CASE Elsewhere
  BY <1>5, StopInvElsewhere
<1>6. CASE Heard
  <2>1. UNCHANGED <<order, start, stop, mutex>> /\ (isRecording' => isRecording)
    BY <1>6 DEF Heard, NodeStarts, NodeStops, NodeCaptures, ChunkArrives, DoneArrives, FlushEnds,
                starts, orders, recording
  <2>2. InFlight' = InFlight
    BY <2>1 DEF InFlight
  <2> QED BY <2>1, <2>2, StopInvKept DEF QueueMoves
<1> QED BY <1>1, <1>2, <1>3, <1>4, <1>5, <1>6, NextCases

-----------------------------------------------------------------------------
\* All of it, for what the runs check of the microphone, the audio and the last stop.
DictationInv == ServiceInv /\ MicInv /\ AudioInv /\ StopInv

LEMMA DictationInvariance == ASSUME "late" \notin Faults PROVE Spec => []DictationInv
<1>1. Init => DictationInv
  <2> SUFFICES ASSUME Init PROVE DictationInv
    OBVIOUS
  <2>1. ServiceInv
    BY ServiceInit
  <2>2. MicInv /\ AudioInv /\ StopInv
    BY EmptyAtEnd DEF Init, MicInv, StreamHeld, AbortedMicsClose, AudioInv, StopInv, InFlight
  <2> QED BY <2>1, <2>2 DEF DictationInv
<1>2. DictationInv /\ [Next]_vars => DictationInv'
  <2>1. ServiceInv /\ [Next]_vars => ServiceInv'
    BY TypeStep, MutexStep, EndStep, StartInvStep, MessageStep, DoneStep DEF ServiceInv
  <2> QED BY <2>1, MicStep, AudioStep, StopInvStep DEF DictationInv
<1> QED BY <1>1, <1>2, PTL DEF Spec

\* An open microphone is that of Vm.stream, and Vm.stream outlives its recording only
\* in the hands of the stop that closes it (cleanupMediaStream).
THEOREM MicrophoneIsReleased ==
  ASSUME "late" \notin Faults, "lateGrant" \notin Faults
  PROVE  Spec => []MicReleased
<1>1. DictationInv => MicReleased
  BY DEF DictationInv, MicInv, MicReleased
<1> QED BY <1>1, DictationInvariance, PTL

\* Every chunk on its way to handleRecorderWorkletMessage was recorded for the session
\* that activeChunkUuid names when it is handled.
THEOREM AudioStaysHome == ASSUME "late" \notin Faults PROVE Spec => []AudioGoesHome
<1>1. DictationInv => AudioGoesHome
  BY DEF DictationInv, AudioInv, About, AudioGoesHome
<1> QED BY <1>1, DictationInvariance, PTL

\* Once the last thing asked for was a stop and every stopRecording has returned, nothing
\* records, no start is in flight and Vm.stream is gone.
THEOREM TheLastStopHolds == ASSUME "late" \notin Faults PROVE Spec => []StopIsFinal
<1>1. DictationInv => StopIsFinal
  <2> SUFFICES ASSUME DictationInv, order = "stop", \A k \in Stops : stop[k] = "idle"
               PROVE  ~isRecording /\ stream = None /\ InFlight = {}
    BY DEF StopIsFinal
  <2>1. ~isRecording /\ InFlight = {}
    BY DEF DictationInv, StopInv
  <2> QED BY <2>1 DEF DictationInv, MicInv, StreamHeld, AbortedMicsClose
<1> QED BY <1>1, DictationInvariance, PTL

-----------------------------------------------------------------------------
(* Nobody waits in a circle *)

\* A stop that has entered the mutex can go on, or what it awaits can.
LEMMA StopGoesOnOrOthers ==
  ASSUME TypeOK, NEW k \in Stops, Ends(k)
  PROVE  Ready
<1>1. stop[k] \in {"lastChunk", "probing", "settling", "reloading", "finalising"}
  BY DEF TypeOK, Ends
<1> QED BY <1>1 DEF Ready, StopReady, OthersReady

\* So can a start that has entered it: the recording before it is in the hands of such a
\* stop, and the meeting it awaits is at work, unless it waits for the mutex.
LEMMA StartGoesOnOrOthers ==
  ASSUME TypeOK, EndInv, NEW u \in Sessions, start[u] \notin {"idle", "queued"}
  PROVE  CircularWait \/ Ready
<1>1. CASE start[u] = "draining"
  <2>1. CASE draining = None
    BY <1>1, <2>1 DEF Ready, StartReady
  <2>2. CASE draining # None
    <3>1. PICK k \in Stops : Ends(k)
      BY <2>2 DEF EndInv
    <3> QED BY <3>1, StopGoesOnOrOthers
  <2> QED BY <2>1, <2>2
<1>2. CASE start[u] = "meetingStart"
  BY <1>2 DEF Ready, StartReady, OthersReady, CircularWait, MeetingStarting
<1>3. CASE start[u] = "meetingStop"
  BY <1>3 DEF Ready, StartReady, OthersReady
<1>4. CASE start[u] \in {"resuming", "replaced", "acquiring", "backoff1", "retry1", "backoff2", "retry2"}
  BY <1>4 DEF Ready, StartReady
<1>5. start[u] \in {"draining", "meetingStart", "meetingStop", "resuming", "replaced", "acquiring",
                    "backoff1", "retry1", "backoff2", "retry2"}
  BY DEF TypeOK
<1> QED BY <1>1, <1>2, <1>3, <1>4, <1>5

\* Whoever holds the mutex has entered it or can do so.
LEMMA HolderGoesOnOrOthers ==
  ASSUME TypeOK, MutexInv, EndInv, mutex # <<>>
  PROVE  CircularWait \/ Ready
<1> DEFINE x == Head(mutex)
<1>1. x \in Names /\ In(mutex, x) /\ Holds(x)
  <2>1. mutex \in Seq(Names) /\ IsInjective(mutex)
    BY TypeQueue DEF Queue
  <2>2. Head(mutex) \in Names /\ In(mutex, Head(mutex))
    BY <2>1, TailQueue
  <2> QED BY <2>2 DEF Holds
<1> HIDE DEF x
<1>2. CASE x \in Sessions
  <2>1. start[x] # "idle"
    BY <1>1, <1>2 DEF MutexInv
  <2>2. CASE start[x] = "queued"
    BY <1>1, <1>2, <2>2 DEF Ready, StartReady
  <2> QED BY <1>2, <2>1, <2>2, StartGoesOnOrOthers
<1>3. CASE x \in Stops
  <2>1. stop[x] \notin {"idle", "finalising"}
    BY <1>1, <1>3 DEF MutexInv
  <2>2. CASE stop[x] = "queued"
    BY <1>1, <1>3, <2>2 DEF Ready, StopReady
  <2>3. CASE stop[x] # "queued"
    BY <1>3, <2>1, <2>3, StopGoesOnOrOthers DEF Ends
  <2> QED BY <2>2, <2>3
<1>4. CASE x = "init"
  <2>1. init \in {"queued", "reloading"}
    BY <1>1, <1>4 DEF MutexInv, TypeOK
  <2> QED BY <1>1, <1>4, <2>1 DEF Ready, OthersReady
<1>5. CASE x = "meeting"
  BY <1>1, <1>5 DEF MutexInv, Ready, OthersReady
<1> QED BY <1>1, <1>2, <1>3, <1>4, <1>5 DEF Names

\* While a start or a stop is under way somebody can go on (NeverStuck): the mutex, the
\* recording that is being ended, its encoder, the worklet and the meeting never wait for
\* each other in a circle, except by the one circle of a start that holds the mutex and
\* awaits a meeting that waits for it.
THEOREM NobodyIsStuck == ASSUME "late" \notin Faults PROVE Spec => []NeverStuck
<1>1. ServiceInv => NeverStuck
  <2> SUFFICES ASSUME ServiceInv, UnderWay PROVE CircularWait \/ Ready
    BY DEF NeverStuck
  <2>1. TypeOK /\ MutexInv /\ EndInv
    BY DEF ServiceInv
  <2>2. CASE mutex # <<>>
    BY <2>1, <2>2, HolderGoesOnOrOthers
  <2>3. CASE mutex = <<>>
    <3>1. \A y : ~In(mutex, y)
      BY <2>3 DEF In
    <3>2. InFlight = {}
      BY <2>1, <3>1 DEF MutexInv, InFlight
    <3>3. PICK k \in Stops : stop[k] # "idle"
      BY <3>2 DEF UnderWay
    <3>4. stop[k] = "finalising"
      BY <2>1, <3>1, <3>3 DEF MutexInv
    <3>5. Ends(k)
      BY <3>4 DEF Ends
    <3> QED BY <2>1, <3>5, StopGoesOnOrOthers
  <2> QED BY <2>2, <2>3
<1> QED BY <1>1, Invariance, PTL
=============================================================================
