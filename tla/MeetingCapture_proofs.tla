----------------------- MODULE MeetingCapture_proofs -----------------------
(***************************************************************************)
(* Proofs about MeetingCapture, for every set of meetings and every limit  *)
(* of the restarts: no stream is left running that the variables do not    *)
(* name, a stop of the main process is final, a capture that is lost is    *)
(* reported, and no stop waits in a circle.                                *)
(*                                                                         *)
(* Two inductive invariants.  IInv says who may be where: of every capture *)
(* that callers of each other's promises run (CallsOK, StreamOK), and, of  *)
(* one that is not contested, that its callers take turns (Safe).          *)
(* AllServed rests on it: a meeting that is wanted is recorded, reported   *)
(* or somebody's work.  An operator of the code is first translated into   *)
(* what it does to one caller of one capture (Starts, Stops, Rests); then  *)
(* one lemma says what each of these keeps, and one that each action does. *)
(***************************************************************************)
EXTENDS MeetingCapture, TLAPS

-----------------------------------------------------------------------------
(* The first invariant *)

\* Where each caller can be: the main process's two only in their own function, pauses
\* only of the restart that has them, and dictations in the way of the microphone only.
StagesOK(c) ==
  /\ at[c]["start"] \in {"idle", "awaitStop", "awaitDictation", "opening"}
  /\ at[c]["stop"] \in {"idle", "awaitStart", "draining", "closing", "joined"}
  /\ at[c]["recovery"] \notin {"pause", "backoff"}
  /\ at[c]["restart"] = "pause" => c = "mic"
  /\ at[c]["restart"] = "backoff" => c = "system"
  /\ \A p \in Callers : at[c][p] = "awaitDictation" => c = "mic"

\* Whoever is at work is so for a session, the promises are of those who run, a stop
\* awaits a start, and the recovery is at work at the capture of its phase only.
CallsOK(c) ==
  /\ StagesOK(c)
  /\ \A p \in Callers :
       /\ at[c][p] # "idle" => of[c][p] \in Sessions
       /\ stopping[c] = p <=> at[c][p] \in {"draining", "closing"}
       /\ starting[c] = p => StartRuns(c, p)
       /\ at[c][p] = "awaitStart" => awaited[c][p] \in Callers
  /\ at[c]["recovery"] # "idle" => phase = c /\ of[c]["recovery"] = rescued

\* Running tracks are counted, and belong to a session.
StreamOK(c) == playing[c] => open[c] # 0 /\ session[c] # None

\* The recovery runs for a session, and a backoff only while the budget is not used up.
RecoveryOK ==
  /\ rescued = None <=> phase = "none"
  /\ active => rescued # None
  /\ at["system"]["restart"] = "backoff" => attempt < MaxAttempts

\* One start at a time, of a capture that is free; one stop, of one that is not.
OneStart(c) ==
  /\ \A p \in Callers : StartRuns(c, p) => starting[c] = p
  /\ \A p \in Callers : at[c][p] = "opening" => session[c] = None
  /\ stopping[c] # None => session[c] # None
  /\ open[c] = IF playing[c] THEN 1 ELSE 0
  /\ \A p \in Callers : at[c][p] = "closing" => ~playing[c]

\* Whatever runs or is about to is for the session that is wanted, or the main process's
\* stop is there and will find it.
StopReaches(c) ==
  /\ \A p \in Callers : at[c][p] = "joined" => stopping[c] # None \/ session[c] = None
  /\ \A p \in Callers : StartRuns(c, p) =>
        \/ wanted[c] = of[c][p]
        \/ at[c]["stop"] = "awaitStart" /\ awaited[c]["stop"] = p /\ of[c]["stop"] = of[c][p]
  /\ at[c]["stop"] = "awaitStart" => wanted[c] = None
  /\ session[c] \notin {None, wanted[c]} => at[c]["stop"] # "idle" /\ of[c]["stop"] = session[c]

\* A session that the main process has not started yet is in nobody's hands, nor does it
\* start one that a restart is about.
FreshIsNew(c) ==
  /\ \A p \in Callers : of[c][p] \notin fresh[c]
  /\ session[c] \notin fresh[c] /\ wanted[c] \notin fresh[c]
  /\ at[c]["restart"] # "idle" /\ StartRuns(c, "start") => of[c]["start"] # of[c]["restart"]

\* While a recovery is active no restart is, and once it stops a capture, or starts it,
\* the main process does not.
RecoveryAlone(c) ==
  /\ rescued # None => wanted[c] = rescued
  /\ active => at[c]["restart"] = "idle"
  /\ at[c]["recovery"] # "idle" => active
  /\ at[c]["recovery"] = "awaitStart" => awaited[c]["recovery"] = "start"
  /\ at[c]["recovery"] \notin {"idle", "awaitStart"} => at[c]["start"] = "idle"

\* A restart that may still start its session does so for the one that is wanted: the
\* microphone's by restartOwnedSession, the system's by being the one that stopped it.
RestartOwns(c) ==
  /\ c = "mic" /\ at[c]["restart"] # "idle" /\ owned = of[c]["restart"] => wanted[c] = owned
  /\ c = "system" =>
       /\ at[c]["restart"] = "backoff" => session[c] = of[c]["restart"]
       /\ at[c]["restart"] \in {"draining", "closing", "stopped"} => wanted[c] = of[c]["restart"]
       /\ at[c]["restart"] \notin {"awaitStart", "joined"}

\* What holds of a capture that is not contested.
Safe(c) ==
  OneStart(c) /\ StopReaches(c) /\ FreshIsNew(c) /\ RecoveryAlone(c) /\ RestartOwns(c)

\* The inductive invariant.
IInv ==
  /\ TypeOK /\ RecoveryOK
  /\ \A c \in Captures : CallsOK(c) /\ StreamOK(c) /\ (c \in contested \/ Safe(c))

\* It implies the two properties.
LEMMA SafeEnough == IInv => StreamsOwned /\ StopIsFinal
<1> SUFFICES ASSUME IInv PROVE StreamsOwned /\ StopIsFinal
  OBVIOUS
<1>1. NoStreamLost
  BY DEF IInv, NoStreamLost, Safe, OneStart
<1>2. ASSUME NEW c \in Captures, c \notin contested, Quiescent, at[c]["stop"] = "idle"
      PROVE  /\ session[c] \in {None, wanted[c]}
             /\ wanted[c] = None => open[c] = 0 /\ \A p \in Callers : ~StartRuns(c, p)
  <2>1. Safe(c) /\ CallsOK(c) /\ StreamOK(c)
    BY <1>2 DEF IInv
  <2>2. session[c] \in {None, wanted[c]}
    BY <1>2, <2>1 DEF Safe, StopReaches
  <2>3. ASSUME wanted[c] = None PROVE open[c] = 0
    BY <2>1, <2>2, <2>3 DEF Safe, OneStart, StreamOK
  <2>4. ASSUME wanted[c] = None, NEW p \in Callers PROVE ~StartRuns(c, p)
    BY <1>2, <2>1, <2>4, SessionsAssumption DEF Safe, StopReaches, CallsOK, StartRuns
  <2> QED BY <2>2, <2>3, <2>4
<1> QED BY <1>1, <1>2 DEF IInv, StreamsOwned, StopIsFinal, Stopped

\* It holds at first.
LEMMA InitSafe == Init => IInv
<1> SUFFICES ASSUME Init PROVE IInv
  OBVIOUS
<1> USE DEF Init
<1>1. TypeOK
  <2>1. fresh \in [Captures -> SUBSET Sessions]
    BY MeetingsAssumption
  <2>2. /\ at \in [Captures -> [Callers -> {"idle"}]] /\ of \in [Captures -> [Callers -> {None}]]
        /\ awaited \in [Captures -> [Callers -> {None}]]
    OBVIOUS
  <2>3. open \in [Captures -> Nat] /\ loop \in 0 .. MaxAttempts /\ attempt \in 0 .. MaxAttempts
    BY AttemptsAssumption
  <2>4. told \subseteq Captures \X Sessions /\ contested \subseteq Captures
    OBVIOUS
  <2> QED BY <2>1, <2>2, <2>3, <2>4 DEF TypeOK
<1>2. RecoveryOK
  BY DEF RecoveryOK, Captures, Callers
<1>3. ASSUME NEW c \in Captures PROVE CallsOK(c) /\ StreamOK(c)
  BY SessionsAssumption, NoneAssumption DEF CallsOK, StagesOK, StreamOK, Callers, StartRuns
<1>4. ASSUME NEW c \in Captures PROVE Safe(c)
  <2>1. None \notin fresh[c]
    BY SessionsAssumption, MeetingsAssumption
  <2>2. \A p \in Callers : at[c][p] = "idle" /\ of[c][p] = None
    OBVIOUS
  <2> QED BY <2>1, <2>2 DEF Safe, OneStart, StopReaches, FreshIsNew, RecoveryAlone, RestartOwns, Callers, StartRuns
<1> QED BY <1>1, <1>2, <1>3, <1>4 DEF IInv

-----------------------------------------------------------------------------
(* What a step moves *)

\* A step does not concern capture d.
Untouched(d) ==
  /\ at'[d] = at[d] /\ of'[d] = of[d] /\ awaited'[d] = awaited[d]
  /\ session'[d] = session[d] /\ playing'[d] = playing[d] /\ open'[d] = open[d]
  /\ starting'[d] = starting[d] /\ stopping'[d] = stopping[d]
  /\ wanted'[d] = wanted[d] /\ fresh'[d] = fresh[d]

\* Then its calls are as they were,
LEMMA FrameCalls ==
  ASSUME NEW d \in Captures, CallsOK(d), StreamOK(d), Untouched(d),
         at[d]["recovery"] = "idle" \/ (phase' = phase /\ rescued' = rescued)
  PROVE  CallsOK(d)' /\ StreamOK(d)'
BY DEF CallsOK, StagesOK, StreamOK, Untouched, StartRuns

\* and it is as safe as it was, unless a recovery comes in between.
LEMMA FrameSafe ==
  ASSUME NEW d \in Captures, Safe(d), Untouched(d),
         rescued' \in {rescued, None} \/ wanted[d] = rescued',
         active' => active \/ at[d]["restart"] = "idle",
         at[d]["recovery"] # "idle" => active',
         d = "mic" => owned' = owned
  PROVE  Safe(d)'
<1>1. OneStart(d)'
  BY DEF Safe, OneStart, Untouched, StartRuns
<1>2. StopReaches(d)'
  BY DEF Safe, StopReaches, Untouched, StartRuns
<1>3. FreshIsNew(d)'
  BY DEF Safe, FreshIsNew, Untouched, StartRuns
<1>4. RecoveryAlone(d)'
  BY DEF Safe, RecoveryAlone, Untouched
<1>5. RestartOwns(d)'
  BY DEF Safe, RestartOwns, Untouched
<1> QED BY <1>1, <1>2, <1>3, <1>4, <1>5 DEF Safe

\* Caller p of capture c goes to a place, and nobody else moves.
Moved(c, p, s, e) ==
  /\ at'[c][p] = s /\ of'[c][p] = e
  /\ \A q \in Callers : q # p => at'[c][q] = at[c][q] /\ of'[c][q] = of[c][q]
  /\ \A d \in Captures : d # c => at'[d] = at[d] /\ of'[d] = of[d]

Stage == {"idle", "awaitStop", "awaitDictation", "opening", "awaitStart", "draining", "closing",
          "joined", "started", "stopped", "pause", "backoff"}

CallTypes == at \in [Captures -> [Callers -> Stage]] /\ of \in [Captures -> [Callers -> Sessions \cup {None}]]

\* Goto does so.
LEMMA GotoMoves ==
  ASSUME NEW c \in Captures, NEW p \in Callers, NEW s \in Stage, NEW e \in Sessions \cup {None},
         CallTypes, Goto(c, p, s, e)
  PROVE  Moved(c, p, s, e) /\ CallTypes'
<1>1. CallTypes'
  BY DEF CallTypes, Goto
<1>2. Moved(c, p, s, e)
  BY DEF CallTypes, Goto, Moved
<1> QED BY <1>1, <1>2

-----------------------------------------------------------------------------
(* A start, as the capture sees it *)

\* p's start ends.
StartLeaves(c, p, e) ==
  /\ IF p = "start" THEN Moved(c, p, "idle", None) ELSE Moved(c, p, "started", e)
  /\ starting'[c] = IF starting[c] = p THEN None ELSE starting[c]

\* p's start waits, for a stop, for the dictation or for the stream.
StartStays(c, p, e) ==
  /\ \E s \in {"awaitStop", "awaitDictation", "opening"} :
        /\ Moved(c, p, s, e)
        /\ s = "awaitDictation" => c = "mic"
        /\ s = "opening" => session[c] = None
  /\ starting'[c] = p

\* What only a call of capture c changes.
Beside(c) ==
  /\ awaited'[c] = awaited[c] /\ session'[c] = session[c] /\ playing'[c] = playing[c]
  /\ open'[c] = open[c] /\ stopping'[c] = stopping[c]

\* Either keeps the calls in order,
LEMMA StartCalls ==
  ASSUME NEW c \in Captures, NEW p \in Callers, p # "stop", NEW e \in Sessions,
         CallsOK(c), StreamOK(c), Beside(c), rescued' = rescued, phase' = phase,
         at[c][p] \notin {"draining", "closing"},
         p = "recovery" => phase = c /\ e = rescued,
         StartLeaves(c, p, e) \/ StartStays(c, p, e)
  PROVE  CallsOK(c)' /\ StreamOK(c)'
<1>1. StreamOK(c)'
  BY DEF StreamOK, Beside
<1>2. CASE StartLeaves(c, p, e)
  <2>1. StagesOK(c)'
    BY <1>2 DEF CallsOK, StagesOK, StartLeaves, Moved, Callers
  <2>2. ASSUME NEW q \in Callers
        PROVE  /\ at'[c][q] # "idle" => of'[c][q] \in Sessions
               /\ stopping'[c] = q <=> at'[c][q] \in {"draining", "closing"}
               /\ starting'[c] = q => StartRuns(c, q)'
               /\ at'[c][q] = "awaitStart" => awaited'[c][q] \in Callers
    BY <1>2, NoneAssumption DEF CallsOK, StartLeaves, Moved, Beside, StartRuns
  <2>3. at'[c]["recovery"] # "idle" => phase' = c /\ of'[c]["recovery"] = rescued'
    BY <1>2 DEF CallsOK, StartLeaves, Moved, Callers
  <2> QED BY <1>1, <2>1, <2>2, <2>3 DEF CallsOK
<1>3. CASE StartStays(c, p, e)
  <2>1. StagesOK(c)'
    BY <1>3 DEF CallsOK, StagesOK, StartStays, Moved, Callers
  <2>2. ASSUME NEW q \in Callers
        PROVE  /\ at'[c][q] # "idle" => of'[c][q] \in Sessions
               /\ stopping'[c] = q <=> at'[c][q] \in {"draining", "closing"}
               /\ starting'[c] = q => StartRuns(c, q)'
               /\ at'[c][q] = "awaitStart" => awaited'[c][q] \in Callers
    BY <1>3 DEF CallsOK, StartStays, Moved, Beside, StartRuns
  <2>3. at'[c]["recovery"] # "idle" => phase' = c /\ of'[c]["recovery"] = rescued'
    BY <1>3 DEF CallsOK, StartStays, Moved, Callers
  <2> QED BY <1>1, <2>1, <2>2, <2>3 DEF CallsOK
<1> QED BY <1>1, <1>2, <1>3

\* and the capture safe, where p is for the session that is wanted and nobody else starts it.
LEMMA StartSafe ==
  ASSUME NEW c \in Captures, NEW p \in Callers, p # "stop", NEW e \in Sessions,
         CallsOK(c), StreamOK(c), Safe(c), Beside(c),
         fresh[c] \subseteq Sessions,
         wanted'[c] = wanted[c], fresh'[c] = fresh[c], rescued' = rescued, active' = active, owned' = owned,
         at[c][p] \in {"awaitStop", "awaitDictation", "stopped"}, of[c][p] = e,
         at[c][p] = "stopped" => wanted[c] = e /\ \A q \in Callers : ~StartRuns(c, q),
         StartLeaves(c, p, e) \/ StartStays(c, p, e)
  PROVE  Safe(c)'
<1>0. e # None
  BY SessionsAssumption
<1>a. \A q \in Callers : q # p => ~StartRuns(c, q)
  BY DEF Safe, OneStart, StartRuns
<1>1. OneStart(c)'
  <2>1. ASSUME NEW q \in Callers
        PROVE  /\ StartRuns(c, q)' => starting'[c] = q
               /\ at'[c][q] = "opening" => session'[c] = None
               /\ at'[c][q] = "closing" => ~playing'[c]
    BY <1>a DEF Safe, OneStart, StartLeaves, StartStays, Moved, Beside, StartRuns
  <2> QED BY <2>1 DEF Safe, OneStart, Beside
<1>2. StopReaches(c)'
  <2>1. ASSUME NEW q \in Callers
        PROVE  at'[c][q] = "joined" => stopping'[c] # None \/ session'[c] = None
    BY DEF Safe, StopReaches, StartLeaves, StartStays, Moved, Beside
  <2>2. at'[c]["stop"] = at[c]["stop"] /\ of'[c]["stop"] = of[c]["stop"] /\ awaited'[c] = awaited[c]
    BY DEF StartLeaves, StartStays, Moved, Beside, Callers
  <2>3. ASSUME NEW q \in Callers, StartRuns(c, q)'
        PROVE  \/ wanted'[c] = of'[c][q]
               \/ at'[c]["stop"] = "awaitStart" /\ awaited'[c]["stop"] = q /\ of'[c]["stop"] = of'[c][q]
    <3>1. q = p /\ of'[c][q] = e
      BY <1>a, <2>3 DEF StartLeaves, StartStays, Moved, StartRuns
    <3>2. wanted[c] = e \/ StartRuns(c, p)
      BY DEF StartRuns
    <3> QED BY <2>2, <3>1, <3>2 DEF Safe, StopReaches
  <2> QED BY <2>1, <2>2, <2>3 DEF Safe, StopReaches, Beside
<1>3. FreshIsNew(c)'
  <2>1. ASSUME NEW q \in Callers PROVE of'[c][q] \notin fresh'[c]
    <3>1. None \notin fresh[c]
      BY SessionsAssumption
    <3> QED BY <3>1 DEF Safe, FreshIsNew, StartLeaves, StartStays, Moved
  <2>2. ASSUME at'[c]["restart"] # "idle", StartRuns(c, "start")' PROVE of'[c]["start"] # of'[c]["restart"]
    <3>1. at[c]["restart"] # "idle" /\ of'[c]["restart"] = of[c]["restart"]
      BY <2>2 DEF StartLeaves, StartStays, Moved, Callers
    <3>2. StartRuns(c, "start") /\ of'[c]["start"] = of[c]["start"]
      BY <2>2 DEF StartLeaves, StartStays, Moved, Callers, StartRuns, CallsOK, StagesOK
    <3> QED BY <3>1, <3>2 DEF Safe, FreshIsNew
  <2> QED BY <2>1, <2>2 DEF Safe, FreshIsNew, Beside
<1>4. RecoveryAlone(c)'
  <2>1. CASE p = "start"
    <3>1. at[c]["recovery"] \in {"idle", "awaitStart"} /\ at'[c]["recovery"] = at[c]["recovery"]
      BY <2>1 DEF Safe, RecoveryAlone, StartLeaves, StartStays, Moved, Callers
    <3> QED BY <2>1, <3>1 DEF Safe, RecoveryAlone, StartLeaves, StartStays, Moved, Callers, Beside
  <2>2. CASE p = "restart"
    BY <2>2 DEF Safe, RecoveryAlone, StartLeaves, StartStays, Moved, Callers, Beside
  <2>3. CASE p = "recovery"
    BY <2>3 DEF Safe, RecoveryAlone, StartLeaves, StartStays, Moved, Callers, Beside
  <2> QED BY <2>1, <2>2, <2>3 DEF Callers
<1>5. RestartOwns(c)'
  BY DEF Safe, RestartOwns, StartLeaves, StartStays, Moved, Callers, Beside
<1> QED BY <1>1, <1>2, <1>3, <1>4, <1>5 DEF Safe

-----------------------------------------------------------------------------
(* A stop, as the capture sees it *)

\* p's stop ends.
Leaves(c, p, e) == IF p = "stop" THEN Moved(c, p, "idle", None) ELSE Moved(c, p, "stopped", e)

\* p's stop finds another session, another stop, or the stream that it drains.
StopGoes(c, p, e) ==
  \/ session[c] # e /\ Leaves(c, p, e) /\ stopping'[c] = stopping[c]
  \/ session[c] = e /\ stopping[c] # None /\ Moved(c, p, "joined", e) /\ stopping'[c] = stopping[c]
  \/ session[c] = e /\ stopping[c] = None /\ Moved(c, p, "draining", e) /\ stopping'[c] = p

\* p's stop waits for the start that is under way.
StopWaits(c, p, e) ==
  /\ starting[c] \in Callers /\ Moved(c, p, "awaitStart", e)
  /\ awaited'[c][p] = starting[c] /\ stopping'[c] = stopping[c]

\* What only a stop of capture c changes.
Aside(c, p) ==
  /\ starting'[c] = starting[c] /\ session'[c] = session[c] /\ playing'[c] = playing[c]
  /\ open'[c] = open[c] /\ \A q \in Callers : q # p => awaited'[c][q] = awaited[c][q]

\* Any of these keeps the calls in order.
LEMMA StopCalls ==
  ASSUME NEW c \in Captures, NEW p \in Callers, p # "start", NEW e \in Sessions,
         CallsOK(c), StreamOK(c), Aside(c, p), rescued' = rescued, phase' = phase,
         at[c][p] \notin {"draining", "closing"}, ~StartRuns(c, p),
         p = "recovery" => phase = c /\ e = rescued,
         StopGoes(c, p, e) \/ StopWaits(c, p, e)
  PROVE  CallsOK(c)' /\ StreamOK(c)'
<1>1. StreamOK(c)'
  BY DEF StreamOK, Aside
<1>a. p # None /\ e # None
  BY SessionsAssumption, NoneAssumption
<1>2. CASE StopWaits(c, p, e)
  <2>1. StagesOK(c)'
    BY <1>2 DEF CallsOK, StagesOK, StopWaits, Moved, Callers
  <2>2. ASSUME NEW q \in Callers
        PROVE  /\ at'[c][q] # "idle" => of'[c][q] \in Sessions
               /\ stopping'[c] = q <=> at'[c][q] \in {"draining", "closing"}
               /\ starting'[c] = q => StartRuns(c, q)'
               /\ at'[c][q] = "awaitStart" => awaited'[c][q] \in Callers
    BY <1>2 DEF CallsOK, StopWaits, Moved, Aside, StartRuns
  <2>3. at'[c]["recovery"] # "idle" => phase' = c /\ of'[c]["recovery"] = rescued'
    BY <1>2 DEF CallsOK, StopWaits, Moved, Callers
  <2> QED BY <1>1, <2>1, <2>2, <2>3 DEF CallsOK
<1>3. CASE StopGoes(c, p, e)
  <2>1. StagesOK(c)'
    BY <1>3 DEF CallsOK, StagesOK, StopGoes, Leaves, Moved, Callers
  <2>2. ASSUME NEW q \in Callers
        PROVE  /\ at'[c][q] # "idle" => of'[c][q] \in Sessions
               /\ stopping'[c] = q <=> at'[c][q] \in {"draining", "closing"}
               /\ starting'[c] = q => StartRuns(c, q)'
               /\ at'[c][q] = "awaitStart" => awaited'[c][q] \in Callers
    <3>1. at'[c][q] # "idle" => of'[c][q] \in Sessions
      BY <1>3 DEF CallsOK, StopGoes, Leaves, Moved
    <3>2. stopping'[c] = q <=> at'[c][q] \in {"draining", "closing"}
      <4>1. CASE q = p
        BY <1>3, <1>a, <4>1 DEF CallsOK, StopGoes, Leaves, Moved
      <4>2. CASE q # p
        BY <1>3, <4>2, NoneAssumption DEF CallsOK, StopGoes, Leaves, Moved
      <4> QED BY <4>1, <4>2
    <3>3. starting'[c] = q => StartRuns(c, q)'
      BY <1>3 DEF CallsOK, StopGoes, Leaves, Moved, Aside, StartRuns
    <3>4. at'[c][q] = "awaitStart" => awaited'[c][q] \in Callers
      BY <1>3 DEF CallsOK, StopGoes, Leaves, Moved, Aside
    <3> QED BY <3>1, <3>2, <3>3, <3>4
  <2>3. at'[c]["recovery"] # "idle" => phase' = c /\ of'[c]["recovery"] = rescued'
    BY <1>3 DEF CallsOK, StopGoes, Leaves, Moved, Callers
  <2> QED BY <1>1, <2>1, <2>2, <2>3 DEF CallsOK
<1> QED BY <1>1, <1>2, <1>3

\* A stop starts nothing.
LEMMA StopSafeStarts ==
  ASSUME NEW c \in Captures, NEW p \in Callers, p # "start", NEW e \in Sessions,
         CallsOK(c), StreamOK(c), Safe(c), Aside(c, p),
         ~StartRuns(c, p), StopGoes(c, p, e) \/ StopWaits(c, p, e)
  PROVE  OneStart(c)'
<1>a. e # None
  BY SessionsAssumption
<1>1. ASSUME NEW q \in Callers
      PROVE  /\ StartRuns(c, q)' => starting'[c] = q
             /\ at'[c][q] = "opening" => session'[c] = None
             /\ at'[c][q] = "closing" => ~playing'[c]
  BY DEF Safe, OneStart, StopGoes, StopWaits, Leaves, Moved, Aside, StartRuns
<1>2. stopping'[c] # None => session'[c] # None
  BY <1>a DEF Safe, OneStart, StopGoes, StopWaits, Aside
<1> QED BY <1>1, <1>2 DEF Safe, OneStart, Aside

\* A stop of a restart or of the recovery keeps the capture safe.
LEMMA StopSafe ==
  ASSUME NEW c \in Captures, NEW p \in {"restart", "recovery"}, NEW e \in Sessions,
         CallsOK(c), StreamOK(c), Safe(c), Aside(c, p), fresh[c] \subseteq Sessions,
         wanted'[c] = wanted[c], fresh'[c] = fresh[c], rescued' = rescued, active' = active,
         ~StartRuns(c, p), e \notin fresh[c],
         p = "restart" => \/ at[c][p] # "idle" /\ of[c][p] = e
                          \/ ~active /\ ~StartRuns(c, "start"),
         p = "recovery" => active /\ (StopWaits(c, p, e) \/ at[c]["start"] = "idle"),
         c = "mic" /\ p = "restart" /\ owned' = e => wanted[c] = e,
         c = "mic" /\ p # "restart" => owned' = owned,
         c = "system" /\ p = "restart" =>
            starting[c] = None /\ stopping[c] = None /\ session[c] = e /\ wanted[c] = e,
         StopGoes(c, p, e) \/ StopWaits(c, p, e)
  PROVE  Safe(c)'
<1>a. p \in Callers /\ p # "start" /\ p # "stop"
  BY DEF Callers
<1>b. e # None
  BY SessionsAssumption
<1>1. OneStart(c)'
  BY <1>a, StopSafeStarts
<1>2. StopReaches(c)'
  <2>1. ASSUME NEW q \in Callers
        PROVE  at'[c][q] = "joined" => stopping'[c] # None \/ session'[c] = None
    BY <1>a, NoneAssumption DEF Safe, StopReaches, StopGoes, StopWaits, Leaves, Moved, Aside
  <2>2. at'[c]["stop"] = at[c]["stop"] /\ of'[c]["stop"] = of[c]["stop"] /\ awaited'[c]["stop"] = awaited[c]["stop"]
    BY <1>a DEF StopGoes, StopWaits, Leaves, Moved, Aside, Callers
  <2>3. ASSUME NEW q \in Callers, StartRuns(c, q)'
        PROVE  \/ wanted'[c] = of'[c][q]
               \/ at'[c]["stop"] = "awaitStart" /\ awaited'[c]["stop"] = q /\ of'[c]["stop"] = of'[c][q]
    <3>1. q # p /\ StartRuns(c, q) /\ of'[c][q] = of[c][q]
      BY <1>a, <2>3 DEF StopGoes, StopWaits, Leaves, Moved, StartRuns
    <3> QED BY <2>2, <3>1 DEF Safe, StopReaches
  <2> QED BY <2>1, <2>2, <2>3 DEF Safe, StopReaches, Aside
<1>3. FreshIsNew(c)'
  <2>1. ASSUME NEW q \in Callers PROVE of'[c][q] \notin fresh'[c]
    BY <1>a DEF Safe, FreshIsNew, StopGoes, StopWaits, Leaves, Moved
  <2>2. ASSUME at'[c]["restart"] # "idle", StartRuns(c, "start")' PROVE of'[c]["start"] # of'[c]["restart"]
    <3>1. StartRuns(c, "start") /\ of'[c]["start"] = of[c]["start"]
      BY <1>a, <2>2 DEF StopGoes, StopWaits, Leaves, Moved, Callers, StartRuns
    <3>2. at[c]["restart"] # "idle" /\ of'[c]["restart"] = of[c]["restart"]
      BY <1>a, <2>2, <3>1 DEF StopGoes, StopWaits, Leaves, Moved, Callers
    <3> QED BY <3>1, <3>2 DEF Safe, FreshIsNew
  <2> QED BY <2>1, <2>2 DEF Safe, FreshIsNew, Aside
<1>4. RecoveryAlone(c)'
  <2>1. CASE p = "restart"
    BY <2>1 DEF Safe, RecoveryAlone, StopGoes, StopWaits, Leaves, Moved, Callers, Aside
  <2>2. CASE p = "recovery"
    <3>1. ASSUME StopWaits(c, p, e) PROVE starting[c] = "start"
      <4>1. StartRuns(c, starting[c])
        BY <3>1 DEF StopWaits, CallsOK
      <4>2. starting[c] # "restart" /\ starting[c] # "recovery" /\ starting[c] # "stop"
        BY <2>2, <4>1 DEF Safe, RecoveryAlone, StartRuns, CallsOK, StagesOK
      <4> QED BY <3>1, <4>2 DEF StopWaits, Callers
    <3> QED BY <2>2, <3>1 DEF Safe, RecoveryAlone, StopGoes, StopWaits, Leaves, Moved, Callers, Aside
  <2> QED BY <2>1, <2>2
<1>5. RestartOwns(c)'
  BY <1>a, NoneAssumption DEF Safe, RestartOwns, StopGoes, StopWaits, Leaves, Moved, Callers, Aside
<1> QED BY <1>1, <1>2, <1>3, <1>4, <1>5 DEF Safe

\* So does any stop that has awaited a start.
LEMMA AwaitedStopSafe ==
  ASSUME NEW c \in Captures, NEW e \in Sessions,
         CallsOK(c), StreamOK(c), Safe(c), Aside(c, "stop"), fresh[c] \subseteq Sessions,
         fresh'[c] = fresh[c], rescued' = rescued, active' = active, owned' = owned,
         wanted'[c] = wanted[c],
         at[c]["stop"] = "awaitStart", of[c]["stop"] = e, ~StartRuns(c, awaited[c]["stop"]),
         StopGoes(c, "stop", e)
  PROVE  Safe(c)'
<1>a. "stop" \in Callers /\ ~StartRuns(c, "stop") /\ e # None
  BY SessionsAssumption DEF Callers, StartRuns, CallsOK, StagesOK
<1>b. \A q \in Callers : q # "stop" => at'[c][q] = at[c][q] /\ of'[c][q] = of[c][q]
  BY DEF StopGoes, Leaves, Moved
<1>c. \/ at'[c]["stop"] = "idle" /\ of'[c]["stop"] = None /\ session[c] # e
      \/ at'[c]["stop"] \in {"joined", "draining"} /\ of'[c]["stop"] = e /\ stopping'[c] # None
  BY NoneAssumption, <1>a DEF StopGoes, Leaves, Moved
<1>1. OneStart(c)'
  BY <1>a, StopSafeStarts
<1>2. StopReaches(c)'
  <2>1. ASSUME NEW q \in Callers
        PROVE  at'[c][q] = "joined" => stopping'[c] # None \/ session'[c] = None
    <3>1. stopping[c] # None => stopping'[c] # None
      BY DEF StopGoes
    <3> QED BY <1>b, <1>c, <3>1 DEF Safe, StopReaches, Aside
  <2>2. ASSUME NEW q \in Callers, StartRuns(c, q)' PROVE wanted'[c] = of'[c][q]
    <3>1. q # "stop" /\ StartRuns(c, q) /\ of'[c][q] = of[c][q]
      BY <1>b, <1>c, <2>2 DEF StartRuns
    <3> QED BY <3>1 DEF Safe, StopReaches
  <2>3. session'[c] \notin {None, wanted'[c]} => at'[c]["stop"] # "idle" /\ of'[c]["stop"] = session'[c]
    BY <1>c DEF Safe, StopReaches, Aside
  <2> QED BY <2>1, <2>2, <2>3, <1>c DEF StopReaches
<1>3. FreshIsNew(c)'
  <2>1. ASSUME NEW q \in Callers PROVE of'[c][q] \notin fresh'[c]
    BY <1>b, <1>c, SessionsAssumption DEF Safe, FreshIsNew
  <2> QED BY <1>b, <2>1 DEF Safe, FreshIsNew, Aside, StartRuns, Callers
<1>4. RecoveryAlone(c)'
  BY <1>b DEF Safe, RecoveryAlone, Aside, Callers
<1>5. RestartOwns(c)'
  BY <1>b DEF Safe, RestartOwns, Aside, Callers
<1> QED BY <1>1, <1>2, <1>3, <1>4, <1>5 DEF Safe

\* So does the main process's stop, which the session is no longer wanted after.
LEMMA MainStopSafe ==
  ASSUME NEW c \in Captures, NEW e \in Sessions,
         CallsOK(c), StreamOK(c), Safe(c), Aside(c, "stop"), fresh[c] \subseteq Sessions,
         fresh'[c] = fresh[c], rescued' = rescued, active' = active,
         at[c]["stop"] = "idle", wanted[c] = e, wanted'[c] = None, rescued = None, ~active,
         c = "mic" => owned' = (IF owned = e THEN None ELSE owned),
         c = "system" => stopping[c] # "restart" /\ at[c]["restart"] # "stopped",
         StopWaits(c, "stop", e) \/ (starting[c] = None /\ StopGoes(c, "stop", e))
  PROVE  Safe(c)'
<1>a. "stop" \in Callers /\ ~StartRuns(c, "stop") /\ e # None
  BY SessionsAssumption DEF Callers, StartRuns, CallsOK, StagesOK
<1>b. \A q \in Callers : q # "stop" =>
        at'[c][q] = at[c][q] /\ of'[c][q] = of[c][q] /\ awaited'[c][q] = awaited[c][q]
  BY DEF StopGoes, StopWaits, Leaves, Moved, Aside
<1>c. \/ /\ starting[c] # None /\ at'[c]["stop"] = "awaitStart" /\ of'[c]["stop"] = e
         /\ awaited'[c]["stop"] = starting[c]
      \/ /\ starting[c] = None /\ at'[c]["stop"] = "idle" /\ of'[c]["stop"] = None /\ session[c] # e
      \/ /\ starting[c] = None /\ at'[c]["stop"] \in {"joined", "draining"} /\ of'[c]["stop"] = e
         /\ stopping'[c] # None
  BY NoneAssumption, <1>a DEF StopGoes, StopWaits, Leaves, Moved
<1>1. OneStart(c)'
  BY <1>a, StopSafeStarts
<1>2. StopReaches(c)'
  <2>1. ASSUME NEW q \in Callers
        PROVE  at'[c][q] = "joined" => stopping'[c] # None \/ session'[c] = None
    <3>1. stopping[c] # None => stopping'[c] # None
      BY DEF StopGoes, StopWaits
    <3> QED BY <1>b, <1>c, <3>1 DEF Safe, StopReaches, Aside
  <2>2. ASSUME NEW q \in Callers, StartRuns(c, q)'
        PROVE  at'[c]["stop"] = "awaitStart" /\ awaited'[c]["stop"] = q /\ of'[c]["stop"] = of'[c][q]
    <3>1. q # "stop" /\ StartRuns(c, q) /\ of'[c][q] = of[c][q]
      BY <1>b, <1>c, <2>2 DEF StartRuns
    <3>2. starting[c] = q /\ q # None /\ of[c][q] = e
      BY <3>1, NoneAssumption DEF Safe, StopReaches, OneStart
    <3> QED BY <3>1, <3>2, <1>c
  <2>3. session'[c] \notin {None, wanted'[c]} => at'[c]["stop"] # "idle" /\ of'[c]["stop"] = session'[c]
    BY <1>c DEF Safe, StopReaches, Aside
  <2> QED BY <2>1, <2>2, <2>3, <1>c DEF StopReaches
<1>3. FreshIsNew(c)'
  <2>1. ASSUME NEW q \in Callers PROVE of'[c][q] \notin fresh'[c]
    BY <1>b, <1>c, SessionsAssumption DEF Safe, FreshIsNew
  <2>2. None \notin fresh[c]
    BY SessionsAssumption
  <2> QED BY <1>b, <2>1, <2>2 DEF Safe, FreshIsNew, Aside, StartRuns, Callers
<1>4. RecoveryAlone(c)'
  BY <1>b DEF Safe, RecoveryAlone, Aside, Callers
<1>5. RestartOwns(c)'
  <2>1. c = "system" => stopping[c] # "restart" /\ at[c]["restart"] \notin {"draining", "closing", "stopped"}
    BY DEF CallsOK, Callers
  <2>2. at'[c]["restart"] = at[c]["restart"] /\ of'[c]["restart"] = of[c]["restart"]
    BY <1>b DEF Callers
  <2>3. at[c]["restart"] # "idle" => of[c]["restart"] # None
    BY SessionsAssumption DEF CallsOK, Callers
  <2>4. ASSUME c = "mic", at[c]["restart"] # "idle" PROVE owned' # of[c]["restart"]
    BY <2>3, <2>4 DEF Safe, RestartOwns
  <2> QED BY <2>1, <2>2, <2>4 DEF Safe, RestartOwns, Aside
<1> QED BY <1>1, <1>2, <1>3, <1>4, <1>5 DEF Safe

\* The start of the main process, for a session that is new to the capture.
LEMMA MainStartSafe ==
  ASSUME NEW c \in Captures, NEW e \in Sessions,
         CallsOK(c), StreamOK(c), Safe(c), Beside(c), fresh[c] \subseteq Sessions,
         e \in fresh[c], fresh'[c] = fresh[c] \ {e}, wanted[c] = None, wanted'[c] = e,
         rescued' = rescued, active' = active, owned' = owned, active => rescued # None,
         at[c]["recovery"] = "idle",
         at[c]["start"] = "idle", at[c]["stop"] # "awaitStart",
         StartLeaves(c, "start", e) \/ StartStays(c, "start", e)
  PROVE  Safe(c)'
<1>0. e # None /\ "start" \in Callers
  BY SessionsAssumption DEF Callers
<1>a. \A q \in Callers : ~StartRuns(c, q)
  BY SessionsAssumption DEF Safe, StopReaches, StartRuns, CallsOK
<1>b. \A q \in Callers : q # "start" => at'[c][q] = at[c][q] /\ of'[c][q] = of[c][q]
  BY DEF StartLeaves, StartStays, Moved
<1>c. \/ at'[c]["start"] = "idle" /\ of'[c]["start"] = None
      \/ /\ at'[c]["start"] \in {"awaitStop", "awaitDictation", "opening"} /\ of'[c]["start"] = e
         /\ starting'[c] = "start" /\ (at'[c]["start"] = "opening" => session[c] = None)
  BY DEF StartLeaves, StartStays, Moved
<1>1. OneStart(c)'
  <2>1. ASSUME NEW q \in Callers
        PROVE  /\ StartRuns(c, q)' => starting'[c] = q
               /\ at'[c][q] = "opening" => session'[c] = None
               /\ at'[c][q] = "closing" => ~playing'[c]
    BY <1>a, <1>b, <1>c DEF Safe, OneStart, Beside, StartRuns
  <2> QED BY <2>1 DEF Safe, OneStart, Beside
<1>2. StopReaches(c)'
  <2>1. ASSUME NEW q \in Callers
        PROVE  at'[c][q] = "joined" => stopping'[c] # None \/ session'[c] = None
    BY <1>b, <1>c DEF Safe, StopReaches, Beside
  <2>2. ASSUME NEW q \in Callers, StartRuns(c, q)' PROVE wanted'[c] = of'[c][q]
    BY <1>a, <1>b, <1>c, <2>2 DEF StartRuns
  <2>3. at'[c]["stop"] = at[c]["stop"] /\ of'[c]["stop"] = of[c]["stop"]
    BY <1>b DEF Callers
  <2> QED BY <2>1, <2>2, <2>3 DEF Safe, StopReaches, Beside
<1>3. FreshIsNew(c)'
  <2>1. ASSUME NEW q \in Callers PROVE of'[c][q] \notin fresh'[c]
    BY <1>b, <1>c, SessionsAssumption DEF Safe, FreshIsNew
  <2>2. of'[c]["restart"] # e
    BY <1>b DEF Safe, FreshIsNew, Callers
  <2> QED BY <1>c, <2>1, <2>2 DEF Safe, FreshIsNew, Beside, StartRuns
<1>4. RecoveryAlone(c)'
  BY <1>b, <1>0 DEF Safe, RecoveryAlone, Beside, Callers
<1>5. RestartOwns(c)'
  <2>1. at'[c]["restart"] = at[c]["restart"] /\ of'[c]["restart"] = of[c]["restart"]
    BY <1>b DEF Callers
  <2>2. at[c]["restart"] # "idle" => of[c]["restart"] # None
    BY SessionsAssumption DEF CallsOK, Callers
  <2> QED BY <2>1, <2>2 DEF Safe, RestartOwns, Beside
<1> QED BY <1>1, <1>2, <1>3, <1>4, <1>5 DEF Safe

-----------------------------------------------------------------------------
(* The ends of calls, as the capture sees them *)

\* What the end of p's start does.
LEMMA OpenCalls ==
  ASSUME NEW c \in Captures, NEW p \in Callers, NEW e \in Sessions,
         CallsOK(c), at[c][p] = "opening", of[c][p] = e, StartLeaves(c, p, e),
         awaited'[c] = awaited[c], stopping'[c] = stopping[c], rescued' = rescued, phase' = phase,
         open[c] \in Nat,
         \/ session'[c] = e /\ playing'[c] = TRUE /\ open'[c] = open[c] + 1
         \/ session'[c] = None /\ playing'[c] = FALSE
  PROVE  CallsOK(c)' /\ StreamOK(c)'
<1>1. StreamOK(c)'
  BY SessionsAssumption DEF StreamOK
<1>2. p # "stop"
  BY DEF CallsOK, StagesOK
<1>3. StagesOK(c)'
  BY DEF CallsOK, StagesOK, StartLeaves, Moved, Callers
<1>4. ASSUME NEW q \in Callers
      PROVE  /\ at'[c][q] # "idle" => of'[c][q] \in Sessions
             /\ stopping'[c] = q <=> at'[c][q] \in {"draining", "closing"}
             /\ starting'[c] = q => StartRuns(c, q)'
             /\ at'[c][q] = "awaitStart" => awaited'[c][q] \in Callers
  BY NoneAssumption DEF CallsOK, StartLeaves, Moved, StartRuns
<1>5. at'[c]["recovery"] # "idle" => phase' = c /\ of'[c]["recovery"] = rescued'
  BY DEF CallsOK, StartLeaves, Moved, Callers
<1> QED BY <1>1, <1>3, <1>4, <1>5 DEF CallsOK

\* and keeps the capture safe: the stream is the only one.
LEMMA OpenSafe ==
  ASSUME NEW c \in Captures, NEW p \in Callers, NEW e \in Sessions,
         CallsOK(c), StreamOK(c), Safe(c), at[c][p] = "opening", of[c][p] = e, StartLeaves(c, p, e),
         \A q \in Callers : ~Continues(c, q),
         awaited'[c] = awaited[c], stopping'[c] = stopping[c], fresh[c] \subseteq Sessions,
         wanted'[c] = wanted[c], fresh'[c] = fresh[c], rescued' = rescued, active' = active, owned' = owned,
         \/ session'[c] = e /\ playing'[c] = TRUE /\ open'[c] = open[c] + 1
         \/ session'[c] = None /\ playing'[c] = FALSE /\ open'[c] = open[c]
  PROVE  Safe(c)'
<1>a. /\ \A q \in Callers : q # p => ~StartRuns(c, q)
      /\ session[c] = None /\ stopping[c] = None /\ ~playing[c] /\ open[c] = 0
  BY DEF Safe, OneStart, StartRuns, StreamOK
<1>b. \A q \in Callers : q # p => at'[c][q] = at[c][q] /\ of'[c][q] = of[c][q]
  BY DEF StartLeaves, Moved
<1>c. \/ at'[c][p] = "idle" /\ of'[c][p] = None /\ p = "start"
      \/ at'[c][p] = "started" /\ of'[c][p] = e /\ p # "start"
  BY DEF StartLeaves, Moved
<1>d. p # "stop" /\ e # None /\ None \notin fresh[c]
  BY SessionsAssumption DEF CallsOK, StagesOK
<1>e. \A q \in Callers : at[c][q] \notin {"joined", "closing"}
  BY <1>a, NoneAssumption DEF Continues, CallsOK
<1>1. OneStart(c)'
  BY <1>a, <1>b, <1>c, <1>e DEF OneStart, StartRuns
<1>2. StopReaches(c)'
  <2>1. \A q \in Callers : at'[c][q] # "joined" /\ ~StartRuns(c, q)'
    BY <1>a, <1>b, <1>c, <1>e DEF StartRuns
  <2>2. at'[c]["stop"] = at[c]["stop"] /\ of'[c]["stop"] = of[c]["stop"]
    BY <1>b, <1>d DEF Callers
  <2>3. wanted[c] = e \/ (at[c]["stop"] = "awaitStart" /\ of[c]["stop"] = e)
    BY DEF Safe, StopReaches, StartRuns
  <2> QED BY <2>1, <2>2, <2>3 DEF Safe, StopReaches
<1>3. FreshIsNew(c)'
  <2>1. ASSUME NEW q \in Callers PROVE of'[c][q] \notin fresh'[c]
    BY <1>b, <1>c, <1>d DEF Safe, FreshIsNew
  <2>2. ~StartRuns(c, "start")'
    BY <1>a, <1>b, <1>c DEF StartRuns, Callers
  <2>3. e \notin fresh[c]
    BY DEF Safe, FreshIsNew
  <2> QED BY <1>d, <2>1, <2>2, <2>3 DEF Safe, FreshIsNew
<1>4. RecoveryAlone(c)'
  BY <1>b, <1>c DEF Safe, RecoveryAlone, Callers
<1>5. RestartOwns(c)'
  <2>1. \/ at'[c]["restart"] = at[c]["restart"] /\ of'[c]["restart"] = of[c]["restart"]
        \/ at'[c]["restart"] = "started" /\ of'[c]["restart"] = of[c]["restart"] /\ at[c]["restart"] # "idle"
    BY <1>b, <1>c DEF Callers
  <2>2. at[c]["restart"] = "backoff" => c # "system"
    BY <1>a, SessionsAssumption DEF Safe, RestartOwns, CallsOK, Callers
  <2> QED BY <2>1, <2>2 DEF Safe, RestartOwns, CallsOK, StagesOK
<1> QED BY <1>1, <1>2, <1>3, <1>4, <1>5 DEF Safe

\* What the end of a drain does.
LEMMA DrainCalls ==
  ASSUME NEW c \in Captures, NEW p \in Callers, CallsOK(c), at[c][p] = "draining",
         Moved(c, p, "closing", of[c][p]), starting'[c] = starting[c],
         awaited'[c] = awaited[c], stopping'[c] = stopping[c], rescued' = rescued, phase' = phase,
         playing'[c] = FALSE
  PROVE  CallsOK(c)' /\ StreamOK(c)'
<1>1. StreamOK(c)'
  BY DEF StreamOK
<1>3. StagesOK(c)'
  BY DEF CallsOK, StagesOK, Moved, Callers
<1>4. ASSUME NEW q \in Callers
      PROVE  /\ at'[c][q] # "idle" => of'[c][q] \in Sessions
             /\ stopping'[c] = q <=> at'[c][q] \in {"draining", "closing"}
             /\ starting'[c] = q => StartRuns(c, q)'
             /\ at'[c][q] = "awaitStart" => awaited'[c][q] \in Callers
  BY DEF CallsOK, Moved, StartRuns
<1>5. at'[c]["recovery"] # "idle" => phase' = c /\ of'[c]["recovery"] = rescued'
  BY DEF CallsOK, Moved, Callers
<1> QED BY <1>1, <1>3, <1>4, <1>5 DEF CallsOK

\* It stops the one stream there is.
LEMMA DrainSafe ==
  ASSUME NEW c \in Captures, NEW p \in Callers, CallsOK(c), StreamOK(c), Safe(c), at[c][p] = "draining",
         Moved(c, p, "closing", of[c][p]), starting'[c] = starting[c],
         awaited'[c] = awaited[c], stopping'[c] = stopping[c], session'[c] = session[c],
         wanted'[c] = wanted[c], fresh'[c] = fresh[c], rescued' = rescued, active' = active, owned' = owned,
         playing'[c] = FALSE, open'[c] = IF playing[c] THEN open[c] - 1 ELSE open[c]
  PROVE  Safe(c)'
<1>a. \A q \in Callers : at'[c][q] = IF q = p THEN "closing" ELSE at[c][q]
  BY DEF Moved
<1>b. of'[c]["stop"] = of[c]["stop"] /\ of'[c]["start"] = of[c]["start"] /\ of'[c]["restart"] = of[c]["restart"]
  BY DEF Moved, Callers
<1>c. \A q \in Callers : of'[c][q] = of[c][q]
  BY DEF Moved
<1>1. OneStart(c)'
  BY <1>a DEF Safe, OneStart, StartRuns
<1>2. StopReaches(c)'
  <2>1. at'[c]["stop"] = at[c]["stop"] \/ (at[c]["stop"] = "draining" /\ at'[c]["stop"] = "closing")
    BY <1>a DEF Callers
  <2> QED BY <1>a, <1>b, <1>c, <2>1 DEF Safe, StopReaches, StartRuns
<1>3. FreshIsNew(c)'
  BY <1>a, <1>b, <1>c DEF Safe, FreshIsNew, StartRuns, Callers
<1>4. RecoveryAlone(c)'
  BY <1>a, <1>b DEF Safe, RecoveryAlone, CallsOK, StagesOK, Callers
<1>5. RestartOwns(c)'
  BY <1>a, <1>b DEF Safe, RestartOwns, Callers
<1> QED BY <1>1, <1>2, <1>3, <1>4, <1>5 DEF Safe

\* p leaves its call, and a restart may leave its pause.
Rests(c, p, s, e) ==
  /\ at'[c][p] = s /\ of'[c][p] = e
  /\ \A q \in Callers : q # p =>
       \/ at'[c][q] = at[c][q] /\ of'[c][q] = of[c][q]
       \/ q = "restart" /\ at[c][q] = "backoff" /\ at'[c][q] = "idle" /\ of'[c][q] = None

\* Such a step keeps the calls in order.
LEMMA RestCalls ==
  ASSUME NEW c \in Captures, NEW p \in Callers, p # "start", NEW s \in {"idle", "stopped", "pause"}, NEW e,
         CallsOK(c), ~StartRuns(c, p), Rests(c, p, s, e),
         s # "idle" => at[c][p] # "idle" /\ e = of[c][p] /\ p # "stop",
         s = "pause" => c = "mic" /\ p = "restart",
         starting'[c] = starting[c], awaited'[c] = awaited[c],
         stopping'[c] = IF stopping[c] = p THEN None ELSE stopping[c],
         at'[c]["recovery"] = "idle" \/ (rescued' = rescued /\ phase' = phase)
  PROVE  CallsOK(c)'
<1>3. StagesOK(c)'
  BY DEF CallsOK, StagesOK, Rests, Callers
<1>4. ASSUME NEW q \in Callers
      PROVE  /\ at'[c][q] # "idle" => of'[c][q] \in Sessions
             /\ stopping'[c] = q <=> at'[c][q] \in {"draining", "closing"}
             /\ starting'[c] = q => StartRuns(c, q)'
             /\ at'[c][q] = "awaitStart" => awaited'[c][q] \in Callers
  BY NoneAssumption DEF CallsOK, Rests, StartRuns
<1>5. at'[c]["recovery"] # "idle" => phase' = c /\ of'[c]["recovery"] = rescued'
  BY DEF CallsOK, Rests, Callers
<1> QED BY <1>3, <1>4, <1>5 DEF CallsOK

\* A stop has closed the capture.
LEMMA CloseSafe ==
  ASSUME NEW c \in Captures, NEW p \in Callers, NEW s \in {"idle", "stopped"}, NEW e,
         CallsOK(c), StreamOK(c), Safe(c), at[c][p] = "closing", Rests(c, p, s, e),
         s = "stopped" => e = of[c][p] /\ p # "stop",
         s = "idle" => e = None /\ p = "stop",
         c = "system" => at'[c]["restart"] # "backoff",
         starting'[c] = starting[c], awaited'[c] = awaited[c], fresh[c] \subseteq Sessions,
         session'[c] = None, playing'[c] = FALSE, open'[c] = open[c], stopping'[c] = None,
         wanted'[c] = wanted[c], fresh'[c] = fresh[c], rescued' = rescued, owned' = owned,
         active' => active, at'[c]["recovery"] # "idle" => active'
  PROVE  Safe(c)'
<1>a. \A q \in Callers : q # p => at[c][q] \notin {"closing", "draining"}
  BY DEF CallsOK
<1>b. p # "start" /\ ~StartRuns(c, p) /\ None \notin fresh[c]
  BY SessionsAssumption DEF CallsOK, StagesOK, StartRuns
<1>c. \A q \in Callers : /\ StartRuns(c, q)' => StartRuns(c, q) /\ of'[c][q] = of[c][q] /\ q # p
                         /\ of'[c][q] \in {of[c][q], None}
                         /\ at'[c][q] \in {"idle", "stopped", at[c][q]}
  BY DEF Rests, StartRuns
<1>d. \A q \in Callers : at'[c][q] # "closing" /\ (at'[c][q] = "opening" => at[c][q] = "opening")
  BY <1>a DEF Rests
<1>e. at'[c]["start"] = at[c]["start"] /\ of'[c]["start"] = of[c]["start"]
  BY <1>b DEF Rests, Callers
<1>f. at'[c]["stop"] # "idle" => at'[c]["stop"] = at[c]["stop"] /\ of'[c]["stop"] = of[c]["stop"]
  BY DEF Rests, Callers
<1>g. at[c]["stop"] = "awaitStart" => at'[c]["stop"] = "awaitStart"
  BY DEF Rests, Callers
<1>h. at'[c]["restart"] # "idle" => at[c]["restart"] # "idle" /\ of'[c]["restart"] = of[c]["restart"]
  BY DEF Rests, Callers
<1>1. OneStart(c)'
  <2>1. ~playing[c] /\ open[c] = 0
    BY DEF Safe, OneStart
  <2>2. ASSUME NEW q \in Callers PROVE StartRuns(c, q)' => starting'[c] = q
    BY <1>c DEF Safe, OneStart
  <2> QED BY <2>1, <2>2 DEF OneStart
<1>2. StopReaches(c)'
  <2>1. ASSUME NEW q \in Callers, StartRuns(c, q)'
        PROVE  \/ wanted'[c] = of'[c][q]
               \/ at'[c]["stop"] = "awaitStart" /\ awaited'[c]["stop"] = q /\ of'[c]["stop"] = of'[c][q]
    BY <1>c, <1>f, <1>g, <2>1 DEF Safe, StopReaches
  <2>2. at'[c]["stop"] = "awaitStart" => wanted'[c] = None
    BY <1>f DEF Safe, StopReaches
  <2> QED BY <2>1, <2>2 DEF StopReaches
<1>3. FreshIsNew(c)'
  <2>1. ASSUME NEW q \in Callers PROVE of'[c][q] \notin fresh'[c]
    BY <1>b, <1>c DEF Safe, FreshIsNew
  <2> QED BY <1>b, <1>e, <1>h, <2>1 DEF Safe, FreshIsNew, StartRuns
<1>4. RecoveryAlone(c)'
  <2>1. /\ at'[c]["recovery"] # "idle" => at[c]["recovery"] # "idle"
        /\ at'[c]["recovery"] = "awaitStart" <=> at[c]["recovery"] = "awaitStart"
    BY DEF Rests, Callers
  <2> QED BY <1>e, <1>h, <2>1 DEF Safe, RecoveryAlone
<1>5. RestartOwns(c)'
  <2>1. at'[c]["restart"] # "idle" => at'[c]["restart"] = at[c]["restart"] \/ (at'[c]["restart"] = "stopped" /\ at[c]["restart"] = "closing")
    BY DEF Rests, Callers
  <2> QED BY <1>h, <2>1 DEF Safe, RestartOwns
<1> QED BY <1>1, <1>2, <1>3, <1>4, <1>5 DEF Safe

\* A caller returns, or pauses, and leaves the capture as it is.
LEMMA RestSafe ==
  ASSUME NEW c \in Captures, NEW p \in Callers, NEW s \in {"idle", "stopped", "pause"}, NEW e,
         CallsOK(c), StreamOK(c), Safe(c), Rests(c, p, s, e), p # "start",
         at[c][p] \in {"joined", "started", "stopped", "pause", "backoff"},
         at[c][p] = "joined" => stopping[c] = None,
         s = "stopped" => at[c][p] = "joined",
         s # "idle" => e = of[c][p],
         s = "idle" => e = None,
         fresh[c] \subseteq Sessions,
         starting'[c] = starting[c], awaited'[c] = awaited[c], session'[c] = session[c],
         playing'[c] = playing[c], open'[c] = open[c], stopping'[c] = stopping[c],
         wanted'[c] = wanted[c], fresh'[c] = fresh[c],
         rescued' \in {rescued, None} \/ wanted[c] = rescued',
         active' => active \/ at'[c]["restart"] = "idle",
         at'[c]["recovery"] # "idle" => active',
         c = "mic" => owned' = owned \/ at'[c]["restart"] = "idle"
  PROVE  Safe(c)'
<1>b. ~StartRuns(c, p) /\ None \notin fresh[c]
  BY SessionsAssumption DEF CallsOK, StagesOK, StartRuns
<1>c. \A q \in Callers : /\ StartRuns(c, q)' => StartRuns(c, q) /\ of'[c][q] = of[c][q] /\ q # p
                         /\ of'[c][q] \in {of[c][q], None}
                         /\ at'[c][q] \in {"idle", "stopped", "pause", at[c][q]}
  BY DEF Rests, StartRuns
<1>e. at'[c]["start"] = at[c]["start"] /\ of'[c]["start"] = of[c]["start"]
  BY DEF Rests, Callers
<1>f. \/ at'[c]["stop"] = at[c]["stop"] /\ of'[c]["stop"] = of[c]["stop"]
      \/ at[c]["stop"] = "joined" /\ stopping[c] = None /\ at'[c]["stop"] \notin {"awaitStart", "joined"}
  BY DEF Rests, Callers, CallsOK, StagesOK
<1>h. at'[c]["restart"] # "idle" => at[c]["restart"] # "idle" /\ of'[c]["restart"] = of[c]["restart"]
  BY DEF Rests, Callers
<1>1. OneStart(c)'
  <2>2. ASSUME NEW q \in Callers PROVE StartRuns(c, q)' => starting'[c] = q
    BY <1>c DEF Safe, OneStart
  <2>3. ASSUME NEW q \in Callers PROVE at'[c][q] = "opening" => session'[c] = None
    BY <1>c DEF Safe, OneStart
  <2>4. ASSUME NEW q \in Callers PROVE at'[c][q] = "closing" => ~playing'[c]
    BY <1>c DEF Safe, OneStart
  <2> QED BY <2>2, <2>3, <2>4 DEF Safe, OneStart
<1>2. StopReaches(c)'
  <2>1. ASSUME NEW q \in Callers, StartRuns(c, q)'
        PROVE  \/ wanted'[c] = of'[c][q]
               \/ at'[c]["stop"] = "awaitStart" /\ awaited'[c]["stop"] = q /\ of'[c]["stop"] = of'[c][q]
    BY <1>c, <1>f, <2>1 DEF Safe, StopReaches
  <2>2. ASSUME NEW q \in Callers PROVE at'[c][q] = "joined" => stopping'[c] # None \/ session'[c] = None
    BY <1>c DEF Safe, StopReaches
  <2>3. at[c]["stop"] = "joined" /\ stopping[c] = None => session[c] = None
    BY DEF Safe, StopReaches, Callers
  <2> QED BY <1>f, <2>1, <2>2, <2>3 DEF Safe, StopReaches
<1>3. FreshIsNew(c)'
  <2>1. ASSUME NEW q \in Callers PROVE of'[c][q] \notin fresh'[c]
    BY <1>b, <1>c DEF Safe, FreshIsNew
  <2> QED BY <1>b, <1>e, <1>h, <2>1 DEF Safe, FreshIsNew, StartRuns
<1>4. RecoveryAlone(c)'
  <2>1. \/ at'[c]["recovery"] = at[c]["recovery"]
        \/ at'[c]["recovery"] = "idle"
        \/ at'[c]["recovery"] \in {"stopped", "pause"} /\ at[c]["recovery"] \notin {"idle", "awaitStart"}
    BY DEF Rests, Callers
  <2> QED BY <1>e, <1>h, <2>1 DEF Safe, RecoveryAlone
<1>5. RestartOwns(c)'
  <2>1. at'[c]["restart"] # "idle" =>
          \/ at'[c]["restart"] = at[c]["restart"]
          \/ at'[c]["restart"] = "stopped" /\ at[c]["restart"] = "joined"
          \/ at'[c]["restart"] = "pause"
    BY DEF Rests, Callers
  <2> QED BY <1>h, <2>1 DEF Safe, RestartOwns
<1> QED BY <1>1, <1>2, <1>3, <1>4, <1>5 DEF Safe

-----------------------------------------------------------------------------
(* What the operators of the code do *)

LEMMA TypesOfCalls == TypeOK => CallTypes
BY DEF TypeOK, CallTypes, Stage

\* A call that returns leaves, or goes on to what follows.
LEMMA ReturnMoves ==
  ASSUME NEW c \in Captures, NEW p \in Callers, NEW s \in Stage, NEW e \in Sessions \cup {None},
         CallTypes, Returns(c, p, s, e)
  PROVE  /\ IF p \in {"start", "stop"} THEN Moved(c, p, "idle", None) ELSE Moved(c, p, s, e)
         /\ CallTypes'
<1>1. CASE p \in {"start", "stop"}
  <2>1. Goto(c, p, "idle", None)
    BY <1>1 DEF Returns
  <2>2. "idle" \in Stage /\ None \in Sessions \cup {None}
    BY DEF Stage
  <2> QED BY <1>1, <2>1, <2>2, GotoMoves
<1>2. CASE p \notin {"start", "stop"}
  <2>1. Goto(c, p, s, e)
    BY <1>2 DEF Returns
  <2> QED BY <1>2, <2>1, GotoMoves
<1> QED BY <1>1, <1>2

\* What a start changes keeps its type.
StartTypes ==
  /\ CallTypes' /\ starting' \in [Captures -> Callers \cup {None}] /\ told' \subseteq Captures \X Sessions

\* A start that returns leaves,
LEMMA StartReturnsMoves ==
  ASSUME NEW c \in Captures, NEW p \in Callers, p # "stop", NEW e \in Sessions, NEW error \in BOOLEAN,
         TypeOK, StartReturns(c, p, e, error)
  PROVE  /\ StartLeaves(c, p, e) /\ StartTypes
         /\ told' = (IF error THEN told \cup {<<c, e>>} ELSE told \ {<<c, e>>})
         /\ \A d \in Captures : d # c => starting'[d] = starting[d]
<1>1. CallTypes /\ "started" \in Stage /\ e \in Sessions \cup {None}
  BY TypesOfCalls DEF Stage
<1>2. Returns(c, p, "started", e)
  BY DEF StartReturns
<1>3. (IF p \in {"start", "stop"} THEN Moved(c, p, "idle", None) ELSE Moved(c, p, "started", e)) /\ CallTypes'
  BY <1>1, <1>2, ReturnMoves
<1>4. starting' = [starting EXCEPT ![c] = IF @ = p THEN None ELSE @] /\ starting \in [Captures -> Callers \cup {None}]
  BY DEF StartReturns, TypeOK
<1>5. /\ told' \subseteq Captures \X Sessions
      /\ told' = (IF error THEN told \cup {<<c, e>>} ELSE told \ {<<c, e>>})
  BY DEF StartReturns, TypeOK
<1> QED BY <1>3, <1>4, <1>5 DEF StartLeaves, StartTypes

\* and one that waits stays, with its promise set.
LEMMA StartWaitsMoves ==
  ASSUME NEW c \in Captures, NEW p \in Callers, p # "stop", NEW e \in Sessions,
         NEW s \in {"awaitStop", "awaitDictation", "opening"},
         TypeOK, StartWaits(c, p, e, s)
  PROVE  /\ Moved(c, p, s, e) /\ starting'[c] = p /\ StartTypes /\ told' = told
         /\ \A d \in Captures : d # c => starting'[d] = starting[d]
<1>1. CallTypes /\ s \in Stage /\ e \in Sessions \cup {None}
  BY TypesOfCalls DEF Stage
<1>2. Goto(c, p, s, e)
  BY DEF StartWaits
<1>3. Moved(c, p, s, e) /\ CallTypes'
  BY <1>1, <1>2, GotoMoves
<1>4. starting' = [starting EXCEPT ![c] = p] /\ starting \in [Captures -> Callers \cup {None}]
  BY DEF StartWaits, TypeOK
<1>5. told' \subseteq Captures \X Sessions /\ told' = told
  BY DEF StartWaits, TypeOK
<1> QED BY <1>3, <1>4, <1>5 DEF StartTypes

\* What a start does to the budget of the system's capture.
SystemTypes ==
  /\ attempt' \in {attempt, 0} /\ pending' \in BOOLEAN /\ heard' \in BOOLEAN
  /\ last' \in Sessions \cup {None} /\ killed' \in BOOLEAN

\* What a start of p does, wherever it takes up from.
Starts(c, p, e) ==
  /\ \/ StartLeaves(c, p, e) /\ told' = told \cup {<<c, e>>}
     \/ StartStays(c, p, e) /\ told' = told
  /\ StartTypes /\ SystemTypes
  /\ \A d \in Captures : d # c => starting'[d] = starting[d]

\* The three places that it takes up from.
LEMMA TryOpenStarts ==
  ASSUME NEW c \in Captures, NEW p \in Callers, p # "stop", NEW e \in Sessions, TypeOK, TryOpen(c, p, e)
  PROVE  Starts(c, p, e)
<1>1. CASE session[c] # None
  <2>1. StartReturns(c, p, e, TRUE) /\ SystemTypes
    BY <1>1 DEF TryOpen, SystemTypes, system, TypeOK
  <2> QED BY <2>1, StartReturnsMoves DEF Starts
<1>2. CASE session[c] = None
  <2>1. StartWaits(c, p, e, "opening") /\ SystemTypes
    BY <1>2 DEF TryOpen, SystemTypes, system, TypeOK
  <2>2. Moved(c, p, "opening", e) /\ starting'[c] = p /\ StartTypes /\ told' = told
        /\ \A d \in Captures : d # c => starting'[d] = starting[d]
    BY <2>1, StartWaitsMoves
  <2> QED BY <1>2, <2>1, <2>2 DEF Starts, StartStays
<1> QED BY <1>1, <1>2

LEMMA AdmitStarts ==
  ASSUME NEW c \in Captures, NEW p \in Callers, p # "stop", NEW e \in Sessions, TypeOK, Admit(c, p, e)
  PROVE  Starts(c, p, e)
<1>1. CASE c = "mic" /\ dictating
  <2>1. StartWaits(c, p, e, "awaitDictation") /\ SystemTypes
    BY <1>1 DEF Admit, SystemTypes, system, TypeOK
  <2>2. Moved(c, p, "awaitDictation", e) /\ starting'[c] = p /\ StartTypes /\ told' = told
        /\ \A d \in Captures : d # c => starting'[d] = starting[d]
    BY <2>1, StartWaitsMoves
  <2> QED BY <1>1, <2>1, <2>2 DEF Starts, StartStays
<1>2. CASE ~(c = "mic" /\ dictating)
  BY <1>2, TryOpenStarts DEF Admit
<1> QED BY <1>1, <1>2

LEMMA StartCalledStarts ==
  ASSUME NEW c \in Captures, NEW p \in Callers, p # "stop", NEW e \in Sessions, TypeOK, StartCalled(c, p, e)
  PROVE  Starts(c, p, e)
<1>1. CASE stopping[c] # None
  <2>1. StartWaits(c, p, e, "awaitStop") /\ SystemTypes
    BY <1>1 DEF StartCalled, SystemTypes, system, TypeOK
  <2>2. Moved(c, p, "awaitStop", e) /\ starting'[c] = p /\ StartTypes /\ told' = told
        /\ \A d \in Captures : d # c => starting'[d] = starting[d]
    BY <2>1, StartWaitsMoves
  <2> QED BY <2>1, <2>2 DEF Starts, StartStays
<1>2. CASE stopping[c] = None
  BY <1>2, AdmitStarts DEF StartCalled
<1> QED BY <1>1, <1>2

\* What a stop changes keeps its type.
StopTypes == CallTypes' /\ stopping' \in [Captures -> Callers \cup {None}]

\* The two places that a stop takes up from.
LEMMA TryStopStops ==
  ASSUME NEW c \in Captures, NEW p \in Callers, p # "start", NEW e \in Sessions, TypeOK, TryStop(c, p, e)
  PROVE  /\ StopGoes(c, p, e) /\ StopTypes
         /\ \A d \in Captures : d # c => at'[d] = at[d] /\ of'[d] = of[d] /\ stopping'[d] = stopping[d]
<1>1. CallTypes /\ "stopped" \in Stage /\ "joined" \in Stage /\ "draining" \in Stage /\ e \in Sessions \cup {None}
  BY TypesOfCalls DEF Stage
<1>2. stopping \in [Captures -> Callers \cup {None}]
  BY DEF TypeOK
<1>3. CASE session[c] # e
  <2>1. Returns(c, p, "stopped", e) /\ stopping' = stopping
    BY <1>3 DEF TryStop
  <2>2. (IF p \in {"start", "stop"} THEN Moved(c, p, "idle", None) ELSE Moved(c, p, "stopped", e)) /\ CallTypes'
    BY <1>1, <2>1, ReturnMoves
  <2>3. Leaves(c, p, e)
    BY <2>2 DEF Leaves
  <2>4. \A d \in Captures : d # c => at'[d] = at[d] /\ of'[d] = of[d]
    BY <2>3 DEF Leaves, Moved
  <2> QED BY <1>2, <1>3, <2>1, <2>2, <2>3, <2>4 DEF StopGoes, StopTypes
<1>4. CASE session[c] = e /\ stopping[c] # None
  <2>1. Goto(c, p, "joined", e) /\ stopping' = stopping
    BY <1>4 DEF TryStop
  <2>2. Moved(c, p, "joined", e) /\ CallTypes'
    BY <1>1, <2>1, GotoMoves
  <2>4. \A d \in Captures : d # c => at'[d] = at[d] /\ of'[d] = of[d]
    BY <2>2 DEF Moved
  <2> QED BY <1>2, <1>4, <2>1, <2>2, <2>4 DEF StopGoes, StopTypes
<1>5. CASE session[c] = e /\ stopping[c] = None
  <2>1. Goto(c, p, "draining", e) /\ stopping' = [stopping EXCEPT ![c] = p]
    BY <1>5 DEF TryStop
  <2>2. Moved(c, p, "draining", e) /\ CallTypes'
    BY <1>1, <2>1, GotoMoves
  <2>4. \A d \in Captures : d # c => at'[d] = at[d] /\ of'[d] = of[d]
    BY <2>2 DEF Moved
  <2>5. stopping' \in [Captures -> Callers \cup {None}] /\ stopping'[c] = p
        /\ \A d \in Captures : d # c => stopping'[d] = stopping[d]
    BY <1>2, <2>1
  <2> QED BY <1>5, <2>2, <2>4, <2>5 DEF StopGoes, StopTypes
<1> QED BY <1>3, <1>4, <1>5

\* What a stop of p does when it is called.
Stops(c, p, e) ==
  /\ StopWaits(c, p, e) \/ (starting[c] = None /\ StopGoes(c, p, e))
  /\ StopTypes /\ awaited' \in [Captures -> [Callers -> Callers \cup {None}]]
  /\ \A q \in Callers : q # p => awaited'[c][q] = awaited[c][q]
  /\ \A d \in Captures : d # c => /\ at'[d] = at[d] /\ of'[d] = of[d]
                                  /\ stopping'[d] = stopping[d] /\ awaited'[d] = awaited[d]

LEMMA StopCalledStops ==
  ASSUME NEW c \in Captures, NEW p \in Callers, p # "start", NEW e \in Sessions, TypeOK, StopCalled(c, p, e)
  PROVE  Stops(c, p, e)
<1>0. awaited' = [awaited EXCEPT ![c][p] = starting[c]] /\ starting[c] \in Callers \cup {None}
      /\ awaited \in [Captures -> [Callers -> Callers \cup {None}]]
  BY DEF StopCalled, TypeOK
<1>a. /\ awaited' \in [Captures -> [Callers -> Callers \cup {None}]]
      /\ awaited'[c][p] = starting[c]
      /\ \A q \in Callers : q # p => awaited'[c][q] = awaited[c][q]
      /\ \A d \in Captures : d # c => awaited'[d] = awaited[d]
  BY <1>0
<1>1. CASE starting[c] # None
  <2>1. CallTypes /\ "awaitStart" \in Stage /\ e \in Sessions \cup {None} /\ starting[c] \in Callers
    BY <1>0, <1>1, TypesOfCalls DEF Stage
  <2>2. Goto(c, p, "awaitStart", e) /\ stopping' = stopping
    BY <1>1 DEF StopCalled
  <2>3. Moved(c, p, "awaitStart", e) /\ CallTypes'
    BY <2>1, <2>2, GotoMoves
  <2>4. stopping \in [Captures -> Callers \cup {None}]
    BY DEF TypeOK
  <2>5. StopWaits(c, p, e) /\ StopTypes
    BY <1>a, <2>1, <2>2, <2>3, <2>4 DEF StopWaits, StopTypes
  <2>6. \A d \in Captures : d # c => at'[d] = at[d] /\ of'[d] = of[d]
    BY <2>3 DEF Moved
  <2> QED BY <1>a, <2>2, <2>5, <2>6 DEF Stops
<1>2. CASE starting[c] = None
  <2>1. TryStop(c, p, e)
    BY <1>2 DEF StopCalled
  <2> QED BY <1>a, <1>2, <2>1, TryStopStops DEF Stops
<1> QED BY <1>1, <1>2

\* An action of one capture leaves the other as it was.
LEMMA OneCapture ==
  ASSUME IInv, TypeOK', RecoveryOK', contested \subseteq contested', NEW c \in Captures,
         CallsOK(c)', StreamOK(c)', c \notin contested' => Safe(c)',
         \A d \in Captures : d # c => Untouched(d),
         \A d \in Captures : d # c => at[d]["recovery"] = "idle" \/ (phase' = phase /\ rescued' = rescued),
         rescued' \in {rescued, None}, active' => active,
         \A d \in Captures : d # c /\ d \notin contested' /\ at[d]["recovery"] # "idle" => active',
         c = "mic" \/ owned' = owned
  PROVE  IInv'
<1>1. ASSUME NEW d \in Captures PROVE CallsOK(d)' /\ StreamOK(d)' /\ (d \in contested' \/ Safe(d)')
  <2>1. CASE d = c
    BY <2>1
  <2>2. CASE d # c
    <3>1. CallsOK(d) /\ StreamOK(d) /\ Untouched(d)
      BY <2>2 DEF IInv
    <3>2. CallsOK(d)' /\ StreamOK(d)'
      BY <2>2, <3>1, FrameCalls
    <3>3. ASSUME d \notin contested' PROVE Safe(d)'
      <4>1. Safe(d)
        BY <3>3 DEF IInv
      <4>2. at[d]["recovery"] # "idle" => active'
        BY <2>2, <3>3
      <4>3. d = "mic" => owned' = owned
        BY <2>2 DEF Captures
      <4> QED BY <3>1, <4>1, <4>2, <4>3, FrameSafe
    <3> QED BY <3>2, <3>3
  <2> QED BY <2>1, <2>2
<1> QED BY <1>1 DEF IInv

-----------------------------------------------------------------------------
(* The actions keep the first invariant *)

\* A start keeps the invariant.
LEMMA StartKeeps ==
  ASSUME IInv, NEW c \in Captures, NEW p \in Callers, p # "stop", NEW e \in Sessions, Starts(c, p, e),
         at[c][p] \in {"awaitStop", "awaitDictation", "stopped"}, of[c][p] = e,
         c \notin contested /\ at[c][p] = "stopped" => wanted[c] = e /\ \A q \in Callers : ~StartRuns(c, q),
         UNCHANGED <<main, awaited, capture, stopping, owned, loop, recovery, dictating, contested>>
  PROVE  IInv'
<1>1. TypeOK /\ RecoveryOK /\ CallsOK(c) /\ StreamOK(c) /\ fresh[c] \subseteq Sessions
  BY DEF IInv, TypeOK
<1>2. Beside(c) /\ wanted' = wanted /\ fresh' = fresh /\ rescued' = rescued /\ phase' = phase
      /\ active' = active /\ owned' = owned /\ contested' = contested
  BY DEF Beside, main, capture, recovery
<1>3. StartLeaves(c, p, e) \/ StartStays(c, p, e)
  BY DEF Starts
<1>4. CallsOK(c)' /\ StreamOK(c)'
  <2>1. p = "recovery" => phase = c /\ e = rescued
    BY <1>1 DEF CallsOK
  <2> QED BY <1>1, <1>2, <1>3, <2>1, StartCalls
<1>5. ASSUME c \notin contested' PROVE Safe(c)'
  <2>1. Safe(c)
    BY <1>2, <1>5 DEF IInv
  <2> QED BY <1>1, <1>2, <1>3, <1>5, <2>1, StartSafe
<1>6. TypeOK'
  <2>1. /\ enabled' = enabled /\ wanted' = wanted /\ fresh' = fresh /\ awaited' = awaited
        /\ session' = session /\ playing' = playing /\ open' = open /\ stopping' = stopping
        /\ owned' = owned /\ loop' = loop /\ rescued' = rescued /\ phase' = phase /\ active' = active
        /\ retried' = retried /\ dictating' = dictating /\ contested' = contested
    BY DEF main, capture, recovery
  <2>2. attempt' \in 0 .. MaxAttempts
    BY <1>1, AttemptsAssumption DEF TypeOK, Starts, SystemTypes
  <2> QED BY <1>1, <2>1, <2>2 DEF TypeOK, Starts, StartTypes, SystemTypes, CallTypes, Stage
<1>7. \A d \in Captures : d # c => at'[d] = at[d] /\ of'[d] = of[d]
  BY <1>3 DEF StartLeaves, StartStays, Moved
<1>8. \A d \in Captures : d # c => Untouched(d)
  BY <1>2, <1>7 DEF Untouched, Starts, capture
<1>9. RecoveryOK'
  <2>1. at'["system"]["restart"] = "backoff" => at["system"]["restart"] = "backoff"
    BY <1>3, <1>7 DEF StartLeaves, StartStays, Moved, Callers, Captures
  <2>2. attempt' \in {attempt, 0} /\ 0 < MaxAttempts
    BY AttemptsAssumption DEF Starts, SystemTypes
  <2> QED BY <1>1, <1>2, <2>1, <2>2 DEF RecoveryOK
<1>10. \A d \in Captures : d # c /\ d \notin contested' /\ at[d]["recovery"] # "idle" => active'
  BY <1>2 DEF IInv, Safe, RecoveryAlone
<1> QED BY <1>1, <1>2, <1>4, <1>5, <1>6, <1>8, <1>9, <1>10, OneCapture

LEMMA StopAwaitedKeeps ==
  ASSUME IInv, NEW c \in Captures, NEW p \in Callers, StopAwaited(c, p) PROVE IInv'
<1>1. p # "stop" /\ of[c][p] \in Sessions /\ TypeOK
  BY DEF IInv, CallsOK, StagesOK, StopAwaited
<1>2. Starts(c, p, of[c][p])
  BY <1>1, AdmitStarts DEF StopAwaited
<1> QED BY <1>1, <1>2, StartKeeps DEF StopAwaited

LEMMA DictationAwaitedKeeps ==
  ASSUME IInv, NEW c \in Captures, NEW p \in Callers, DictationAwaited(c, p) PROVE IInv'
<1>1. p # "stop" /\ of[c][p] \in Sessions /\ TypeOK
  BY DEF IInv, CallsOK, StagesOK, DictationAwaited
<1>2. Starts(c, p, of[c][p])
  <2>1. CASE dictating
    <3>1. StartReturns(c, p, of[c][p], TRUE) /\ SystemTypes
      BY <1>1, <2>1 DEF DictationAwaited, SystemTypes, system, TypeOK
    <3> QED BY <1>1, <3>1, StartReturnsMoves DEF Starts
  <2>2. CASE ~dictating
    BY <1>1, <2>2, TryOpenStarts DEF DictationAwaited
  <2> QED BY <2>1, <2>2
<1> QED BY <1>1, <1>2, StartKeeps DEF DictationAwaited

LEMMA OpenKeeps ==
  ASSUME IInv, NEW c \in Captures, NEW p \in Callers, Opened(c, p) \/ OpenFails(c, p) PROVE IInv'
<1> DEFINE e == of[c][p]
<1>1. TypeOK /\ RecoveryOK /\ CallsOK(c) /\ StreamOK(c) /\ fresh[c] \subseteq Sessions /\ open[c] \in Nat
  BY DEF IInv, TypeOK
<1>2. p # "stop" /\ e \in Sessions /\ at[c][p] = "opening" /\ Quiescent
  BY <1>1 DEF CallsOK, StagesOK, Opened, OpenFails
<1>3. /\ awaited' = awaited /\ stopping' = stopping /\ wanted' = wanted /\ fresh' = fresh /\ owned' = owned
      /\ rescued' = rescued /\ phase' = phase /\ active' = active /\ contested' = contested
  BY DEF Opened, OpenFails, main, recovery
<1>4. /\ session' \in [Captures -> Sessions \cup {None}] /\ playing' \in [Captures -> BOOLEAN]
      /\ open' \in [Captures -> Nat]
      /\ \A d \in Captures : d # c => session'[d] = session[d] /\ playing'[d] = playing[d] /\ open'[d] = open[d]
      /\ \/ session'[c] = e /\ playing'[c] = TRUE /\ open'[c] = open[c] + 1
         \/ session'[c] = None /\ playing'[c] = FALSE /\ open'[c] = open[c]
  <2>1. CASE Opened(c, p)
    BY <1>1, <1>2, <2>1 DEF Opened, TypeOK
  <2>2. CASE OpenFails(c, p)
    BY <1>1, <1>2, <2>2 DEF OpenFails, TypeOK
  <2> QED BY <2>1, <2>2
<1>5. /\ StartLeaves(c, p, e) /\ StartTypes
      /\ \A d \in Captures : d # c => starting'[d] = starting[d]
  BY <1>1, <1>2, StartReturnsMoves DEF Opened, OpenFails
<1> HIDE DEF e
<1>6. CallsOK(c)' /\ StreamOK(c)'
  <2>1. of[c][p] = e
    BY DEF e
  <2> QED BY <1>1, <1>2, <1>3, <1>4, <1>5, <2>1, OpenCalls
<1>7. ASSUME c \notin contested' PROVE Safe(c)'
  <2>1. Safe(c)
    BY <1>3, <1>7 DEF IInv
  <2>2. \A q \in Callers : ~Continues(c, q)
    BY <1>2 DEF Quiescent
  <2>3. of[c][p] = e
    BY DEF e
  <2> QED BY <1>1, <1>2, <1>3, <1>4, <1>5, <2>1, <2>2, <2>3, OpenSafe
<1>8. TypeOK'
  <2>1. /\ enabled' = enabled /\ loop' = loop /\ attempt' = attempt /\ pending' = pending
        /\ heard' = heard /\ last' = last /\ retried' = retried /\ killed' = killed /\ dictating' = dictating
    BY DEF Opened, OpenFails, main, recovery, system
  <2> QED BY <1>1, <1>3, <1>4, <1>5, <2>1 DEF TypeOK, StartTypes, CallTypes, Stage
<1>9. \A d \in Captures : d # c => at'[d] = at[d] /\ of'[d] = of[d]
  BY <1>5 DEF StartLeaves, Moved
<1>10. \A d \in Captures : d # c => Untouched(d)
  BY <1>3, <1>4, <1>5, <1>9 DEF Untouched
<1>11. RecoveryOK'
  <2>1. at'["system"]["restart"] = "backoff" => at["system"]["restart"] = "backoff"
    BY <1>5, <1>9 DEF StartLeaves, Moved, Callers, Captures
  <2>2. attempt' = attempt
    BY DEF Opened, OpenFails, system
  <2> QED BY <1>1, <1>3, <2>1, <2>2 DEF RecoveryOK
<1>12. \A d \in Captures : d # c /\ d \notin contested' /\ at[d]["recovery"] # "idle" => active'
  BY <1>3 DEF IInv, Safe, RecoveryAlone
<1> QED BY <1>1, <1>3, <1>6, <1>7, <1>8, <1>10, <1>11, <1>12, OneCapture

LEMMA StartAwaitedKeeps ==
  ASSUME IInv, NEW c \in Captures, NEW p \in Callers, StartAwaited(c, p) PROVE IInv'
<1> DEFINE e == of[c][p]
<1>1. TypeOK /\ RecoveryOK /\ CallsOK(c) /\ StreamOK(c) /\ fresh[c] \subseteq Sessions
  BY DEF IInv, TypeOK
<1>2. p # "start" /\ e \in Sessions /\ at[c][p] = "awaitStart" /\ ~StartRuns(c, awaited[c][p])
      /\ awaited[c][p] \in Callers
  BY <1>1 DEF CallsOK, StagesOK, StartAwaited
<1>3. /\ starting' = starting /\ wanted' = wanted /\ fresh' = fresh /\ owned' = owned
      /\ session' = session /\ playing' = playing /\ open' = open
      /\ rescued' = rescued /\ phase' = phase /\ active' = active /\ contested' = contested
  BY DEF StartAwaited, main, capture, recovery
<1>4. /\ StopGoes(c, p, e) /\ StopTypes
      /\ \A d \in Captures : d # c => at'[d] = at[d] /\ of'[d] = of[d] /\ stopping'[d] = stopping[d]
  BY <1>1, <1>2, TryStopStops DEF StartAwaited
<1>5. /\ awaited' \in [Captures -> [Callers -> Callers \cup {None}]]
      /\ \A q \in Callers : q # p => awaited'[c][q] = awaited[c][q]
      /\ \A d \in Captures : d # c => awaited'[d] = awaited[d]
  BY <1>1 DEF StartAwaited, TypeOK
<1>6. Aside(c, p) /\ ~StartRuns(c, p)
  BY <1>2, <1>3, <1>5 DEF Aside, StartRuns
<1>a. of[c][p] = e
  OBVIOUS
<1> HIDE DEF e
<1>7. CallsOK(c)' /\ StreamOK(c)'
  <2>1. p = "recovery" => phase = c /\ e = rescued
    BY <1>1, <1>2, <1>a DEF CallsOK
  <2> QED BY <1>1, <1>2, <1>3, <1>4, <1>6, <2>1, StopCalls
<1>8. ASSUME c \notin contested' PROVE Safe(c)'
  <2>1. Safe(c)
    BY <1>3, <1>8 DEF IInv
  <2>2. CASE p = "stop"
    BY <1>1, <1>2, <1>3, <1>4, <1>6, <1>a, <2>1, <2>2, AwaitedStopSafe
  <2>3. CASE p # "stop"
    <3>1. p \in {"restart", "recovery"} /\ e \notin fresh[c]
      BY <1>2, <1>a, <2>1, <2>3 DEF Callers, Safe, FreshIsNew
    <3>2. p = "recovery" => active /\ at[c]["start"] = "idle"
      BY <1>1, <1>2, <2>1 DEF Safe, RecoveryAlone, CallsOK, StagesOK, StartRuns
    <3>3. c = "mic" /\ p = "restart" /\ owned' = e => wanted[c] = e
      BY <1>2, <1>3, <1>a, <2>1 DEF Safe, RestartOwns
    <3>4. ~(c = "system" /\ p = "restart")
      BY <1>2, <2>1 DEF Safe, RestartOwns
    <3> QED BY <1>1, <1>2, <1>3, <1>4, <1>6, <1>a, <2>1, <3>1, <3>2, <3>3, <3>4, StopSafe
  <2> QED BY <2>2, <2>3
<1>9. TypeOK'
  BY <1>1, <1>3, <1>4, <1>5 DEF TypeOK, StopTypes, CallTypes, Stage, StartAwaited, main, recovery, system
<1>10. \A d \in Captures : d # c => Untouched(d)
  BY <1>3, <1>4, <1>5 DEF Untouched
<1>11. RecoveryOK'
  <2>1. at'["system"]["restart"] = "backoff" => at["system"]["restart"] = "backoff"
    BY <1>4 DEF StopGoes, Leaves, Moved, Callers, Captures
  <2>2. attempt' = attempt
    BY DEF StartAwaited, system
  <2> QED BY <1>1, <1>3, <2>1, <2>2 DEF RecoveryOK
<1>12. \A d \in Captures : d # c /\ d \notin contested' /\ at[d]["recovery"] # "idle" => active'
  BY <1>3 DEF IInv, Safe, RecoveryAlone
<1> QED BY <1>1, <1>3, <1>7, <1>8, <1>9, <1>10, <1>11, <1>12, OneCapture

\* The steps of a stop keep the invariant.
LEMMA DrainedKeeps ==
  ASSUME IInv, NEW c \in Captures, NEW p \in Callers, Drained(c, p) PROVE IInv'
<1>1. TypeOK /\ RecoveryOK /\ CallsOK(c) /\ StreamOK(c)
  BY DEF IInv
<1>2. at[c][p] = "draining" /\ Goto(c, p, "closing", of[c][p]) /\ of[c][p] \in Sessions \cup {None}
  BY <1>1 DEF Drained, TypeOK
<1>3. /\ starting' = starting /\ awaited' = awaited /\ stopping' = stopping /\ session' = session
      /\ wanted' = wanted /\ fresh' = fresh /\ owned' = owned
      /\ rescued' = rescued /\ phase' = phase /\ active' = active /\ contested' = contested
  BY DEF Drained, main, recovery
<1>4. Moved(c, p, "closing", of[c][p]) /\ CallTypes'
  <2>1. "closing" \in Stage /\ CallTypes
    BY <1>1, TypesOfCalls DEF Stage
  <2> QED BY <1>2, <2>1, GotoMoves
<1>5. /\ playing' \in [Captures -> BOOLEAN] /\ open' \in [Captures -> Nat]
      /\ playing'[c] = FALSE /\ open'[c] = IF playing[c] THEN open[c] - 1 ELSE open[c]
      /\ \A d \in Captures : d # c => playing'[d] = playing[d] /\ open'[d] = open[d]
  <2>1. playing[c] => open[c] - 1 \in Nat
    BY <1>1 DEF StreamOK, TypeOK
  <2>2. playing' \in [Captures -> BOOLEAN] /\ open' \in [Captures -> Nat]
    BY <1>1, <2>1 DEF Drained, TypeOK
  <2> QED BY <1>1, <2>2 DEF Drained, TypeOK
<1>6. CallsOK(c)' /\ StreamOK(c)'
  BY <1>1, <1>2, <1>3, <1>4, <1>5, DrainCalls
<1>7. ASSUME c \notin contested' PROVE Safe(c)'
  <2>1. Safe(c)
    BY <1>3, <1>7 DEF IInv
  <2> QED BY <1>1, <1>2, <1>3, <1>4, <1>5, <2>1, DrainSafe
<1>8. TypeOK'
  <2>1. /\ enabled' = enabled /\ loop' = loop /\ attempt' = attempt /\ pending' = pending /\ told' = told
        /\ heard' = heard /\ last' = last /\ retried' = retried /\ killed' = killed /\ dictating' = dictating
    BY DEF Drained, main, recovery, system
  <2> QED BY <1>1, <1>3, <1>4, <1>5, <2>1 DEF TypeOK, CallTypes, Stage
<1>10. \A d \in Captures : d # c => Untouched(d)
  BY <1>3, <1>4, <1>5 DEF Untouched, Moved
<1>11. RecoveryOK'
  <2>1. at'["system"]["restart"] = "backoff" => at["system"]["restart"] = "backoff"
    BY <1>4 DEF Moved, Callers, Captures
  <2>2. attempt' = attempt
    BY DEF Drained, system
  <2> QED BY <1>1, <1>3, <2>1, <2>2 DEF RecoveryOK
<1>12. \A d \in Captures : d # c /\ d \notin contested' /\ at[d]["recovery"] # "idle" => active'
  BY <1>3 DEF IInv, Safe, RecoveryAlone
<1> QED BY <1>1, <1>3, <1>6, <1>7, <1>8, <1>10, <1>11, <1>12, OneCapture

\* What the closing of a capture changes and leaves alone.
LEMMA ClosesTypes ==
  ASSUME TypeOK, NEW c \in Captures, Closes(c)
  PROVE  /\ starting' = starting /\ awaited' = awaited /\ open' = open /\ wanted' = wanted /\ fresh' = fresh
         /\ owned' = owned /\ rescued' = rescued /\ phase' = phase /\ enabled' = enabled /\ loop' = loop
         /\ told' = told /\ last' = last /\ retried' = retried /\ dictating' = dictating
         /\ session' \in [Captures -> Sessions \cup {None}] /\ playing' \in [Captures -> BOOLEAN]
         /\ stopping' \in [Captures -> Callers \cup {None}]
         /\ session'[c] = None /\ playing'[c] = FALSE /\ stopping'[c] = None
         /\ \A d \in Captures : d # c =>
              session'[d] = session[d] /\ playing'[d] = playing[d] /\ stopping'[d] = stopping[d]
<1>1. /\ session' = [session EXCEPT ![c] = None] /\ playing' = [playing EXCEPT ![c] = FALSE]
      /\ stopping' = [stopping EXCEPT ![c] = None]
      /\ UNCHANGED <<main, told, awaited, open, starting, owned, loop, last, rescued, phase, retried, dictating>>
  BY DEF Closes
<1>2. /\ session \in [Captures -> Sessions \cup {None}] /\ playing \in [Captures -> BOOLEAN]
      /\ stopping \in [Captures -> Callers \cup {None}]
  BY DEF TypeOK
<1> QED BY <1>1, <1>2 DEF main

LEMMA ClosedKeeps ==
  ASSUME IInv, NEW c \in Captures, NEW p \in Callers, Closed(c, p) PROVE IInv'
<1>1. TypeOK /\ RecoveryOK /\ CallsOK(c) /\ StreamOK(c) /\ fresh[c] \subseteq Sessions
  BY DEF IInv, TypeOK
<1>2. /\ at[c][p] = "closing" /\ ~(c = "system" /\ p = "stop") /\ Closes(c) /\ Returns(c, p, "stopped", of[c][p])
      /\ active' = active /\ contested' = contested /\ attempt' = attempt /\ pending' = pending
      /\ heard' = heard /\ killed' = killed
  BY DEF Closed
<1>3. p # "start" /\ of[c][p] \in Sessions /\ stopping[c] = p
  BY <1>1, <1>2 DEF CallsOK, StagesOK
<1>4. Leaves(c, p, of[c][p]) /\ CallTypes'
  <2>1. "stopped" \in Stage /\ CallTypes /\ of[c][p] \in Sessions \cup {None}
    BY <1>1, <1>3, TypesOfCalls DEF Stage
  <2> QED BY <1>2, <1>3, <2>1, ReturnMoves DEF Leaves
<1>5. PICK s \in {"idle", "stopped"}, e \in Sessions \cup {None} :
        /\ Rests(c, p, s, e)
        /\ s = "stopped" => e = of[c][p] /\ p # "stop"
        /\ s = "idle" => e = None /\ p = "stop"
  BY <1>3, <1>4 DEF Leaves, Moved, Rests
<1>6. CallsOK(c)' /\ StreamOK(c)'
  <2>1. ~StartRuns(c, p)
    BY <1>2 DEF StartRuns
  <2>2. s \in {"idle", "stopped", "pause"} /\ s # "pause" /\ at[c][p] # "idle"
    BY <1>2
  <2>3. starting'[c] = starting[c] /\ awaited'[c] = awaited[c] /\ rescued' = rescued /\ phase' = phase
    BY <1>1, <1>2, ClosesTypes
  <2>4. stopping'[c] = IF stopping[c] = p THEN None ELSE stopping[c]
    BY <1>1, <1>2, <1>3, ClosesTypes
  <2>5. CallsOK(c)'
    BY <1>1, <1>3, <1>5, <2>1, <2>2, <2>3, <2>4, RestCalls
  <2>6. playing'[c] = FALSE
    BY <1>1, <1>2, ClosesTypes
  <2> QED BY <2>5, <2>6 DEF StreamOK
<1>7. ASSUME c \notin contested' PROVE Safe(c)'
  <2>1. Safe(c)
    BY <1>2, <1>7 DEF IInv
  <2>2. c = "system" => at'[c]["restart"] # "backoff"
    <3>1. CASE p = "restart"
      BY <1>4, <3>1 DEF Leaves, Moved
    <3>2. CASE p # "restart" /\ c = "system"
      <4>1. p = "recovery"
        BY <1>2, <1>3, <3>2 DEF Callers
      <4>2. at[c]["restart"] = "idle"
        BY <1>2, <2>1, <4>1 DEF Safe, RecoveryAlone
      <4> QED BY <1>4, <3>2, <4>2 DEF Leaves, Moved, Callers
    <3> QED BY <3>1, <3>2
  <2>3. active' => active
    BY <1>2
  <2>4. at'[c]["recovery"] # "idle" => active'
    <3>1. at'[c]["recovery"] # "idle" => at[c]["recovery"] # "idle"
      BY <1>2, <1>5 DEF Rests, Callers
    <3> QED BY <1>2, <2>1, <3>1 DEF Safe, RecoveryAlone
  <2>5. /\ starting' = starting /\ awaited' = awaited /\ open' = open /\ wanted' = wanted /\ fresh' = fresh
        /\ owned' = owned /\ rescued' = rescued
        /\ session'[c] = None /\ playing'[c] = FALSE /\ stopping'[c] = None
    BY <1>1, <1>2, ClosesTypes
  <2> QED BY <1>1, <1>2, <1>5, <2>1, <2>2, <2>3, <2>4, <2>5, CloseSafe
<1>8. TypeOK'
  BY <1>1, <1>2, <1>4, ClosesTypes DEF TypeOK, CallTypes, Stage
<1>10. \A d \in Captures : d # c => Untouched(d)
  <2>1. \A d \in Captures : d # c => at'[d] = at[d] /\ of'[d] = of[d]
    BY <1>4 DEF Leaves, Moved
  <2> QED BY <1>1, <1>2, <2>1, ClosesTypes DEF Untouched
<1>11. RecoveryOK'
  <2>1. at'["system"]["restart"] = "backoff" => at["system"]["restart"] = "backoff"
    BY <1>4 DEF Leaves, Moved, Callers, Captures
  <2>2. rescued' = rescued /\ phase' = phase
    BY <1>1, <1>2, ClosesTypes
  <2> QED BY <1>1, <1>2, <2>1, <2>2 DEF RecoveryOK
<1>12. \A d \in Captures : d # c /\ d \notin contested' /\ at[d]["recovery"] # "idle" => active'
  BY <1>2 DEF IInv, Safe, RecoveryAlone
<1>13. rescued' = rescued /\ phase' = phase /\ owned' = owned
  BY <1>1, <1>2, ClosesTypes
<1> QED BY <1>1, <1>2, <1>6, <1>7, <1>8, <1>10, <1>11, <1>12, <1>13, OneCapture

LEMMA SystemClosedKeeps ==
  ASSUME IInv, SystemClosed PROVE IInv'
<1> DEFINE c == "system"
           over == {"stop"} \cup (IF at["system"]["restart"] = "backoff" THEN {"restart"} ELSE {})
<1>0. c \in Captures /\ "stop" \in Callers
  BY DEF Captures, Callers
<1>1. TypeOK /\ RecoveryOK /\ CallsOK(c) /\ StreamOK(c) /\ fresh[c] \subseteq Sessions
  BY <1>0 DEF IInv, TypeOK
<1>2. /\ at[c]["stop"] = "closing" /\ Closes(c)
      /\ active' = FALSE
      /\ contested' = (IF active THEN contested \cup (Captures \cap {phase}) ELSE contested)
      /\ attempt' = 0 /\ pending' = FALSE /\ heard' = FALSE /\ killed' = FALSE
  BY DEF SystemClosed, Abandons
<1>3. /\ at' = [at EXCEPT !["system"] = [p \in Callers |-> IF p \in over THEN "idle" ELSE @[p]]]
      /\ of' = [of EXCEPT !["system"] = [p \in Callers |-> IF p \in over THEN None ELSE @[p]]]
  BY DEF SystemClosed
<1>4. CallTypes'
  BY <1>0, <1>1, <1>3, TypesOfCalls DEF CallTypes, Stage
<1>5. \A d \in Captures : d # c => at'[d] = at[d] /\ of'[d] = of[d]
  BY <1>0, <1>1, <1>3 DEF TypeOK
<1>6. Rests(c, "stop", "idle", None) /\ at'[c]["restart"] # "backoff"
  <2>1. \A q \in Callers : /\ at'[c][q] = IF q \in over THEN "idle" ELSE at[c][q]
                           /\ of'[c][q] = IF q \in over THEN None ELSE of[c][q]
    BY <1>0, <1>1, <1>3 DEF TypeOK
  <2> QED BY <1>0, <2>1 DEF Rests, Callers
<1> HIDE DEF c, over
<1>7. /\ starting' = starting /\ awaited' = awaited /\ open' = open /\ wanted' = wanted /\ fresh' = fresh
      /\ owned' = owned /\ rescued' = rescued /\ phase' = phase
      /\ session'[c] = None /\ playing'[c] = FALSE /\ stopping'[c] = None
  BY <1>0, <1>1, <1>2, ClosesTypes
<1>8. CallsOK(c)' /\ StreamOK(c)'
  <2>1. stopping'[c] = IF stopping[c] = "stop" THEN None ELSE stopping[c]
    BY <1>0, <1>1, <1>2, <1>7 DEF CallsOK
  <2>2. ~StartRuns(c, "stop")
    BY <1>2 DEF StartRuns
  <2>3. CallsOK(c)'
    BY <1>0, <1>1, <1>6, <1>7, <2>1, <2>2, RestCalls
  <2> QED BY <1>7, <2>3 DEF StreamOK
<1>9. \A d \in Captures : d \notin contested' /\ at[d]["recovery"] # "idle" => active'
  <2>1. ASSUME NEW d \in Captures, d \notin contested', at[d]["recovery"] # "idle" PROVE FALSE
    <3>1. phase = d /\ Safe(d)
      BY <1>2, <2>1 DEF IInv, CallsOK
    <3> QED BY <1>2, <2>1, <3>1 DEF Safe, RecoveryAlone
  <2> QED BY <2>1
<1>10. ASSUME c \notin contested' PROVE Safe(c)'
  <2>1. Safe(c)
    BY <1>0, <1>2, <1>10 DEF IInv
  <2>2. at'[c]["recovery"] # "idle" => active'
    BY <1>0, <1>6, <1>9, <1>10 DEF Rests, Callers
  <2> QED BY <1>0, <1>1, <1>2, <1>6, <1>7, <2>1, <2>2, CloseSafe
<1>11. TypeOK'
  <2>1. 0 \in 0 .. MaxAttempts /\ contested' \subseteq Captures
    BY <1>1, <1>2, AttemptsAssumption DEF TypeOK
  <2> QED BY <1>0, <1>1, <1>2, <1>4, <2>1, ClosesTypes DEF TypeOK, CallTypes, Stage
<1>12. \A d \in Captures : d # c => Untouched(d)
  BY <1>0, <1>1, <1>2, <1>5, ClosesTypes DEF Untouched
<1>13. RecoveryOK'
  BY <1>1, <1>2, <1>6, <1>7 DEF RecoveryOK, c
<1>14. contested \subseteq contested'
  BY <1>2
<1> QED BY <1>0, <1>1, <1>2, <1>7, <1>8, <1>9, <1>10, <1>11, <1>12, <1>13, <1>14, OneCapture

LEMMA JoinReturnsKeeps ==
  ASSUME IInv, NEW c \in Captures, NEW p \in Callers, JoinReturns(c, p) PROVE IInv'
<1>1. TypeOK /\ RecoveryOK /\ CallsOK(c) /\ StreamOK(c) /\ fresh[c] \subseteq Sessions
  BY DEF IInv, TypeOK
<1>2. at[c][p] = "joined" /\ stopping[c] = None /\ Returns(c, p, "stopped", of[c][p])
  BY DEF JoinReturns
<1>3. p # "start" /\ of[c][p] \in Sessions
  BY <1>1, <1>2 DEF CallsOK, StagesOK
<1>u. /\ enabled' = enabled /\ wanted' = wanted /\ fresh' = fresh /\ told' = told /\ awaited' = awaited
      /\ session' = session /\ playing' = playing /\ open' = open /\ starting' = starting
      /\ stopping' = stopping /\ owned' = owned /\ loop' = loop /\ attempt' = attempt
      /\ pending' = pending /\ heard' = heard /\ last' = last /\ rescued' = rescued /\ phase' = phase
      /\ active' = active /\ retried' = retried /\ killed' = killed /\ dictating' = dictating
      /\ contested' = contested
  BY DEF JoinReturns, main, capture, system, recovery
<1>4. Leaves(c, p, of[c][p]) /\ CallTypes'
  <2>1. "stopped" \in Stage /\ CallTypes /\ of[c][p] \in Sessions \cup {None}
    BY <1>1, <1>3, TypesOfCalls DEF Stage
  <2> QED BY <1>2, <1>3, <2>1, ReturnMoves DEF Leaves
<1>5. PICK s \in {"idle", "stopped", "pause"}, e \in Sessions \cup {None} :
        /\ Rests(c, p, s, e) /\ s # "pause"
        /\ s = "stopped" => e = of[c][p] /\ p # "stop"
        /\ s = "idle" => e = None
  BY <1>3, <1>4 DEF Leaves, Moved, Rests
<1>6. CallsOK(c)' /\ StreamOK(c)'
  <2>1. ~StartRuns(c, p)
    BY <1>2 DEF StartRuns
  <2>2. stopping'[c] = IF stopping[c] = p THEN None ELSE stopping[c]
    BY <1>2, <1>u
  <2>3. s # "idle" => at[c][p] # "idle" /\ e = of[c][p] /\ p # "stop"
    BY <1>2, <1>5
  <2>5. CallsOK(c)'
    BY <1>1, <1>3, <1>5, <1>u, <2>1, <2>2, <2>3, RestCalls
  <2> QED BY <1>1, <1>u, <2>5 DEF StreamOK
<1>7. ASSUME c \notin contested' PROVE Safe(c)'
  <2>1. Safe(c)
    BY <1>u, <1>7 DEF IInv
  <2>2. s # "idle" => s = "stopped" /\ e = of[c][p]
    BY <1>5
  <2>4. at'[c]["recovery"] # "idle" => active'
    <3>1. at'[c]["recovery"] # "idle" => at[c]["recovery"] # "idle"
      BY <1>2, <1>5 DEF Rests, Callers
    <3> QED BY <1>u, <2>1, <3>1 DEF Safe, RecoveryAlone
  <2> QED BY <1>1, <1>2, <1>3, <1>5, <1>u, <2>1, <2>2, <2>4, RestSafe
<1>8. TypeOK'
  BY <1>1, <1>4, <1>u DEF TypeOK, CallTypes, Stage
<1>10. \A d \in Captures : d # c => Untouched(d)
  BY <1>4, <1>u DEF Leaves, Moved, Untouched
<1>11. RecoveryOK'
  <2>1. at'["system"]["restart"] = "backoff" => at["system"]["restart"] = "backoff"
    BY <1>4 DEF Leaves, Moved, Callers, Captures
  <2> QED BY <1>1, <1>u, <2>1 DEF RecoveryOK
<1>12. \A d \in Captures : d # c /\ d \notin contested' /\ at[d]["recovery"] # "idle" => active'
  BY <1>u DEF IInv, Safe, RecoveryAlone
<1> QED BY <1>1, <1>6, <1>7, <1>8, <1>10, <1>11, <1>12, <1>u, OneCapture

\* The messages of the main process keep the invariant.
LEMMA MainStartsKeeps ==
  ASSUME IInv, NEW c \in Captures, NEW e \in Sessions, MainStarts(c, e) PROVE IInv'
<1>1. TypeOK /\ RecoveryOK /\ CallsOK(c) /\ StreamOK(c) /\ fresh[c] \subseteq Sessions
  BY DEF IInv, TypeOK
<1>2. /\ wanted[c] = None /\ e \in fresh[c] /\ at[c]["start"] = "idle" /\ at[c]["stop"] # "awaitStart"
      /\ c \notin contested /\ wanted' = [wanted EXCEPT ![c] = e]
      /\ fresh' = [fresh EXCEPT ![c] = @ \ {e}] /\ StartCalled(c, "start", e)
  BY DEF MainStarts
<1>u. /\ enabled' = enabled /\ awaited' = awaited
      /\ session' = session /\ playing' = playing /\ open' = open /\ stopping' = stopping
      /\ owned' = owned /\ loop' = loop /\ rescued' = rescued /\ phase' = phase
      /\ active' = active /\ retried' = retried /\ dictating' = dictating /\ contested' = contested
  BY DEF MainStarts, capture, recovery
<1>3. "start" \in Callers /\ "start" # "stop" /\ "start" # "recovery"
  BY DEF Callers
<1>4. Starts(c, "start", e)
  BY <1>1, <1>2, <1>3, StartCalledStarts
<1>5. (StartLeaves(c, "start", e) \/ StartStays(c, "start", e)) /\ Beside(c)
  BY <1>4, <1>u DEF Starts, Beside
<1>6. Safe(c)
  BY <1>2 DEF IInv
<1>7. rescued = None /\ at[c]["recovery"] = "idle"
  BY <1>1, <1>2, <1>6 DEF Safe, RecoveryAlone, CallsOK, RecoveryOK, Captures
<1>8. /\ wanted' \in [Captures -> Sessions \cup {None}] /\ fresh' \in [Captures -> SUBSET Sessions]
      /\ wanted'[c] = e /\ fresh'[c] = fresh[c] \ {e}
      /\ \A d \in Captures : d # c => wanted'[d] = wanted[d] /\ fresh'[d] = fresh[d]
  BY <1>1, <1>2 DEF TypeOK
<1>9. CallsOK(c)' /\ StreamOK(c)'
  BY <1>1, <1>2, <1>3, <1>5, <1>u, StartCalls
<1>10. Safe(c)'
  BY <1>1, <1>2, <1>5, <1>6, <1>7, <1>8, <1>u, MainStartSafe DEF RecoveryOK
<1>11. TypeOK'
  <2>2. attempt' \in 0 .. MaxAttempts
    BY <1>1, <1>4, AttemptsAssumption DEF TypeOK, Starts, SystemTypes
  <2> QED BY <1>1, <1>u, <1>4, <1>8, <2>2 DEF TypeOK, Starts, StartTypes, SystemTypes, CallTypes, Stage
<1>12. \A d \in Captures : d # c => at'[d] = at[d] /\ of'[d] = of[d]
  BY <1>5 DEF StartLeaves, StartStays, Moved
<1>13. \A d \in Captures : d # c => Untouched(d)
  BY <1>4, <1>8, <1>12, <1>u DEF Untouched, Starts
<1>14. RecoveryOK'
  <2>1. at'["system"]["restart"] = "backoff" => at["system"]["restart"] = "backoff"
    BY <1>5, <1>12 DEF StartLeaves, StartStays, Moved, Callers, Captures
  <2>2. attempt' \in {attempt, 0} /\ 0 < MaxAttempts
    BY <1>4, AttemptsAssumption DEF Starts, SystemTypes
  <2> QED BY <1>1, <1>u, <2>1, <2>2 DEF RecoveryOK
<1>15. \A d \in Captures : d # c /\ d \notin contested' /\ at[d]["recovery"] # "idle" => active'
  BY <1>u DEF IInv, Safe, RecoveryAlone
<1> QED BY <1>u, <1>9, <1>10, <1>11, <1>13, <1>14, <1>15, OneCapture

LEMMA MainStopsKeeps ==
  ASSUME IInv, NEW c \in Captures, MainStops(c) PROVE IInv'
<1> DEFINE e == wanted[c]
<1>1. TypeOK /\ RecoveryOK /\ CallsOK(c) /\ StreamOK(c) /\ fresh[c] \subseteq Sessions
  BY DEF IInv, TypeOK
<1>2. /\ Quiescent /\ e # None /\ at[c]["stop"] = "idle" /\ wanted' = [wanted EXCEPT ![c] = None]
      /\ owned' = (IF c = "mic" /\ owned = e THEN None ELSE owned)
      /\ StopCalled(c, "stop", e)
      /\ contested' = IF rescued = e THEN Captures
                      ELSE IF c = "system" /\ stopping[c] = "restart" THEN contested \cup {c}
                      ELSE contested
  BY DEF MainStops
<1>u. /\ enabled' = enabled /\ fresh' = fresh /\ told' = told /\ starting' = starting
      /\ session' = session /\ playing' = playing /\ open' = open
      /\ loop' = loop /\ attempt' = attempt /\ pending' = pending /\ heard' = heard /\ last' = last
      /\ rescued' = rescued /\ phase' = phase /\ active' = active /\ retried' = retried
      /\ killed' = killed /\ dictating' = dictating
  BY DEF MainStops, capture, system, recovery
<1>3. "stop" \in Callers /\ "stop" # "start" /\ "stop" # "recovery" /\ e \in Sessions
  BY <1>1, <1>2 DEF Callers, TypeOK
<1>4. Stops(c, "stop", e)
  BY <1>1, <1>2, <1>3, StopCalledStops
<1>5. Aside(c, "stop") /\ ~StartRuns(c, "stop")
  BY <1>2, <1>4, <1>u DEF Stops, Aside, StartRuns
<1>a. wanted[c] = e
  OBVIOUS
<1>6. /\ wanted' \in [Captures -> Sessions \cup {None}] /\ wanted'[c] = None
      /\ \A d \in Captures : d # c => wanted'[d] = wanted[d]
  BY <1>1, <1>2 DEF TypeOK
<1>7. contested' \subseteq Captures /\ contested \subseteq contested' /\ owned' \in Sessions \cup {None}
  BY <1>1, <1>2 DEF TypeOK
<1> HIDE DEF e
<1>8. CallsOK(c)' /\ StreamOK(c)'
  BY <1>1, <1>2, <1>3, <1>4, <1>5, <1>u, StopCalls DEF Stops
<1>9. ASSUME c \notin contested' PROVE Safe(c)'
  <2>1. Safe(c)
    BY <1>7, <1>9 DEF IInv
  <2>2. rescued = None /\ ~active
    BY <1>1, <1>2, <1>9, <1>a, <2>1 DEF Safe, RecoveryAlone, RecoveryOK, TypeOK
  <2>3. c = "system" => stopping[c] # "restart" /\ at[c]["restart"] # "stopped"
    BY <1>2, <1>9 DEF Quiescent, Continues, Callers, Captures
  <2>4. c = "mic" => owned' = (IF owned = e THEN None ELSE owned)
    BY <1>2
  <2>5. StopWaits(c, "stop", e) \/ (starting[c] = None /\ StopGoes(c, "stop", e))
    BY <1>4 DEF Stops
  <2> QED BY <1>1, <1>2, <1>3, <1>5, <1>6, <1>a, <1>u, <2>1, <2>2, <2>3, <2>4, <2>5, MainStopSafe
<1>10. TypeOK'
  BY <1>1, <1>4, <1>6, <1>7, <1>u DEF TypeOK, Stops, StopTypes, CallTypes, Stage
<1>11. \A d \in Captures : d # c => Untouched(d)
  BY <1>4, <1>6, <1>u DEF Untouched, Stops
<1>12. RecoveryOK'
  <2>1. at'["system"]["restart"] = "backoff" => at["system"]["restart"] = "backoff"
    BY <1>4 DEF Stops, StopGoes, StopWaits, Leaves, Moved, Callers, Captures
  <2> QED BY <1>1, <1>u, <2>1 DEF RecoveryOK
<1>13. \A d \in Captures : d # c /\ d \notin contested' /\ at[d]["recovery"] # "idle" => active'
  BY <1>7, <1>u DEF IInv, Safe, RecoveryAlone
<1>14. c = "mic" \/ owned' = owned
  BY <1>2
<1> QED BY <1>7, <1>8, <1>9, <1>10, <1>11, <1>12, <1>13, <1>14, <1>u, OneCapture

\* Steps that move no caller keep it.
LEMMA StayKeeps ==
  ASSUME IInv,
         UNCHANGED <<main, told, calls, capture, starting, stopping, owned, loop, recovery, contested>>,
         attempt' \in {attempt, 0}, pending' \in BOOLEAN, heard' \in BOOLEAN, last' = last,
         killed' \in BOOLEAN, dictating' \in BOOLEAN
  PROVE  IInv'
<1>u. /\ enabled' = enabled /\ wanted' = wanted /\ fresh' = fresh /\ told' = told
      /\ at' = at /\ of' = of /\ awaited' = awaited
      /\ session' = session /\ playing' = playing /\ open' = open /\ starting' = starting
      /\ stopping' = stopping /\ owned' = owned /\ loop' = loop /\ rescued' = rescued /\ phase' = phase
      /\ active' = active /\ retried' = retried /\ contested' = contested
  BY DEF main, calls, capture, recovery
<1>1. TypeOK'
  BY <1>u, AttemptsAssumption DEF IInv, TypeOK
<1>2. RecoveryOK'
  BY <1>u, AttemptsAssumption DEF IInv, RecoveryOK
<1>3. ASSUME NEW d \in Captures PROVE CallsOK(d)' /\ StreamOK(d)' /\ (d \in contested' \/ Safe(d)')
  <2>1. Untouched(d) /\ CallsOK(d) /\ StreamOK(d)
    BY <1>u DEF Untouched, IInv
  <2>2. CallsOK(d)' /\ StreamOK(d)'
    BY <1>u, <2>1, FrameCalls
  <2>3. ASSUME d \notin contested' PROVE Safe(d)'
    <3>1. Safe(d) /\ (at[d]["recovery"] # "idle" => active')
      BY <1>u, <2>3 DEF IInv, Safe, RecoveryAlone
    <3> QED BY <1>u, <2>1, <3>1, FrameSafe
  <2> QED BY <2>2, <2>3
<1> QED BY <1>1, <1>2, <1>3 DEF IInv

LEMMA StutterKeeps == ASSUME IInv, UNCHANGED vars PROVE IInv'
BY StayKeeps DEF IInv, TypeOK, vars, calls, system

LEMMA DictationTurnsKeeps == ASSUME IInv, DictationTurns PROVE IInv'
BY StayKeeps DEF IInv, TypeOK, DictationTurns, system

\* When nothing is about to go on, an active capture is the one that the main process wants.
LEMMA QuietSession ==
  ASSUME NEW c \in Captures, CallsOK(c), Safe(c), Quiescent, session[c] # None, stopping[c] = None,
         starting[c] \in Callers \cup {None}, c = "system" \/ starting[c] = None
  PROVE  starting[c] = None /\ wanted[c] = session[c] /\ \A q \in Callers : ~StartRuns(c, q)
<1>0. \A q \in Callers : ~Continues(c, q)
  BY DEF Quiescent
<1>1. ASSUME NEW q \in Callers PROVE ~StartRuns(c, q)
  <2>1. CASE c = "system"
    BY <1>0, <2>1 DEF Continues, StartRuns, Safe, OneStart, CallsOK, StagesOK
  <2>2. CASE starting[c] = None
    BY <2>2, NoneAssumption DEF Safe, OneStart
  <2> QED BY <2>1, <2>2
<1>2. starting[c] \notin Callers
  BY <1>1 DEF CallsOK
<1>3. at[c]["stop"] = "idle"
  <2>1. at[c]["stop"] # "joined" /\ at[c]["stop"] \notin {"draining", "closing"}
    BY <1>0, NoneAssumption DEF Continues, CallsOK, Callers
  <2>2. at[c]["stop"] = "awaitStart" => awaited[c]["stop"] \in Callers
    BY DEF CallsOK, Callers
  <2>3. at[c]["stop"] # "awaitStart"
    BY <1>0, <1>1, <2>2 DEF Continues, Callers
  <2> QED BY <2>1, <2>3 DEF CallsOK, StagesOK
<1>4. wanted[c] = session[c]
  BY <1>3 DEF Safe, StopReaches
<1>5. starting[c] = None
  BY <1>2
<1> QED BY <1>1, <1>4, <1>5

\* A restart that has stopped a capture is the only one to start it.
LEMMA OnlyRestart ==
  ASSUME NEW c \in Captures, CallsOK(c), Safe(c), at[c]["restart"] = "stopped", wanted[c] = of[c]["restart"]
  PROVE  \A q \in Callers : ~StartRuns(c, q)
<1>1. wanted[c] # None
  BY SessionsAssumption DEF CallsOK, Callers
<1>2. ASSUME NEW q \in Callers, StartRuns(c, q) PROVE FALSE
  <2>1. wanted[c] = of[c][q]
    BY <1>1, <1>2 DEF Safe, StopReaches
  <2>2. q # "start"
    BY <1>2, <2>1 DEF Safe, FreshIsNew
  <2>3. q # "stop"
    BY <1>2 DEF CallsOK, StagesOK, StartRuns
  <2>4. q # "recovery"
    BY <1>2 DEF Safe, RecoveryAlone, StartRuns
  <2>5. q # "restart"
    BY <1>2 DEF StartRuns
  <2> QED BY <2>2, <2>3, <2>4, <2>5 DEF Callers
<1> QED BY <1>2

\* What a restart or a recovery leaves alone when it stops a capture.
RestartFrame == UNCHANGED <<main, told, capture, starting, last, recovery, killed, dictating, contested>>

\* A stop of a restart or of the recovery keeps the invariant.
LEMMA StopKeeps ==
  ASSUME IInv, NEW c \in Captures, NEW p \in {"restart", "recovery"}, NEW e \in Sessions, Stops(c, p, e),
         RestartFrame, ~StartRuns(c, p), at[c][p] \notin {"draining", "closing"},
         p = "recovery" => active /\ phase = c /\ e = rescued,
         owned' \in Sessions \cup {None}, loop' \in 0 .. MaxAttempts, attempt' \in 0 .. MaxAttempts,
         pending' \in BOOLEAN, heard' \in BOOLEAN,
         (c = "mic" /\ p = "restart") \/ owned' = owned,
         (c = "system" /\ p = "restart") \/ attempt' = attempt,
         c \notin contested =>
           /\ e \notin fresh[c]
           /\ p = "restart" => \/ at[c][p] # "idle" /\ of[c][p] = e
                               \/ ~active /\ ~StartRuns(c, "start")
           /\ c = "mic" /\ p = "restart" /\ owned' = e => wanted[c] = e
           /\ c = "system" /\ p = "restart" =>
                starting[c] = None /\ stopping[c] = None /\ session[c] = e /\ wanted[c] = e
  PROVE  IInv'
<1>1. TypeOK /\ RecoveryOK /\ CallsOK(c) /\ StreamOK(c) /\ fresh[c] \subseteq Sessions
  BY DEF IInv, TypeOK
<1>2. p \in Callers /\ p # "start" /\ p # "stop"
  BY DEF Callers
<1>u. /\ enabled' = enabled /\ wanted' = wanted /\ fresh' = fresh /\ told' = told /\ starting' = starting
      /\ session' = session /\ playing' = playing /\ open' = open /\ last' = last
      /\ rescued' = rescued /\ phase' = phase /\ active' = active /\ retried' = retried
      /\ killed' = killed /\ dictating' = dictating /\ contested' = contested
  BY DEF RestartFrame, main, capture, recovery
<1>3. Aside(c, p) /\ (StopGoes(c, p, e) \/ StopWaits(c, p, e))
  BY <1>u DEF Stops, Aside
<1>4. CallsOK(c)' /\ StreamOK(c)'
  BY <1>1, <1>2, <1>3, <1>u, StopCalls
<1>5. ASSUME c \notin contested' PROVE Safe(c)'
  <2>1. Safe(c) /\ c \notin contested
    BY <1>u, <1>5 DEF IInv
  <2>2. p = "recovery" => active /\ (StopWaits(c, p, e) \/ at[c]["start"] = "idle")
    <3>1. CASE starting[c] = None
      BY <1>1, <2>1, <3>1, NoneAssumption DEF Safe, OneStart, CallsOK, StagesOK, StartRuns, Callers
    <3>2. CASE starting[c] # None
      BY <3>2 DEF Stops
    <3> QED BY <3>1, <3>2
  <2> QED BY <1>1, <1>3, <1>u, <2>1, <2>2, StopSafe
<1>6. TypeOK'
  BY <1>1, <1>u DEF TypeOK, Stops, StopTypes, CallTypes, Stage
<1>7. \A d \in Captures : d # c => Untouched(d)
  BY <1>u DEF Untouched, Stops
<1>8. RecoveryOK'
  <2>1. CASE c = "system" /\ p = "restart"
    <3>1. at'["system"]["restart"] # "backoff"
      BY <1>3, <2>1 DEF StopGoes, StopWaits, Leaves, Moved
    <3> QED BY <1>1, <1>u, <3>1 DEF RecoveryOK
  <2>2. CASE ~(c = "system" /\ p = "restart")
    <3>1. at'["system"]["restart"] = at["system"]["restart"]
      BY <1>3, <2>2 DEF StopGoes, StopWaits, Leaves, Moved, Callers, Captures
    <3> QED BY <1>1, <1>u, <2>2, <3>1 DEF RecoveryOK
  <2> QED BY <2>1, <2>2
<1>9. \A d \in Captures : d # c /\ d \notin contested' /\ at[d]["recovery"] # "idle" => active'
  BY <1>u DEF IInv, Safe, RecoveryAlone
<1> QED BY <1>4, <1>5, <1>6, <1>7, <1>8, <1>9, <1>u, OneCapture

\* A restart that ends or pauses keeps it.
LEMMA RestartRestKeeps ==
  ASSUME IInv, NEW c \in Captures, NEW s \in {"idle", "pause"}, NEW e \in Sessions \cup {None},
         Goto(c, "restart", s, e), at[c]["restart"] \in {"started", "stopped", "pause", "backoff"},
         s = "pause" => c = "mic" /\ e = of[c]["restart"], s = "idle" => e = None,
         UNCHANGED <<main, told, awaited, capture, starting, stopping, system, recovery, killed, dictating,
                     contested>>,
         owned' \in Sessions \cup {None}, loop' \in 0 .. MaxAttempts,
         owned' = owned \/ (c = "mic" /\ s = "idle")
  PROVE  IInv'
<1>1. TypeOK /\ RecoveryOK /\ CallsOK(c) /\ StreamOK(c) /\ fresh[c] \subseteq Sessions
  BY DEF IInv, TypeOK
<1>2. "restart" \in Callers /\ "restart" # "start" /\ "restart" # "stop" /\ s \in {"idle", "stopped", "pause"}
  BY DEF Callers
<1>u. /\ enabled' = enabled /\ wanted' = wanted /\ fresh' = fresh /\ told' = told /\ awaited' = awaited
      /\ session' = session /\ playing' = playing /\ open' = open /\ starting' = starting
      /\ stopping' = stopping /\ attempt' = attempt
      /\ pending' = pending /\ heard' = heard /\ last' = last /\ rescued' = rescued /\ phase' = phase
      /\ active' = active /\ retried' = retried /\ killed' = killed /\ dictating' = dictating
      /\ contested' = contested
  BY DEF main, capture, system, recovery
<1>3. Moved(c, "restart", s, e) /\ CallTypes'
  <2>1. s \in Stage /\ CallTypes
    BY <1>1, TypesOfCalls DEF Stage
  <2> QED BY <1>2, <2>1, GotoMoves
<1>4. Rests(c, "restart", s, e) /\ ~StartRuns(c, "restart")
  BY <1>3 DEF Moved, Rests, StartRuns
<1>5. CallsOK(c)' /\ StreamOK(c)'
  <2>1. stopping'[c] = IF stopping[c] = "restart" THEN None ELSE stopping[c]
    BY <1>1, <1>2, <1>u DEF CallsOK
  <2>2. CallsOK(c)'
    BY <1>1, <1>2, <1>4, <1>u, <2>1, RestCalls
  <2> QED BY <1>1, <1>u, <2>2 DEF StreamOK
<1>6. ASSUME c \notin contested' PROVE Safe(c)'
  <2>1. Safe(c)
    BY <1>u, <1>6 DEF IInv
  <2>2. at'[c]["recovery"] # "idle" => active'
    <3>1. at'[c]["recovery"] = at[c]["recovery"]
      BY <1>3 DEF Moved, Callers
    <3> QED BY <1>u, <2>1, <3>1 DEF Safe, RecoveryAlone
  <2>3. c = "mic" => owned' = owned \/ at'[c]["restart"] = "idle"
    BY <1>3 DEF Moved
  <2> QED BY <1>1, <1>2, <1>4, <1>u, <2>1, <2>2, <2>3, RestSafe
<1>7. TypeOK'
  BY <1>1, <1>3, <1>u DEF TypeOK, CallTypes, Stage
<1>8. \A d \in Captures : d # c => Untouched(d)
  BY <1>3, <1>u DEF Moved, Untouched
<1>9. RecoveryOK'
  <2>1. at'["system"]["restart"] = "backoff" => at["system"]["restart"] = "backoff"
    BY <1>3 DEF Moved, Callers, Captures
  <2> QED BY <1>1, <1>u, <2>1 DEF RecoveryOK
<1>10. \A d \in Captures : d # c /\ d \notin contested' /\ at[d]["recovery"] # "idle" => active'
  BY <1>u DEF IInv, Safe, RecoveryAlone
<1> QED BY <1>1, <1>5, <1>6, <1>7, <1>8, <1>9, <1>10, <1>u, OneCapture

LEMMA MicRestartEndsKeeps ==
  ASSUME IInv, MicRestartEnds, at["mic"]["restart"] \in {"started", "stopped", "pause"},
         UNCHANGED <<main, told, capture, starting, system, recovery, killed, dictating, contested>>
  PROVE  IInv'
<1>1. "mic" \in Captures /\ None \in Sessions \cup {None} /\ "idle" \in {"idle", "pause"}
  BY DEF Captures
<1>2. owned' \in Sessions \cup {None} /\ loop' \in 0 .. MaxAttempts
  BY AttemptsAssumption DEF MicRestartEnds, IInv, TypeOK
<1>3. Goto("mic", "restart", "idle", None) /\ UNCHANGED <<awaited, stopping>>
  BY DEF MicRestartEnds
<1> QED BY <1>1, <1>2, <1>3, RestartRestKeeps

LEMMA MicRestartKeeps ==
  ASSUME IInv, MicRestartCalled \/ MicRestart PROVE IInv'
<1> DEFINE c == "mic"  e == of[c]["restart"]
<1>1. /\ TypeOK /\ CallsOK(c) /\ c \in Captures /\ "restart" \in Callers /\ (c \in contested \/ Safe(c))
      /\ "restart" \in {"restart", "recovery"}
  BY DEF IInv, Captures, Callers
<1>2. CASE MicRestartCalled
  <2>1. /\ Quiescent /\ ~active /\ session[c] # None /\ stopping[c] = None /\ starting[c] = None
        /\ at[c]["restart"] = "idle" /\ owned' = session[c] /\ loop' = 1
        /\ StopCalled(c, "restart", session[c])
        /\ UNCHANGED <<main, told, capture, starting, system, recovery, killed, dictating, contested>>
    BY <1>2 DEF MicRestartCalled
  <2>2. session[c] \in Sessions /\ starting[c] \in Callers \cup {None}
    BY <1>1, <2>1 DEF TypeOK
  <2>3. Stops(c, "restart", session[c])
    BY <1>1, <2>1, <2>2, StopCalledStops
  <2>4. RestartFrame /\ attempt' = attempt /\ pending' = pending /\ heard' = heard
    BY <2>1 DEF RestartFrame, system
  <2>5. ~StartRuns(c, "restart") /\ at[c]["restart"] \notin {"draining", "closing"}
    BY <2>1 DEF StartRuns
  <2>6. c \notin contested =>
          wanted[c] = session[c] /\ ~StartRuns(c, "start") /\ session[c] \notin fresh[c]
    <3>1. ASSUME c \notin contested PROVE wanted[c] = session[c] /\ \A q \in Callers : ~StartRuns(c, q)
      BY <1>1, <2>1, <2>2, <3>1, QuietSession
    <3> QED BY <1>1, <3>1 DEF Callers, Safe, FreshIsNew
  <2>7. owned' \in Sessions \cup {None} /\ loop' \in 0 .. MaxAttempts /\ attempt' \in 0 .. MaxAttempts
        /\ pending' \in BOOLEAN /\ heard' \in BOOLEAN
    BY <1>1, <2>1, <2>2, <2>4, AttemptsAssumption DEF TypeOK
  <2> HIDE DEF c
  <2>8. c = "mic"
    BY DEF c
  <2> QED BY <1>1, <2>1, <2>2, <2>3, <2>4, <2>5, <2>6, <2>7, <2>8, StopKeeps
<1>3. CASE MicRestartStopped
  <2>1. at[c]["restart"] = "stopped" /\ e \in Sessions
    BY <1>1, <1>3 DEF MicRestartStopped, CallsOK
  <2>2. CASE owned # e
    <3>1. /\ MicRestartEnds
          /\ UNCHANGED <<main, told, capture, starting, system, recovery, killed, dictating, contested>>
      BY <1>3, <2>2 DEF MicRestartStopped
    <3> QED BY <2>1, <3>1, MicRestartEndsKeeps
  <2>3. CASE owned = e
    <3>1. /\ StartCalled(c, "restart", e)
          /\ UNCHANGED <<main, awaited, capture, stopping, owned, loop, recovery, dictating, contested>>
      BY <1>3, <2>3 DEF MicRestartStopped
    <3>2. Starts(c, "restart", e)
      BY <1>1, <2>1, <3>1, StartCalledStarts
    <3>3. ASSUME c \notin contested PROVE wanted[c] = e /\ \A q \in Callers : ~StartRuns(c, q)
      <4>1. wanted[c] = e
        BY <1>1, <2>1, <2>3, <3>3 DEF Safe, RestartOwns
      <4> QED BY <1>1, <2>1, <3>3, <4>1, OnlyRestart
    <3> QED BY <1>1, <2>1, <3>1, <3>2, <3>3, StartKeeps
  <2> QED BY <2>2, <2>3
<1>4. CASE MicRestartStarted
  <2>1. at[c]["restart"] = "started" /\ e \in Sessions
    BY <1>1, <1>4 DEF MicRestartStarted, CallsOK
  <2>2. UNCHANGED <<main, told, capture, starting, system, recovery, killed, dictating, contested>>
    BY <1>4 DEF MicRestartStarted
  <2>3. CASE session[c] = e
    BY <1>4, <2>1, <2>2, <2>3, MicRestartEndsKeeps DEF MicRestartStarted
  <2>4. CASE session[c] # e
    <3>1. Goto(c, "restart", "pause", e) /\ UNCHANGED <<loop, owned, awaited, stopping>>
      BY <1>4, <2>4 DEF MicRestartStarted
    <3>2. owned' \in Sessions \cup {None} /\ loop' \in 0 .. MaxAttempts
      BY <1>1, <3>1 DEF TypeOK
    <3> QED BY <1>1, <2>1, <2>2, <3>1, <3>2, RestartRestKeeps
  <2> QED BY <2>3, <2>4
<1>5. CASE MicRestartAgain
  <2>1. at[c]["restart"] = "pause" /\ e \in Sessions
    BY <1>1, <1>5 DEF MicRestartAgain, CallsOK
  <2>2. UNCHANGED <<main, told, capture, starting, system, recovery, killed, dictating, contested>>
    BY <1>5 DEF MicRestartAgain
  <2>3. CASE loop < MaxAttempts /\ MayProceed(e)
    <3>1. loop' = loop + 1 /\ StopCalled(c, "restart", e) /\ owned' = owned
      BY <1>5, <2>3 DEF MicRestartAgain
    <3>2. Stops(c, "restart", e)
      BY <1>1, <2>1, <3>1, StopCalledStops
    <3>3. RestartFrame /\ attempt' = attempt /\ pending' = pending /\ heard' = heard
      BY <2>2 DEF RestartFrame, system
    <3>4. ~StartRuns(c, "restart") /\ at[c]["restart"] \notin {"draining", "closing"}
      BY <2>1 DEF StartRuns
    <3>5. owned' \in Sessions \cup {None} /\ loop' \in 0 .. MaxAttempts /\ attempt' \in 0 .. MaxAttempts
          /\ pending' \in BOOLEAN /\ heard' \in BOOLEAN
      BY <1>1, <2>3, <3>1, <3>3, AttemptsAssumption DEF TypeOK
    <3>6. c \notin contested => e \notin fresh[c] /\ (owned' = e => wanted[c] = e)
      BY <1>1, <2>1, <3>1 DEF Safe, FreshIsNew, RestartOwns
    <3>7. c # "system" /\ at[c]["restart"] # "idle"
      BY <2>1
    <3>8. of[c]["restart"] = e
      OBVIOUS
    <3>9. c = "mic"
      OBVIOUS
    <3> HIDE DEF c, e
    <3> QED BY <1>1, <2>1, <3>2, <3>3, <3>4, <3>5, <3>6, <3>7, <3>8, <3>9, StopKeeps
  <2>4. CASE ~(loop < MaxAttempts /\ MayProceed(e))
    BY <1>5, <2>1, <2>2, <2>4, MicRestartEndsKeeps DEF MicRestartAgain
  <2> QED BY <2>3, <2>4
<1> QED BY <1>2, <1>3, <1>4, <1>5 DEF MicRestart

\* What the system's restart leaves alone when it is called.
SystemFrame ==
  UNCHANGED <<main, told, capture, starting, owned, loop, last, recovery, killed, dictating, contested>>

\* The restarts of the system's capture: a first one, one that backs off, and the choice.
LEMMA ExecuteKeeps ==
  ASSUME IInv, NEW n \in 0 .. MaxAttempts, Execute(n), SystemFrame, heard' \in BOOLEAN,
         Quiescent, session["system"] # None, stopping["system"] = None, ~active,
         \/ at["system"]["restart"] = "idle"
         \/ at["system"]["restart"] = "backoff" /\ of["system"]["restart"] = session["system"]
  PROVE  IInv'
<1> DEFINE c == "system"  e == session[c]
<1>1. /\ TypeOK /\ CallsOK(c) /\ c \in Captures /\ "restart" \in Callers /\ (c \in contested \/ Safe(c))
      /\ "restart" \in {"restart", "recovery"} /\ e \in Sessions
  BY DEF IInv, Captures, Callers, TypeOK
<1>2. Stops(c, "restart", e) /\ attempt' = n /\ pending' = FALSE
  BY <1>1, StopCalledStops DEF Execute
<1>3. ASSUME c \notin contested
      PROVE  starting[c] = None /\ wanted[c] = e /\ (\A q \in Callers : ~StartRuns(c, q)) /\ e \notin fresh[c]
  <2>1. Safe(c) /\ starting[c] \in Callers \cup {None}
    BY <1>1, <1>3 DEF TypeOK
  <2>2. starting[c] = None /\ wanted[c] = e /\ \A q \in Callers : ~StartRuns(c, q)
    BY <1>1, <2>1, QuietSession
  <2> QED BY <2>1, <2>2 DEF Safe, FreshIsNew
<1>4. RestartFrame /\ owned' = owned /\ loop' = loop
  BY DEF SystemFrame, RestartFrame
<1>5. owned' \in Sessions \cup {None} /\ loop' \in 0 .. MaxAttempts /\ attempt' \in 0 .. MaxAttempts
      /\ pending' \in BOOLEAN
  BY <1>1, <1>2, <1>4 DEF TypeOK
<1>6. ~StartRuns(c, "restart") /\ at[c]["restart"] \notin {"draining", "closing"}
  BY DEF StartRuns
<1>7. (at[c]["restart"] # "idle" /\ of[c]["restart"] = e) \/ (~active /\ at[c]["restart"] = "idle")
  OBVIOUS
<1>8. c = "system" /\ c # "mic" /\ stopping[c] = None /\ session[c] = e
  OBVIOUS
<1> HIDE DEF c, e
<1>9. c \notin contested =>
        /\ e \notin fresh[c]
        /\ (at[c]["restart"] # "idle" /\ of[c]["restart"] = e) \/ (~active /\ ~StartRuns(c, "start"))
        /\ starting[c] = None /\ wanted[c] = e
  BY <1>3, <1>7 DEF Callers
<1> QED BY <1>1, <1>2, <1>4, <1>5, <1>6, <1>8, <1>9, StopKeeps

LEMMA BackoffKeeps ==
  ASSUME IInv, Goto("system", "restart", "backoff", session["system"]), SystemFrame, awaited' = awaited,
         stopping' = stopping, attempt' = attempt, attempt < MaxAttempts, heard' \in BOOLEAN, pending' \in BOOLEAN,
         Quiescent, session["system"] # None, stopping["system"] = None, ~active,
         at["system"]["restart"] = "idle"
  PROVE  IInv'
<1> DEFINE c == "system"  e == session[c]
<1>1. /\ TypeOK /\ RecoveryOK /\ CallsOK(c) /\ StreamOK(c) /\ c \in Captures /\ "restart" \in Callers
      /\ (c \in contested \/ Safe(c)) /\ e \in Sessions
  BY DEF IInv, Captures, Callers, TypeOK
<1>u. /\ enabled' = enabled /\ wanted' = wanted /\ fresh' = fresh /\ told' = told
      /\ session' = session /\ playing' = playing /\ open' = open /\ starting' = starting
      /\ owned' = owned /\ loop' = loop /\ last' = last /\ rescued' = rescued /\ phase' = phase
      /\ active' = active /\ retried' = retried /\ killed' = killed /\ dictating' = dictating
      /\ contested' = contested
  BY DEF SystemFrame, main, capture, recovery
<1>2. Moved(c, "restart", "backoff", e) /\ CallTypes'
  <2>1. "backoff" \in Stage /\ CallTypes /\ e \in Sessions \cup {None}
    BY <1>1, TypesOfCalls DEF Stage
  <2> QED BY <1>1, <2>1, GotoMoves
<1>3. ASSUME c \notin contested
      PROVE  Safe(c) /\ (\A q \in Callers : ~StartRuns(c, q)) /\ e \notin fresh[c]
  <2>1. Safe(c) /\ starting[c] \in Callers \cup {None}
    BY <1>1, <1>3 DEF TypeOK
  <2>2. \A q \in Callers : ~StartRuns(c, q)
    BY <1>1, <2>1, QuietSession
  <2> QED BY <2>1, <2>2 DEF Safe, FreshIsNew
<1>a. c = "system" /\ c # "mic" /\ stopping[c] = None /\ session[c] = e /\ at[c]["restart"] = "idle"
  OBVIOUS
<1> HIDE DEF c, e
<1>4. CallsOK(c)' /\ StreamOK(c)'
  <2>1. StagesOK(c)'
    BY <1>1, <1>2, <1>a DEF CallsOK, StagesOK, Moved, Callers
  <2>2. ASSUME NEW q \in Callers
        PROVE  /\ at'[c][q] # "idle" => of'[c][q] \in Sessions
               /\ stopping'[c] = q <=> at'[c][q] \in {"draining", "closing"}
               /\ starting'[c] = q => StartRuns(c, q)'
               /\ at'[c][q] = "awaitStart" => awaited'[c][q] \in Callers
    BY <1>1, <1>2, <1>a, <1>u DEF CallsOK, Moved, StartRuns
  <2>3. at'[c]["recovery"] # "idle" => phase' = c /\ of'[c]["recovery"] = rescued'
    BY <1>1, <1>2, <1>u DEF CallsOK, Moved, Callers
  <2>4. StreamOK(c)'
    BY <1>1, <1>u DEF StreamOK
  <2> QED BY <2>1, <2>2, <2>3, <2>4 DEF CallsOK
<1>5. ASSUME c \notin contested' PROVE Safe(c)'
  <2>1. Safe(c) /\ (\A q \in Callers : ~StartRuns(c, q)) /\ e \notin fresh[c]
    BY <1>3, <1>5, <1>u
  <2>2. \A q \in Callers : /\ at'[c][q] = IF q = "restart" THEN "backoff" ELSE at[c][q]
                           /\ of'[c][q] = IF q = "restart" THEN e ELSE of[c][q]
    BY <1>2 DEF Moved
  <2>3. OneStart(c)'
    BY <1>u, <2>1, <2>2 DEF Safe, OneStart, StartRuns
  <2>4. \A q \in Callers : ~StartRuns(c, q)'
    BY <2>1, <2>2 DEF StartRuns
  <2>5. at'[c]["stop"] = at[c]["stop"] /\ of'[c]["stop"] = of[c]["stop"]
    BY <2>2 DEF Callers
  <2>6. StopReaches(c)'
    BY <1>u, <2>1, <2>2, <2>4, <2>5 DEF Safe, StopReaches
  <2>7. FreshIsNew(c)'
    BY <1>u, <2>1, <2>2, <2>4 DEF Safe, FreshIsNew, Callers
  <2>8. RecoveryAlone(c)'
    BY <1>u, <2>1, <2>2 DEF Safe, RecoveryAlone, Callers
  <2>9. RestartOwns(c)'
    BY <1>u, <1>a, <1>1, <2>2 DEF RestartOwns
  <2> QED BY <2>3, <2>6, <2>7, <2>8, <2>9 DEF Safe
<1>6. TypeOK'
  BY <1>1, <1>2, <1>u DEF TypeOK, CallTypes, Stage
<1>7. \A d \in Captures : d # c => Untouched(d)
  BY <1>2, <1>u DEF Moved, Untouched
<1>8. RecoveryOK'
  BY <1>1, <1>u DEF RecoveryOK
<1>9. \A d \in Captures : d # c /\ d \notin contested' /\ at[d]["recovery"] # "idle" => active'
  BY <1>u DEF IInv, Safe, RecoveryAlone
<1> QED BY <1>1, <1>4, <1>5, <1>6, <1>7, <1>8, <1>9, <1>u, OneCapture

LEMMA RestartSystemKeeps ==
  ASSUME IInv, NEW deferred \in BOOLEAN, RestartSystem(deferred), SystemFrame, heard' \in BOOLEAN,
         Quiescent, session["system"] # None
  PROVE  IInv'
<1> DEFINE refused == active \/ stopping["system"] # None \/ at["system"]["restart"] # "idle" \/ attempt >= Budget
<1>0. TypeOK /\ MaxDead <= MaxAttempts /\ attempt \in Nat /\ MaxDead \in Nat /\ MaxAttempts \in Nat \ {0}
  BY AttemptsAssumption DEF IInv, TypeOK
<1>1. CASE refused \/ dictating
  <2>1. pending' \in BOOLEAN /\ UNCHANGED <<attempt, calls, stopping>>
    BY <1>1 DEF RestartSystem
  <2> QED BY <1>0, <2>1, StayKeeps DEF SystemFrame, TypeOK
<1>2. CASE ~refused /\ ~dictating /\ attempt = 0
  <2>1. Execute(1) /\ 1 \in 0 .. MaxAttempts
    BY <1>0, <1>2 DEF RestartSystem
  <2> QED BY <1>2, <2>1, ExecuteKeeps
<1>3. CASE ~refused /\ ~dictating /\ attempt # 0
  <2>1. Goto("system", "restart", "backoff", session["system"]) /\ pending' = deferred
        /\ UNCHANGED <<attempt, awaited, stopping>>
    BY <1>3 DEF RestartSystem
  <2>2. attempt < MaxAttempts
    BY <1>0, <1>3 DEF Budget
  <2> QED BY <1>3, <2>1, <2>2, BackoffKeeps
<1> QED BY <1>1, <1>2, <1>3

LEMMA SystemCallsKeep == ASSUME IInv, SystemFails \/ ChunkArrives PROVE IInv'
<1>1. CASE SystemFails
  <2>1. RestartSystem(pending) /\ SystemFrame /\ heard' = heard /\ Quiescent /\ session["system"] # None
    BY <1>1 DEF SystemFails, SystemFrame
  <2>2. pending \in BOOLEAN /\ heard \in BOOLEAN
    BY DEF IInv, TypeOK
  <2> QED BY <2>1, <2>2, RestartSystemKeeps
<1>2. CASE ChunkArrives
  <2>1. SystemFrame /\ heard' \in {heard, TRUE} /\ Quiescent /\ session["system"] # None
    BY <1>2 DEF ChunkArrives, SystemFrame
  <2>2. pending \in BOOLEAN /\ heard' \in BOOLEAN
    BY <2>1 DEF IInv, TypeOK
  <2>3. RestartSystem(FALSE) \/ UNCHANGED <<pending, attempt, calls, stopping>>
    BY <1>2 DEF ChunkArrives
  <2>4. CASE RestartSystem(FALSE)
    BY <2>1, <2>2, <2>4, RestartSystemKeeps
  <2>5. CASE UNCHANGED <<pending, attempt, calls, stopping>>
    BY <2>1, <2>2, <2>5, StayKeeps DEF SystemFrame, IInv, TypeOK
  <2> QED BY <2>3, <2>4, <2>5
<1> QED BY <1>1, <1>2

LEMMA SystemRestartKeeps == ASSUME IInv, SystemRestart PROVE IInv'
<1> DEFINE c == "system"  e == of[c]["restart"]
<1>1. /\ TypeOK /\ RecoveryOK /\ CallsOK(c) /\ c \in Captures /\ "restart" \in Callers
      /\ (c \in contested \/ Safe(c)) /\ e \in Sessions \cup {None} /\ attempt \in Nat
      /\ owned \in Sessions \cup {None} /\ loop \in 0 .. MaxAttempts /\ heard \in BOOLEAN
  BY DEF IInv, Captures, Callers, TypeOK
<1>2. CASE BackoffEnds
  <2>1. at[c]["restart"] = "backoff" /\ Quiescent /\ SystemFrame /\ heard' = heard /\ last' = last
    BY <1>2 DEF BackoffEnds, SystemFrame
  <2>2. CASE ~active /\ stopping[c] = None /\ session[c] = e
    <3>1. Execute(attempt + 1)
      BY <1>2, <2>2 DEF BackoffEnds
    <3>2. attempt + 1 \in 0 .. MaxAttempts
      BY <1>1, <2>1, AttemptsAssumption DEF RecoveryOK, TypeOK
    <3>3. session[c] # None
      BY <1>1, <2>1, <2>2, SessionsAssumption DEF CallsOK
    <3> QED BY <1>1, <2>1, <2>2, <3>1, <3>2, <3>3, ExecuteKeeps
  <2>3. CASE ~(~active /\ stopping[c] = None /\ session[c] = e)
    <3>1. Goto(c, "restart", "idle", None) /\ UNCHANGED <<attempt, pending, awaited, stopping>>
      BY <1>2, <2>3 DEF BackoffEnds
    <3>2. UNCHANGED <<main, told, awaited, capture, starting, stopping, system, recovery, killed, dictating,
                      contested>> /\ owned' = owned /\ loop' = loop
      BY <2>1, <3>1 DEF SystemFrame, system
    <3> QED BY <1>1, <2>1, <3>1, <3>2, RestartRestKeeps
  <2> QED BY <2>2, <2>3
<1>3. CASE SystemRestartStopped
  <2>1. /\ at[c]["restart"] = "stopped" /\ StartCalled(c, "restart", e)
        /\ UNCHANGED <<main, awaited, capture, stopping, owned, loop, recovery, dictating, contested>>
    BY <1>3 DEF SystemRestartStopped
  <2>2. e \in Sessions
    BY <1>1, <2>1 DEF CallsOK
  <2>3. Starts(c, "restart", e)
    BY <1>1, <2>1, <2>2, StartCalledStarts
  <2>4. ASSUME c \notin contested PROVE wanted[c] = e /\ \A q \in Callers : ~StartRuns(c, q)
    <3>1. wanted[c] = e
      BY <1>1, <2>1, <2>4 DEF Safe, RestartOwns
    <3> QED BY <1>1, <2>1, <2>4, <3>1, OnlyRestart
  <2> QED BY <1>1, <2>1, <2>2, <2>3, <2>4, StartKeeps
<1>4. CASE SystemRestartStarted
  <2>1. /\ at[c]["restart"] = "started" /\ Goto(c, "restart", "idle", None) /\ owned' = owned /\ loop' = loop
        /\ UNCHANGED <<main, told, awaited, capture, starting, stopping, system, recovery, killed, dictating,
                       contested>>
    BY <1>4 DEF SystemRestartStarted
  <2> QED BY <1>1, <2>1, RestartRestKeeps
<1> QED BY <1>2, <1>3, <1>4 DEF SystemRestart

\* A recovery ends the backoff that it finds.
LEMMA RecoveryBeginsKeeps == ASSUME IInv, RecoveryBegins PROVE IInv'
<1> DEFINE e == session["system"]
<1>1. TypeOK /\ RecoveryOK /\ "system" \in Captures /\ "mic" \in Captures /\ "restart" \in Callers
  BY DEF IInv, Captures, Callers
<1>2. /\ rescued = None /\ e \in Sessions /\ rescued' = e /\ phase' = "kill" /\ active' = TRUE
      /\ retried' = FALSE /\ killed' = TRUE
      /\ contested' = contested \cup {c \in Captures : \/ wanted[c] # e
                                                      \/ at[c]["restart"] \notin {"idle", "backoff"}}
      /\ IF at["system"]["restart"] = "backoff" THEN Goto("system", "restart", "idle", None)
         ELSE UNCHANGED <<at, of>>
  BY <1>1 DEF RecoveryBegins, TypeOK
<1>u. /\ enabled' = enabled /\ wanted' = wanted /\ fresh' = fresh /\ told' = told /\ awaited' = awaited
      /\ session' = session /\ playing' = playing /\ open' = open /\ starting' = starting
      /\ stopping' = stopping /\ owned' = owned /\ loop' = loop /\ attempt' = attempt
      /\ pending' = pending /\ heard' = heard /\ last' = last /\ dictating' = dictating
  BY DEF RecoveryBegins, main, capture, system
<1>3. /\ CallTypes'
      /\ \A d \in Captures : \/ at'[d] = at[d] /\ of'[d] = of[d] /\ (d = "system" => at[d]["restart"] # "backoff")
                             \/ /\ d = "system" /\ at[d]["restart"] = "backoff"
                                /\ Moved(d, "restart", "idle", None)
  <2>1. "idle" \in Stage /\ CallTypes /\ None \in Sessions \cup {None}
    BY <1>1, TypesOfCalls DEF Stage
  <2>2. CASE at["system"]["restart"] = "backoff"
    <3>1. Moved("system", "restart", "idle", None) /\ CallTypes'
      BY <1>1, <1>2, <2>1, <2>2, GotoMoves
    <3> QED BY <2>2, <3>1 DEF Moved
  <2>3. CASE at["system"]["restart"] # "backoff"
    <3>1. at' = at /\ of' = of
      BY <1>2, <2>3
    <3> QED BY <2>1, <2>3, <3>1 DEF CallTypes
  <2> QED BY <2>2, <2>3
<1>4. contested \subseteq contested' /\ contested' \subseteq Captures
  BY <1>1, <1>2 DEF TypeOK
<1> HIDE DEF e
<1>5. TypeOK'
  BY <1>1, <1>2, <1>u, <1>3, <1>4 DEF TypeOK, CallTypes, Stage
<1>6. RecoveryOK'
  <2>1. at'["system"]["restart"] # "backoff"
    BY <1>1, <1>3 DEF Moved
  <2>2. rescued' # None /\ phase' # "none"
    BY <1>2, SessionsAssumption
  <2> QED BY <2>1, <2>2 DEF RecoveryOK
<1>7. ASSUME NEW d \in Captures PROVE CallsOK(d)' /\ StreamOK(d)' /\ (d \in contested' \/ Safe(d)')
  <2>1. CallsOK(d) /\ StreamOK(d) /\ fresh[d] \subseteq Sessions
    BY <1>1 DEF IInv, TypeOK
  <2>2. at[d]["recovery"] = "idle"
    BY <1>1, <1>2, <2>1 DEF CallsOK, RecoveryOK, Captures
  <2>3. ASSUME d \notin contested' PROVE Safe(d) /\ wanted[d] = rescued' /\ at[d]["restart"] \in {"idle", "backoff"}
    BY <1>2, <1>4, <2>3 DEF IInv
  <2>4. CASE at'[d] = at[d] /\ of'[d] = of[d] /\ (d = "system" => at[d]["restart"] # "backoff")
    <3>1. Untouched(d)
      BY <1>u, <2>4 DEF Untouched
    <3>2. CallsOK(d)' /\ StreamOK(d)'
      BY <2>1, <2>2, <3>1, FrameCalls
    <3>3. ASSUME d \notin contested' PROVE Safe(d)'
      <4>1. at[d]["restart"] = "idle"
        BY <2>1, <2>3, <2>4, <3>3 DEF CallsOK, StagesOK
      <4> QED BY <1>2, <1>u, <2>3, <3>1, <3>3, <4>1, FrameSafe
    <3> QED BY <3>2, <3>3
  <2>5. CASE d = "system" /\ at[d]["restart"] = "backoff" /\ Moved(d, "restart", "idle", None)
    <3>1. Rests(d, "restart", "idle", None) /\ ~StartRuns(d, "restart") /\ at'[d]["recovery"] = "idle"
      BY <2>2, <2>5 DEF Rests, Moved, StartRuns, Callers
    <3>2. stopping'[d] = IF stopping[d] = "restart" THEN None ELSE stopping[d]
      BY <1>1, <1>u, <2>1, <2>5 DEF CallsOK
    <3>3. CallsOK(d)'
      BY <1>1, <1>u, <2>1, <3>1, <3>2, RestCalls
    <3>4. StreamOK(d)'
      BY <1>u, <2>1 DEF StreamOK
    <3>5. ASSUME d \notin contested' PROVE Safe(d)'
      <4>1. at'[d]["restart"] = "idle"
        BY <3>1 DEF Rests
      <4> QED BY <1>1, <1>2, <1>u, <2>1, <2>3, <2>5, <3>1, <3>5, <4>1, RestSafe
    <3> QED BY <3>3, <3>4, <3>5
  <2> QED BY <1>3, <2>4, <2>5
<1> QED BY <1>5, <1>6, <1>7 DEF IInv

\* What a step of the recovery leaves alone that moves none of its calls.
PhaseFrame ==
  UNCHANGED <<main, told, calls, capture, starting, stopping, owned, loop, system, dictating>>

\* Its steps between the captures, its end and its time-out keep the invariant.
LEMMA PhaseKeeps ==
  ASSUME IInv, PhaseFrame, killed' \in BOOLEAN, retried' \in BOOLEAN, active' \in BOOLEAN,
         phase' \in {"none", "kill"} \cup Captures, contested \subseteq contested', contested' \subseteq Captures,
         rescued' \in {rescued, None}, rescued' = None <=> phase' = "none",
         active' => active /\ rescued' = rescued,
         \A d \in Captures : at[d]["recovery"] # "idle" =>
            phase' = phase /\ rescued' = rescued /\ (d \notin contested' => active')
  PROVE  IInv'
<1>u. /\ enabled' = enabled /\ wanted' = wanted /\ fresh' = fresh /\ told' = told
      /\ at' = at /\ of' = of /\ awaited' = awaited
      /\ session' = session /\ playing' = playing /\ open' = open /\ starting' = starting
      /\ stopping' = stopping /\ owned' = owned /\ loop' = loop /\ attempt' = attempt
      /\ pending' = pending /\ heard' = heard /\ last' = last /\ dictating' = dictating
  BY DEF PhaseFrame, main, calls, capture, system
<1>1. TypeOK /\ RecoveryOK
  BY DEF IInv
<1>2. TypeOK'
  BY <1>u, <1>1 DEF TypeOK
<1>3. RecoveryOK'
  BY <1>u, <1>1 DEF RecoveryOK
<1>4. ASSUME NEW d \in Captures PROVE CallsOK(d)' /\ StreamOK(d)' /\ (d \in contested' \/ Safe(d)')
  <2>1. Untouched(d) /\ CallsOK(d) /\ StreamOK(d)
    BY <1>u DEF Untouched, IInv
  <2>2. CallsOK(d)' /\ StreamOK(d)'
    BY <2>1, FrameCalls
  <2>3. ASSUME d \notin contested' PROVE Safe(d)'
    <3>1. Safe(d) /\ (at[d]["recovery"] # "idle" => active')
      BY <2>3 DEF IInv
    <3> QED BY <1>u, <2>1, <3>1, FrameSafe
  <2> QED BY <2>2, <2>3
<1> QED BY <1>2, <1>3, <1>4 DEF IInv

LEMMA KillEndsKeeps == ASSUME IInv, KillEnds PROVE IInv'
<1>1. TypeOK /\ RecoveryOK /\ phase = "kill" /\ PhaseFrame /\ contested' = contested
  BY DEF IInv, KillEnds, PhaseFrame
<1>2. ASSUME NEW d \in Captures PROVE at[d]["recovery"] = "idle"
  BY <1>1 DEF IInv, CallsOK, Captures
<1>3. \/ RecoveryEnds /\ killed' \in BOOLEAN
      \/ active /\ phase' = "system" /\ UNCHANGED <<rescued, active, retried, killed>>
  BY <1>1 DEF KillEnds, TypeOK
<1>4. CASE RecoveryEnds /\ killed' \in BOOLEAN
  BY <1>1, <1>2, <1>4, PhaseKeeps DEF RecoveryEnds, TypeOK
<1>5. CASE active /\ phase' = "system" /\ UNCHANGED <<rescued, active, retried, killed>>
  BY <1>1, <1>2, <1>5, PhaseKeeps DEF RecoveryOK, TypeOK, Captures
<1> QED BY <1>3, <1>4, <1>5

LEMMA RecoveryTimesOutKeeps == ASSUME IInv, RecoveryTimesOut PROVE IInv'
<1>1. /\ TypeOK /\ RecoveryOK /\ PhaseFrame /\ active /\ active' = FALSE
      /\ contested' = contested \cup (Captures \cap {phase})
      /\ rescued' = rescued /\ phase' = phase /\ retried' = retried /\ killed' = killed
  BY DEF IInv, RecoveryTimesOut, Abandons, PhaseFrame
<1>2. ASSUME NEW d \in Captures, at[d]["recovery"] # "idle" PROVE d \in contested'
  BY <1>1, <1>2 DEF IInv, CallsOK
<1> QED BY <1>1, <1>2, PhaseKeeps DEF RecoveryOK, TypeOK

\* It is done with a capture.
LEMMA RecoveryRestKeeps ==
  ASSUME IInv, NEW c \in Captures, phase = c, at[c]["recovery"] \in {"started", "stopped"},
         Goto(c, "recovery", "idle", None),
         UNCHANGED <<main, told, awaited, capture, starting, stopping, owned, loop, system, killed, dictating,
                     contested>>,
         retried' \in BOOLEAN, active' \in BOOLEAN, phase' \in {"none", "kill"} \cup Captures,
         rescued' \in {rescued, None}, rescued' = None <=> phase' = "none",
         active' => active /\ rescued' = rescued
  PROVE  IInv'
<1>1. TypeOK /\ RecoveryOK /\ CallsOK(c) /\ StreamOK(c) /\ fresh[c] \subseteq Sessions
  BY DEF IInv, TypeOK
<1>2. "recovery" \in Callers /\ "recovery" # "start" /\ "recovery" # "stop" /\ "idle" \in {"idle", "stopped", "pause"}
  BY DEF Callers
<1>u. /\ enabled' = enabled /\ wanted' = wanted /\ fresh' = fresh /\ told' = told /\ awaited' = awaited
      /\ session' = session /\ playing' = playing /\ open' = open /\ starting' = starting
      /\ stopping' = stopping /\ owned' = owned /\ loop' = loop /\ attempt' = attempt
      /\ pending' = pending /\ heard' = heard /\ last' = last /\ killed' = killed /\ dictating' = dictating
      /\ contested' = contested
  BY DEF main, capture, system
<1>3. Moved(c, "recovery", "idle", None) /\ CallTypes'
  <2>1. "idle" \in Stage /\ CallTypes /\ None \in Sessions \cup {None}
    BY <1>1, TypesOfCalls DEF Stage
  <2> QED BY <1>2, <2>1, GotoMoves
<1>4. Rests(c, "recovery", "idle", None) /\ ~StartRuns(c, "recovery") /\ at'[c]["recovery"] = "idle"
  BY <1>3 DEF Moved, Rests, StartRuns
<1>5. CallsOK(c)' /\ StreamOK(c)'
  <2>1. stopping'[c] = IF stopping[c] = "recovery" THEN None ELSE stopping[c]
    BY <1>1, <1>2, <1>u DEF CallsOK
  <2>2. CallsOK(c)'
    BY <1>1, <1>2, <1>4, <1>u, <2>1, RestCalls
  <2> QED BY <1>1, <1>u, <2>2 DEF StreamOK
<1>6. ASSUME c \notin contested' PROVE Safe(c)'
  <2>1. Safe(c)
    BY <1>u, <1>6 DEF IInv
  <2> QED BY <1>1, <1>2, <1>4, <1>u, <2>1, RestSafe
<1>7. TypeOK'
  BY <1>1, <1>3, <1>u DEF TypeOK, CallTypes, Stage
<1>8. \A d \in Captures : d # c => Untouched(d)
  BY <1>3, <1>u DEF Moved, Untouched
<1>9. RecoveryOK'
  <2>1. at'["system"]["restart"] = "backoff" => at["system"]["restart"] = "backoff"
    BY <1>3 DEF Moved, Callers, Captures
  <2> QED BY <1>1, <1>u, <2>1 DEF RecoveryOK
<1>10. \A d \in Captures : d # c => at[d]["recovery"] = "idle"
  BY DEF IInv, CallsOK
<1> QED BY <1>1, <1>5, <1>6, <1>7, <1>8, <1>9, <1>10, <1>u, OneCapture

\* It stops a capture and starts it only as long as it is active.
LEMMA RecoveryStepKeeps == ASSUME IInv, NEW c \in Captures, RecoveryStep(c) PROVE IInv'
<1>1. /\ TypeOK /\ RecoveryOK /\ CallsOK(c) /\ phase = c /\ "recovery" \in Callers
      /\ "recovery" \in {"restart", "recovery"} /\ (c \in contested \/ Safe(c))
  BY DEF IInv, RecoveryStep, Callers
<1>2. rescued \in Sessions /\ UNCHANGED <<main, capture, owned, loop, dictating, contested>>
  BY <1>1 DEF RecoveryOK, TypeOK, RecoveryStep, Captures
<1>3. c \notin contested => wanted[c] = rescued /\ rescued \notin fresh[c]
  BY <1>1, <1>2, SessionsAssumption DEF Safe, RecoveryAlone, FreshIsNew
<1>4. CASE /\ at[c]["recovery"] = "idle" /\ UNCHANGED <<starting, told, system, killed>>
           /\ IF active THEN StopCalled(c, "recovery", rescued) /\ UNCHANGED recovery
              ELSE RecoveryEnds /\ UNCHANGED <<calls, stopping>>
  <2>1. CASE active
    <3>1. StopCalled(c, "recovery", rescued) /\ UNCHANGED recovery
      BY <1>4, <2>1
    <3>2. Stops(c, "recovery", rescued)
      BY <1>1, <1>2, <3>1, StopCalledStops
    <3>3. RestartFrame /\ attempt' = attempt /\ pending' = pending /\ heard' = heard
          /\ owned' = owned /\ loop' = loop
      BY <1>2, <1>4, <3>1 DEF RestartFrame, system
    <3>4. owned' \in Sessions \cup {None} /\ loop' \in 0 .. MaxAttempts /\ attempt' \in 0 .. MaxAttempts
          /\ pending' \in BOOLEAN /\ heard' \in BOOLEAN
      BY <1>1, <3>3 DEF TypeOK
    <3>5. ~StartRuns(c, "recovery") /\ at[c]["recovery"] \notin {"draining", "closing"}
      BY <1>4 DEF StartRuns
    <3> QED BY <1>1, <1>2, <1>3, <2>1, <3>2, <3>3, <3>4, <3>5, StopKeeps
  <2>2. CASE ~active
    <3>1. RecoveryEnds /\ UNCHANGED <<calls, stopping>>
      BY <1>4, <2>2
    <3>2. \A d \in Captures : at[d]["recovery"] = "idle"
      BY <1>1, <1>4 DEF IInv, CallsOK
    <3>3. PhaseFrame /\ contested' = contested /\ killed' = killed
      BY <1>2, <1>4, <3>1 DEF PhaseFrame, calls
    <3> QED BY <1>1, <3>1, <3>2, <3>3, PhaseKeeps DEF RecoveryEnds, TypeOK
  <2> QED BY <2>1, <2>2
<1>5. CASE /\ at[c]["recovery"] = "stopped" /\ UNCHANGED <<awaited, stopping>>
           /\ IF active THEN StartCalled(c, "recovery", rescued) /\ UNCHANGED recovery
              ELSE /\ Goto(c, "recovery", "idle", None) /\ RecoveryEnds
                   /\ UNCHANGED <<starting, told, system, killed>>
  <2>1. CASE active
    <3>1. StartCalled(c, "recovery", rescued) /\ UNCHANGED recovery
      BY <1>5, <2>1
    <3>2. Starts(c, "recovery", rescued)
      BY <1>1, <1>2, <3>1, StartCalledStarts
    <3>3. of[c]["recovery"] = rescued
      BY <1>1, <1>5 DEF CallsOK
    <3>4. ASSUME c \notin contested, NEW q \in Callers PROVE ~StartRuns(c, q)
      <4>1. Safe(c) /\ at[c]["start"] = "idle" /\ at[c]["restart"] = "idle"
        BY <1>1, <1>5, <2>1, <3>4 DEF Safe, RecoveryAlone
      <4> QED BY <1>1, <1>5, <4>1 DEF StartRuns, CallsOK, StagesOK, Callers
    <3> QED BY <1>1, <1>2, <1>3, <1>5, <3>1, <3>2, <3>3, <3>4, StartKeeps
  <2>2. CASE ~active
    <3>1. Goto(c, "recovery", "idle", None) /\ RecoveryEnds /\ UNCHANGED <<starting, told, system, killed>>
      BY <1>5, <2>2
    <3> QED BY <1>1, <1>2, <1>5, <3>1, RecoveryRestKeeps DEF RecoveryEnds
  <2> QED BY <2>1, <2>2
<1>6. CASE /\ at[c]["recovery"] = "started" /\ Goto(c, "recovery", "idle", None)
           /\ UNCHANGED <<awaited, stopping, starting, told, system, killed>>
           /\ IF active /\ c = "system"
              THEN phase' = "mic" /\ UNCHANGED <<rescued, active, retried>>
              ELSE IF active /\ session["system"] # rescued /\ ~retried
              THEN phase' = "system" /\ retried' = TRUE /\ UNCHANGED <<rescued, active>>
              ELSE RecoveryEnds
  <2>1. \/ phase' \in Captures /\ UNCHANGED <<rescued, active>> /\ retried' \in BOOLEAN
        \/ RecoveryEnds
    BY <1>1, <1>6 DEF Captures, TypeOK
  <2>2. CASE RecoveryEnds
    BY <1>1, <1>2, <1>6, <2>2, RecoveryRestKeeps DEF RecoveryEnds
  <2>3. CASE phase' \in Captures /\ UNCHANGED <<rescued, active>> /\ retried' \in BOOLEAN
    <3>1. rescued' # None /\ phase' # "none"
      BY <1>2, <2>3, SessionsAssumption DEF Captures
    <3> QED BY <1>1, <1>2, <1>6, <2>3, <3>1, RecoveryRestKeeps DEF TypeOK
  <2> QED BY <2>1, <2>2, <2>3
<1> QED BY <1>4, <1>5, <1>6 DEF RecoveryStep

\* Every step keeps the invariant.
LEMMA NextKeeps == IInv /\ [Next]_vars => IInv'
<1> SUFFICES ASSUME IInv, [Next]_vars PROVE IInv'
  OBVIOUS
<1>1. CASE \E c \in Captures, e \in Sessions : MainStarts(c, e)
  BY <1>1, MainStartsKeeps
<1>2. CASE \E c \in Captures : MainStops(c)
  BY <1>2, MainStopsKeeps
<1>3. CASE DictationTurns
  BY <1>3, DictationTurnsKeeps
<1>4. CASE MicRestartCalled \/ MicRestart
  BY <1>4, MicRestartKeeps
<1>5. CASE SystemFails \/ ChunkArrives
  BY <1>5, SystemCallsKeep
<1>6. CASE SystemRestart
  BY <1>6, SystemRestartKeeps
<1>7. CASE RecoveryBegins
  BY <1>7, RecoveryBeginsKeeps
<1>8. CASE RecoveryTimesOut
  BY <1>8, RecoveryTimesOutKeeps
<1>9. CASE Recovers
  BY <1>9, KillEndsKeeps, RecoveryStepKeeps DEF Recovers
<1>10. CASE SystemClosed
  BY <1>10, SystemClosedKeeps
<1>11. CASE \E c \in Captures, p \in Callers : Calls(c, p)
  <2>1. PICK c \in Captures, p \in Callers : Calls(c, p)
    BY <1>11
  <2>2. CASE StopAwaited(c, p)
    BY <2>2, StopAwaitedKeeps
  <2>3. CASE DictationAwaited(c, p)
    BY <2>3, DictationAwaitedKeeps
  <2>4. CASE Opened(c, p) \/ OpenFails(c, p)
    BY <2>4, OpenKeeps
  <2>5. CASE StartAwaited(c, p)
    BY <2>5, StartAwaitedKeeps
  <2>6. CASE Drained(c, p)
    BY <2>6, DrainedKeeps
  <2>7. CASE Closed(c, p)
    BY <2>7, ClosedKeeps
  <2>8. CASE JoinReturns(c, p)
    BY <2>8, JoinReturnsKeeps
  <2> QED BY <2>1, <2>2, <2>3, <2>4, <2>5, <2>6, <2>7, <2>8 DEF Calls
<1>12. CASE UNCHANGED vars
  BY <1>12, StutterKeeps
<1> QED BY <1>1, <1>2, <1>3, <1>4, <1>5, <1>6, <1>7, <1>8, <1>9, <1>10, <1>11, <1>12 DEF Next, Internal

-----------------------------------------------------------------------------
(* The first two theorems *)

\* Every stream that runs is the one that the variables name, as the code means it to be by
\* starting and stopping captures through StartingPromise and StoppingPromise; none is left
\* running by a start that overlaps a stop, a restart or a recovery.
THEOREM CaptureStreamsAreOwned == Spec => []StreamsOwned
<1>1. Spec => []IInv
  BY InitSafe, NextKeeps, PTL DEF Spec
<1>2. IInv => StreamsOwned
  BY SafeEnough
<1> QED BY <1>1, <1>2, PTL

\* Once the main process's stop has returned nothing of the session that it was for is
\* recorded or about to be, whatever restart or start was under way: the stop awaits the
\* start, takes restartOwnedSession away and ends the system's restarts.
THEOREM CaptureStopIsFinal == Spec => []StopIsFinal
<1>1. Spec => []IInv
  BY InitSafe, NextKeeps, PTL DEF Spec
<1>2. IInv => StopIsFinal
  BY SafeEnough
<1> QED BY <1>1, <1>2, PTL

-----------------------------------------------------------------------------
(* The second invariant *)

\* p is at work, and will start, stop or report.
Works(c, p) == at[c][p] \notin {"idle", "pause", "backoff"}

\* The session that is wanted is recorded, reported or somebody's work.  What this rests on:
\* the main process's stop is for another one, a start has reported its failure before its
\* caller goes on, a stop drains the session that it is for, and a restart of the microphone
\* that is for the session that is wanted still owns it.
Served(c) ==
  /\ at[c]["stop"] # "idle" => of[c]["stop"] # wanted[c]
  /\ \A p \in Callers : at[c][p] = "started" /\ of[c][p] = wanted[c]
                          => session[c] = wanted[c] \/ <<c, wanted[c]>> \in told
  /\ \A p \in Callers : at[c][p] \in {"draining", "closing"} => session[c] = of[c][p]
  /\ \/ wanted[c] = None \/ session[c] = wanted[c] \/ <<c, wanted[c]>> \in told
     \/ \E p \in Callers : Works(c, p) /\ of[c][p] = wanted[c]
  /\ c = "mic" /\ at[c]["restart"] # "idle" /\ of[c]["restart"] = wanted[c] => owned = wanted[c]

\* The second inductive invariant.
AllServed == \A c \in Captures : c \in contested \/ Served(c)

\* It implies the property.
LEMMA ServedEnough == IInv /\ AllServed => LossReported
BY DEF AllServed, Served, LossReported, Works

\* It holds at first.
LEMMA InitServed == Init => AllServed
<1> SUFFICES ASSUME Init, NEW c \in Captures PROVE Served(c)
  BY DEF AllServed
<1>1. \A p \in Callers : at[c][p] = "idle"
  BY DEF Init
<1>2. wanted[c] = None
  BY DEF Init
<1> QED BY <1>1, <1>2 DEF Served, Callers

\* What a step does not take from capture d.
Spared(d) ==
  /\ at'[d] = at[d] /\ of'[d] = of[d] /\ session'[d] = session[d] /\ wanted'[d] = wanted[d]
  /\ \A e \in Sessions : <<d, e>> \in told => <<d, e>> \in told'

\* Such a capture is served as it was.
LEMMA FrameServed ==
  ASSUME NEW d \in Captures, Served(d), Spared(d), d = "mic" => owned' = owned,
         wanted[d] \in Sessions \cup {None}, None \notin Sessions, \A p \in Callers : at[d][p] = "idle" \/ of[d][p] \in Sessions
  PROVE  Served(d)'
<1>1. wanted[d] # None => (<<d, wanted[d]>> \in told => <<d, wanted[d]>> \in told')
  BY DEF Spared
<1>2. ASSUME NEW p \in Callers, at'[d][p] = "started", of'[d][p] = wanted'[d]
      PROVE  session'[d] = wanted'[d] \/ <<d, wanted'[d]>> \in told'
  BY <1>1, <1>2 DEF Spared, Served
<1>3. \/ wanted'[d] = None \/ session'[d] = wanted'[d] \/ <<d, wanted'[d]>> \in told'
      \/ \E p \in Callers : Works(d, p)' /\ of'[d][p] = wanted'[d]
  BY <1>1 DEF Spared, Served, Works
<1> QED BY <1>2, <1>3 DEF Spared, Served

\* A step is about one capture.
LEMMA OneServed ==
  ASSUME IInv, AllServed, NEW c \in Captures, contested \subseteq contested',
         c \notin contested' => Served(c)', \A d \in Captures : d # c => Spared(d),
         c = "mic" \/ owned' = owned
  PROVE  AllServed'
<1> SUFFICES ASSUME NEW d \in Captures, d # c, d \notin contested' PROVE Served(d)'
  BY DEF AllServed
<1>1. Served(d) /\ Spared(d)
  BY DEF AllServed
<1>2. d = "mic" => owned' = owned
  BY DEF Captures
<1>3. wanted[d] \in Sessions \cup {None} /\ None \notin Sessions /\ \A p \in Callers : at[d][p] = "idle" \/ of[d][p] \in Sessions
  BY SessionsAssumption DEF IInv, TypeOK, CallsOK
<1> QED BY <1>1, <1>2, <1>3, FrameServed

\* p goes from one place to another, or leaves, and the capture stays as it is.
LEMMA MoveServed ==
  ASSUME NEW c \in Captures, NEW p \in Callers, NEW s, NEW f,
         Served(c), Rests(c, p, s, f), session'[c] = session[c], wanted'[c] = wanted[c],
         <<c, wanted[c]>> \in told => <<c, wanted[c]>> \in told',
         Works(c, p) /\ of[c][p] = wanted[c] =>
            \/ s \notin {"idle", "pause", "backoff"} /\ f = wanted[c]
            \/ session[c] = wanted[c] \/ <<c, wanted[c]>> \in told' \/ wanted[c] = None,
         s = "started" /\ f = wanted[c] => session[c] = wanted[c] \/ <<c, wanted[c]>> \in told',
         s \in {"draining", "closing"} => session[c] = f,
         p = "stop" => s = "idle" \/ f # wanted[c],
         c = "mic" => \/ at'[c]["restart"] = "idle" \/ owned' = of'[c]["restart"]
                      \/ owned' = owned /\ (p = "restart" => at[c][p] # "idle" /\ f = of[c][p])
  PROVE  Served(c)'
<1>1. at'[c]["stop"] # "idle" => of'[c]["stop"] # wanted'[c]
  BY DEF Rests, Served, Callers
<1>2. ASSUME NEW q \in Callers, at'[c][q] = "started", of'[c][q] = wanted'[c]
      PROVE  session'[c] = wanted'[c] \/ <<c, wanted'[c]>> \in told'
  BY <1>2 DEF Rests, Served
<1>3. ASSUME NEW q \in Callers, at'[c][q] \in {"draining", "closing"} PROVE session'[c] = of'[c][q]
  BY <1>3 DEF Rests, Served
<1>4. \/ wanted'[c] = None \/ session'[c] = wanted'[c] \/ <<c, wanted'[c]>> \in told'
      \/ \E q \in Callers : Works(c, q)' /\ of'[c][q] = wanted'[c]
  <2>1. ASSUME NEW q \in Callers, Works(c, q), of[c][q] = wanted[c], q # p
        PROVE  Works(c, q)' /\ of'[c][q] = wanted'[c]
    BY <2>1 DEF Rests, Works
  <2>2. s \notin {"idle", "pause", "backoff"} /\ f = wanted[c] => Works(c, p)' /\ of'[c][p] = wanted'[c]
    BY DEF Rests, Works
  <2> QED BY <2>1, <2>2 DEF Served
<1>5. c = "mic" /\ at'[c]["restart"] # "idle" /\ of'[c]["restart"] = wanted'[c] => owned' = wanted'[c]
  <2>1. ASSUME c = "mic", at'[c]["restart"] # "idle", owned' # of'[c]["restart"]
        PROVE  at[c]["restart"] # "idle" /\ of'[c]["restart"] = of[c]["restart"] /\ owned' = owned
    BY <2>1 DEF Rests, Callers
  <2> QED BY <2>1 DEF Served
<1> QED BY <1>1, <1>2, <1>3, <1>4, <1>5 DEF Served

LEMMA MovedRests ==
  ASSUME NEW c \in Captures, NEW p \in Callers, NEW s, NEW e, Moved(c, p, s, e) PROVE Rests(c, p, s, e)
BY DEF Moved, Rests

\* A start, whether it ends or waits, serves.
LEMMA StartServed ==
  ASSUME NEW c \in Captures, NEW p \in Callers, p # "stop", NEW e \in Sessions,
         Served(c), session'[c] = session[c], wanted'[c] = wanted[c], owned' = owned,
         at[c][p] # "idle", of[c][p] = e,
         \/ StartLeaves(c, p, e) /\ told' = told \cup {<<c, e>>}
         \/ StartStays(c, p, e) /\ told' = told
  PROVE  Served(c)'
<1>0. <<c, wanted[c]>> \in told => <<c, wanted[c]>> \in told'
  OBVIOUS
<1>1. CASE StartLeaves(c, p, e) /\ told' = told \cup {<<c, e>>} /\ p = "start"
  <2>1. Rests(c, p, "idle", None)
    BY <1>1, MovedRests DEF StartLeaves
  <2> QED BY <1>0, <1>1, <2>1, MoveServed
<1>2. CASE StartLeaves(c, p, e) /\ told' = told \cup {<<c, e>>} /\ p # "start"
  <2>1. Rests(c, p, "started", e)
    BY <1>2, MovedRests DEF StartLeaves
  <2> QED BY <1>0, <1>2, <2>1, MoveServed
<1>3. CASE StartStays(c, p, e) /\ told' = told
  <2>1. PICK s \in {"awaitStop", "awaitDictation", "opening"} : Moved(c, p, s, e)
    BY <1>3 DEF StartStays
  <2>2. Rests(c, p, s, e)
    BY <2>1, MovedRests
  <2> QED BY <1>0, <1>3, <2>2, MoveServed
<1> QED BY <1>1, <1>2, <1>3

\* So does a stop that does not wait for the stream's end.
LEMMA StopServed ==
  ASSUME NEW c \in Captures, NEW p \in Callers, p # "start", NEW e \in Sessions,
         Served(c), session'[c] = session[c], wanted'[c] = wanted[c], told' = told,
         at[c][p] # "idle" => of[c][p] = e,
         p = "stop" => e # wanted[c],
         c = "mic" => \/ owned' = owned /\ (p = "restart" => at[c][p] # "idle")
                      \/ p = "restart" /\ owned' = e,
         StopGoes(c, p, e) \/ StopWaits(c, p, e)
  PROVE  Served(c)'
<1>1. PICK s \in {"stopped", "joined", "draining", "awaitStart"} :
        /\ Moved(c, p, s, e) \/ (p = "stop" /\ Moved(c, p, "idle", None))
        /\ s = "draining" => session[c] = e
  BY DEF StopGoes, StopWaits, Leaves
<1>2. CASE Moved(c, p, s, e)
  <2>1. Rests(c, p, s, e)
    BY <1>2, MovedRests
  <2>2. Works(c, p) => of[c][p] = e
    BY DEF Works
  <2>3. c = "mic" => \/ owned' = of'[c]["restart"]
                     \/ owned' = owned /\ (p = "restart" => at[c][p] # "idle" /\ e = of[c][p])
    BY <1>2 DEF Moved
  <2> QED BY <1>1, <2>1, <2>2, <2>3, MoveServed
<1>3. CASE p = "stop" /\ Moved(c, p, "idle", None)
  <2>1. Rests(c, p, "idle", None)
    BY <1>3, MovedRests
  <2>2. ~(Works(c, p) /\ of[c][p] = wanted[c])
    BY <1>3 DEF Served, Works
  <2> QED BY <1>3, <2>1, <2>2, MoveServed
<1> QED BY <1>1, <1>2, <1>3

\* A stream that opens is recorded, one that does not is reported.
LEMMA OpenServed ==
  ASSUME NEW c \in Captures, NEW p \in Callers, NEW e \in Sessions,
         CallsOK(c), Safe(c), Served(c), at[c][p] = "opening", of[c][p] = e, StartLeaves(c, p, e),
         \A q \in Callers : ~Continues(c, q), wanted'[c] = wanted[c], owned' = owned,
         \/ session'[c] = e /\ told' = told \ {<<c, e>>}
         \/ session'[c] = None /\ told' = told \cup {<<c, e>>}
  PROVE  Served(c)'
<1>1. session[c] = None /\ stopping[c] = None /\ p # "stop" /\ e # None
  BY SessionsAssumption DEF Safe, OneStart, CallsOK, StagesOK
<1>2. \A q \in Callers : at[c][q] \notin {"draining", "closing", "started"}
  BY <1>1, NoneAssumption DEF CallsOK, Continues
<1>3. \A q \in Callers : q # p => at'[c][q] = at[c][q] /\ of'[c][q] = of[c][q]
  BY DEF StartLeaves, Moved
<1>4. \/ at'[c][p] = "idle" /\ p = "start"
      \/ at'[c][p] = "started" /\ of'[c][p] = e
  BY DEF StartLeaves, Moved
<1>5. at'[c]["stop"] = at[c]["stop"] /\ of'[c]["stop"] = of[c]["stop"]
  BY <1>1, <1>3 DEF Callers
<1>6. \A q \in Callers : at'[c][q] \notin {"draining", "closing"} /\ (at'[c][q] = "started" => q = p)
  BY <1>2, <1>3, <1>4
<1>7. wanted[c] = e => session'[c] = wanted[c] \/ <<c, wanted[c]>> \in told'
  OBVIOUS
<1>8. \/ wanted'[c] = None \/ session'[c] = wanted'[c] \/ <<c, wanted'[c]>> \in told'
      \/ \E q \in Callers : Works(c, q)' /\ of'[c][q] = wanted'[c]
  <2>1. CASE wanted[c] # e /\ wanted[c] # None
    <3>1. <<c, wanted[c]>> \in told => <<c, wanted[c]>> \in told'
      BY <2>1
    <3>2. ASSUME NEW q \in Callers, Works(c, q), of[c][q] = wanted[c] PROVE Works(c, q)' /\ of'[c][q] = wanted'[c]
      BY <1>3, <2>1, <3>2 DEF Works
    <3> QED BY <1>1, <2>1, <3>1, <3>2 DEF Served
  <2> QED BY <1>7, <2>1
<1>9. c = "mic" /\ at'[c]["restart"] # "idle" => at[c]["restart"] # "idle" /\ of'[c]["restart"] = of[c]["restart"]
  BY <1>3, <1>4 DEF Callers
<1> QED BY <1>4, <1>5, <1>6, <1>7, <1>8, <1>9 DEF Served

\* A closed capture is left to whoever closed it.
LEMMA CloseServed ==
  ASSUME NEW c \in Captures, NEW p \in Callers, NEW s \in {"idle", "stopped"}, NEW e,
         CallsOK(c), Served(c), at[c][p] = "closing", Rests(c, p, s, e),
         s = "stopped" => e = of[c][p], s = "idle" => p = "stop",
         \A q \in Callers : ~Continues(c, q),
         session'[c] = None, wanted'[c] = wanted[c], owned' = owned, told' = told
  PROVE  Served(c)'
<1>1. \A q \in Callers : q # p => at[c][q] \notin {"draining", "closing"}
  BY DEF CallsOK
<1>2. \A q \in Callers : at[c][q] # "started"
  BY DEF Continues
<1>3. \A q \in Callers : at'[c][q] \notin {"draining", "closing", "started"}
  BY <1>1, <1>2 DEF Rests
<1>4. at'[c]["stop"] # "idle" => /\ at[c]["stop"] # "idle" /\ of'[c]["stop"] = of[c]["stop"]
  BY DEF Rests, Callers
<1>5. at'[c]["restart"] # "idle" => at[c]["restart"] # "idle" /\ of'[c]["restart"] = of[c]["restart"]
  BY DEF Rests, Callers
<1>6. \/ wanted'[c] = None \/ session'[c] = wanted'[c] \/ <<c, wanted'[c]>> \in told'
      \/ \E q \in Callers : Works(c, q)' /\ of'[c][q] = wanted'[c]
  <2>1. ASSUME NEW q \in Callers, Works(c, q), of[c][q] = wanted[c] PROVE Works(c, q)' /\ of'[c][q] = wanted'[c]
    <3>1. CASE q = p
      BY <2>1, <3>1 DEF Served, Rests, Works
    <3>2. CASE q # p
      BY <2>1, <3>2 DEF Rests, Works
    <3> QED BY <3>1, <3>2
  <2>2. ASSUME session[c] = wanted[c] PROVE Works(c, p) /\ of[c][p] = wanted[c]
    BY <2>2 DEF Served, Works
  <2> QED BY <2>1, <2>2 DEF Served
<1> QED BY <1>3, <1>4, <1>5, <1>6 DEF Served

\* The main process's start is at work for what it wants,
LEMMA MainStartServed ==
  ASSUME NEW c \in Captures, NEW e \in Sessions, CallsOK(c), Safe(c), Served(c),
         e \in fresh[c], wanted'[c] = e, session'[c] = session[c], owned' = owned,
         \/ StartLeaves(c, "start", e) /\ told' = told \cup {<<c, e>>}
         \/ StartStays(c, "start", e) /\ told' = told
  PROVE  Served(c)'
<1>1. \A q \in Callers : q # "start" => at'[c][q] = at[c][q] /\ of'[c][q] = of[c][q] /\ of[c][q] # e
  BY DEF StartLeaves, StartStays, Moved, Safe, FreshIsNew
<1>2. \/ at'[c]["start"] = "idle" /\ <<c, e>> \in told'
      \/ at'[c]["start"] \in {"awaitStop", "awaitDictation", "opening"} /\ of'[c]["start"] = e
  BY DEF StartLeaves, StartStays, Moved
<1>3. \/ <<c, wanted'[c]>> \in told'
      \/ \E q \in Callers : Works(c, q)' /\ of'[c][q] = wanted'[c]
  BY <1>2 DEF Works, Callers
<1>4. ASSUME NEW q \in Callers
      PROVE  /\ at'[c][q] = "started" => of'[c][q] # wanted'[c]
             /\ at'[c][q] \in {"draining", "closing"} => session'[c] = of'[c][q]
  BY <1>1, <1>2 DEF Served
<1> QED BY <1>1, <1>3, <1>4 DEF Served, Callers

\* and after its stop nothing is wanted.
LEMMA MainStopServed ==
  ASSUME NEW c \in Captures, NEW e \in Sessions, CallsOK(c), Served(c),
         at[c]["stop"] = "idle", wanted'[c] = None, session'[c] = session[c],
         StopWaits(c, "stop", e) \/ StopGoes(c, "stop", e)
  PROVE  Served(c)'
<1>0. e # None
  BY SessionsAssumption
<1>1. \A q \in Callers : q # "stop" => at'[c][q] = at[c][q] /\ of'[c][q] = of[c][q]
  BY DEF StopWaits, StopGoes, Leaves, Moved
<1>2. \/ at'[c]["stop"] = "idle"
      \/ at'[c]["stop"] \in {"awaitStart", "joined"} /\ of'[c]["stop"] = e
      \/ at'[c]["stop"] = "draining" /\ of'[c]["stop"] = e /\ session[c] = e
  BY DEF StopWaits, StopGoes, Leaves, Moved
<1>3. ASSUME NEW q \in Callers
      PROVE  /\ at'[c][q] = "started" => of'[c][q] # wanted'[c]
             /\ at'[c][q] \in {"draining", "closing"} => session'[c] = of'[c][q]
  BY <1>1, <1>2, SessionsAssumption DEF Served, CallsOK
<1>4. at'[c]["restart"] # "idle" => of'[c]["restart"] # None
  BY <1>1, SessionsAssumption DEF CallsOK, Callers
<1> QED BY <1>0, <1>2, <1>3, <1>4 DEF Served

\* The same for the actions.
LEMMA StartActionServed ==
  ASSUME IInv, AllServed, NEW c \in Captures, NEW p \in Callers, p # "stop", NEW e \in Sessions, Starts(c, p, e),
         at[c][p] # "idle", of[c][p] = e,
         UNCHANGED <<main, capture, owned, contested>>
  PROVE  AllServed'
<1>1. wanted' = wanted /\ session' = session
  BY DEF main, capture
<1>2. \/ StartLeaves(c, p, e) /\ told' = told \cup {<<c, e>>}
      \/ StartStays(c, p, e) /\ told' = told
  BY DEF Starts
<1>3. ASSUME c \notin contested' PROVE Served(c)'
  <2>1. Served(c)
    BY <1>3 DEF AllServed
  <2> QED BY <1>1, <1>2, <2>1, StartServed
<1>4. \A d \in Captures : d # c => Spared(d)
  BY <1>1, <1>2 DEF Spared, StartLeaves, StartStays, Moved
<1> QED BY <1>3, <1>4, OneServed

LEMMA StopActionServed ==
  ASSUME IInv, AllServed, NEW c \in Captures, NEW p \in {"restart", "recovery"}, NEW e \in Sessions, Stops(c, p, e),
         UNCHANGED <<main, capture, told, contested>>,
         at[c][p] # "idle" => of[c][p] = e,
         \/ owned' = owned /\ (c = "mic" /\ p = "restart" => at[c][p] # "idle")
         \/ c = "mic" /\ p = "restart" /\ owned' = e
  PROVE  AllServed'
<1>1. wanted' = wanted /\ session' = session
  BY DEF main, capture
<1>2. StopGoes(c, p, e) \/ StopWaits(c, p, e)
  BY DEF Stops
<1>a. p \in Callers /\ p # "start" /\ p # "stop"
  BY DEF Callers
<1>3. ASSUME c \notin contested' PROVE Served(c)'
  <2>1. Served(c)
    BY <1>3 DEF AllServed
  <2> QED BY <1>1, <1>2, <1>a, <2>1, StopServed
<1>4. \A d \in Captures : d # c => Spared(d)
  BY <1>1 DEF Spared, Stops
<1> QED BY <1>3, <1>4, OneServed

\* p leaves, and is not at work for the session that is wanted, or need not be.
LEMMA RestActionServed ==
  ASSUME IInv, AllServed, NEW c \in Captures, NEW p \in Callers, NEW s, NEW f, Moved(c, p, s, f),
         UNCHANGED <<main, told>>, session' = session, contested \subseteq contested',
         s \notin {"started", "draining", "closing"},
         c \notin contested' /\ Works(c, p) /\ of[c][p] = wanted[c] =>
            \/ s \notin {"idle", "pause", "backoff"} /\ f = wanted[c]
            \/ session[c] = wanted[c] \/ <<c, wanted[c]>> \in told,
         p = "stop" => s = "idle",
         owned' = owned \/ (c = "mic" /\ p = "restart" /\ s = "idle"),
         c = "mic" /\ p = "restart" => s = "idle" \/ (at[c][p] # "idle" /\ f = of[c][p])
  PROVE  AllServed'
<1>1. wanted' = wanted /\ told' = told
  BY DEF main
<1>2. Rests(c, p, s, f)
  BY MovedRests
<1>3. ASSUME c \notin contested' PROVE Served(c)'
  <2>1. Served(c)
    BY <1>3 DEF AllServed
  <2>2. c = "mic" /\ p = "restart" /\ s = "idle" => at'[c]["restart"] = "idle"
    BY DEF Moved
  <2> QED BY <1>1, <1>2, <1>3, <2>1, <2>2, MoveServed
<1>4. \A d \in Captures : d # c => Spared(d)
  BY <1>1 DEF Spared, Moved
<1>5. c = "mic" \/ owned' = owned
  OBVIOUS
<1> QED BY <1>3, <1>4, <1>5, OneServed

\* Steps that move no caller.
LEMMA StayServed ==
  ASSUME IInv, AllServed, UNCHANGED <<main, told, at, of, session, owned>>, contested \subseteq contested'
  PROVE  AllServed'
<1>1. wanted' = wanted /\ told' = told /\ at' = at /\ of' = of /\ session' = session /\ owned' = owned
  BY DEF main
<1> SUFFICES ASSUME NEW d \in Captures, d \notin contested' PROVE Served(d)'
  BY DEF AllServed
<1>2. Served(d) /\ Spared(d)
  BY <1>1 DEF AllServed, Spared
<1>3. wanted[d] \in Sessions \cup {None} /\ None \notin Sessions /\ \A p \in Callers : at[d][p] = "idle" \/ of[d][p] \in Sessions
  BY SessionsAssumption DEF IInv, TypeOK, CallsOK
<1> QED BY <1>1, <1>2, <1>3, FrameServed

-----------------------------------------------------------------------------
(* The actions keep the second invariant *)

\* The steps of starts and stops serve.
LEMMA CallsServe ==
  ASSUME IInv, AllServed, NEW c \in Captures, NEW p \in Callers, Calls(c, p) PROVE AllServed'
<1>1. /\ TypeOK /\ CallsOK(c) /\ (c \notin contested => Safe(c) /\ Served(c)) /\ CallTypes
      /\ of[c][p] \in Sessions \cup {None}
  BY TypesOfCalls DEF IInv, AllServed, TypeOK
<1>2. CASE StopAwaited(c, p)
  <2>1. p # "stop" /\ of[c][p] \in Sessions /\ at[c][p] # "idle"
    BY <1>1, <1>2 DEF CallsOK, StagesOK, StopAwaited
  <2>2. Starts(c, p, of[c][p])
    BY <1>1, <1>2, <2>1, AdmitStarts DEF StopAwaited
  <2> QED BY <1>2, <2>1, <2>2, StartActionServed DEF StopAwaited
<1>3. CASE DictationAwaited(c, p)
  <2>1. p # "stop" /\ of[c][p] \in Sessions /\ at[c][p] # "idle"
    BY <1>1, <1>3 DEF CallsOK, StagesOK, DictationAwaited
  <2>2. Starts(c, p, of[c][p])
    <3>1. CASE dictating
      <4>1. StartReturns(c, p, of[c][p], TRUE) /\ SystemTypes
        BY <1>1, <1>3, <3>1 DEF DictationAwaited, SystemTypes, system, TypeOK
      <4> QED BY <1>1, <2>1, <4>1, StartReturnsMoves DEF Starts
    <3>2. CASE ~dictating
      BY <1>1, <1>3, <2>1, <3>2, TryOpenStarts DEF DictationAwaited
    <3> QED BY <3>1, <3>2
  <2> QED BY <1>3, <2>1, <2>2, StartActionServed DEF DictationAwaited
<1>4. CASE Opened(c, p) \/ OpenFails(c, p)
  <2>1. p # "stop" /\ of[c][p] \in Sessions /\ at[c][p] = "opening" /\ Quiescent
    BY <1>1, <1>4 DEF CallsOK, StagesOK, Opened, OpenFails
  <2>2. wanted' = wanted /\ owned' = owned /\ contested' = contested
    BY <1>4 DEF Opened, OpenFails, main
  <2>3. /\ StartLeaves(c, p, of[c][p])
        /\ \/ session'[c] = of[c][p] /\ told' = told \ {<<c, of[c][p]>>}
           \/ session'[c] = None /\ told' = told \cup {<<c, of[c][p]>>}
        /\ \A d \in Captures : d # c => session'[d] = session[d]
    <3>1. CASE Opened(c, p)
      <4>1. StartReturns(c, p, of[c][p], FALSE) /\ session' = [session EXCEPT ![c] = of[c][p]]
        BY <3>1 DEF Opened
      <4>2. StartLeaves(c, p, of[c][p]) /\ told' = told \ {<<c, of[c][p]>>}
        BY <1>1, <2>1, <4>1, StartReturnsMoves
      <4> QED BY <1>1, <4>1, <4>2 DEF TypeOK
    <3>2. CASE OpenFails(c, p)
      <4>1. StartReturns(c, p, of[c][p], TRUE) /\ session' = [session EXCEPT ![c] = None]
        BY <3>2 DEF OpenFails
      <4>2. StartLeaves(c, p, of[c][p]) /\ told' = told \cup {<<c, of[c][p]>>}
        BY <1>1, <2>1, <4>1, StartReturnsMoves
      <4> QED BY <1>1, <4>1, <4>2 DEF TypeOK
    <3> QED BY <1>4, <3>1, <3>2
  <2>4. ASSUME c \notin contested' PROVE Served(c)'
    <3>1. Safe(c) /\ Served(c) /\ \A q \in Callers : ~Continues(c, q)
      BY <1>1, <2>1, <2>2, <2>4 DEF Quiescent
    <3> QED BY <1>1, <2>1, <2>2, <2>3, <3>1, OpenServed
  <2>5. \A d \in Captures : d # c => Spared(d)
    BY <2>2, <2>3 DEF Spared, StartLeaves, Moved
  <2> QED BY <2>2, <2>4, <2>5, OneServed
<1>5. CASE StartAwaited(c, p)
  <2>1. p # "start" /\ of[c][p] \in Sessions /\ at[c][p] = "awaitStart" /\ TryStop(c, p, of[c][p])
    BY <1>1, <1>5 DEF CallsOK, StagesOK, StartAwaited
  <2>2. wanted' = wanted /\ owned' = owned /\ contested' = contested /\ session' = session /\ told' = told
    BY <1>5 DEF StartAwaited, main, capture
  <2>3. /\ StopGoes(c, p, of[c][p])
        /\ \A d \in Captures : d # c => at'[d] = at[d] /\ of'[d] = of[d]
    BY <1>1, <2>1, TryStopStops
  <2>4. ASSUME c \notin contested' PROVE Served(c)'
    <3>1. Served(c) /\ (p = "stop" => of[c][p] # wanted[c])
      BY <1>1, <2>1, <2>2, <2>4 DEF Served
    <3> QED BY <1>1, <2>1, <2>2, <2>3, <3>1, StopServed
  <2>5. \A d \in Captures : d # c => Spared(d)
    BY <2>2, <2>3 DEF Spared
  <2> QED BY <2>2, <2>4, <2>5, OneServed
<1>6. CASE Drained(c, p)
  <2>1. at[c][p] = "draining" /\ Goto(c, p, "closing", of[c][p])
    BY <1>6 DEF Drained
  <2>2. wanted' = wanted /\ owned' = owned /\ contested' = contested /\ session' = session /\ told' = told
    BY <1>6 DEF Drained, main
  <2>3. Moved(c, p, "closing", of[c][p])
    <3>1. "closing" \in Stage
      BY DEF Stage
    <3> QED BY <1>1, <2>1, <3>1, GotoMoves
  <2>4. ASSUME c \notin contested' PROVE Served(c)'
    <3>1. Served(c) /\ Rests(c, p, "closing", of[c][p])
      BY <1>1, <2>2, <2>3, <2>4, MovedRests
    <3>2. session[c] = of[c][p] /\ (p = "stop" => of[c][p] # wanted[c])
      BY <2>1, <3>1 DEF Served
    <3> QED BY <2>1, <2>2, <3>1, <3>2, MoveServed
  <2>5. \A d \in Captures : d # c => Spared(d)
    BY <2>2, <2>3 DEF Spared, Moved
  <2> QED BY <2>2, <2>4, <2>5, OneServed
<1>7. CASE Closed(c, p)
  <2>1. at[c][p] = "closing" /\ Quiescent /\ Closes(c) /\ Returns(c, p, "stopped", of[c][p]) /\ contested' = contested
    BY <1>7 DEF Closed
  <2>2. p # "start"
    BY <1>1, <2>1 DEF CallsOK, StagesOK
  <2>3. Leaves(c, p, of[c][p])
    <3>1. "stopped" \in Stage
      BY DEF Stage
    <3> QED BY <1>1, <2>1, <2>2, <3>1, ReturnMoves DEF Leaves
  <2>4. /\ wanted' = wanted /\ owned' = owned /\ told' = told /\ session'[c] = None
        /\ \A d \in Captures : d # c => session'[d] = session[d]
    BY <1>1, <2>1, ClosesTypes
  <2>5. PICK s \in {"idle", "stopped"}, f \in Sessions \cup {None} :
          Rests(c, p, s, f) /\ (s = "stopped" => f = of[c][p]) /\ (s = "idle" => p = "stop")
    BY <1>1, <2>3, MovedRests DEF Leaves
  <2>6. ASSUME c \notin contested' PROVE Served(c)'
    <3>1. Served(c) /\ \A q \in Callers : ~Continues(c, q)
      BY <1>1, <2>1, <2>6 DEF Quiescent
    <3> QED BY <1>1, <2>1, <2>4, <2>5, <3>1, CloseServed
  <2>7. \A d \in Captures : d # c => Spared(d)
    BY <2>3, <2>4 DEF Spared, Leaves, Moved
  <2> QED BY <2>1, <2>4, <2>6, <2>7, OneServed
<1>8. CASE JoinReturns(c, p)
  <2>1. at[c][p] = "joined" /\ Returns(c, p, "stopped", of[c][p]) /\ session' = session
        /\ owned' = owned /\ contested' = contested /\ UNCHANGED <<main, told>>
    BY <1>8 DEF JoinReturns, capture
  <2>2. p # "start"
    BY <1>1, <2>1 DEF CallsOK, StagesOK
  <2>3. Leaves(c, p, of[c][p])
    <3>1. "stopped" \in Stage
      BY DEF Stage
    <3> QED BY <1>1, <2>1, <2>2, <3>1, ReturnMoves DEF Leaves
  <2>4. CASE p = "stop"
    <3>1. Moved(c, p, "idle", None)
      BY <2>3, <2>4 DEF Leaves
    <3>2. c \notin contested' => of[c][p] # wanted[c]
      BY <1>1, <2>1, <2>4 DEF Served
    <3>3. /\ contested \subseteq contested' /\ ~(c = "mic" /\ p = "restart") /\ owned' = owned
          /\ session' = session /\ "idle" \notin {"started", "draining", "closing"}
      BY <2>1, <2>4
    <3>4. UNCHANGED <<main, told>>
      BY <2>1
    <3> QED BY <3>1, <3>2, <3>3, <3>4, RestActionServed
  <2>5. CASE p # "stop"
    <3>1. Moved(c, p, "stopped", of[c][p])
      BY <2>1, <2>3, <2>5 DEF Leaves
    <3>2. /\ contested \subseteq contested' /\ at[c][p] # "idle" /\ owned' = owned
          /\ session' = session /\ "stopped" \notin {"started", "draining", "closing"}
          /\ "stopped" \notin {"idle", "pause", "backoff"}
      BY <2>1
    <3>3. UNCHANGED <<main, told>>
      BY <2>1
    <3> QED BY <2>5, <3>1, <3>2, <3>3, RestActionServed
  <2> QED BY <2>4, <2>5
<1> QED BY <1>2, <1>3, <1>4, <1>5, <1>6, <1>7, <1>8 DEF Calls

LEMMA SystemClosedServes == ASSUME IInv, AllServed, SystemClosed PROVE AllServed'
<1> DEFINE c == "system"
           over == {"stop"} \cup (IF at["system"]["restart"] = "backoff" THEN {"restart"} ELSE {})
<1>0. c \in Captures /\ "stop" \in Callers /\ TypeOK /\ CallsOK(c) /\ (c \notin contested => Served(c))
  BY DEF Captures, Callers, IInv, AllServed
<1>1. /\ at[c]["stop"] = "closing" /\ Quiescent /\ Closes(c) /\ contested \subseteq contested'
      /\ at' = [at EXCEPT !["system"] = [p \in Callers |-> IF p \in over THEN "idle" ELSE @[p]]]
      /\ of' = [of EXCEPT !["system"] = [p \in Callers |-> IF p \in over THEN None ELSE @[p]]]
  BY DEF SystemClosed, Abandons
<1>2. \A d \in Captures : d # c => at'[d] = at[d] /\ of'[d] = of[d]
  BY <1>0, <1>1 DEF TypeOK
<1>3. Rests(c, "stop", "idle", None)
  <2>1. \A q \in Callers : /\ at'[c][q] = IF q \in over THEN "idle" ELSE at[c][q]
                           /\ of'[c][q] = IF q \in over THEN None ELSE of[c][q]
    BY <1>0, <1>1 DEF TypeOK
  <2> QED BY <1>0, <2>1 DEF Rests, Callers
<1> HIDE DEF c, over
<1>4. /\ wanted' = wanted /\ owned' = owned /\ told' = told /\ session'[c] = None
      /\ \A d \in Captures : d # c => session'[d] = session[d]
  BY <1>0, <1>1, ClosesTypes
<1>5. ASSUME c \notin contested' PROVE Served(c)'
  <2>1. Served(c) /\ \A q \in Callers : ~Continues(c, q)
    BY <1>0, <1>1, <1>5 DEF Quiescent
  <2> QED BY <1>0, <1>1, <1>3, <1>4, <2>1, CloseServed
<1>6. \A d \in Captures : d # c => Spared(d)
  BY <1>2, <1>4 DEF Spared
<1> QED BY <1>0, <1>1, <1>4, <1>5, <1>6, OneServed

LEMMA MainServes ==
  ASSUME IInv, AllServed,
         \/ \E c \in Captures, e \in Sessions : MainStarts(c, e)
         \/ \E c \in Captures : MainStops(c)
  PROVE  AllServed'
<1>1. ASSUME NEW c \in Captures, NEW e \in Sessions, MainStarts(c, e) PROVE AllServed'
  <2>1. /\ TypeOK /\ CallsOK(c) /\ "start" \in Callers /\ "start" # "stop"
        /\ e \in fresh[c] /\ c \notin contested /\ wanted' = [wanted EXCEPT ![c] = e] /\ StartCalled(c, "start", e)
        /\ session' = session /\ owned' = owned /\ contested' = contested
    BY <1>1 DEF MainStarts, capture, IInv, Callers
  <2>2. Safe(c) /\ Served(c)
    BY <2>1 DEF IInv, AllServed
  <2>3. \/ StartLeaves(c, "start", e) /\ told' = told \cup {<<c, e>>}
        \/ StartStays(c, "start", e) /\ told' = told
    BY <2>1, StartCalledStarts DEF Starts
  <2>4. wanted'[c] = e /\ \A d \in Captures : d # c => wanted'[d] = wanted[d]
    BY <2>1 DEF TypeOK
  <2>5. Served(c)'
    BY <2>1, <2>2, <2>3, <2>4, MainStartServed
  <2>6. \A d \in Captures : d # c => Spared(d)
    BY <2>1, <2>3, <2>4 DEF Spared, StartLeaves, StartStays, Moved
  <2> QED BY <2>1, <2>5, <2>6, OneServed
<1>2. ASSUME NEW c \in Captures, MainStops(c) PROVE AllServed'
  <2>1. /\ TypeOK /\ CallsOK(c) /\ "stop" \in Callers /\ "stop" # "start" /\ wanted[c] \in Sessions
        /\ at[c]["stop"] = "idle" /\ wanted' = [wanted EXCEPT ![c] = None] /\ StopCalled(c, "stop", wanted[c])
        /\ session' = session /\ told' = told /\ contested \subseteq contested' /\ (c = "mic" \/ owned' = owned)
    BY <1>2 DEF MainStops, capture, IInv, Callers, TypeOK
  <2>2. Stops(c, "stop", wanted[c])
    BY <2>1, StopCalledStops
  <2>3. wanted'[c] = None /\ \A d \in Captures : d # c => wanted'[d] = wanted[d]
    BY <2>1 DEF TypeOK
  <2>4. ASSUME c \notin contested' PROVE Served(c)'
    <3>1. Served(c)
      BY <2>1, <2>4 DEF AllServed
    <3> QED BY <2>1, <2>2, <2>3, <3>1, MainStopServed DEF Stops
  <2>5. \A d \in Captures : d # c => Spared(d)
    BY <2>1, <2>2, <2>3 DEF Spared, Stops
  <2> QED BY <2>1, <2>4, <2>5, OneServed
<1> QED BY <1>1, <1>2

\* The steps of restarts and recoveries: an end or a pause, a stop and a start.
LEMMA GotoRests ==
  ASSUME IInv, AllServed, NEW c \in Captures, NEW p \in Callers, NEW s \in {"idle", "pause", "backoff"},
         NEW f \in Sessions \cup {None}, Goto(c, p, s, f), p \notin {"start", "stop"},
         UNCHANGED <<main, told>>, session' = session, contested \subseteq contested',
         c \notin contested' /\ Works(c, p) /\ of[c][p] = wanted[c] =>
            session[c] = wanted[c] \/ <<c, wanted[c]>> \in told,
         owned' = owned \/ (c = "mic" /\ p = "restart" /\ s = "idle"),
         c = "mic" /\ p = "restart" => s = "idle" \/ (at[c][p] # "idle" /\ f = of[c][p])
  PROVE  AllServed'
<1>1. Moved(c, p, s, f)
  <2>1. s \in Stage /\ CallTypes
    BY TypesOfCalls DEF Stage, IInv
  <2> QED BY <2>1, GotoMoves
<1>2. s \notin {"started", "draining", "closing"} /\ p # "stop"
  OBVIOUS
<1> QED BY <1>1, <1>2, RestActionServed

LEMMA StopCallServes ==
  ASSUME IInv, AllServed, NEW c \in Captures, NEW p \in {"restart", "recovery"}, NEW e \in Sessions,
         StopCalled(c, p, e), UNCHANGED <<main, capture, told, contested>>,
         at[c][p] # "idle" => of[c][p] = e,
         \/ owned' = owned /\ (c = "mic" /\ p = "restart" => at[c][p] # "idle")
         \/ c = "mic" /\ p = "restart" /\ owned' = e
  PROVE  AllServed'
<1>1. TypeOK /\ p \in Callers /\ p # "start"
  BY DEF IInv, Callers
<1>2. Stops(c, p, e)
  BY <1>1, StopCalledStops
<1> QED BY <1>2, StopActionServed

LEMMA StartCallServes ==
  ASSUME IInv, AllServed, NEW c \in Captures, NEW p \in {"restart", "recovery"}, NEW e \in Sessions,
         StartCalled(c, p, e), UNCHANGED <<main, capture, owned, contested>>,
         at[c][p] # "idle", of[c][p] = e
  PROVE  AllServed'
<1>1. TypeOK /\ p \in Callers /\ p # "stop"
  BY DEF IInv, Callers
<1>2. Starts(c, p, e)
  BY <1>1, StartCalledStarts
<1> QED BY <1>1, <1>2, StartActionServed

LEMMA MicRestartServes == ASSUME IInv, AllServed, MicRestartCalled \/ MicRestart PROVE AllServed'
<1> DEFINE c == "mic"  e == of[c]["restart"]
<1>1. /\ TypeOK /\ CallsOK(c) /\ c \in Captures /\ "restart" \in Callers /\ (c \notin contested => Served(c))
      /\ "restart" \in {"restart", "recovery"} /\ "restart" \notin {"start", "stop"}
      /\ None \in Sessions \cup {None} /\ e \in Sessions \cup {None}
  BY DEF IInv, AllServed, Captures, Callers, TypeOK
<1>2. CASE MicRestartCalled
  <2>1. /\ session[c] # None /\ at[c]["restart"] = "idle" /\ owned' = session[c]
        /\ StopCalled(c, "restart", session[c]) /\ UNCHANGED <<main, told, capture, contested>>
    BY <1>2 DEF MicRestartCalled
  <2>2. session[c] \in Sessions
    BY <1>1, <2>1 DEF TypeOK
  <2> QED BY <1>1, <2>1, <2>2, StopCallServes
<1>3. ASSUME MicRestartEnds, UNCHANGED <<main, told, capture, contested>>,
             c \notin contested /\ Works(c, "restart") /\ e = wanted[c] =>
               session[c] = wanted[c] \/ <<c, wanted[c]>> \in told
      PROVE  AllServed'
  <2>1. Goto(c, "restart", "idle", None)
    BY <1>3 DEF MicRestartEnds
  <2>2. UNCHANGED <<main, told>> /\ session' = session /\ contested' = contested
    BY <1>3 DEF capture
  <2>3. c \notin contested' /\ Works(c, "restart") /\ e = wanted[c] =>
               session[c] = wanted[c] \/ <<c, wanted[c]>> \in told
    BY <1>3, <2>2
  <2>4. "idle" \in {"idle", "pause", "backoff"} /\ contested \subseteq contested' /\ c = "mic" /\ e = of[c]["restart"]
    BY <2>2
  <2> HIDE DEF c, e
  <2> QED BY <1>1, <2>1, <2>2, <2>3, <2>4, GotoRests
<1>4. CASE MicRestartStopped
  <2>1. at[c]["restart"] = "stopped" /\ e \in Sessions
    BY <1>1, <1>4 DEF MicRestartStopped, CallsOK
  <2>2. CASE owned # e
    <3>1. MicRestartEnds /\ UNCHANGED <<main, told, capture, contested>>
      BY <1>4, <2>2 DEF MicRestartStopped
    <3>2. c \notin contested => e # wanted[c]
      BY <1>1, <2>1, <2>2 DEF Served
    <3> QED BY <1>3, <3>1, <3>2
  <2>3. CASE owned = e
    <3>1. StartCalled(c, "restart", e) /\ UNCHANGED <<main, capture, owned, contested>>
      BY <1>4, <2>3 DEF MicRestartStopped
    <3> QED BY <1>1, <2>1, <3>1, StartCallServes
  <2> QED BY <2>2, <2>3
<1>5. CASE MicRestartStarted
  <2>1. at[c]["restart"] = "started" /\ UNCHANGED <<main, told, capture, contested>>
    BY <1>5 DEF MicRestartStarted
  <2>2. c \notin contested /\ e = wanted[c] => session[c] = wanted[c] \/ <<c, wanted[c]>> \in told
    BY <1>1, <2>1 DEF Served
  <2>3. CASE session[c] = e
    <3>1. MicRestartEnds
      BY <1>5, <2>3 DEF MicRestartStarted
    <3> QED BY <1>3, <2>1, <2>2, <3>1
  <2>4. CASE session[c] # e
    <3>1. Goto(c, "restart", "pause", e) /\ owned' = owned
      BY <1>5, <2>4 DEF MicRestartStarted
    <3>2. UNCHANGED <<main, told>> /\ session' = session /\ contested' = contested
      BY <2>1 DEF capture
    <3>3. "pause" \in {"idle", "pause", "backoff"} /\ contested \subseteq contested'
          /\ at[c]["restart"] # "idle" /\ e = of[c]["restart"]
      BY <2>1, <3>2
    <3>4. c \notin contested' /\ Works(c, "restart") /\ e = wanted[c] =>
               session[c] = wanted[c] \/ <<c, wanted[c]>> \in told
      BY <2>2, <3>2
    <3> HIDE DEF c, e
    <3> QED BY <1>1, <3>1, <3>2, <3>3, <3>4, GotoRests
  <2> QED BY <2>3, <2>4
<1>6. CASE MicRestartAgain
  <2>1. /\ at[c]["restart"] = "pause" /\ e \in Sessions /\ UNCHANGED <<main, told, capture, contested>>
        /\ ~Works(c, "restart")
    BY <1>1, <1>6 DEF MicRestartAgain, CallsOK, Works
  <2>2. CASE loop < MaxAttempts /\ MayProceed(e)
    <3>1. StopCalled(c, "restart", e) /\ owned' = owned
      BY <1>6, <2>2 DEF MicRestartAgain
    <3> QED BY <1>1, <2>1, <3>1, StopCallServes
  <2>3. CASE ~(loop < MaxAttempts /\ MayProceed(e))
    <3>1. MicRestartEnds
      BY <1>6, <2>3 DEF MicRestartAgain
    <3> QED BY <1>3, <2>1, <3>1
  <2> QED BY <2>2, <2>3
<1> QED BY <1>2, <1>4, <1>5, <1>6 DEF MicRestart

\* The system's restart, called or deferred, gives up nothing that it has begun.
LEMMA RestartSystemServes ==
  ASSUME IInv, AllServed, NEW deferred \in BOOLEAN, RestartSystem(deferred),
         UNCHANGED <<main, told, capture, owned, contested>>, session["system"] # None
  PROVE  AllServed'
<1>1. "system" \in Captures /\ session["system"] \in Sessions
  BY DEF IInv, TypeOK, Captures
<1>2. \/ UNCHANGED calls
      \/ at["system"]["restart"] = "idle" /\ StopCalled("system", "restart", session["system"])
      \/ at["system"]["restart"] = "idle" /\ Goto("system", "restart", "backoff", session["system"])
  BY DEF RestartSystem, Execute
<1>3. CASE UNCHANGED calls
  BY <1>3, StayServed DEF calls, capture
<1>4. CASE at["system"]["restart"] = "idle" /\ StopCalled("system", "restart", session["system"])
  BY <1>1, <1>4, StopCallServes
<1>5. CASE at["system"]["restart"] = "idle" /\ Goto("system", "restart", "backoff", session["system"])
  <2>1. ~Works("system", "restart") /\ "restart" \in Callers /\ session["system"] \in Sessions \cup {None}
    BY <1>1, <1>5 DEF Works, Callers
  <2>2. UNCHANGED <<main, told>> /\ session' = session /\ contested \subseteq contested' /\ owned' = owned
    BY DEF capture
  <2> QED BY <1>1, <1>5, <2>1, <2>2, GotoRests
<1> QED BY <1>2, <1>3, <1>4, <1>5

LEMMA SystemRestartServes ==
  ASSUME IInv, AllServed, SystemFails \/ ChunkArrives \/ SystemRestart PROVE AllServed'
<1> DEFINE c == "system"  e == of[c]["restart"]
<1>1. /\ TypeOK /\ CallsOK(c) /\ c \in Captures /\ "restart" \in Callers /\ (c \notin contested => Served(c))
      /\ "restart" \in {"restart", "recovery"} /\ e \in Sessions \cup {None} /\ pending \in BOOLEAN
  BY DEF IInv, AllServed, Captures, Callers, TypeOK
<1>2. ASSUME Goto(c, "restart", "idle", None), UNCHANGED <<main, told, capture, owned, contested>>,
             c \notin contested /\ Works(c, "restart") /\ e = wanted[c] =>
               session[c] = wanted[c] \/ <<c, wanted[c]>> \in told
      PROVE  AllServed'
  <2>1. UNCHANGED <<main, told>> /\ session' = session /\ contested \subseteq contested' /\ owned' = owned
        /\ contested' = contested
    BY <1>2 DEF capture
  <2> QED BY <1>1, <1>2, <2>1, GotoRests
<1>3. CASE SystemFails
  BY <1>1, <1>3, RestartSystemServes DEF SystemFails
<1>4. CASE ChunkArrives
  <2>1. /\ session[c] # None /\ UNCHANGED <<main, told, capture, owned, contested>>
        /\ RestartSystem(FALSE) \/ UNCHANGED calls
    BY <1>4 DEF ChunkArrives
  <2>2. CASE RestartSystem(FALSE)
    BY <2>1, <2>2, RestartSystemServes
  <2>3. CASE UNCHANGED calls
    BY <2>1, <2>3, StayServed DEF calls, capture
  <2> QED BY <2>1, <2>2, <2>3
<1>5. CASE BackoffEnds
  <2>1. /\ at[c]["restart"] = "backoff" /\ e \in Sessions /\ UNCHANGED <<main, told, capture, owned, contested>>
        /\ ~Works(c, "restart")
        /\ \/ session[c] = e /\ StopCalled(c, "restart", session[c])
           \/ Goto(c, "restart", "idle", None)
    BY <1>1, <1>5 DEF BackoffEnds, Execute, CallsOK, Works
  <2>2. CASE session[c] = e /\ StopCalled(c, "restart", session[c])
    BY <1>1, <2>1, <2>2, StopCallServes
  <2>3. CASE Goto(c, "restart", "idle", None)
    BY <1>2, <2>1, <2>3
  <2> QED BY <2>1, <2>2, <2>3
<1>6. CASE SystemRestartStopped
  <2>1. /\ at[c]["restart"] = "stopped" /\ e \in Sessions /\ StartCalled(c, "restart", e)
        /\ UNCHANGED <<main, capture, owned, contested>>
    BY <1>1, <1>6 DEF SystemRestartStopped, CallsOK
  <2> QED BY <1>1, <2>1, StartCallServes
<1>7. CASE SystemRestartStarted
  <2>1. /\ at[c]["restart"] = "started" /\ Goto(c, "restart", "idle", None)
        /\ UNCHANGED <<main, told, capture, owned, contested>>
    BY <1>7 DEF SystemRestartStarted
  <2>2. c \notin contested /\ e = wanted[c] => session[c] = wanted[c] \/ <<c, wanted[c]>> \in told
    BY <1>1, <2>1 DEF Served
  <2> QED BY <1>2, <2>1, <2>2
<1> QED BY <1>3, <1>4, <1>5, <1>6, <1>7 DEF SystemRestart

\* An active recovery that has stopped a capture starts it again.
LEMMA RecoveryServes ==
  ASSUME IInv, AllServed, RecoveryBegins \/ RecoveryTimesOut \/ Recovers PROVE AllServed'
<1>1. CASE RecoveryBegins
  <2>1. /\ UNCHANGED <<main, told>> /\ session' = session /\ owned' = owned /\ contested \subseteq contested'
        /\ \/ UNCHANGED <<at, of>>
           \/ at["system"]["restart"] = "backoff" /\ Goto("system", "restart", "idle", None)
    BY <1>1 DEF RecoveryBegins, capture
  <2>2. CASE UNCHANGED <<at, of>>
    BY <2>1, <2>2, StayServed
  <2>3. CASE at["system"]["restart"] = "backoff" /\ Goto("system", "restart", "idle", None)
    <3>1. "system" \in Captures /\ "restart" \in Callers /\ ~Works("system", "restart")
      BY <2>3 DEF Captures, Callers, Works
    <3> QED BY <2>1, <2>3, <3>1, GotoRests
  <2> QED BY <2>1, <2>2, <2>3
<1>2. CASE RecoveryTimesOut
  <2>1. contested \subseteq contested' /\ UNCHANGED <<main, told, calls, capture, owned>>
    BY <1>2 DEF RecoveryTimesOut, Abandons
  <2> QED BY <2>1, StayServed DEF calls, capture
<1>3. CASE KillEnds
  <2>1. contested \subseteq contested' /\ UNCHANGED <<main, told, calls, capture, owned>>
    BY <1>3 DEF KillEnds
  <2> QED BY <2>1, StayServed DEF calls, capture
<1>4. ASSUME NEW c \in Captures, RecoveryStep(c) PROVE AllServed'
  <2>1. /\ TypeOK /\ CallsOK(c) /\ phase = c /\ "recovery" \in Callers /\ "recovery" \in {"restart", "recovery"}
        /\ rescued \in Sessions /\ (c \notin contested => Safe(c) /\ Served(c))
        /\ UNCHANGED <<main, capture, owned, loop, dictating, contested>>
    BY <1>4 DEF IInv, AllServed, RecoveryStep, Callers, RecoveryOK, TypeOK, Captures
  <2>2. UNCHANGED main /\ session' = session /\ owned' = owned /\ contested' = contested
    BY <2>1 DEF capture
  <2>3. at[c]["recovery"] # "idle" => of[c]["recovery"] = rescued
    BY <2>1 DEF CallsOK
  <2>4. \/ UNCHANGED <<calls, told>>
        \/ at[c]["recovery"] = "idle" /\ StopCalled(c, "recovery", rescued) /\ UNCHANGED told
        \/ at[c]["recovery"] = "stopped" /\ StartCalled(c, "recovery", rescued)
        \/ /\ at[c]["recovery"] = "stopped" /\ ~active
           /\ Goto(c, "recovery", "idle", None) /\ UNCHANGED told
        \/ at[c]["recovery"] = "started" /\ Goto(c, "recovery", "idle", None) /\ UNCHANGED told
    BY <1>4 DEF RecoveryStep
  <2>5. CASE UNCHANGED <<calls, told>>
    BY <2>2, <2>5, StayServed DEF calls
  <2>6. CASE at[c]["recovery"] = "idle" /\ StopCalled(c, "recovery", rescued) /\ UNCHANGED told
    BY <2>1, <2>6, StopCallServes
  <2>7. CASE at[c]["recovery"] = "stopped" /\ StartCalled(c, "recovery", rescued)
    BY <2>1, <2>3, <2>7, StartCallServes
  <2>8. CASE /\ at[c]["recovery"] \in {"stopped", "started"} /\ (at[c]["recovery"] = "stopped" => ~active)
             /\ Goto(c, "recovery", "idle", None) /\ UNCHANGED told
    <3>1. c \notin contested /\ of[c]["recovery"] = wanted[c] => session[c] = wanted[c] \/ <<c, wanted[c]>> \in told
      BY <2>1, <2>8 DEF Safe, RecoveryAlone, Served
    <3> QED BY <2>1, <2>2, <2>8, <3>1, GotoRests
  <2> QED BY <2>4, <2>5, <2>6, <2>7, <2>8
<1> QED BY <1>1, <1>2, <1>3, <1>4 DEF Recovers

\* Every step keeps the second invariant.
LEMMA NextServes == IInv /\ AllServed /\ [Next]_vars => AllServed'
<1> SUFFICES ASSUME IInv, AllServed, [Next]_vars PROVE AllServed'
  OBVIOUS
<1>1. CASE \/ \E c \in Captures, e \in Sessions : MainStarts(c, e)
           \/ \E c \in Captures : MainStops(c)
  BY <1>1, MainServes
<1>2. CASE DictationTurns
  BY <1>2, StayServed DEF DictationTurns, calls, capture
<1>3. CASE MicRestartCalled \/ MicRestart
  BY <1>3, MicRestartServes
<1>4. CASE SystemFails \/ ChunkArrives \/ SystemRestart
  BY <1>4, SystemRestartServes
<1>5. CASE RecoveryBegins \/ RecoveryTimesOut \/ Recovers
  BY <1>5, RecoveryServes
<1>6. CASE SystemClosed
  BY <1>6, SystemClosedServes
<1>7. CASE \E c \in Captures, p \in Callers : Calls(c, p)
  BY <1>7, CallsServe
<1>8. CASE UNCHANGED vars
  BY <1>8, StayServed DEF vars, calls, capture
<1> QED BY <1>1, <1>2, <1>3, <1>4, <1>5, <1>6, <1>7, <1>8 DEF Next, Internal

-----------------------------------------------------------------------------
(* The third theorem *)

\* A capture that is wanted and neither active nor on its way was reported with a
\* CaptureError: no restart that gives up, and no recovery, loses it in silence.
THEOREM CaptureLossIsReported == Spec => []LossReported
<1>1. Init => IInv /\ AllServed
  BY InitSafe, InitServed
<1>2. IInv /\ AllServed /\ [Next]_vars => (IInv /\ AllServed)'
  BY NextKeeps, NextServes
<1>3. IInv /\ AllServed => LossReported
  BY ServedEnough
<1> QED BY <1>1, <1>2, <1>3, PTL DEF Spec

-----------------------------------------------------------------------------
(* The fourth theorem *)

\* Whoever runs a stop of the capture can go on, and so can its start, or the stop that
\* it awaits.
LEMMA StopperGoesOn ==
  ASSUME IInv, NEW c \in Captures, stopping[c] # None
  PROVE  \E p \in Callers : Ready(c, p)
<1>1. stopping[c] \in Callers /\ CallsOK(c)
  BY DEF IInv, TypeOK
<1>2. at[c][stopping[c]] \in {"draining", "closing"}
  BY <1>1 DEF CallsOK
<1> QED BY <1>1, <1>2 DEF Ready

LEMMA StarterGoesOn ==
  ASSUME IInv, NEW c \in Captures, NEW q \in Callers, StartRuns(c, q)
  PROVE  \E p \in Callers : Ready(c, p)
<1>1. CASE at[c][q] = "awaitStop"
  <2>1. CASE stopping[c] = None
    BY <1>1, <2>1 DEF Ready, Continues
  <2> QED BY <2>1, StopperGoesOn
<1>2. CASE at[c][q] \in {"awaitDictation", "opening"}
  BY <1>2 DEF Ready
<1> QED BY <1>1, <1>2 DEF StartRuns

\* A stop of the main process that has not returned is not waited for in a circle: it
\* closes the capture itself, or awaits the start or the stop of somebody who can go on.
THEOREM CaptureNeverStuck == Spec => []NeverStuck
<1>1. IInv => NeverStuck
  <2> SUFFICES ASSUME IInv, NEW c \in Captures, at[c]["stop"] # "idle"
               PROVE  \E p \in Callers : Ready(c, p)
    BY DEF NeverStuck
  <2>1. "stop" \in Callers /\ CallsOK(c)
    BY DEF IInv, Callers
  <2>2. at[c]["stop"] \in {"awaitStart", "draining", "closing", "joined"}
    BY <2>1 DEF CallsOK, StagesOK
  <2>3. CASE at[c]["stop"] = "awaitStart"
    <3>1. awaited[c]["stop"] \in Callers
      BY <2>1, <2>3 DEF CallsOK
    <3>2. CASE StartRuns(c, awaited[c]["stop"])
      BY <3>1, <3>2, StarterGoesOn
    <3>3. CASE ~StartRuns(c, awaited[c]["stop"])
      BY <2>1, <2>3, <3>3 DEF Ready, Continues
    <3> QED BY <3>2, <3>3
  <2>4. CASE at[c]["stop"] = "joined"
    <3>1. CASE stopping[c] = None
      BY <2>1, <2>4, <3>1 DEF Ready, Continues
    <3> QED BY <3>1, StopperGoesOn
  <2>5. CASE at[c]["stop"] \in {"draining", "closing"}
    BY <2>1, <2>5 DEF Ready
  <2> QED BY <2>2, <2>3, <2>4, <2>5
<1>2. Init => IInv
  BY InitSafe
<1>3. IInv /\ [Next]_vars => IInv'
  BY NextKeeps
<1> QED BY <1>1, <1>2, <1>3, PTL DEF Spec
=============================================================================
