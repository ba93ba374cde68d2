-------------------------- MODULE NoteSave_proofs ---------------------------
(***************************************************************************)
(* Proofs about NoteSave, for any number of edits, pages and flushes and   *)
(* under every fault: types, that no stored edit is lost again, and that   *)
(* a page at rest and a flush that is over have saved every edit.          *)
(***************************************************************************)
EXTENDS NoteSave, SequenceTheorems, TLAPS

Saves == [by : {"save", "retry"} \cup Flushes, override : {None} \cup SUBSET Edits]

-----------------------------------------------------------------------------
(* Types *)

\* Which pages were opened, who is in their queues, and what is scheduled.
QueueInv ==
  /\ \A p \in Pages : wire[p] # "none" => queue[p] # <<>> /\ ~timer[p]
  /\ \A p \in Pages : page[p] # "open" => ~due[p] /\ ~timer[p]
  /\ \A p \in Pages : page[p] = "none" => queue[p] = <<>> /\ doc[p] = {}
  /\ \A p, q \in Pages : q < p /\ page[p] # "none" => page[q] = "closed"

TypeInv == TypeOK /\ QueueInv

\* Why something is scheduled, and what the badge means.
TimerInv ==
  /\ \A p \in Pages : due[p] => edited[p]
  /\ \A p \in Pages : timer[p] => last[p] \in {"fails", "lost"}
  /\ \A p \in Pages : saveFailed[p] => last[p] # "stored"

\* The calls of flushPendingSave that are saving are in the queue of their page.
CallerInv ==
  \A f \in Flushes : flush[f].at # "idle" =>
    /\ flush[f].of \in Pages /\ page[flush[f].of] # "none" /\ flush[f].want \subseteq doc[flush[f].of]
    /\ flush[f].at = "saving" => \E i \in DOMAIN queue[flush[f].of] : queue[flush[f].of][i].by = f

\* And nobody else is there in their name.
NameInv ==
  /\ \A p \in Pages : \A i \in DOMAIN queue[p] :
       queue[p][i].by \in Flushes => flush[queue[p][i].by].at = "saving" /\ flush[queue[p][i].by].of = p
  /\ \A p \in Pages : \A i, j \in DOMAIN queue[p] :
       queue[p][i].by = queue[p][j].by /\ queue[p][i].by \in Flushes => i = j

\* The page that was opened last.
Current(p) == page[p] # "none" /\ \A q \in Pages : q > p => page[q] = "none"

\* The text that the i-th save of a queue carries, or would carry if its turn were now.
Text(p, i) ==
  IF i = 1 /\ wire[p] # "none" THEN carried[p]
  ELSE IF queue[p][i].override = None THEN doc[p] ELSE queue[p][i].override

\* W is in the editor and in every save of the page that was opened last.
Over(W) ==
  \A p \in Pages : Current(p) => W \subseteq doc[p] /\ \A i \in DOMAIN queue[p] : W \subseteq Text(p, i)

\* Only the page opened last saves, and it builds on what is stored.
TextInv ==
  /\ \A p \in Pages : queue[p] # <<>> => Current(p)
  /\ \A p \in Pages : Current(p) => stored \subseteq doc[p]
  /\ \A p \in Pages : \A i \in DOMAIN queue[p] : Text(p, i) \subseteq doc[p]
  /\ \A p \in Pages : wire[p] = "sent" /\ Head(queue[p]).override = None => stored \subseteq carried[p]
  /\ \A p \in Pages : wire[p] \in {"stored", "lost"} => stored = carried[p]

\* The text of the last save in a queue.
LastText(p) == Text(p, Len(queue[p]))

\* The last save of a page without an autosave scheduled saves everything.
EndInv == \A p \in Pages : queue[p] # <<>> /\ ~due[p] => LastText(p) = doc[p]

\* What is saved stays saved.
QuietInv ==
  \A p \in Pages : page[p] # "none" /\ Quiet(p) => Excused(p) \/ (doc[p] \subseteq stored /\ Over(doc[p]))

\* What a flush is to save is in the last save of its page, then in what is stored.
FlushOf(f, p, want) ==
  /\ flush[f].at \in {"saving", "waiting"} =>
       /\ Current(p)
       /\ queue[p] # <<>> => want \subseteq LastText(p)
       /\ queue[p] = <<>> => want \subseteq stored \/ last[p] # "stored"
  /\ flush[f].at = "done" =>
       /\ want \subseteq stored \/ last[p] # "stored"
       /\ Current(p) \/ last[p] = "stored" => Over(want)

FlushInv == \A f \in Flushes : FlushOf(f, flush[f].of, flush[f].want)

SavedInv == contested = {} => TextInv /\ EndInv /\ QuietInv /\ FlushInv

IInv == TypeInv /\ TimerInv /\ CallerInv /\ NameInv /\ SavedInv

\* The first in a queue that is not empty.
LEMMA HeadOfQueue ==
  ASSUME TypeOK, NEW p \in Pages, queue[p] # <<>>
  PROVE  /\ Head(queue[p]) \in Saves /\ Head(queue[p]) = queue[p][1]
         /\ Tail(queue[p]) \in Seq(Saves)
         /\ Len(queue[p]) \in Nat \ {0} /\ DOMAIN queue[p] = 1 .. Len(queue[p])
<1>1. queue[p] \in Seq(Saves)
  BY DEF TypeOK, Saves
<1> QED BY <1>1

\* At first the variables have their types.
LEMMA TypeInit == Init => TypeOK
<1> SUFFICES ASSUME Init PROVE TypeOK
  OBVIOUS
<1>1. queue \in [Pages -> Seq(Saves)]
  BY DEF Init
<1>2. flush \in [Flushes -> [at : {"idle", "saving", "waiting", "done"}, of : 0 .. MaxPages, want : SUBSET Edits]]
  BY BoundsAssumption DEF Init
<1> QED BY <1>1, <1>2, BoundsAssumption DEF Init, TypeOK, Saves, MaxRetries, AllFaults

\* A save is appended to one queue.
LEMMA EnqueueType ==
  ASSUME TypeOK, NEW p \in Pages, NEW s \in Saves, Enqueue(p, s)
  PROVE  queue' \in [Pages -> Seq(Saves)]
<1>1. queue \in [Pages -> Seq(Saves)]
  BY DEF TypeOK, Saves
<1>2. Append(queue[p], s) \in Seq(Saves)
  BY <1>1
<1> QED BY <1>1, <1>2 DEF Enqueue

\* Every step keeps the types: one case per action.
LEMMA TypeStep == TypeInv /\ [Next]_vars => TypeOK'
<1> SUFFICES ASSUME TypeInv, [Next]_vars PROVE TypeOK'
  OBVIOUS
<1>0. queue \in [Pages -> Seq(Saves)]
  BY DEF TypeInv, TypeOK, Saves
<1> USE BoundsAssumption DEF TypeInv, text, sending
<1>1. ASSUME NEW p \in Pages, Opens(p) PROVE TypeOK'
  <2>1. doc' \in [Pages -> SUBSET Edits] /\ page' \in [Pages -> {"none", "open", "closed"}]
    BY <1>1 DEF Opens, TypeOK
  <2>2. contested' \in SUBSET Pages
    BY <1>1 DEF Opens, TypeOK
  <2> QED BY <1>1, <2>1, <2>2 DEF Opens, TypeOK
<1>2. ASSUME NEW p \in Pages, Closes(p) PROVE TypeOK'
  <2>1. Save("save", None) \in Saves
    BY DEF Save, Saves
  <2>2. queue' \in [Pages -> Seq(Saves)]
    BY <1>0, <1>2, <2>1, EnqueueType DEF Closes
  <2> QED BY <1>2, <2>2 DEF Closes, TypeOK, Saves
<1>3. ASSUME NEW p \in Pages, UserEdits(p) PROVE TypeOK'
  <2>1. made + 1 \in Edits /\ made' \in 0 .. MaxEdits
    BY <1>3 DEF UserEdits, TypeOK, Edits
  <2>2. doc' \in [Pages -> SUBSET Edits]
    BY <1>3, <2>1 DEF UserEdits, TypeOK
  <2>3. edited' \in [Pages -> BOOLEAN] /\ due' \in [Pages -> BOOLEAN]
    BY <1>3 DEF UserEdits, TypeOK
  <2> QED BY <1>3, <2>1, <2>2, <2>3 DEF UserEdits, TypeOK
<1>4. ASSUME NEW p \in Pages, ChatReplaces(p) PROVE TypeOK'
  <2>1. doc' \in [Pages -> SUBSET Edits] /\ made' \in 0 .. MaxEdits
    BY <1>4 DEF ChatReplaces, TypeOK, Edits
  <2>2. Save("save", doc'[p]) \in Saves
    BY <2>1 DEF Save, Saves
  <2>3. queue' \in [Pages -> Seq(Saves)]
    BY <1>4, <2>2, EnqueueType DEF ChatReplaces
  <2>4. due' \in [Pages -> BOOLEAN]
    BY <1>4 DEF ChatReplaces, TypeOK
  <2>5. UNCHANGED <<page, edited, contested, sending, timer, flush>>
    BY <1>4 DEF ChatReplaces
  <2> QED BY <2>1, <2>3, <2>4, <2>5 DEF TypeOK, Saves
<1>5. ASSUME NEW p \in Pages, ChatReplacesOther(p) PROVE TypeOK'
  <2>1. Save("save", None) \in Saves
    BY DEF Save, Saves
  <2>2. queue' \in [Pages -> Seq(Saves)]
    BY <1>5, <2>1, EnqueueType DEF ChatReplacesOther
  <2>3. made' \in 0 .. MaxEdits
    BY <1>5 DEF ChatReplacesOther, TypeOK
  <2>4. due' \in [Pages -> BOOLEAN]
    BY <1>5 DEF ChatReplacesOther, TypeOK
  <2>5. UNCHANGED <<page, doc, edited, contested, sending, timer, flush>>
    BY <1>5 DEF ChatReplacesOther
  <2> QED BY <2>2, <2>3, <2>4, <2>5 DEF TypeOK, Saves
<1>6. ASSUME NEW p \in Pages, AutosaveFires(p) \/ RetryFires(p) PROVE TypeOK'
  <2>1. Save("save", None) \in Saves /\ Save("retry", None) \in Saves
    BY DEF Save, Saves
  <2>2. queue' \in [Pages -> Seq(Saves)]
    BY <1>6, <2>1, EnqueueType DEF AutosaveFires, RetryFires
  <2> QED BY <1>6, <2>2 DEF AutosaveFires, RetryFires, TypeOK, Saves
<1>7. ASSUME NEW p \in Pages, SaveBegins(p) PROVE TypeOK'
  <2>1. Head(queue[p]) \in Saves
    BY <1>7, HeadOfQueue DEF SaveBegins, Waiting
  <2>2. carried' \in [Pages -> SUBSET Edits]
    BY <1>7, <2>1 DEF SaveBegins, TypeOK, Saves
  <2>3. retries' \in [Pages -> 0 .. MaxRetries]
    BY <1>7 DEF SaveBegins, TypeOK, MaxRetries
  <2> QED BY <1>7, <2>2, <2>3 DEF SaveBegins, TypeOK
<1>8. ASSUME NEW p \in Pages, MainAnswers(p) PROVE TypeOK'
  BY <1>8, FaultsAssumption DEF MainAnswers, TypeOK
<1>9. ASSUME NEW p \in Pages, SaveEnds(p) PROVE TypeOK'
  <2>1. Tail(queue[p]) \in Seq(Saves)
    BY <1>9, HeadOfQueue DEF SaveEnds, QueueInv
  <2>2. queue' \in [Pages -> Seq(Saves)]
    BY <1>0, <1>9, <2>1 DEF SaveEnds
  <2>3. flush' \in [Flushes -> [at : {"idle", "saving", "waiting", "done"}, of : 0 .. MaxPages, want : SUBSET Edits]]
    BY <1>9 DEF SaveEnds, TypeOK
  <2>4. /\ retries' \in [Pages -> 0 .. MaxRetries]
        /\ timer' \in [Pages -> BOOLEAN] /\ saveFailed' \in [Pages -> BOOLEAN]
    <3>1. CASE wire[p] = "stored"
      <4>1. /\ retries' = [retries EXCEPT ![p] = 0]
            /\ saveFailed' = [saveFailed EXCEPT ![p] = FALSE]
            /\ timer' = timer
        BY <1>9, <3>1 DEF SaveEnds
      <4>2. retries' \in [Pages -> 0 .. MaxRetries]
        BY <4>1 DEF TypeOK, MaxRetries
      <4>3. timer' \in [Pages -> BOOLEAN] /\ saveFailed' \in [Pages -> BOOLEAN]
        BY <4>1 DEF TypeOK
      <4> QED BY <4>2, <4>3
    <3>2. CASE wire[p] = "rejected"
      <4>1. UNCHANGED <<retries, saveFailed, timer>>
        BY <1>9, <3>2 DEF SaveEnds
      <4> QED BY <4>1 DEF TypeOK
    <3>3. CASE wire[p] # "stored" /\ wire[p] # "rejected"
      <4>1. Failed(p)
        BY <1>9, <3>3 DEF SaveEnds
      <4>2. retries[p] \in 0 .. MaxRetries
        BY DEF TypeOK
      <4>3. CASE page[p] = "open" /\ retries[p] < MaxRetries
        <5>1. retries[p] + 1 \in 0 .. MaxRetries
          BY <4>2, <4>3 DEF MaxRetries
        <5>2. /\ retries' = [retries EXCEPT ![p] = retries[p] + 1]
              /\ timer' = [timer EXCEPT ![p] = TRUE]
              /\ saveFailed' = saveFailed
          BY <4>1, <4>3 DEF Failed
        <5>3. retries' \in [Pages -> 0 .. MaxRetries]
          BY <5>1, <5>2 DEF TypeOK
        <5>4. timer' \in [Pages -> BOOLEAN] /\ saveFailed' \in [Pages -> BOOLEAN]
          BY <5>2 DEF TypeOK
        <5> QED BY <5>3, <5>4
      <4>4. CASE ~(page[p] = "open" /\ retries[p] < MaxRetries)
        <5>1. 0 \in 0 .. MaxRetries
          BY DEF MaxRetries
        <5>2. timer' = timer
          BY <4>1, <4>4 DEF Failed
        <5>3. CASE retries[p] >= MaxRetries
          BY <4>1, <4>4, <5>1, <5>2, <5>3 DEF Failed, TypeOK
        <5>4. CASE ~(retries[p] >= MaxRetries)
          <6>1. UNCHANGED <<retries, saveFailed>>
            BY <4>1, <4>4, <5>4 DEF Failed
          <6> QED BY <6>1, <5>2 DEF TypeOK
        <5> QED BY <5>3, <5>4
      <4> QED BY <4>3, <4>4
    <3> QED BY <3>1, <3>2, <3>3
  <2>5. last' \in [Pages -> {"none", "stored"} \cup AllFaults]
    BY <1>9 DEF SaveEnds, TypeOK
  <2>6. /\ wire' \in [Pages -> {"none", "sent", "stored"} \cup AllFaults]
        /\ carried' \in [Pages -> SUBSET Edits]
    BY <1>9 DEF SaveEnds, TypeOK
  <2> QED BY <1>9, <2>2, <2>3, <2>4, <2>5, <2>6 DEF SaveEnds, TypeOK, Saves
<1>10. ASSUME NEW f \in Flushes, FlushEnds(f) PROVE TypeOK'
  <2>1. flush' \in [Flushes -> [at : {"idle", "saving", "waiting", "done"}, of : 0 .. MaxPages, want : SUBSET Edits]]
    BY <1>10 DEF FlushEnds, TypeOK
  <2> QED BY <1>10, <2>1 DEF FlushEnds, TypeOK
<1>11. ASSUME NEW f \in Flushes, NEW p \in Pages, FlushCalled(f, p) PROVE TypeOK'
  <2>1. Save(f, None) \in Saves
    BY DEF Save, Saves
  <2>2. queue' \in [Pages -> Seq(Saves)]
    BY <1>0, <1>11, <2>1, EnqueueType DEF FlushCalled
  <2>3. flush' \in [Flushes -> [at : {"idle", "saving", "waiting", "done"}, of : 0 .. MaxPages, want : SUBSET Edits]]
    BY <1>11 DEF FlushCalled, TypeOK, Pages
  <2> QED BY <1>11, <2>2, <2>3 DEF FlushCalled, TypeOK, Saves
<1>12. CASE UNCHANGED vars
  BY <1>12 DEF vars, TypeOK
<1> QED BY <1>1, <1>2, <1>3, <1>4, <1>5, <1>6, <1>7, <1>8, <1>9, <1>10, <1>11, <1>12 DEF Next, Saving

\* What a save that is appended does to the queues.
LEMMA Appended ==
  ASSUME TypeOK, NEW p \in Pages, NEW s, Enqueue(p, s)
  PROVE  /\ \A q \in Pages : q # p => queue'[q] = queue[q]
         /\ queue'[p] # <<>>
         /\ Len(queue[p]) \in Nat /\ Len(queue'[p]) = Len(queue[p]) + 1
         /\ DOMAIN queue[p] = 1 .. Len(queue[p])
         /\ DOMAIN queue'[p] = 1 .. Len(queue[p]) + 1
         /\ \A i \in 1 .. Len(queue[p]) : queue'[p][i] = queue[p][i]
         /\ queue'[p][Len(queue[p]) + 1] = s
<1>1. queue[p] \in Seq(Saves) /\ queue \in [Pages -> Seq(Saves)]
  BY DEF TypeOK, Saves
<1>2. queue' = [queue EXCEPT ![p] = Append(queue[p], s)]
  BY DEF Enqueue
<1>3. queue'[p] = Append(queue[p], s)
  BY <1>1, <1>2
<1>4. \A q \in Pages : q # p => queue'[q] = queue[q]
  BY <1>1, <1>2
<1>5. /\ Append(queue[p], s) # <<>>
      /\ Len(Append(queue[p], s)) = Len(queue[p]) + 1
      /\ DOMAIN Append(queue[p], s) = 1 .. Len(queue[p]) + 1
      /\ \A i \in 1 .. Len(queue[p]) : Append(queue[p], s)[i] = queue[p][i]
      /\ Append(queue[p], s)[Len(queue[p]) + 1] = s
  BY <1>1
<1> QED BY <1>1, <1>3, <1>4, <1>5

\* A page that is open is the one that was opened last.
LEMMA OpenIsCurrent ==
  ASSUME QueueInv, NEW p \in Pages, page[p] = "open"
  PROVE  Current(p)
BY DEF QueueInv, Current

\* Every step keeps the order of the pages, and who may be in a queue or scheduled.
LEMMA QueueStep == TypeInv /\ TypeOK' /\ [Next]_vars => QueueInv'
<1> SUFFICES ASSUME TypeInv, TypeOK', [Next]_vars PROVE QueueInv'
  OBVIOUS
<1> USE DEF TypeInv, text, sending
<1>1. ASSUME NEW p \in Pages, Opens(p) PROVE QueueInv'
  <2>1. page' = [page EXCEPT ![p] = "open"] /\ doc' = [doc EXCEPT ![p] = stored]
    BY <1>1 DEF Opens
  <2>2. UNCHANGED <<due, queue, wire, timer>>
    BY <1>1 DEF Opens
  <2>3. \A q, r \in Pages : r < q /\ page'[q] # "none" => page'[r] = "closed"
    BY <1>1, <2>1 DEF Opens, QueueInv, TypeOK, Pages
  <2> QED BY <1>1, <2>1, <2>2, <2>3 DEF Opens, QueueInv, TypeOK
<1>2. ASSUME NEW p \in Pages, Closes(p) PROVE QueueInv'
  <2>1. \A q \in Pages : queue[q] # <<>> => queue'[q] # <<>>
    BY <1>2, Appended DEF Closes
  <2>2. \A q \in Pages : q # p => queue'[q] = queue[q]
    BY <1>2, Appended DEF Closes
  <2> QED BY <1>2, <2>1, <2>2 DEF Closes, QueueInv, TypeOK
<1>3. ASSUME NEW p \in Pages, UserEdits(p) PROVE QueueInv'
  BY <1>3 DEF UserEdits, QueueInv, TypeOK
<1>4. ASSUME NEW p \in Pages,
             \/ ChatReplaces(p) \/ ChatReplacesOther(p) \/ AutosaveFires(p) \/ RetryFires(p)
             \/ \E f \in Flushes : FlushCalled(f, p)
      PROVE  QueueInv'
  <2>1. page[p] = "open"
    BY <1>4 DEF ChatReplaces, ChatReplacesOther, AutosaveFires, RetryFires, FlushCalled, QueueInv
  <2>2. UNCHANGED queue \/ \E s : Enqueue(p, s)
    BY <1>4 DEF ChatReplaces, ChatReplacesOther, AutosaveFires, RetryFires, FlushCalled
  <2>3. \A q \in Pages : queue[q] # <<>> => queue'[q] # <<>>
    BY <2>2, Appended
  <2>4. \A q \in Pages : q # p => queue'[q] = queue[q] /\ doc'[q] = doc[q]
    <3>1. \A q \in Pages : q # p => queue'[q] = queue[q]
      BY <2>2, Appended
    <3>2. \A q \in Pages : q # p => doc'[q] = doc[q]
      BY <1>4 DEF ChatReplaces, ChatReplacesOther, AutosaveFires, RetryFires, FlushCalled, TypeOK
    <3> QED BY <3>1, <3>2
  <2>5. /\ UNCHANGED <<page, wire>>
        /\ \A q \in Pages : (due'[q] => due[q]) /\ (timer'[q] => timer[q])
    BY <1>4 DEF ChatReplaces, ChatReplacesOther, AutosaveFires, RetryFires, FlushCalled, TypeOK
  <2> QED BY <2>1, <2>3, <2>4, <2>5 DEF QueueInv
<1>5. ASSUME NEW p \in Pages, SaveBegins(p) PROVE QueueInv'
  BY <1>5 DEF SaveBegins, Waiting, QueueInv, TypeOK
<1>6. ASSUME NEW p \in Pages, MainAnswers(p) PROVE QueueInv'
  BY <1>6 DEF MainAnswers, QueueInv, TypeOK
<1>7. ASSUME NEW p \in Pages, SaveEnds(p) PROVE QueueInv'
  <2>1. /\ UNCHANGED <<page, doc, due>>
        /\ wire' = [wire EXCEPT ![p] = "none"]
        /\ \A q \in Pages : q # p => queue'[q] = queue[q]
    BY <1>7 DEF SaveEnds, TypeOK
  <2>2. page[p] # "none" /\ wire[p] # "none"
    BY <1>7 DEF SaveEnds, QueueInv
  <2>3. \A q \in Pages : timer'[q] => timer[q] \/ (q = p /\ page[p] = "open")
    <3>1. \/ timer' = timer
          \/ page[p] = "open" /\ timer' = [timer EXCEPT ![p] = TRUE]
      BY <1>7 DEF SaveEnds, Failed
    <3> QED BY <3>1 DEF TypeOK
  <2> QED BY <2>1, <2>2, <2>3 DEF QueueInv, TypeOK
<1>8. ASSUME NEW f \in Flushes, FlushEnds(f) PROVE QueueInv'
  BY <1>8 DEF FlushEnds, QueueInv
<1>9. CASE UNCHANGED vars
  BY <1>9 DEF vars, QueueInv
<1> QED BY <1>1, <1>2, <1>3, <1>4, <1>5, <1>6, <1>7, <1>8, <1>9 DEF Next, Saving

\* Every step keeps why something is scheduled: a retry only follows a save that failed.
LEMMA TimerStep == TypeInv /\ TypeOK' /\ TimerInv /\ [Next]_vars => TimerInv'
<1> SUFFICES ASSUME TypeInv, TypeOK', TimerInv, [Next]_vars PROVE TimerInv'
  OBVIOUS
<1> USE DEF TypeInv, text, sending
<1>1. ASSUME NEW p \in Pages, Closes(p) \/ UserEdits(p) PROVE TimerInv'
  <2>1. UNCHANGED <<last, saveFailed>>
    BY <1>1 DEF Closes, UserEdits
  <2>2. \A q \in Pages : timer'[q] => timer[q]
    BY <1>1 DEF Closes, UserEdits, TypeOK
  <2>3. \A q \in Pages : due'[q] => (due[q] /\ edited'[q] = edited[q]) \/ edited'[q]
    BY <1>1 DEF Closes, UserEdits, TypeOK
  <2> QED BY <2>1, <2>2, <2>3 DEF TimerInv
<1>2. ASSUME NEW p \in Pages,
             \/ Opens(p) \/ ChatReplaces(p) \/ ChatReplacesOther(p) \/ AutosaveFires(p) \/ RetryFires(p)
             \/ SaveBegins(p) \/ MainAnswers(p) \/ \E f \in Flushes : FlushCalled(f, p)
      PROVE  TimerInv'
  <2>1. UNCHANGED <<edited, last, saveFailed>>
    BY <1>2 DEF Opens, ChatReplaces, ChatReplacesOther, AutosaveFires, RetryFires, SaveBegins, MainAnswers, FlushCalled
  <2>2. \A q \in Pages : (due'[q] => due[q]) /\ (timer'[q] => timer[q])
    BY <1>2 DEF Opens, ChatReplaces, ChatReplacesOther, AutosaveFires, RetryFires, SaveBegins, MainAnswers, FlushCalled, TypeOK
  <2> QED BY <2>1, <2>2 DEF TimerInv
<1>3. ASSUME NEW p \in Pages, SaveEnds(p) PROVE TimerInv'
  <2>1. UNCHANGED <<edited, due>> /\ last' = [last EXCEPT ![p] = wire[p]]
    BY <1>3 DEF SaveEnds
  <2>2. ~timer[p] /\ wire[p] \notin {"none", "sent"} /\ wire[p] \in {"stored", "fails", "lost", "rejected"}
    BY <1>3 DEF SaveEnds, QueueInv, TypeOK, AllFaults
  <2>3. \A q \in Pages : q # p => timer'[q] = timer[q] /\ saveFailed'[q] = saveFailed[q]
    BY <1>3 DEF SaveEnds, Failed, TypeOK
  <2>4. timer'[p] => wire[p] \in {"fails", "lost"}
    <3>1. CASE wire[p] \in {"stored", "rejected"}
      BY <1>3, <2>2, <3>1 DEF SaveEnds
    <3> QED BY <2>2, <3>1
  <2>5. saveFailed'[p] => wire[p] # "stored"
    BY <1>3 DEF SaveEnds, TypeOK
  <2> QED BY <2>1, <2>3, <2>4, <2>5 DEF TimerInv, TypeOK
<1>4. ASSUME NEW f \in Flushes, FlushEnds(f) PROVE TimerInv'
  BY <1>4 DEF FlushEnds, TimerInv
<1>5. CASE UNCHANGED vars
  BY <1>5 DEF vars, TimerInv
<1> QED BY <1>1, <1>2, <1>3, <1>4, <1>5 DEF Next, Saving

\* What the end of a save does to the queues.
LEMMA Shifted ==
  ASSUME TypeOK, NEW p \in Pages, queue[p] # <<>>, queue' = [queue EXCEPT ![p] = Tail(@)]
  PROVE  /\ \A q \in Pages : q # p => queue'[q] = queue[q]
         /\ Len(queue[p]) \in Nat \ {0} /\ Len(queue'[p]) = Len(queue[p]) - 1
         /\ DOMAIN queue[p] = 1 .. Len(queue[p])
         /\ DOMAIN queue'[p] = 1 .. Len(queue[p]) - 1
         /\ \A i \in 1 .. Len(queue[p]) - 1 : queue'[p][i] = queue[p][i + 1]
         /\ queue'[p] = <<>> <=> Len(queue[p]) = 1
<1>1. queue[p] \in Seq(Saves) /\ queue \in [Pages -> Seq(Saves)]
  BY DEF TypeOK, Saves
<1>2. queue'[p] = Tail(queue[p]) /\ \A q \in Pages : q # p => queue'[q] = queue[q]
  BY <1>1
<1>3. /\ Len(queue[p]) \in Nat \ {0} /\ Len(Tail(queue[p])) = Len(queue[p]) - 1
      /\ DOMAIN queue[p] = 1 .. Len(queue[p])
      /\ DOMAIN Tail(queue[p]) = 1 .. Len(queue[p]) - 1
      /\ \A i \in 1 .. Len(queue[p]) - 1 : Tail(queue[p])[i] = queue[p][i + 1]
  BY <1>1
<1>4. Tail(queue[p]) = <<>> <=> Len(queue[p]) = 1
  <2>1. Tail(queue[p]) \in Seq(Saves)
    BY <1>1
  <2>2. Tail(queue[p]) = <<>> <=> Len(Tail(queue[p])) = 0
    BY <2>1, EmptySeq
  <2> QED BY <1>3, <2>2
<1> QED BY <1>2, <1>3, <1>4

\* The queues and the calls after a step that appends no call, or none at all.
LEMMA OthersKeep ==
  ASSUME TypeOK, CallerInv, NameInv, UNCHANGED flush,
         UNCHANGED queue \/ \E p \in Pages : \E s : Enqueue(p, s) /\ s.by \notin Flushes,
         \A q \in Pages : page[q] # "none" => page'[q] # "none" /\ doc[q] \subseteq doc'[q]
  PROVE  CallerInv' /\ NameInv'
<1>1. CASE UNCHANGED queue
  BY <1>1 DEF CallerInv, NameInv
<1>2. ASSUME NEW p \in Pages, NEW s, Enqueue(p, s), s.by \notin Flushes PROVE CallerInv' /\ NameInv'
  <2> DEFINE n == Len(queue[p]) + 1
  <2>1. /\ \A q \in Pages : q # p => queue'[q] = queue[q]
        /\ DOMAIN queue[p] = 1 .. Len(queue[p]) /\ Len(queue[p]) \in Nat
        /\ DOMAIN queue'[p] = 1 .. n
        /\ \A i \in 1 .. Len(queue[p]) : queue'[p][i] = queue[p][i]
        /\ queue'[p][n] = s
    BY <1>2, Appended
  <2>2. \A i \in 1 .. n : i \in 1 .. Len(queue[p]) \/ i = n
    BY <2>1
  <2>3. \A i \in 1 .. Len(queue[p]) : i \in 1 .. n
    BY <2>1
  <2> HIDE DEF n
  <2>4. \A q \in Pages : \A i \in DOMAIN queue[q] : i \in DOMAIN queue'[q] /\ queue'[q][i] = queue[q][i]
    BY <2>1, <2>3
  <2>5. CallerInv'
    <3> SUFFICES ASSUME NEW f \in Flushes, flush[f].at # "idle", NEW q, q = flush[f].of
                 PROVE  /\ q \in Pages /\ page'[q] # "none" /\ flush[f].want \subseteq doc'[q]
                        /\ flush[f].at = "saving" => \E i \in DOMAIN queue'[q] : queue'[q][i].by = f
      BY DEF CallerInv
    <3>1. /\ q \in Pages /\ page[q] # "none" /\ flush[f].want \subseteq doc[q]
          /\ flush[f].at = "saving" => \E i \in DOMAIN queue[q] : queue[q][i].by = f
      BY DEF CallerInv
    <3> QED BY <2>4, <3>1
  <2>6. \A q \in Pages : \A i \in DOMAIN queue'[q] :
          queue'[q][i].by \in Flushes => i \in DOMAIN queue[q] /\ queue'[q][i] = queue[q][i]
    BY <1>2, <2>1, <2>2
  <2>7. NameInv'
    BY <2>6 DEF NameInv
  <2> QED BY <2>5, <2>7
<1> QED BY <1>1, <1>2

\* Every step keeps the calls of flushPendingSave and their saves in the queues together.
LEMMA CallerStep == TypeInv /\ TypeOK' /\ CallerInv /\ NameInv /\ [Next]_vars => CallerInv' /\ NameInv'
<1> SUFFICES ASSUME TypeInv, TypeOK', CallerInv, NameInv, [Next]_vars PROVE CallerInv' /\ NameInv'
  OBVIOUS
<1> USE DEF TypeInv, text, sending
<1>1. ASSUME NEW p \in Pages,
             \/ Opens(p) \/ Closes(p) \/ UserEdits(p) \/ ChatReplaces(p) \/ ChatReplacesOther(p)
             \/ AutosaveFires(p) \/ RetryFires(p) \/ SaveBegins(p) \/ MainAnswers(p)
      PROVE  CallerInv' /\ NameInv'
  <2>1. UNCHANGED queue \/ \E q \in Pages : \E s : Enqueue(q, s) /\ s.by \notin Flushes
    BY <1>1, NamesAssumption DEF Opens, Closes, UserEdits, ChatReplaces, ChatReplacesOther, AutosaveFires, RetryFires,
         SaveBegins, MainAnswers, Save
  <2>2. UNCHANGED flush
    BY <1>1 DEF Opens, Closes, UserEdits, ChatReplaces, ChatReplacesOther, AutosaveFires, RetryFires, SaveBegins, MainAnswers
  <2>3. \A q \in Pages : page[q] # "none" => page'[q] # "none" /\ doc[q] \subseteq doc'[q]
    <3>1. CASE UNCHANGED <<page, doc>>
      BY <3>1
    <3>2. CASE Opens(p)
      <4>1. /\ page[p] = "none" /\ page' = [page EXCEPT ![p] = "open"] /\ doc' = [doc EXCEPT ![p] = stored]
            /\ page \in [Pages -> {"none", "open", "closed"}] /\ doc \in [Pages -> SUBSET Edits]
        BY <3>2 DEF Opens, TypeOK
      <4> QED BY <4>1
    <3>3. CASE Closes(p)
      <4>1. /\ page' = [page EXCEPT ![p] = "closed"] /\ doc' = doc
            /\ page \in [Pages -> {"none", "open", "closed"}]
        BY <3>3 DEF Closes, TypeOK
      <4> QED BY <4>1
    <3>4. CASE UserEdits(p) \/ ChatReplaces(p)
      <4>1. page' = page /\ doc' = [doc EXCEPT ![p] = @ \cup {made + 1}] /\ doc \in [Pages -> SUBSET Edits]
        BY <3>4 DEF UserEdits, ChatReplaces, TypeOK
      <4> QED BY <4>1
    <3> QED BY <1>1, <3>1, <3>2, <3>3, <3>4 DEF ChatReplacesOther, AutosaveFires, RetryFires, SaveBegins, MainAnswers
  <2> QED BY <2>1, <2>2, <2>3, OthersKeep
<1>2. ASSUME NEW p \in Pages, SaveEnds(p) PROVE CallerInv' /\ NameInv'
  <2>1. queue[p] # <<>> /\ UNCHANGED <<page, doc>> /\ queue' = [queue EXCEPT ![p] = Tail(@)]
    BY <1>2 DEF SaveEnds, QueueInv
  <2>2. /\ \A q \in Pages : q # p => queue'[q] = queue[q]
        /\ Len(queue[p]) \in Nat \ {0}
        /\ DOMAIN queue[p] = 1 .. Len(queue[p]) /\ DOMAIN queue'[p] = 1 .. Len(queue[p]) - 1
        /\ \A i \in 1 .. Len(queue[p]) - 1 : queue'[p][i] = queue[p][i + 1]
    BY <2>1, Shifted
  <2>3. \A f \in Flushes :
          flush'[f] = IF queue[p][1].by = f THEN [flush[f] EXCEPT !.at = "waiting"] ELSE flush[f]
    BY <1>2, <2>1, HeadOfQueue DEF SaveEnds
  <2>4. \A f \in Flushes : /\ flush'[f].of = flush[f].of /\ flush'[f].want = flush[f].want
                           /\ flush'[f].at = IF queue[p][1].by = f THEN "waiting" ELSE flush[f].at
    <3>1. flush \in [Flushes -> [at : {"idle", "saving", "waiting", "done"}, of : 0 .. MaxPages, want : SUBSET Edits]]
      BY DEF TypeOK
    <3> QED BY <2>3, <3>1
  <2>5. 1 \in DOMAIN queue[p]
    BY <2>2
  <2>6. \A q \in Pages : \A i \in DOMAIN queue'[q] : \E j \in DOMAIN queue[q] :
          queue'[q][i] = queue[q][j] /\ (q = p => j = i + 1 /\ j # 1) /\ (q # p => j = i)
    <3>1. ASSUME NEW q \in Pages, q # p, NEW i \in DOMAIN queue'[q]
          PROVE  i \in DOMAIN queue[q] /\ queue'[q][i] = queue[q][i]
      BY <2>2, <3>1
    <3>2. ASSUME NEW i \in DOMAIN queue'[p]
          PROVE  i + 1 \in DOMAIN queue[p] /\ queue'[p][i] = queue[p][i + 1] /\ i + 1 # 1
      BY <2>2
    <3> QED BY <3>1, <3>2
  <2>7. NameInv'
    <3>1. ASSUME NEW q \in Pages, NEW i \in DOMAIN queue'[q], queue'[q][i].by \in Flushes
          PROVE  flush'[queue'[q][i].by].at = "saving" /\ flush'[queue'[q][i].by].of = q
      <4>1. PICK j \in DOMAIN queue[q] : queue'[q][i] = queue[q][j] /\ (q = p => j # 1)
        BY <2>6
      <4>2. flush[queue[q][j].by].at = "saving" /\ flush[queue[q][j].by].of = q
        BY <3>1, <4>1 DEF NameInv
      <4>3. queue[p][1].by # queue[q][j].by
        <5>1. CASE q = p
          BY <3>1, <4>1, <2>5, <5>1 DEF NameInv
        <5>2. CASE q # p
          BY <3>1, <4>1, <4>2, <2>5, <5>2 DEF NameInv
        <5> QED BY <5>1, <5>2
      <4> QED BY <2>4, <3>1, <4>1, <4>2, <4>3
    <3>2. ASSUME NEW q \in Pages, NEW i \in DOMAIN queue'[q], NEW j \in DOMAIN queue'[q],
                 queue'[q][i].by = queue'[q][j].by, queue'[q][i].by \in Flushes
          PROVE  i = j
      <4>1. CASE q # p
        BY <2>2, <3>2, <4>1 DEF NameInv
      <4>2. CASE q = p
        <5>1. i \in 1 .. Len(queue[p]) - 1 /\ j \in 1 .. Len(queue[p]) - 1
          BY <2>2, <4>2
        <5>2. queue'[p][i] = queue[p][i + 1] /\ queue'[p][j] = queue[p][j + 1]
          BY <2>2, <5>1
        <5>3. i + 1 \in DOMAIN queue[p] /\ j + 1 \in DOMAIN queue[p]
          BY <2>2, <5>1
        <5>4. i + 1 = j + 1
          BY <3>2, <4>2, <5>2, <5>3 DEF NameInv
        <5> QED BY <5>1, <5>4
      <4> QED BY <4>1, <4>2
    <3> QED BY <3>1, <3>2 DEF NameInv
  <2>8. CallerInv'
    <3> SUFFICES ASSUME NEW f \in Flushes, flush'[f].at # "idle"
                 PROVE  /\ flush'[f].of \in Pages /\ page'[flush'[f].of] # "none"
                        /\ flush'[f].want \subseteq doc'[flush'[f].of]
                        /\ flush'[f].at = "saving" =>
                             \E i \in DOMAIN queue'[flush'[f].of] : queue'[flush'[f].of][i].by = f
      BY DEF CallerInv
    <3>1. flush[f].at # "idle"
      BY <2>4, <2>5 DEF NameInv
    <3>2. ASSUME flush'[f].at = "saving"
          PROVE  \E i \in DOMAIN queue'[flush[f].of] : queue'[flush[f].of][i].by = f
      <4>1. queue[p][1].by # f /\ flush[f].at = "saving"
        BY <2>4, <3>2
      <4>2. PICK i \in DOMAIN queue[flush[f].of] : queue[flush[f].of][i].by = f
        BY <3>1, <4>1 DEF CallerInv
      <4>3. CASE flush[f].of # p
        BY <2>2, <3>1, <4>2, <4>3 DEF CallerInv
      <4>4. CASE flush[f].of = p
        <5>1. i \in 1 .. Len(queue[p]) /\ i # 1
          BY <2>2, <4>1, <4>2, <4>4
        <5>2. i - 1 \in 1 .. Len(queue[p]) - 1 /\ (i - 1) + 1 = i
          BY <2>2, <5>1
        <5>3. queue'[p][i - 1] = queue[p][i]
          BY <2>2, <5>2
        <5> QED BY <2>2, <4>2, <4>4, <5>2, <5>3
      <4> QED BY <4>3, <4>4
    <3> QED BY <2>1, <2>4, <3>1, <3>2 DEF CallerInv
  <2> QED BY <2>7, <2>8
<1>3. ASSUME NEW f \in Flushes, FlushEnds(f) PROVE CallerInv' /\ NameInv'
  <2>1. /\ UNCHANGED <<page, doc, queue>> /\ flush[f].at = "waiting"
        /\ \A g \in Flushes : /\ flush'[g].of = flush[g].of /\ flush'[g].want = flush[g].want
                               /\ flush'[g].at = IF g = f THEN "done" ELSE flush[g].at
    <3>1. flush \in [Flushes -> [at : {"idle", "saving", "waiting", "done"}, of : 0 .. MaxPages, want : SUBSET Edits]]
      BY DEF TypeOK
    <3> QED BY <1>3, <3>1 DEF FlushEnds, Flushed
  <2>2. CallerInv'
    BY <2>1 DEF CallerInv
  <2>3. NameInv'
    BY <2>1 DEF NameInv
  <2> QED BY <2>2, <2>3
<1>4. ASSUME NEW f \in Flushes, NEW p \in Pages, FlushCalled(f, p) PROVE CallerInv' /\ NameInv'
  <2>1. /\ UNCHANGED <<page, doc>> /\ flush[f].at = "idle" /\ page[p] = "open"
        /\ \A g \in Flushes : g # f => flush'[g] = flush[g]
        /\ flush'[f] = [at |-> IF due[p] THEN "saving" ELSE "waiting", of |-> p, want |-> doc[p]]
    BY <1>4 DEF FlushCalled, TypeOK
  <2>2. \A q \in Pages : \A i \in DOMAIN queue[q] : queue[q][i].by # f
    BY <2>1 DEF NameInv
  <2>3. CASE ~due[p]
    <3>1. UNCHANGED queue /\ flush'[f] = [at |-> "waiting", of |-> p, want |-> doc[p]]
      BY <1>4, <2>1, <2>3 DEF FlushCalled
    <3>2. CallerInv'
      BY <2>1, <3>1 DEF CallerInv
    <3>3. NameInv'
      BY <2>1, <2>2, <3>1 DEF NameInv
    <3> QED BY <3>2, <3>3
  <2>4. CASE due[p]
    <3> DEFINE n == Len(queue[p]) + 1
    <3>1. Enqueue(p, Save(f, None)) /\ flush'[f] = [at |-> "saving", of |-> p, want |-> doc[p]]
      BY <1>4, <2>1, <2>4 DEF FlushCalled
    <3>2. /\ \A q \in Pages : q # p => queue'[q] = queue[q]
          /\ DOMAIN queue[p] = 1 .. Len(queue[p]) /\ Len(queue[p]) \in Nat
          /\ DOMAIN queue'[p] = 1 .. n
          /\ \A i \in 1 .. Len(queue[p]) : queue'[p][i] = queue[p][i]
          /\ queue'[p][n] = Save(f, None)
      BY <3>1, Appended
    <3>3. queue'[p][n].by = f
      BY <3>2 DEF Save
    <3>4. \A i \in 1 .. n : i \in 1 .. Len(queue[p]) \/ i = n
      BY <3>2
    <3>5. n \in 1 .. n /\ \A i \in 1 .. Len(queue[p]) : i \in 1 .. n
      BY <3>2
    <3> HIDE DEF n
    <3>6. CallerInv'
      <4> SUFFICES ASSUME NEW g \in Flushes, flush'[g].at # "idle", NEW q, q = flush'[g].of
                   PROVE  /\ q \in Pages /\ page'[q] # "none" /\ flush'[g].want \subseteq doc'[q]
                          /\ flush'[g].at = "saving" => \E i \in DOMAIN queue'[q] : queue'[q][i].by = g
        BY DEF CallerInv
      <4>1. CASE g = f
        BY <2>1, <3>1, <3>3, <3>5, <3>2, <4>1
      <4>2. CASE g # f
        <5>1. /\ q \in Pages /\ page[q] # "none" /\ flush[g].want \subseteq doc[q]
              /\ flush[g].at = "saving" => \E i \in DOMAIN queue[q] : queue[q][i].by = g
          BY <2>1, <4>2 DEF CallerInv
        <5>2. \A i \in DOMAIN queue[q] : i \in DOMAIN queue'[q] /\ queue'[q][i] = queue[q][i]
          BY <3>2, <3>5, <5>1
        <5> QED BY <2>1, <4>2, <5>1, <5>2
      <4> QED BY <4>1, <4>2
    <3>7. NameInv'
      <4>1. \A q \in Pages : \A i \in DOMAIN queue'[q] :
              \/ i \in DOMAIN queue[q] /\ queue'[q][i] = queue[q][i]
              \/ q = p /\ i = n /\ queue'[q][i].by = f
        BY <3>2, <3>3, <3>4
      <4>2. ASSUME NEW q \in Pages, NEW i \in DOMAIN queue'[q], queue'[q][i].by \in Flushes
            PROVE  flush'[queue'[q][i].by].at = "saving" /\ flush'[queue'[q][i].by].of = q
        BY <2>1, <2>2, <3>1, <4>1, <4>2 DEF NameInv
      <4>3. ASSUME NEW q \in Pages, NEW i \in DOMAIN queue'[q], NEW j \in DOMAIN queue'[q],
                   queue'[q][i].by = queue'[q][j].by, queue'[q][i].by \in Flushes
            PROVE  i = j
        BY <2>2, <4>1, <4>3 DEF NameInv
      <4> QED BY <4>2, <4>3 DEF NameInv
    <3> QED BY <3>6, <3>7
  <2> QED BY <2>3, <2>4
<1>5. CASE UNCHANGED vars
  BY <1>5, OthersKeep DEF vars
<1> QED BY <1>1, <1>2, <1>3, <1>4, <1>5 DEF Next, Saving

-----------------------------------------------------------------------------
(* Steps that store nothing and open nothing *)

\* What such a step may do to the editors, the queues and the texts in them.
Continues ==
  /\ UNCHANGED <<stored, contested>>
  /\ \A q \in Pages : page'[q] = "none" <=> page[q] = "none"
  /\ \A q \in Pages : doc[q] \subseteq doc'[q]
  /\ \A q \in Pages : queue'[q] # <<>> => queue[q] # <<>> \/ page[q] = "open"
  /\ \A q \in Pages : \A j \in DOMAIN queue'[q] :
       Text(q, j)' = doc'[q] \/ \E i \in DOMAIN queue[q] : Text(q, j)' = Text(q, i)
  /\ \A q \in Pages : queue'[q] # <<>> =>
       \/ LastText(q)' = doc'[q]
       \/ queue[q] # <<>> /\ LastText(q)' = LastText(q) /\ (due'[q] \/ (doc'[q] = doc[q] /\ ~due[q]))
  /\ \A q \in Pages :
       \/ wire'[q] = "none"
       \/ wire'[q] = wire[q] /\ carried'[q] = carried[q] /\ Head(queue'[q]) = Head(queue[q])
       \/ wire'[q] = "sent" /\ queue[q] # <<>> /\ (Head(queue'[q]).override = None => carried'[q] = doc[q])

\* Such a step keeps what is in every save, and that saves build on what is stored.
LEMMA ContinuesKeeps ==
  ASSUME TypeInv, TextInv, EndInv, Continues
  PROVE  /\ \A p \in Pages : Current(p)' <=> Current(p)
         /\ \A W : Over(W) => Over(W)'
         /\ TextInv' /\ EndInv'
<1>1. \A p \in Pages : Current(p)' <=> Current(p)
  BY DEF Continues, Current
<1>2. ASSUME NEW W, Over(W), NEW p \in Pages, Current(p)'
      PROVE  W \subseteq doc'[p] /\ \A j \in DOMAIN queue'[p] : W \subseteq Text(p, j)'
  <2>1. Current(p) /\ doc[p] \subseteq doc'[p]
    BY <1>1, <1>2 DEF Continues
  <2>2. W \subseteq doc[p] /\ \A i \in DOMAIN queue[p] : W \subseteq Text(p, i)
    BY <1>2, <2>1 DEF Over
  <2>3. \A j \in DOMAIN queue'[p] : Text(p, j)' = doc'[p] \/ \E i \in DOMAIN queue[p] : Text(p, j)' = Text(p, i)
    BY DEF Continues
  <2> QED BY <2>1, <2>2, <2>3
<1>3. \A W : Over(W) => Over(W)'
  BY <1>2 DEF Over
<1>4. ASSUME NEW p \in Pages, queue'[p] # <<>> PROVE Current(p)'
  <2>1. queue[p] # <<>> \/ page[p] = "open"
    BY <1>4 DEF Continues
  <2>2. Current(p)
    BY <2>1, OpenIsCurrent DEF TextInv, TypeInv
  <2> QED BY <1>1, <2>2
<1>5. ASSUME NEW p \in Pages, Current(p)' PROVE stored' \subseteq doc'[p]
  <2>1. stored \subseteq doc[p] /\ doc[p] \subseteq doc'[p] /\ stored' = stored
    BY <1>1, <1>5 DEF TextInv, Continues
  <2> QED BY <2>1
<1>6. ASSUME NEW p \in Pages, NEW j \in DOMAIN queue'[p] PROVE Text(p, j)' \subseteq doc'[p]
  <2>1. Text(p, j)' = doc'[p] \/ \E i \in DOMAIN queue[p] : Text(p, j)' = Text(p, i)
    BY DEF Continues
  <2>2. \A i \in DOMAIN queue[p] : Text(p, i) \subseteq doc[p]
    BY DEF TextInv
  <2>3. doc[p] \subseteq doc'[p]
    BY DEF Continues
  <2> QED BY <2>1, <2>2, <2>3
<1>7. ASSUME NEW p \in Pages, wire'[p] = "sent", Head(queue'[p]).override = None PROVE stored' \subseteq carried'[p]
  <2>1. \/ wire'[p] = wire[p] /\ carried'[p] = carried[p] /\ Head(queue'[p]) = Head(queue[p])
        \/ queue[p] # <<>> /\ carried'[p] = doc[p]
    BY <1>7 DEF Continues
  <2>2. stored' = stored
    BY DEF Continues
  <2>3. CASE wire'[p] = wire[p] /\ carried'[p] = carried[p] /\ Head(queue'[p]) = Head(queue[p])
    BY <1>7, <2>2, <2>3 DEF TextInv
  <2>4. CASE queue[p] # <<>> /\ carried'[p] = doc[p]
    BY <2>2, <2>4 DEF TextInv
  <2> QED BY <2>1, <2>3, <2>4
<1>8. ASSUME NEW p \in Pages, wire'[p] \in {"stored", "lost"} PROVE stored' = carried'[p]
  <2>1. wire'[p] = wire[p] /\ carried'[p] = carried[p] /\ stored' = stored
    BY <1>8 DEF Continues
  <2> QED BY <1>8, <2>1 DEF TextInv
<1>9. TextInv'
  BY <1>4, <1>5, <1>6, <1>7, <1>8 DEF TextInv
<1>10. ASSUME NEW p \in Pages, queue'[p] # <<>>, ~due'[p] PROVE LastText(p)' = doc'[p]
  <2>1. \/ LastText(p)' = doc'[p]
        \/ queue[p] # <<>> /\ LastText(p)' = LastText(p) /\ doc'[p] = doc[p] /\ ~due[p]
    BY <1>10 DEF Continues
  <2> QED BY <2>1 DEF EndInv
<1>11. EndInv'
  BY <1>10 DEF EndInv
<1> QED BY <1>1, <1>3, <1>9, <1>11

\* A save is appended: it carries what is in the editor.
LEMMA AppendContinues ==
  ASSUME TypeInv, NEW p \in Pages, page[p] = "open", NEW s, Enqueue(p, s),
         UNCHANGED <<wire, carried, stored, contested>>,
         \A q \in Pages : page'[q] = "none" <=> page[q] = "none",
         \A q \in Pages : q # p => doc'[q] = doc[q] /\ due'[q] = due[q],
         doc[p] \subseteq doc'[p], s.override = None \/ s.override = doc'[p]
  PROVE  Continues
<1>0. PICK n : n = Len(queue[p])
  OBVIOUS
<1>1. /\ \A q \in Pages : q # p => queue'[q] = queue[q]
      /\ queue'[p] # <<>>
      /\ n \in Nat /\ Len(queue'[p]) = n + 1
      /\ DOMAIN queue[p] = 1 .. n
      /\ DOMAIN queue'[p] = 1 .. n + 1
      /\ \A i \in 1 .. n : queue'[p][i] = queue[p][i]
      /\ queue'[p][n + 1] = s
  BY <1>0, Appended DEF TypeInv
<1>2. wire[p] # "none" => queue[p] # <<>> /\ n # 0 /\ Head(queue'[p]) = Head(queue[p])
  <2>1. ASSUME wire[p] # "none" PROVE queue[p] # <<>> /\ n # 0
    BY <1>0, <2>1, HeadOfQueue DEF TypeInv, QueueInv
  <2>2. queue'[p] = Append(queue[p], s) /\ queue[p] \in Seq(Saves)
    BY DEF Enqueue, TypeInv, TypeOK, Saves
  <2>3. n # 0 => Head(Append(queue[p], s)) = Head(queue[p])
    BY <1>0, <2>2
  <2> QED BY <2>1, <2>2, <2>3
<1>3. ASSUME NEW q \in Pages, q # p
      PROVE  /\ queue'[q] = queue[q] /\ LastText(q)' = LastText(q)
             /\ \A j : Text(q, j)' = Text(q, j)
  BY <1>1, <1>3 DEF Text, LastText
<1>4. Text(p, n + 1)' = doc'[p] /\ LastText(p)' = doc'[p]
  <2>1. n + 1 = 1 => wire'[p] = "none"
    BY <1>1, <1>2
  <2> QED BY <1>1, <2>1 DEF Text, LastText
<1>5. ASSUME NEW j \in 1 .. n PROVE Text(p, j)' = doc'[p] \/ Text(p, j)' = Text(p, j)
  BY <1>1 DEF Text
<1>6. ASSUME NEW q \in Pages, NEW j \in DOMAIN queue'[q]
      PROVE  Text(q, j)' = doc'[q] \/ \E i \in DOMAIN queue[q] : Text(q, j)' = Text(q, i)
  <2>1. CASE q # p
    BY <1>3, <1>6, <2>1
  <2>2. CASE q = p
    <3>1. j \in 1 .. n \/ j = n + 1
      BY <1>1, <2>2
    <3> QED BY <1>1, <1>4, <1>5, <2>2, <3>1
  <2> QED BY <2>1, <2>2
<1>7. ASSUME NEW q \in Pages, queue'[q] # <<>>
      PROVE  \/ LastText(q)' = doc'[q]
             \/ queue[q] # <<>> /\ LastText(q)' = LastText(q) /\ (due'[q] \/ (doc'[q] = doc[q] /\ ~due[q]))
  BY <1>3, <1>4, <1>7
<1>8. \A q \in Pages : wire'[q] = "none" \/ (wire'[q] = wire[q] /\ carried'[q] = carried[q] /\ Head(queue'[q]) = Head(queue[q]))
  BY <1>2, <1>3
<1>9. \A q \in Pages : doc[q] \subseteq doc'[q]
  OBVIOUS
<1>10. \A q \in Pages : queue'[q] # <<>> => queue[q] # <<>> \/ page[q] = "open"
  BY <1>3
<1> QED BY <1>6, <1>7, <1>8, <1>9, <1>10 DEF Continues

\* The queues do not change.
LEMMA IdleContinues ==
  ASSUME TypeInv, UNCHANGED <<queue, wire, carried, stored, contested>>,
         \A q \in Pages : page'[q] = "none" <=> page[q] = "none",
         \A q \in Pages : (doc'[q] = doc[q] /\ due'[q] = due[q]) \/ (doc[q] \subseteq doc'[q] /\ due'[q])
  PROVE  Continues
<1>1. ASSUME NEW q \in Pages, NEW j \in DOMAIN queue[q] PROVE Text(q, j)' = doc'[q] \/ Text(q, j)' = Text(q, j)
  BY DEF Text
<1>2. ASSUME NEW q \in Pages, queue[q] # <<>> PROVE LastText(q)' = doc'[q] \/ LastText(q)' = LastText(q)
  BY <1>1, <1>2, HeadOfQueue DEF LastText, TypeInv
<1>3. ASSUME NEW q \in Pages, queue'[q] # <<>>
      PROVE  \/ LastText(q)' = doc'[q]
             \/ queue[q] # <<>> /\ LastText(q)' = LastText(q) /\ (due'[q] \/ (doc'[q] = doc[q] /\ ~due[q]))
  <2>1. CASE ~due'[q] /\ due[q]
    BY <2>1
  <2>2. CASE due'[q]
    BY <1>2, <1>3, <2>2
  <2>3. CASE ~due'[q] /\ ~due[q]
    BY <1>2, <1>3, <2>3
  <2> QED BY <2>1, <2>2, <2>3
<1>4. \A q \in Pages : \A j \in DOMAIN queue'[q] :
        Text(q, j)' = doc'[q] \/ \E i \in DOMAIN queue[q] : Text(q, j)' = Text(q, i)
  BY <1>1
<1>5. \A q \in Pages : doc[q] \subseteq doc'[q]
  OBVIOUS
<1> QED BY <1>3, <1>4, <1>5 DEF Continues

\* A save that begins carries what it would have carried.
LEMMA BeginContinues ==
  ASSUME TypeInv, NEW p \in Pages, SaveBegins(p)
  PROVE  Continues
<1>1. /\ queue[p] # <<>> /\ wire[p] = "none"
      /\ carried' = [carried EXCEPT ![p] = IF Head(queue[p]).override = None THEN doc[p] ELSE Head(queue[p]).override]
      /\ wire' = [wire EXCEPT ![p] = "sent"]
      /\ UNCHANGED <<page, doc, contested, due, queue, stored>>
  BY DEF SaveBegins, Waiting, text
<1>2. Head(queue[p]) = queue[p][1] /\ Len(queue[p]) \in Nat \ {0} /\ DOMAIN queue[p] = 1 .. Len(queue[p])
  BY <1>1, HeadOfQueue DEF TypeInv
<1>3. carried'[p] = Text(p, 1) /\ wire'[p] = "sent"
  BY <1>1, <1>2 DEF Text, TypeInv, TypeOK
<1>4. \A q \in Pages : q # p => wire'[q] = wire[q] /\ carried'[q] = carried[q]
  BY <1>1 DEF TypeInv, TypeOK
<1>5. ASSUME NEW q \in Pages, NEW j PROVE Text(q, j)' = Text(q, j)
  <2>1. CASE q = p /\ j = 1
    BY <1>3, <2>1 DEF Text
  <2>2. CASE q = p /\ j # 1
    BY <1>1, <2>2 DEF Text
  <2>3. CASE q # p
    BY <1>1, <1>4, <2>3 DEF Text
  <2> QED BY <2>1, <2>2, <2>3
<1>6. \A q \in Pages : LastText(q)' = LastText(q)
  BY <1>1, <1>5 DEF LastText
<1>7. ASSUME NEW q \in Pages, queue'[q] # <<>>
      PROVE  queue[q] # <<>> /\ LastText(q)' = LastText(q) /\ (due'[q] \/ (doc'[q] = doc[q] /\ ~due[q]))
  BY <1>1, <1>6, <1>7
<1>8. \A q \in Pages :
        \/ wire'[q] = wire[q] /\ carried'[q] = carried[q] /\ Head(queue'[q]) = Head(queue[q])
        \/ wire'[q] = "sent" /\ queue[q] # <<>> /\ (Head(queue'[q]).override = None => carried'[q] = doc[q])
  <2>1. Head(queue'[p]).override = None => carried'[p] = doc[p]
    BY <1>1 DEF TypeInv, TypeOK
  <2> QED BY <1>1, <1>3, <1>4, <2>1
<1>9. \A q \in Pages : \A j \in DOMAIN queue'[q] : \E i \in DOMAIN queue[q] : Text(q, j)' = Text(q, i)
  BY <1>1, <1>5
<1>10. \A q \in Pages : doc[q] \subseteq doc'[q]
  BY <1>1
<1> QED BY <1>1, <1>7, <1>8, <1>9, <1>10 DEF Continues

\* A save that ends leaves the others with their texts.
LEMMA EndContinues ==
  ASSUME TypeInv, NEW p \in Pages, SaveEnds(p)
  PROVE  Continues
<1>1. /\ wire[p] # "none" /\ queue[p] # <<>>
      /\ wire' = [wire EXCEPT ![p] = "none"] /\ carried' = [carried EXCEPT ![p] = {}]
      /\ queue' = [queue EXCEPT ![p] = Tail(@)]
      /\ UNCHANGED <<page, doc, contested, due, stored>>
  BY DEF SaveEnds, text, TypeInv, QueueInv
<1>2. PICK n : n = Len(queue[p])
  OBVIOUS
<1>3. /\ \A q \in Pages : q # p => queue'[q] = queue[q]
      /\ n \in Nat \ {0} /\ Len(queue'[p]) = n - 1
      /\ DOMAIN queue[p] = 1 .. n /\ DOMAIN queue'[p] = 1 .. n - 1
      /\ \A i \in 1 .. n - 1 : queue'[p][i] = queue[p][i + 1]
      /\ queue'[p] = <<>> <=> n = 1
  BY <1>1, <1>2, Shifted DEF TypeInv
<1>4. wire'[p] = "none" /\ \A q \in Pages : q # p => wire'[q] = wire[q] /\ carried'[q] = carried[q]
  BY <1>1 DEF TypeInv, TypeOK
<1>5. ASSUME NEW q \in Pages, q # p
      PROVE  LastText(q)' = LastText(q) /\ \A j : Text(q, j)' = Text(q, j)
  BY <1>1, <1>3, <1>4, <1>5 DEF Text, LastText
<1>6. ASSUME NEW j \in 1 .. n - 1 PROVE j + 1 \in DOMAIN queue[p] /\ Text(p, j)' = Text(p, j + 1)
  <2>1. j + 1 \in 1 .. n /\ j + 1 # 1 /\ queue'[p][j] = queue[p][j + 1]
    BY <1>3
  <2> QED BY <1>1, <1>3, <1>4, <2>1 DEF Text
<1>7. ASSUME queue'[p] # <<>> PROVE LastText(p)' = LastText(p)
  <2>1. n - 1 \in 1 .. n - 1 /\ (n - 1) + 1 = n
    BY <1>3, <1>7
  <2>2. LastText(p)' = Text(p, n - 1)'
    BY <1>3 DEF LastText, Text
  <2>3. Text(p, n - 1)' = Text(p, n)
    BY <1>6, <2>1
  <2> QED BY <1>2, <2>2, <2>3 DEF LastText
<1>8. ASSUME NEW q \in Pages, NEW j \in DOMAIN queue'[q]
      PROVE  \E i \in DOMAIN queue[q] : Text(q, j)' = Text(q, i)
  BY <1>3, <1>5, <1>6
<1>9. ASSUME NEW q \in Pages, queue'[q] # <<>>
      PROVE  queue[q] # <<>> /\ LastText(q)' = LastText(q) /\ (due'[q] \/ (doc'[q] = doc[q] /\ ~due[q]))
  BY <1>1, <1>3, <1>5, <1>7, <1>9
<1>10. \A q \in Pages :
        \/ wire'[q] = "none"
        \/ wire'[q] = wire[q] /\ carried'[q] = carried[q] /\ Head(queue'[q]) = Head(queue[q])
  BY <1>3, <1>4
<1>11. \A q \in Pages : doc[q] \subseteq doc'[q]
  BY <1>1
<1> QED BY <1>1, <1>8, <1>9, <1>10, <1>11 DEF Continues

\* All steps but those that store a text or open a page.
Onward ==
  \/ \E p \in Pages :
       \/ Closes(p) \/ UserEdits(p) \/ ChatReplaces(p) \/ ChatReplacesOther(p)
       \/ AutosaveFires(p) \/ RetryFires(p) \/ SaveBegins(p) \/ SaveEnds(p)
  \/ \E f \in Flushes : FlushEnds(f) \/ \E p \in Pages : FlushCalled(f, p)
  \/ UNCHANGED vars

\* They are all of that kind.
LEMMA OnwardContinues ==
  ASSUME TypeInv, TimerInv, Onward
  PROVE  Continues
<1> USE DEF text, sending
<1>1. ASSUME NEW p \in Pages, Closes(p) PROVE Continues
  <2>1. \A q \in Pages : page'[q] = "none" <=> page[q] = "none"
    BY <1>1 DEF Closes, TypeInv, TypeOK
  <2>2. /\ UNCHANGED <<doc, wire, carried, stored, contested>> /\ page[p] = "open"
        /\ due' = [due EXCEPT ![p] = FALSE]
    BY <1>1 DEF Closes
  <2>3. \A q \in Pages : q # p => due'[q] = due[q]
    BY <2>2 DEF TypeInv, TypeOK
  <2>4. CASE edited[p]
    <3>1. Enqueue(p, Save("save", None)) /\ Save("save", None).override = None
      BY <1>1, <2>4 DEF Closes, Save
    <3> QED BY <2>1, <2>2, <2>3, <3>1, AppendContinues
  <2>5. CASE ~edited[p]
    <3>1. queue' = queue
      BY <1>1, <2>5 DEF Closes
    <3>2. ~due[p] /\ ~due'[p]
      BY <2>2, <2>5 DEF TimerInv, TypeInv, TypeOK
    <3>3. \A q \in Pages : due'[q] = due[q]
      BY <2>2, <2>3, <3>2 DEF TypeInv, TypeOK
    <3> QED BY <2>1, <2>2, <3>1, <3>3, IdleContinues
  <2> QED BY <2>4, <2>5
<1>2. ASSUME NEW p \in Pages, UserEdits(p) PROVE Continues
  <2>1. UNCHANGED <<page, queue, wire, carried, stored, contested>>
    BY <1>2 DEF UserEdits
  <2>2. \A q \in Pages : (doc'[q] = doc[q] /\ due'[q] = due[q]) \/ (doc[q] \subseteq doc'[q] /\ due'[q])
    <3>1. /\ doc' = [doc EXCEPT ![p] = @ \cup {made + 1}] /\ due' = [due EXCEPT ![p] = TRUE]
          /\ doc \in [Pages -> SUBSET Edits] /\ due \in [Pages -> BOOLEAN]
      BY <1>2 DEF UserEdits, TypeInv, TypeOK
    <3> QED BY <3>1
  <2> QED BY <2>1, <2>2, IdleContinues
<1>3. ASSUME NEW p \in Pages, ChatReplaces(p) PROVE Continues
  <2>1. /\ UNCHANGED <<page, wire, carried, stored, contested>> /\ page[p] = "open"
        /\ Enqueue(p, Save("save", doc'[p]))
    BY <1>3 DEF ChatReplaces
  <2>2. /\ \A q \in Pages : q # p => doc'[q] = doc[q] /\ due'[q] = due[q]
        /\ doc[p] \subseteq doc'[p]
    <3>1. /\ doc' = [doc EXCEPT ![p] = @ \cup {made + 1}] /\ due' = [due EXCEPT ![p] = FALSE]
          /\ doc \in [Pages -> SUBSET Edits] /\ due \in [Pages -> BOOLEAN]
      BY <1>3 DEF ChatReplaces, TypeInv, TypeOK
    <3> QED BY <3>1
  <2>3. Save("save", doc'[p]).override = doc'[p]
    BY DEF Save
  <2> QED BY <2>1, <2>2, <2>3, AppendContinues
<1>4. ASSUME NEW p \in Pages, NEW s, s.override = None, Enqueue(p, s),
             ChatReplacesOther(p) \/ AutosaveFires(p) \/ RetryFires(p) \/ \E f \in Flushes : FlushCalled(f, p)
      PROVE  Continues
  <2>1. UNCHANGED <<page, doc, wire, carried, stored, contested>> /\ due' = [due EXCEPT ![p] = FALSE]
    BY <1>4 DEF ChatReplacesOther, AutosaveFires, RetryFires, FlushCalled
  <2>2. page[p] = "open"
    BY <1>4 DEF ChatReplacesOther, AutosaveFires, RetryFires, FlushCalled, TypeInv, QueueInv
  <2>3. \A q \in Pages : q # p => due'[q] = due[q]
    BY <2>1 DEF TypeInv, TypeOK
  <2> QED BY <1>4, <2>1, <2>2, <2>3, AppendContinues
<1>5. ASSUME NEW p \in Pages, ChatReplacesOther(p) \/ AutosaveFires(p) \/ RetryFires(p) PROVE Continues
  <2>1. Enqueue(p, Save("save", None)) \/ Enqueue(p, Save("retry", None))
    BY <1>5 DEF ChatReplacesOther, AutosaveFires, RetryFires
  <2>2. Save("save", None).override = None /\ Save("retry", None).override = None
    BY DEF Save
  <2> QED BY <1>4, <1>5, <2>1, <2>2
<1>6. ASSUME NEW f \in Flushes, NEW p \in Pages, FlushCalled(f, p) PROVE Continues
  <2>1. CASE due[p]
    <3>1. Enqueue(p, Save(f, None)) /\ Save(f, None).override = None
      BY <1>6, <2>1 DEF FlushCalled, Save
    <3> QED BY <1>4, <1>6, <3>1
  <2>2. CASE ~due[p]
    <3>1. UNCHANGED <<page, doc, queue, wire, carried, stored, contested>> /\ due' = [due EXCEPT ![p] = FALSE]
      BY <1>6, <2>2 DEF FlushCalled
    <3>2. due' = due
      BY <2>2, <3>1 DEF TypeInv, TypeOK
    <3> QED BY <3>1, <3>2, IdleContinues
  <2> QED BY <2>1, <2>2
<1>7. ASSUME NEW f \in Flushes, FlushEnds(f) PROVE Continues
  <2>1. UNCHANGED <<page, doc, due, queue, wire, carried, stored, contested>>
    BY <1>7 DEF FlushEnds
  <2> QED BY <2>1, IdleContinues
<1>8. CASE UNCHANGED vars
  <2>1. UNCHANGED <<page, doc, due, queue, wire, carried, stored, contested>>
    BY <1>8 DEF vars
  <2> QED BY <2>1, IdleContinues
<1> QED BY <1>1, <1>2, <1>3, <1>5, <1>6, <1>7, <1>8, BeginContinues, EndContinues DEF Onward

-----------------------------------------------------------------------------
(* A text is stored, a page is opened *)

\* The main process stores the text of the one save that is under way, or none.
LEMMA MainAnswersKeeps ==
  ASSUME TypeInv, TextInv, EndInv, NEW p \in Pages, MainAnswers(p)
  PROVE  /\ \A q \in Pages : Current(q)' <=> Current(q)
         /\ \A W : Over(W) => Over(W)' /\ (W \subseteq stored => W \subseteq stored')
         /\ \A q \in Pages : LastText(q)' = LastText(q)
         /\ TextInv' /\ EndInv'
<1>1. /\ UNCHANGED <<page, doc, due, queue, carried>>
      /\ wire[p] = "sent" /\ wire'[p] \notin {"none", "sent"}
      /\ \/ stored' = carried[p]
         \/ stored' = stored /\ wire'[p] \notin {"stored", "lost"}
      /\ \A q \in Pages : q # p => wire'[q] = wire[q]
  <2>1. PICK answer \in {"stored"} \cup Faults :
          /\ wire' = [wire EXCEPT ![p] = answer]
          /\ stored' = IF answer \in {"stored", "lost"} THEN carried[p] ELSE stored
    BY DEF MainAnswers
  <2>2. answer \notin {"none", "sent"}
    BY FaultsAssumption DEF AllFaults
  <2>3. wire'[p] = answer /\ \A q \in Pages : q # p => wire'[q] = wire[q]
    BY <2>1 DEF TypeInv, TypeOK
  <2> QED BY <2>1, <2>2, <2>3 DEF MainAnswers, text
<1>2. Current(p) /\ queue[p] # <<>> /\ 1 \in DOMAIN queue[p] /\ Head(queue[p]) = queue[p][1]
  BY <1>1, HeadOfQueue DEF TextInv, TypeInv, QueueInv
<1>3. ASSUME NEW q \in Pages, NEW j PROVE Text(q, j)' = Text(q, j)
  BY <1>1 DEF Text
<1>4. \A q \in Pages : (Current(q)' <=> Current(q)) /\ LastText(q)' = LastText(q)
  BY <1>1, <1>3 DEF Current, LastText
<1>5. \A q \in Pages : Current(q) => q = p
  BY <1>2 DEF Current, Pages
<1>6. Text(p, 1) = carried[p]
  BY <1>1 DEF Text
<1>7. ASSUME NEW W, Over(W) PROVE Over(W)' /\ (W \subseteq stored => W \subseteq stored')
  <2>1. Over(W)'
    BY <1>1, <1>3, <1>4, <1>7 DEF Over
  <2>2. W \subseteq carried[p]
    BY <1>2, <1>6, <1>7 DEF Over
  <2> QED BY <1>1, <2>1, <2>2
<1>8. stored' \subseteq doc'[p]
  <2>1. carried[p] \subseteq doc[p] /\ stored \subseteq doc[p]
    BY <1>2, <1>6 DEF TextInv
  <2> QED BY <1>1, <2>1
<1>9. \A q \in Pages : queue[q] # <<>> => q = p
  BY <1>5 DEF TextInv
<1>10. TextInv'
  <2>1. \A q \in Pages : queue'[q] # <<>> => Current(q)'
    BY <1>1, <1>4 DEF TextInv
  <2>2. \A q \in Pages : Current(q)' => stored' \subseteq doc'[q]
    BY <1>4, <1>5, <1>8
  <2>3. \A q \in Pages : \A i \in DOMAIN queue'[q] : Text(q, i)' \subseteq doc'[q]
    BY <1>1, <1>3 DEF TextInv
  <2>4. \A q \in Pages : wire'[q] # "none" => q = p
    BY <1>1, <1>9 DEF TypeInv, QueueInv
  <2>5. wire'[p] \in {"stored", "lost"} => stored' = carried'[p]
    BY <1>1
  <2> QED BY <1>1, <2>1, <2>2, <2>3, <2>4, <2>5 DEF TextInv
<1>11. EndInv'
  BY <1>1, <1>4 DEF EndInv
<1> QED BY <1>4, <1>7, <1>10, <1>11

\* A page that is opened while nothing is saved starts from what is stored.
LEMMA OpensKeeps ==
  ASSUME TypeInv, NEW p \in Pages, Opens(p), contested' = {}
  PROVE  /\ \A q \in Pages : queue[q] = <<>> /\ queue'[q] = <<>>
         /\ \A q \in Pages : Current(q)' <=> q = p
         /\ \A W : W \subseteq stored => Over(W)'
         /\ TextInv' /\ EndInv'
<1>1. /\ page' = [page EXCEPT ![p] = "open"] /\ doc' = [doc EXCEPT ![p] = stored]
      /\ page[p] = "none" /\ \A q \in 1 .. p - 1 : page[q] = "closed"
      /\ UNCHANGED <<due, queue, wire, carried, stored>>
  BY DEF Opens, sending
<1>2. \A q \in Pages : queue[q] = <<>>
  BY DEF Opens
<1>3. page'[p] = "open" /\ doc'[p] = stored /\ \A q \in Pages : q # p => page'[q] = page[q]
  BY <1>1 DEF TypeInv, TypeOK
<1>4. ASSUME NEW q \in Pages PROVE Current(q)' <=> q = p
  <2>1. \A r \in Pages : r > p => page[r] = "none"
    BY <1>1 DEF TypeInv, QueueInv
  <2>2. \A r \in Pages : r > p => page'[r] = "none" /\ r # p
    BY <1>3, <2>1 DEF Pages
  <2>3. CASE q > p
    BY <2>2, <2>3 DEF Current
  <2>4. CASE q < p
    <3>1. p > q /\ q # p
      BY <2>4 DEF Pages
    <3> QED BY <1>3, <3>1 DEF Current
  <2>5. CASE q = p
    BY <1>3, <2>2, <2>5 DEF Current
  <2> QED BY <2>3, <2>4, <2>5 DEF Pages
<1>5. \A q \in Pages : DOMAIN queue'[q] = {} /\ wire'[q] = "none"
  BY <1>1, <1>2, EmptySeq DEF TypeInv, QueueInv
<1>6. \A W : W \subseteq stored => Over(W)'
  BY <1>3, <1>4, <1>5 DEF Over
<1>7. TextInv'
  BY <1>1, <1>2, <1>3, <1>4, <1>5 DEF TextInv
<1>8. EndInv'
  BY <1>1, <1>2 DEF EndInv
<1> QED BY <1>1, <1>2, <1>4, <1>6, <1>7, <1>8

\* Which steps there are.
LEMMA StepKinds ==
  ASSUME [Next]_vars
  PROVE  Onward \/ \E p \in Pages : MainAnswers(p) \/ Opens(p)
BY DEF Next, Saving, Onward

\* Nobody forgets that a page was contested.
LEMMA ContestedStays ==
  ASSUME TypeInv, TimerInv, [Next]_vars, contested' = {}
  PROVE  contested = {}
<1>1. CASE Onward
  BY <1>1, OnwardContinues DEF Continues
<1>2. ASSUME NEW p \in Pages, MainAnswers(p) PROVE contested = {}
  BY <1>2 DEF MainAnswers, text
<1>3. ASSUME NEW p \in Pages, Opens(p) PROVE contested = {}
  BY <1>3 DEF Opens
<1> QED BY <1>1, <1>2, <1>3, StepKinds

-----------------------------------------------------------------------------
(* What is saved stays saved *)

\* A page that comes to rest has saved its text or is excused; one that rests stays so.
LEMMA QuietOnward ==
  ASSUME TypeInv, QueueInv', TimerInv, TextInv, EndInv, QuietInv, Onward
  PROVE  QuietInv'
<1>0. Continues
  BY OnwardContinues
<1> DEFINE Settled(q) ==
      \/ Quiet(q) /\ doc'[q] = doc[q] /\ (Excused(q) => Excused(q)')
      \/ Excused(q)'
      \/ queue[q] # <<>> /\ doc'[q] \subseteq stored'
<1>1. ASSUME \A q \in Pages : page'[q] # "none" /\ Quiet(q)' => Settled(q)
      PROVE  QuietInv'
  <2> SUFFICES ASSUME NEW q \in Pages, page'[q] # "none", Quiet(q)', ~Excused(q)'
               PROVE  doc'[q] \subseteq stored' /\ Over(doc[q])'
    BY DEF QuietInv
  <2>1. CASE Quiet(q) /\ doc'[q] = doc[q] /\ (Excused(q) => Excused(q)')
    <3>1. doc[q] \subseteq stored /\ Over(doc[q])
      BY <1>0, <2>1 DEF QuietInv, Continues
    <3>2. PICK W : W = doc[q]
      OBVIOUS
    <3>3. Over(W) => Over(W)'
      BY <1>0, ContinuesKeeps
    <3>4. Over(doc[q])' <=> Over(W)'
      BY <2>1, <3>2 DEF Over
    <3>5. Over(W)
      BY <3>1, <3>2
    <3> QED BY <1>0, <2>1, <3>1, <3>3, <3>4, <3>5 DEF Continues
  <2>2. CASE queue[q] # <<>> /\ doc'[q] \subseteq stored'
    <3>1. Current(q) /\ \A r \in Pages : Current(r) => r = q
      BY <2>2 DEF TextInv, Current, Pages
    <3>2. \A r \in Pages : Current(r)' => r = q
      BY <1>0, <3>1, ContinuesKeeps
    <3>3. DOMAIN queue'[q] = {}
      BY EmptySeq DEF Quiet
    <3> QED BY <2>2, <3>2, <3>3 DEF Over
  <2> QED BY <1>1, <2>1, <2>2
<1> HIDE DEF Settled
<1>2. ASSUME NEW q \in Pages, doc'[q] = doc[q], due'[q] = due[q], timer'[q] = timer[q], queue'[q] = queue[q],
             page'[q] = page[q], saveFailed'[q] = saveFailed[q], last'[q] = last[q], Quiet(q)'
      PROVE  Settled(q)
  BY <1>2 DEF Settled, Quiet, Excused
<1>3. ASSUME NEW p \in Pages, Closes(p) PROVE QuietInv'
  <2>1. /\ UNCHANGED <<doc, saveFailed, last>> /\ page[p] = "open"
        /\ page' = [page EXCEPT ![p] = "closed"] /\ due' = [due EXCEPT ![p] = FALSE] /\ timer' = [timer EXCEPT ![p] = FALSE]
        /\ UNCHANGED queue \/ Enqueue(p, Save("save", None))
        /\ edited[p] => Enqueue(p, Save("save", None))
    BY <1>3 DEF Closes, sending
  <2>2. ASSUME NEW q \in Pages, q # p, Quiet(q)' PROVE Settled(q)
    <3>1. queue'[q] = queue[q]
      BY <2>1, <2>2, Appended DEF TypeInv
    <3>2. page'[q] = page[q] /\ due'[q] = due[q] /\ timer'[q] = timer[q]
      BY <2>1, <2>2 DEF TypeInv, TypeOK
    <3> QED BY <1>2, <2>1, <2>2, <3>1, <3>2
  <2>3. ASSUME Quiet(p)' PROVE Settled(p)
    <3>1. ~edited[p] /\ queue' = queue
      BY <2>1, <2>3, Appended DEF Quiet, TypeInv
    <3>2. ~due[p] /\ page'[p] = "closed"
      BY <2>1, <3>1 DEF TimerInv, TypeInv, TypeOK
    <3>3. CASE timer[p]
      BY <2>1, <3>2, <3>3 DEF Settled, Excused, TimerInv
    <3>4. CASE ~timer[p]
      BY <2>1, <2>3, <3>1, <3>2, <3>4 DEF Settled, Excused, Quiet
    <3> QED BY <3>3, <3>4
  <2> QED BY <1>1, <2>2, <2>3
<1>4. ASSUME NEW p \in Pages, UserEdits(p) PROVE QuietInv'
  <2>1. /\ UNCHANGED <<page, queue, timer, saveFailed, last>>
        /\ doc' = [doc EXCEPT ![p] = @ \cup {made + 1}] /\ due' = [due EXCEPT ![p] = TRUE]
    BY <1>4 DEF UserEdits, sending
  <2>2. due'[p] /\ \A q \in Pages : q # p => doc'[q] = doc[q] /\ due'[q] = due[q]
    BY <2>1 DEF TypeInv, TypeOK
  <2> QED BY <1>1, <1>2, <2>1, <2>2 DEF Quiet
<1>5. ASSUME NEW p \in Pages, NEW s, Enqueue(p, s),
             ChatReplaces(p) \/ ChatReplacesOther(p) \/ AutosaveFires(p) \/ RetryFires(p) \/ \E f \in Flushes : FlushCalled(f, p)
      PROVE  QuietInv'
  <2>1. queue'[p] # <<>> /\ \A q \in Pages : q # p => queue'[q] = queue[q]
    BY <1>5, Appended DEF TypeInv
  <2>2. UNCHANGED <<page, saveFailed, last>>
    BY <1>5 DEF ChatReplaces, ChatReplacesOther, AutosaveFires, RetryFires, FlushCalled, text, sending
  <2>3. \A q \in Pages : q # p => doc'[q] = doc[q]
    BY <1>5 DEF ChatReplaces, ChatReplacesOther, AutosaveFires, RetryFires, FlushCalled, text, TypeInv, TypeOK
  <2>4. \A q \in Pages : q # p => due'[q] = due[q] /\ timer'[q] = timer[q]
    BY <1>5 DEF ChatReplaces, ChatReplacesOther, AutosaveFires, RetryFires, FlushCalled, TypeInv, TypeOK
  <2> QED BY <1>1, <1>2, <2>1, <2>2, <2>3, <2>4 DEF Quiet
<1>6. ASSUME NEW p \in Pages, SaveBegins(p) PROVE QuietInv'
  <2>1. /\ UNCHANGED <<page, doc, due, queue, saveFailed, last>> /\ queue[p] # <<>>
        /\ timer' = [timer EXCEPT ![p] = FALSE]
    BY <1>6 DEF SaveBegins, Waiting, text
  <2>2. \A q \in Pages : q # p => timer'[q] = timer[q]
    BY <2>1 DEF TypeInv, TypeOK
  <2> QED BY <1>1, <1>2, <2>1, <2>2 DEF Quiet
<1>7. ASSUME NEW p \in Pages, SaveEnds(p) PROVE QuietInv'
  <2>1. /\ UNCHANGED <<page, doc, due, stored>> /\ last' = [last EXCEPT ![p] = wire[p]]
        /\ queue' = [queue EXCEPT ![p] = Tail(@)]
        /\ queue[p] # <<>> /\ page[p] # "none" /\ wire[p] \notin {"none", "sent"}
    BY <1>7 DEF SaveEnds, text, TypeInv, QueueInv
  <2>2. ASSUME NEW q \in Pages, q # p, Quiet(q)' PROVE Settled(q)
    <3>1. timer'[q] = timer[q] /\ saveFailed'[q] = saveFailed[q]
      BY <1>7, <2>2 DEF SaveEnds, Failed, TypeInv, TypeOK
    <3>2. last'[q] = last[q] /\ queue'[q] = queue[q]
      BY <2>1, <2>2 DEF TypeInv, TypeOK
    <3> QED BY <1>2, <2>1, <2>2, <3>1, <3>2
  <2>3. ASSUME Quiet(p)' PROVE Settled(p)
    <3>1. last'[p] = wire[p]
      BY <2>1 DEF TypeInv, TypeOK
    <3>2. CASE wire[p] = "stored"
      <4>1. Len(queue[p]) = 1
        BY <2>1, <2>3, Shifted DEF Quiet, TypeInv
      <4>2. LastText(p) = carried[p]
        BY <3>2, <4>1 DEF LastText, Text
      <4>3. ~due[p]
        BY <2>1, <2>3 DEF Quiet
      <4>4. doc[p] = stored
        BY <2>1, <3>2, <4>2, <4>3 DEF EndInv, TextInv
      <4> QED BY <2>1, <4>4 DEF Settled
    <3>3. CASE wire[p] = "rejected"
      BY <3>1, <3>3 DEF Settled, Excused
    <3>4. CASE wire[p] # "stored" /\ wire[p] # "rejected"
      <4>1. Failed(p)
        BY <1>7, <2>1, <3>4 DEF SaveEnds
      <4>2. CASE page[p] = "open" /\ retries[p] < MaxRetries
        <5>1. timer' = [timer EXCEPT ![p] = TRUE]
          BY <4>1, <4>2 DEF Failed
        <5>2. timer'[p]
          BY <5>1 DEF TypeInv, TypeOK
        <5> QED BY <2>3, <5>2 DEF Quiet
      <4>3. CASE page[p] = "open" /\ ~(retries[p] < MaxRetries)
        <5>1. retries[p] >= MaxRetries
          <6>1. retries[p] \in 0 .. MaxRetries
            BY DEF TypeInv, TypeOK
          <6> QED BY <4>3, <6>1 DEF MaxRetries
        <5>2. saveFailed' = [saveFailed EXCEPT ![p] = TRUE]
          BY <4>1, <4>3, <5>1 DEF Failed
        <5>3. saveFailed'[p]
          BY <5>2 DEF TypeInv, TypeOK
        <5> QED BY <5>3 DEF Settled, Excused
      <4>4. CASE page[p] # "open"
        <5>1. page'[p] = "closed"
          BY <2>1, <4>4 DEF TypeInv, TypeOK
        <5> QED BY <3>1, <3>4, <5>1 DEF Settled, Excused
      <4> QED BY <4>2, <4>3, <4>4
    <3> QED BY <3>2, <3>3, <3>4
  <2> QED BY <1>1, <2>2, <2>3
<1>8. ASSUME UNCHANGED <<page, doc, queue, timer, saveFailed, last, due>> PROVE QuietInv'
  BY <1>1, <1>2, <1>8
<1>9. ASSUME NEW p \in Pages, ChatReplaces(p) \/ ChatReplacesOther(p) \/ AutosaveFires(p) \/ RetryFires(p)
      PROVE  QuietInv'
  <2>1. \E s : Enqueue(p, s)
    BY <1>9 DEF ChatReplaces, ChatReplacesOther, AutosaveFires, RetryFires
  <2> QED BY <1>5, <1>9, <2>1
<1>10. ASSUME NEW f \in Flushes, NEW p \in Pages, FlushCalled(f, p) PROVE QuietInv'
  <2>1. CASE due[p]
    BY <1>5, <1>10, <2>1 DEF FlushCalled
  <2>2. CASE ~due[p]
    <3>1. due' = due
      BY <1>10, <2>2 DEF FlushCalled, TypeInv, TypeOK
    <3> QED BY <1>8, <1>10, <2>2, <3>1 DEF FlushCalled, text, sending
  <2> QED BY <2>1, <2>2
<1>11. ASSUME NEW f \in Flushes, FlushEnds(f) PROVE QuietInv'
  BY <1>8, <1>11 DEF FlushEnds, text, sending
<1>12. CASE UNCHANGED vars
  BY <1>8, <1>12 DEF vars, text, sending
<1> QED BY <1>3, <1>4, <1>6, <1>7, <1>9, <1>10, <1>11, <1>12 DEF Onward

\* A text that is stored has what pages at rest have saved.
LEMMA QuietMainAnswers ==
  ASSUME TypeInv, TextInv, EndInv, QuietInv, NEW p \in Pages, MainAnswers(p)
  PROVE  QuietInv'
<1> SUFFICES ASSUME NEW q \in Pages, page'[q] # "none", Quiet(q)', ~Excused(q)'
             PROVE  doc'[q] \subseteq stored' /\ Over(doc[q])'
  BY DEF QuietInv
<1>1. UNCHANGED <<page, doc, due, queue, timer, saveFailed, last>>
  BY DEF MainAnswers, text
<1>2. doc[q] \subseteq stored /\ Over(doc[q])
  BY <1>1 DEF QuietInv, Quiet, Excused
<1>3. PICK W : W = doc[q]
  OBVIOUS
<1>4. Over(W)' /\ W \subseteq stored'
  <2>1. Over(W) => Over(W)' /\ (W \subseteq stored => W \subseteq stored')
    BY MainAnswersKeeps
  <2>2. Over(W)
    BY <1>2, <1>3
  <2> QED BY <1>2, <1>3, <2>1, <2>2
<1>5. Over(doc[q])' <=> Over(W)'
  BY <1>1, <1>3 DEF Over
<1> QED BY <1>1, <1>3, <1>4, <1>5

\* And so has a page that is opened.
LEMMA QuietOpens ==
  ASSUME TypeInv, QuietInv, NEW p \in Pages, Opens(p), contested' = {}
  PROVE  QuietInv'
<1> SUFFICES ASSUME NEW q \in Pages, page'[q] # "none", Quiet(q)', ~Excused(q)'
             PROVE  doc'[q] \subseteq stored' /\ Over(doc[q])'
  BY DEF QuietInv
<1>1. /\ UNCHANGED <<due, queue, timer, saveFailed, last, stored>>
      /\ page' = [page EXCEPT ![p] = "open"] /\ doc' = [doc EXCEPT ![p] = stored]
  BY DEF Opens, sending
<1>2. doc'[q] \subseteq stored
  <2>1. CASE q = p
    BY <1>1, <2>1 DEF TypeInv, TypeOK
  <2>2. CASE q # p
    <3>1. page'[q] = page[q] /\ doc'[q] = doc[q]
      BY <1>1, <2>2 DEF TypeInv, TypeOK
    <3> QED BY <1>1, <3>1 DEF QuietInv, Quiet, Excused
  <2> QED BY <2>1, <2>2
<1>3. PICK W : W = doc'[q]
  OBVIOUS
<1>4. Over(W)'
  BY <1>2, <1>3, OpensKeeps
<1>5. Over(doc[q])' <=> Over(W)'
  BY <1>3 DEF Over
<1> QED BY <1>1, <1>2, <1>4, <1>5

-----------------------------------------------------------------------------
(* What is flushed is saved *)

\* A flush that goes on, or not, while its page does not end a save.
LEMMA FlushKept ==
  ASSUME TypeInv, TextInv, EndInv, Continues, NEW f \in Flushes, NEW p \in Pages, NEW want, want \subseteq doc[p],
         FlushOf(f, p, want), flush[f].at # "idle",
         flush'[f].at = flush[f].at \/ (flush[f].at = "saving" /\ flush'[f].at = "waiting"),
         last'[p] = last[p], queue'[p] = <<>> => queue[p] = <<>>
  PROVE  FlushOf(f, p, want)'
<1>1. (Current(p)' <=> Current(p)) /\ (Over(want) => Over(want)') /\ stored' = stored
  BY ContinuesKeeps DEF Continues
<1>2. ASSUME flush'[f].at \in {"saving", "waiting"}
      PROVE  /\ Current(p)'
             /\ queue'[p] # <<>> => want \subseteq LastText(p)'
             /\ queue'[p] = <<>> => want \subseteq stored' \/ last'[p] # "stored"
  <2>1. /\ Current(p)
        /\ queue[p] # <<>> => want \subseteq LastText(p)
        /\ queue[p] = <<>> => want \subseteq stored \/ last[p] # "stored"
    BY <1>2 DEF FlushOf
  <2>2. queue'[p] # <<>> => LastText(p)' = doc'[p] \/ (queue[p] # <<>> /\ LastText(p)' = LastText(p))
    BY DEF Continues
  <2>3. doc[p] \subseteq doc'[p]
    BY DEF Continues
  <2> QED BY <1>1, <2>1, <2>2, <2>3
<1>3. ASSUME flush'[f].at = "done"
      PROVE  /\ want \subseteq stored' \/ last'[p] # "stored"
             /\ Current(p)' \/ last'[p] = "stored" => Over(want)'
  <2>1. flush[f].at = "done"
    BY <1>3
  <2> QED BY <1>1, <2>1 DEF FlushOf
<1> QED BY <1>2, <1>3 DEF FlushOf

\* A save of the page of a flush ends.
LEMMA FlushSaved ==
  ASSUME TypeInv, TextInv, EndInv, Continues, NEW f \in Flushes, NEW p \in Pages, NEW want, want \subseteq doc[p],
         FlushOf(f, p, want), flush[f].at # "idle",
         flush'[f].at = flush[f].at \/ (flush[f].at = "saving" /\ flush'[f].at = "waiting"),
         SaveEnds(p)
  PROVE  FlushOf(f, p, want)'
<1>1. (Current(p)' <=> Current(p)) /\ (Over(want) => Over(want)') /\ stored' = stored
  BY ContinuesKeeps DEF Continues
<1>2. /\ queue[p] # <<>> /\ wire[p] \notin {"none", "sent"} /\ queue' = [queue EXCEPT ![p] = Tail(@)]
      /\ last'[p] = wire[p]
  BY DEF SaveEnds, TypeInv, QueueInv, TypeOK
<1>3. Current(p) /\ Text(p, 1) = carried[p] /\ 1 \in DOMAIN queue[p]
  BY <1>2, HeadOfQueue DEF TextInv, Text, TypeInv
<1>4. ASSUME flush'[f].at \in {"saving", "waiting"}
      PROVE  /\ Current(p)'
             /\ queue'[p] # <<>> => want \subseteq LastText(p)'
             /\ queue'[p] = <<>> => want \subseteq stored' \/ last'[p] # "stored"
  <2>1. want \subseteq LastText(p)
    BY <1>2, <1>4 DEF FlushOf
  <2>2. queue'[p] # <<>> => LastText(p)' = doc'[p] \/ LastText(p)' = LastText(p)
    BY DEF Continues
  <2>3. doc[p] \subseteq doc'[p]
    BY DEF Continues
  <2>4. ASSUME queue'[p] = <<>>, last'[p] = "stored" PROVE want \subseteq stored'
    <3>1. Len(queue[p]) = 1
      BY <1>2, <2>4, Shifted DEF TypeInv
    <3>2. LastText(p) = carried[p]
      BY <1>3, <3>1 DEF LastText
    <3>3. stored = carried[p]
      BY <1>2, <2>4 DEF TextInv
    <3> QED BY <1>1, <2>1, <3>2, <3>3
  <2> QED BY <1>1, <1>3, <2>1, <2>2, <2>3, <2>4
<1>5. ASSUME flush'[f].at = "done"
      PROVE  /\ want \subseteq stored' \/ last'[p] # "stored"
             /\ Current(p)' \/ last'[p] = "stored" => Over(want)'
  <2>1. flush[f].at = "done"
    BY <1>5
  <2>2. Over(want)
    BY <1>3, <2>1 DEF FlushOf
  <2>3. want \subseteq carried[p]
    BY <1>3, <2>2 DEF Over
  <2>4. last'[p] = "stored" => stored = carried[p]
    BY <1>2 DEF TextInv
  <2> QED BY <1>1, <2>2, <2>3, <2>4
<1> QED BY <1>4, <1>5 DEF FlushOf

\* A flush of a page is called.
LEMMA FlushStarts ==
  ASSUME TypeInv, TimerInv, EndInv', QuietInv, Continues, NEW f \in Flushes, NEW p \in Pages, FlushCalled(f, p)
  PROVE  FlushOf(f, p, doc[p])'
<1>1. /\ page[p] = "open" /\ UNCHANGED <<page, doc, stored, last>> /\ ~due'[p]
      /\ flush'[f].at \in {"saving", "waiting"}
  BY DEF FlushCalled, text, sending, TypeInv, TypeOK
<1>2. Current(p)'
  BY <1>1, OpenIsCurrent DEF Current, TypeInv
<1>3. queue'[p] # <<>> => LastText(p)' = doc'[p]
  BY <1>1 DEF EndInv
<1>4. ASSUME queue'[p] = <<>> PROVE doc[p] \subseteq stored \/ last[p] # "stored"
  <2>1. ~due[p] /\ queue[p] = <<>>
    BY <1>4, Appended DEF FlushCalled, TypeInv
  <2>2. CASE timer[p]
    BY <2>2 DEF TimerInv
  <2>3. CASE ~timer[p]
    <3>1. doc[p] \subseteq stored \/ Excused(p)
      BY <1>1, <2>1, <2>3 DEF QuietInv, Quiet
    <3> QED BY <1>1, <3>1 DEF Excused, TimerInv
  <2> QED BY <2>2, <2>3
<1> QED BY <1>1, <1>2, <1>3, <1>4 DEF FlushOf

\* The calls of flushPendingSave over all steps that store nothing and open nothing.
LEMMA FlushOnward ==
  ASSUME TypeInv, TypeOK', CallerInv, NameInv, TimerInv, TextInv, EndInv, QuietInv, FlushInv, Onward
  PROVE  FlushInv'
<1>0. Continues /\ EndInv'
  BY OnwardContinues, ContinuesKeeps
<1> SUFFICES ASSUME NEW f \in Flushes PROVE FlushOf(f, flush[f].of, flush[f].want)'
  BY DEF FlushInv
<1>1. PICK p, want : p = flush'[f].of /\ want = flush'[f].want
  OBVIOUS
<1>2. SUFFICES FlushOf(f, p, want)'
  BY <1>1 DEF FlushOf, Over, Current, LastText, Text
<1>3. flush \in [Flushes -> [at : {"idle", "saving", "waiting", "done"}, of : 0 .. MaxPages, want : SUBSET Edits]]
  BY DEF TypeInv, TypeOK
\* Of a flush that was called before, the page and what it is to save remain.
<1>4. ASSUME flush[f].at # "idle", flush'[f].of = flush[f].of, flush'[f].want = flush[f].want
      PROVE  p \in Pages /\ want \subseteq doc[p] /\ FlushOf(f, p, want)
  BY <1>1, <1>4 DEF CallerInv, FlushInv
<1>5. CASE flush'[f].at = "idle"
  BY <1>5 DEF FlushOf
<1>6. ASSUME flush'[f] = flush[f], last' = last,
             \A q \in Pages : queue'[q] = <<>> => queue[q] = <<>>
      PROVE  FlushOf(f, p, want)'
  <2>1. CASE flush[f].at # "idle"
    BY <1>0, <1>4, <1>6, <2>1, FlushKept
  <2> QED BY <1>5, <1>6, <2>1
<1>7. ASSUME NEW q \in Pages,
             \/ Closes(q) \/ UserEdits(q) \/ ChatReplaces(q) \/ ChatReplacesOther(q)
             \/ AutosaveFires(q) \/ RetryFires(q) \/ SaveBegins(q)
      PROVE  FlushOf(f, p, want)'
  <2>1. UNCHANGED <<flush, last>>
    BY <1>7 DEF Closes, UserEdits, ChatReplaces, ChatReplacesOther, AutosaveFires, RetryFires, SaveBegins, sending
  <2>2. UNCHANGED queue \/ \E s : Enqueue(q, s)
    BY <1>7 DEF Closes, UserEdits, ChatReplaces, ChatReplacesOther, AutosaveFires, RetryFires, SaveBegins
  <2>3. \A r \in Pages : queue'[r] = <<>> => queue[r] = <<>>
    BY <2>2, Appended DEF TypeInv
  <2> QED BY <1>6, <2>1, <2>3
<1>8. ASSUME NEW q \in Pages, SaveEnds(q) PROVE FlushOf(f, p, want)'
  <2>1. /\ flush'[f].of = flush[f].of /\ flush'[f].want = flush[f].want
        /\ flush'[f].at = flush[f].at \/ (Head(queue[q]).by = f /\ flush'[f].at = "waiting")
    BY <1>3, <1>8 DEF SaveEnds
  <2>2. queue[q] # <<>> /\ queue' = [queue EXCEPT ![q] = Tail(@)] /\ last' = [last EXCEPT ![q] = wire[q]]
    BY <1>8 DEF SaveEnds, TypeInv, QueueInv
  <2>3. Head(queue[q]).by = f => flush[f].at = "saving"
    BY <2>2, HeadOfQueue DEF NameInv, TypeInv
  <2>4. CASE flush[f].at = "idle"
    BY <1>5, <2>1, <2>3, <2>4
  <2>5. CASE flush[f].at # "idle" /\ p = q
    BY <1>0, <1>4, <1>8, <2>1, <2>3, <2>5, FlushSaved
  <2>6. CASE flush[f].at # "idle" /\ p # q
    <3>1. p \in Pages
      BY <1>4, <2>1, <2>6
    <3>2. last'[p] = last[p] /\ queue'[p] = queue[p]
      BY <2>2, <2>6, <3>1 DEF TypeInv, TypeOK
    <3> QED BY <1>0, <1>4, <2>1, <2>3, <2>6, <3>2, FlushKept
  <2> QED BY <2>4, <2>5, <2>6
<1>9. ASSUME NEW g \in Flushes, FlushEnds(g) PROVE FlushOf(f, p, want)'
  <2>1. UNCHANGED <<last, queue, stored, page, doc>> /\ flush' = [flush EXCEPT ![g].at = "done"]
    BY <1>9 DEF FlushEnds, text, sending
  <2>2. CASE f # g
    <3>1. flush'[f] = flush[f]
      BY <1>3, <2>1, <2>2
    <3> QED BY <1>6, <2>1, <3>1
  <2>3. CASE f = g
    <3>1. /\ flush[f].at = "waiting" /\ queue[flush[f].of] = <<>> /\ flush'[f].at = "done"
          /\ flush'[f].of = flush[f].of /\ flush'[f].want = flush[f].want
      BY <1>3, <1>9, <2>1, <2>3 DEF FlushEnds, Flushed
    <3>2. p \in Pages /\ want \subseteq doc[p] /\ FlushOf(f, p, want) /\ queue[p] = <<>>
      BY <1>1, <1>4, <3>1
    <3>3. Current(p) /\ (want \subseteq stored \/ last[p] # "stored")
      BY <3>1, <3>2 DEF FlushOf
    <3>4. \A q \in Pages : Current(q) => q = p
      BY <3>2, <3>3 DEF Current, Pages
    <3>5. DOMAIN queue[p] = {}
      BY <3>2, EmptySeq
    <3>6. Over(want)
      BY <3>2, <3>4, <3>5 DEF Over
    <3>7. Over(want)'
      BY <1>0, <3>6, ContinuesKeeps
    <3> QED BY <2>1, <3>1, <3>3, <3>7 DEF FlushOf
  <2> QED BY <2>2, <2>3
<1>10. ASSUME NEW g \in Flushes, NEW q \in Pages, FlushCalled(g, q) PROVE FlushOf(f, p, want)'
  <2>1. CASE f = g
    <3>1. p = q /\ want = doc[q] /\ doc' = doc
      BY <1>1, <1>3, <1>10, <2>1 DEF FlushCalled, text
    <3>2. FlushOf(f, q, doc[q])'
      BY <1>0, <1>10, <2>1, FlushStarts
    <3>3. want = doc'[q]
      BY <3>1
    <3> QED BY <3>1, <3>2, <3>3 DEF FlushOf, Over
  <2>2. CASE f # g
    <3>1. flush'[f] = flush[f] /\ last' = last
      BY <1>3, <1>10, <2>2 DEF FlushCalled, sending
    <3>2. UNCHANGED queue \/ \E s : Enqueue(q, s)
      BY <1>10 DEF FlushCalled
    <3>3. \A r \in Pages : queue'[r] = <<>> => queue[r] = <<>>
      BY <3>2, Appended DEF TypeInv
    <3> QED BY <1>6, <3>1, <3>3
  <2> QED BY <2>1, <2>2
<1>11. CASE UNCHANGED vars
  BY <1>6, <1>11 DEF vars, sending
<1> QED BY <1>7, <1>8, <1>9, <1>10, <1>11 DEF Onward

\* A text is stored while flushes wait.
LEMMA FlushMainAnswers ==
  ASSUME TypeInv, CallerInv, TextInv, EndInv, FlushInv, NEW p \in Pages, MainAnswers(p)
  PROVE  FlushInv'
<1> SUFFICES ASSUME NEW f \in Flushes, flush[f].at # "idle" PROVE FlushOf(f, flush[f].of, flush[f].want)'
  BY DEF FlushInv, FlushOf, MainAnswers
<1>1. PICK o, want : o = flush[f].of /\ want = flush[f].want
  OBVIOUS
<1>2. UNCHANGED <<flush, last, queue, page, doc>> /\ wire[p] = "sent"
  BY DEF MainAnswers, text
<1>3. SUFFICES FlushOf(f, o, want)'
  BY <1>1, <1>2 DEF FlushOf, Over, Current, LastText, Text
<1>4. o \in Pages /\ FlushOf(f, o, want)
  BY <1>1 DEF CallerInv, FlushInv
<1>5. /\ Current(o)' <=> Current(o)
      /\ LastText(o)' = LastText(o)
      /\ Over(want) => Over(want)' /\ (want \subseteq stored => want \subseteq stored')
  BY <1>4, MainAnswersKeeps
<1>6. ASSUME flush[f].at \in {"saving", "waiting"} PROVE Current(o) /\ queue[o] # <<>>
  <2>1. Current(o)
    BY <1>4, <1>6 DEF FlushOf
  <2>2. queue[p] # <<>>
    BY <1>2 DEF TypeInv, QueueInv
  <2>3. Current(p)
    BY <2>2 DEF TextInv
  <2>4. o = p
    BY <1>4, <2>1, <2>3 DEF Current, Pages
  <2> QED BY <2>1, <2>2, <2>4
<1>7. CASE flush[f].at \in {"saving", "waiting"}
  BY <1>2, <1>4, <1>5, <1>6, <1>7 DEF FlushOf
<1>8. CASE flush[f].at = "done"
  BY <1>2, <1>4, <1>5, <1>8 DEF FlushOf
<1> QED BY <1>2, <1>7, <1>8 DEF FlushOf

\* No page is opened while a flush waits.
LEMMA FlushOpens ==
  ASSUME TypeInv, CallerInv, FlushInv, NEW p \in Pages, Opens(p), contested' = {}
  PROVE  FlushInv'
<1> SUFFICES ASSUME NEW f \in Flushes, flush[f].at # "idle" PROVE FlushOf(f, flush[f].of, flush[f].want)'
  BY DEF FlushInv, FlushOf, Opens
<1>1. PICK o, want : o = flush[f].of /\ want = flush[f].want
  OBVIOUS
<1>2. UNCHANGED <<flush, last, queue, stored>> /\ page[p] = "none" /\ NoneToContinue
  BY DEF Opens, sending
<1>3. SUFFICES FlushOf(f, o, want)'
  BY <1>1, <1>2 DEF FlushOf, Over, Current, LastText, Text
<1>4. o \in Pages /\ FlushOf(f, o, want) /\ page[o] # "none"
  BY <1>1 DEF CallerInv, FlushInv
<1>5. queue[o] = <<>> /\ DOMAIN queue[o] = {}
  BY <1>4, EmptySeq, OpensKeeps
<1>6. flush[f].at \notin {"saving", "waiting"}
  BY <1>1, <1>2, <1>5 DEF NoneToContinue, Flushed, CallerInv
<1>7. ~Current(o)'
  BY <1>2, <1>4, OpensKeeps
<1>8. want \subseteq stored => Over(want)'
  BY OpensKeeps
<1>9. CASE flush[f].at = "done"
  BY <1>2, <1>4, <1>7, <1>8, <1>9 DEF FlushOf
<1> QED BY <1>2, <1>6, <1>9 DEF FlushOf

-----------------------------------------------------------------------------
(* Theorems *)

\* The invariant holds at first.
LEMMA InitInv == Init => IInv
<1> SUFFICES ASSUME Init PROVE IInv
  OBVIOUS
<1>1. TypeOK
  BY TypeInit
<1>2. \A p \in Pages : page[p] = "none" /\ doc[p] = {} /\ queue[p] = <<>> /\ wire[p] = "none" /\ DOMAIN queue[p] = {}
  BY EmptySeq DEF Init
<1>3. \A f \in Flushes : flush[f].at = "idle"
  BY DEF Init
<1>4. QueueInv /\ TimerInv
  BY <1>2 DEF QueueInv, TimerInv, Init
<1>5. CallerInv /\ NameInv
  BY <1>2, <1>3 DEF CallerInv, NameInv
<1>6. TextInv /\ EndInv
  BY <1>2 DEF TextInv, EndInv, Current
<1>7. QuietInv /\ FlushInv
  BY <1>2, <1>3 DEF QuietInv, FlushInv, FlushOf
<1> QED BY <1>1, <1>4, <1>5, <1>6, <1>7 DEF IInv, TypeInv, SavedInv

\* And every step keeps it.
LEMMA NextInv == IInv /\ [Next]_vars => IInv'
<1> SUFFICES ASSUME IInv, [Next]_vars PROVE IInv'
  OBVIOUS
<1>1. TypeInv /\ TimerInv /\ CallerInv /\ NameInv
  BY DEF IInv
<1>2. TypeOK' /\ QueueInv'
  BY <1>1, TypeStep, QueueStep
<1>3. TimerInv' /\ CallerInv' /\ NameInv'
  BY <1>1, <1>2, TimerStep, CallerStep
<1>4. ASSUME contested' = {} PROVE TextInv' /\ EndInv' /\ QuietInv' /\ FlushInv'
  <2>1. TextInv /\ EndInv /\ QuietInv /\ FlushInv
    BY <1>1, <1>4, ContestedStays DEF IInv, SavedInv
  <2>2. CASE Onward
    <3>1. Continues
      BY <1>1, <2>2, OnwardContinues
    <3>2. TextInv' /\ EndInv'
      BY <1>1, <2>1, <3>1, ContinuesKeeps
    <3>3. QuietInv'
      BY <1>1, <1>2, <2>1, <2>2, QuietOnward
    <3>4. FlushInv'
      BY <1>1, <1>2, <2>1, <2>2, FlushOnward
    <3> QED BY <3>2, <3>3, <3>4
  <2>3. ASSUME NEW p \in Pages, MainAnswers(p) PROVE TextInv' /\ EndInv' /\ QuietInv' /\ FlushInv'
    BY <1>1, <2>1, <2>3, MainAnswersKeeps, QuietMainAnswers, FlushMainAnswers
  <2>4. ASSUME NEW p \in Pages, Opens(p) PROVE TextInv' /\ EndInv' /\ QuietInv' /\ FlushInv'
    BY <1>1, <1>4, <2>1, <2>4, OpensKeeps, QuietOpens, FlushOpens
  <2> QED BY <2>2, <2>3, <2>4, StepKinds
<1> QED BY <1>2, <1>3, <1>4 DEF IInv, TypeInv, SavedInv

\* The inductive invariant, from which the theorems below follow.
THEOREM Invariance == Spec => []IInv
<1> QED BY InitInv, NextInv, PTL DEF Spec

\* Every variable has its type.
THEOREM TypeCorrect == Spec => []TypeOK
<1>1. IInv => TypeOK
  BY DEF IInv, TypeInv
<1> QED BY <1>1, Invariance, PTL

\* Before pages were contested, a page that has nothing scheduled, waiting or under way has
\* saved every edit, or shows that it could not.
THEOREM Settled == Spec => []SettledIsSaved
<1>1. IInv => SettledIsSaved
  <2> SUFFICES ASSUME IInv, contested = {}, NEW p \in Pages, Quiet(p)
               PROVE  doc[p] \subseteq stored \/ Excused(p)
    BY DEF SettledIsSaved
  <2>1. CASE page[p] = "none"
    BY <2>1 DEF IInv, TypeInv, QueueInv
  <2>2. CASE page[p] # "none"
    BY <2>2 DEF IInv, SavedInv, QuietInv
  <2> QED BY <2>1, <2>2
<1> QED BY <1>1, Invariance, PTL

\* Before pages were contested, every edit made before a flush that is over is saved, unless
\* the last save of its page failed.
THEOREM Flushing == Spec => []FlushedIsSaved
<1>1. IInv => FlushedIsSaved
  BY DEF IInv, SavedInv, FlushInv, FlushOf, FlushedIsSaved
<1> QED BY <1>1, Invariance, PTL

\* A text is never replaced by one that lacks an edit of it, but by a replacement of the chat
\* or after pages were contested.
THEOREM NoRegress == Spec => NeverGoesBack
<1>1. IInv /\ [Next]_vars => [contested # {} \/ (\E p \in Pages : Overrides(p)) \/ stored \subseteq stored']_vars
  <2> SUFFICES ASSUME IInv, [Next]_vars, contested = {}, \A p \in Pages : ~Overrides(p)
               PROVE  stored \subseteq stored'
    OBVIOUS
  <2>1. TypeInv /\ TimerInv /\ TextInv
    BY DEF IInv, SavedInv
  <2>2. CASE Onward
    BY <2>1, <2>2, OnwardContinues DEF Continues
  <2>3. ASSUME NEW p \in Pages, Opens(p) PROVE stored \subseteq stored'
    BY <2>3 DEF Opens, sending
  <2>4. ASSUME NEW p \in Pages, MainAnswers(p) PROVE stored \subseteq stored'
    <3>1. wire[p] = "sent" /\ (stored' = carried[p] \/ stored' = stored)
      BY <2>4 DEF MainAnswers
    <3>2. Head(queue[p]).override = None
      BY <3>1 DEF Overrides
    <3>3. stored \subseteq carried[p]
      BY <2>1, <3>1, <3>2 DEF TextInv
    <3> QED BY <3>1, <3>3
  <2> QED BY <2>2, <2>3, <2>4, StepKinds
<1> QED BY <1>1, Invariance, PTL DEF Spec, NeverGoesBack
=============================================================================
