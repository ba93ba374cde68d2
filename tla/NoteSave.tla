------------------------------ MODULE NoteSave ------------------------------
(***************************************************************************)
(* How the page of a meeting in index.js saves what is edited (useSave,    *)
(* its debounced queue, the flush before a page is left or the program     *)
(* quits, and the opening and closing of pages).                           *)
(*                                                                         *)
(* A page is one mount of the editor on one meeting.  Each has its own     *)
(* debounce, mutex and retries; they share nothing but the main process.   *)
(* Of the title, the notes and the summary the model follows one, as the   *)
(* set of the edits it contains.  The code runs on one thread: an action   *)
(* is what it does up to its next await.                                   *)
(***************************************************************************)
EXTENDS Integers, Sequences, FiniteSets

CONSTANTS
  MaxEdits,  \* bound: edits, of the user and of the chat's tools
  MaxPages,  \* bound: how often the meeting is opened
  Flushes,   \* calls of flushPendingSave, by a page that is left or by the main process
  None,      \* no override
  Faults     \* what may go wrong in this instance, a subset of AllFaults

\* "fails": a save fails or returns no meetingId; "lost": a save is stored but its
\* answer is lost; "rejected": the main process rejects a save.
AllFaults == {"fails", "lost", "rejected"}

ASSUME BoundsAssumption == MaxEdits \in Nat /\ MaxPages \in Nat /\ IsFiniteSet(Flushes)
ASSUME NamesAssumption == {"save", "retry"} \cap Flushes = {} /\ \A s \in SUBSET (1 .. MaxEdits) : s # None
ASSUME FaultsAssumption == Faults \subseteq AllFaults

MaxRetries == 3

VARIABLES
  page,       \* "none", "open" or "closed": the mounts in the order of their opening
  doc,        \* the edits in the editor of each page
  edited,     \* has the user edited? (hasEdited of useSave)
  due,        \* is an autosave scheduled?
  queue,      \* the saves in runExclusive of each page's mutex, its holder first
  wire,       \* what has become of the holder's SaveMeeting
  carried,    \* and the text it carries, {} when there is none
  retries,    \* the retries since the last new save
  timer,      \* is a retry scheduled?
  saveFailed, \* is the badge shown?
  last,       \* the result of the last save of each page
  flush,      \* where each call of flushPendingSave is, of which page, and what it was to save
  stored,     \* what the main process has
  made,       \* how many edits there were
  contested   \* pages that were opened while an earlier one still saved

Pages == 1 .. MaxPages
Edits == 1 .. MaxEdits

text == <<page, doc, edited, made, contested>>
sending == <<wire, carried, retries, last, saveFailed, stored>>
vars == <<text, due, queue, sending, timer, flush>>

Save(by, override) == [by |-> by, override |-> override]
Enqueue(p, s) == queue' = [queue EXCEPT ![p] = Append(@, s)]

Waiting(p) == queue[p] # <<>> /\ wire[p] = "none"

\* Mutant: a flush does not wait for what is under way.
FlushedAtOnce(f) == flush[f].at = "waiting"

Flushed(f) == flush[f].at = "waiting" /\ queue[flush[f].of] = <<>>

\* Continuations of settled promises run before the next event.
NoneToContinue == (\A p \in Pages : ~Waiting(p)) /\ (\A f \in Flushes : ~Flushed(f))

Init ==
  /\ page = [p \in Pages |-> "none"]
  /\ doc = [p \in Pages |-> {}]
  /\ edited = [p \in Pages |-> FALSE]
  /\ due = [p \in Pages |-> FALSE]
  /\ queue = [p \in Pages |-> <<>>]
  /\ wire = [p \in Pages |-> "none"]
  /\ carried = [p \in Pages |-> {}]
  /\ retries = [p \in Pages |-> 0]
  /\ timer = [p \in Pages |-> FALSE]
  /\ saveFailed = [p \in Pages |-> FALSE]
  /\ last = [p \in Pages |-> "none"]
  /\ flush = [f \in Flushes |-> [at |-> "idle", of |-> 0, want |-> {}]]
  /\ stored = {}
  /\ made = 0
  /\ contested = {}

-----------------------------------------------------------------------------
(* Pages *)

\* Mutant: the editor shows what the list of meetings was loaded with.
OpensFromList(p) ==
  /\ NoneToContinue
  /\ page[p] = "none" /\ \A q \in 1 .. p - 1 : page[q] = "closed"
  /\ page' = [page EXCEPT ![p] = "open"]
  /\ contested' = IF \E q \in Pages : queue[q] # <<>> THEN contested \cup {p} ELSE contested
  /\ UNCHANGED <<doc, edited, made, due, queue, sending, timer, flush>>

\* GetMeetingContent answers and the editor is mounted on what the main process has.
Opens(p) ==
  /\ NoneToContinue
  /\ page[p] = "none" /\ \A q \in 1 .. p - 1 : page[q] = "closed"
  /\ page' = [page EXCEPT ![p] = "open"]
  /\ doc' = [doc EXCEPT ![p] = stored]
  /\ contested' = IF \E q \in Pages : queue[q] # <<>> THEN contested \cup {p} ELSE contested
  /\ UNCHANGED <<edited, made, due, queue, sending, timer, flush>>

\* Mutant: a page is left without a last save.
ClosesUnsaved(p) ==
  /\ NoneToContinue
  /\ page[p] = "open"
  /\ page' = [page EXCEPT ![p] = "closed"]
  /\ due' = [due EXCEPT ![p] = FALSE]
  /\ timer' = [timer EXCEPT ![p] = FALSE]
  /\ UNCHANGED <<doc, edited, made, contested, queue, sending, flush>>

\* The page is left, after its flush or the flush's 1.5 seconds, or another meeting is
\* opened from outside, without a flush.  Timers end; what was edited is saved once more.
Closes(p) ==
  /\ NoneToContinue
  /\ page[p] = "open"
  /\ page' = [page EXCEPT ![p] = "closed"]
  /\ due' = [due EXCEPT ![p] = FALSE]
  /\ timer' = [timer EXCEPT ![p] = FALSE]
  /\ IF edited[p] THEN Enqueue(p, Save("save", None)) ELSE UNCHANGED queue
  /\ UNCHANGED <<doc, edited, made, contested, sending, flush>>

\* Mutant: an edit made while a save is under way does not schedule another.
UserEditsUnscheduled(p) ==
  /\ NoneToContinue
  /\ page[p] = "open" /\ made < MaxEdits
  /\ made' = made + 1
  /\ doc' = [doc EXCEPT ![p] = @ \cup {made + 1}]
  /\ edited' = [edited EXCEPT ![p] = TRUE]
  /\ due' = [due EXCEPT ![p] = @ \/ queue[p] = <<>>]
  /\ UNCHANGED <<page, contested, queue, sending, timer, flush>>

\* The editor reports a change.
UserEdits(p) ==
  /\ NoneToContinue
  /\ page[p] = "open" /\ made < MaxEdits
  /\ made' = made + 1
  /\ doc' = [doc EXCEPT ![p] = @ \cup {made + 1}]
  /\ edited' = [edited EXCEPT ![p] = TRUE]
  /\ due' = [due EXCEPT ![p] = TRUE]
  /\ UNCHANGED <<page, contested, queue, sending, timer, flush>>

\* A tool of the chat replaces the text; the editor does not report this as a change.
\* The save carries the new text whatever is typed until its turn comes.
ChatReplaces(p) ==
  /\ NoneToContinue
  /\ page[p] = "open" /\ made < MaxEdits
  /\ made' = made + 1
  /\ doc' = [doc EXCEPT ![p] = @ \cup {made + 1}]
  /\ due' = [due EXCEPT ![p] = FALSE]
  /\ Enqueue(p, Save("save", doc'[p]))
  /\ UNCHANGED <<page, edited, contested, sending, timer, flush>>

\* A tool of the chat replaces another field, which saves this one with it.
ChatReplacesOther(p) ==
  /\ NoneToContinue
  /\ page[p] = "open" /\ made < MaxEdits
  /\ made' = made + 1
  /\ due' = [due EXCEPT ![p] = FALSE]
  /\ Enqueue(p, Save("save", None))
  /\ UNCHANGED <<page, doc, edited, contested, sending, timer, flush>>

-----------------------------------------------------------------------------
(* Timers *)

AutosaveFires(p) ==
  /\ NoneToContinue
  /\ due[p]
  /\ due' = [due EXCEPT ![p] = FALSE]
  /\ Enqueue(p, Save("save", None))
  /\ UNCHANGED <<text, sending, timer, flush>>

\* The timer is cleared by every save that begins, so that the saveSeq it compares
\* has not changed.
RetryFires(p) ==
  /\ NoneToContinue
  /\ timer[p]
  /\ timer' = [timer EXCEPT ![p] = FALSE]
  /\ due' = [due EXCEPT ![p] = FALSE]
  /\ Enqueue(p, Save("retry", None))
  /\ UNCHANGED <<text, sending, flush>>

-----------------------------------------------------------------------------
(* Saving *)

\* The mutex is free for the first in the queue.  It clears the retry, reads the text
\* and invokes SaveMeeting.
SaveBegins(p) ==
  /\ Waiting(p)
  /\ LET s == Head(queue[p]) IN
     /\ carried' = [carried EXCEPT ![p] = IF s.override = None THEN doc[p] ELSE s.override]
     /\ retries' = [retries EXCEPT ![p] = IF s.by = "retry" THEN @ ELSE 0]
  /\ wire' = [wire EXCEPT ![p] = "sent"]
  /\ timer' = [timer EXCEPT ![p] = FALSE]
  /\ UNCHANGED <<text, due, queue, last, saveFailed, stored, flush>>

\* The main process stores a text, or not, and answers, in any order.
MainAnswers(p) ==
  /\ wire[p] = "sent"
  /\ \E answer \in {"stored"} \cup Faults :
     /\ wire' = [wire EXCEPT ![p] = answer]
     /\ stored' = IF answer \in {"stored", "lost"} THEN carried[p] ELSE stored
  /\ UNCHANGED <<text, due, queue, carried, retries, last, saveFailed, timer, flush>>

\* Mutant: gives up without the badge.
FailedSilently(p) ==
  IF page[p] = "open" /\ retries[p] < MaxRetries
    THEN /\ retries' = [retries EXCEPT ![p] = @ + 1]
         /\ timer' = [timer EXCEPT ![p] = TRUE]
         /\ UNCHANGED saveFailed
    ELSE UNCHANGED <<retries, saveFailed, timer>>

\* The answer to a save that failed: up to three retries, then the badge.  A page that
\* was closed does not retry.
Failed(p) ==
  IF page[p] = "open" /\ retries[p] < MaxRetries
    THEN /\ retries' = [retries EXCEPT ![p] = @ + 1]
         /\ timer' = [timer EXCEPT ![p] = TRUE]
         /\ UNCHANGED saveFailed
    ELSE /\ IF retries[p] >= MaxRetries
              THEN /\ retries' = [retries EXCEPT ![p] = 0]
                   /\ saveFailed' = [saveFailed EXCEPT ![p] = TRUE]
              ELSE UNCHANGED <<retries, saveFailed>>
         /\ UNCHANGED timer

\* The continuation of a save's await; then the mutex is released, and a flush whose
\* save this was goes on to waitForInFlight.
SaveEnds(p) ==
  /\ NoneToContinue
  /\ wire[p] \notin {"none", "sent"}
  /\ last' = [last EXCEPT ![p] = wire[p]]
  /\ CASE wire[p] = "stored"   -> /\ retries' = [retries EXCEPT ![p] = 0]
                                  /\ saveFailed' = [saveFailed EXCEPT ![p] = FALSE]
                                  /\ UNCHANGED timer
       [] wire[p] = "rejected" -> UNCHANGED <<retries, saveFailed, timer>>
       [] OTHER                -> Failed(p)
  /\ wire' = [wire EXCEPT ![p] = "none"]
  /\ carried' = [carried EXCEPT ![p] = {}]
  /\ queue' = [queue EXCEPT ![p] = Tail(@)]
  /\ flush' = [f \in Flushes |-> IF Head(queue[p]).by = f THEN [flush[f] EXCEPT !.at = "waiting"]
                                                          ELSE flush[f]]
  /\ UNCHANGED <<text, due, stored>>

-----------------------------------------------------------------------------
(* Flushing *)

\* Mutant: a flush awaits a save that it has not asked for.
FlushAwaitsSave(f, p) ==
  /\ NoneToContinue
  /\ page[p] = "open" /\ flush[f].at = "idle"
  /\ flush' = [flush EXCEPT ![f] = [at |-> "saving", of |-> p, want |-> doc[p]]]
  /\ due' = [due EXCEPT ![p] = FALSE]
  /\ IF due[p] THEN Enqueue(p, Save(f, None)) ELSE UNCHANGED queue
  /\ UNCHANGED <<text, sending, timer>>

\* flushPendingSave: a scheduled autosave is run now, then every save is awaited.
FlushCalled(f, p) ==
  /\ NoneToContinue
  /\ page[p] = "open" /\ flush[f].at = "idle"
  /\ flush' = [flush EXCEPT ![f] = [at |-> IF due[p] THEN "saving" ELSE "waiting",
                                    of |-> p, want |-> doc[p]]]
  /\ due' = [due EXCEPT ![p] = FALSE]
  /\ IF due[p] THEN Enqueue(p, Save(f, None)) ELSE UNCHANGED queue
  /\ UNCHANGED <<text, sending, timer>>

\* waitForUnlock: no save is under way, and the page is left or FlushPendingSaveAck sent.
FlushEnds(f) ==
  /\ Flushed(f)
  /\ flush' = [flush EXCEPT ![f].at = "done"]
  /\ UNCHANGED <<text, due, queue, sending, timer>>

-----------------------------------------------------------------------------

Saving(p) == AutosaveFires(p) \/ RetryFires(p) \/ SaveBegins(p) \/ MainAnswers(p) \/ SaveEnds(p)

Next ==
  \/ \E p \in Pages : Opens(p) \/ Closes(p) \/ UserEdits(p) \/ ChatReplaces(p) \/ ChatReplacesOther(p)
  \/ \E p \in Pages : Saving(p)
  \/ \E f \in Flushes : FlushEnds(f) \/ \E p \in Pages : FlushCalled(f, p)

Spec == Init /\ [][Next]_vars

\* Timers fire, promises continue, and the main process answers each save.
FairSpec ==
  /\ Spec
  /\ \A p \in Pages : /\ WF_vars(AutosaveFires(p)) /\ WF_vars(RetryFires(p))
                      /\ WF_vars(SaveBegins(p)) /\ WF_vars(MainAnswers(p)) /\ WF_vars(SaveEnds(p))
  /\ \A f \in Flushes : WF_vars(FlushEnds(f))

-----------------------------------------------------------------------------
(* Properties *)

\* Every variable has its type.
TypeOK ==
  /\ page \in [Pages -> {"none", "open", "closed"}]
  /\ doc \in [Pages -> SUBSET Edits] /\ carried \in [Pages -> SUBSET Edits]
  /\ edited \in [Pages -> BOOLEAN] /\ due \in [Pages -> BOOLEAN]
  /\ timer \in [Pages -> BOOLEAN] /\ saveFailed \in [Pages -> BOOLEAN]
  /\ queue \in [Pages -> Seq([by : {"save", "retry"} \cup Flushes,
                              override : {None} \cup SUBSET Edits])]
  /\ wire \in [Pages -> {"none", "sent", "stored"} \cup AllFaults]
  /\ last \in [Pages -> {"none", "stored"} \cup AllFaults]
  /\ retries \in [Pages -> 0 .. MaxRetries]
  /\ flush \in [Flushes -> [at : {"idle", "saving", "waiting", "done"}, of : 0 .. MaxPages,
                            want : SUBSET Edits]]
  /\ stored \in SUBSET Edits /\ contested \in SUBSET Pages
  /\ made \in 0 .. MaxEdits

Overrides(p) == wire[p] = "sent" /\ Head(queue[p]).override # None

\* The main process never replaces a text by one that lacks an edit of it: a save reads
\* the text only when the one before it is over, and a page that is opened builds on what
\* the last one saved.  Exempt are the saves of the chat's replacements, whose text is
\* older than their turn, and the meetings of which a page was opened while an earlier
\* one still saved.
NeverGoesBack ==
  [][contested # {} \/ (\E p \in Pages : Overrides(p)) \/ stored \subseteq stored']_vars

Quiet(p) == ~due[p] /\ ~timer[p] /\ queue[p] = <<>>

\* What excuses that a text is not saved: the badge, a rejection, or, on a page that was
\* left, that its last save failed.
Excused(p) == saveFailed[p] \/ last[p] = "rejected" \/ (page[p] = "closed" /\ last[p] # "stored")

\* A page with nothing scheduled, waiting or under way has saved every edit, or shows
\* that it could not.
SettledIsSaved == contested = {} => \A p \in Pages : Quiet(p) => doc[p] \subseteq stored \/ Excused(p)

\* When a flush is over, every edit made before it is saved, unless the last save failed.
FlushedIsSaved ==
  contested = {} => \A f \in Flushes : flush[f].at = "done" =>
    flush[f].want \subseteq stored \/ last[flush[f].of] # "stored"

\* An edit is saved or the badge is shown in the end, unless the page is left, the main
\* process rejects the edit, or a save of an earlier page may overwrite it.
EditsEndUp ==
  \A p \in Pages, e \in Edits :
    page[p] = "open" /\ e \in doc[p]
      ~> e \in stored \/ Excused(p) \/ page[p] = "closed" \/ contested # {}

\* Every flush ends.
FlushesEnd == \A f \in Flushes : flush[f].at # "idle" ~> flush[f].at = "done"

\* Nothing is put off for ever, neither an edit nor a flush, however saves, retries and
\* flushes wait for one another.
SavingEnds == EditsEndUp /\ FlushesEnd
=============================================================================
