---------------------------- MODULE UvcStreaming ----------------------------
(***************************************************************************)
(* The life of one capture stream of the UVC driver                        *)
(* (linux-7.1.8/drivers/media/usb/uvc/uvc_video.c): its URBs, the work     *)
(* items that copy their data, the video buffers the data goes to, and the *)
(* control paths that start, stop, suspend and resume the transfer.        *)
(*                                                                         *)
(* Four kinds of actors interleave: the thread that runs a control path    *)
(* (one at a time: the queue's mutex and the PM core see to that), the     *)
(* completion handlers (the host controller gives back the URBs of one     *)
(* endpoint one after the other), one work item per URB on an unbound work *)
(* queue, and the application, the device and the PM core around them.     *)
(*                                                                         *)
(* What a payload header says is left to choice here (module UvcDecode has *)
(* the state machine of the headers), and a payload is one unit of data.   *)
(***************************************************************************)
EXTENDS Integers, Sequences, FiniteSets, SequencesExt

CONSTANTS
  NumUrbs,        \* UVC_URBS
  Buffers,        \* the video buffers the application has allocated
  NoBuffer,       \* a NULL struct uvc_buffer *
  BufferLength,   \* buf->length, in payloads
  MaxPackets,     \* packets of one URB that the handler decodes
  NoDrop,         \* uvc_no_drop_param: are frames with an error handed over?
  Faults          \* what may go wrong in this instance, a subset of AllFaults

\* "status": an URB completes with an error of the bus; "submit": the host
\* controller refuses an URB; "setup": an allocation or a control request on
\* the way to a running transfer fails; "unplug": the device goes away;
\* "requeue": the application queues a buffer again that was cancelled while
\* copies into it are pending, of which it cannot know.
AllFaults == {"status", "submit", "setup", "unplug", "requeue"}

ASSUME NumUrbsAssumption == NumUrbs \in Nat \ {0}
ASSUME BuffersAssumption == IsFiniteSet(Buffers) /\ NoBuffer \notin Buffers
ASSUME LengthsAssumption == BufferLength \in Nat \ {0} /\ MaxPackets \in Nat \ {0}
ASSUME NoDropAssumption == NoDrop \in BOOLEAN
ASSUME FaultsAssumption == Faults \subseteq AllFaults

Urbs == 1 .. NumUrbs

VARIABLES
  ctl,        \* where the control path is; "idle" when none runs
  call,       \* the control path: what stop_transfer and start_transfer return to
  next,       \* the URB the control path's for_each_uvc_urb loop is at
  streaming,  \* vb2_is_streaming(&queue->queue)
  suspended,  \* has the PM core suspended the streaming interface?
  frozen,     \* stream->frozen
  clock,      \* is stream->clock.samples allocated?
  memory,     \* are the transfer buffers allocated (stream->urb_size # 0)?
  present,    \* is the device plugged in?
  urb,        \* uvc_urb->urb: "none" when NULL, and who has it otherwise
  poisoned,   \* urb->reject, set by usb_poison_urb
  cur,        \* the running completion handler's buf
  packets,    \* packets the running completion handler has still to decode
  ops,        \* the buffers of uvc_urb->copy_operations, async_operations long
  turn,       \* the copy operation the work item is at
  work,       \* where the work item of each URB is; "none" when not pending
  irqqueue,   \* queue->irqqueue
  gone,       \* is UVC_QUEUE_DISCONNECTED set in queue->flags?
  state,      \* buf->state
  error,      \* buf->error
  used,       \* buf->bytesused, in payloads
  ref         \* buf->ref

control == <<ctl, call, next, streaming, suspended, frozen, clock, memory>>
transfer == <<urb, poisoned, cur, packets>>
copying == <<ops, turn, work>>
queue == <<irqqueue, gone, state, error, used, ref>>
vars == <<control, present, transfer, copying, queue>>

Null(u) == urb[u] = "none"
Completing(u) == urb[u] = "completing"
WorkPending(u) == work[u] # "none"

Init ==
  /\ ctl = "idle" /\ call = "none" /\ next = 1
  /\ streaming = FALSE /\ suspended = FALSE /\ frozen = FALSE
  /\ clock = FALSE /\ memory = FALSE /\ present = TRUE
  /\ urb = [u \in Urbs |-> "none"] /\ poisoned = [u \in Urbs |-> FALSE]
  /\ cur = NoBuffer /\ packets = 0
  /\ ops = [u \in Urbs |-> <<>>] /\ turn = [u \in Urbs |-> 1] /\ work = [u \in Urbs |-> "none"]
  /\ irqqueue = <<>> /\ gone = FALSE
  /\ state = [b \in Buffers |-> "IDLE"] /\ error = [b \in Buffers |-> FALSE]
  /\ used = [b \in Buffers |-> 0] /\ ref = [b \in Buffers |-> 0]

-----------------------------------------------------------------------------
(* The buffer queue (uvc_queue.c, which is not part of the repository).    *)

\* Is some copy into b still to be made or released?
Referenced(b) == \E u \in Urbs : \E i \in turn[u] .. Len(ops[u]) : ops[u][i] = b

\* The application may queue b.
UserOwned(b) ==
  /\ state[b] \in {"IDLE", "DONE", "ERROR"}
  /\ Referenced(b) => "requeue" \in Faults

\* buf_queue: the driver gets b, or gives it straight back when it is told that
\* the device is gone.
Enqueue(b, q) ==
  IF gone
  THEN /\ state' = [state EXCEPT ![b] = "ERROR"]
       /\ irqqueue' = q
       /\ UNCHANGED <<error, used, ref>>
  ELSE /\ state' = [state EXCEPT ![b] = "QUEUED"]
       /\ error' = [error EXCEPT ![b] = FALSE]
       /\ used' = [used EXCEPT ![b] = 0]
       /\ ref' = [ref EXCEPT ![b] = 1]
       /\ irqqueue' = Append(q, b)

\* uvc_queue_buffer_release: with the last reference the buffer goes to the
\* application, or back to the end of the queue when a bad frame is dropped.
\* q is the queue at that moment, s the state and e the error flag of b.
Release(b, q, s, e) ==
  IF ref[b] # 1
  THEN /\ ref' = [ref EXCEPT ![b] = @ - 1]
       /\ state' = [state EXCEPT ![b] = s]
       /\ error' = [error EXCEPT ![b] = e]
       /\ irqqueue' = q
       /\ UNCHANGED used
  ELSE IF e /\ ~NoDrop
  THEN Enqueue(b, q)
  ELSE /\ ref' = [ref EXCEPT ![b] = 0]
       /\ state' = [state EXCEPT ![b] = IF e THEN "ERROR" ELSE "DONE"]
       /\ error' = [error EXCEPT ![b] = e]
       /\ irqqueue' = q
       /\ UNCHANGED used

\* Take every buffer off the queue and give it back in the state s.
ReturnBuffers(s) ==
  /\ state' = [b \in Buffers |-> IF Contains(irqqueue, b) THEN s ELSE state[b]]
  /\ irqqueue' = <<>>
  /\ UNCHANGED <<error, used, ref>>

QueueBuffer(b) ==
  /\ UserOwned(b)
  /\ streaming /\ ~suspended /\ ctl = "idle"
  /\ Enqueue(b, irqqueue)
  /\ UNCHANGED <<control, present, transfer, copying, gone>>

-----------------------------------------------------------------------------
(* The control paths.                                                      *)

\* A step of the control path moves to the point p.
Goto(p) == ctl' = p
Setup(p, q) == \/ Goto(p)
               \/ "setup" \in Faults /\ Goto(q)
               \/ ~present /\ Goto(q)

\* VIDIOC_STREAMON: the queue, with at most one buffer here, is handed to the
\* driver and uvc_video_start_streaming allocates the clock samples.
StartStreaming ==
  /\ ctl = "idle" /\ ~streaming /\ ~suspended
  /\ call' = "start"
  /\ \/ UNCHANGED queue
     \/ \E b \in Buffers : UserOwned(b) /\ Enqueue(b, irqqueue) /\ UNCHANGED gone
  /\ \/ Goto("commit") /\ clock' = TRUE
     \/ "setup" \in Faults /\ Goto("refused") /\ UNCHANGED clock
  /\ UNCHANGED <<next, streaming, suspended, frozen, memory, present, transfer, copying>>

\* uvc_commit_video.
Commit ==
  /\ ctl = "commit"
  /\ Setup("memory", "refused")
  /\ UNCHANGED <<call, next, streaming, suspended, frozen, clock, memory, present,
                 transfer, copying, queue>>

\* uvc_video_start_transfer selects the endpoint and the alternate setting, and
\* uvc_alloc_urb_buffers finds the memory it already has or allocates it.
AllocMemory ==
  /\ ctl = "memory"
  /\ Setup("urbs", "refused")
  /\ next' = 1
  /\ memory' = (memory \/ ctl' = "urbs")
  /\ UNCHANGED <<call, streaming, suspended, frozen, clock, present,
                 transfer, copying, queue>>

\* One turn of the loop of uvc_init_video_isoc and uvc_init_video_bulk.
AllocUrb ==
  /\ ctl = "urbs"
  /\ \/ /\ urb' = [urb EXCEPT ![next] = "idle"]
        /\ poisoned' = [poisoned EXCEPT ![next] = FALSE]
        /\ IF next = NumUrbs THEN next' = 1 /\ Goto("submit")
                             ELSE next' = next + 1 /\ UNCHANGED ctl
     \/ /\ "setup" \in Faults
        /\ next' = 1 /\ Goto("poison")
        /\ UNCHANGED <<urb, poisoned>>
  /\ UNCHANGED <<call, streaming, suspended, frozen, clock, memory, present,
                 cur, packets, copying, queue>>

\* usb_submit_urb(u), from whatever context: a poisoned URB, and one for a
\* device that is gone, is refused.
Submit(u) ==
  \/ /\ ~poisoned[u] /\ present
     /\ urb' = [urb EXCEPT ![u] = "submitted"]
  \/ /\ poisoned[u] \/ ~present \/ "submit" \in Faults
     /\ urb' = [urb EXCEPT ![u] = "idle"]

\* One turn of the loop that submits the URBs at the end of
\* uvc_video_start_transfer.
SubmitUrb ==
  /\ ctl = "submit"
  /\ Submit(next)
  /\ IF urb'[next] = "idle"
     THEN next' = 1 /\ Goto("poison") /\ UNCHANGED streaming
     ELSE IF next = NumUrbs
     THEN next' = 1 /\ Goto("idle") /\ streaming' = TRUE
     ELSE next' = next + 1 /\ UNCHANGED <<ctl, streaming>>
  /\ UNCHANGED <<call, suspended, frozen, clock, memory, present,
                 poisoned, cur, packets, copying, queue>>

\* The start of uvc_video_stop_transfer on the behalf of the path c.
StopTransfer(c) == Goto("poison") /\ call' = c /\ next' = 1

\* VIDIOC_STREAMOFF, or the unregistering of the video device after an unplug.
StopStreaming ==
  /\ ctl = "idle" /\ streaming
  /\ suspended => ~present
  /\ StopTransfer("stop")
  /\ UNCHANGED <<streaming, suspended, frozen, clock, memory, present,
                 transfer, copying, queue>>

\* Mutant: the stream is stopped without being frozen.
SuspendUnfrozen ==
  /\ ctl = "idle" /\ ~suspended /\ present
  /\ suspended' = TRUE
  /\ IF streaming THEN StopTransfer("suspend") ELSE UNCHANGED <<ctl, call, next>>
  /\ UNCHANGED <<streaming, frozen, clock, memory, present, transfer, copying, queue>>

\* uvc_suspend: uvc_video_suspend freezes a running stream and stops its
\* transfer without touching the queue.
Suspend ==
  /\ ctl = "idle" /\ ~suspended /\ present
  /\ suspended' = TRUE
  /\ IF streaming THEN frozen' = TRUE /\ StopTransfer("suspend")
                  ELSE UNCHANGED <<frozen, ctl, call, next>>
  /\ UNCHANGED <<streaming, clock, memory, present, transfer, copying, queue>>

\* __uvc_resume: uvc_video_resume commits the parameters again and starts the
\* transfer of a stream that was running.
Resume ==
  /\ ctl = "idle" /\ suspended
  /\ suspended' = FALSE /\ frozen' = FALSE
  /\ IF streaming THEN Goto("commit") /\ call' = "resume" ELSE UNCHANGED <<ctl, call>>
  /\ UNCHANGED <<next, streaming, clock, memory, present, transfer, copying, queue>>

\* Mutant: usb_kill_urb, after which the URB can be submitted again.
KillUrb ==
  /\ ctl = "poison"
  /\ Goto("await")
  /\ UNCHANGED <<call, next, streaming, suspended, frozen, clock, memory, present,
                 transfer, copying, queue>>

\* usb_poison_urb, first half: no submission succeeds from now on.
PoisonUrb ==
  /\ ctl = "poison"
  /\ poisoned' = [poisoned EXCEPT ![next] = ~Null(next)]
  /\ Goto("await")
  /\ UNCHANGED <<call, next, streaming, suspended, frozen, clock, memory, present,
                 urb, cur, packets, copying, queue>>

\* usb_poison_urb, second half: it returns when the URB is not with the host
\* controller and its completion handler is not running.
PoisonReturns ==
  /\ ctl = "await"
  /\ urb[next] \notin {"submitted", "completing"}
  /\ IF next = NumUrbs THEN next' = 1 /\ Goto("flush")
                       ELSE next' = next + 1 /\ Goto("poison")
  /\ UNCHANGED <<call, streaming, suspended, frozen, clock, memory, present,
                 transfer, copying, queue>>

\* flush_workqueue.
FlushWork ==
  /\ ctl = "flush"
  /\ \A u \in Urbs : ~WorkPending(u)
  /\ Goto("free")
  /\ UNCHANGED <<call, next, streaming, suspended, frozen, clock, memory, present,
                 transfer, copying, queue>>

\* The end of uvc_video_stop_transfer: the URBs are freed, and the transfer
\* buffers too unless the stream is being suspended.
FreeUrbs ==
  /\ ctl = "free"
  /\ urb' = [u \in Urbs |-> "none"]
  /\ memory' = (memory /\ call = "suspend")
  /\ Goto(IF call \in {"start", "resume"} THEN "refused" ELSE "stopped")
  /\ UNCHANGED <<call, next, streaming, suspended, frozen, clock, present,
                 poisoned, cur, packets, copying, queue>>

\* Mutant: the error path forgets uvc_video_clock_cleanup.
StartRefusedKeepsClock ==
  /\ ctl = "refused" /\ call = "start"
  /\ Goto("idle")
  /\ ReturnBuffers("IDLE")
  /\ UNCHANGED <<call, next, streaming, suspended, frozen, clock, memory, present,
                 transfer, copying, gone>>

\* uvc_video_start_streaming gives up: the clock is cleaned up and vb2 gets the
\* buffers back.
StartRefused ==
  /\ ctl = "refused" /\ call = "start"
  /\ Goto("idle") /\ clock' = FALSE
  /\ ReturnBuffers("IDLE")
  /\ UNCHANGED <<call, next, streaming, suspended, frozen, memory, present,
                 transfer, copying, gone>>

\* __uvc_resume switches the stream off when it cannot be started again.
ResumeRefused ==
  /\ ctl = "refused" /\ call = "resume"
  /\ StopTransfer("stop")
  /\ UNCHANGED <<streaming, suspended, frozen, clock, memory, present,
                 transfer, copying, queue>>

\* The end of uvc_video_suspend.
Suspended ==
  /\ ctl = "stopped" /\ call = "suspend"
  /\ Goto("idle")
  /\ UNCHANGED <<call, next, streaming, suspended, frozen, clock, memory, present,
                 transfer, copying, queue>>

\* The end of uvc_video_stop_streaming; the queue then returns what it holds.
Stopped ==
  /\ ctl = "stopped" /\ call = "stop"
  /\ Goto("idle") /\ clock' = FALSE /\ streaming' = FALSE
  /\ ReturnBuffers("ERROR")
  /\ UNCHANGED <<call, next, suspended, frozen, memory, present,
                 transfer, copying, gone>>

-----------------------------------------------------------------------------
(* The completion handler, uvc_video_complete.                             *)

HandlerRuns == \E u \in Urbs : Completing(u)

\* The host controller gives back u, and the handler starts.
GiveBack(u) == urb[u] = "submitted" /\ ~HandlerRuns

\* Mutant: the count of copy operations is not reset.
CompleteKeepsCopies(u) ==
  /\ GiveBack(u)
  /\ urb' = [urb EXCEPT ![u] = "completing"]
  /\ cur' = IF irqqueue = <<>> THEN NoBuffer ELSE Head(irqqueue)
  /\ packets' = MaxPackets
  /\ UNCHANGED <<control, present, poisoned, copying, queue>>

\* The URB carries data: the handler looks at the head of the queue, forgets the
\* copies of the last time and starts to decode.
CompleteOk(u) ==
  /\ GiveBack(u)
  /\ urb' = [urb EXCEPT ![u] = "completing"]
  /\ cur' = IF irqqueue = <<>> THEN NoBuffer ELSE Head(irqqueue)
  /\ packets' = MaxPackets
  /\ ops' = [ops EXCEPT ![u] = <<>>] /\ turn' = [turn EXCEPT ![u] = 1]
  /\ UNCHANGED <<control, present, poisoned, work, queue>>

\* uvc_queue_cancel: every waiting buffer is returned with an error.
Cancel(disconnect) == ReturnBuffers("ERROR") /\ gone' = (gone \/ disconnect)

\* The URB was poisoned, or it failed: the queue is cancelled unless the stream
\* is frozen.  The URB is not submitted again.
CompleteFailed(u) ==
  /\ GiveBack(u)
  /\ poisoned[u] \/ "status" \in Faults
  /\ urb' = [urb EXCEPT ![u] = "idle"]
  /\ IF frozen THEN UNCHANGED queue ELSE Cancel(FALSE)
  /\ UNCHANGED <<control, present, poisoned, cur, packets, copying>>

\* The endpoint is shut down because the device is gone: the queue is cancelled
\* even when the stream is frozen.
CompleteShutdown(u) ==
  /\ GiveBack(u)
  /\ ~present
  /\ urb' = [urb EXCEPT ![u] = "idle"]
  /\ Cancel(TRUE)
  /\ UNCHANGED <<control, present, poisoned, cur, packets, copying>>

\* Mutant: the queue's reference to the completed buffer is never dropped.
NextBuffersUnreleased(e) ==
  LET rest == RemoveFirst(irqqueue, cur)
  IN /\ irqqueue' = rest
     /\ state' = [state EXCEPT ![cur] = "READY"]
     /\ error' = [error EXCEPT ![cur] = e]
     /\ cur' = IF rest = <<>> THEN NoBuffer ELSE Head(rest)
     /\ UNCHANGED <<used, ref>>

\* uvc_video_next_buffers: the frame in cur is complete and leaves the queue;
\* validate_buffer and the headers decide on its error flag e.
NextBuffers(e) ==
  LET rest == RemoveFirst(irqqueue, cur)
  IN /\ Release(cur, rest, "READY", e)
     /\ cur' = IF rest = <<>> THEN NoBuffer ELSE Head(rest)

\* A packet without a valid header, out of sync, or without a buffer to go to.
PacketDropped(u) ==
  /\ Completing(u) /\ packets > 0
  /\ packets' = packets - 1
  /\ UNCHANGED <<control, present, urb, poisoned, cur, copying, queue>>

\* The bus lost a packet, or one without data or out of sync has the error bit:
\* the frame is bad.
PacketBad(u) ==
  /\ Completing(u) /\ packets > 0 /\ cur # NoBuffer
  /\ packets' = packets - 1
  /\ error' = [error EXCEPT ![cur] = TRUE]
  /\ UNCHANGED <<control, present, urb, poisoned, cur, copying,
                 irqqueue, gone, state, used, ref>>

\* decode_start finds the first packet of the next frame (EAGAIN).
FrameToggled(u) ==
  /\ Completing(u) /\ packets > 0 /\ cur # NoBuffer
  /\ used[cur] # 0
  /\ \E short \in BOOLEAN : NextBuffers(error[cur] \/ short)
  /\ UNCHANGED <<control, present, urb, poisoned, packets, copying, gone>>

\* Mutant: the copy does not take a reference.
AddCopyUnreferenced(u) ==
  /\ ops' = [ops EXCEPT ![u] = Append(@, cur)]
  /\ UNCHANGED ref

\* decode_data notes one more copy and takes a reference to the buffer.
AddCopy(u) ==
  /\ ops' = [ops EXCEPT ![u] = Append(@, cur)]
  /\ ref' = [ref EXCEPT ![cur] = @ + 1]

\* decode_data within a frame: the buffer has room, and the frame goes on.  The
\* data of a packet with the error bit (e) is copied, too.
PacketData(u) ==
  /\ Completing(u) /\ packets > 0 /\ cur # NoBuffer
  /\ used[cur] < BufferLength
  /\ AddCopy(u)
  /\ packets' = packets - 1
  /\ state' = [state EXCEPT ![cur] = "ACTIVE"]
  /\ used' = [used EXCEPT ![cur] = @ + 1]
  /\ \E e \in BOOLEAN : error' = [error EXCEPT ![cur] = @ \/ e]
  /\ UNCHANGED <<control, present, urb, poisoned, cur, turn, work, irqqueue, gone>>

\* decode_data with the last packet of a frame (EOF), or with more data than the
\* buffer has room for: the copy is noted and the buffer leaves the queue, so
\* that the reference of the queue passes to the copy.
PacketLast(u) ==
  /\ Completing(u) /\ packets > 0 /\ cur # NoBuffer
  /\ \E e \in BOOLEAN :
       LET full == used[cur] = BufferLength
           rest == RemoveFirst(irqqueue, cur)
       IN /\ full => e
          /\ error' = [error EXCEPT ![cur] = @ \/ e]
          /\ used' = [used EXCEPT ![cur] = IF full THEN @ ELSE @ + 1]
          /\ cur' = IF rest = <<>> THEN NoBuffer ELSE Head(rest)
          /\ irqqueue' = rest
  /\ state' = [state EXCEPT ![cur] = "READY"]
  /\ ops' = [ops EXCEPT ![u] = Append(@, cur)]
  /\ packets' = packets - 1
  /\ UNCHANGED <<control, present, urb, poisoned, turn, work, gone, ref>>

\* Mutant: the handler submits the URB although it left copies to the work item.
HandlerResubmits(u) ==
  /\ Completing(u)
  /\ cur' = NoBuffer /\ packets' = 0
  /\ Submit(u)
  /\ work' = [work EXCEPT ![u] = IF ops[u] = <<>> THEN @ ELSE "copy"]
  /\ UNCHANGED <<control, present, poisoned, ops, turn, queue>>

\* Mutant: an URB without data is not submitted again.
HandlerForgetsUrb(u) ==
  /\ Completing(u)
  /\ cur' = NoBuffer /\ packets' = 0
  /\ urb' = [urb EXCEPT ![u] = "idle"]
  /\ work' = [work EXCEPT ![u] = IF ops[u] = <<>> THEN @ ELSE "copy"]
  /\ UNCHANGED <<control, present, poisoned, ops, turn, queue>>

\* The handler returns.  Without a copy to make it submits the URB itself, else
\* it leaves that to the work item.
HandlerReturns(u) ==
  /\ Completing(u)
  /\ cur' = NoBuffer /\ packets' = 0
  /\ IF ops[u] = <<>>
     THEN Submit(u) /\ UNCHANGED <<turn, work>>
     ELSE /\ urb' = [urb EXCEPT ![u] = "idle"]
          /\ work' = [work EXCEPT ![u] = "copy"] /\ turn' = [turn EXCEPT ![u] = 1]
  /\ UNCHANGED <<control, present, poisoned, ops, queue>>

-----------------------------------------------------------------------------
(* The work item, uvc_video_copy_data_work.                                *)

\* memcpy of the next copy operation.
WorkCopy(u) ==
  /\ work[u] = "copy"
  /\ work' = [work EXCEPT ![u] = "release"]
  /\ UNCHANGED <<control, present, transfer, ops, turn, queue>>

\* The reference that decode_data took for this copy is dropped.
WorkRelease(u) ==
  /\ work[u] = "release"
  /\ LET b == ops[u][turn[u]]
     IN Release(b, irqqueue, state[b], error[b])
  /\ turn' = [turn EXCEPT ![u] = @ + 1]
  /\ work' = [work EXCEPT ![u] = IF turn[u] = Len(ops[u]) THEN "submit" ELSE "copy"]
  /\ UNCHANGED <<control, present, transfer, ops, gone>>

\* Mutant: the work item tries again until the submission succeeds.
WorkRetries(u) ==
  /\ work[u] = "submit"
  /\ Submit(u)
  /\ work' = [work EXCEPT ![u] = IF urb'[u] = "submitted" THEN "none" ELSE @]
  /\ UNCHANGED <<control, present, poisoned, cur, packets, ops, turn, queue>>

\* The work item ends with the submission of its URB.
WorkSubmit(u) ==
  /\ work[u] = "submit"
  /\ Submit(u)
  /\ work' = [work EXCEPT ![u] = "none"]
  /\ UNCHANGED <<control, present, poisoned, cur, packets, ops, turn, queue>>

-----------------------------------------------------------------------------
Unplug ==
  /\ "unplug" \in Faults /\ present
  /\ present' = FALSE
  /\ UNCHANGED <<control, transfer, copying, queue>>

Start == StartStreaming \/ Commit \/ AllocMemory \/ AllocUrb \/ SubmitUrb
Stop == \/ StopStreaming \/ PoisonUrb \/ PoisonReturns \/ FlushWork \/ FreeUrbs
        \/ StartRefused \/ ResumeRefused \/ Stopped
Power == Suspend \/ Resume \/ Suspended
Handler(u) == \/ PacketDropped(u) \/ PacketBad(u) \/ FrameToggled(u)
              \/ PacketData(u) \/ PacketLast(u) \/ HandlerReturns(u)
Complete(u) == CompleteOk(u) \/ CompleteFailed(u) \/ CompleteShutdown(u)
Work(u) == WorkCopy(u) \/ WorkRelease(u) \/ WorkSubmit(u)

Next ==
  \/ Start \/ Stop \/ Power \/ Unplug
  \/ \E b \in Buffers : QueueBuffer(b)
  \/ \E u \in Urbs : Complete(u) \/ Handler(u) \/ Work(u)

Spec == Init /\ [][Next]_vars

\* Threads, works and handlers run on, an URB whose poisoning is waited for is
\* given back, and decoding ends because an URB has a bounded number of packets.
\* The application and the device owe nothing.
Fairness ==
  /\ WF_vars(Commit) /\ WF_vars(AllocMemory) /\ WF_vars(AllocUrb) /\ WF_vars(SubmitUrb)
  /\ WF_vars(PoisonUrb) /\ WF_vars(PoisonReturns) /\ WF_vars(FlushWork) /\ WF_vars(FreeUrbs)
  /\ WF_vars(StartRefused) /\ WF_vars(ResumeRefused) /\ WF_vars(Suspended) /\ WF_vars(Stopped)
  /\ \A u \in Urbs : /\ SF_vars(poisoned[u] /\ CompleteFailed(u))
                     /\ WF_vars(HandlerReturns(u)) /\ WF_vars(Work(u))

FairSpec == Spec /\ Fairness

-----------------------------------------------------------------------------
(* Properties.                                                             *)

\* Every variable has its type, and copy_operations never holds more entries
\* than an URB has packets.
TypeOK ==
  /\ ctl \in {"idle", "commit", "memory", "urbs", "submit", "poison", "await",
              "flush", "free", "refused", "stopped"}
  /\ call \in {"none", "start", "stop", "suspend", "resume"}
  /\ next \in Urbs /\ packets \in 0 .. MaxPackets
  /\ {streaming, suspended, frozen, clock, memory, present, gone} \subseteq BOOLEAN
  /\ urb \in [Urbs -> {"none", "idle", "submitted", "completing"}]
  /\ poisoned \in [Urbs -> BOOLEAN]
  /\ cur \in Buffers \cup {NoBuffer}
  /\ work \in [Urbs -> {"none", "copy", "release", "submit"}]
  /\ DOMAIN ops = Urbs /\ turn \in [Urbs -> 1 .. MaxPackets + 1]
  /\ \A u \in Urbs : ops[u] \in Seq(Buffers) /\ Len(ops[u]) <= MaxPackets
  /\ irqqueue \in Seq(Buffers)
  /\ state \in [Buffers -> {"IDLE", "QUEUED", "ACTIVE", "READY", "DONE", "ERROR"}]
  /\ error \in [Buffers -> BOOLEAN]
  /\ used \in [Buffers -> 0 .. BufferLength] /\ ref \in [Buffers -> Nat]

\* While the copies of an URB are pending nobody else has the URB: the device
\* does not overwrite the data they read, no handler resets their list, and the
\* URB is not freed.
WorkOwnsUrb == \A u \in Urbs : WorkPending(u) => urb[u] = "idle"

\* The transfer buffers and the clock samples exist as long as the device, a
\* completion handler or a copy may use them; in particular no work item brings
\* an URB back to life behind uvc_video_stop_transfer.
MemoryInUse ==
  \A u \in Urbs :
    urb[u] \in {"submitted", "completing"} \/ WorkPending(u) => memory /\ clock

\* Nothing is overwritten, reset or freed that a copy, a handler or the device still uses.
UrbsSafe == WorkOwnsUrb /\ MemoryInUse

\* A frame that the application got is complete: none of its copies is pending.
DoneIsFinal == \A b \in Buffers : state[b] = "DONE" => ~Referenced(b)

\* No buffer is lost or held twice: one the driver fills is in the queue exactly
\* once, one that is full leaves it and waits for its copies, and any other is
\* not in the queue.
BufferAccounted ==
  \A b \in Buffers :
    LET places == {i \in DOMAIN irqqueue : irqqueue[i] = b}
    IN CASE state[b] \in {"QUEUED", "ACTIVE"} -> Cardinality(places) = 1
         [] state[b] = "READY" -> places = {} /\ Referenced(b)
         [] OTHER -> places = {}

\* Every buffer is where its state says, and reaches the application complete.
BuffersSound == TypeOK /\ BufferAccounted /\ DoneIsFinal

\* A stream that does not run holds nothing: no URB, no memory, no clock, no
\* pending copy and no buffer of the application.
StoppedHoldsNothing ==
  ctl = "idle" /\ ~streaming =>
    /\ ~memory /\ ~clock /\ irqqueue = <<>>
    /\ \A u \in Urbs : Null(u) /\ ~WorkPending(u)
    /\ \A b \in Buffers : state[b] \in {"IDLE", "DONE", "ERROR"}

\* Suspending does not disturb the queue: a buffer leaves it only when its frame
\* is complete, as long as the device is there.
SuspendKeepsQueue ==
  [][suspended /\ suspended' /\ present' =>
       \A b \in Buffers :
         Contains(irqqueue, b) /\ ~Contains(irqqueue', b) => b = cur]_vars

\* As long as no submission is refused, an URB drops out of circulation only by
\* completing with an error, by being poisoned, or with the device: until then it
\* is with the device, in its handler, or waits for its copies.
Circulates(u) == urb[u] \in {"submitted", "completing"} \/ WorkPending(u)
EveryUrbCirculates ==
  [][\A u \in Urbs : Circulates(u) /\ ~Circulates(u)' =>
       urb[u] = "submitted" \/ poisoned[u] \/ ~present]_vars

\* Starting, stopping, suspending and resuming come to an end, whatever the
\* handlers and the work items do meanwhile.
EveryPathReturns == (ctl # "idle") ~> (ctl = "idle")
=============================================================================
