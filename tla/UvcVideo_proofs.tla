-------------------------- MODULE UvcVideo_proofs --------------------------
(***************************************************************************)
(* Proofs about two modules of uvc_video.c that share no state.            *)
(*                                                                         *)
(* UvcStreaming, for any number of URBs and buffers and under every fault, *)
(* except that about the buffers an error of the bus is set apart from an  *)
(* application that requeues what such an error cancelled (RequeuesApart). *)
(* First the URBs (UrbInv): the work items and the control paths never     *)
(* share one, and nothing uses the transfer buffers or the clock after     *)
(* they are freed.  The heart of the argument is what usb_poison_urb buys: *)
(* behind the loop of uvc_video_stop_transfer an URB is Stilled, and no    *)
(* work item that is still queued can make it move again.  Then the        *)
(* buffers (BufInv): the reference count of a buffer is the number of its  *)
(* pending copies, plus one while the queue holds it.  It rests on         *)
(* CancelInv: a cancelled buffer is flushed before it can come back.  Then *)
(* the control paths (PathInv): what each leaves behind when it ends.      *)
(*                                                                         *)
(* UvcClock, for every size of the ring, every period of the counters and  *)
(* every device: the window of samples is what uvc_video_clock_update may  *)
(* interpolate over (ClockInv).                                            *)
(***************************************************************************)
EXTENDS UvcStreaming, UvcClock, FiniteSetTheorems, SequenceTheorems, TLAPS

\* The types the argument needs.
UrbTypes ==
  /\ urb \in [Urbs -> {"none", "idle", "submitted", "completing"}]
  /\ work \in [Urbs -> {"none", "copy", "release", "submit"}]
  /\ poisoned \in [Urbs -> BOOLEAN]
  /\ next \in Urbs

\* u is not with the device or its handler and will not get there again.
Stilled(u) == urb[u] = "none" \/ (urb[u] = "idle" /\ poisoned[u])

\* Nothing of a transfer exists.
NoTransfer == \A u \in Urbs : urb[u] = "none" /\ work[u] = "none"

\* What holds of the URBs at each point of the control paths.
Stages ==
  /\ ctl \in {"commit", "memory", "refused", "stopped"} => NoTransfer
  /\ ctl = "idle" /\ (suspended \/ ~streaming) => NoTransfer
  /\ ctl = "urbs" => \A u \in Urbs : /\ work[u] = "none"
                                    /\ urb[u] = IF u < next THEN "idle" ELSE "none"
  /\ ctl = "submit" => \A u \in Urbs : u >= next => urb[u] = "idle" /\ work[u] = "none"
  /\ ctl \in {"poison", "await"} => \A u \in Urbs : u < next => Stilled(u)
  /\ ctl = "await" => urb[next] = "none" \/ poisoned[next]
  /\ ctl \in {"flush", "free"} => \A u \in Urbs : Stilled(u)
  /\ ctl = "free" => \A u \in Urbs : work[u] = "none"

\* When the memory and the clock are there.
Holdings ==
  /\ ctl \in {"commit", "memory", "urbs", "submit"} => clock /\ ~suspended
  /\ ctl \in {"urbs", "submit"} => memory
  /\ streaming => clock
  /\ call = "start" /\ ctl # "idle" => ~streaming
  /\ ctl \in {"commit", "memory", "urbs", "submit", "refused"} => call \in {"start", "resume"}

\* The inductive invariant.
UrbInv == UrbTypes /\ WorkOwnsUrb /\ MemoryInUse /\ Stages /\ Holdings

-----------------------------------------------------------------------------
\* What one submission does, in either outcome.
LEMMA SubmitEffect ==
  ASSUME UrbTypes, NEW u \in Urbs, Submit(u)
  PROVE  /\ urb' \in [Urbs -> {"none", "idle", "submitted", "completing"}]
         /\ urb'[u] \in {"idle", "submitted"}
         /\ \A v \in Urbs : v # u => urb'[v] = urb[v]
         /\ poisoned[u] => urb'[u] = "idle"
BY DEF Submit, UrbTypes

LEMMA UrbInit == Init => UrbInv
BY NumUrbsAssumption
   DEF Init, UrbInv, UrbTypes, WorkOwnsUrb, WorkPending, MemoryInUse, Stages, NoTransfer,
       Holdings, Urbs

LEMMA UrbStart == UrbInv /\ Start => UrbInv'
<1> SUFFICES ASSUME UrbInv, Start PROVE UrbInv'
  OBVIOUS
<1> USE NumUrbsAssumption DEF UrbInv, UrbTypes, WorkOwnsUrb, WorkPending, MemoryInUse, Stages,
        NoTransfer, Stilled, Holdings, Goto, Setup, Urbs, transfer, copying, queue
<1>1. CASE StartStreaming
  BY <1>1 DEF StartStreaming
<1>2. CASE Commit
  BY <1>2 DEF Commit
<1>3. CASE AllocMemory
  <2>1. UrbTypes' /\ WorkOwnsUrb'
    BY <1>3 DEF AllocMemory
  <2>2. MemoryInUse'
    BY <1>3 DEF AllocMemory
  <2>3. Stages'
    BY <1>3 DEF AllocMemory
  <2>4. Holdings'
    BY <1>3 DEF AllocMemory
  <2> QED
    BY <2>1, <2>2, <2>3, <2>4
<1>4. CASE AllocUrb
  <2>1. UrbTypes' /\ WorkOwnsUrb'
    <3>1. next' \in Urbs
      BY <1>4 DEF AllocUrb
    <3>2. urb' \in [Urbs -> {"none", "idle", "submitted", "completing"}]
      BY <1>4 DEF AllocUrb
    <3>3. poisoned' \in [Urbs -> BOOLEAN]
      BY <1>4 DEF AllocUrb
    <3>4. work' = work /\ \A u \in Urbs : ~WorkPending(u)
      BY <1>4 DEF AllocUrb
    <3> QED
      BY <3>1, <3>2, <3>3, <3>4
  <2>2. MemoryInUse'
    BY <1>4 DEF AllocUrb
  <2>3. Stages'
    BY <1>4 DEF AllocUrb
  <2>4. Holdings'
    BY <1>4 DEF AllocUrb
  <2> QED
    BY <2>1, <2>2, <2>3, <2>4
<1>5. CASE SubmitUrb
  <2>1. Submit(next) /\ ctl = "submit"
    BY <1>5 DEF SubmitUrb
  <2>2. /\ urb' \in [Urbs -> {"none", "idle", "submitted", "completing"}]
        /\ urb'[next] \in {"idle", "submitted"}
        /\ \A v \in Urbs : v # next => urb'[v] = urb[v]
    BY <2>1, SubmitEffect
  <2>3. UrbTypes' /\ WorkOwnsUrb'
    BY <1>5, <2>1, <2>2 DEF SubmitUrb
  <2>4. MemoryInUse'
    BY <1>5, <2>1, <2>2 DEF SubmitUrb
  <2>5. Stages'
    BY <1>5, <2>1, <2>2 DEF SubmitUrb
  <2>6. Holdings'
    BY <1>5, <2>1, <2>2 DEF SubmitUrb
  <2> QED
    BY <2>3, <2>4, <2>5, <2>6
<1> QED
  BY <1>1, <1>2, <1>3, <1>4, <1>5 DEF Start

LEMMA UrbStop == UrbInv /\ Stop => UrbInv'
<1> SUFFICES ASSUME UrbInv, Stop PROVE UrbInv'
  OBVIOUS
<1> USE NumUrbsAssumption DEF UrbInv, UrbTypes, WorkOwnsUrb, WorkPending, MemoryInUse, Stages,
        NoTransfer, Stilled, Holdings, Goto, Urbs, Null, transfer, copying, queue
<1>1. CASE StopStreaming
  BY <1>1 DEF StopStreaming, StopTransfer
<1>2. CASE PoisonUrb
  <2>1. poisoned' \in [Urbs -> BOOLEAN] /\ (urb[next] # "none" => poisoned'[next])
    BY <1>2 DEF PoisonUrb
  <2>2. \A u \in Urbs : u < next => poisoned'[u] = poisoned[u]
    BY <1>2 DEF PoisonUrb
  <2> QED
    BY <1>2, <2>1, <2>2 DEF PoisonUrb
<1>3. CASE PoisonReturns
  <2>1. Stilled(next)
    <3>1. urb[next] = "none" \/ urb[next] = "idle"
      BY <1>3 DEF PoisonReturns
    <3>2. urb[next] = "none" \/ poisoned[next]
      BY <1>3, Zenon DEF PoisonReturns
    <3> QED
      BY <3>1, <3>2, Zenon
  <2>2. \A u \in Urbs : u <= next => Stilled(u)
    BY <1>3, <2>1 DEF PoisonReturns
  <2>3. CASE next = NumUrbs
    BY <1>3, <2>2, <2>3 DEF PoisonReturns
  <2>4. CASE next # NumUrbs
    <3>1. next' = next + 1 /\ next' \in Urbs /\ ctl' = "poison"
      BY <1>3, <2>4 DEF PoisonReturns
    <3> QED
      BY <1>3, <2>2, <3>1 DEF PoisonReturns
  <2> QED
    BY <2>3, <2>4
<1>4. CASE FlushWork
  BY <1>4 DEF FlushWork
<1>5. CASE FreeUrbs
  BY <1>5 DEF FreeUrbs
<1>6. CASE StartRefused
  BY <1>6 DEF StartRefused
<1>7. CASE ResumeRefused
  BY <1>7 DEF ResumeRefused, StopTransfer
<1>8. CASE Stopped
  BY <1>8 DEF Stopped
<1> QED
  BY <1>1, <1>2, <1>3, <1>4, <1>5, <1>6, <1>7, <1>8 DEF Stop

LEMMA UrbPower == UrbInv /\ Power => UrbInv'
<1> SUFFICES ASSUME UrbInv, Power PROVE UrbInv'
  OBVIOUS
<1> USE NumUrbsAssumption DEF UrbInv, UrbTypes, WorkOwnsUrb, WorkPending, MemoryInUse, Stages,
        NoTransfer, Stilled, Holdings, Goto, Urbs, Null, transfer, copying, queue
<1>1. CASE Suspend
  BY <1>1 DEF Suspend, StopTransfer
<1>2. CASE Resume
  BY <1>2 DEF Resume
<1>3. CASE Suspended
  BY <1>3 DEF Suspended
<1> QED
  BY <1>1, <1>2, <1>3 DEF Power

\* A step that leaves the URBs, the work items and the control path alone.
LEMMA UrbFrame ==
  ASSUME UrbInv, UNCHANGED <<control, urb, poisoned, work>>
  PROVE  UrbInv'
BY DEF UrbInv, UrbTypes, WorkOwnsUrb, WorkPending, MemoryInUse, Stages, NoTransfer, Stilled,
       Holdings, control

LEMMA UrbComplete == ASSUME UrbInv, NEW u \in Urbs, Complete(u) PROVE UrbInv'
<1> USE NumUrbsAssumption DEF UrbInv, UrbTypes, WorkOwnsUrb, WorkPending, MemoryInUse, Stages,
        NoTransfer, Stilled, Holdings, Urbs, GiveBack, control, copying
<1>1. CASE CompleteOk(u)
  BY <1>1 DEF CompleteOk
<1>2. CASE CompleteFailed(u)
  BY <1>2 DEF CompleteFailed
<1>3. CASE CompleteShutdown(u)
  BY <1>3 DEF CompleteShutdown
<1> QED
  BY <1>1, <1>2, <1>3 DEF Complete

LEMMA UrbHandler == ASSUME UrbInv, NEW u \in Urbs, Handler(u) PROVE UrbInv'
<1>1. CASE PacketDropped(u) \/ PacketBad(u) \/ FrameToggled(u) \/ PacketData(u) \/ PacketLast(u)
  BY <1>1, UrbFrame DEF PacketDropped, PacketBad, FrameToggled, PacketData, PacketLast, copying
<1>2. CASE HandlerReturns(u)
  <2> USE NumUrbsAssumption DEF UrbInv, UrbTypes, WorkOwnsUrb, WorkPending, MemoryInUse, Stages,
          NoTransfer, Stilled, Holdings, Urbs, Completing, control
  <2>1. CASE ops[u] = <<>>
    <3>1. Submit(u) /\ UNCHANGED work
      BY <1>2, <2>1 DEF HandlerReturns
    <3>2. /\ urb' \in [Urbs -> {"none", "idle", "submitted", "completing"}]
          /\ urb'[u] \in {"idle", "submitted"}
          /\ \A v \in Urbs : v # u => urb'[v] = urb[v]
          /\ poisoned[u] => urb'[u] = "idle"
      BY <3>1, SubmitEffect
    <3> QED
      BY <1>2, <3>1, <3>2 DEF HandlerReturns
  <2>2. CASE ops[u] # <<>>
    <3>1. /\ urb[u] = "completing"
          /\ urb' = [urb EXCEPT ![u] = "idle"] /\ work' = [work EXCEPT ![u] = "copy"]
          /\ UNCHANGED <<control, poisoned>>
      BY <1>2, <2>2 DEF HandlerReturns
    <3>2. UrbTypes'
      BY <3>1
    <3>3. WorkOwnsUrb' /\ MemoryInUse'
      BY <3>1
    <3>4. Stages'
      BY <3>1
    <3>5. Holdings'
      BY <3>1
    <3> QED
      BY <3>2, <3>3, <3>4, <3>5
  <2> QED
    BY <2>1, <2>2
<1> QED
  BY <1>1, <1>2 DEF Handler

LEMMA UrbWork == ASSUME UrbInv, NEW u \in Urbs, Work(u) PROVE UrbInv'
<1> USE NumUrbsAssumption DEF UrbInv, UrbTypes, WorkOwnsUrb, WorkPending, MemoryInUse, Stages,
        NoTransfer, Stilled, Holdings, Urbs, control, transfer
<1>1. CASE WorkCopy(u)
  BY <1>1 DEF WorkCopy
<1>2. CASE WorkRelease(u)
  BY <1>2 DEF WorkRelease
<1>3. CASE WorkSubmit(u)
  <2>1. /\ urb' \in [Urbs -> {"none", "idle", "submitted", "completing"}]
        /\ urb'[u] \in {"idle", "submitted"}
        /\ \A v \in Urbs : v # u => urb'[v] = urb[v]
        /\ poisoned[u] => urb'[u] = "idle"
    BY <1>3, SubmitEffect DEF WorkSubmit
  <2> QED
    BY <1>3, <2>1 DEF WorkSubmit
<1> QED
  BY <1>1, <1>2, <1>3 DEF Work

LEMMA UrbNext == UrbInv /\ [Next]_vars => UrbInv'
<1> SUFFICES ASSUME UrbInv, [Next]_vars PROVE UrbInv'
  OBVIOUS
<1>1. CASE Unplug
  BY <1>1, UrbFrame DEF Unplug, transfer, copying
<1>2. ASSUME NEW b \in Buffers, QueueBuffer(b) PROVE UrbInv'
  BY <1>2, UrbFrame DEF QueueBuffer, transfer, copying
<1>3. ASSUME NEW u \in Urbs, Complete(u) \/ Handler(u) \/ Work(u) PROVE UrbInv'
  BY <1>3, UrbComplete, UrbHandler, UrbWork
<1>4. CASE UNCHANGED vars
  BY <1>4, UrbFrame DEF vars, transfer, copying
<1> QED
  BY <1>1, <1>2, <1>3, <1>4, UrbStart, UrbStop, UrbPower DEF Next

-----------------------------------------------------------------------------
LEMMA UrbInvHolds == Spec => []UrbInv
<1>1. UrbInv /\ [Next]_vars => UrbInv'
  BY UrbNext
<1> QED
  BY UrbInit, <1>1, PTL DEF Spec

\* An URB with pending copies is nobody else's: neither the device nor a
\* completion handler has it, and it is not freed (uvc_video_complete queues the
\* work instead of submitting, uvc_video_copy_data_work submits at its end).
THEOREM WorkOwnsItsUrb == Spec => []WorkOwnsUrb
<1>1. UrbInv => WorkOwnsUrb
  BY DEF UrbInv
<1> QED
  BY UrbInvHolds, <1>1, PTL

\* No transfer buffer and no clock sample is used after it was freed: poisoning
\* and then flushing leaves nothing behind that uvc_video_stop_transfer could
\* free too early.
THEOREM NoUseAfterFree == Spec => []MemoryInUse
<1>1. UrbInv => MemoryInUse
  BY DEF UrbInv
<1> QED
  BY UrbInvHolds, <1>1, PTL

\* Both: nothing is overwritten, reset or freed that a copy, a completion handler or the
\* device still uses, in whatever order they run against uvc_video_stop_transfer.
THEOREM UrbsAreSafe == Spec => []UrbsSafe
<1>1. WorkOwnsUrb /\ MemoryInUse => UrbsSafe
  BY DEF UrbsSafe
<1> QED
  BY WorkOwnsItsUrb, NoUseAfterFree, <1>1, PTL

-----------------------------------------------------------------------------
(* Queues without repetition.                                              *)

Injective(s) == \A i, j \in 1 .. Len(s) : s[i] = s[j] => i = j

LEMMA RemoveFirstIsRemoveAt ==
  ASSUME NEW S, NEW s \in Seq(S), Injective(s), NEW k \in 1 .. Len(s), NEW e, s[k] = e
  PROVE  RemoveFirst(s, e) = RemoveAt(s, k)
<1>1. {i \in 1 .. Len(s) : s[i] = e} = {k}
  BY DEF Injective
<1>2. SelectInSeq(s, LAMBDA v : v = e) = k
  BY <1>1 DEF SelectInSeq, Min
<1> QED
  BY <1>2 DEF RemoveFirst

\* Taking an element off a queue.
LEMMA RemoveEffect ==
  ASSUME NEW S, NEW s \in Seq(S), Injective(s), NEW e, Contains(s, e)
  PROVE  /\ RemoveFirst(s, e) \in Seq(S) /\ Injective(RemoveFirst(s, e))
         /\ \A x : Contains(RemoveFirst(s, e), x) <=> x # e /\ Contains(s, x)
<1>1. PICK k \in 1 .. Len(s) : s[k] = e
  BY DEF Contains
<1> DEFINE l == SubSeq(s, 1, k - 1)
           m == SubSeq(s, k + 1, Len(s))
           r == RemoveFirst(s, e)
<1>2. r = l \o m
  BY <1>1, RemoveFirstIsRemoveAt DEF RemoveAt
<1>3. /\ l \in Seq(S) /\ Len(l) = k - 1 /\ \A i \in 1 .. k - 1 : l[i] = s[i]
      /\ m \in Seq(S) /\ Len(m) = Len(s) - k
      /\ \A i \in 1 .. Len(s) - k : m[i] = s[k + i]
  OBVIOUS
<1> HIDE DEF r, l, m
<1>4. /\ r \in Seq(S) /\ Len(r) = Len(s) - 1
      /\ \A i \in 1 .. Len(s) - 1 : r[i] = IF i < k THEN s[i] ELSE s[i + 1]
  <2>0. r \in Seq(S) /\ Len(r) = Len(l) + Len(m)
        /\ \A i \in 1 .. Len(l) + Len(m) : r[i] = IF i <= Len(l) THEN l[i] ELSE m[i - Len(l)]
    BY <1>2, <1>3, ConcatProperties
  <2>1. r \in Seq(S) /\ Len(r) = Len(s) - 1
    BY <1>3, <2>0
  <2>2. ASSUME NEW i \in 1 .. Len(s) - 1 PROVE r[i] = IF i < k THEN s[i] ELSE s[i + 1]
    <3>1. r[i] = IF i <= k - 1 THEN l[i] ELSE m[i - (k - 1)]
      BY <1>3, <2>0
    <3>2. CASE i < k
      BY <1>3, <3>1, <3>2
    <3>3. CASE ~(i < k)
      <4>1. i - (k - 1) \in 1 .. Len(s) - k /\ k + (i - (k - 1)) = i + 1
        BY <3>3
      <4> QED
        BY <1>3, <3>1, <3>3, <4>1
    <3> QED
      BY <3>2, <3>3
  <2> QED
    BY <2>1, <2>2
<1>5. Injective(r)
  BY <1>4 DEF Injective
<1>6. ASSUME NEW x PROVE Contains(r, x) <=> x # e /\ Contains(s, x)
  <2>1. ASSUME Contains(r, x) PROVE x # e /\ Contains(s, x)
    <3>1. PICK i \in 1 .. Len(s) - 1 : r[i] = x
      BY <1>4, <2>1 DEF Contains
    <3>2. CASE i < k
      BY <1>1, <1>4, <3>1, <3>2 DEF Contains, Injective
    <3>3. CASE ~(i < k)
      BY <1>1, <1>4, <3>1, <3>3 DEF Contains, Injective
    <3> QED
      BY <3>2, <3>3
  <2>2. ASSUME x # e, Contains(s, x) PROVE Contains(r, x)
    <3>1. PICK i \in 1 .. Len(s) : s[i] = x
      BY <2>2 DEF Contains
    <3>2. CASE i < k
      <4>1. i \in 1 .. Len(s) - 1 /\ r[i] = x
        BY <1>4, <3>1, <3>2
      <4> QED
        BY <1>4, <4>1 DEF Contains
    <3>3. CASE i > k
      <4>1. i - 1 \in 1 .. Len(s) - 1 /\ r[i - 1] = x
        BY <1>4, <3>1, <3>3
      <4> QED
        BY <1>4, <4>1 DEF Contains
    <3> QED
      BY <1>1, <2>2, <3>1, <3>2, <3>3
  <2> QED
    BY <2>1, <2>2
<1> QED
  BY <1>4, <1>5, <1>6 DEF r

\* Adding a new element at the end of a queue.
LEMMA AppendEffect ==
  ASSUME NEW S, NEW s \in Seq(S), Injective(s), NEW e \in S, ~Contains(s, e)
  PROVE  /\ Append(s, e) \in Seq(S) /\ Injective(Append(s, e))
         /\ \A x : Contains(Append(s, e), x) <=> x = e \/ Contains(s, x)
<1>1. /\ Append(s, e) \in Seq(S) /\ Len(Append(s, e)) = Len(s) + 1
      /\ \A i \in 1 .. Len(s) : Append(s, e)[i] = s[i]
      /\ Append(s, e)[Len(s) + 1] = e
  OBVIOUS
<1>2. \A i \in 1 .. Len(s) + 1 : i \in 1 .. Len(s) \/ i = Len(s) + 1
  OBVIOUS
<1>3. Injective(Append(s, e))
  BY <1>1, <1>2 DEF Injective, Contains
<1>4. ASSUME NEW x PROVE Contains(Append(s, e), x) <=> x = e \/ Contains(s, x)
  BY <1>1, <1>2 DEF Contains
<1> QED
  BY <1>1, <1>3, <1>4

-----------------------------------------------------------------------------
(* The copies into a buffer that are noted and not yet released.           *)

Pending(b) ==
  {w \in Urbs \X (1 .. MaxPackets) :
     w[2] >= turn[w[1]] /\ w[2] <= Len(ops[w[1]]) /\ ops[w[1]][w[2]] = b}
Copies(b) == Cardinality(Pending(b))

CopyTypes ==
  /\ ops \in [Urbs -> Seq(Buffers)]
  /\ turn \in [Urbs -> 1 .. MaxPackets + 1]
  /\ \A u \in Urbs : Len(ops[u]) <= MaxPackets

LEMMA PendingFinite == \A b : IsFiniteSet(Pending(b)) /\ Copies(b) \in Nat
<1>1. IsFiniteSet(Urbs) /\ IsFiniteSet(1 .. MaxPackets)
  BY FS_Interval, NumUrbsAssumption, LengthsAssumption DEF Urbs
<1>2. IsFiniteSet(Urbs \X (1 .. MaxPackets))
  BY <1>1, FS_Product
<1>3. \A b : Pending(b) \in SUBSET (Urbs \X (1 .. MaxPackets))
  BY DEF Pending
<1> QED
  BY <1>2, <1>3, FS_Subset, FS_CardinalityType DEF Copies

LEMMA NoCopies == ASSUME CopyTypes, NEW b PROVE Copies(b) = 0 <=> ~Referenced(b)
<1>1. Copies(b) = 0 <=> Pending(b) = {}
  BY PendingFinite, FS_EmptySet DEF Copies
<1>2. ASSUME NEW u \in Urbs, NEW i \in turn[u] .. Len(ops[u]), ops[u][i] = b
      PROVE  <<u, i>> \in Pending(b)
  <2>1. i \in 1 .. MaxPackets
    BY LengthsAssumption DEF CopyTypes
  <2> QED
    BY <1>2, <2>1 DEF Pending, CopyTypes
<1>3. ASSUME NEW w \in Pending(b) PROVE Referenced(b)
  <2>1. w[1] \in Urbs /\ w[2] \in turn[w[1]] .. Len(ops[w[1]]) /\ ops[w[1]][w[2]] = b
    BY LengthsAssumption DEF Pending, CopyTypes
  <2> QED
    BY <2>1 DEF Referenced
<1> QED
  BY <1>1, <1>2, <1>3 DEF Referenced

LEMMA CopyAdded ==
  ASSUME CopyTypes, NEW u \in Urbs, turn[u] = 1, Len(ops[u]) < MaxPackets, NEW c \in Buffers,
         ops' = [ops EXCEPT ![u] = Append(@, c)], turn' = turn
  PROVE  CopyTypes' /\ Copies(c)' = Copies(c) + 1 /\ \A b : b # c => Copies(b)' = Copies(b)
<1> DEFINE k == Len(ops[u]) + 1
<1>0. k \in 1 .. MaxPackets
  BY LengthsAssumption DEF CopyTypes
<1>1. /\ ops'[u] \in Seq(Buffers) /\ Len(ops'[u]) = k /\ ops'[u][k] = c
      /\ \A i \in 1 .. k - 1 : ops'[u][i] = ops[u][i]
      /\ \A v \in Urbs : v # u => ops'[v] = ops[v]
  BY DEF CopyTypes
<1>2. CopyTypes'
  BY <1>0, <1>1, LengthsAssumption DEF CopyTypes
<1>3. ASSUME NEW b PROVE Pending(b)' = Pending(b) \cup (IF b = c THEN {<<u, k>>} ELSE {})
  <2>1. ASSUME NEW w \in Urbs \X (1 .. MaxPackets)
        PROVE  w \in Pending(b)' <=> w \in Pending(b) \/ (b = c /\ w = <<u, k>>)
    <3>0. w = <<w[1], w[2]>> /\ w[1] \in Urbs /\ w[2] \in 1 .. MaxPackets
      OBVIOUS
    <3>1. CASE w[1] # u
      BY <1>1, <3>0, <3>1 DEF Pending
    <3>2. CASE w[1] = u /\ w[2] = k
      BY <1>1, <3>0, <3>2 DEF Pending
    <3>3. CASE w[1] = u /\ w[2] # k
      BY <1>0, <1>1, <3>0, <3>3, LengthsAssumption DEF Pending, CopyTypes
    <3> QED
      BY <3>0, <3>1, <3>2, <3>3
  <2>2. Pending(b)' \subseteq Urbs \X (1 .. MaxPackets) /\ Pending(b) \subseteq Urbs \X (1 .. MaxPackets)
    BY DEF Pending
  <2>3. <<u, k>> \in Urbs \X (1 .. MaxPackets)
    BY <1>0
  <2> QED
    BY <2>1, <2>2, <2>3
<1>4. <<u, k>> \notin Pending(c)
  BY DEF Pending, CopyTypes
<1>5. Copies(c)' = Copies(c) + 1
  BY <1>3, <1>4, PendingFinite, FS_AddElement DEF Copies
<1>6. ASSUME NEW b, b # c PROVE Copies(b)' = Copies(b)
  BY <1>3, <1>6 DEF Copies
<1> QED
  BY <1>2, <1>5, <1>6

LEMMA CopyReleased ==
  ASSUME CopyTypes, NEW u \in Urbs, turn[u] <= Len(ops[u]), NEW c, c = ops[u][turn[u]],
         turn' = [turn EXCEPT ![u] = @ + 1], ops' = ops
  PROVE  /\ CopyTypes' /\ c \in Buffers /\ Copies(c) # 0
         /\ Copies(c)' = Copies(c) - 1 /\ \A b : b # c => Copies(b)' = Copies(b)
<1>a. PICK k : k = turn[u]
  OBVIOUS
<1> USE <1>a
<1>0. k \in 1 .. MaxPackets /\ k \in 1 .. Len(ops[u]) /\ c \in Buffers
  BY LengthsAssumption DEF CopyTypes
<1>1. turn'[u] = k + 1 /\ \A v \in Urbs : v # u => turn'[v] = turn[v]
  BY DEF CopyTypes
<1>2. CopyTypes'
  BY <1>0, <1>1, LengthsAssumption DEF CopyTypes
<1>3. ASSUME NEW b PROVE Pending(b)' = Pending(b) \ {<<u, k>>}
  <2>1. ASSUME NEW w \in Urbs \X (1 .. MaxPackets)
        PROVE  w \in Pending(b)' <=> w \in Pending(b) /\ w # <<u, k>>
    <3>0. w = <<w[1], w[2]>> /\ w[1] \in Urbs /\ w[2] \in 1 .. MaxPackets
      OBVIOUS
    <3>1. CASE w[1] # u
      BY <1>1, <3>0, <3>1 DEF Pending
    <3>2. CASE w[1] = u
      BY <1>0, <1>1, <3>0, <3>2 DEF Pending
    <3> QED
      BY <3>1, <3>2
  <2>2. Pending(b)' \subseteq Urbs \X (1 .. MaxPackets) /\ Pending(b) \subseteq Urbs \X (1 .. MaxPackets)
    BY DEF Pending
  <2> QED
    BY <2>1, <2>2
<1>4. <<u, k>> \in Pending(c) /\ \A b : b # c => <<u, k>> \notin Pending(b)
  BY <1>0 DEF Pending
<1>5. Copies(c)' = Copies(c) - 1
  BY <1>3, <1>4, PendingFinite, FS_RemoveElement DEF Copies
<1>6. ASSUME NEW b, b # c PROVE Copies(b)' = Copies(b)
  BY <1>3, <1>4, <1>6 DEF Copies
<1>7. Copies(c) # 0
  BY <1>4, PendingFinite, FS_EmptySet DEF Copies
<1> QED
  BY <1>0, <1>2, <1>5, <1>6, <1>7

\* A list without pending copies is forgotten, or a list is started again.
LEMMA CopiesForgotten ==
  ASSUME CopyTypes, NEW u \in Urbs, turn[u] > Len(ops[u]),
         ops' = [ops EXCEPT ![u] = <<>>], turn' = [turn EXCEPT ![u] = 1]
  PROVE  CopyTypes' /\ \A b : Copies(b)' = Copies(b)
<1>1. /\ ops'[u] = <<>> /\ turn'[u] = 1
      /\ \A v \in Urbs : v # u => ops'[v] = ops[v] /\ turn'[v] = turn[v]
  BY DEF CopyTypes
<1>2. CopyTypes'
  BY <1>1, LengthsAssumption DEF CopyTypes
<1>3. ASSUME NEW b PROVE Pending(b)' = Pending(b)
  <2>1. ASSUME NEW w \in Urbs \X (1 .. MaxPackets) PROVE w \in Pending(b)' <=> w \in Pending(b)
    <3>0. w = <<w[1], w[2]>> /\ w[1] \in Urbs /\ w[2] \in 1 .. MaxPackets
      OBVIOUS
    <3>1. CASE w[1] # u
      BY <1>1, <3>0, <3>1 DEF Pending
    <3>2. CASE w[1] = u
      BY <1>1, <3>0, <3>2 DEF Pending, CopyTypes
    <3> QED
      BY <3>1, <3>2
  <2>2. Pending(b)' \subseteq Urbs \X (1 .. MaxPackets) /\ Pending(b) \subseteq Urbs \X (1 .. MaxPackets)
    BY DEF Pending
  <2> QED
    BY <2>1, <2>2
<1> QED
  BY <1>2, <1>3 DEF Copies

LEMMA CopiesKept ==
  ASSUME CopyTypes, UNCHANGED <<ops, turn>>
  PROVE  CopyTypes' /\ \A b : Copies(b)' = Copies(b)
BY DEF CopyTypes, Copies, Pending

-----------------------------------------------------------------------------
(* The accounts of the buffers.                                            *)

BufferStates == {"IDLE", "QUEUED", "ACTIVE", "READY", "DONE", "ERROR"}

QueueTypes ==
  /\ irqqueue \in Seq(Buffers) /\ Injective(irqqueue)
  /\ gone \in BOOLEAN
  /\ state \in [Buffers -> BufferStates]
  /\ error \in [Buffers -> BOOLEAN]
  /\ used \in [Buffers -> 0 .. BufferLength]
  /\ ref \in [Buffers -> Nat]

HandlerTypes == cur \in Buffers \cup {NoBuffer} /\ packets \in 0 .. MaxPackets

\* Are the copies of u being released?
Copying(u) == work[u] \in {"copy", "release"}

\* The copies of an URB are noted while its handler runs and released by its
\* work item; in between the two there is nothing, and afterwards none is left.
\* The one handler that runs fills a buffer that is in the queue.
HandlerInv ==
  /\ \A u \in Urbs : /\ Completing(u) => turn[u] = 1 /\ Len(ops[u]) + packets <= MaxPackets
                     /\ Copying(u) => turn[u] <= Len(ops[u])
                     /\ ~Completing(u) /\ ~Copying(u) => turn[u] > Len(ops[u])
  /\ \A u, v \in Urbs : Completing(u) /\ Completing(v) => u = v
  /\ cur # NoBuffer => HandlerRuns /\ Contains(irqqueue, cur)

\* The queue has one reference to a buffer, and each pending copy has one.  A
\* cancelled buffer keeps the reference of the queue, so that its copies never
\* hand it over a second time.
BufferOK(b) ==
  /\ Contains(irqqueue, b) <=> state[b] \in {"QUEUED", "ACTIVE"}
  /\ state[b] \in {"QUEUED", "ACTIVE"} => ref[b] = Copies(b) + 1
  /\ state[b] = "READY" => ref[b] = Copies(b) /\ Copies(b) # 0
  /\ state[b] = "ERROR" => Copies(b) = 0 \/ ref[b] = Copies(b) + 1
  /\ state[b] \in {"IDLE", "DONE"} => Copies(b) = 0

BufInv ==
  /\ QueueTypes /\ HandlerTypes /\ CopyTypes
  /\ HandlerInv
  /\ \A b \in Buffers : BufferOK(b)

LEMMA BufInit == Init => BufInv
<1> SUFFICES ASSUME Init PROVE BufInv
  OBVIOUS
<1>1. CopyTypes
  BY LengthsAssumption DEF Init, CopyTypes
<1>2. QueueTypes /\ HandlerTypes
  <2>1. error \in [Buffers -> BOOLEAN] /\ gone \in BOOLEAN
    BY DEF Init
  <2>2. state \in [Buffers -> BufferStates] /\ ref \in [Buffers -> Nat]
        /\ used \in [Buffers -> 0 .. BufferLength]
    BY LengthsAssumption DEF Init, BufferStates
  <2>3. irqqueue \in Seq(Buffers) /\ Injective(irqqueue)
    BY DEF Init, Injective
  <2>4. HandlerTypes
    BY LengthsAssumption DEF Init, HandlerTypes
  <2> QED
    BY <2>1, <2>2, <2>3, <2>4 DEF QueueTypes
<1>3. HandlerInv
  BY DEF Init, HandlerInv, Completing, Copying
<1>4. ASSUME NEW b \in Buffers PROVE BufferOK(b)
  <2>1. ~Referenced(b)
    BY DEF Init, Referenced
  <2>2. Copies(b) = 0
    BY <1>1, <2>1, NoCopies
  <2> QED
    BY <2>2 DEF Init, BufferOK, Contains
<1> QED
  BY <1>1, <1>2, <1>3, <1>4 DEF BufInv

\* A step that leaves the queue and the lists of copies alone.
LEMMA BufFrame ==
  ASSUME BufInv, UNCHANGED <<queue, ops, turn, cur>>, packets' \in 0 .. packets,
         \A u \in Urbs : (Completing(u)' <=> Completing(u)) /\ (Copying(u)' <=> Copying(u))
  PROVE  BufInv'
<1>1. QueueTypes' /\ HandlerTypes'
  <2>1. QueueTypes'
    BY Zenon DEF BufInv, QueueTypes, Injective, queue
  <2>2. HandlerTypes'
    BY LengthsAssumption DEF BufInv, HandlerTypes
  <2> QED
    BY <2>1, <2>2
<1>2. CopyTypes' /\ \A b : Copies(b)' = Copies(b)
  BY CopiesKept DEF BufInv
<1>3. HandlerInv'
  <2>1. \A u \in Urbs : Len(ops[u]) \in Nat
    BY DEF BufInv, CopyTypes
  <2>2. packets \in Nat /\ packets' <= packets /\ packets' \in Nat
    BY DEF BufInv, HandlerTypes
  <2>3. HandlerRuns' <=> HandlerRuns
    BY DEF HandlerRuns
  <2>4. \A u \in Urbs : Completing(u)' => Len(ops'[u]) + packets' <= MaxPackets
    BY <2>1, <2>2, LengthsAssumption DEF BufInv, HandlerInv
  <2>5. cur' # NoBuffer => HandlerRuns' /\ Contains(irqqueue', cur')
    BY <2>3 DEF BufInv, HandlerInv, queue
  <2> QED
    BY <2>4, <2>5 DEF BufInv, HandlerInv
<1>4. \A b \in Buffers : BufferOK(b)'
  BY <1>2 DEF BufInv, BufferOK, queue
<1> QED
  BY <1>1, <1>2, <1>3, <1>4 DEF BufInv

\* What happens to the buffers that a step is not about.
LEMMA OtherBuffer ==
  ASSUME NEW b \in Buffers, BufferOK(b), Copies(b)' = Copies(b),
         state'[b] = state[b], ref'[b] = ref[b],
         Contains(irqqueue', b) <=> Contains(irqqueue, b)
  PROVE  BufferOK(b)'
BY DEF BufferOK

\* Enqueue of a buffer that is not in the queue.
LEMMA EnqueueEffect ==
  ASSUME QueueTypes, NEW b \in Buffers, NEW q \in Seq(Buffers), Injective(q), ~Contains(q, b),
         Enqueue(b, q), gone' = gone
  PROVE  /\ QueueTypes'
         /\ \/ state'[b] = "QUEUED" /\ ref'[b] = 1 /\ Contains(irqqueue', b)
            \/ state'[b] = "ERROR" /\ ref'[b] = ref[b] /\ ~Contains(irqqueue', b)
         /\ \A x \in Buffers \ {b} : /\ state'[x] = state[x] /\ ref'[x] = ref[x]
                                     /\ Contains(irqqueue', x) <=> Contains(q, x)
         /\ \A x : Contains(q, x) => Contains(irqqueue', x)
<1>1. CASE gone
  <2>1. /\ state' = [state EXCEPT ![b] = "ERROR"]
        /\ irqqueue' = q /\ UNCHANGED <<error, used, ref>>
    BY <1>1 DEF Enqueue
  <2> QED
    BY <2>1 DEF QueueTypes, BufferStates
<1>2. CASE ~gone
  <2>1. /\ state' = [state EXCEPT ![b] = "QUEUED"]
        /\ error' = [error EXCEPT ![b] = FALSE]
        /\ used' = [used EXCEPT ![b] = 0]
        /\ ref' = [ref EXCEPT ![b] = 1]
        /\ irqqueue' = Append(q, b)
    BY <1>2 DEF Enqueue
  <2>2. /\ irqqueue' \in Seq(Buffers) /\ Injective(irqqueue')
        /\ \A x : Contains(irqqueue', x) <=> x = b \/ Contains(q, x)
    BY <2>1, AppendEffect
  <2>3. QueueTypes'
    BY <2>1, <2>2, LengthsAssumption DEF QueueTypes, BufferStates
  <2>4. state'[b] = "QUEUED" /\ ref'[b] = 1 /\ \A x \in Buffers \ {b} : state'[x] = state[x] /\ ref'[x] = ref[x]
    BY <2>1 DEF QueueTypes
  <2> QED
    BY <2>2, <2>3, <2>4
<1> QED
  BY <1>1, <1>2

\* uvc_queue_buffer_release, by whether the reference is the last one.
LEMMA ReleaseEffect ==
  ASSUME QueueTypes, NEW b \in Buffers, NEW q \in Seq(Buffers), Injective(q),
         NEW s \in BufferStates, NEW e \in BOOLEAN, Release(b, q, s, e), gone' = gone,
         ref[b] # 0, ref[b] = 1 => ~Contains(q, b)
  PROVE  /\ QueueTypes'
         /\ ref[b] # 1 => /\ ref'[b] = ref[b] - 1 /\ state'[b] = s /\ irqqueue' = q
         /\ ref[b] = 1 => \/ state'[b] = "QUEUED" /\ ref'[b] = 1 /\ Contains(irqqueue', b)
                          \/ state'[b] \in {"ERROR", "DONE"} /\ ~Contains(irqqueue', b)
         /\ \A x \in Buffers \ {b} : /\ state'[x] = state[x] /\ ref'[x] = ref[x]
                                     /\ Contains(irqqueue', x) <=> Contains(q, x)
         /\ \A x : Contains(q, x) => Contains(irqqueue', x)
<1>1. CASE ref[b] # 1
  <2>1. /\ ref' = [ref EXCEPT ![b] = @ - 1]
        /\ state' = [state EXCEPT ![b] = s]
        /\ error' = [error EXCEPT ![b] = e]
        /\ irqqueue' = q /\ used' = used
    BY <1>1 DEF Release
  <2> QED
    BY <1>1, <2>1 DEF QueueTypes
<1>2. CASE ref[b] = 1 /\ e /\ ~NoDrop
  <2>1. Enqueue(b, q)
    BY <1>2 DEF Release
  <2> QED
    BY <1>2, <2>1, EnqueueEffect
<1>3. CASE ref[b] = 1 /\ ~(e /\ ~NoDrop)
  <2>1. /\ ref' = [ref EXCEPT ![b] = 0]
        /\ state' = [state EXCEPT ![b] = IF e THEN "ERROR" ELSE "DONE"]
        /\ error' = [error EXCEPT ![b] = e]
        /\ irqqueue' = q /\ used' = used
    BY <1>3 DEF Release
  <2> QED
    BY <1>3, <2>1 DEF QueueTypes, BufferStates
<1> QED
  BY <1>1, <1>2, <1>3

\* The queue is emptied while no handler runs.
LEMMA ReturnEffect ==
  ASSUME BufInv, ~HandlerRuns, NEW s \in {"ERROR", "IDLE"}, ReturnBuffers(s), gone' \in BOOLEAN,
         UNCHANGED <<ops, turn, cur, packets, work>>, \A u \in Urbs : ~Completing(u)',
         s = "IDLE" => \A u \in Urbs : ~Copying(u)
  PROVE  BufInv'
<1>1. /\ irqqueue' = <<>> /\ UNCHANGED <<error, used, ref>>
      /\ state' = [b \in Buffers |-> IF Contains(irqqueue, b) THEN s ELSE state[b]]
  BY DEF ReturnBuffers
<1>2. QueueTypes' /\ HandlerTypes'
  BY <1>1 DEF BufInv, QueueTypes, HandlerTypes, Injective, BufferStates
<1>3. CopyTypes' /\ \A b : Copies(b)' = Copies(b)
  BY CopiesKept DEF BufInv
<1>4. HandlerInv'
  BY DEF BufInv, HandlerInv, HandlerRuns, Copying, Completing
<1>5. ASSUME NEW b \in Buffers PROVE BufferOK(b)'
  <2>1. ~Contains(irqqueue', b)
    BY <1>1 DEF Contains
  <2>2. BufferOK(b) /\ state[b] \in BufferStates
    BY DEF BufInv, QueueTypes
  <2>3. s = "IDLE" => Copies(b) = 0
    <3> SUFFICES ASSUME s = "IDLE" PROVE Copies(b) = 0
      OBVIOUS
    <3>1. \A u \in Urbs : turn[u] > Len(ops[u])
      BY DEF BufInv, HandlerInv, HandlerRuns
    <3>2. ~Referenced(b)
      BY <3>1 DEF Referenced, BufInv, CopyTypes
    <3> QED
      BY <3>2, NoCopies DEF BufInv
  <2>4. CASE Contains(irqqueue, b)
    <3>1. state'[b] = s /\ ref'[b] = ref[b] /\ ref[b] = Copies(b) + 1
      BY <1>1, <2>2, <2>4 DEF BufferOK
    <3> QED
      BY <1>3, <2>1, <2>3, <3>1 DEF BufferOK
  <2>5. CASE ~Contains(irqqueue, b)
    <3>1. state'[b] = state[b] /\ ref'[b] = ref[b]
      BY <1>1, <2>5
    <3> QED
      BY <1>3, <2>1, <2>2, <2>5, <3>1, OtherBuffer
  <2> QED
    BY <2>4, <2>5
<1> QED
  BY <1>2, <1>3, <1>4, <1>5 DEF BufInv

\* A cancelled buffer that copies are pending into cannot be queued again: the
\* application waits, or the device is gone, or it is cancelled on the way to a
\* flush of the copies.  Only an error of the bus cancels buffers otherwise.
RequeuesApart == ~({"status", "requeue"} \subseteq Faults)

PoisonedReturns == \A u \in Urbs : urb[u] = "submitted" /\ poisoned[u] => ctl = "await" /\ next = u

ErrorOK(b) ==
  state[b] = "ERROR" => Copies(b) = 0 \/ gone \/ ctl \in {"poison", "await", "flush"}

CancelInv == "status" \notin Faults => PoisonedReturns /\ \A b \in Buffers : ErrorOK(b)

\* The application queues a buffer of its own.
LEMMA BufEnqueue ==
  ASSUME BufInv, CancelInv, RequeuesApart, ctl = "idle",
         NEW b \in Buffers, UserOwned(b), Enqueue(b, irqqueue),
         UNCHANGED <<gone, urb, cur, packets, copying>>
  PROVE  BufInv'
<1>1. /\ QueueTypes /\ irqqueue \in Seq(Buffers) /\ Injective(irqqueue)
      /\ BufferOK(b) /\ ~Contains(irqqueue, b)
      /\ Copies(b) = 0 \/ (gone /\ state[b] = "ERROR")
  <2>1. BufferOK(b) /\ ~Contains(irqqueue, b)
    BY DEF BufInv, BufferOK, UserOwned
  <2>2. "requeue" \notin Faults => Copies(b) = 0
    BY NoCopies DEF BufInv, UserOwned
  <2>3. state[b] # "ERROR" => Copies(b) = 0
    BY <2>1 DEF BufferOK, UserOwned
  <2>4. "status" \notin Faults => Copies(b) = 0 \/ (gone /\ state[b] = "ERROR")
    BY <2>3 DEF CancelInv, ErrorOK, BufInv, QueueTypes
  <2> QED
    BY <2>1, <2>2, <2>4 DEF RequeuesApart, BufInv, QueueTypes
<1>2. /\ QueueTypes'
      /\ \/ state'[b] = "QUEUED" /\ ref'[b] = 1 /\ Contains(irqqueue', b)
         \/ state'[b] = "ERROR" /\ ref'[b] = ref[b] /\ ~Contains(irqqueue', b)
      /\ \A x \in Buffers \ {b} : /\ state'[x] = state[x] /\ ref'[x] = ref[x]
                                  /\ Contains(irqqueue', x) <=> Contains(irqqueue, x)
      /\ \A x : Contains(irqqueue, x) => Contains(irqqueue', x)
      /\ gone => state'[b] = "ERROR"
  <2>1. gone => state'[b] = "ERROR"
    BY <1>1 DEF Enqueue, QueueTypes
  <2> QED
    BY <1>1, <2>1, EnqueueEffect
<1>3. CopyTypes' /\ \A x : Copies(x)' = Copies(x)
  BY CopiesKept DEF BufInv, copying
<1>4. HandlerInv' /\ HandlerTypes'
  BY <1>2 DEF BufInv, HandlerInv, HandlerTypes, HandlerRuns, Completing, Copying, copying
<1>5. BufferOK(b)'
  BY <1>1, <1>2, <1>3 DEF BufferOK
<1>6. \A x \in Buffers \ {b} : BufferOK(x)'
  BY <1>2, <1>3, OtherBuffer DEF BufInv
<1> QED
  BY <1>2, <1>3, <1>4, <1>5, <1>6 DEF BufInv

LEMMA BufStart == ASSUME RequeuesApart PROVE UrbInv /\ BufInv /\ CancelInv /\ Start => BufInv'
<1> SUFFICES ASSUME UrbInv, BufInv, CancelInv, Start PROVE BufInv'
  OBVIOUS
<1>0. packets \in 0 .. packets
  BY DEF BufInv, HandlerTypes
<1>1. CASE StartStreaming
  <2>1. UNCHANGED <<urb, cur, packets, copying>>
    BY <1>1 DEF StartStreaming, transfer
  <2>2. CASE UNCHANGED queue
    BY <1>0, <2>1, <2>2, BufFrame DEF Completing, Copying, copying
  <2>3. CASE \E b \in Buffers : UserOwned(b) /\ Enqueue(b, irqqueue) /\ UNCHANGED gone
    BY <1>1, <2>1, <2>3, BufEnqueue DEF StartStreaming
  <2> QED
    BY <1>1, <2>2, <2>3 DEF StartStreaming
<1>2. CASE Commit \/ AllocMemory
  BY <1>0, <1>2, BufFrame DEF Commit, AllocMemory, transfer, copying, Completing, Copying
<1>3. CASE AllocUrb
  <2>1. \A u \in Urbs : Completing(u)' <=> Completing(u)
    BY <1>3 DEF AllocUrb, UrbInv, UrbTypes, Stages, Completing
  <2> QED
    BY <1>0, <1>3, <2>1, BufFrame DEF AllocUrb, copying, Copying
<1>4. CASE SubmitUrb
  <2>1. ctl = "submit" /\ Submit(next) /\ urb[next] = "idle"
    BY <1>4 DEF SubmitUrb, UrbInv, Stages, UrbTypes, Urbs
  <2>2. \A u \in Urbs : Completing(u)' <=> Completing(u)
    BY <2>1, SubmitEffect DEF UrbInv, UrbTypes, Completing
  <2> QED
    BY <1>0, <1>4, <2>2, BufFrame DEF SubmitUrb, copying, Copying
<1> QED
  BY <1>1, <1>2, <1>3, <1>4 DEF Start

LEMMA NothingRuns ==
  ASSUME UrbInv, ctl \in {"refused", "stopped"}
  PROVE  ~HandlerRuns /\ \A u \in Urbs : ~Completing(u) /\ ~Copying(u)
BY DEF UrbInv, Stages, NoTransfer, HandlerRuns, Completing, Copying

LEMMA BufStop == UrbInv /\ BufInv /\ Stop => BufInv'
<1> SUFFICES ASSUME UrbInv, BufInv, Stop PROVE BufInv'
  OBVIOUS
<1>0. packets \in 0 .. packets
  BY DEF BufInv, HandlerTypes
<1>1. CASE StopStreaming \/ PoisonUrb \/ PoisonReturns \/ FlushWork \/ ResumeRefused
  BY <1>0, <1>1, BufFrame DEF StopStreaming, PoisonUrb, PoisonReturns, FlushWork, ResumeRefused,
     transfer, copying, Completing, Copying
<1>2. CASE FreeUrbs
  <2>1. \A u \in Urbs : ~Completing(u) /\ ~Completing(u)'
    BY <1>2 DEF FreeUrbs, UrbInv, Stages, Stilled, Completing
  <2> QED
    BY <1>0, <1>2, <2>1, BufFrame DEF FreeUrbs, copying, Copying
<1>3. CASE StartRefused
  <2>1. UNCHANGED <<ops, turn, cur, packets, work, urb, gone>> /\ ReturnBuffers("IDLE")
        /\ ~HandlerRuns /\ \A u \in Urbs : ~Completing(u) /\ ~Copying(u)
    BY <1>3, NothingRuns DEF StartRefused, transfer, copying
  <2> QED
    BY <2>1, ReturnEffect DEF Completing, BufInv, QueueTypes
<1>4. CASE Stopped
  <2>1. UNCHANGED <<ops, turn, cur, packets, work, urb, gone>> /\ ReturnBuffers("ERROR")
        /\ ~HandlerRuns /\ \A u \in Urbs : ~Completing(u)
    BY <1>4, NothingRuns DEF Stopped, transfer, copying
  <2> QED
    BY <2>1, ReturnEffect DEF Completing, BufInv, QueueTypes
<1> QED
  BY <1>1, <1>2, <1>3, <1>4 DEF Stop

LEMMA BufPower == BufInv /\ Power => BufInv'
<1> SUFFICES ASSUME BufInv, Power PROVE BufInv'
  OBVIOUS
<1>0. packets \in 0 .. packets
  BY DEF BufInv, HandlerTypes
<1> QED
  BY <1>0, BufFrame DEF Power, Suspend, Resume, Suspended, transfer, copying, Completing, Copying

LEMMA BufComplete == ASSUME UrbInv, BufInv, NEW u \in Urbs, Complete(u) PROVE BufInv'
<1>0. urb[u] = "submitted" /\ ~HandlerRuns /\ work[u] = "none"
  BY DEF Complete, CompleteOk, CompleteFailed, CompleteShutdown, GiveBack, UrbInv, WorkOwnsUrb,
         WorkPending
<1>1. CASE CompleteOk(u)
  <2>1. /\ urb' = [urb EXCEPT ![u] = "completing"]
        /\ cur' = IF irqqueue = <<>> THEN NoBuffer ELSE Head(irqqueue)
        /\ packets' = MaxPackets
        /\ ops' = [ops EXCEPT ![u] = <<>>] /\ turn' = [turn EXCEPT ![u] = 1]
        /\ UNCHANGED <<work, queue>>
    BY <1>1 DEF CompleteOk
  <2>2. turn[u] > Len(ops[u])
    BY <1>0 DEF BufInv, HandlerInv, HandlerRuns, Copying
  <2>3. CopyTypes' /\ \A b : Copies(b)' = Copies(b)
    BY <2>1, <2>2, CopiesForgotten DEF BufInv
  <2>4. cur' \in Buffers \cup {NoBuffer} /\ (cur' # NoBuffer => Contains(irqqueue, cur'))
    <3>1. CASE irqqueue = <<>>
      BY <2>1, <3>1
    <3>2. CASE irqqueue # <<>>
      <4>1. irqqueue \in Seq(Buffers)
        BY DEF BufInv, QueueTypes
      <4>2. 1 \in 1 .. Len(irqqueue) /\ cur' = irqqueue[1] /\ irqqueue[1] \in Buffers
        BY <2>1, <3>2, <4>1
      <4> QED
        BY <4>2 DEF Contains
    <3> QED
      BY <3>1, <3>2
  <2>5. QueueTypes' /\ HandlerTypes'
    <3>1. QueueTypes'
      BY <2>1, Zenon DEF BufInv, QueueTypes, Injective, queue
    <3>2. HandlerTypes'
      BY <2>1, <2>4, LengthsAssumption DEF HandlerTypes
    <3> QED
      BY <3>1, <3>2
  <2>6. Completing(u)' /\ \A v \in Urbs : v # u => ~Completing(v)' /\ ops'[v] = ops[v] /\ turn'[v] = turn[v]
    BY <1>0, <2>1 DEF HandlerRuns, Completing, UrbInv, UrbTypes, BufInv, CopyTypes
  <2>7. ops'[u] = <<>> /\ turn'[u] = 1
    BY <2>1 DEF BufInv, CopyTypes
  <2>8. HandlerInv'
    <3>1. Len(ops'[u]) + packets' <= MaxPackets /\ ~Copying(u)'
      BY <1>0, <2>1, <2>7, LengthsAssumption DEF Copying
    <3>2. cur' # NoBuffer => HandlerRuns' /\ Contains(irqqueue', cur')
      BY <2>1, <2>4, <2>6 DEF HandlerRuns, queue
    <3>3. \A v \in Urbs : v # u => /\ Copying(v)' => turn'[v] <= Len(ops'[v])
                                   /\ ~Completing(v)' /\ ~Copying(v)' => turn'[v] > Len(ops'[v])
      BY <1>0, <2>1, <2>6 DEF BufInv, HandlerInv, HandlerRuns, Copying
    <3> QED
      BY <2>6, <2>7, <3>1, <3>2, <3>3 DEF HandlerInv
  <2>9. \A b \in Buffers : BufferOK(b)'
    BY <2>1, <2>3, OtherBuffer DEF BufInv, queue
  <2> QED
    BY <2>3, <2>5, <2>8, <2>9 DEF BufInv
<1>2. CASE CompleteFailed(u) \/ CompleteShutdown(u)
  <2>1. /\ urb' = [urb EXCEPT ![u] = "idle"]
        /\ UNCHANGED <<ops, turn, cur, packets, work>>
        /\ UNCHANGED queue \/ (ReturnBuffers("ERROR") /\ gone' \in {gone, TRUE})
    BY <1>2 DEF CompleteFailed, CompleteShutdown, Cancel, copying, BufInv, QueueTypes
  <2>2. \A v \in Urbs : ~Completing(v) /\ ~Completing(v)'
    BY <1>0, <2>1 DEF HandlerRuns, Completing, UrbInv, UrbTypes
  <2>3. CASE UNCHANGED queue
    <3>1. packets' \in 0 .. packets
      BY <2>1 DEF BufInv, HandlerTypes
    <3> QED
      BY <2>1, <2>2, <2>3, <3>1, BufFrame DEF Copying
  <2>4. CASE ReturnBuffers("ERROR") /\ gone' \in {gone, TRUE}
    <3>1. gone' \in BOOLEAN
      BY <2>4 DEF BufInv, QueueTypes
    <3> QED
      BY <1>0, <2>1, <2>2, <2>4, <3>1, ReturnEffect
  <2> QED
    BY <2>1, <2>3, <2>4
<1> QED
  BY <1>1, <1>2 DEF Complete

\* No other buffer than b leaves the queue in this step.
OnlyLeaves(b) == \A x : Contains(irqqueue, x) /\ x # b => Contains(irqqueue', x)

\* The handler of u notes one more copy into c, which stays in the queue or
\* leaves it.
LEMMA BufCopy ==
  ASSUME BufInv, NEW u \in Urbs, Completing(u), packets > 0, NEW c \in Buffers, c = cur,
         UNCHANGED <<urb, work, turn, gone>>, packets' = packets - 1,
         ops' = [ops EXCEPT ![u] = Append(@, c)],
         NEW s \in {"ACTIVE", "READY"}, state' = [state EXCEPT ![c] = s],
         error' \in [Buffers -> BOOLEAN], used' \in [Buffers -> 0 .. BufferLength],
         \/ /\ s = "ACTIVE" /\ UNCHANGED <<irqqueue, cur>>
            /\ ref' = [ref EXCEPT ![c] = @ + 1]
         \/ /\ s = "READY" /\ irqqueue' = RemoveFirst(irqqueue, c) /\ UNCHANGED ref
            /\ cur' = IF irqqueue' = <<>> THEN NoBuffer ELSE Head(irqqueue')
  PROVE  BufInv' /\ OnlyLeaves(c)
<1>0. /\ QueueTypes /\ HandlerTypes /\ CopyTypes /\ HandlerInv /\ BufferOK(c)
      /\ irqqueue \in Seq(Buffers) /\ Injective(irqqueue)
      /\ state \in [Buffers -> BufferStates] /\ ref \in [Buffers -> Nat] /\ c # NoBuffer
  BY BuffersAssumption DEF BufInv, QueueTypes
<1>1. Contains(irqqueue, c) /\ ref[c] = Copies(c) + 1
  BY <1>0 DEF HandlerInv, BufferOK
<1>2. turn[u] = 1 /\ Len(ops[u]) \in Nat /\ Len(ops[u]) + packets <= MaxPackets /\ packets \in 1 .. MaxPackets
  BY <1>0, LengthsAssumption DEF HandlerInv, CopyTypes, HandlerTypes
<1>3. CopyTypes' /\ Copies(c)' = Copies(c) + 1 /\ \A b : b # c => Copies(b)' = Copies(b)
  <2>1. Len(ops[u]) < MaxPackets
    BY <1>2, LengthsAssumption
  <2> QED
    BY <1>0, <1>2, <2>1, CopyAdded
<1>4. Copies(c) \in Nat
  BY PendingFinite
<1>5. /\ irqqueue' \in Seq(Buffers) /\ Injective(irqqueue')
      /\ \A x : Contains(irqqueue', x) <=> Contains(irqqueue, x) /\ (s = "READY" => x # c)
  <2>1. CASE s = "ACTIVE"
    BY <1>0, <2>1
  <2>2. CASE s = "READY"
    BY <1>0, <1>1, <2>2, RemoveEffect
  <2> QED
    BY <2>1, <2>2
<1>6. cur' \in Buffers \cup {NoBuffer} /\ (cur' # NoBuffer => Contains(irqqueue', cur'))
  <2>1. CASE s = "ACTIVE"
    BY <1>0, <1>1, <2>1
  <2>2. CASE s = "READY" /\ irqqueue' = <<>>
    BY <2>2
  <2>3. CASE s = "READY" /\ irqqueue' # <<>>
    <3>1. 1 \in 1 .. Len(irqqueue') /\ cur' = irqqueue'[1] /\ irqqueue'[1] \in Buffers
      BY <1>5, <2>3
    <3> QED
      BY <3>1 DEF Contains
  <2> QED
    BY <2>1, <2>2, <2>3
<1>7. QueueTypes'
  <2>1. state' \in [Buffers -> BufferStates]
    BY <1>0 DEF BufferStates
  <2>2. ref' \in [Buffers -> Nat]
    <3>1. ref[c] \in Nat /\ ref[c] + 1 \in Nat
      BY <1>0
    <3> QED
      BY <1>0, <3>1
  <2> QED
    BY <1>0, <1>5, <2>1, <2>2 DEF QueueTypes
<1>8. HandlerTypes' /\ HandlerInv'
  <2>1. HandlerTypes'
    BY <1>2, <1>6, LengthsAssumption DEF HandlerTypes
  <2>2. Len(ops'[u]) = Len(ops[u]) + 1 /\ \A v \in Urbs : v # u => ops'[v] = ops[v]
    BY <1>0 DEF CopyTypes
  <2>3. Len(ops'[u]) + packets' <= MaxPackets
    BY <1>2, <2>2, LengthsAssumption
  <2>4. \A v \in Urbs : v # u => ~Completing(v)
    BY <1>0 DEF HandlerInv
  <2>5. cur' # NoBuffer => HandlerRuns' /\ Contains(irqqueue', cur')
    BY <1>6 DEF HandlerRuns, Completing
  <2>6. Copying(u)' => turn'[u] <= Len(ops'[u])
    BY <1>2, <2>2
  <2> QED
    BY <1>0, <1>2, <2>1, <2>2, <2>3, <2>4, <2>5, <2>6 DEF HandlerInv, Completing, Copying
<1>9. BufferOK(c)'
  <2>1. state'[c] = s /\ (s = "ACTIVE" => ref'[c] = ref[c] + 1) /\ (s = "READY" => ref'[c] = ref[c])
    BY <1>0
  <2> QED
    BY <1>1, <1>3, <1>4, <1>5, <2>1 DEF BufferOK
<1>10. ASSUME NEW b \in Buffers, b # c PROVE BufferOK(b)'
  <2>1. state'[b] = state[b] /\ ref'[b] = ref[b]
    BY <1>0, <1>10
  <2> QED
    BY <1>3, <1>5, <1>10, <2>1, OtherBuffer DEF BufInv
<1> QED
  BY <1>3, <1>5, <1>7, <1>8, <1>9, <1>10 DEF BufInv, OnlyLeaves

\* The first packet of the next frame gives up the queue's reference to c.
LEMMA BufToggled ==
  ASSUME BufInv, NEW c \in Buffers, c = cur, NEW e \in BOOLEAN, NextBuffers(e),
         UNCHANGED <<urb, work, ops, turn, packets, gone>>
  PROVE  BufInv' /\ OnlyLeaves(c)
<1> DEFINE rest == RemoveFirst(irqqueue, c)
<1>0. /\ QueueTypes /\ HandlerTypes /\ CopyTypes /\ HandlerInv /\ BufferOK(c)
      /\ irqqueue \in Seq(Buffers) /\ Injective(irqqueue) /\ c # NoBuffer
  BY BuffersAssumption DEF BufInv, QueueTypes
<1>1. Contains(irqqueue, c) /\ HandlerRuns /\ ref[c] = Copies(c) + 1 /\ Copies(c) \in Nat
  BY <1>0, PendingFinite DEF HandlerInv, BufferOK
<1>2. /\ rest \in Seq(Buffers) /\ Injective(rest)
      /\ \A x : Contains(rest, x) <=> x # c /\ Contains(irqqueue, x)
  BY <1>0, <1>1, RemoveEffect
<1>3. Release(c, rest, "READY", e) /\ cur' = IF rest = <<>> THEN NoBuffer ELSE Head(rest)
  BY DEF NextBuffers
<1> HIDE DEF rest
<1>4. /\ QueueTypes'
      /\ ref[c] # 1 => /\ ref'[c] = ref[c] - 1 /\ state'[c] = "READY" /\ irqqueue' = rest
      /\ ref[c] = 1 => \/ state'[c] = "QUEUED" /\ ref'[c] = 1 /\ Contains(irqqueue', c)
                       \/ state'[c] \in {"ERROR", "DONE"} /\ ~Contains(irqqueue', c)
      /\ \A x \in Buffers \ {c} : /\ state'[x] = state[x] /\ ref'[x] = ref[x]
                                  /\ Contains(irqqueue', x) <=> Contains(rest, x)
      /\ \A x : Contains(rest, x) => Contains(irqqueue', x)
  BY <1>0, <1>1, <1>2, <1>3, ReleaseEffect DEF BufferStates
<1>5. CopyTypes' /\ \A b : Copies(b)' = Copies(b)
  BY <1>0, CopiesKept
<1>6. cur' \in Buffers \cup {NoBuffer} /\ (cur' # NoBuffer => Contains(irqqueue', cur'))
  <2>1. CASE rest = <<>>
    BY <1>3, <2>1
  <2>2. CASE rest # <<>>
    <3>1. 1 \in 1 .. Len(rest) /\ cur' = rest[1] /\ rest[1] \in Buffers
      BY <1>2, <1>3, <2>2
    <3> QED
      BY <1>4, <3>1 DEF Contains
  <2> QED
    BY <2>1, <2>2
<1>7. HandlerTypes' /\ HandlerInv'
  <2>1. HandlerRuns' <=> HandlerRuns
    BY DEF HandlerRuns, Completing
  <2> QED
    BY <1>0, <1>1, <1>6, <2>1 DEF HandlerTypes, HandlerInv, Completing, Copying
<1>8. BufferOK(c)'
  <2>1. CASE ref[c] # 1
    <3>1. ~Contains(irqqueue', c)
      BY <1>2, <1>4, <2>1
    <3> QED
      BY <1>1, <1>4, <1>5, <2>1, <3>1 DEF BufferOK
  <2>2. CASE ref[c] = 1
    BY <1>1, <1>4, <1>5, <2>2 DEF BufferOK
  <2> QED
    BY <2>1, <2>2
<1>9. ASSUME NEW b \in Buffers, b # c PROVE BufferOK(b)'
  BY <1>2, <1>4, <1>5, <1>9, OtherBuffer DEF BufInv
<1>10. OnlyLeaves(c)
  BY <1>2, <1>4 DEF OnlyLeaves
<1> QED
  BY <1>4, <1>5, <1>7, <1>8, <1>9, <1>10 DEF BufInv

LEMMA BufHandler == ASSUME UrbInv, BufInv, NEW u \in Urbs, Handler(u) PROVE BufInv' /\ OnlyLeaves(cur)
<1>0. /\ Completing(u) /\ packets \in 0 .. MaxPackets
      /\ used \in [Buffers -> 0 .. BufferLength] /\ error \in [Buffers -> BOOLEAN]
      /\ state \in [Buffers -> BufferStates] /\ ref \in [Buffers -> Nat] /\ cur \in Buffers \cup {NoBuffer}
  BY DEF Handler, PacketDropped, PacketBad, FrameToggled, PacketData, PacketLast, HandlerReturns,
         BufInv, QueueTypes, HandlerTypes
<1>1. CASE PacketDropped(u)
  <2>1. packets' \in 0 .. packets /\ UNCHANGED <<urb, cur, copying, queue>>
    BY <1>0, <1>1, LengthsAssumption DEF PacketDropped
  <2> QED
    BY <2>1, BufFrame DEF copying, Completing, Copying, queue, OnlyLeaves
<1>2. CASE PacketBad(u)
  <2>1. /\ UNCHANGED <<urb, cur, ops, turn, work, irqqueue, gone, state, used, ref>>
        /\ packets' \in 0 .. packets /\ error' \in [Buffers -> BOOLEAN]
    BY <1>0, <1>2, LengthsAssumption DEF PacketBad, copying
  <2>2. QueueTypes'
    BY <2>1, Zenon DEF BufInv, QueueTypes, Injective
  <2>3. CopyTypes' /\ \A b : Copies(b)' = Copies(b)
    BY <2>1, CopiesKept DEF BufInv
  <2>4. HandlerTypes'
    BY <1>0, <2>1, LengthsAssumption DEF HandlerTypes
  <2>5. HandlerInv'
    <3>1. \A v \in Urbs : Completing(v)' => Len(ops'[v]) + packets' <= MaxPackets
      BY <1>0, <2>1, LengthsAssumption DEF BufInv, HandlerInv, Completing, CopyTypes
    <3>2. HandlerRuns' <=> HandlerRuns
      BY <2>1 DEF HandlerRuns, Completing
    <3> QED
      BY <2>1, <3>1, <3>2 DEF BufInv, HandlerInv, Completing, Copying
  <2>6. \A b \in Buffers : BufferOK(b)'
    BY <2>1, <2>3, OtherBuffer DEF BufInv
  <2> QED
    BY <2>1, <2>2, <2>3, <2>4, <2>5, <2>6 DEF BufInv, OnlyLeaves
<1>3. CASE FrameToggled(u)
  <2>1. cur \in Buffers /\ UNCHANGED <<urb, work, ops, turn, packets, gone>>
    BY <1>0, <1>3 DEF FrameToggled, copying
  <2>2. PICK c \in Buffers : c = cur
    BY <2>1
  <2>3. PICK short \in BOOLEAN : NextBuffers(error[cur] \/ short)
    BY <1>3 DEF FrameToggled
  <2>4. PICK e \in BOOLEAN : e = (error[cur] \/ short)
    OBVIOUS
  <2> QED
    BY <2>1, <2>2, <2>3, <2>4, BufToggled
<1>4. CASE PacketData(u)
  <2>1. PICK c \in Buffers : c = cur
    BY <1>0, <1>4 DEF PacketData
  <2>2. /\ packets > 0 /\ UNCHANGED <<urb, work, turn, gone, irqqueue, cur>> /\ packets' = packets - 1
        /\ ops' = [ops EXCEPT ![u] = Append(@, c)] /\ ref' = [ref EXCEPT ![c] = @ + 1]
        /\ state' = [state EXCEPT ![c] = "ACTIVE"]
        /\ \E e \in BOOLEAN : error' = [error EXCEPT ![cur] = @ \/ e]
    BY <1>0, <1>4, <2>1 DEF PacketData, AddCopy
  <2>3. used' \in [Buffers -> 0 .. BufferLength]
    <3>1. used[c] < BufferLength /\ used' = [used EXCEPT ![c] = used[c] + 1]
      BY <1>4, <2>1 DEF PacketData
    <3>2. used[c] + 1 \in 0 .. BufferLength
      BY <1>0, <3>1, LengthsAssumption
    <3> QED
      BY <1>0, <3>1, <3>2
  <2>4. error' \in [Buffers -> BOOLEAN]
    BY <1>0, <2>1, <2>2
  <2> QED
    BY <1>0, <2>1, <2>2, <2>3, <2>4, BufCopy
<1>5. CASE PacketLast(u)
  <2>1. PICK c \in Buffers : c = cur
    BY <1>0, <1>5 DEF PacketLast
  <2>2. PICK e \in BOOLEAN :
          LET full == used[cur] = BufferLength
              rest == RemoveFirst(irqqueue, cur)
          IN /\ full => e
             /\ error' = [error EXCEPT ![cur] = @ \/ e]
             /\ used' = [used EXCEPT ![cur] = IF full THEN @ ELSE @ + 1]
             /\ cur' = IF rest = <<>> THEN NoBuffer ELSE Head(rest)
             /\ irqqueue' = rest
    BY <1>5 DEF PacketLast
  <2>3. /\ packets > 0 /\ UNCHANGED <<urb, work, turn, gone, ref>> /\ packets' = packets - 1
        /\ ops' = [ops EXCEPT ![u] = Append(@, c)] /\ state' = [state EXCEPT ![c] = "READY"]
    BY <1>5, <2>1 DEF PacketLast
  <2>4. error' \in [Buffers -> BOOLEAN]
    BY <1>0, <2>1, <2>2
  <2>5. used' \in [Buffers -> 0 .. BufferLength]
    <3>1. used' = [used EXCEPT ![c] = IF used[c] = BufferLength THEN used[c] ELSE used[c] + 1]
      BY <2>1, <2>2
    <3>2. (IF used[c] = BufferLength THEN used[c] ELSE used[c] + 1) \in 0 .. BufferLength
      BY <1>0, LengthsAssumption
    <3> QED
      BY <1>0, <3>1, <3>2
  <2>6. irqqueue' = RemoveFirst(irqqueue, c) /\ cur' = IF irqqueue' = <<>> THEN NoBuffer ELSE Head(irqqueue')
    BY <2>1, <2>2
  <2> QED
    BY <1>0, <2>1, <2>3, <2>4, <2>5, <2>6, BufCopy
<1>6. CASE HandlerReturns(u)
  <2>1. /\ cur' = NoBuffer /\ packets' = 0 /\ UNCHANGED <<ops, queue>>
        /\ UNCHANGED turn \/ turn' = [turn EXCEPT ![u] = 1]
    BY <1>6 DEF HandlerReturns
  <2>2. turn[u] = 1 /\ turn \in [Urbs -> 1 .. MaxPackets + 1]
    BY <1>0 DEF BufInv, HandlerInv, CopyTypes
  <2>3. turn' = turn
    BY <2>1, <2>2
  <2>4. CopyTypes' /\ \A b : Copies(b)' = Copies(b)
    BY <2>1, <2>3, CopiesKept DEF BufInv
  <2>5. QueueTypes' /\ HandlerTypes'
    <3>1. QueueTypes'
      BY <2>1, Zenon DEF BufInv, QueueTypes, Injective, queue
    <3>2. HandlerTypes'
      BY <2>1, LengthsAssumption DEF HandlerTypes
    <3> QED
      BY <3>1, <3>2
  <2>6. \A b \in Buffers : BufferOK(b)'
    BY <2>1, <2>4, OtherBuffer DEF BufInv, queue
  <2>7. /\ \A v \in Urbs : v # u => (Completing(v)' <=> Completing(v)) /\ (Copying(v)' <=> Copying(v))
        /\ ~Completing(u)' /\ (Copying(u)' <=> ops[u] # <<>>)
    <3>1. work[u] = "none" /\ work \in [Urbs -> {"none", "copy", "release", "submit"}]
      BY <1>0 DEF UrbInv, UrbTypes, WorkOwnsUrb, WorkPending, Completing
    <3>2. CASE ops[u] = <<>>
      <4>1. Submit(u) /\ UNCHANGED work
        BY <1>6, <3>2 DEF HandlerReturns
      <4> QED
        BY <3>1, <3>2, <4>1, SubmitEffect DEF UrbInv, Completing, Copying
    <3>3. CASE ops[u] # <<>>
      BY <1>6, <3>1, <3>3 DEF HandlerReturns, Completing, Copying, UrbInv, UrbTypes
    <3> QED
      BY <3>2, <3>3
  <2>8. HandlerInv'
    <3>1. ops[u] \in Seq(Buffers) /\ Len(ops[u]) \in Nat /\ (ops[u] = <<>> <=> Len(ops[u]) = 0)
      BY DEF BufInv, CopyTypes
    <3>2. \A v \in Urbs : ~Completing(v)'
      BY <1>0, <2>7 DEF BufInv, HandlerInv
    <3>3. ASSUME NEW v \in Urbs
          PROVE  IF Copying(v)' THEN turn'[v] <= Len(ops'[v]) ELSE turn'[v] > Len(ops'[v])
      <4>1. CASE v = u
        BY <2>1, <2>2, <2>3, <2>7, <3>1, <4>1
      <4>2. CASE v # u
        BY <1>0, <2>1, <2>3, <2>7, <4>2 DEF BufInv, HandlerInv
      <4> QED
        BY <4>1, <4>2
    <3> QED
      BY <2>1, <3>2, <3>3 DEF HandlerInv
  <2> QED
    BY <2>1, <2>4, <2>5, <2>6, <2>8 DEF BufInv, queue, OnlyLeaves
<1> QED
  BY <1>1, <1>2, <1>3, <1>4, <1>5, <1>6 DEF Handler

\* A copy is over and its reference to c is dropped.
LEMMA BufReleased ==
  ASSUME UrbInv, BufInv, NEW u \in Urbs, NEW c \in Buffers, c = ops[u][turn[u]], WorkRelease(u)
  PROVE  BufInv' /\ OnlyLeaves(NoBuffer)
<1> DEFINE NoMore == turn[u] = Len(ops[u])
<1>0. /\ QueueTypes /\ HandlerTypes /\ CopyTypes /\ HandlerInv /\ BufferOK(c)
      /\ irqqueue \in Seq(Buffers) /\ Injective(irqqueue)
  BY DEF BufInv, QueueTypes
<1>1. /\ Copying(u) /\ ~Completing(u) /\ turn[u] <= Len(ops[u])
      /\ work \in [Urbs -> {"none", "copy", "release", "submit"}]
  BY <1>0 DEF WorkRelease, Copying, Completing, HandlerInv, UrbInv, UrbTypes, WorkOwnsUrb, WorkPending
<1>2. /\ turn' = [turn EXCEPT ![u] = @ + 1]
      /\ work' = [work EXCEPT ![u] = IF NoMore THEN "submit" ELSE "copy"]
      /\ UNCHANGED <<urb, cur, packets, ops, gone>>
  BY DEF WorkRelease, transfer
<1>3. /\ CopyTypes' /\ Copies(c) # 0
      /\ Copies(c)' = Copies(c) - 1 /\ \A b : b # c => Copies(b)' = Copies(b)
  BY <1>0, <1>1, <1>2, CopyReleased
<1>4. Copies(c) \in Nat
  BY PendingFinite
<1>5. PICK s \in BufferStates, e \in BOOLEAN : s = state[c] /\ e = error[c]
  BY <1>0 DEF QueueTypes
<1>6. Release(c, irqqueue, s, e)
  BY <1>5 DEF WorkRelease
<1>7. ref[c] # 0 /\ ref[c] \in Nat /\ (ref[c] = 1 => state[c] = "READY" /\ ~Contains(irqqueue, c))
  BY <1>0, <1>3, <1>4 DEF BufferOK, QueueTypes, BufferStates
<1>8. /\ QueueTypes'
      /\ ref[c] # 1 => /\ ref'[c] = ref[c] - 1 /\ state'[c] = s /\ irqqueue' = irqqueue
      /\ ref[c] = 1 => \/ state'[c] = "QUEUED" /\ ref'[c] = 1 /\ Contains(irqqueue', c)
                       \/ state'[c] \in {"ERROR", "DONE"} /\ ~Contains(irqqueue', c)
      /\ \A x \in Buffers \ {c} : /\ state'[x] = state[x] /\ ref'[x] = ref[x]
                                  /\ Contains(irqqueue', x) <=> Contains(irqqueue, x)
      /\ \A x : Contains(irqqueue, x) => Contains(irqqueue', x)
  BY <1>0, <1>2, <1>6, <1>7, ReleaseEffect
<1>9. HandlerTypes' /\ HandlerInv'
  <2>1. HandlerTypes'
    BY <1>0, <1>2 DEF HandlerTypes
  <2>2. turn'[u] = turn[u] + 1 /\ turn[u] \in Nat /\ Len(ops[u]) \in Nat
        /\ \A v \in Urbs : v # u => turn'[v] = turn[v]
    BY <1>0, <1>2, LengthsAssumption DEF CopyTypes
  <2>3. (Copying(u)' <=> ~NoMore) /\ \A v \in Urbs : v # u => (Copying(v)' <=> Copying(v))
    BY <1>1, <1>2 DEF Copying
  <2>4. (HandlerRuns' <=> HandlerRuns) /\ \A v \in Urbs : Completing(v)' <=> Completing(v)
    BY <1>2 DEF HandlerRuns, Completing
  <2>5. ASSUME NEW v \in Urbs
        PROVE  /\ Completing(v)' => turn'[v] = 1 /\ Len(ops'[v]) + packets' <= MaxPackets
               /\ Copying(v)' => turn'[v] <= Len(ops'[v])
               /\ ~Completing(v)' /\ ~Copying(v)' => turn'[v] > Len(ops'[v])
    <3>1. CASE v = u
      BY <1>1, <1>2, <2>2, <2>3, <2>4, <3>1
    <3>2. CASE v # u
      BY <1>0, <1>2, <2>2, <2>3, <2>4, <3>2 DEF HandlerInv
    <3> QED
      BY <3>1, <3>2
  <2>6. \A v, w \in Urbs : Completing(v)' /\ Completing(w)' => v = w
    BY <1>0, <2>4 DEF HandlerInv
  <2>7. cur' # NoBuffer => HandlerRuns' /\ Contains(irqqueue', cur')
    BY <1>0, <1>2, <1>8, <2>4 DEF HandlerInv
  <2> QED
    BY <2>1, <2>5, <2>6, <2>7 DEF HandlerInv
<1>10. BufferOK(c)'
  <2>1. CASE ref[c] # 1
    <3>1. ref'[c] = ref[c] - 1 /\ state'[c] = state[c] /\ irqqueue' = irqqueue
      BY <1>5, <1>8, <2>1
    <3>2. state[c] = "READY" => Copies(c)' # 0
      BY <1>0, <1>3, <1>4, <2>1 DEF BufferOK
    <3> QED
      BY <1>0, <1>3, <1>4, <1>7, <3>1, <3>2 DEF BufferOK
  <2>2. CASE ref[c] = 1
    <3>1. Copies(c)' = 0
      BY <1>0, <1>3, <1>4, <1>7, <2>2 DEF BufferOK
    <3> QED
      BY <1>8, <2>2, <3>1 DEF BufferOK
  <2> QED
    BY <2>1, <2>2
<1>11. ASSUME NEW b \in Buffers, b # c PROVE BufferOK(b)'
  BY <1>3, <1>8, <1>11, OtherBuffer DEF BufInv
<1> QED
  BY <1>3, <1>8, <1>9, <1>10, <1>11 DEF BufInv, OnlyLeaves

LEMMA BufWork == ASSUME UrbInv, BufInv, NEW u \in Urbs, Work(u) PROVE BufInv' /\ OnlyLeaves(NoBuffer)
<1>0. packets \in 0 .. packets /\ work \in [Urbs -> {"none", "copy", "release", "submit"}]
  BY DEF BufInv, HandlerTypes, UrbInv, UrbTypes
<1>1. CASE WorkCopy(u)
  BY <1>0, <1>1, BufFrame DEF WorkCopy, transfer, Completing, Copying, queue, OnlyLeaves
<1>2. CASE WorkRelease(u)
  <2>1. turn[u] <= Len(ops[u])
    BY <1>2 DEF WorkRelease, BufInv, HandlerInv, Copying
  <2>2. ops[u][turn[u]] \in Buffers
    BY <2>1 DEF BufInv, CopyTypes
  <2>3. PICK c \in Buffers : c = ops[u][turn[u]]
    BY <2>2
  <2> QED
    BY <1>2, <2>3, BufReleased
<1>3. CASE WorkSubmit(u)
  <2>1. urb[u] = "idle" /\ Submit(u) /\ work[u] = "submit"
    BY <1>3 DEF WorkSubmit, UrbInv, WorkOwnsUrb, WorkPending
  <2>2. \A v \in Urbs : Completing(v)' <=> Completing(v)
    BY <2>1, SubmitEffect DEF UrbInv, UrbTypes, Completing
  <2> QED
    BY <1>0, <1>3, <2>1, <2>2, BufFrame DEF WorkSubmit, Copying, queue, OnlyLeaves
<1> QED
  BY <1>1, <1>2, <1>3 DEF Work

LEMMA BufNext ==
  ASSUME RequeuesApart PROVE UrbInv /\ BufInv /\ CancelInv /\ [Next]_vars => BufInv'
<1> SUFFICES ASSUME UrbInv, BufInv, CancelInv, [Next]_vars PROVE BufInv'
  OBVIOUS
<1>0. packets \in 0 .. packets
  BY DEF BufInv, HandlerTypes
<1>1. CASE Unplug
  BY <1>0, <1>1, BufFrame DEF Unplug, transfer, copying, Completing, Copying
<1>2. ASSUME NEW b \in Buffers, QueueBuffer(b) PROVE BufInv'
  BY <1>2, BufEnqueue DEF QueueBuffer, transfer
<1>3. ASSUME NEW u \in Urbs, Complete(u) \/ Handler(u) \/ Work(u) PROVE BufInv'
  BY <1>3, BufComplete, BufHandler, BufWork
<1>4. CASE UNCHANGED vars
  BY <1>0, <1>4, BufFrame DEF vars, transfer, copying, Completing, Copying
<1> QED
  BY <1>1, <1>2, <1>3, <1>4, BufStart, BufStop, BufPower DEF Next

LEMMA CancelInit == Init => CancelInv
BY DEF Init, CancelInv, PoisonedReturns, ErrorOK

\* A submission adds no URB to those whose poisoning is waited for.
LEMMA PoisonSubmit ==
  ASSUME UrbInv, PoisonedReturns, NEW u \in Urbs, Submit(u), poisoned' = poisoned,
         ctl = "await" => UNCHANGED <<ctl, next>>
  PROVE  PoisonedReturns'
<1>1. \A v \in Urbs : urb'[v] = "submitted" /\ poisoned[v] => urb[v] = "submitted"
  BY SubmitEffect DEF UrbInv
<1> QED
  BY <1>1 DEF PoisonedReturns

LEMMA PoisonNext ==
  ASSUME UrbInv, PoisonedReturns, [Next]_vars PROVE PoisonedReturns'
<1> USE DEF UrbInv, UrbTypes, PoisonedReturns, control, transfer
<1>1. CASE Start
  <2>1. CASE StartStreaming \/ Commit \/ AllocMemory
    BY <2>1 DEF StartStreaming, Commit, AllocMemory
  <2>2. CASE AllocUrb
    BY <2>2 DEF AllocUrb
  <2>3. CASE SubmitUrb
    BY <2>3, PoisonSubmit DEF SubmitUrb
  <2> QED
    BY <1>1, <2>1, <2>2, <2>3 DEF Start
<1>2. CASE PoisonUrb
  BY <1>2 DEF PoisonUrb, Goto
<1>3. CASE FreeUrbs
  BY <1>3 DEF FreeUrbs
<1>4. CASE PoisonReturns
  BY <1>4 DEF PoisonReturns, Goto
<1>5. CASE Stop /\ ~PoisonUrb /\ ~FreeUrbs /\ ~PoisonReturns
  BY <1>5 DEF Stop, StopStreaming, FlushWork, StartRefused, ResumeRefused, Stopped
<1>6. CASE Power \/ Unplug \/ UNCHANGED vars
  BY <1>6 DEF Power, Suspend, Resume, Suspended, Unplug, vars
<1>7. CASE \E b \in Buffers : QueueBuffer(b)
  BY <1>7 DEF QueueBuffer
<1>8. ASSUME NEW u \in Urbs, Complete(u) PROVE PoisonedReturns'
  <2>1. urb' \in {[urb EXCEPT ![u] = "completing"], [urb EXCEPT ![u] = "idle"]}
        /\ UNCHANGED <<ctl, next, poisoned>>
    BY <1>8 DEF Complete, CompleteOk, CompleteFailed, CompleteShutdown
  <2> QED
    BY <2>1
<1>9. ASSUME NEW u \in Urbs, Handler(u) PROVE PoisonedReturns'
  <2>1. CASE HandlerReturns(u) /\ ops[u] = <<>>
    BY <2>1, PoisonSubmit DEF HandlerReturns
  <2>2. CASE HandlerReturns(u) /\ ops[u] # <<>>
    BY <2>2 DEF HandlerReturns
  <2>3. CASE ~HandlerReturns(u)
    BY <1>9, <2>3 DEF Handler, PacketDropped, PacketBad, FrameToggled, PacketData, PacketLast
  <2> QED
    BY <2>1, <2>2, <2>3
<1>10. ASSUME NEW u \in Urbs, Work(u) PROVE PoisonedReturns'
  <2>1. CASE WorkSubmit(u)
    BY <2>1, PoisonSubmit DEF WorkSubmit
  <2>2. CASE ~WorkSubmit(u)
    BY <1>10, <2>2 DEF Work, WorkCopy, WorkRelease
  <2> QED
    BY <2>1, <2>2
<1> QED
  BY <1>1, <1>2, <1>3, <1>4, <1>5, <1>6, <1>7, <1>8, <1>9, <1>10 DEF Next

\* While neither a handler nor a work item runs, no copy is pending.
LEMMA NoneCopying ==
  ASSUME BufInv, \A u \in Urbs : ~Completing(u) /\ ~Copying(u)
  PROVE  \A b \in Buffers : Copies(b) = 0
<1>1. \A u \in Urbs : turn[u] > Len(ops[u])
  BY DEF BufInv, HandlerInv
<1>2. \A b : ~Referenced(b)
  BY <1>1 DEF Referenced, BufInv, CopyTypes
<1> QED
  BY <1>2, NoCopies DEF BufInv

\* A step that neither cancels a buffer with copies nor notes a copy.
LEMMA ErrorFrame ==
  ASSUME NEW b \in Buffers, ErrorOK(b), state'[b] = state[b], Copies(b)' = Copies(b),
         gone => gone', ctl \in {"poison", "await", "flush"} => ctl' \in {"poison", "await", "flush"}
  PROVE  ErrorOK(b)'
BY DEF ErrorOK

\* A cancelled buffer with pending copies: the copies are flushed before the
\* application can queue the buffer again, unless the device is gone.
LEMMA ErrorNext ==
  ASSUME "status" \notin Faults, UrbInv, BufInv, PoisonedReturns,
         \A b \in Buffers : ErrorOK(b), [Next]_vars, NEW b \in Buffers
  PROVE  ErrorOK(b)'
<1>0. /\ CopyTypes /\ BufferOK(b) /\ gone \in BOOLEAN /\ Copies(b) \in Nat
      /\ state \in [Buffers -> BufferStates] /\ ref \in [Buffers -> Nat]
  BY PendingFinite DEF BufInv, QueueTypes
<1>1. ASSUME UNCHANGED <<state, gone, ops, turn>>,
             ctl \in {"poison", "await", "flush"} => ctl' \in {"poison", "await", "flush"}
      PROVE  ErrorOK(b)'
  BY <1>0, <1>1, CopiesKept, ErrorFrame
<1>2. ASSUME NEW c \in Buffers, UserOwned(c), Enqueue(c, irqqueue), UNCHANGED <<gone, copying>>,
             ctl = "idle"
      PROVE  ErrorOK(b)'
  <2>1. gone \/ state'[b] = "QUEUED" \/ state'[b] = state[b]
    BY <1>0, <1>2 DEF Enqueue
  <2>2. Copies(b)' = Copies(b)
    BY <1>0, <1>2, CopiesKept DEF copying
  <2> QED
    BY <1>0, <1>2, <2>1, <2>2 DEF ErrorOK
<1>3. CASE Start
  <2>1. CASE StartStreaming
    <3>1. ctl = "idle" /\ UNCHANGED <<copying, gone>>
          /\ (UNCHANGED queue \/ \E c \in Buffers : UserOwned(c) /\ Enqueue(c, irqqueue))
      BY <2>1 DEF StartStreaming, queue
    <3> QED
      BY <1>1, <1>2, <3>1 DEF queue, copying
  <2>2. CASE ~StartStreaming
    BY <1>1, <1>3, <2>2 DEF Start, Commit, AllocMemory, AllocUrb, SubmitUrb, queue, copying
  <2> QED
    BY <2>1, <2>2
<1>4. CASE Stop
  <2>1. CASE FlushWork
    <3>1. \A u \in Urbs : ~Completing(u) /\ ~Copying(u)
      BY <2>1 DEF FlushWork, WorkPending, Copying, Completing, UrbInv, Stages, Stilled
    <3>2. Copies(b)' = 0
      BY <1>0, <2>1, <3>1, NoneCopying, CopiesKept DEF FlushWork, copying
    <3> QED
      BY <3>2 DEF ErrorOK
  <2>2. CASE StartRefused \/ Stopped
    <3>1. \A u \in Urbs : ~Completing(u) /\ ~Copying(u)
      BY <2>2, NothingRuns DEF StartRefused, Stopped
    <3>2. Copies(b)' = 0
      BY <1>0, <2>2, <3>1, NoneCopying, CopiesKept DEF StartRefused, Stopped, copying
    <3> QED
      BY <3>2 DEF ErrorOK
  <2>3. CASE ~FlushWork /\ ~StartRefused /\ ~Stopped
    BY <1>1, <1>4, <2>3 DEF Stop, StopStreaming, StopTransfer, PoisonUrb, PoisonReturns, FreeUrbs,
       ResumeRefused, Goto, queue, copying
  <2> QED
    BY <2>1, <2>2, <2>3
<1>5. CASE Power \/ Unplug \/ UNCHANGED vars
  BY <1>1, <1>5 DEF Power, Suspend, Resume, Suspended, Unplug, vars, StopTransfer, Goto,
     control, queue, copying
<1>6. ASSUME NEW c \in Buffers, QueueBuffer(c) PROVE ErrorOK(b)'
  BY <1>2, <1>6 DEF QueueBuffer
<1>7. ASSUME NEW u \in Urbs, Complete(u) PROVE ErrorOK(b)'
  <2>1. CASE CompleteOk(u)
    <3>1. turn[u] > Len(ops[u])
      BY <2>1 DEF CompleteOk, GiveBack, BufInv, HandlerInv, HandlerRuns, Copying, UrbInv,
         WorkOwnsUrb, WorkPending
    <3>2. Copies(b)' = Copies(b)
      BY <1>0, <2>1, <3>1, CopiesForgotten DEF CompleteOk
    <3> QED
      BY <2>1, <3>2, ErrorFrame DEF CompleteOk, control, queue
  <2>2. CASE CompleteFailed(u)
    <3>1. poisoned[u] /\ urb[u] = "submitted" /\ ctl' = ctl
      BY <2>2 DEF CompleteFailed, GiveBack, control
    <3>2. ctl = "await"
      BY <3>1 DEF PoisonedReturns
    <3> QED
      BY <3>1, <3>2 DEF ErrorOK
  <2>3. CASE CompleteShutdown(u)
    BY <2>3 DEF CompleteShutdown, Cancel, ErrorOK
  <2> QED
    BY <1>7, <2>1, <2>2, <2>3 DEF Complete
<1>8. ASSUME NEW u \in Urbs, Handler(u) PROVE ErrorOK(b)'
  <2>0. /\ Completing(u) /\ turn[u] = 1 /\ Len(ops[u]) + packets <= MaxPackets
        /\ ctl' = ctl /\ gone' = gone
    BY <1>8 DEF Handler, PacketDropped, PacketBad, FrameToggled, PacketData, PacketLast,
       HandlerReturns, BufInv, HandlerInv, control, queue
  <2>1. CASE PacketDropped(u) \/ PacketBad(u)
    BY <1>1, <2>0, <2>1 DEF PacketDropped, PacketBad, copying, queue
  <2>2. CASE HandlerReturns(u)
    <3>1. turn' = turn
      BY <1>0, <2>0, <2>2 DEF HandlerReturns, CopyTypes
    <3> QED
      BY <1>1, <2>0, <2>2, <3>1 DEF HandlerReturns, queue
  <2>3. CASE FrameToggled(u)
    <3>1. Copies(b)' = Copies(b)
      BY <1>0, <2>3, CopiesKept DEF FrameToggled, copying
    <3>2. ref[cur] = 1 /\ b = cur => Copies(b) = 0
      BY <1>0, <2>3 DEF FrameToggled, BufInv, HandlerInv, BufferOK
    <3>3. gone \/ state'[b] # "ERROR" \/ state'[b] = state[b] \/ (ref[cur] = 1 /\ b = cur)
      <4>1. PICK e \in {error[cur], TRUE, FALSE} : NextBuffers(e)
        BY <2>3 DEF FrameToggled
      <4>2. Release(cur, RemoveFirst(irqqueue, cur), "READY", e)
        BY <4>1 DEF NextBuffers
      <4> QED
        BY <1>0, <4>2 DEF Release, Enqueue
    <3> QED
      BY <1>0, <2>0, <3>1, <3>2, <3>3 DEF ErrorOK
  <2>4. CASE PacketData(u) \/ PacketLast(u)
    <3>1. PICK c \in Buffers : c = cur
      BY <2>4 DEF PacketData, PacketLast, BufInv, HandlerTypes
    <3>2. /\ packets > 0 /\ turn' = turn /\ ops' = [ops EXCEPT ![u] = Append(@, c)]
          /\ state' \in {[state EXCEPT ![c] = "ACTIVE"], [state EXCEPT ![c] = "READY"]}
      BY <2>4, <3>1 DEF PacketData, PacketLast, AddCopy
    <3>3. Len(ops[u]) < MaxPackets
      BY <1>0, <2>0, <3>2, LengthsAssumption DEF CopyTypes, BufInv, HandlerTypes
    <3>4. b # c => Copies(b)' = Copies(b)
      BY <1>0, <2>0, <3>2, <3>3, CopyAdded
    <3> QED
      BY <1>0, <2>0, <3>2, <3>4 DEF ErrorOK
  <2> QED
    BY <1>8, <2>1, <2>2, <2>3, <2>4 DEF Handler
<1>9. ASSUME NEW u \in Urbs, Work(u) PROVE ErrorOK(b)'
  <2>1. CASE WorkCopy(u) \/ WorkSubmit(u)
    BY <1>1, <2>1 DEF WorkCopy, WorkSubmit, control, queue
  <2>2. CASE WorkRelease(u)
    <3>1. turn[u] <= Len(ops[u])
      BY <2>2 DEF WorkRelease, BufInv, HandlerInv, Copying
    <3>2. PICK c \in Buffers : c = ops[u][turn[u]]
      BY <1>0, <3>1 DEF CopyTypes
    <3>3. /\ turn' = [turn EXCEPT ![u] = @ + 1] /\ ops' = ops /\ ctl' = ctl /\ gone' = gone
          /\ Release(c, irqqueue, state[c], error[c])
      BY <2>2, <3>2 DEF WorkRelease, control
    <3>4. /\ Copies(c) # 0 /\ Copies(c)' = Copies(c) - 1 /\ (b # c => Copies(b)' = Copies(b))
      BY <1>0, <3>1, <3>2, <3>3, CopyReleased
    <3>5. BufferOK(c) /\ Copies(c) \in Nat
      BY PendingFinite DEF BufInv
    <3>6. ref[c] = 1 => Copies(c)' = 0
      BY <1>0, <3>4, <3>5 DEF BufferOK, BufferStates
    <3>7. gone \/ state'[b] # "ERROR" \/ state'[b] = state[b] \/ (ref[c] = 1 /\ b = c)
      BY <1>0, <3>3 DEF Release, Enqueue
    <3> QED
      BY <1>0, <3>3, <3>4, <3>5, <3>6, <3>7 DEF ErrorOK
  <2> QED
    BY <1>9, <2>1, <2>2 DEF Work
<1> QED
  BY <1>3, <1>4, <1>5, <1>6, <1>7, <1>8, <1>9 DEF Next

LEMMA CancelNext == UrbInv /\ BufInv /\ CancelInv /\ [Next]_vars => CancelInv'
BY PoisonNext, ErrorNext DEF CancelInv

-----------------------------------------------------------------------------
(* The control path.                                                       *)

ControlTypes ==
  /\ ctl \in {"idle", "commit", "memory", "urbs", "submit", "poison", "await",
              "flush", "free", "refused", "stopped"}
  /\ call \in {"none", "start", "stop", "suspend", "resume"}
  /\ streaming \in BOOLEAN /\ suspended \in BOOLEAN /\ frozen \in BOOLEAN
  /\ clock \in BOOLEAN /\ memory \in BOOLEAN /\ present \in BOOLEAN

\* What a path that ends leaves behind, by the reason it was started for.
StopInv ==
  /\ ctl = "idle" /\ ~streaming => ~memory /\ ~clock /\ irqqueue = <<>>
  /\ call = "start" /\ ctl \in {"commit", "memory", "refused"} => ~memory
  /\ ctl = "stopped" /\ call = "stop" => ~memory
  /\ ctl = "stopped" => call \in {"stop", "suspend"}
  /\ ctl # "idle" => (streaming <=> call # "start") /\ call # "none"

\* A suspended stream that is to run again is frozen, and while the device is
\* there no path but the one that suspends it runs.
PowerInv ==
  /\ suspended /\ streaming => frozen
  /\ suspended /\ ctl # "idle" => streaming
  /\ suspended /\ ctl # "idle" => call = "suspend" \/ (call = "stop" /\ ~present)

PathInv == ControlTypes /\ StopInv /\ PowerInv

LEMMA PathInit == Init => PathInv
BY DEF Init, PathInv, ControlTypes, StopInv, PowerInv

LEMMA PathControl ==
  ASSUME UrbInv, PathInv, Start \/ Stop \/ Power \/ Unplug
  PROVE  PathInv'
<1> USE DEF UrbInv, Holdings, PathInv, ControlTypes, StopInv, PowerInv, Goto, Setup, StopTransfer
<1>1. CASE StartStreaming
  BY <1>1 DEF StartStreaming
<1>2. CASE Commit
  BY <1>2 DEF Commit, queue
<1>3. CASE AllocMemory
  BY <1>3 DEF AllocMemory, queue
<1>4. CASE AllocUrb
  BY <1>4 DEF AllocUrb, queue
<1>5. CASE SubmitUrb
  BY <1>5 DEF SubmitUrb, queue
<1>6. CASE StopStreaming
  BY <1>6 DEF StopStreaming, queue
<1>7. CASE PoisonUrb \/ PoisonReturns \/ FlushWork
  BY <1>7 DEF PoisonUrb, PoisonReturns, FlushWork, queue
<1>8. CASE FreeUrbs
  BY <1>8 DEF FreeUrbs, queue
<1>9. CASE StartRefused
  BY <1>9 DEF StartRefused, ReturnBuffers
<1>10. CASE ResumeRefused
  BY <1>10 DEF ResumeRefused, queue
<1>11. CASE Stopped
  BY <1>11 DEF Stopped, ReturnBuffers
<1>12. CASE Suspend
  BY <1>12 DEF Suspend, queue
<1>13. CASE Resume
  BY <1>13 DEF Resume, queue
<1>14. CASE Suspended
  BY <1>14 DEF Suspended, queue
<1>15. CASE Unplug
  BY <1>15 DEF Unplug, control, queue
<1> QED
  BY <1>1, <1>2, <1>3, <1>4, <1>5, <1>6, <1>7, <1>8, <1>9, <1>10, <1>11, <1>12, <1>13, <1>14, <1>15
     DEF Start, Stop, Power

\* While no transfer exists and no path runs, only the application acts.
LEMMA PathOther ==
  ASSUME UrbInv, PathInv,
         \/ \E b \in Buffers : QueueBuffer(b)
         \/ \E u \in Urbs : Complete(u) \/ Handler(u) \/ Work(u)
         \/ UNCHANGED vars
  PROVE  PathInv'
<1> USE DEF PathInv, ControlTypes, StopInv, PowerInv, control
<1>1. CASE \E b \in Buffers : QueueBuffer(b)
  BY <1>1 DEF QueueBuffer
<1>2. ASSUME NEW u \in Urbs, Complete(u) \/ Handler(u) \/ Work(u) PROVE PathInv'
  <2>1. UNCHANGED <<control, present>>
    <3>1. CASE Complete(u)
      BY <3>1 DEF Complete, CompleteOk, CompleteFailed, CompleteShutdown
    <3>2. CASE Handler(u)
      BY <3>2 DEF Handler, PacketDropped, PacketBad, FrameToggled, PacketData, PacketLast, HandlerReturns
    <3>3. CASE Work(u)
      BY <3>3 DEF Work, WorkCopy, WorkRelease, WorkSubmit
    <3> QED
      BY <1>2, <3>1, <3>2, <3>3
  <2>2. urb[u] # "none" \/ work[u] # "none"
    BY <1>2 DEF Complete, CompleteOk, CompleteFailed, CompleteShutdown, GiveBack,
       Handler, PacketDropped, PacketBad, FrameToggled, PacketData, PacketLast, HandlerReturns,
       Work, WorkCopy, WorkRelease, WorkSubmit, Completing
  <2>3. ~(ctl = "idle" /\ ~streaming)
    BY <2>2 DEF UrbInv, Stages, NoTransfer
  <2> QED
    BY <2>1, <2>3
<1>3. CASE UNCHANGED vars
  BY <1>3 DEF vars, queue
<1> QED
  BY <1>1, <1>2, <1>3

StreamInv == UrbInv /\ BufInv /\ CancelInv /\ PathInv

LEMMA StreamNext == ASSUME RequeuesApart PROVE StreamInv /\ [Next]_vars => StreamInv'
<1> SUFFICES ASSUME StreamInv, [Next]_vars PROVE StreamInv'
  OBVIOUS
<1>1. PathInv'
  BY PathControl, PathOther DEF StreamInv, Next
<1> QED
  BY <1>1, UrbNext, BufNext, CancelNext DEF StreamInv

LEMMA StreamInvHolds == ASSUME RequeuesApart PROVE Spec => []StreamInv
<1>1. Init => StreamInv
  BY UrbInit, BufInit, CancelInit, PathInit DEF StreamInv
<1>2. StreamInv /\ [Next]_vars => StreamInv'
  BY StreamNext
<1> QED
  BY <1>1, <1>2, PTL DEF Spec

LEMMA TypesHold == StreamInv => TypeOK
<1> SUFFICES ASSUME StreamInv PROVE TypeOK
  OBVIOUS
<1>1. ControlTypes /\ UrbTypes /\ QueueTypes /\ HandlerTypes /\ CopyTypes
  BY DEF StreamInv, PathInv, UrbInv, BufInv
<1>2. {streaming, suspended, frozen, clock, memory, present, gone} \subseteq BOOLEAN
  BY <1>1 DEF ControlTypes, QueueTypes
<1>3. DOMAIN ops = Urbs /\ \A u \in Urbs : ops[u] \in Seq(Buffers)
  BY <1>1 DEF CopyTypes
<1> QED
  BY <1>1, <1>2, <1>3 DEF TypeOK, ControlTypes, UrbTypes, QueueTypes, HandlerTypes, CopyTypes, BufferStates

LEMMA AccountsHold == BufInv => BufferAccounted /\ DoneIsFinal
<1> SUFFICES ASSUME BufInv, NEW b \in Buffers
             PROVE  /\ LET places == {i \in DOMAIN irqqueue : irqqueue[i] = b}
                       IN CASE state[b] \in {"QUEUED", "ACTIVE"} -> Cardinality(places) = 1
                            [] state[b] = "READY" -> places = {} /\ Referenced(b)
                            [] OTHER -> places = {}
                    /\ state[b] = "DONE" => ~Referenced(b)
  BY DEF BufferAccounted, DoneIsFinal
<1> DEFINE places == {i \in DOMAIN irqqueue : irqqueue[i] = b}
<1>1. BufferOK(b) /\ CopyTypes /\ irqqueue \in Seq(Buffers) /\ Injective(irqqueue)
  BY DEF BufInv, QueueTypes
<1>2. DOMAIN irqqueue = 1 .. Len(irqqueue)
  BY <1>1
<1>3. Contains(irqqueue, b) => Cardinality(places) = 1
  <2> SUFFICES ASSUME Contains(irqqueue, b) PROVE Cardinality(places) = 1
    OBVIOUS
  <2>1. PICK i \in 1 .. Len(irqqueue) : irqqueue[i] = b
    BY DEF Contains
  <2>2. places = {i}
    BY <1>1, <1>2, <2>1 DEF Injective
  <2> QED
    BY <2>2, FS_Singleton
<1>4. ~Contains(irqqueue, b) => places = {}
  BY <1>2 DEF Contains
<1>5. Referenced(b) <=> Copies(b) # 0
  BY <1>1, NoCopies
<1> HIDE DEF places
<1>6. /\ CASE state[b] \in {"QUEUED", "ACTIVE"} -> Cardinality(places) = 1
           [] state[b] = "READY" -> places = {} /\ Referenced(b)
           [] OTHER -> places = {}
      /\ state[b] = "DONE" => ~Referenced(b)
  BY <1>1, <1>3, <1>4, <1>5 DEF BufferOK
<1> QED
  BY <1>6, Zenon DEF places

\* Every video buffer is where its state says, exactly once, and the application
\* gets a frame only when the last of its copies was made: the reference counting
\* of uvc_queue_buffer_release, decode_data and next_buffers, with every handler
\* and work item interleaved.  The application may queue a cancelled buffer again
\* at once, but not one that an error of the bus cancelled in the middle of its
\* copies: there the late release does complete it too early.
THEOREM BuffersStaySound == ASSUME RequeuesApart PROVE Spec => []BuffersSound
<1>1. StreamInv => BuffersSound
  BY TypesHold, AccountsHold DEF StreamInv, BuffersSound
<1> QED
  BY StreamInvHolds, <1>1, PTL

LEMMA StoppedIsEmpty == StreamInv => StoppedHoldsNothing
<1> SUFFICES ASSUME StreamInv, ctl = "idle", ~streaming
             PROVE  /\ ~memory /\ ~clock /\ irqqueue = <<>>
                    /\ \A u \in Urbs : Null(u) /\ ~WorkPending(u)
                    /\ \A b \in Buffers : state[b] \in {"IDLE", "DONE", "ERROR"}
  BY DEF StoppedHoldsNothing
<1>1. ~memory /\ ~clock /\ irqqueue = <<>>
  BY DEF StreamInv, PathInv, StopInv
<1>2. \A u \in Urbs : urb[u] = "none" /\ work[u] = "none"
  BY DEF StreamInv, UrbInv, Stages, NoTransfer
<1>3. ASSUME NEW b \in Buffers PROVE state[b] \in {"IDLE", "DONE", "ERROR"}
  <2>1. \A u \in Urbs : turn[u] > Len(ops[u])
    BY <1>2 DEF StreamInv, BufInv, HandlerInv, Completing, Copying
  <2>2. ~Referenced(b)
    BY <2>1 DEF Referenced, StreamInv, BufInv, CopyTypes
  <2>3. Copies(b) = 0
    BY <2>2, NoCopies DEF StreamInv, BufInv
  <2>4. ~Contains(irqqueue, b)
    BY <1>1 DEF Contains
  <2> QED
    BY <2>3, <2>4 DEF StreamInv, BufInv, BufferOK, QueueTypes, BufferStates
<1> QED
  BY <1>1, <1>2, <1>3 DEF Null, WorkPending

\* When a stream is stopped, however it came to stop, the driver is left with no
\* URB, no memory, no clock, no work and no buffer of the application.
THEOREM NothingIsLeftBehind == ASSUME RequeuesApart PROVE Spec => []StoppedHoldsNothing
BY StreamInvHolds, StoppedIsEmpty, PTL

LEMMA QueueKept ==
  ASSUME StreamInv, [Next]_vars, suspended, suspended', present', NEW b \in Buffers,
         Contains(irqqueue, b), ~Contains(irqqueue', b)
  PROVE  b = cur
<1> USE DEF StreamInv
<1>1. CASE Start
  BY <1>1 DEF Start, StartStreaming, Commit, AllocMemory, AllocUrb, SubmitUrb, queue
<1>2. CASE Stop
  <2>1. ~StartRefused /\ ~Stopped
    BY DEF StartRefused, Stopped, PathInv, PowerInv
  <2> QED
    BY <1>2, <2>1 DEF Stop, StopStreaming, PoisonUrb, PoisonReturns, FlushWork, FreeUrbs,
       ResumeRefused, queue
<1>3. CASE Power \/ Unplug \/ UNCHANGED vars
  BY <1>3 DEF Power, Suspend, Resume, Suspended, Unplug, vars, queue
<1>4. ~\E x \in Buffers : QueueBuffer(x)
  BY DEF QueueBuffer
<1>5. ASSUME NEW u \in Urbs, Complete(u) PROVE FALSE
  <2>1. urb[u] = "submitted" /\ present' = present
    BY <1>5 DEF Complete, CompleteOk, CompleteFailed, CompleteShutdown, GiveBack
  <2>2. ctl # "idle"
    BY <2>1 DEF UrbInv, Stages, NoTransfer
  <2>3. frozen
    BY <2>2 DEF PathInv, PowerInv
  <2> QED
    BY <1>5, <2>1, <2>3 DEF Complete, CompleteOk, CompleteFailed, CompleteShutdown, queue
<1>6. ASSUME NEW u \in Urbs, Handler(u) PROVE b = cur
  BY <1>6, BufHandler DEF OnlyLeaves
<1>7. ASSUME NEW u \in Urbs, Work(u) PROVE FALSE
  <2>1. b # NoBuffer
    BY BuffersAssumption
  <2> QED
    BY <1>7, <2>1, BufWork DEF OnlyLeaves
<1> QED
  BY <1>1, <1>2, <1>3, <1>4, <1>5, <1>6, <1>7 DEF Next

\* A suspend takes no buffer from the application: with the device there, only a
\* completed frame leaves the queue, because a frozen stream is not cancelled
\* (uvc_video_complete) and no other path runs meanwhile.
THEOREM SuspendDropsNoBuffer == ASSUME RequeuesApart PROVE Spec => SuspendKeepsQueue
<1>1. StreamInv /\ [Next]_vars =>
        [suspended /\ suspended' /\ present' =>
           \A b \in Buffers :
             Contains(irqqueue, b) /\ ~Contains(irqqueue', b) => b = cur]_vars
  BY QueueKept
<1> QED
  BY <1>1, StreamInvHolds, PTL DEF Spec, SuspendKeepsQueue

LEMMA UrbKept ==
  ASSUME "submit" \notin Faults, UrbInv, [Next]_vars, NEW u \in Urbs, Circulates(u), ~Circulates(u)'
  PROVE  urb[u] = "submitted" \/ poisoned[u] \/ ~present
<1> USE DEF UrbInv, UrbTypes, Circulates, WorkPending, Completing
<1>1. CASE Start
  <2>1. CASE StartStreaming \/ Commit \/ AllocMemory
    BY <2>1 DEF StartStreaming, Commit, AllocMemory, transfer, copying
  <2>2. CASE AllocUrb
    BY <2>2 DEF AllocUrb, Stages, copying
  <2>3. CASE SubmitUrb
    BY <2>3, SubmitEffect DEF SubmitUrb, Stages, copying, Urbs
  <2> QED
    BY <1>1, <2>1, <2>2, <2>3 DEF Start
<1>2. CASE Stop
  <2>1. ~FreeUrbs
    BY DEF FreeUrbs, Stages, Stilled
  <2> QED
    BY <1>2, <2>1 DEF Stop, StopStreaming, PoisonUrb, PoisonReturns, FlushWork, StartRefused,
       ResumeRefused, Stopped, transfer, copying
<1>3. CASE Power \/ Unplug \/ UNCHANGED vars
  BY <1>3 DEF Power, Suspend, Resume, Suspended, Unplug, vars, transfer, copying
<1>4. ~\E b \in Buffers : QueueBuffer(b)
  BY DEF QueueBuffer, transfer, copying
<1>5. ASSUME NEW v \in Urbs, Complete(v) PROVE urb[u] = "submitted"
  BY <1>5 DEF Complete, CompleteOk, CompleteFailed, CompleteShutdown, GiveBack, copying
<1>6. ASSUME NEW v \in Urbs, Handler(v) PROVE poisoned[u] \/ ~present
  <2>1. HandlerReturns(v)
    BY <1>6 DEF Handler, PacketDropped, PacketBad, FrameToggled, PacketData, PacketLast, copying
  <2>2. CASE ops[v] = <<>>
    <3>1. Submit(v) /\ UNCHANGED work
      BY <2>1, <2>2 DEF HandlerReturns
    <3>2. v = u
      BY <3>1, SubmitEffect
    <3> QED
      BY <3>1, <3>2 DEF Submit
  <2>3. CASE ops[v] # <<>>
    BY <2>1, <2>3 DEF HandlerReturns
  <2> QED
    BY <2>2, <2>3
<1>7. ASSUME NEW v \in Urbs, Work(v) PROVE poisoned[u] \/ ~present
  <2>1. WorkSubmit(v)
    BY <1>7 DEF Work, WorkCopy, WorkRelease, transfer
  <2>2. Submit(v) /\ work' = [work EXCEPT ![v] = "none"]
    BY <2>1 DEF WorkSubmit
  <2>3. v = u
    BY <2>2, SubmitEffect
  <2> QED
    BY <2>2, <2>3 DEF Submit
<1> QED
  BY <1>1, <1>2, <1>3, <1>4, <1>5, <1>6, <1>7 DEF Next

\* No URB is forgotten: as long as the host controller refuses no submission, one
\* stops circulating only because it failed, because it is poisoned, or because
\* the device is gone; the completion handler and the work item never both leave
\* its submission to the other.
THEOREM UrbsAreNotLost ==
  ASSUME "submit" \notin Faults
  PROVE  Spec => EveryUrbCirculates
<1>1. UrbInv /\ [Next]_vars =>
        [\A u \in Urbs : Circulates(u) /\ ~Circulates(u)' =>
           urb[u] = "submitted" \/ poisoned[u] \/ ~present]_vars
  BY UrbKept
<1> QED
  BY <1>1, UrbInvHolds, PTL DEF Spec, EveryUrbCirculates
-----------------------------------------------------------------------------
(* UvcClock: division and remainders *)

LEMMA DivMod ==
  ASSUME NEW a \in Int, NEW p \in Nat \ {0}
  PROVE  a % p \in 0 .. p - 1 /\ a \div p \in Int /\ a = p * (a \div p) + (a % p)
<1>1. a % p \in 0 .. p - 1
  OBVIOUS
<1>2. a \div p \in Int
  OBVIOUS
<1>3. a = p * (a \div p) + (a % p)
  OBVIOUS
<1> QED BY <1>1, <1>2, <1>3

\* The only multiple of p between -p and p is 0.
LEMMA SmallMultiple ==
  ASSUME NEW p \in Nat \ {0}, NEW q \in Int, NEW r \in Int, p * q = r, -p < r, r < p
  PROVE  q = 0
<1>1. CASE q >= 1
  <2>1. p * q >= p
    BY <1>1
  <2> QED BY <2>1
<1>2. CASE q <= -1
  <2>1. p * q <= -p
    BY <1>2
  <2> QED BY <2>1
<1> QED BY <1>1, <1>2

LEMMA ModIs ==
  ASSUME NEW p \in Nat \ {0}, NEW q \in Int, NEW r \in 0 .. p - 1
  PROVE  (p * q + r) % p = r
<1> DEFINE x == p * q + r
           k == q - (x \div p)
<1>1. x \in Int
  OBVIOUS
<1>2. x % p \in 0 .. p - 1 /\ x \div p \in Int /\ x = p * (x \div p) + (x % p)
  BY <1>1, DivMod
<1>3. k \in Int /\ p * k = (x % p) - r
  BY <1>2
<1>4. (x % p) - r \in Int /\ -p < (x % p) - r /\ (x % p) - r < p
  BY <1>2
<1>5. k = 0
  <2> HIDE DEF k
  <2> QED BY <1>3, <1>4, SmallMultiple
<1> QED BY <1>2, <1>5

\* Around a ring.
LEMMA RingMod ==
  ASSUME NEW p \in Nat \ {0}, NEW a \in -p .. 2 * p - 1
  PROVE  a % p = IF a < 0 THEN a + p ELSE IF a < p THEN a ELSE a - p
OBVIOUS

LEMMA RingStep ==
  ASSUME NEW p \in Nat \ {0}, NEW a \in 0 .. p - 1
  PROVE  (a + 1) % p = IF a + 1 < p THEN a + 1 ELSE 0
<1> DEFINE b == a + 1
<1>1. b \in -p .. 2 * p - 1 /\ 0 < b /\ b <= p
  OBVIOUS
<1> HIDE DEF b
<1>2. b % p = IF b < 0 THEN b + p ELSE IF b < p THEN b ELSE b - p
  BY <1>1, RingMod
<1>3. b % p = IF b < p THEN b ELSE 0
  BY <1>1, <1>2
<1> QED BY <1>3 DEF b

\* The difference of two counters is that of what they count.
LEMMA ModDifference ==
  ASSUME NEW p \in Nat \ {0}, NEW a \in Int, NEW b \in Int
  PROVE  ((a % p) - (b % p)) % p = (a - b) % p
<1> DEFINE d == a - b
           k == (d \div p) - (a \div p) + (b \div p)
<1>1. /\ a \div p \in Int /\ a = p * (a \div p) + (a % p) /\ a % p \in Int
      /\ b \div p \in Int /\ b = p * (b \div p) + (b % p) /\ b % p \in Int
      /\ d \div p \in Int /\ d = p * (d \div p) + (d % p) /\ d % p \in 0 .. p - 1
  <2>1. d \in Int
    OBVIOUS
  <2> HIDE DEF d
  <2> QED BY <2>1, DivMod
<1>2. k \in Int /\ (a % p) - (b % p) = p * k + (d % p)
  BY <1>1
<1> QED BY <1>1, <1>2, ModIs

\* A counter that is brought into its period on the way ends where it would anyway.
LEMMA ModTwice ==
  ASSUME NEW p \in Nat \ {0}, NEW a \in Int, NEW b \in Int
  PROVE  ((a % p) + b) % p = (a + b) % p
<1> DEFINE d == a + b
           k == (d \div p) - (a \div p)
<1>1. /\ a \div p \in Int /\ a = p * (a \div p) + (a % p) /\ a % p \in Int
      /\ d \div p \in Int /\ d = p * (d \div p) + (d % p) /\ d % p \in 0 .. p - 1
  <2>1. d \in Int
    OBVIOUS
  <2> HIDE DEF d
  <2> QED BY <2>1, DivMod
<1>2. k \in Int /\ (a % p) + b = p * k + (d % p)
  BY <1>1
<1> QED BY <1>1, <1>2, ModIs

\* A remainder is no more than what it is of.
LEMMA ModAtMost ==
  ASSUME NEW p \in Nat \ {0}, NEW a \in Nat
  PROVE  a % p <= a
<1>1. a % p \in 0 .. p - 1 /\ a \div p \in Int /\ a = p * (a \div p) + (a % p)
  BY DivMod
<1>2. CASE a \div p >= 0
  <2>1. p * (a \div p) >= 0
    BY <1>1, <1>2
  <2> QED BY <1>1, <2>1
<1>3. CASE a \div p <= -1
  <2>1. p * (a \div p) <= -p
    BY <1>1, <1>3
  <2> QED BY <1>1, <2>1
<1> QED BY <1>1, <1>2, <1>3

-----------------------------------------------------------------------------
(* The ring *)

\* The slot of the sample that was taken j samples ago, the last one with j = 1.
Back(j) == IF j <= head THEN head - j ELSE head - j + Size

Ring == Size \in Nat \ {0} /\ head \in 0 .. Size - 1 /\ count \in 0 .. Size

LEMMA BackIs ==
  ASSUME Ring
  PROVE  /\ \A j \in 0 .. Size : Back(j) \in 0 .. Size - 1 /\ (head - j) % Size = Back(j)
         /\ \A i, j \in 1 .. Size : Back(i) = Back(j) => i = j
         /\ \A j \in 1 .. Size : Back(j) = head <=> j = Size
         /\ \A i \in 1 .. count : Slot(i) = Back(count - i + 1)
<1> USE DEF Ring
<1>1. ASSUME NEW j \in 0 .. Size
      PROVE  Back(j) \in 0 .. Size - 1 /\ (head - j) % Size = Back(j)
  <2>1. head - j \in -Size .. 2 * Size - 1
    OBVIOUS
  <2>2. (head - j) % Size = IF head - j < 0 THEN head - j + Size
                            ELSE IF head - j < Size THEN head - j ELSE head - j - Size
    BY <2>1, RingMod
  <2> QED BY <2>2 DEF Back
<1>2. \A i, j \in 1 .. Size : Back(i) = Back(j) => i = j
  BY DEF Back
<1>3. \A j \in 1 .. Size : Back(j) = head <=> j = Size
  BY DEF Back
<1>4. ASSUME NEW i \in 1 .. count PROVE Slot(i) = Back(count - i + 1)
  <2>1. count - i + 1 \in 0 .. Size /\ head - count + i - 1 = head - (count - i + 1)
    OBVIOUS
  <2> QED BY <1>1, <2>1 DEF Slot
<1> QED BY <1>1, <1>2, <1>3, <1>4

-----------------------------------------------------------------------------
(* The inductive invariant *)

\* A sample was taken of a packet that the device sent at t, and handled d later.
TakenAt(s, t, d) ==
  /\ s.host_time = t + d
  /\ "hostSof" \notin Flaws => s.dev_sof = (t + offset + sof_offset) % SofPeriod

LastTaken ==
  /\ samples[Back(1)].dev_sof = last_sof /\ sof_offset # None
  /\ \E t \in 0 .. now, d \in Delays : TakenAt(samples[Back(1)], t, d)

\* The samples of the window in the order they were taken, the last of them first: the
\* SOF goes down only at last_sof_overflow, which is a sample of the window or the one
\* that is about to be overwritten.
RingInv ==
  /\ \A j \in 2 .. count : samples[Back(j)].host_time < samples[Back(j - 1)].host_time
  /\ \A j \in 1 .. count : ~samples[Back(j)].zero
  /\ \A j \in 2 .. count : samples[Back(j - 1)].dev_sof < samples[Back(j)].dev_sof
                             => Back(j - 1) = last_sof_overflow
  /\ last_sof_overflow # None => last_sof_overflow = head
                                 \/ \E j \in 1 .. count : last_sof_overflow = Back(j)
  /\ count > 0 => LastTaken

ClockInv == ClockTypeOK /\ RingInv

-----------------------------------------------------------------------------
(* uvc_video_clock_add_sample *)

\* The slot of the last SOF overflow, as long as it is not the one overwritten now.
Overflow == IF head = last_sof_overflow THEN None ELSE last_sof_overflow

LEMMA OverflowInWindow ==
  ASSUME ClockInv, Overflow # None
  PROVE  \E j \in 1 .. count : j < Size /\ Overflow = Back(j) /\ (head - Overflow) % Size = j
<1> USE PeriodsAssumption DEF ClockInv
<1>1. Ring
  BY DEF Ring, ClockTypeOK
<1>2. PICK j \in 1 .. count : Overflow = Back(j)
  BY DEF Overflow, RingInv
<1>3. j \in 1 .. Size /\ j < Size
  BY <1>1, <1>2, BackIs DEF Overflow, Ring
<1>4. head - Overflow \in -Size .. 2 * Size - 1 /\ head - Overflow \in {j, j - Size}
  BY <1>1, <1>2, <1>3 DEF Back, Ring
<1>5. (head - Overflow) % Size = j
  <2> DEFINE a == head - Overflow
  <2>1. a % Size = IF a < 0 THEN a + Size ELSE IF a < Size THEN a ELSE a - Size
    <3>1. a \in -Size .. 2 * Size - 1
      BY <1>4
    <3> HIDE DEF a
    <3> QED BY <1>1, <3>1, RingMod DEF Ring
  <2>2. a \in {j, j - Size} /\ j \in Nat /\ Size \in Nat /\ 0 < j /\ j < Size
    BY <1>1, <1>3, <1>4 DEF Ring
  <2> HIDE DEF a
  <2>3. a % Size = j
    BY <2>1, <2>2
  <2> QED BY <2>3 DEF a
<1> QED BY <1>2, <1>3, <1>5

\* What is left of the window, and what of it before the overflow is dropped.
LEMMA Left ==
  ASSUME ClockInv, NEW sof \in Nat
  PROVE  /\ CountLeft(sof, Overflow) \in 0 .. count
         /\ count > 0 => CountLeft(sof, Overflow) > 0
         /\ count > 0 /\ last_sof > sof /\ Overflow # None
              => Back(CountLeft(sof, Overflow)) = Overflow
         /\ ~(count > 0 /\ last_sof > sof /\ Overflow # None)
              => CountLeft(sof, Overflow) = count
<1> USE DEF ClockInv
<1>1. count \in Nat
  BY PeriodsAssumption DEF ClockTypeOK
<1>2. CASE count > 0 /\ last_sof > sof /\ Overflow # None
  <2>1. PICK j \in 1 .. count : Overflow = Back(j) /\ (head - Overflow) % Size = j
    BY <1>2, OverflowInWindow
  <2>2. CountLeft(sof, Overflow) = j
    BY <1>2, <2>1 DEF CountLeft
  <2> QED BY <1>1, <1>2, <2>1, <2>2
<1>3. CASE ~(count > 0 /\ last_sof > sof /\ Overflow # None)
  <2>1. CountLeft(sof, Overflow) = count
    BY <1>3 DEF CountLeft
  <2> QED BY <1>1, <1>3, <2>1
<1> QED BY <1>2, <1>3

\* The new sample is the last one of the ring, and the others are one further back.
LEMMA RingTurns ==
  ASSUME ClockInv, NEW sample, AddSample(sample)
  PROVE  /\ head' \in 0 .. Size - 1
         /\ Back(1)' = head /\ samples'[Back(1)'] = sample
         /\ \A j \in 2 .. Size : /\ Back(j)' = Back(j - 1)
                                 /\ samples'[Back(j)'] = samples[Back(j - 1)]
<1> USE PeriodsAssumption DEF ClockInv
<1>1. Ring
  BY DEF Ring, ClockTypeOK
<1>2. head' = IF head + 1 < Size THEN head + 1 ELSE 0
  <2>1. (head + 1) % Size = IF head + 1 < Size THEN head + 1 ELSE 0
    BY <1>1, RingStep DEF Ring
  <2> QED BY <2>1 DEF AddSample
<1>3. head' \in 0 .. Size - 1 /\ Back(1)' = head
  BY <1>1, <1>2 DEF Ring, Back
<1>4. samples' = [samples EXCEPT ![head] = sample] /\ DOMAIN samples = 0 .. Size - 1
  BY DEF AddSample, ClockTypeOK
<1>5. samples'[head] = sample
  BY <1>1, <1>4 DEF Ring
<1>6. ASSUME NEW j \in 2 .. Size
      PROVE  Back(j)' = Back(j - 1) /\ samples'[Back(j)'] = samples[Back(j - 1)]
  <2>1. Back(j)' = Back(j - 1)
    BY <1>1, <1>2 DEF Ring, Back
  <2>2. j - 1 \in 1 .. Size /\ j - 1 # Size
    BY <1>1 DEF Ring
  <2>3. Back(j - 1) # head /\ Back(j - 1) \in 0 .. Size - 1
    BY <1>1, <2>2, BackIs DEF Ring
  <2> QED BY <1>4, <2>1, <2>3
<1> QED BY <1>3, <1>5, <1>6

LEMMA AddSampleKeeps ==
  ASSUME ClockInv, NEW sample \in SampleType, AddSample(sample), ~sample.zero,
         count > 0 => samples[Back(1)].host_time < sample.host_time,
         sof_offset' # None, \E t \in 0 .. now', d \in Delays : TakenAt(sample, t, d)'
  PROVE  RingInv' /\ count' \in 0 .. Size
<1> USE PeriodsAssumption DEF ClockInv
<1> DEFINE D == CountLeft(sample.dev_sof, Overflow)
           drops == count > 0 /\ last_sof > sample.dev_sof
<1>1. Ring /\ sample.dev_sof \in Nat /\ sample.host_time \in Nat /\ last_sof \in Int
  BY DEF Ring, ClockTypeOK, SampleType
<1>2. /\ D \in 0 .. count
      /\ count > 0 => D > 0
      /\ drops /\ Overflow # None => Back(D) = Overflow
      /\ ~(drops /\ Overflow # None) => D = count
  BY <1>1, Left
<1>3. /\ count' = IF D + 1 < Size THEN D + 1 ELSE Size
      /\ last_sof' = sample.dev_sof
      /\ last_sof_overflow' = IF drops THEN head ELSE Overflow
  BY DEF AddSample, Smaller, Overflow
<1> HIDE DEF D
<1>4. count' \in 1 .. Size /\ \A j \in 2 .. count' : j - 1 \in 1 .. D /\ j - 1 < Size /\ j \in 2 .. Size
  BY <1>1, <1>2, <1>3 DEF Ring
<1>5. /\ Back(1)' = head /\ samples'[Back(1)'] = sample
      /\ \A j \in 2 .. count' : Back(j)' = Back(j - 1) /\ samples'[Back(j)'] = samples[Back(j - 1)]
  BY <1>4, RingTurns
<1>6. \A j \in 2 .. count' : samples'[Back(j)'].host_time < samples'[Back(j - 1)'].host_time
  <2> TAKE j \in 2 .. count'
  <2>1. j - 1 \in 1 .. count
    BY <1>1, <1>2, <1>4 DEF Ring
  <2>2. CASE j = 2
    <3>1. Back(j - 1)' = head /\ samples'[Back(j - 1)'] = sample
      BY <1>5, <2>2
    <3>2. samples'[Back(j)'] = samples[Back(1)]
      BY <1>5, <2>2
    <3>3. count > 0
      BY <1>1, <2>1, <2>2 DEF Ring
    <3> QED BY <3>1, <3>2, <3>3
  <2>3. CASE j # 2
    <3>1. j - 1 \in 2 .. count' /\ j - 1 \in 2 .. count
      BY <1>1, <1>4, <2>1, <2>3 DEF Ring
    <3>2. samples'[Back(j - 1)'] = samples[Back((j - 1) - 1)] /\ samples'[Back(j)'] = samples[Back(j - 1)]
      BY <1>5, <3>1
    <3> QED BY <3>1, <3>2 DEF RingInv
  <2> QED BY <2>2, <2>3
<1>7. \A j \in 1 .. count' : ~samples'[Back(j)'].zero
  <2> TAKE j \in 1 .. count'
  <2>1. CASE j = 1
    BY <1>5, <2>1
  <2>2. CASE j # 1
    <3>1. j \in 2 .. count' /\ j - 1 \in 1 .. count
      BY <1>1, <1>2, <1>4, <2>2 DEF Ring
    <3> QED BY <1>5, <3>1 DEF RingInv
  <2> QED BY <2>1, <2>2
<1>8. \A j \in 2 .. count' : samples'[Back(j - 1)'].dev_sof < samples'[Back(j)'].dev_sof
                               => Back(j - 1)' = last_sof_overflow'
  <2> SUFFICES ASSUME NEW j \in 2 .. count',
                      samples'[Back(j - 1)'].dev_sof < samples'[Back(j)'].dev_sof
               PROVE  Back(j - 1)' = last_sof_overflow'
    OBVIOUS
  <2>1. j - 1 \in 1 .. count
    BY <1>1, <1>2, <1>4 DEF Ring
  <2>2. CASE j = 2
    <3>1. Back(j - 1)' = head /\ samples'[Back(j - 1)'] = sample
      BY <1>5, <2>2
    <3>2. samples'[Back(j)'] = samples[Back(1)]
      BY <1>5, <2>2
    <3>3. count > 0
      BY <1>1, <2>1, <2>2 DEF Ring
    <3>4. drops
      BY <1>1, <3>1, <3>2, <3>3 DEF RingInv, LastTaken
    <3> QED BY <1>3, <3>1, <3>4
  <2>3. CASE j # 2
    <3>1. j - 1 \in 2 .. count' /\ j - 1 \in 2 .. count /\ j - 2 \in 1 .. Size /\ j - 2 # Size
          /\ (j - 1) - 1 = j - 2
      BY <1>1, <1>4, <2>1, <2>3 DEF Ring
    <3>2. /\ Back(j - 1)' = Back(j - 2) /\ samples'[Back(j - 1)'] = samples[Back(j - 2)]
          /\ samples'[Back(j)'] = samples[Back(j - 1)]
      BY <1>5, <3>1
    <3>3. Back(j - 2) = last_sof_overflow
      BY <3>1, <3>2 DEF RingInv
    <3>4. Back(j - 2) # head
      BY <1>1, <3>1, BackIs
    <3>5. Overflow = Back(j - 2) /\ Overflow # None
      <4>1. Back(j - 2) \in 0 .. Size - 1
        BY <1>1, <3>1, BackIs
      <4> QED BY <3>3, <3>4, <4>1 DEF Overflow, None
    <3>6. ~drops
      <4> SUFFICES ASSUME drops PROVE FALSE
        OBVIOUS
      <4>1. Back(D) = Back(j - 2)
        BY <1>2, <3>5
      <4>2. D \in 1 .. Size /\ j - 2 < D
        BY <1>1, <1>2, <1>4, <3>1 DEF Ring
      <4>3. D = j - 2
        BY <1>1, <3>1, <4>1, <4>2, BackIs
      <4> QED BY <4>2, <4>3
    <3> QED BY <1>3, <3>2, <3>5, <3>6
  <2> QED BY <2>2, <2>3
<1>9. last_sof_overflow' # None => last_sof_overflow' = head'
                                   \/ \E j \in 1 .. count' : last_sof_overflow' = Back(j)'
  <2>1. CASE drops
    BY <1>1, <1>3, <1>4, <1>5, <2>1 DEF Ring
  <2>2. CASE ~drops /\ Overflow # None
    <3>1. PICK j \in 1 .. count : j < Size /\ Overflow = Back(j)
      BY <2>2, OverflowInWindow
    <3>2. D = count
      BY <1>2, <2>2
    <3> HIDE DEF drops
    <3>3. j + 1 \in 2 .. count' /\ (j + 1) - 1 = j
      <4>1. count' = IF count + 1 < Size THEN count + 1 ELSE Size
        BY <1>3, <3>2
      <4>2. Size \in Nat /\ count \in Nat /\ j \in Nat /\ 1 <= j /\ j <= count /\ j < Size
        BY <1>1, <3>1 DEF Ring
      <4>3. count' \in Nat /\ j + 1 <= count'
        BY <4>1, <4>2
      <4> QED BY <4>2, <4>3
    <3>4. Back(j + 1)' = Overflow /\ j + 1 \in 1 .. count'
      BY <1>5, <3>1, <3>3
    <3> QED BY <1>3, <2>2, <3>4
  <2>3. CASE ~drops /\ Overflow = None
    BY <1>3, <2>3
  <2> QED BY <2>1, <2>2, <2>3
<1>10. LastTaken'
  BY <1>3, <1>5 DEF TakenAt, LastTaken
<1> QED BY <1>1, <1>4, <1>6, <1>7, <1>8, <1>9, <1>10 DEF RingInv, Ring

-----------------------------------------------------------------------------
(* uvc_video_clock_decode *)

\* The buffer of a packet without data is looked at, or its SCR is not zero.
NoBlindZeros == ~({"zeroScr", "noBuffer"} \subseteq Flaws)

\* The handlers' delays do not turn the order of two samples round: they differ by no
\* more than the SOFs of two samples do at least, or by less than the packets are apart.
DelaysKeepOrder ==
  \/ "hostSof" \notin Flaws /\ \A d, e \in Delays : d - e <= MinDiff \div Size
  \/ \A g \in Gaps, d, e \in Delays : d < g + e

\* A sample as it is read: a host may count farther than SofPeriod.
RawType == [dev_stc : 0 .. StcPeriod - 1, dev_sof : Nat, host_sof : Nat, host_time : Nat,
            zero : BOOLEAN]

LEMMA SampleRead ==
  ASSUME ClockTypeOK, NEW t \in Nat, NEW d \in Delays, NEW stc \in 0 .. StcPeriod - 1,
         NEW sof \in Nat, NEW zero \in BOOLEAN
  PROVE  /\ Sample(t, d, stc, sof, zero) \in RawType
         /\ Sample(t, d, stc, sof, zero).host_time = t + d
         /\ Sample(t, d, stc, sof, zero).zero = zero
         /\ "hostSof" \notin Flaws => Sample(t, d, stc, sof, zero).dev_sof = sof
<1> DEFINE h == (t + d) % host
<1>1. t + d \in Nat /\ host \in Nat \ {0}
  <2>1. d \in Nat
    BY InstanceAssumption
  <2>2. host \in Hosts
    BY DEF ClockTypeOK
  <2>3. host \in Nat \ {0}
    BY <2>2, PeriodsAssumption
  <2> QED BY <2>1, <2>3
<1>2. h \in Nat
  <2> DEFINE x == t + d
  <2>1. x \in Int
    BY <1>1
  <2> HIDE DEF x
  <2>2. x % host \in 0 .. host - 1
    BY <1>1, <2>1, DivMod
  <2> QED BY <1>1, <2>2 DEF x
<1>3. Sample(t, d, stc, sof, zero) =
        [dev_stc |-> stc, dev_sof |-> IF "hostSof" \in Flaws THEN h ELSE sof,
         host_sof |-> h, host_time |-> t + d, zero |-> zero]
  BY DEF Sample
<1> HIDE DEF h
<1> QED BY <1>1, <1>2, <1>3 DEF RawType

LEMMA OffsetTyped ==
  ASSUME ClockTypeOK, NEW raw \in RawType
  PROVE  /\ Offset(raw) \in 0 .. LowPeriod - 1
         /\ sof_offset # None => Offset(raw) = sof_offset
<1> DEFINE a == raw.host_sof - raw.dev_sof
<1>1. a \in Int /\ LowPeriod \in Nat \ {0}
  BY PeriodsAssumption DEF RawType
<1>2. a % LowPeriod \in 0 .. LowPeriod - 1
  <2> HIDE DEF a
  <2> QED BY <1>1, DivMod
<1>3. 0 \in 0 .. LowPeriod - 1
  BY <1>1
<1> QED BY <1>2, <1>3 DEF Offset, ClockTypeOK

\* A sample with its SOF brought close to that of the host.
Adjusted(raw) == [raw EXCEPT !.dev_sof = (@ + Offset(raw)) % SofPeriod]

LEMMA AdjustedTyped ==
  ASSUME ClockTypeOK, NEW raw \in RawType
  PROVE  /\ Adjusted(raw) \in SampleType
         /\ Adjusted(raw).dev_sof = (raw.dev_sof + Offset(raw)) % SofPeriod
         /\ Adjusted(raw).host_time = raw.host_time
         /\ Adjusted(raw).zero = raw.zero
<1> DEFINE a == raw.dev_sof + Offset(raw)
           m == a % SofPeriod
<1>1. a \in Int /\ SofPeriod \in Nat \ {0}
  BY OffsetTyped, PeriodsAssumption DEF RawType
<1>2. m \in 0 .. SofPeriod - 1
  <2> HIDE DEF a
  <2> QED BY <1>1, DivMod
<1>3. Adjusted(raw) = [raw EXCEPT !.dev_sof = m]
  BY DEF Adjusted
<1> HIDE DEF m
<1>4. /\ Adjusted(raw) \in SampleType /\ Adjusted(raw).dev_sof = m
      /\ Adjusted(raw).host_time = raw.host_time /\ Adjusted(raw).zero = raw.zero
  BY <1>2, <1>3 DEF SampleType, RawType
<1> QED BY <1>4 DEF m

\* A sample that is taken was handled after the one before.
LEMMA TakenLater ==
  ASSUME ClockInv, DelaysKeepOrder, NEW g \in Gaps, NEW e \in Delays,
         NEW u \in Nat, u = now + g, NEW s, s.host_time = u + e,
         "hostSof" \notin Flaws => s.dev_sof = (u + offset + sof_offset) % SofPeriod,
         sof_diff(s.dev_sof, last_sof) > MinDiff \div Size, count > 0
  PROVE  samples[Back(1)].host_time < s.host_time
<1> USE DEF ClockInv
<1>1. PICK t \in 0 .. now, d \in Delays : TakenAt(samples[Back(1)], t, d)
  BY DEF RingInv, LastTaken
<1>2. samples[Back(1)].host_time = t + d
  BY <1>1 DEF TakenAt
<1>3. {g, d, e, t, now, u} \subseteq Nat /\ t <= now
  <2>1. now \in Nat
    BY DEF ClockTypeOK
  <2>2. g \in Nat /\ d \in Nat /\ e \in Nat
    BY InstanceAssumption
  <2> QED BY <2>1, <2>2
<1>4. CASE \A h \in Gaps, x, y \in Delays : x < h + y
  <2>1. d < g + e
    BY <1>4
  <2> QED BY <1>2, <1>3, <2>1
<1>5. CASE "hostSof" \notin Flaws /\ \A x, y \in Delays : x - y <= MinDiff \div Size
  <2> DEFINE o == offset + sof_offset
             a == u + o
             b == t + o
             n == u - t
             K == MinDiff \div Size
  <2>1. o \in Int
    <3>1. offset \in Nat
      BY InstanceAssumption DEF ClockTypeOK
    <3>2. sof_offset \in Int
      BY PeriodsAssumption DEF ClockTypeOK, None
    <3> QED BY <3>1, <3>2
  <2>2. K \in Int /\ SofPeriod \in Nat \ {0}
    BY InstanceAssumption, PeriodsAssumption
  <2>3. s.dev_sof = a % SofPeriod /\ last_sof = b % SofPeriod
    <3>1. s.dev_sof = (u + offset + sof_offset) % SofPeriod
      BY <1>5
    <3>2. last_sof = (t + offset + sof_offset) % SofPeriod
      BY <1>1, <1>5 DEF TakenAt, RingInv, LastTaken
    <3>3. u + offset + sof_offset = a /\ t + offset + sof_offset = b
      <4>1. offset \in Nat
        BY InstanceAssumption DEF ClockTypeOK
      <4>2. sof_offset \in Int
        BY PeriodsAssumption DEF ClockTypeOK, None
      <4> QED BY <1>3, <4>1, <4>2
    <3> HIDE DEF a, b
    <3> QED BY <3>1, <3>2, <3>3
  <2> HIDE DEF o
  <2>4. a \in Int /\ b \in Int /\ a - b = n /\ n \in Nat
    BY <1>2, <1>3, <2>1
  <2> HIDE DEF a, b, K
  <2>5. sof_diff(s.dev_sof, last_sof) = n % SofPeriod
    <3> HIDE DEF n
    <3>1. ((a % SofPeriod) - (b % SofPeriod)) % SofPeriod = (a - b) % SofPeriod
      BY <2>2, <2>4, ModDifference
    <3>2. sof_diff(s.dev_sof, last_sof) = ((a % SofPeriod) - (b % SofPeriod)) % SofPeriod
      BY <2>3 DEF sof_diff
    <3> QED BY <2>4, <3>1, <3>2
  <2> HIDE DEF n
  <2>6. n % SofPeriod <= n
    BY <2>2, <2>4, ModAtMost
  <2>7. n % SofPeriod \in Int
    <3>1. n % SofPeriod \in 0 .. SofPeriod - 1
      BY <2>2, <2>4, DivMod
    <3> QED BY <2>2, <3>1
  <2>8. n % SofPeriod > K
    BY <2>5 DEF K
  <2>9. d - e <= K
    BY <1>5 DEF K
  <2>10. n > K
    BY <2>2, <2>4, <2>6, <2>7, <2>8
  <2>11. u - t > d - e
    BY <1>3, <2>2, <2>9, <2>10 DEF n
  <2> QED BY <1>2, <1>3, <2>11
<1> QED BY <1>4, <1>5 DEF DelaysKeepOrder

LEMMA TypeAddSample ==
  ASSUME ClockInv, NEW sample \in SampleType, AddSample(sample)
  PROVE  /\ samples' \in [0 .. Size - 1 -> SampleType] /\ head' \in 0 .. Size - 1
         /\ last_sof' \in 0 .. SofPeriod - 1
         /\ last_sof_overflow' \in (0 .. Size - 1) \cup {None}
<1> USE DEF ClockInv
<1>1. head' \in 0 .. Size - 1
  BY RingTurns
<1> QED BY <1>1 DEF AddSample, ClockTypeOK, SampleType

LEMMA DecodeStep ==
  ASSUME ClockInv, DelaysKeepOrder, Decode
  PROVE  ClockInv'
<1> USE DEF ClockInv
<1>1. PICK g \in Gaps, d \in Delays :
        /\ now' = now + g
        /\ TakeSample(Sample(now', d, (now' % StcPeriod), ((now' + offset) % SofPeriod), FALSE))
  BY DEF Decode
<1>2. now \in Nat /\ g \in Nat /\ offset \in Nat
  BY InstanceAssumption DEF ClockTypeOK
<1>3. PICK u \in Nat : u = now + g
  BY <1>2
<1>4. now' = u /\ now <= u /\ offset' = offset /\ host' = host
  BY <1>1, <1>2, <1>3 DEF Decode, world
<1>5. StcPeriod \in Nat \ {0} /\ SofPeriod \in Nat \ {0} /\ LowPeriod \in Nat \ {0}
  BY PeriodsAssumption
<1>6. PICK stc \in 0 .. StcPeriod - 1 : stc = u % StcPeriod
  BY <1>5, DivMod
<1>7. PICK sof \in 0 .. SofPeriod - 1 : sof = (u + offset) % SofPeriod
  <2> DEFINE x == u + offset
  <2>1. x \in Int
    BY <1>2
  <2> HIDE DEF x
  <2>2. x % SofPeriod \in 0 .. SofPeriod - 1
    BY <1>5, <2>1, DivMod
  <2> QED BY <2>2 DEF x
<1>8. /\ Sample(u, d, stc, sof, FALSE) \in RawType
      /\ Sample(u, d, stc, sof, FALSE).host_time = u + d
      /\ Sample(u, d, stc, sof, FALSE).zero = FALSE
      /\ "hostSof" \notin Flaws => Sample(u, d, stc, sof, FALSE).dev_sof = sof
  <2>1. ClockTypeOK /\ sof \in Nat /\ FALSE \in BOOLEAN
    BY <1>5
  <2> HIDE DEF ClockInv
  <2> QED BY <2>1, SampleRead, ZenonT(60)
<1>9. PICK raw \in RawType : raw = Sample(u, d, stc, sof, FALSE)
  BY <1>8
<1>10. TakeSample(raw)
  BY <1>1, <1>4, <1>6, <1>7, <1>9
<1>11. PICK off \in 0 .. LowPeriod - 1 :
         off = Offset(raw) /\ (sof_offset # None => off = sof_offset)
  BY OffsetTyped
<1>12. PICK s \in SampleType :
         /\ s = Adjusted(raw)
         /\ s.dev_sof = (raw.dev_sof + off) % SofPeriod
         /\ s.host_time = raw.host_time /\ s.zero = raw.zero
  BY <1>11, AdjustedTyped
<1>13. /\ s.host_time = u + d /\ ~s.zero
       /\ "hostSof" \notin Flaws => s.dev_sof = (u + offset + off) % SofPeriod
  <2>1. s.host_time = u + d /\ s.zero = FALSE
    BY <1>8, <1>9, <1>12
  <2>2. ASSUME "hostSof" \notin Flaws PROVE s.dev_sof = (u + offset + off) % SofPeriod
    <3>1. raw.dev_sof = (u + offset) % SofPeriod
      BY <1>7, <1>8, <1>9, <2>2
    <3> DEFINE x == u + offset
    <3>2. x \in Int /\ off \in Int
      BY <1>2, <1>5, <1>11
    <3> HIDE DEF x
    <3>3. ((x % SofPeriod) + off) % SofPeriod = (x + off) % SofPeriod
      BY <1>5, <3>2, ModTwice
    <3> QED BY <1>12, <3>1, <3>3 DEF x
  <2> QED BY <2>1, <2>2
<1>14. /\ sof_offset' = off
       /\ IF sof_diff(s.dev_sof, last_sof) <= MinDiff \div Size
          THEN UNCHANGED <<samples, head, count, last_sof, last_sof_overflow>>
          ELSE AddSample(s)
  BY <1>10, <1>11, <1>12 DEF TakeSample, Adjusted
<1>15. /\ sof_offset' \in 0 .. LowPeriod - 1 /\ sof_offset' # None
       /\ sof_offset # None => sof_offset' = sof_offset
  BY <1>5, <1>11, <1>14 DEF None
<1>16. CASE UNCHANGED <<samples, head, count, last_sof, last_sof_overflow>>
  <2>1. ClockTypeOK'
    BY <1>4, <1>15, <1>16 DEF ClockTypeOK
  <2>2. \A j \in Nat : Back(j)' = Back(j)
    BY <1>16 DEF Back
  <2>3. count > 0 => LastTaken'
    <3> SUFFICES ASSUME count > 0 PROVE LastTaken'
      OBVIOUS
    <3>1. LastTaken
      BY DEF RingInv
    <3>2. PICK t \in 0 .. now, e \in Delays : TakenAt(samples[Back(1)], t, e)
      BY <3>1 DEF LastTaken
    <3>3. t \in 0 .. now'
      BY <1>2, <1>4
    <3>4. TakenAt(samples[Back(1)], t, e)'
      BY <1>4, <1>15, <1>16, <2>2, <3>1, <3>2 DEF TakenAt, LastTaken
    <3>5. samples[Back(1)]' = samples[Back(1)]
      BY <1>16, <2>2
    <3> QED BY <1>15, <1>16, <3>1, <3>3, <3>4, <3>5 DEF LastTaken
  <2>4. RingInv'
    BY <1>16, <2>2, <2>3, PeriodsAssumption DEF RingInv, ClockTypeOK, Back
  <2> QED BY <2>1, <2>4
<1>17. CASE AddSample(s) /\ ~(sof_diff(s.dev_sof, last_sof) <= MinDiff \div Size)
  <2>1. count > 0 => samples[Back(1)].host_time < s.host_time
    <3> SUFFICES ASSUME count > 0 PROVE samples[Back(1)].host_time < s.host_time
      OBVIOUS
    <3>1. sof_offset # None
      BY DEF RingInv, LastTaken
    <3>2. "hostSof" \notin Flaws => s.dev_sof = (u + offset + sof_offset) % SofPeriod
      BY <1>11, <1>13, <3>1
    <3>3. sof_diff(s.dev_sof, last_sof) > MinDiff \div Size
      <4>1. sof_diff(s.dev_sof, last_sof) \in Int /\ MinDiff \div Size \in Int
        <5> DEFINE x == s.dev_sof - last_sof
        <5>1. x \in Int
          BY <1>5 DEF SampleType, ClockTypeOK, None
        <5>2. sof_diff(s.dev_sof, last_sof) = x % SofPeriod
          BY DEF sof_diff
        <5> HIDE DEF x
        <5>3. x % SofPeriod \in 0 .. SofPeriod - 1
          BY <1>5, <5>1, DivMod
        <5>4. MinDiff \div Size \in Int
          BY InstanceAssumption, PeriodsAssumption
        <5> QED BY <1>5, <5>2, <5>3, <5>4
      <4> QED BY <1>17, <4>1
    <3> QED BY <1>3, <1>13, <3>2, <3>3, TakenLater
  <2>2. TakenAt(s, u, d)'
    BY <1>4, <1>13, <1>14 DEF TakenAt
  <2>3. \E t \in 0 .. now', e \in Delays : TakenAt(s, t, e)'
    <3>1. u \in 0 .. now'
      BY <1>4
    <3> QED BY <2>2, <3>1
  <2>4. RingInv' /\ count' \in 0 .. Size
    BY <1>13, <1>15, <1>17, <2>1, <2>3, AddSampleKeeps
  <2>5. /\ samples' \in [0 .. Size - 1 -> SampleType] /\ head' \in 0 .. Size - 1
        /\ last_sof' \in 0 .. SofPeriod - 1
        /\ last_sof_overflow' \in (0 .. Size - 1) \cup {None}
    BY <1>17, TypeAddSample
  <2>6. ClockTypeOK'
    BY <1>4, <1>15, <2>4, <2>5 DEF ClockTypeOK
  <2> QED BY <2>4, <2>6
<1> QED BY <1>14, <1>16, <1>17

-----------------------------------------------------------------------------
(* The other steps *)

LEMMA DecodeZeroStep ==
  ASSUME ClockInv, NoBlindZeros, DecodeZero
  PROVE  UNCHANGED clockVars
BY DEF NoBlindZeros, DecodeZero, ZeroIgnored, clockVars, world

LEMMA StutterStep ==
  ASSUME ClockInv, UNCHANGED clockVars
  PROVE  ClockInv'
<1>1. ClockTypeOK'
  BY DEF ClockInv, ClockTypeOK, clockVars, world
<1>2. \A j \in Nat : Back(j)' = Back(j)
  BY DEF Back, clockVars
<1>3. LastTaken' = LastTaken
  BY <1>2 DEF LastTaken, TakenAt, clockVars, world
<1>4. RingInv'
  BY <1>2, <1>3 DEF ClockInv, RingInv, LastTaken, TakenAt, Back, clockVars, world
<1> QED BY <1>1, <1>4 DEF ClockInv

LEMMA ResetStep ==
  ASSUME ClockInv, Reset
  PROVE  ClockInv'
<1>1. /\ head' = 0 /\ count' = 0 /\ last_sof' = None /\ last_sof_overflow' = None
      /\ sof_offset' = None /\ now' = now /\ offset' = offset /\ host' = host
      /\ samples' = samples
  BY DEF Reset, ResetClock, world
<1>2. ClockTypeOK'
  BY <1>1, PeriodsAssumption DEF ClockInv, ClockTypeOK
<1>3. RingInv'
  BY <1>1 DEF RingInv
<1> QED BY <1>2, <1>3 DEF ClockInv

LEMMA ClockInvBegins == ClockInit => ClockInv
<1> SUFFICES ASSUME ClockInit PROVE ClockInv
  OBVIOUS
<1>1. NoSample \in SampleType
  BY PeriodsAssumption DEF NoSample, SampleType
<1>2. ClockTypeOK
  BY <1>1, PeriodsAssumption DEF ClockInit, ClockTypeOK
<1>3. RingInv
  BY DEF ClockInit, RingInv
<1> QED BY <1>2, <1>3 DEF ClockInv

-----------------------------------------------------------------------------
(* The window *)

LEMMA UsableWindow == ClockInv => WindowUsable
<1> SUFFICES ASSUME ClockInv PROVE WindowUsable
  OBVIOUS
<1> USE DEF ClockInv
<1>1. Ring
  BY PeriodsAssumption DEF Ring, ClockTypeOK
<1>2. \A i \in 1 .. count : Slot(i) = Back(count - i + 1)
  BY <1>1, BackIs
<1>3. ASSUME NEW i \in 2 .. count
      PROVE  \E j \in 2 .. count : Slot(i - 1) = Back(j) /\ Slot(i) = Back(j - 1)
  <2>1. /\ i \in 1 .. count /\ i - 1 \in 1 .. count
        /\ count - i + 2 \in 2 .. count
        /\ count - (i - 1) + 1 = count - i + 2 /\ (count - i + 2) - 1 = count - i + 1
    BY <1>1 DEF Ring
  <2>2. Slot(i) = Back(count - i + 1) /\ Slot(i - 1) = Back(count - (i - 1) + 1)
    BY <1>2, <2>1
  <2> QED BY <2>1, <2>2
<1>4. OneOverflow
  BY <1>3 DEF OneOverflow, Descents, RingInv
<1>5. \A i \in 2 .. count : samples[Slot(i - 1)].host_time < samples[Slot(i)].host_time
  BY <1>3 DEF RingInv
<1>6. \A i \in 1 .. count : ~samples[Slot(i)].zero
  <2> TAKE i \in 1 .. count
  <2>1. count - i + 1 \in 1 .. count
    BY <1>1 DEF Ring
  <2> QED BY <1>2, <2>1 DEF RingInv
<1> QED BY <1>4, <1>5, <1>6 DEF WindowUsable, WindowInOrder

\* What uvc_video_clock_update interpolates over is a window of the ring in the order
\* the samples were taken, none of them read from an SCR of zeros without data, whose
\* SOF goes down only where last_sof_overflow says: for every size of the ring, every
\* period of the counters, every delay of the handlers that keeps the packets in order
\* and every device, as long as the SCR of a packet without data can be looked at.
THEOREM WindowStaysUsable ==
  ASSUME NoBlindZeros, DelaysKeepOrder
  PROVE  ClockSpec => []WindowUsable
<1>1. ClockInit => ClockInv
  BY ClockInvBegins
<1>2. ClockInv /\ [ClockNext]_clockVars => ClockInv'
  <2> SUFFICES ASSUME ClockInv, [ClockNext]_clockVars PROVE ClockInv'
    OBVIOUS
  <2>1. CASE Decode
    BY <2>1, DecodeStep
  <2>2. CASE DecodeZero
    BY <2>2, DecodeZeroStep, StutterStep
  <2>3. CASE Reset
    BY <2>3, ResetStep
  <2>4. CASE UNCHANGED clockVars
    BY <2>4, StutterStep
  <2> QED BY <2>1, <2>2, <2>3, <2>4 DEF ClockNext
<1>3. ClockInv => WindowUsable
  BY UsableWindow
<1> QED BY <1>1, <1>2, <1>3, PTL DEF ClockSpec
=============================================================================
