------------------------------ MODULE UvcDecode ------------------------------
(***************************************************************************)
(* How the completion handler of the UVC driver turns the payload headers  *)
(* of an isochronous stream into frames (uvc_video.c:                      *)
(* uvc_video_decode_start, _data and _end, uvc_video_decode_isoc and       *)
(* uvc_video_next_buffers), and the device that sends the payloads.        *)
(*                                                                         *)
(* A frame is FrameSize payloads of one unit of data each.  The copies     *)
(* themselves, and who holds a buffer meanwhile, are in UvcStreaming.      *)
(***************************************************************************)
EXTENDS Integers, Sequences, FiniteSets

CONSTANTS
  Setups,      \* the streams of this instance: a device, its format and its queue
  MaxFrames,   \* bound on the frames the device sends
  MaxBuffers,  \* bound on the buffers in the queue
  MaxFaults    \* bound on the faults of one behaviour

\* "lost": the host controller reports a lost packet; "invalid": a packet does
\* not arrive at all or has no valid header; "err": the device sets the error
\* bit; "noEof": the device forgets the EOF bit and the toggling of FID at the
\* end of a frame; "suspend", "restart": the transfer is stopped and started
\* again, with the queue as it is or with an empty one.
AllFaults == {"lost", "invalid", "err", "noEof", "suspend", "restart"}

\* frameSize: dwMaxVideoFrameSize in payloads; bufferLength: buf->length;
\* compressed: UVC_FMT_FLAG_COMPRESSED; eof: the device sets the EOF bit in the
\* last payload of a frame, in one without data after it, or never; noFid: the
\* device never toggles FID, and UVC_QUIRK_STREAM_NO_FID is set; mjpegNoEof:
\* UVC_QUIRK_MJPEG_NO_EOF on an MJPEG stream; starves: the queue may run empty.
Setup == [frameSize : Nat \ {0}, bufferLength : Nat \ {0}, compressed : BOOLEAN,
          eof : {"last", "empty", "never"}, noFid : BOOLEAN, mjpegNoEof : BOOLEAN,
          starves : BOOLEAN, faults : SUBSET AllFaults]

ASSUME SetupsAssumption ==
  Setups \subseteq Setup /\ \A s \in Setups : s.bufferLength >= s.frameSize
ASSUME BoundsAssumption == MaxFrames \in Nat /\ MaxBuffers \in Nat \ {0} /\ MaxFaults \in Nat

VARIABLES
  setup,     \* the stream, chosen once
  frame,     \* the number of the frame the device is sending
  pos,       \* the payload of that frame it sends next
  fid,       \* its FID bit
  pkt,       \* the packet uvc_video_decode_isoc is at, or NoPacket
  queue,     \* queue->irqqueue
  blind,     \* is the handler's buf NULL?
  last_fid,  \* stream->last_fid
  sequence,  \* stream->sequence
  done,      \* the buffers handed over, in the order of their completion
  run,       \* how often the transfer was started
  faults     \* faults so far

device == <<frame, pos, fid>>
vars == <<setup, device, pkt, queue, blind, last_fid, sequence, done, run, faults>>

FrameSize == setup.frameSize
BufferLength == setup.bufferLength
Compressed == setup.compressed
NoFid == setup.noFid

LastPos == IF setup.eof = "empty" THEN FrameSize + 1 ELSE FrameSize

NoPacket == [frame |-> 0, pos |-> 0, size |-> 0, fid |-> 0, eof |-> FALSE, err |-> FALSE]
Packets == [frame : 1 .. MaxFrames, pos : 1 .. LastPos, size : {0, 1}, fid : {0, 1},
            eof : BOOLEAN, err : BOOLEAN]

\* A fresh buffer.  run and data, the run its frame began in and the set of the
\* payloads copied into it, are unknown to the code.
Fresh == [state |-> "QUEUED", error |-> FALSE, used |-> 0, seq |-> 0, run |-> 0, data |-> {}]

\* last_fid is an u8 and starts as (u8) -1; ^= UVC_STREAM_FID turns its last bit.
FidUnknown == 255
\* Mutant: the bit is added, not turned.
ToggleUp(f) == f + 1

Toggle(f) == IF f % 2 = 0 THEN f + 1 ELSE f - 1

Init ==
  /\ setup \in Setups
  /\ frame = 1 /\ pos = 1 /\ fid \in IF NoFid THEN {0} ELSE {0, 1}
  /\ pkt = NoPacket
  /\ queue \in IF setup.starves THEN {<<>>, <<Fresh>>} ELSE {<<Fresh>>}
  /\ blind = (queue = <<>>)
  /\ last_fid = FidUnknown /\ sequence = -1
  /\ done = <<>> /\ run = 1 /\ faults = 0

-----------------------------------------------------------------------------
(* The device and the bus.                                                 *)

Fault(f) == f \in setup.faults /\ faults < MaxFaults /\ faults' = faults + 1

\* The device goes on to its next payload; keep: FID stays for the next frame.
Advance(keep) ==
  IF pos < LastPos
  THEN pos' = pos + 1 /\ UNCHANGED <<frame, fid>>
  ELSE /\ frame' = frame + 1 /\ pos' = 1
       /\ fid' = IF NoFid \/ keep THEN fid ELSE 1 - fid

\* A packet arrives.
Arrive ==
  /\ pkt = NoPacket /\ frame <= MaxFrames
  /\ \E err \in BOOLEAN, forget \in BOOLEAN :
       /\ err => "err" \in setup.faults
       /\ forget => pos = LastPos /\ "noEof" \in setup.faults
       /\ IF err \/ forget THEN faults < MaxFaults /\ faults' = faults + 1
                           ELSE UNCHANGED faults
       /\ Advance(forget)
       /\ pkt' = [frame |-> frame, pos |-> pos, size |-> IF pos > FrameSize THEN 0 ELSE 1,
                  fid |-> fid, err |-> err,
                  eof |-> setup.eof # "never" /\ pos = LastPos /\ ~forget]
  /\ UNCHANGED <<setup, queue, blind, last_fid, sequence, done, run>>

\* The status of the packet says that it was lost: the current buffer is faulty.
PacketLost ==
  /\ pkt = NoPacket /\ frame <= MaxFrames
  /\ Fault("lost")
  /\ Advance(FALSE)
  /\ queue' = IF blind THEN queue ELSE [queue EXCEPT ![1].error = TRUE]
  /\ UNCHANGED <<setup, pkt, blind, last_fid, sequence, done, run>>

\* The header fails the sanity checks (EINVAL), or the packet never came.
PacketInvalid ==
  /\ pkt = NoPacket /\ frame <= MaxFrames
  /\ Fault("invalid")
  /\ Advance(FALSE)
  /\ UNCHANGED <<setup, pkt, queue, blind, last_fid, sequence, done, run>>

-----------------------------------------------------------------------------
(* The queue.                                                              *)

\* The application queues a buffer.  A handler that runs does not see it.
QueueBuffer ==
  /\ setup.starves /\ Len(queue) < MaxBuffers
  /\ queue' = Append(queue, Fresh)
  /\ UNCHANGED <<setup, device, pkt, blind, last_fid, sequence, done, run, faults>>

\* The next URB completes, and its handler looks at the queue.
NextUrb ==
  /\ pkt = NoPacket
  /\ blind' = (queue = <<>>)
  /\ UNCHANGED <<setup, device, pkt, queue, last_fid, sequence, done, run, faults>>

\* uvc_video_next_buffers: the frame b at the head of the queue is complete, and
\* it is bad when it is short.  buf becomes the next buffer.
HandOver(b) ==
  /\ done' = Append(done, [b EXCEPT !.error = @ \/ (~Compressed /\ b.used # FrameSize)])
  /\ queue' = IF setup.starves THEN Tail(queue) ELSE Append(Tail(queue), Fresh)
  /\ blind' = (queue' = <<>>)

-----------------------------------------------------------------------------
(* uvc_video_decode_start, _data and _end.                                 *)

Decoding == pkt # NoPacket
buf == queue[1]
Filling == ~blind /\ buf.used # 0

\* The packet belongs to the next frame: the frame in buf is complete (EAGAIN),
\* and the packet is looked at again.
FidToggled ==
  /\ Decoding /\ Filling
  /\ pkt.fid # last_fid
  /\ HandOver(buf)
  /\ UNCHANGED <<setup, device, pkt, last_fid, sequence, run, faults>>

\* Mutant: the marker is not looked for.
StartOfImageNever == FALSE

\* UVC_QUIRK_MJPEG_NO_EOF: a marker of the start of an image in the same frame.
StartOfImage == setup.mjpegNoEof /\ Filling /\ pkt.fid = last_fid /\ pkt.pos = 1

ImageStarted ==
  /\ Decoding /\ StartOfImage
  /\ HandOver([buf EXCEPT !.error = TRUE])
  /\ last_fid' = Toggle(last_fid)
  /\ UNCHANGED <<setup, device, pkt, sequence, run, faults>>

\* Neither of the two ends of frame: the packet is consumed.
InFrame == Decoding /\ ~(Filling /\ pkt.fid # last_fid) /\ ~StartOfImage

\* The sequence number counts the flips of FID, with or without a buffer.
CountFrame == sequence' = IF pkt.fid # last_fid THEN sequence + 1 ELSE sequence

\* There is no buffer (ENODATA).
NoBuffer ==
  /\ InFrame /\ blind
  /\ CountFrame
  /\ last_fid' = pkt.fid
  /\ pkt' = NoPacket
  /\ UNCHANGED <<setup, device, queue, blind, done, run, faults>>

\* buf with the sequence number of a new frame and the error bit of the packet.
Stamped == [buf EXCEPT !.seq = IF pkt.fid # last_fid THEN sequence + 1 ELSE @,
                       !.run = IF pkt.fid # last_fid THEN run ELSE @,
                       !.error = @ \/ pkt.err]

\* A buffer that is not in a frame yet waits for FID to toggle (ENODATA); for a
\* device that never does, the EOF bit toggles last_fid.
OutOfSync ==
  /\ InFrame /\ ~blind
  /\ buf.state # "ACTIVE" /\ pkt.fid = last_fid
  /\ queue' = [queue EXCEPT ![1] = Stamped]
  /\ last_fid' = IF NoFid /\ pkt.eof THEN Toggle(last_fid) ELSE last_fid
  /\ pkt' = NoPacket
  /\ UNCHANGED <<setup, device, blind, sequence, done, run, faults>>

Overflows == pkt.size > BufferLength - buf.used

\* buf with the payload copied into it; without room for it the frame is bad.
Filled ==
  [Stamped EXCEPT !.state = "ACTIVE",
                  !.used = IF Overflows THEN BufferLength ELSE @ + pkt.size,
                  !.error = @ \/ Overflows,
                  !.data = IF Overflows \/ pkt.size = 0 THEN @ ELSE @ \cup {<<pkt.frame, pkt.pos>>}]

\* Mutant: a buffer that is not in a frame yet takes whatever comes.
InSyncAlways == InFrame /\ ~blind

InSync == InFrame /\ ~blind /\ (buf.state = "ACTIVE" \/ pkt.fid # last_fid)

\* Does the packet end the frame, by its EOF bit or because it does not fit?
EofFound == pkt.eof /\ Filled.used # 0
Ends == EofFound \/ Overflows

\* The payload is copied and the frame goes on.
PayloadCopied ==
  /\ InSync /\ ~Ends
  /\ CountFrame
  /\ queue' = [queue EXCEPT ![1] = Filled]
  /\ last_fid' = pkt.fid
  /\ pkt' = NoPacket
  /\ UNCHANGED <<setup, device, blind, done, run, faults>>

\* Mutant: the end of a frame leaves the last_fid of a device without FID.
FrameEndedUnflipped ==
  /\ InSync /\ Ends
  /\ CountFrame
  /\ HandOver(Filled)
  /\ last_fid' = pkt.fid
  /\ pkt' = NoPacket
  /\ UNCHANGED <<setup, device, run, faults>>

\* The payload is copied and ends the frame.
FrameEnded ==
  /\ InSync /\ Ends
  /\ CountFrame
  /\ HandOver(Filled)
  /\ last_fid' = IF NoFid /\ EofFound THEN Toggle(pkt.fid) ELSE pkt.fid
  /\ pkt' = NoPacket
  /\ UNCHANGED <<setup, device, run, faults>>

-----------------------------------------------------------------------------
\* uvc_video_start_transfer after a stop: the decoder starts afresh, and the
\* device with a new frame.
StartTransfer ==
  /\ last_fid' = FidUnknown /\ sequence' = -1 /\ run' = run + 1
  /\ frame' = frame + 1 /\ pos' = 1
  /\ fid' \in IF NoFid THEN {0} ELSE {0, 1}
  /\ UNCHANGED <<setup, pkt, done>>

\* uvc_video_suspend and uvc_video_resume do not touch the queue.
SuspendResume ==
  /\ pkt = NoPacket /\ frame <= MaxFrames
  /\ Fault("suspend")
  /\ StartTransfer
  /\ blind' = (queue = <<>>)
  /\ UNCHANGED queue

\* Stopping the stream empties the queue.
StopStart ==
  /\ pkt = NoPacket /\ frame <= MaxFrames
  /\ Fault("restart")
  /\ StartTransfer
  /\ queue' = <<Fresh>> /\ blind' = FALSE

Bus == Arrive \/ PacketLost \/ PacketInvalid \/ NextUrb
Decode == \/ FidToggled \/ ImageStarted \/ NoBuffer \/ OutOfSync
          \/ PayloadCopied \/ FrameEnded

Next == Bus \/ QueueBuffer \/ Decode \/ SuspendResume \/ StopStart

Spec == Init /\ [][Next]_vars

-----------------------------------------------------------------------------
(* Properties.                                                             *)

Buffer == [state : {"QUEUED", "ACTIVE"}, error : BOOLEAN, used : 0 .. BufferLength,
           seq : -1 .. MaxFrames, run : 0 .. MaxFaults + 1,
           data : SUBSET ((1 .. MaxFrames) \X (1 .. FrameSize))]

\* Every variable has its type; in particular last_fid is a FID bit or still
\* unknown, although the quirks toggle it at four places.
TypeOK ==
  /\ setup \in Setups
  /\ frame \in 1 .. MaxFrames + 1 /\ pos \in 1 .. LastPos /\ fid \in {0, 1}
  /\ pkt \in Packets \cup {NoPacket}
  /\ queue \in Seq(Buffer) /\ Len(queue) <= MaxBuffers
  /\ done \in Seq(Buffer) /\ Len(done) <= MaxFrames
  /\ blind \in BOOLEAN
  /\ last_fid \in {0, 1, FidUnknown} /\ sequence \in -1 .. MaxFrames
  /\ run \in 1 .. MaxFaults + 1 /\ faults \in 0 .. MaxFaults

Frames(b) == {d[1] : d \in b.data}
FirstFrame(b) == CHOOSE f \in Frames(b) : \A g \in Frames(b) : f <= g

\* A frame handed over without an error holds payloads of one frame of the device
\* without a hole in between, as long as the bus and the device report what they
\* lose and mark where frames end.  In an uncompressed format it is the whole frame.  In a compressed one
\* the size shows nothing, and two things go unnoticed: losses at the beginning of
\* the frame, reported while there is no buffer or one still holds the frame
\* before, and an end cut off by a suspend, in a frame that is handed over in a
\* later run of the transfer.
ErrorFreeIsWhole ==
  "invalid" \notin setup.faults => \A i \in DOMAIN done :
    ~done[i].error =>
      \E f \in Frames(done[i]), first \in 1 .. FrameSize, last \in 1 .. FrameSize :
        /\ done[i].data = {f} \X (first .. last)
        /\ first = 1 \/ (Compressed /\ "lost" \in setup.faults)
        /\ last = FrameSize \/ (Compressed /\ done[i].run < run)

\* Sequence numbers grow with the frames of the device and never run ahead of
\* them, so a gap means a lost frame; they count the frames exactly, even those no
\* buffer was there for, without faults, and with UVC_QUIRK_MJPEG_NO_EOF also when
\* the device forgets the end of a frame.  (Without FID the queue must not run
\* empty: the flip is injected only where there is a buffer.)
SequenceCountsFrames ==
  \A i, j \in DOMAIN done :
    i < j /\ done[i].run = done[j].run =>
      LET counted == done[j].seq - done[i].seq
          sent == FirstFrame(done[j]) - FirstFrame(done[i])
      IN /\ counted \in 1 .. sent
         /\ (faults = 0 \/ setup.mjpegNoEof) /\ ~(NoFid /\ setup.starves) => counted = sent

\* No frame of the device is continued in a second buffer: whatever ended the
\* first one early, the next waits for the frame after it.
FramesNotSplit ==
  \A i, j \in DOMAIN done : i # j => Frames(done[i]) \cap Frames(done[j]) = {}

\* However a frame is ended and by whichever quirk, the decoder is ready for the
\* next one and only for that: its FID is a bit or unknown, the frames are apart.
FramesApart == TypeOK /\ FramesNotSplit
=============================================================================
