-------------------------- MODULE UvcDecode_proofs --------------------------
(*
The proofs about UvcDecode.  Four inductive invariants, each resting on the
ones before it:

  Base, DataInv   the types, and that every buffer holds bytes of at most one
                  frame of the device: no frame is split over two buffers, for
                  every setup of the device.
  SeqInv          the driver's count of frames runs behind the device's by a
                  lag that only grows: later frames have later numbers.
  Ready, Even     where the stream marks its ends of frames the lag changes
                  only over a restart: sequence numbers count the frames.
  WholeInv        a buffer without an error holds a part of its frame without
                  a hole, from its beginning unless something was lost, and
                  the device goes on with the payload after it.
*)
EXTENDS UvcDecode, SequenceTheorems, TLAPS

-----------------------------------------------------------------------------
(* The invariants *)

\* What is decoded next: the packet at hand, or the device's next payload.
CurFrame == IF Decoding THEN pkt.frame ELSE frame
CurPos == IF Decoding THEN pkt.pos ELSE pos
CurFid == IF Decoding THEN pkt.fid ELSE fid

\* The sequence number has not counted more than the frames of the device but l.
Behind(l) ==
  IF CurPos = 1 THEN CurFrame - 1 - sequence >= l
  ELSE CurFrame - sequence >= l /\ (CurFrame - sequence = l => last_fid = CurFid)

Typed ==
  /\ setup \in Setups
  /\ frame \in 1 .. MaxFrames + 1 /\ pos \in 1 .. LastPos /\ fid \in {0, 1}
  /\ pkt \in Packets \cup {NoPacket}
  /\ queue \in Seq(Buffer) /\ Len(queue) <= MaxBuffers /\ done \in Seq(Buffer)
  /\ blind \in BOOLEAN
  /\ last_fid \in {0, 1, FidUnknown} /\ sequence \in -1 .. MaxFrames
  /\ run \in 1 .. faults + 1 /\ faults \in 0 .. MaxFaults

\* The device is past the packet at hand; without faults it has ended the frame as it should.
PktInv == Decoding =>
  /\ IF pkt.pos < LastPos THEN frame = pkt.frame /\ pos = pkt.pos + 1 /\ fid = pkt.fid
     ELSE frame = pkt.frame + 1 /\ pos = 1
  /\ pkt.size = IF pkt.pos > FrameSize THEN 0 ELSE 1
  /\ pkt.eof => pkt.pos = LastPos /\ fid = IF NoFid THEN pkt.fid ELSE 1 - pkt.fid
  /\ pkt.pos = LastPos /\ faults = 0 =>
       /\ setup.eof # "never" => pkt.eof
       /\ ~NoFid => fid = 1 - pkt.fid

\* Only the first buffer of the queue holds data, and only the handler that fills it sees it.
QueueInv ==
  /\ \A i \in DOMAIN queue : i # 1 => queue[i] = Fresh
  /\ ~setup.starves => ~blind
  /\ ~blind => queue # <<>>
  /\ queue # <<>> =>
       /\ buf.state = "QUEUED" => buf.used = 0
       /\ buf.used = 0 <=> buf.data = {}
       /\ blind => buf.state = "QUEUED"
       /\ buf.run <= run
       /\ buf.state = "ACTIVE" => IF buf.run = run THEN buf.seq = sequence ELSE last_fid = FidUnknown

Base == Typed /\ PktInv /\ QueueInv /\ Behind(1)

-----------------------------------------------------------------------------
(* Streams, packets and buffers *)

LEMMA SetupIs ==
  ASSUME setup \in Setups
  PROVE  /\ FrameSize \in Nat \ {0} /\ BufferLength \in Nat \ {0} /\ BufferLength >= FrameSize
         /\ LastPos \in Nat \ {0} /\ FrameSize <= LastPos /\ LastPos <= FrameSize + 1
         /\ LastPos = FrameSize + 1 => setup.eof = "empty"
         /\ setup.eof \in {"last", "empty", "never"}
         /\ NoFid \in BOOLEAN /\ setup.starves \in BOOLEAN /\ setup.mjpegNoEof \in BOOLEAN
         /\ Compressed \in BOOLEAN
BY SetupsAssumption DEF Setup, FrameSize, BufferLength, LastPos, NoFid, Compressed

LEMMA SetupStays ==
  ASSUME setup' = setup
  PROVE  /\ FrameSize' = FrameSize /\ BufferLength' = BufferLength /\ LastPos' = LastPos
         /\ NoFid' = NoFid /\ Compressed' = Compressed /\ Buffer' = Buffer /\ Packets' = Packets
BY DEF FrameSize, BufferLength, LastPos, NoFid, Compressed, Buffer, Packets

LEMMA PacketIs ==
  ASSUME Typed, Decoding
  PROVE  /\ pkt \in Packets /\ pkt.frame \in 1 .. MaxFrames /\ pkt.pos \in 1 .. LastPos
         /\ pkt.size \in {0, 1} /\ pkt.fid \in {0, 1} /\ pkt.eof \in BOOLEAN /\ pkt.err \in BOOLEAN
BY DEF Typed, Decoding, Packets

LEMMA CurIs ==
  ASSUME Typed
  PROVE  CurFrame \in 1 .. MaxFrames + 1 /\ CurPos \in 1 .. LastPos /\ CurFid \in {0, 1}
<1>1. CASE Decoding
  <2>1. MaxFrames \in Nat
    BY BoundsAssumption
  <2> QED BY <1>1, <2>1, PacketIs DEF CurFrame, CurPos, CurFid
<1>2. CASE ~Decoding
  BY <1>2 DEF CurFrame, CurPos, CurFid, Typed
<1> QED BY <1>1, <1>2

LEMMA FreshIs ==
  ASSUME setup \in Setups
  PROVE  /\ Fresh \in Buffer /\ Fresh.state = "QUEUED" /\ Fresh.used = 0 /\ Fresh.data = {}
         /\ Fresh.run = 0 /\ Fresh.error = FALSE
<1>1. 0 \in 0 .. BufferLength /\ 0 \in -1 .. MaxFrames /\ 0 \in 0 .. MaxFaults + 1
  BY SetupIs, BoundsAssumption
<1> DEFINE U == 0 .. BufferLength
           Q == -1 .. MaxFrames
           R == 0 .. MaxFaults + 1
           P == SUBSET ((1 .. MaxFrames) \X (1 .. FrameSize))
<1>2. {} \in P
  OBVIOUS
<1>3. 0 \in U /\ 0 \in Q /\ 0 \in R
  BY <1>1
<1> HIDE DEF U, Q, R, P
<1>4. Fresh \in [state : {"QUEUED", "ACTIVE"}, error : BOOLEAN, used : U, seq : Q, run : R, data : P]
  BY <1>2, <1>3 DEF Fresh
<1> QED BY <1>4 DEF Buffer, Fresh, U, Q, R, P

LEMMA BufferIs ==
  ASSUME setup \in Setups, NEW b \in Buffer
  PROVE  /\ b.state \in {"QUEUED", "ACTIVE"} /\ b.error \in BOOLEAN /\ b.used \in 0 .. BufferLength
         /\ b.used \in Nat /\ b.seq \in -1 .. MaxFrames /\ b.seq \in Int
         /\ b.run \in 0 .. MaxFaults + 1 /\ b.run \in Nat
         /\ b.data \subseteq (1 .. MaxFrames) \X (1 .. FrameSize)
         /\ Frames(b) \subseteq 1 .. MaxFrames /\ (Frames(b) = {} <=> b.data = {})
<1>1. /\ b.state \in {"QUEUED", "ACTIVE"} /\ b.error \in BOOLEAN /\ b.used \in 0 .. BufferLength
      /\ b.seq \in -1 .. MaxFrames /\ b.run \in 0 .. MaxFaults + 1
      /\ b.data \subseteq (1 .. MaxFrames) \X (1 .. FrameSize)
  BY DEF Buffer
<1>2. b.used \in Nat /\ b.seq \in Int /\ b.run \in Nat
  BY <1>1, BoundsAssumption, SetupIs
<1>3. Frames(b) \subseteq 1 .. MaxFrames /\ (Frames(b) = {} <=> b.data = {})
  BY <1>1 DEF Frames
<1> QED BY <1>1, <1>2, <1>3

\* The head of the queue.
LEMMA HeadIs ==
  ASSUME Typed, queue # <<>>
  PROVE  /\ buf \in Buffer /\ 1 \in DOMAIN queue /\ DOMAIN queue = 1 .. Len(queue)
         /\ Len(queue) \in Nat \ {0}
<1>1. queue \in Seq(Buffer) /\ DOMAIN queue = 1 .. Len(queue) /\ Len(queue) \in Nat
  BY DEF Typed
<1>2. Len(queue) # 0
  BY <1>1, EmptySeq
<1>3. 1 \in DOMAIN queue
  BY <1>1, <1>2
<1> QED BY <1>1, <1>2, <1>3, ElementOfSeq DEF buf

\* buf as it is stamped: a record, field by field.
LEMMA StampedIs ==
  ASSUME Base, Decoding, queue # <<>>
  PROVE  /\ Stamped \in Buffer
         /\ Stamped.state = buf.state /\ Stamped.used = buf.used /\ Stamped.data = buf.data
         /\ Stamped.seq = (IF pkt.fid # last_fid THEN sequence + 1 ELSE buf.seq)
         /\ Stamped.run = (IF pkt.fid # last_fid THEN run ELSE buf.run)
         /\ Stamped.error = (buf.error \/ pkt.err)
         /\ pkt.fid # last_fid => sequence + 1 \in -1 .. MaxFrames
<1>1. PICK b \in Buffer : b = buf
  BY HeadIs DEF Base
<1> DEFINE q == IF pkt.fid # last_fid THEN sequence + 1 ELSE b.seq
           r == IF pkt.fid # last_fid THEN run ELSE b.run
           e == b.error \/ pkt.err
           U == 0 .. BufferLength
           Q == -1 .. MaxFrames
           R == 0 .. MaxFaults + 1
           P == SUBSET ((1 .. MaxFrames) \X (1 .. FrameSize))
<1>2. setup \in Setups /\ sequence \in -1 .. MaxFrames /\ run \in 1 .. faults + 1
      /\ faults \in 0 .. MaxFaults /\ pkt.frame \in 1 .. MaxFrames
  BY PacketIs DEF Base, Typed
<1>3. pkt.fid # last_fid => sequence + 1 \in -1 .. MaxFrames
  <2> SUFFICES ASSUME pkt.fid # last_fid PROVE sequence + 1 \in -1 .. MaxFrames
    OBVIOUS
  <2>1. CurFrame - sequence >= 1
    <3>1. CurFrame = pkt.frame
      BY DEF CurFrame
    <3>2. CurPos = 1 => CurFrame - 1 - sequence >= 1
      BY DEF Base, Behind
    <3>3. CurPos # 1 => CurFrame - sequence >= 1
      BY DEF Base, Behind
    <3> QED BY <1>2, <3>1, <3>2, <3>3, BoundsAssumption
  <2> QED BY <1>2, <2>1, BoundsAssumption DEF CurFrame
<1>4. b.seq \in Q /\ b.run \in R /\ b.error \in BOOLEAN
  BY <1>1, <1>2, BufferIs
<1>5. q \in Q
  BY <1>3, <1>4
<1>6. r \in R
  BY <1>2, <1>4, BoundsAssumption
<1>7. Stamped = [b EXCEPT !.seq = q, !.run = r, !.error = e]
  BY <1>1 DEF Stamped
<1>8. b \in [state : {"QUEUED", "ACTIVE"}, error : BOOLEAN, used : U, seq : Q, run : R, data : P]
  BY DEF Buffer
<1>9. e \in BOOLEAN /\ e = (buf.error \/ pkt.err) /\ q = (IF pkt.fid # last_fid THEN sequence + 1 ELSE buf.seq)
      /\ r = (IF pkt.fid # last_fid THEN run ELSE buf.run)
  BY <1>1
<1> HIDE DEF q, r, e, U, Q, R, P
<1>10. /\ Stamped \in [state : {"QUEUED", "ACTIVE"}, error : BOOLEAN, used : U, seq : Q, run : R, data : P]
       /\ Stamped.state = b.state /\ Stamped.used = b.used /\ Stamped.data = b.data
       /\ Stamped.seq = q /\ Stamped.run = r /\ Stamped.error = e
  BY <1>5, <1>6, <1>7, <1>8, <1>9
<1>11. Stamped \in Buffer
  BY <1>10 DEF Buffer, U, Q, R, P
<1> QED BY <1>1, <1>3, <1>9, <1>10, <1>11

\* buf as it is filled.
LEMMA FilledIs ==
  ASSUME Base, Decoding, queue # <<>>
  PROVE  /\ Filled \in Buffer
         /\ Filled.state = "ACTIVE" /\ Filled.seq = Stamped.seq /\ Filled.run = Stamped.run
         /\ Filled.used = (IF Overflows THEN BufferLength ELSE buf.used + pkt.size)
         /\ Filled.data = (IF Overflows \/ pkt.size = 0 THEN buf.data
                                                        ELSE buf.data \cup {<<pkt.frame, pkt.pos>>})
         /\ Filled.error = (Stamped.error \/ Overflows)
         /\ Frames(Filled) = (IF Overflows \/ pkt.size = 0 THEN Frames(buf)
                                                           ELSE Frames(buf) \cup {pkt.frame})
         /\ Overflows => pkt.size = 1 /\ buf.used = BufferLength
<1>1. PICK b \in Buffer : /\ b = Stamped /\ b.used = buf.used /\ b.data = buf.data
  BY StampedIs
<1> DEFINE u == IF Overflows THEN BufferLength ELSE b.used + pkt.size
           d == IF Overflows \/ pkt.size = 0 THEN b.data ELSE b.data \cup {<<pkt.frame, pkt.pos>>}
           e == b.error \/ Overflows
           U == 0 .. BufferLength
           Q == -1 .. MaxFrames
           R == 0 .. MaxFaults + 1
           P == SUBSET ((1 .. MaxFrames) \X (1 .. FrameSize))
<1>2. setup \in Setups /\ pkt.frame \in 1 .. MaxFrames /\ pkt.pos \in 1 .. LastPos
      /\ pkt.size \in {0, 1} /\ pkt.size = IF pkt.pos > FrameSize THEN 0 ELSE 1
  BY PacketIs DEF Base, Typed, PktInv
<1>3. b.used \in 0 .. BufferLength /\ b.data \subseteq (1 .. MaxFrames) \X (1 .. FrameSize)
  BY <1>2, BufferIs
<1>4. Overflows <=> pkt.size > BufferLength - b.used
  BY <1>1 DEF Overflows
<1>5. BufferLength \in Nat /\ FrameSize \in Nat /\ LastPos \in Nat
  BY <1>2, SetupIs
<1>6. u \in U /\ (Overflows => pkt.size = 1 /\ buf.used = BufferLength)
  BY <1>1, <1>2, <1>3, <1>4, <1>5
<1>7. d \in P
  <2>1. pkt.size = 1 => pkt.pos \in 1 .. FrameSize
    BY <1>2, <1>5
  <2> QED BY <1>2, <1>3, <2>1
<1>8. Filled = [b EXCEPT !.state = "ACTIVE", !.used = u, !.error = e, !.data = d]
  BY <1>1 DEF Filled
<1>9. b \in [state : {"QUEUED", "ACTIVE"}, error : BOOLEAN, used : U, seq : Q, run : R, data : P]
  BY DEF Buffer
<1>10. e \in BOOLEAN /\ e = (Stamped.error \/ Overflows)
       /\ u = (IF Overflows THEN BufferLength ELSE buf.used + pkt.size)
       /\ d = (IF Overflows \/ pkt.size = 0 THEN buf.data ELSE buf.data \cup {<<pkt.frame, pkt.pos>>})
  BY <1>1
<1> HIDE DEF u, d, e, U, Q, R, P
<1>11. /\ Filled \in [state : {"QUEUED", "ACTIVE"}, error : BOOLEAN, used : U, seq : Q, run : R, data : P]
       /\ Filled.state = "ACTIVE" /\ Filled.used = u /\ Filled.data = d
       /\ Filled.seq = b.seq /\ Filled.run = b.run /\ Filled.error = e
  BY <1>6, <1>7, <1>8, <1>9, <1>10
<1>12. Filled \in Buffer
  BY <1>11 DEF Buffer, U, Q, R, P
<1>13. Frames(Filled) = IF Overflows \/ pkt.size = 0 THEN Frames(buf)
                                                     ELSE Frames(buf) \cup {pkt.frame}
  <2>1. CASE Overflows \/ pkt.size = 0
    BY <1>10, <1>11, <2>1 DEF Frames
  <2>2. CASE ~(Overflows \/ pkt.size = 0)
    <3>1. Filled.data = buf.data \cup {<<pkt.frame, pkt.pos>>}
      BY <1>10, <1>11, <2>2
    <3>2. <<pkt.frame, pkt.pos>>[1] = pkt.frame
      OBVIOUS
    <3>3. {x[1] : x \in buf.data \cup {<<pkt.frame, pkt.pos>>}} = {x[1] : x \in buf.data} \cup {pkt.frame}
      BY <3>2
    <3> QED BY <2>2, <3>1, <3>3 DEF Frames
  <2> QED BY <2>1, <2>2
<1> QED BY <1>1, <1>6, <1>10, <1>11, <1>12, <1>13

-----------------------------------------------------------------------------
(* What is decoded next *)

\* The decoder is at the same payload.
Stays == CurFrame' = CurFrame /\ CurPos' = CurPos /\ CurFid' = CurFid
\* It goes on to the next one.
Goes ==
  \/ CurPos < LastPos /\ CurFrame' = CurFrame /\ CurPos' = CurPos + 1 /\ CurFid' = CurFid
  \/ CurPos = LastPos /\ CurFrame' = CurFrame + 1 /\ CurPos' = 1

\* A packet is consumed.
Consumes ==
  /\ Decoding /\ pkt' = NoPacket
  /\ UNCHANGED <<setup, device, run, faults>>
  /\ sequence' = IF pkt.fid # last_fid THEN sequence + 1 ELSE sequence
  /\ last_fid' = pkt.fid \/ (pkt.eof /\ last_fid' = Toggle(pkt.fid) /\ NoFid)

LEMMA ConsumesGoes ==
  ASSUME Base, Consumes
  PROVE  /\ Goes /\ ~Decoding' /\ CurFrame = pkt.frame /\ CurPos = pkt.pos /\ CurFid = pkt.fid
         /\ CurFrame' = frame /\ CurPos' = pos /\ CurFid' = fid
         /\ last_fid' = CurFid \/ CurPos = LastPos
         /\ last_fid' \in {0, 1, FidUnknown} /\ last_fid' # FidUnknown
<1>1. ~Decoding' /\ Decoding
  BY DEF Consumes, Decoding
<1>2. /\ CurFrame = pkt.frame /\ CurPos = pkt.pos /\ CurFid = pkt.fid
      /\ CurFrame' = frame /\ CurPos' = pos /\ CurFid' = fid
  BY <1>1 DEF CurFrame, CurPos, CurFid, Consumes, device
<1>3. pkt.pos \in 1 .. LastPos /\ LastPos \in Nat /\ pkt.fid \in {0, 1}
  BY <1>1, PacketIs, SetupIs DEF Base, Typed
<1>4. /\ IF pkt.pos < LastPos THEN frame = pkt.frame /\ pos = pkt.pos + 1 /\ fid = pkt.fid
         ELSE frame = pkt.frame + 1 /\ pos = 1
      /\ pkt.eof => pkt.pos = LastPos
  BY <1>1 DEF Base, PktInv
<1>5. last_fid' \in {0, 1}
  BY <1>3 DEF Consumes, Toggle
<1> QED BY <1>1, <1>2, <1>3, <1>4, <1>5 DEF Goes, Consumes, FidUnknown

LEMMA BehindConsumes ==
  ASSUME Base, Consumes, NEW l \in Int, Behind(l)
  PROVE  Behind(l)'
<1>1. PICK c \in Int, p \in Int, f \in {0, 1} : c = CurFrame /\ p = CurPos /\ f = CurFid
  BY CurIs, BoundsAssumption, SetupIs DEF Base, Typed
<1>2. PICK c1, p1, f1, l1, s1 :
        c1 = CurFrame' /\ p1 = CurPos' /\ f1 = CurFid' /\ l1 = last_fid' /\ s1 = sequence'
  OBVIOUS
<1>3. PICK n \in Nat \ {0}, s \in Int : n = LastPos /\ s = sequence
  BY SetupIs DEF Base, Typed
<1>4. /\ \/ p < n /\ c1 = c /\ p1 = p + 1 /\ f1 = f
         \/ p = n /\ c1 = c + 1 /\ p1 = 1
      /\ l1 = f \/ p = n
  BY <1>1, <1>2, <1>3, ConsumesGoes DEF Goes
<1>5. s1 = IF f # last_fid THEN s + 1 ELSE s
  BY <1>1, <1>2, <1>3, ConsumesGoes DEF Consumes
<1>6. IF p = 1 THEN c - 1 - s >= l ELSE c - s >= l /\ (c - s = l => last_fid = f)
  BY <1>1, <1>3 DEF Behind
<1>7. p \in 1 .. n
  BY <1>1, <1>3, CurIs DEF Base
<1>8. IF p1 = 1 THEN c1 - 1 - s1 >= l ELSE c1 - s1 >= l /\ (c1 - s1 = l => l1 = f1)
  <2>1. CASE p = n
    BY <1>1, <1>3, <1>4, <1>5, <1>6, <1>7, <2>1
  <2>2. CASE p # n
    <3>1. c1 = c /\ p1 = p + 1 /\ f1 = f /\ l1 = f /\ p1 # 1
      BY <1>1, <1>3, <1>4, <1>7, <2>2
    <3> QED BY <1>1, <1>3, <1>5, <1>6, <3>1
  <2> QED BY <2>1, <2>2
<1> QED BY <1>2, <1>8 DEF Behind

\* A payload is lost.
LEMMA BehindLost ==
  ASSUME Base, Goes, sequence' = sequence, last_fid' = last_fid, NEW l \in Int, Behind(l)
  PROVE  Behind(l)'
<1>1. PICK c \in Int, p \in Int, f \in {0, 1} : c = CurFrame /\ p = CurPos /\ f = CurFid
  BY CurIs, BoundsAssumption, SetupIs DEF Base, Typed
<1>2. PICK c1, p1, f1 : c1 = CurFrame' /\ p1 = CurPos' /\ f1 = CurFid'
  OBVIOUS
<1>3. PICK n \in Nat \ {0}, s \in Int : n = LastPos /\ s = sequence
  BY SetupIs DEF Base, Typed
<1>4. \/ p < n /\ c1 = c /\ p1 = p + 1 /\ f1 = f
      \/ p = n /\ c1 = c + 1 /\ p1 = 1
  BY <1>1, <1>2, <1>3 DEF Goes
<1>6. IF p = 1 THEN c - 1 - s >= l ELSE c - s >= l /\ (c - s = l => last_fid = f)
  BY <1>1, <1>3 DEF Behind
<1>7. p \in 1 .. n
  BY <1>1, <1>3, CurIs DEF Base
<1>8. IF p1 = 1 THEN c1 - 1 - s >= l ELSE c1 - s >= l /\ (c1 - s = l => last_fid = f1)
  BY <1>1, <1>3, <1>4, <1>6, <1>7
<1> QED BY <1>2, <1>3, <1>8 DEF Behind

LEMMA BehindStays ==
  ASSUME Stays, sequence' = sequence, last_fid' = last_fid \/ CurPos = 1, NEW l, Behind(l)
  PROVE  Behind(l)'
BY DEF Stays, Behind

-----------------------------------------------------------------------------
(* The queue *)

\* A buffer is handed over: the next one, if there is one, is fresh.
LEMMA HandOverIs ==
  ASSUME Base, queue # <<>>, NEW b \in Buffer, HandOver(b), setup' = setup
  PROVE  /\ queue' \in Seq(Buffer) /\ Len(queue') <= MaxBuffers
         /\ \A i \in DOMAIN queue' : queue'[i] = Fresh
         /\ (~setup.starves => ~blind') /\ (blind' <=> queue' = <<>>) /\ blind' \in BOOLEAN
         /\ \E z \in Buffer : /\ done' = Append(done, z)
                              /\ z.seq = b.seq /\ z.run = b.run /\ z.data = b.data
                              /\ z.used = b.used
                              /\ z.error = (b.error \/ (~Compressed /\ b.used # FrameSize))
<1>1. setup \in Setups /\ queue \in Seq(Buffer) /\ Len(queue) \in Nat \ {0}
      /\ Len(queue) <= MaxBuffers /\ DOMAIN queue = 1 .. Len(queue)
  BY HeadIs DEF Base, Typed
<1> DEFINE t == Tail(queue)
<1>2. /\ t \in Seq(Buffer) /\ Len(t) = Len(queue) - 1 /\ DOMAIN t = 1 .. Len(t)
      /\ \A i \in 1 .. Len(t) : t[i] = queue[i + 1]
  BY <1>1, HeadTailProperties, EmptySeq
<1>3. \A i \in DOMAIN t : t[i] = Fresh
  <2> SUFFICES ASSUME NEW i \in 1 .. Len(t) PROVE t[i] = Fresh
    BY <1>2
  <2>1. i + 1 \in DOMAIN queue /\ i + 1 # 1
    BY <1>1, <1>2
  <2> QED BY <1>2, <2>1 DEF Base, QueueInv
<1>4. Fresh \in Buffer
  BY <1>1, FreshIs
<1>5. queue' = IF setup.starves THEN t ELSE Append(t, Fresh)
  BY DEF HandOver
<1>6. (blind' <=> queue' = <<>>) /\ blind' \in BOOLEAN
  <2>1. blind' = (queue' = <<>>)
    BY DEF HandOver
  <2> QED BY <2>1, Zenon
<1> HIDE DEF t
<1>7. \E z \in Buffer : /\ done' = Append(done, z)
                        /\ z.seq = b.seq /\ z.run = b.run /\ z.data = b.data /\ z.used = b.used
                        /\ z.error = (b.error \/ (~Compressed /\ b.used # FrameSize))
  <2> DEFINE e == b.error \/ (~Compressed /\ b.used # FrameSize)
             z == [b EXCEPT !.error = e]
             U == 0 .. BufferLength
             Q == -1 .. MaxFrames
             R == 0 .. MaxFaults + 1
             P == SUBSET ((1 .. MaxFrames) \X (1 .. FrameSize))
  <2>1. done' = Append(done, z)
    BY DEF HandOver
  <2>2. e \in BOOLEAN
    BY <1>1, BufferIs
  <2>3. b \in [state : {"QUEUED", "ACTIVE"}, error : BOOLEAN, used : U, seq : Q, run : R, data : P]
    BY DEF Buffer
  <2>4. e = (b.error \/ (~Compressed /\ b.used # FrameSize))
    OBVIOUS
  <2> HIDE DEF e, U, Q, R, P
  <2>5. /\ z \in [state : {"QUEUED", "ACTIVE"}, error : BOOLEAN, used : U, seq : Q, run : R, data : P]
        /\ z.seq = b.seq /\ z.run = b.run /\ z.data = b.data /\ z.used = b.used /\ z.error = e
    BY <2>2, <2>3
  <2>6. z \in Buffer
    BY <2>5 DEF Buffer, U, Q, R, P
  <2> QED BY <2>1, <2>4, <2>5, <2>6
<1>8. CASE setup.starves
  <2>1. queue' = t
    BY <1>5, <1>8
  <2>2. Len(t) <= MaxBuffers
    BY <1>1, <1>2, BoundsAssumption
  <2>3. queue' \in Seq(Buffer) /\ Len(queue') <= MaxBuffers /\ \A i \in DOMAIN queue' : queue'[i] = Fresh
    BY <1>2, <1>3, <2>1, <2>2
  <2> QED BY <1>6, <1>8, <1>7, <2>3
<1>9. CASE ~setup.starves
  <2>1. queue' = Append(t, Fresh)
    BY <1>5, <1>9
  <2>2. /\ queue' \in Seq(Buffer) /\ Len(queue') = Len(t) + 1
        /\ DOMAIN queue' = 1 .. Len(t) + 1
        /\ \A i \in 1 .. Len(t) : queue'[i] = t[i]
        /\ queue'[Len(t) + 1] = Fresh
    BY <1>2, <1>4, <2>1, AppendProperties
  <2>3. \A i \in DOMAIN queue' : queue'[i] = Fresh
    BY <1>1, <1>2, <1>3, <2>2
  <2>4. Len(queue') <= MaxBuffers /\ queue' # <<>>
    BY <1>1, <1>2, <2>2, BoundsAssumption
  <2> QED BY <1>6, <1>9, <1>7, <2>2, <2>3, <2>4
<1> QED BY <1>8, <1>9

\* The first buffer of the queue is replaced.
LEMMA HeadReplaced ==
  ASSUME Base, queue # <<>>, NEW b \in Buffer, queue' = [queue EXCEPT ![1] = b]
  PROVE  /\ queue' \in Seq(Buffer) /\ Len(queue') = Len(queue) /\ queue' # <<>>
         /\ DOMAIN queue' = DOMAIN queue /\ queue'[1] = b
         /\ \A i \in DOMAIN queue' : i # 1 => queue'[i] = Fresh
<1>1. queue \in Seq(Buffer) /\ 1 \in DOMAIN queue /\ DOMAIN queue = 1 .. Len(queue)
      /\ Len(queue) \in Nat \ {0}
  BY HeadIs DEF Base, Typed
<1>2. /\ queue' \in Seq(Buffer) /\ Len(queue') = Len(queue) /\ DOMAIN queue' = DOMAIN queue
      /\ queue'[1] = b /\ \A i \in DOMAIN queue : i # 1 => queue'[i] = queue[i]
  BY <1>1, ExceptSeq
<1> QED BY <1>1, <1>2, EmptySeq DEF Base, QueueInv

-----------------------------------------------------------------------------
(* The steps keep the types *)

LEMMA BaseInit == Init => Base
<1> SUFFICES ASSUME Init PROVE Base
  OBVIOUS
<1>1. setup \in Setups /\ Fresh \in Buffer
  BY FreshIs DEF Init
<1>2. queue \in Seq(Buffer) /\ Len(queue) <= MaxBuffers /\ \A i \in DOMAIN queue : queue[i] = Fresh
  <2>1. <<>> \in Seq(Buffer) /\ Len(<<>>) = 0 /\ DOMAIN <<>> = {}
    BY EmptySeq
  <2>2. <<Fresh>> \in Seq(Buffer) /\ Len(<<Fresh>>) = 1 /\ DOMAIN <<Fresh>> = {1} /\ <<Fresh>>[1] = Fresh
    BY <1>1
  <2>3. MaxBuffers \in Nat \ {0}
    BY BoundsAssumption
  <2>4. CASE queue = <<>>
    BY <2>1, <2>3, <2>4
  <2>5. CASE queue = <<Fresh>>
    BY <2>2, <2>3, <2>5
  <2>6. queue = <<>> \/ queue = <<Fresh>>
    BY DEF Init
  <2> QED BY <2>4, <2>5, <2>6
<1>3. blind \in BOOLEAN /\ (blind <=> queue = <<>>) /\ (~setup.starves => ~blind)
  <2>1. blind = (queue = <<>>)
    BY DEF Init
  <2>2. blind \in BOOLEAN /\ (blind <=> queue = <<>>)
    BY <2>1, Zenon
  <2>3. ~setup.starves => queue = <<Fresh>>
    BY DEF Init
  <2>4. <<Fresh>> # <<>>
    OBVIOUS
  <2> QED BY <2>2, <2>3, <2>4
<1>4. done \in Seq(Buffer)
  BY DEF Init
<1>5. Typed
  BY <1>1, <1>2, <1>3, <1>4, SetupIs, BoundsAssumption DEF Typed, Init, FidUnknown
<1>6. ~Decoding
  BY DEF Init, Decoding
<1>7. QueueInv
  <2>1. queue # <<>> => buf = Fresh
    BY <1>2, <1>5, HeadIs DEF buf
  <2> QED BY <1>1, <1>2, <1>3, <2>1, FreshIs DEF QueueInv, Init
<1>8. Behind(1)
  BY <1>6 DEF Behind, CurFrame, CurPos, CurFid, Init
<1> QED BY <1>5, <1>6, <1>7, <1>8 DEF Base, PktInv

LEMMA QueueStays ==
  ASSUME QueueInv, UNCHANGED <<setup, queue, blind, last_fid, sequence, run>>
  PROVE  QueueInv'
BY DEF QueueInv, buf

LEMMA OneBehindStays ==
  ASSUME Base, Stays, sequence' = sequence, last_fid' = last_fid \/ CurPos = 1
  PROVE  Behind(1)'
BY BehindStays DEF Base

LEMMA AdvanceIs ==
  ASSUME Base, ~Decoding, frame <= MaxFrames, NEW keep \in BOOLEAN, Advance(keep), setup' = setup
  PROVE  /\ frame' \in 1 .. MaxFrames + 1 /\ pos' \in 1 .. LastPos' /\ fid' \in {0, 1}
         /\ IF pos < LastPos THEN frame' = frame /\ pos' = pos + 1 /\ fid' = fid
            ELSE frame' = frame + 1 /\ pos' = 1 /\ fid' = (IF NoFid \/ keep THEN fid ELSE 1 - fid)
<1>1. setup \in Setups /\ frame \in 1 .. MaxFrames + 1 /\ pos \in 1 .. LastPos /\ fid \in {0, 1}
  BY DEF Base, Typed
<1>2. LastPos \in Nat \ {0} /\ LastPos' = LastPos /\ MaxFrames \in Nat
  BY <1>1, SetupIs, SetupStays, BoundsAssumption
<1>3. CASE pos < LastPos
  BY <1>1, <1>2, <1>3 DEF Advance
<1>4. CASE ~(pos < LastPos)
  BY <1>1, <1>2, <1>4 DEF Advance
<1> QED BY <1>3, <1>4

LEMMA ArriveStep ==
  ASSUME Base, Arrive
  PROVE  /\ Base' /\ Stays /\ Decoding' /\ ~Decoding
         /\ UNCHANGED <<setup, queue, blind, last_fid, sequence, done, run>>
         /\ faults' = faults \/ faults' = faults + 1
<1>1. PICK err \in BOOLEAN, forget \in BOOLEAN :
        /\ forget => pos = LastPos /\ "noEof" \in setup.faults
        /\ IF err \/ forget THEN faults < MaxFaults /\ faults' = faults + 1
                            ELSE UNCHANGED faults
        /\ Advance(forget)
        /\ pkt' = [frame |-> frame, pos |-> pos, size |-> IF pos > FrameSize THEN 0 ELSE 1,
                   fid |-> fid, err |-> err,
                   eof |-> setup.eof # "never" /\ pos = LastPos /\ ~forget]
  BY DEF Arrive
<1>2. /\ ~Decoding /\ frame <= MaxFrames
      /\ UNCHANGED <<setup, queue, blind, last_fid, sequence, done, run>>
  BY DEF Arrive, Decoding
<1>3. setup \in Setups /\ frame \in 1 .. MaxFrames + 1 /\ pos \in 1 .. LastPos /\ fid \in {0, 1}
      /\ faults \in 0 .. MaxFaults /\ run \in 1 .. faults + 1
  BY DEF Base, Typed
<1>4. LastPos \in Nat \ {0} /\ FrameSize \in Nat /\ MaxFrames \in Nat /\ MaxFaults \in Nat
      /\ LastPos' = LastPos /\ FrameSize' = FrameSize /\ NoFid' = NoFid /\ NoFid \in BOOLEAN
      /\ Packets' = Packets /\ Buffer' = Buffer
  BY <1>2, <1>3, SetupIs, SetupStays, BoundsAssumption
<1> DEFINE z == IF pos > FrameSize THEN 0 ELSE 1
           e == setup.eof # "never" /\ pos = LastPos /\ ~forget
<1>5. z \in {0, 1} /\ e \in BOOLEAN /\ (e <=> setup.eof # "never" /\ pos = LastPos /\ ~forget)
  OBVIOUS
<1>6. z = IF pos > FrameSize THEN 0 ELSE 1
  OBVIOUS
<1>7. pkt' = [frame |-> frame, pos |-> pos, size |-> z, fid |-> fid, err |-> err, eof |-> e]
  BY <1>1
<1> HIDE DEF z, e
<1>8. /\ pkt'.frame = frame /\ pkt'.pos = pos /\ pkt'.size = z /\ pkt'.fid = fid /\ pkt'.eof = e
      /\ pkt'.err = err
  BY <1>7
<1>9. pkt' \in Packets
  <2> DEFINE F == 1 .. MaxFrames
             P == 1 .. LastPos
  <2>1. frame \in F /\ pos \in P
    BY <1>2, <1>3, <1>4
  <2> HIDE DEF F, P
  <2>2. pkt' \in [frame : F, pos : P, size : {0, 1}, fid : {0, 1}, eof : BOOLEAN, err : BOOLEAN]
    BY <1>3, <1>5, <1>7, <2>1
  <2> QED BY <2>2 DEF Packets, F, P
<1>10. Decoding'
  <2>1. pkt'.frame # 0
    BY <1>3, <1>8
  <2>2. NoPacket.frame = 0
    BY DEF NoPacket
  <2> QED BY <2>1, <2>2 DEF Decoding
<1>11. CurFrame' = CurFrame /\ CurPos' = CurPos /\ CurFid' = CurFid
  BY <1>2, <1>8, <1>10 DEF CurFrame, CurPos, CurFid
<1>12. /\ frame' \in 1 .. MaxFrames + 1 /\ pos' \in 1 .. LastPos' /\ fid' \in {0, 1}
       /\ IF pos < LastPos THEN frame' = frame /\ pos' = pos + 1 /\ fid' = fid
          ELSE frame' = frame + 1 /\ pos' = 1 /\ fid' = (IF NoFid \/ forget THEN fid ELSE 1 - fid)
  BY <1>1, <1>2, AdvanceIs
<1>13. faults' \in 0 .. MaxFaults /\ faults' >= faults /\ (faults' = faults \/ faults' = faults + 1)
       /\ (forget => faults' # 0)
  BY <1>1, <1>3, <1>4
<1>14. Typed'
  <2>1. run' \in 1 .. faults' + 1
    <3>1. PICK r \in Int, n \in Int : r = run /\ n = faults
      BY <1>3, <1>4
    <3>2. PICK n1 : n1 = faults'
      OBVIOUS
    <3>3. r \in 1 .. n + 1 /\ (n1 = n \/ n1 = n + 1)
      BY <1>3, <1>13, <3>1, <3>2
    <3>4. r \in 1 .. n1 + 1
      BY <3>1, <3>3
    <3> QED BY <1>2, <3>1, <3>2, <3>4
  <2>2. /\ queue' \in Seq(Buffer') /\ Len(queue') <= MaxBuffers /\ done' \in Seq(Buffer')
        /\ blind' \in BOOLEAN /\ last_fid' \in {0, 1, FidUnknown} /\ sequence' \in -1 .. MaxFrames
    BY <1>2, <1>4 DEF Base, Typed
  <2> QED BY <1>2, <1>3, <1>4, <1>9, <1>12, <1>13, <2>1, <2>2 DEF Typed, FidUnknown
<1>15. PktInv'
  <2>1. pos < LastPos => frame' = frame /\ pos' = pos + 1 /\ fid' = fid
    BY <1>12
  <2>2. ~(pos < LastPos) => frame' = frame + 1 /\ pos' = 1
    BY <1>12
  <2>3. e => pos = LastPos /\ fid' = IF NoFid THEN fid ELSE 1 - fid
    BY <1>3, <1>4, <1>5, <1>12
  <2>4. pos = LastPos /\ faults' = 0 => (setup.eof # "never" => e) /\ (~NoFid => fid' = 1 - fid)
    BY <1>3, <1>4, <1>5, <1>12, <1>13
  <2> QED BY <1>2, <1>4, <1>6, <1>8, <2>1, <2>2, <2>3, <2>4 DEF PktInv
<1>16. QueueInv' /\ Behind(1)'
  BY <1>2, <1>11, QueueStays, OneBehindStays DEF Base, Stays
<1> QED BY <1>2, <1>10, <1>11, <1>13, <1>14, <1>15, <1>16 DEF Base, Stays

\* The first buffer is kept, but for its error flag, which may be set.
HeadKept ==
  /\ queue' # <<>> /\ queue # <<>>
  /\ buf'.state = buf.state /\ buf'.used = buf.used /\ buf'.seq = buf.seq
  /\ buf'.run = buf.run /\ buf'.data = buf.data
  /\ buf.error => buf'.error

RestFresh == \A i \in DOMAIN queue' : i # 1 => queue'[i] = Fresh
HeadFresh == queue' # <<>> => buf' = Fresh

LEMMA QueueKept ==
  ASSUME Base, HeadKept, RestFresh, setup' = setup, ~setup.starves => ~blind', blind' => blind,
         run' \in Nat,
         \/ UNCHANGED <<last_fid, sequence, run>>
         \/ last_fid' = FidUnknown /\ run' = run + 1
  PROVE  QueueInv'
<1>1. PICK b \in Buffer : b = buf
  BY HeadIs DEF HeadKept, Base
<1>2. PICK b1 : b1 = buf'
  OBVIOUS
<1>3. setup \in Setups /\ run \in Nat /\ b.run \in Nat
  BY BufferIs, BoundsAssumption DEF Base, Typed
<1>4. /\ b.state = "QUEUED" => b.used = 0
      /\ b.used = 0 <=> b.data = {}
      /\ blind => b.state = "QUEUED"
      /\ b.run <= run
      /\ b.state = "ACTIVE" => IF b.run = run THEN b.seq = sequence ELSE last_fid = FidUnknown
  BY <1>1 DEF Base, QueueInv, HeadKept
<1>5. b1.state = b.state /\ b1.used = b.used /\ b1.seq = b.seq /\ b1.run = b.run /\ b1.data = b.data
  BY <1>1, <1>2 DEF HeadKept
<1>6. b1.run <= run'
  BY <1>3, <1>4, <1>5
<1>7. b1.state = "ACTIVE" => IF b1.run = run' THEN b1.seq = sequence' ELSE last_fid' = FidUnknown
  BY <1>3, <1>4, <1>5
<1> QED BY <1>2, <1>4, <1>5, <1>6, <1>7 DEF QueueInv, HeadKept, RestFresh, Fresh, FidUnknown

LEMMA QueueFresh ==
  ASSUME setup \in Setups, setup' = setup, HeadFresh, RestFresh,
         ~setup.starves => ~blind', ~blind' => queue' # <<>>, run' \in Nat
  PROVE  QueueInv'
<1>1. queue' # <<>> => buf' = Fresh
  BY DEF HeadFresh
<1> QED BY <1>1, FreshIs DEF QueueInv, RestFresh, Fresh

LEMMA AllFresh ==
  ASSUME queue' \in Seq(Buffer), \A i \in DOMAIN queue' : queue'[i] = Fresh
  PROVE  HeadFresh /\ RestFresh
<1>1. queue' # <<>> => 1 \in DOMAIN queue'
  BY EmptySeq
<1> QED BY <1>1 DEF HeadFresh, RestFresh, buf

LEMMA NatRun == ASSUME Typed PROVE run \in Nat /\ run + 1 \in Nat /\ faults \in Nat
BY BoundsAssumption DEF Typed

LEMMA LostStep ==
  ASSUME Base, PacketLost \/ PacketInvalid
  PROVE  /\ Base' /\ Goes /\ ~Decoding /\ ~Decoding'
         /\ UNCHANGED <<setup, blind, last_fid, sequence, done, run>>
         /\ faults' = faults + 1
         /\ HeadKept \/ (queue = <<>> /\ queue' = <<>>)
         /\ PacketLost => "lost" \in setup.faults
         /\ PacketInvalid => "invalid" \in setup.faults
<1>1. /\ ~Decoding /\ ~Decoding' /\ frame <= MaxFrames /\ Advance(FALSE) /\ pkt' = pkt /\ pkt = NoPacket
      /\ UNCHANGED <<setup, blind, last_fid, sequence, done, run>>
      /\ faults' = faults + 1 /\ faults < MaxFaults
  BY DEF PacketLost, PacketInvalid, Decoding, Fault
<1>2. /\ frame' \in 1 .. MaxFrames + 1 /\ pos' \in 1 .. LastPos' /\ fid' \in {0, 1}
      /\ IF pos < LastPos THEN frame' = frame /\ pos' = pos + 1 /\ fid' = fid
         ELSE frame' = frame + 1 /\ pos' = 1
  BY <1>1, AdvanceIs
<1>3. setup \in Setups /\ pos \in 1 .. LastPos /\ LastPos \in Nat
  BY SetupIs DEF Base, Typed
<1>4. Goes
  BY <1>1, <1>2, <1>3 DEF Goes, CurFrame, CurPos, CurFid
<1>5. /\ queue' \in Seq(Buffer) /\ Len(queue') <= MaxBuffers /\ RestFresh
      /\ HeadKept \/ (queue = <<>> /\ queue' = <<>>)
  <2>1. CASE queue' = queue
    BY <2>1 DEF Base, Typed, QueueInv, RestFresh, HeadKept, buf
  <2>2. CASE queue' # queue
    <3>1. ~blind /\ queue' = [queue EXCEPT ![1].error = TRUE]
      BY <2>2 DEF PacketLost, PacketInvalid
    <3>2. queue # <<>>
      BY <3>1 DEF Base, QueueInv
    <3>3. PICK b \in Buffer : b = buf
      BY <3>2, HeadIs DEF Base
    <3> DEFINE z == [b EXCEPT !.error = TRUE]
    <3>4. queue' = [queue EXCEPT ![1] = z]
      BY <3>1, <3>3 DEF buf
    <3>5. z \in Buffer /\ z.state = b.state /\ z.used = b.used /\ z.seq = b.seq /\ z.run = b.run
          /\ z.data = b.data /\ z.error = TRUE
      <4> DEFINE U == 0 .. BufferLength
                 Q == -1 .. MaxFrames
                 R == 0 .. MaxFaults + 1
                 P == SUBSET ((1 .. MaxFrames) \X (1 .. FrameSize))
      <4>1. b \in [state : {"QUEUED", "ACTIVE"}, error : BOOLEAN, used : U, seq : Q, run : R, data : P]
        BY DEF Buffer
      <4> HIDE DEF U, Q, R, P
      <4>2. z \in [state : {"QUEUED", "ACTIVE"}, error : BOOLEAN, used : U, seq : Q, run : R, data : P]
            /\ z.state = b.state /\ z.used = b.used /\ z.seq = b.seq /\ z.run = b.run /\ z.data = b.data
            /\ z.error = TRUE
        BY <4>1
      <4> QED BY <4>2 DEF Buffer, U, Q, R, P
    <3> HIDE DEF z
    <3>6. /\ queue' \in Seq(Buffer) /\ Len(queue') = Len(queue) /\ queue' # <<>>
          /\ queue'[1] = z /\ RestFresh
      BY <3>2, <3>4, <3>5, HeadReplaced DEF RestFresh
    <3>7. buf' = z
      BY <3>6 DEF buf
    <3>8. HeadKept
      BY <3>2, <3>3, <3>5, <3>6, <3>7 DEF HeadKept
    <3> QED BY <3>6, <3>8 DEF Base, Typed
  <2> QED BY <2>1, <2>2
<1>6. QueueInv'
  <2>1. CASE HeadKept
    BY <1>1, <1>5, <2>1, QueueKept, NatRun DEF Base, QueueInv
  <2>2. CASE queue = <<>> /\ queue' = <<>>
    BY <1>1, <1>5, <2>2, QueueStays DEF Base
  <2> QED BY <1>5, <2>1, <2>2
<1>7. Typed'
  <2>1. run' \in 1 .. faults' + 1 /\ faults' \in 0 .. MaxFaults
    BY <1>1, BoundsAssumption DEF Base, Typed
  <2>2. Buffer' = Buffer
    BY <1>1, SetupStays
  <2> QED BY <1>1, <1>2, <1>5, <2>1, <2>2 DEF Base, Typed, FidUnknown
<1>8. Behind(1)' /\ PktInv'
  BY <1>1, <1>4, BehindLost DEF Base, PktInv
<1> QED BY <1>1, <1>4, <1>5, <1>6, <1>7, <1>8 DEF Base, PacketLost, PacketInvalid, Fault

\* The application's and the host controller's steps.
LEMMA QueueStep ==
  ASSUME Base, QueueBuffer \/ NextUrb
  PROVE  /\ Base' /\ Stays /\ (Decoding' <=> Decoding)
         /\ UNCHANGED <<setup, last_fid, sequence, done, run, faults>>
         /\ HeadKept \/ (queue = <<>> /\ HeadFresh)
         /\ ~blind /\ blind' => queue = <<>>
<1>1. /\ UNCHANGED <<setup, frame, pos, fid, pkt, last_fid, sequence, done, run, faults>>
  BY DEF QueueBuffer, NextUrb, device
<1>2. Stays /\ (Decoding' <=> Decoding)
  BY <1>1 DEF Stays, CurFrame, CurPos, CurFid, Decoding
<1>3. setup \in Setups /\ queue \in Seq(Buffer) /\ Fresh \in Buffer
  BY FreshIs DEF Base, Typed
<1>4. CASE QueueBuffer
  <2>1. queue' = Append(queue, Fresh) /\ Len(queue) < MaxBuffers /\ blind' = blind /\ setup.starves
    BY <1>4 DEF QueueBuffer
  <2>2. /\ queue' \in Seq(Buffer) /\ queue' # <<>> /\ Len(queue') = Len(queue) + 1
        /\ \A i \in 1 .. Len(queue) : queue'[i] = queue[i]
        /\ queue'[Len(queue) + 1] = Fresh
        /\ DOMAIN queue' = 1 .. Len(queue) + 1 /\ DOMAIN queue = 1 .. Len(queue) /\ Len(queue) \in Nat
    BY <1>3, <2>1, AppendProperties
  <2>3. RestFresh
    <3>1. \A i \in 1 .. Len(queue) + 1 : i \in 1 .. Len(queue) \/ i = Len(queue) + 1
      BY <2>2
    <3> QED BY <2>2, <3>1 DEF RestFresh, Base, QueueInv
  <2>4. Len(queue') <= MaxBuffers
    BY <2>1, <2>2, BoundsAssumption
  <2>5. CASE queue = <<>>
    <3>1. HeadFresh
      BY <2>2, <2>5 DEF HeadFresh, buf
    <3>2. QueueInv'
      BY <1>1, <1>3, <2>1, <2>2, <2>3, <3>1, QueueFresh, NatRun DEF Base
    <3> QED BY <2>4, <2>5, <3>1, <3>2, <1>1, <1>2, <2>1, <2>2, SetupStays, OneBehindStays
            DEF Base, Typed, PktInv, Decoding, NoPacket, FidUnknown
  <2>6. CASE queue # <<>>
    <3>1. HeadKept
      BY <2>2, <2>6, EmptySeq DEF HeadKept, buf
    <3>2. QueueInv'
      BY <1>1, <2>1, <2>3, <3>1, QueueKept, NatRun DEF Base
    <3> QED BY <2>4, <2>6, <3>1, <3>2, <1>1, <1>2, <2>1, <2>2, SetupStays, OneBehindStays
            DEF Base, Typed, PktInv, Decoding, NoPacket, FidUnknown
  <2> QED BY <2>5, <2>6
<1>5. CASE NextUrb
  <2>1. queue' = queue /\ pkt = NoPacket
    BY <1>5 DEF NextUrb
  <2>2. blind' \in BOOLEAN /\ (blind' <=> queue = <<>>)
    <3>1. blind' = (queue = <<>>)
      BY <1>5 DEF NextUrb
    <3> QED BY <3>1, Zenon
  <2>3. (~setup.starves => ~blind') /\ (~blind' => queue' # <<>>)
    BY <2>1, <2>2 DEF Base, QueueInv
  <2>4. HeadKept \/ (queue = <<>> /\ HeadFresh)
    BY <2>1 DEF HeadKept, HeadFresh, buf
  <2>5. QueueInv'
    BY <1>1, <2>1, <2>2, <2>3 DEF Base, QueueInv, buf
  <2> QED BY <1>1, <1>2, <2>1, <2>2, <2>4, <2>5, SetupStays, OneBehindStays
          DEF Base, Typed, PktInv, Decoding, NoPacket, FidUnknown
<1> QED BY <1>4, <1>5

\* A transfer is started again.
LEMMA StartStep ==
  ASSUME Base, SuspendResume \/ StopStart
  PROVE  /\ Base' /\ ~Decoding /\ ~Decoding'
         /\ UNCHANGED <<setup, done>>
         /\ CurFrame' = CurFrame + 1 /\ CurPos' = 1 /\ CurFid' \in {0, 1}
         /\ last_fid' = FidUnknown /\ sequence' = -1 /\ run' = run + 1 /\ faults' = faults + 1
         /\ HeadKept \/ HeadFresh
<1>1. /\ ~Decoding /\ ~Decoding' /\ frame <= MaxFrames /\ UNCHANGED <<setup, pkt, done>> /\ pkt = NoPacket
      /\ last_fid' = FidUnknown /\ sequence' = -1 /\ run' = run + 1
      /\ faults' = faults + 1 /\ faults < MaxFaults
      /\ frame' = frame + 1 /\ pos' = 1 /\ fid' \in {0, 1}
  BY DEF SuspendResume, StopStart, StartTransfer, Decoding, Fault
<1>2. setup \in Setups /\ Fresh \in Buffer /\ MaxBuffers \in Nat \ {0} /\ MaxFaults \in Nat
      /\ LastPos \in Nat \ {0} /\ LastPos' = LastPos /\ Buffer' = Buffer /\ frame \in 1 .. MaxFrames + 1
  BY <1>1, FreshIs, SetupIs, SetupStays, BoundsAssumption DEF Base, Typed
<1>3. CurFrame' = CurFrame + 1 /\ CurPos' = 1 /\ CurFid' \in {0, 1}
  BY <1>1 DEF CurFrame, CurPos, CurFid
<1>4. run' \in 1 .. faults' + 1 /\ faults' \in 0 .. MaxFaults /\ run' \in Nat /\ -1 \in -1 .. MaxFrames
      /\ frame' \in 1 .. MaxFrames + 1
  <2>1. PICK r \in Int, n \in Int : r = run /\ n = faults /\ r \in 1 .. n + 1 /\ n \in 0 .. MaxFaults
    BY <1>2 DEF Base, Typed
  <2>2. r + 1 \in 1 .. (n + 1) + 1 /\ n + 1 \in 0 .. MaxFaults /\ r + 1 \in Nat
    BY <1>1, <1>2, <2>1
  <2> QED BY <1>1, <1>2, <2>1, <2>2, BoundsAssumption
<1>5. /\ queue' \in Seq(Buffer) /\ Len(queue') <= MaxBuffers /\ QueueInv' /\ blind' \in BOOLEAN
      /\ HeadKept \/ HeadFresh
  <2>1. CASE SuspendResume
    <3>1. queue' = queue
      BY <2>1 DEF SuspendResume
    <3>2. blind' \in BOOLEAN /\ (blind' <=> queue = <<>>)
      <4>1. blind' = (queue = <<>>)
        BY <2>1 DEF SuspendResume
      <4> QED BY <4>1, Zenon
    <3>3. CASE queue = <<>>
      <4>1. HeadFresh /\ RestFresh
        BY <1>2, <3>1, <3>3, EmptySeq DEF HeadFresh, RestFresh, Base, QueueInv
      <4>2. ~setup.starves => ~blind'
        BY <3>2, <3>3 DEF Base, QueueInv
      <4>3. QueueInv'
        BY <1>1, <1>2, <1>4, <3>2, <3>3, <4>1, <4>2, QueueFresh
      <4> QED BY <3>1, <3>2, <4>1, <4>3 DEF Base, Typed
    <3>4. CASE queue # <<>>
      <4>1. HeadKept /\ RestFresh /\ ~blind'
        BY <3>1, <3>2, <3>4 DEF HeadKept, RestFresh, Base, QueueInv, buf
      <4>2. QueueInv'
        BY <1>1, <1>4, <4>1, QueueKept
      <4> QED BY <3>1, <3>2, <4>1, <4>2 DEF Base, Typed
    <3> QED BY <3>3, <3>4
  <2>2. CASE StopStart
    <3>1. queue' = <<Fresh>> /\ blind' = FALSE
      BY <2>2 DEF StopStart
    <3>2. queue' \in Seq(Buffer) /\ Len(queue') = 1 /\ DOMAIN queue' = {1} /\ queue'[1] = Fresh
          /\ queue' # <<>>
      BY <1>2, <3>1
    <3>3. HeadFresh /\ RestFresh
      BY <3>2 DEF HeadFresh, RestFresh, buf
    <3>4. QueueInv'
      BY <1>1, <1>2, <1>4, <3>1, <3>2, <3>3, QueueFresh
    <3>5. Len(queue') <= MaxBuffers
      BY <1>2, <3>2
    <3>6. blind' \in BOOLEAN
      BY <3>1
    <3> QED BY <3>2, <3>3, <3>4, <3>5, <3>6
  <2> QED BY <2>1, <2>2
<1>6. Typed'
  BY <1>1, <1>2, <1>4, <1>5 DEF Base, Typed, FidUnknown
<1>7. Behind(1)'
  <2>1. CurFrame \in Int /\ CurFrame >= 1
    BY CurIs, BoundsAssumption DEF Base
  <2>2. CurFrame' \in Int /\ CurFrame' >= 2
    BY <1>3, <2>1
  <2>3. \A c \in Int : c >= 2 => c - 1 - (-1) >= 1
    OBVIOUS
  <2>4. CurFrame' - 1 - sequence' >= 1
    BY <1>1, <2>2, <2>3
  <2> QED BY <1>3, <2>4 DEF Behind
<1> QED BY <1>1, <1>3, <1>5, <1>6, <1>7 DEF Base, PktInv

\* A frame is handed over before the packet at hand is consumed.
LEMMA EndedStep ==
  ASSUME Base, FidToggled \/ ImageStarted
  PROVE  /\ Base' /\ Stays /\ Decoding /\ Decoding' /\ UNCHANGED <<setup, sequence, run, faults>>
         /\ last_fid' = last_fid \/ (CurPos = 1 /\ last_fid' # CurFid)
         /\ queue # <<>> /\ ~blind /\ buf.used # 0 /\ HeadFresh
         /\ FidToggled => last_fid' = last_fid /\ last_fid # CurFid
         /\ ImageStarted => last_fid' # CurFid
         /\ \E z \in Buffer : /\ done' = Append(done, z) /\ z.seq = buf.seq /\ z.run = buf.run
                              /\ z.data = buf.data
<1>1. /\ Decoding /\ Filling /\ UNCHANGED <<setup, frame, pos, fid, pkt, sequence, run, faults>>
      /\ HandOver(buf) \/ HandOver([buf EXCEPT !.error = TRUE])
  BY DEF FidToggled, ImageStarted, StartOfImage, device
<1>2. Decoding' /\ Stays
  BY <1>1 DEF Decoding, Stays, CurFrame, CurPos, CurFid
<1>3. ~blind /\ buf.used # 0 /\ queue # <<>>
  BY <1>1 DEF Filling, Base, QueueInv
<1>4. setup \in Setups /\ pkt.fid \in {0, 1} /\ CurFid = pkt.fid /\ CurPos = pkt.pos
  BY <1>1, PacketIs DEF Base, Typed, CurFid, CurPos
<1>5. /\ FidToggled => last_fid' = last_fid /\ last_fid # CurFid
      /\ ImageStarted => CurPos = 1 /\ last_fid' # CurFid /\ last_fid' \in {0, 1}
  BY <1>4 DEF FidToggled, ImageStarted, StartOfImage, Toggle
<1>6. PICK b \in Buffer : HandOver(b) /\ b.seq = buf.seq /\ b.run = buf.run /\ b.data = buf.data
  <2>1. PICK h \in Buffer : h = buf
    BY <1>3, HeadIs DEF Base
  <2> DEFINE z == [h EXCEPT !.error = TRUE]
             U == 0 .. BufferLength
             Q == -1 .. MaxFrames
             R == 0 .. MaxFaults + 1
             P == SUBSET ((1 .. MaxFrames) \X (1 .. FrameSize))
  <2>2. h \in [state : {"QUEUED", "ACTIVE"}, error : BOOLEAN, used : U, seq : Q, run : R, data : P]
    BY DEF Buffer
  <2>3. z \in Buffer /\ z.seq = h.seq /\ z.run = h.run /\ z.data = h.data
    <3> HIDE DEF U, Q, R, P
    <3>1. z \in [state : {"QUEUED", "ACTIVE"}, error : BOOLEAN, used : U, seq : Q, run : R, data : P]
          /\ z.seq = h.seq /\ z.run = h.run /\ z.data = h.data
      BY <2>2
    <3> QED BY <3>1 DEF Buffer, U, Q, R, P
  <2>4. HandOver(h) \/ HandOver(z)
    BY <1>1, <2>1
  <2> HIDE DEF z
  <2> QED BY <2>1, <2>3, <2>4
<1>7. /\ queue' \in Seq(Buffer) /\ Len(queue') <= MaxBuffers
      /\ \A i \in DOMAIN queue' : queue'[i] = Fresh
      /\ (~setup.starves => ~blind') /\ (blind' <=> queue' = <<>>) /\ blind' \in BOOLEAN
      /\ \E z \in Buffer : /\ done' = Append(done, z)
                           /\ z.seq = b.seq /\ z.run = b.run /\ z.data = b.data
  BY <1>1, <1>3, <1>6, HandOverIs
<1>8. HeadFresh /\ RestFresh
  BY <1>7, AllFresh
<1>9. QueueInv'
  BY <1>1, <1>4, <1>7, <1>8, QueueFresh, NatRun DEF Base
<1>10. done' \in Seq(Buffer)
  <2>1. PICK z \in Buffer : done' = Append(done, z)
    BY <1>7
  <2> QED BY <2>1, AppendProperties DEF Base, Typed
<1>11. last_fid' \in {0, 1, FidUnknown}
  <2>1. FidToggled \/ ImageStarted
    OBVIOUS
  <2> QED BY <1>5, <2>1 DEF Base, Typed
<1>12. Typed'
  <2>1. Buffer' = Buffer /\ LastPos' = LastPos /\ Packets' = Packets
    BY <1>1, SetupStays
  <2> QED BY <1>1, <1>7, <1>10, <1>11, <2>1 DEF Base, Typed, NoPacket, FidUnknown
<1>13. PktInv'
  BY <1>1, <1>2, SetupStays DEF Base, PktInv
<1>14. last_fid' = last_fid \/ (CurPos = 1 /\ last_fid' # CurFid)
  BY <1>5
<1>15. Behind(1)'
  BY <1>1, <1>2, <1>14, OneBehindStays
<1> QED BY <1>1, <1>2, <1>3, <1>5, <1>6, <1>7, <1>8, <1>9, <1>12, <1>13, <1>14, <1>15 DEF Base

Consume == NoBuffer \/ OutOfSync \/ PayloadCopied \/ FrameEnded

LEMMA ConsumesIs ==
  ASSUME Base, Consume
  PROVE  /\ Consumes
         /\ sequence' \in -1 .. MaxFrames
         /\ InSync => queue # <<>> /\ ~blind
<1>1. Decoding /\ pkt' = NoPacket /\ UNCHANGED <<setup, device, run, faults>>
  BY DEF Consume, NoBuffer, OutOfSync, PayloadCopied, FrameEnded, InFrame, InSync
<1>2. sequence' = IF pkt.fid # last_fid THEN sequence + 1 ELSE sequence
  BY DEF Consume, NoBuffer, OutOfSync, PayloadCopied, FrameEnded, CountFrame
<1>3. last_fid' = pkt.fid \/ (pkt.eof /\ last_fid' = Toggle(pkt.fid) /\ NoFid)
  BY DEF Consume, NoBuffer, OutOfSync, PayloadCopied, FrameEnded, EofFound
<1>4. Consumes
  BY <1>1, <1>2, <1>3 DEF Consumes
<1>5. sequence' \in -1 .. MaxFrames
  <2>1. sequence \in -1 .. MaxFrames /\ pkt.frame \in 1 .. MaxFrames /\ CurFrame = pkt.frame
        /\ MaxFrames \in Nat
    BY <1>1, PacketIs, BoundsAssumption DEF Base, Typed, CurFrame
  <2>2. CurPos = 1 => CurFrame - 1 - sequence >= 1
    BY DEF Base, Behind
  <2>3. CurPos # 1 => CurFrame - sequence >= 1
    BY DEF Base, Behind
  <2> QED BY <1>2, <2>1, <2>2, <2>3
<1>6. InSync => queue # <<>> /\ ~blind
  BY DEF InSync, Base, QueueInv
<1> QED BY <1>1, <1>4, <1>5, <1>6

\* What is copied belongs to the present run, and has the number of the frame.
LEMMA FilledIsCounted ==
  ASSUME Base, InSync, CountFrame
  PROVE  /\ queue # <<>> /\ Decoding
         /\ Filled \in Buffer /\ Filled.run = run /\ Filled.seq = sequence'
         /\ Filled.used = 0 <=> Filled.data = {}
         /\ Overflows => Filled.used # 0
<1>1. Decoding /\ ~blind /\ queue # <<>> /\ (buf.state = "ACTIVE" \/ pkt.fid # last_fid)
  BY DEF InSync, InFrame, Base, QueueInv
<1>2. pkt.fid \in {0, 1} /\ pkt.size \in {0, 1} /\ setup \in Setups
  BY <1>1, PacketIs DEF Base, Typed
<1>3. pkt.fid = last_fid => buf.run = run /\ buf.seq = sequence
  BY <1>1, <1>2 DEF Base, QueueInv, FidUnknown
<1>4. Filled \in Buffer /\ Filled.run = run /\ Filled.seq = sequence'
  BY <1>1, <1>3, StampedIs, FilledIs DEF CountFrame
<1>5. BufferLength \in Nat \ {0}
  BY <1>2, SetupIs
<1>6. buf.used \in Nat /\ (buf.used = 0 <=> buf.data = {})
  BY <1>1, <1>2, HeadIs, BufferIs DEF Base, QueueInv
<1> DEFINE whole == /\ Filled.used = 0 <=> Filled.data = {}
                    /\ Overflows => Filled.used # 0
<1>7. ASSUME Overflows PROVE whole
  <2>1. Filled.used = BufferLength /\ Filled.data = buf.data /\ buf.used = BufferLength
    BY <1>1, <1>7, FilledIs
  <2>2. Filled.used # 0 /\ Filled.data # {}
    BY <1>5, <1>6, <2>1
  <2> QED BY <2>2
<1>8. ASSUME ~Overflows, pkt.size = 0 PROVE whole
  <2>1. Filled.used = buf.used + pkt.size /\ Filled.data = buf.data
    BY <1>1, <1>8, FilledIs
  <2>2. Filled.used = buf.used
    BY <1>6, <1>8, <2>1
  <2> QED BY <1>6, <1>8, <2>1, <2>2
<1>9. ASSUME ~Overflows, pkt.size # 0 PROVE whole
  <2>1. Filled.used = buf.used + pkt.size /\ Filled.data = buf.data \cup {<<pkt.frame, pkt.pos>>}
    BY <1>1, <1>9, FilledIs
  <2>2. Filled.used # 0
    BY <1>2, <1>6, <1>9, <2>1
  <2>3. Filled.data # {}
    BY <2>1
  <2> QED BY <1>9, <2>2, <2>3
<1> QED BY <1>1, <1>4, <1>7, <1>8, <1>9

\* A packet is consumed, with or without a place to put it.
LEMMA ConsumeStep ==
  ASSUME Base, Consume
  PROVE  /\ Base' /\ Consumes
         /\ NoBuffer \/ OutOfSync =>
              /\ HeadKept \/ (queue = <<>> /\ queue' = <<>>)
              /\ queue # <<>> => buf.state # "ACTIVE"
              /\ UNCHANGED <<blind, done>>
              /\ OutOfSync => queue # <<>> /\ ~blind /\ CurFid = last_fid
              /\ NoBuffer => last_fid' = CurFid
         /\ PayloadCopied =>
              /\ InSync /\ CountFrame /\ done' = done /\ blind' = blind /\ ~Ends
              /\ queue' # <<>> /\ buf' = Filled /\ last_fid' = CurFid
         /\ FrameEnded =>
              /\ InSync /\ CountFrame /\ HeadFresh /\ Ends
              /\ \E z \in Buffer : /\ done' = Append(done, z) /\ z.seq = Filled.seq
                                   /\ z.run = Filled.run /\ z.data = Filled.data
<1>1. /\ Consumes /\ sequence' \in -1 .. MaxFrames /\ ~Decoding'
      /\ UNCHANGED <<setup, frame, pos, fid, run, faults>> /\ pkt' = NoPacket /\ Decoding
  BY ConsumesIs DEF Consumes, device, Decoding
<1>2. /\ setup \in Setups /\ run \in Nat /\ CurFid = pkt.fid
      /\ last_fid' \in {0, 1, FidUnknown} /\ pkt.fid \in {0, 1}
  BY <1>1, ConsumesGoes, NatRun, PacketIs DEF Base, Typed
<1>3. Behind(1)' /\ PktInv'
  BY <1>1, BehindConsumes DEF Base, PktInv
<1>4. ASSUME queue' \in Seq(Buffer), Len(queue') <= MaxBuffers, done' \in Seq(Buffer),
             blind' \in BOOLEAN, QueueInv'
      PROVE  Base'
  <2>1. Typed'
    <3>1. Buffer' = Buffer /\ LastPos' = LastPos /\ Packets' = Packets
      BY <1>1, SetupStays
    <3> QED BY <1>1, <1>2, <1>4, <3>1 DEF Base, Typed, FidUnknown
  <2> QED BY <1>3, <1>4, <2>1 DEF Base
<1>5. queue \in Seq(Buffer) /\ Len(queue) <= MaxBuffers /\ done \in Seq(Buffer) /\ blind \in BOOLEAN
      /\ setup \in Setups
  BY DEF Base, Typed
<1>6. CASE NoBuffer
  <2>1. blind /\ UNCHANGED <<queue, blind, done>> /\ last_fid' = pkt.fid
    BY <1>6 DEF NoBuffer
  <2>2. queue # <<>> => buf.state = "QUEUED"
    BY <2>1 DEF Base, QueueInv
  <2>3. QueueInv'
    BY <1>1, <2>1, <2>2 DEF Base, QueueInv, buf
  <2>4. HeadKept \/ (queue = <<>> /\ queue' = <<>>)
    BY <2>1 DEF HeadKept, buf
  <2>5. Base'
    BY <1>4, <1>5, <2>1, <2>3
  <2>6. ~PayloadCopied /\ ~FrameEnded /\ ~OutOfSync
    BY <2>1 DEF PayloadCopied, FrameEnded, OutOfSync, InSync
  <2>7. queue # <<>> => buf.state # "ACTIVE"
    BY <2>2
  <2> QED BY <1>1, <1>2, <2>1, <2>4, <2>5, <2>6, <2>7
<1>7. CASE OutOfSync
  <2>1. /\ ~blind /\ UNCHANGED <<blind, done>> /\ buf.state # "ACTIVE" /\ pkt.fid = last_fid
        /\ queue' = [queue EXCEPT ![1] = Stamped]
    BY <1>7 DEF OutOfSync
  <2>2. queue # <<>>
    BY <2>1 DEF Base, QueueInv
  <2>3. Stamped \in Buffer /\ Stamped.state = buf.state /\ Stamped.used = buf.used
        /\ Stamped.data = buf.data /\ Stamped.seq = buf.seq /\ Stamped.run = buf.run
        /\ (buf.error => Stamped.error)
    BY <1>1, <2>1, <2>2, StampedIs
  <2>4. /\ queue' \in Seq(Buffer) /\ Len(queue') = Len(queue) /\ queue' # <<>>
        /\ queue'[1] = Stamped /\ RestFresh
    BY <2>1, <2>2, <2>3, HeadReplaced DEF RestFresh
  <2>5. buf' = Stamped
    BY <2>4 DEF buf
  <2>6. HeadKept
    BY <2>2, <2>3, <2>4, <2>5 DEF HeadKept
  <2>7. QueueInv'
    <3>1. PICK b : b = buf'
      OBVIOUS
    <3>2. /\ b.state = "QUEUED" => b.used = 0
          /\ b.used = 0 <=> b.data = {}
          /\ b.run <= run
          /\ b.state # "ACTIVE"
      BY <2>1, <2>2, <2>3, <2>5, <3>1 DEF Base, QueueInv
    <3> QED BY <1>1, <2>1, <2>4, <3>1, <3>2 DEF QueueInv, Base, RestFresh, Fresh
  <2>8. Base'
    BY <1>4, <1>5, <2>1, <2>4, <2>7
  <2>9. ~PayloadCopied /\ ~FrameEnded /\ ~NoBuffer
    BY <2>1 DEF PayloadCopied, FrameEnded, NoBuffer, InSync
  <2> QED BY <1>1, <1>2, <2>1, <2>2, <2>6, <2>8, <2>9
<1>8. CASE PayloadCopied
  <2>1. InSync /\ CountFrame /\ UNCHANGED <<blind, done>> /\ last_fid' = pkt.fid /\ ~Ends
        /\ queue' = [queue EXCEPT ![1] = Filled]
    BY <1>8 DEF PayloadCopied
  <2>2. /\ queue # <<>> /\ Filled \in Buffer /\ Filled.run = run /\ Filled.seq = sequence'
        /\ Filled.used = 0 <=> Filled.data = {}
    BY <2>1, FilledIsCounted
  <2>3. Filled.state = "ACTIVE"
    BY <1>1, <2>2, FilledIs
  <2>4. /\ queue' \in Seq(Buffer) /\ Len(queue') = Len(queue) /\ queue' # <<>>
        /\ queue'[1] = Filled /\ RestFresh
    BY <2>1, <2>2, HeadReplaced DEF RestFresh
  <2>5. buf' = Filled
    BY <2>4 DEF buf
  <2>6. ~blind
    BY <2>1 DEF InSync
  <2>7. QueueInv'
    <3>1. PICK b : b = buf'
      OBVIOUS
    <3>2. /\ b.used = 0 <=> b.data = {}
          /\ b.run = run' /\ b.seq = sequence' /\ b.state = "ACTIVE"
      BY <1>1, <2>2, <2>3, <2>5, <3>1
    <3>3. run' <= run'
      BY <1>1, <1>2
    <3> QED BY <1>1, <2>1, <2>4, <2>6, <3>1, <3>2, <3>3 DEF QueueInv, RestFresh, Fresh
  <2>8. Base'
    BY <1>4, <1>5, <2>1, <2>4, <2>7
  <2>9. ~NoBuffer /\ ~OutOfSync /\ ~FrameEnded
    BY <2>1 DEF NoBuffer, OutOfSync, FrameEnded, InSync
  <2> QED BY <1>1, <1>2, <2>1, <2>4, <2>5, <2>8, <2>9
<1>9. CASE FrameEnded
  <2>1. InSync /\ CountFrame /\ HandOver(Filled) /\ Ends
    BY <1>9 DEF FrameEnded
  <2>2. queue # <<>> /\ Filled \in Buffer
    BY <2>1, FilledIsCounted
  <2>3. /\ queue' \in Seq(Buffer) /\ Len(queue') <= MaxBuffers
        /\ \A i \in DOMAIN queue' : queue'[i] = Fresh
        /\ (~setup.starves => ~blind') /\ (blind' <=> queue' = <<>>) /\ blind' \in BOOLEAN
        /\ \E z \in Buffer : /\ done' = Append(done, z)
                             /\ z.seq = Filled.seq /\ z.run = Filled.run /\ z.data = Filled.data
    BY <1>1, <2>1, <2>2, HandOverIs
  <2>4. HeadFresh /\ RestFresh
    BY <2>3, AllFresh
  <2>5. QueueInv'
    BY <1>1, <1>2, <2>3, <2>4, QueueFresh
  <2>6. done' \in Seq(Buffer)
    <3>1. PICK z \in Buffer : done' = Append(done, z)
      BY <2>3
    <3> QED BY <1>5, <3>1, AppendProperties
  <2>7. Base'
    BY <1>4, <2>3, <2>5, <2>6
  <2>8. ~NoBuffer /\ ~OutOfSync /\ ~PayloadCopied
    BY <2>1 DEF NoBuffer, OutOfSync, PayloadCopied, InSync
  <2> QED BY <1>1, <2>1, <2>3, <2>4, <2>7, <2>8
<1> QED BY <1>6, <1>7, <1>8, <1>9 DEF Consume

\* No frame of F is later than the one being decoded; and when F holds payloads
\* of that one, last_fid shows that its FID was seen.
Held(F) == \A f \in F : f <= CurFrame /\ (f = CurFrame => CurPos # 1 /\ last_fid = CurFid)

Before(F, G) == \A f \in F, g \in G : f < g

\* A new frame is taken in only when no earlier buffer holds a part of it.
DataInv ==
  /\ \A i \in DOMAIN done : done[i].data # {} /\ Held(Frames(done[i])) /\ \A f \in Frames(done[i]) : f >= i
  /\ \A i, j \in DOMAIN done : i < j => Before(Frames(done[i]), Frames(done[j]))
  /\ queue # <<>> =>
       /\ Held(Frames(buf))
       /\ \A i \in DOMAIN done : Before(Frames(done[i]), Frames(buf))
       /\ buf.state = "ACTIVE" => \A i \in DOMAIN done : CurFrame \notin Frames(done[i])

\* The ways the decoder moves on.
Moves ==
  \/ Stays /\ (last_fid' = last_fid \/ CurPos = 1)
  \/ Goes /\ (last_fid' = last_fid \/ last_fid' = CurFid \/ CurPos = LastPos)
  \/ CurFrame' = CurFrame + 1

LEMMA HeldMoves ==
  ASSUME Base, Moves, NEW F, F \subseteq 1 .. MaxFrames, Held(F)
  PROVE  Held(F)' /\ (CurFrame \notin F => CurFrame' \notin F)
<1>1. PICK c \in Int, p \in Int, n \in Nat \ {0} : c = CurFrame /\ p = CurPos /\ n = LastPos /\ p \in 1 .. n
  BY CurIs, BoundsAssumption, SetupIs DEF Base, Typed
<1>2. PICK c1, p1, f1, l1 :
        c1 = CurFrame' /\ p1 = CurPos' /\ f1 = CurFid' /\ l1 = last_fid'
  OBVIOUS
<1>3. \/ c1 = c /\ p1 = p /\ f1 = CurFid /\ (l1 = last_fid \/ p = 1)
      \/ c1 = c /\ p1 = p + 1 /\ f1 = CurFid /\ (l1 = last_fid \/ l1 = CurFid)
      \/ c1 = c + 1
  BY <1>1, <1>2 DEF Moves, Stays, Goes
<1>4. ASSUME NEW f \in F
      PROVE  /\ f <= c1 /\ (f = c1 => p1 # 1 /\ l1 = f1)
             /\ c \notin F => f # c1
  <2>1. f \in Int /\ f <= c /\ (f = c => p # 1 /\ last_fid = CurFid)
    BY <1>1, BoundsAssumption DEF Held
  <2> QED BY <1>1, <1>3, <2>1
<1> QED BY <1>1, <1>2, <1>4 DEF Held

\* done is as it was, and the first buffer kept or fresh.
LEMMA DataKept ==
  ASSUME Base, DataInv, Moves, done' = done, setup' = setup, HeadKept \/ HeadFresh
  PROVE  DataInv'
<1>1. setup \in Setups
  BY DEF Base, Typed
<1>2. ASSUME NEW i \in DOMAIN done
      PROVE  Frames(done[i]) \subseteq 1 .. MaxFrames /\ done[i] \in Buffer
  BY <1>1, BufferIs, ElementOfSeq DEF Base, Typed
<1>3. \A i \in DOMAIN done : Held(Frames(done[i]))' /\ Frames(done[i])' = Frames(done[i])
                              /\ done'[i] = done[i]
  <2> SUFFICES ASSUME NEW i \in DOMAIN done
               PROVE  Held(Frames(done[i]))' /\ Frames(done[i])' = Frames(done[i]) /\ done'[i] = done[i]
    OBVIOUS
  <2>1. PICK F : F = Frames(done[i])
    OBVIOUS
  <2>2. F = Frames(done[i])'
    BY <2>1 DEF Frames
  <2>3. Held(F)'
    BY <1>2, <2>1, HeldMoves DEF DataInv
  <2> QED BY <2>1, <2>2, <2>3 DEF Held
<1>4. CASE HeadKept
  <2>1. queue # <<>>
    BY <1>4 DEF HeadKept
  <2>2. PICK F : F = Frames(buf)
    OBVIOUS
  <2>3. F = Frames(buf)' /\ buf'.state = buf.state
    BY <1>4, <2>2 DEF HeadKept, Frames
  <2>4. F \subseteq 1 .. MaxFrames
    BY <1>1, <2>1, <2>2, HeadIs, BufferIs DEF Base
  <2>5. Held(F)'
    BY <2>1, <2>2, <2>4, HeldMoves DEF DataInv
  <2>6. Held(Frames(buf))'
    BY <2>3, <2>5 DEF Held
  <2>7. \A i \in DOMAIN done : Before(Frames(done[i]), F)
    BY <2>1, <2>2 DEF DataInv
  <2>8. buf.state = "ACTIVE" => \A i \in DOMAIN done : CurFrame' \notin Frames(done[i])
    <3> SUFFICES ASSUME buf.state = "ACTIVE", NEW i \in DOMAIN done
                 PROVE  CurFrame' \notin Frames(done[i])
      OBVIOUS
    <3>1. CurFrame \notin Frames(done[i]) /\ Held(Frames(done[i]))
      BY <2>1 DEF DataInv
    <3>2. PICK G : G = Frames(done[i])
      OBVIOUS
    <3> QED BY <1>2, <3>1, <3>2, HeldMoves
  <2> QED BY <1>3, <2>3, <2>6, <2>7, <2>8 DEF DataInv, Before, HeadKept
<1>5. CASE HeadFresh
  <2>1. queue' # <<>> => Frames(buf)' = {} /\ buf'.state = "QUEUED"
    BY <1>5 DEF HeadFresh, Fresh, Frames
  <2> QED BY <1>3, <2>1 DEF DataInv, Before, Held
<1> QED BY <1>4, <1>5

\* What done[i] is after a buffer is handed over.
LEMMA DoneIs ==
  ASSUME Base, NEW z \in Buffer, done' = Append(done, z)
  PROVE  /\ Len(done) \in Nat /\ DOMAIN done = 1 .. Len(done) /\ DOMAIN done' = 1 .. Len(done) + 1
         /\ \A i \in DOMAIN done : done'[i] = done[i] /\ i # Len(done) + 1 /\ i \in Nat
         /\ done'[Len(done) + 1] = z
         /\ \A i \in DOMAIN done' : i \in DOMAIN done \/ i = Len(done) + 1
         /\ DOMAIN done \subseteq DOMAIN done'
<1>1. done \in Seq(Buffer)
  BY DEF Base, Typed
<1> QED BY <1>1, AppendProperties

\* A frame is handed over.
LEMMA DataHandedOver ==
  ASSUME Base, DataInv, Moves, NEW z \in Buffer, done' = Append(done, z), HeadFresh,
         setup' = setup, z.data # {}, Held(Frames(z))',
         \A i \in DOMAIN done : Before(Frames(done[i]), Frames(z))
  PROVE  DataInv'
<1>1. setup \in Setups
  BY DEF Base, Typed
<1> DEFINE n == Len(done)
<1>2. /\ n \in Nat /\ DOMAIN done = 1 .. n /\ DOMAIN done' = 1 .. n + 1
      /\ \A i \in DOMAIN done : done'[i] = done[i] /\ i # n + 1 /\ i \in Nat
      /\ done'[n + 1] = z
      /\ \A i \in DOMAIN done' : i \in DOMAIN done \/ i = n + 1
  BY DoneIs
<1> HIDE DEF n
<1>3. ASSUME NEW i \in DOMAIN done
      PROVE  /\ done[i].data # {} /\ Held(Frames(done[i]))' /\ Frames(done[i]) # {}
             /\ \A f \in Frames(done[i]) : f \in Nat /\ f >= i
  <2>1. Frames(done[i]) \subseteq 1 .. MaxFrames /\ (Frames(done[i]) = {} <=> done[i].data = {})
    <3>1. done[i] \in Buffer
      BY ElementOfSeq DEF Base, Typed
    <3> QED BY <1>1, <3>1, BufferIs
  <2>2. PICK F : F = Frames(done[i])
    OBVIOUS
  <2>3. F = Frames(done'[i])
    BY <1>2, <2>2 DEF Frames
  <2>4. Held(F)'
    BY <2>1, <2>2, HeldMoves DEF DataInv
  <2>5. \A f \in F : f \in Nat /\ f >= i
    BY <2>1, <2>2, BoundsAssumption DEF DataInv
  <2>6. F = Frames(done[i])'
    BY <2>3 DEF Frames
  <2>7. Held(Frames(done[i]))'
    BY <2>4, <2>6 DEF Held
  <2>8. done[i].data # {}
    BY DEF DataInv
  <2>9. Frames(done[i]) # {}
    BY <2>1, <2>8
  <2>10. \A f \in Frames(done[i]) : f \in Nat /\ f >= i
    BY <2>2, <2>5
  <2> QED BY <2>7, <2>8, <2>9, <2>10
<1>4. \A f \in Frames(z) : f >= n + 1
  <2> SUFFICES ASSUME NEW f \in Frames(z) PROVE f >= n + 1
    OBVIOUS
  <2>1. f \in 1 .. MaxFrames
    BY <1>1, BufferIs
  <2>2. CASE n = 0
    BY <2>1, <2>2, BoundsAssumption
  <2>3. CASE n # 0
    <3>1. n \in DOMAIN done
      BY <1>2, <2>3
    <3>2. PICK g \in Frames(done[n]) : g \in Nat /\ g >= n
      BY <1>3, <3>1
    <3>3. g < f
      BY <3>1, <3>2 DEF Before
    <3> QED BY <1>2, <2>1, <3>2, <3>3, BoundsAssumption
  <2> QED BY <2>2, <2>3
<1>5. Frames(z)' = Frames(z)
  BY DEF Frames
<1>6. \A i \in DOMAIN done' : /\ done'[i].data # {} /\ Held(Frames(done[i]))'
                              /\ \A f \in Frames(done'[i]) : f >= i
  <2> SUFFICES ASSUME NEW i \in DOMAIN done'
               PROVE  /\ done'[i].data # {} /\ Held(Frames(done[i]))'
                      /\ \A f \in Frames(done'[i]) : f >= i
    OBVIOUS
  <2>1. CASE i \in DOMAIN done
    BY <1>2, <1>3, <2>1 DEF Held, Frames
  <2>2. CASE i = n + 1
    BY <1>2, <1>4, <1>5, <2>2 DEF Held, Frames
  <2> QED BY <1>2, <2>1, <2>2
<1>7. \A i, j \in DOMAIN done' : i < j => Before(Frames(done'[i]), Frames(done'[j]))
  <2> SUFFICES ASSUME NEW i \in DOMAIN done', NEW j \in DOMAIN done', i < j
               PROVE  Before(Frames(done'[i]), Frames(done'[j]))
    OBVIOUS
  <2>1. i \in DOMAIN done
    BY <1>2
  <2>2. CASE j \in DOMAIN done
    BY <1>2, <2>1, <2>2 DEF DataInv
  <2>3. CASE j = n + 1
    BY <1>2, <2>1, <2>3
  <2> QED BY <1>2, <2>2, <2>3
<1>8. queue' # <<>> => Frames(buf)' = {} /\ buf'.state = "QUEUED"
  BY DEF HeadFresh, Fresh, Frames
<1>9. \A i, j \in DOMAIN done' : i < j => Before(Frames(done[i]), Frames(done[j]))'
  BY <1>7 DEF Before, Frames
<1>10. \A i \in DOMAIN done' : (\A f \in Frames(done[i])' : f >= i)
  BY <1>6 DEF Frames
<1>11. \A i \in DOMAIN done' : done'[i].data # {} /\ Held(Frames(done[i]))' /\ \A f \in Frames(done[i])' : f >= i
  BY <1>6, <1>10
<1>12. queue' # <<>> => /\ Held(Frames(buf))' /\ buf'.state # "ACTIVE"
                        /\ \A i \in DOMAIN done' : Before(Frames(done[i]), Frames(buf))'
  BY <1>8 DEF Held, Before
<1> QED BY <1>9, <1>11, <1>12 DEF DataInv

LEMMA FilledData ==
  ASSUME Base, DataInv, InSync, CountFrame, Goes, CurFrame = pkt.frame, CurPos = pkt.pos,
         CurFid = pkt.fid, last_fid' = CurFid \/ CurPos = LastPos, NEW F, F = Frames(Filled)
  PROVE  /\ Held(F)'
         /\ \A i \in DOMAIN done : Before(Frames(done[i]), Frames(Filled)) /\ CurFrame' \notin Frames(done[i])
<1>1. /\ queue # <<>> /\ Decoding /\ Filled \in Buffer
      /\ buf.state = "ACTIVE" \/ pkt.fid # last_fid
      /\ Frames(Filled) = Frames(buf) \/ Frames(Filled) = Frames(buf) \cup {pkt.frame}
  BY FilledIsCounted, FilledIs DEF InSync
<1>2. /\ Held(Frames(buf)) /\ Frames(buf) \subseteq 1 .. MaxFrames /\ pkt.frame \in 1 .. MaxFrames
      /\ MaxFrames \in Nat /\ LastPos \in Nat \ {0} /\ pkt.pos \in 1 .. LastPos
  BY <1>1, HeadIs, BufferIs, PacketIs, SetupIs, BoundsAssumption DEF DataInv, Base, Typed
<1>3. ASSUME NEW f \in Frames(Filled) PROVE f \in Nat /\ f <= pkt.frame
  BY <1>1, <1>2, <1>3 DEF Held
<1>4. PICK c1, p1, f1, l1, c, p, f :
        /\ c1 = CurFrame' /\ p1 = CurPos' /\ f1 = CurFid' /\ l1 = last_fid'
        /\ c = CurFrame /\ p = CurPos /\ f = CurFid
  OBVIOUS
<1>5. /\ \/ p < LastPos /\ c1 = c /\ p1 = p + 1 /\ f1 = f /\ l1 = f
         \/ c1 = c + 1
      /\ c = pkt.frame /\ p = pkt.pos /\ f = pkt.fid
  BY <1>2, <1>4 DEF Goes
<1>6. Held(F)'
  <2>1. ASSUME NEW g \in F PROVE g <= c1 /\ (g = c1 => p1 # 1 /\ l1 = f1)
    BY <1>2, <1>3, <1>5
  <2> QED BY <1>4, <2>1 DEF Held
<1>7. ASSUME NEW i \in DOMAIN done
      PROVE  Before(Frames(done[i]), Frames(Filled)) /\ CurFrame' \notin Frames(done[i])
  <2>1. Held(Frames(done[i])) /\ Before(Frames(done[i]), Frames(buf))
    BY <1>1 DEF DataInv
  <2>2. pkt.frame \notin Frames(done[i])
    BY <1>1, <1>4, <1>5, <2>1 DEF DataInv, Held
  <2>3. \A g \in Frames(done[i]) : g < pkt.frame
    <3>1. done[i] \in Buffer /\ setup \in Setups
      BY ElementOfSeq DEF Base, Typed
    <3>2. Frames(done[i]) \subseteq 1 .. MaxFrames
      BY <3>1, BufferIs
    <3> QED BY <1>2, <1>4, <1>5, <2>1, <2>2, <3>2 DEF Held
  <2>4. CurFrame' \notin Frames(done[i])
    BY <1>2, <1>4, <1>5, <2>3
  <2> QED BY <1>1, <2>1, <2>3, <2>4 DEF Before
<1> QED BY <1>6, <1>7

LEMMA DataInit == Init => DataInv
<1> SUFFICES ASSUME Init PROVE DataInv
  OBVIOUS
<1>1. DOMAIN done = {}
  BY DEF Init
<1>2. queue # <<>> => buf = Fresh
  BY DEF Init, buf
<1>3. queue # <<>> => Frames(buf) = {} /\ buf.state = "QUEUED"
  BY <1>2 DEF Fresh, Frames
<1> QED BY <1>1, <1>3 DEF DataInv, Held, Before

\* Every step keeps the frames apart.
LEMMA DataStep ==
  ASSUME Base, DataInv, [Next]_vars
  PROVE  Base' /\ DataInv'
<1>1. CASE Arrive
  <2>1. Base' /\ Moves /\ done' = done /\ setup' = setup
    BY <1>1, ArriveStep DEF Moves
  <2>2. queue' = queue
    BY <1>1, ArriveStep
  <2>3. HeadKept \/ HeadFresh
    BY <2>2 DEF HeadKept, HeadFresh, buf
  <2> QED BY <2>1, <2>3, DataKept
<1>2. CASE PacketLost \/ PacketInvalid
  <2>1. Base' /\ Moves /\ done' = done /\ setup' = setup /\ (HeadKept \/ HeadFresh)
    BY <1>2, LostStep DEF Moves, HeadFresh
  <2> QED BY <2>1, DataKept
<1>3. CASE NextUrb \/ QueueBuffer
  <2>1. Base' /\ Moves /\ done' = done /\ setup' = setup /\ (HeadKept \/ HeadFresh)
    BY <1>3, QueueStep DEF Moves
  <2> QED BY <2>1, DataKept
<1>4. CASE SuspendResume \/ StopStart
  <2>1. Base' /\ Moves /\ done' = done /\ setup' = setup /\ (HeadKept \/ HeadFresh)
    BY <1>4, StartStep DEF Moves
  <2> QED BY <2>1, DataKept
<1>5. CASE FidToggled \/ ImageStarted
  <2>1. /\ Base' /\ Moves /\ setup' = setup /\ queue # <<>> /\ buf.used # 0 /\ HeadFresh
    BY <1>5, EndedStep DEF Moves
  <2>2. PICK z \in Buffer : done' = Append(done, z) /\ z.data = buf.data
    BY <1>5, EndedStep
  <2>3. z.data # {}
    BY <2>1, <2>2 DEF Base, QueueInv
  <2>4. Frames(z) = Frames(buf) /\ Frames(z) \subseteq 1 .. MaxFrames
    <3>1. setup \in Setups
      BY DEF Base, Typed
    <3> QED BY <2>2, <3>1, BufferIs DEF Frames
  <2>5. Held(Frames(z)) /\ \A i \in DOMAIN done : Before(Frames(done[i]), Frames(z))
    BY <2>1, <2>4 DEF DataInv
  <2>6. Held(Frames(z))'
    <3>1. PICK F : F = Frames(z)
      OBVIOUS
    <3>2. Held(F)'
      BY <2>1, <2>4, <2>5, <3>1, HeldMoves
    <3> QED BY <3>1, <3>2 DEF Held, Frames
  <2> QED BY <2>1, <2>2, <2>3, <2>5, <2>6, DataHandedOver
<1>6. CASE NoBuffer \/ OutOfSync
  <2>1. Consume
    BY <1>6 DEF Consume
  <2>2. Base' /\ Consumes /\ done' = done /\ (HeadKept \/ HeadFresh)
    BY <1>6, <2>1, ConsumeStep DEF HeadFresh
  <2>3. Goes /\ (last_fid' = CurFid \/ CurPos = LastPos) /\ setup' = setup
    BY <2>2, ConsumesGoes DEF Consumes
  <2> QED BY <2>2, <2>3, DataKept DEF Moves
<1>7. CASE PayloadCopied
  <2>1. Consume
    BY <1>7 DEF Consume
  <2>2. /\ Base' /\ Consumes /\ done' = done /\ InSync /\ CountFrame
        /\ queue' # <<>> /\ buf' = Filled
    BY <1>7, <2>1, ConsumeStep
  <2>3. Goes /\ CurFrame = pkt.frame /\ CurPos = pkt.pos /\ CurFid = pkt.fid
        /\ (last_fid' = CurFid \/ CurPos = LastPos) /\ setup' = setup
    BY <2>2, ConsumesGoes DEF Consumes
  <2>4. PICK F : F = Frames(Filled)
    OBVIOUS
  <2>5. /\ Held(F)'
        /\ \A i \in DOMAIN done : Before(Frames(done[i]), F) /\ CurFrame' \notin Frames(done[i])
    BY <2>2, <2>3, <2>4, FilledData
  <2>6. F = Frames(buf)'
    BY <2>2, <2>4 DEF Frames
  <2>7. Held(Frames(buf))' /\ \A i \in DOMAIN done : Before(Frames(done[i]), Frames(buf)')
    BY <2>5, <2>6 DEF Held
  <2>8. \A i \in DOMAIN done : Held(Frames(done[i]))'
    <3> SUFFICES ASSUME NEW i \in DOMAIN done PROVE Held(Frames(done[i]))'
      OBVIOUS
    <3>1. PICK G : G = Frames(done[i])
      OBVIOUS
    <3>2. G = Frames(done[i])'
      BY <2>2, <3>1 DEF Frames
    <3>3. done[i] \in Buffer /\ setup \in Setups
      BY ElementOfSeq DEF Base, Typed
    <3>4. G \subseteq 1 .. MaxFrames /\ Held(G)
      BY <3>1, <3>3, BufferIs DEF DataInv
    <3>5. Held(G)'
      BY <2>3, <3>4, HeldMoves DEF Moves
    <3> QED BY <3>2, <3>5 DEF Held
  <2>9. \A i \in DOMAIN done : Frames(done[i])' = Frames(done[i]) /\ done'[i] = done[i]
    BY <2>2 DEF Frames
  <2>10. DOMAIN done' = DOMAIN done
    BY <2>2
  <2>11. \A i \in DOMAIN done' : done'[i].data # {} /\ Held(Frames(done[i]))'
                                /\ \A f \in Frames(done[i])' : f >= i
    BY <2>8, <2>9, <2>10 DEF DataInv
  <2>12. \A i, j \in DOMAIN done' : i < j => Before(Frames(done[i]), Frames(done[j]))'
    BY <2>9, <2>10 DEF DataInv, Before
  <2>13. \A i \in DOMAIN done' : Before(Frames(done[i]), Frames(buf))' /\ CurFrame' \notin Frames(done[i])'
    BY <2>5, <2>7, <2>9, <2>10 DEF Before
  <2> QED BY <2>2, <2>7, <2>11, <2>12, <2>13 DEF DataInv
<1>8. CASE FrameEnded
  <2>1. Consume
    BY <1>8 DEF Consume
  <2>2. /\ Base' /\ Consumes /\ InSync /\ CountFrame /\ HeadFresh /\ Ends
    BY <1>8, <2>1, ConsumeStep
  <2>3. Goes /\ CurFrame = pkt.frame /\ CurPos = pkt.pos /\ CurFid = pkt.fid
        /\ (last_fid' = CurFid \/ CurPos = LastPos) /\ setup' = setup
    BY <2>2, ConsumesGoes DEF Consumes
  <2>4. PICK z \in Buffer : done' = Append(done, z) /\ z.data = Filled.data
    BY <1>8, <2>1, ConsumeStep
  <2>5. z.data # {}
    BY <2>2, <2>4, FilledIsCounted DEF Ends, EofFound
  <2>6. PICK F : F = Frames(Filled)
    OBVIOUS
  <2>7. F = Frames(z)
    BY <2>4, <2>6 DEF Frames
  <2>8. /\ Held(F)'
        /\ \A i \in DOMAIN done : Before(Frames(done[i]), F)
    BY <2>2, <2>3, <2>6, FilledData
  <2>9. Held(Frames(z))'
    BY <2>7, <2>8 DEF Held, Frames
  <2> QED BY <2>2, <2>3, <2>4, <2>5, <2>7, <2>8, <2>9, DataHandedOver DEF Moves
<1>9. CASE UNCHANGED vars
  <2>1. /\ UNCHANGED <<setup, frame, pos, fid, pkt, queue, blind, last_fid, sequence, done, run, faults>>
    BY <1>9 DEF vars, device
  <2>2. Stays
    BY <2>1 DEF Stays, CurFrame, CurPos, CurFid, Decoding
  <2>3. Base'
    BY <2>1, <2>2, SetupStays, QueueStays, OneBehindStays DEF Base, Typed, PktInv, Decoding, NoPacket, FidUnknown
  <2>4. HeadKept \/ HeadFresh
    BY <2>1 DEF HeadKept, HeadFresh, buf
  <2> QED BY <2>1, <2>2, <2>3, <2>4, DataKept DEF Moves
<1> QED BY <1>1, <1>2, <1>3, <1>4, <1>5, <1>6, <1>7, <1>8, <1>9 DEF Next, Bus, Decode

\* No buffer is handed over without a frame, so there are no more of them than frames.
LEMMA DataIsApart ==
  ASSUME Base, DataInv
  PROVE  FramesApart
<1>1. setup \in Setups /\ done \in Seq(Buffer) /\ MaxFrames \in Nat
  BY BoundsAssumption DEF Base, Typed
<1>2. Len(done) <= MaxFrames
  <2>1. Len(done) \in Nat /\ DOMAIN done = 1 .. Len(done)
    BY <1>1
  <2>2. CASE Len(done) = 0
    BY <1>1, <2>2
  <2>3. CASE Len(done) # 0
    <3> DEFINE n == Len(done)
    <3>1. n \in Nat /\ n \in DOMAIN done
      BY <2>1, <2>3
    <3>2. done[n] \in Buffer
      BY <1>1, <3>1, ElementOfSeq
    <3>3. Frames(done[n]) \subseteq 1 .. MaxFrames /\ Frames(done[n]) # {}
      BY <1>1, <3>1, <3>2, BufferIs DEF DataInv
    <3>4. PICK f \in Frames(done[n]) : f >= n
      BY <3>1, <3>3 DEF DataInv
    <3> QED BY <1>1, <3>1, <3>3, <3>4
  <2> QED BY <2>2, <2>3
<1>3. FramesNotSplit
  <2> SUFFICES ASSUME NEW i \in DOMAIN done, NEW j \in DOMAIN done, i # j
               PROVE  Frames(done[i]) \cap Frames(done[j]) = {}
    BY DEF FramesNotSplit
  <2>1. i \in Nat /\ j \in Nat
    BY <1>1
  <2>2. \A k \in {i, j} : \A f \in Frames(done[k]) : f \in Int
    <3> SUFFICES ASSUME NEW k \in {i, j} PROVE \A f \in Frames(done[k]) : f \in Int
      OBVIOUS
    <3>1. done[k] \in Buffer
      BY <1>1, ElementOfSeq
    <3> QED BY <1>1, <3>1, BufferIs
  <2>3. CASE i < j
    BY <2>2, <2>3 DEF DataInv, Before
  <2>4. CASE j < i
    BY <2>2, <2>4 DEF DataInv, Before
  <2> QED BY <2>1, <2>3, <2>4
<1>4. run \in 1 .. MaxFaults + 1
  BY BoundsAssumption DEF Base, Typed
<1>5. TypeOK
  BY <1>1, <1>2, <1>4 DEF Base, Typed, TypeOK
<1> QED BY <1>3, <1>5 DEF FramesApart

\* No frame of the device is continued in a second buffer, and last_fid is a FID
\* bit or unknown, whatever ends a frame and whatever the bus loses.
THEOREM FramesStayApart == Spec => []FramesApart
<1>1. Init => Base /\ DataInv
  BY BaseInit, DataInit
<1>2. (Base /\ DataInv) /\ [Next]_vars => (Base /\ DataInv)'
  BY DataStep
<1>3. Base /\ DataInv => FramesApart
  BY DataIsApart
<1> QED BY <1>1, <1>2, <1>3, PTL DEF Spec

-----------------------------------------------------------------------------
(* Sequence numbers *)

HasFirst(b) == \E f \in Frames(b) : \A g \in Frames(b) : f <= g

\* How far the sequence number of b is behind the frames of the device.
Offset(b) == FirstFrame(b) - b.seq

\* Since b the sequence number has not come nearer to them.
Counted(b) ==
  /\ b.run <= run
  /\ b.data # {} => HasFirst(b)
  /\ b.run = run => b.seq <= sequence /\ (b.data # {} => Behind(Offset(b)))

Earlier(a, b) == a.run = b.run => a.seq < b.seq /\ (b.data # {} => Offset(a) <= Offset(b))

SeqInv ==
  /\ \A i \in DOMAIN done : Counted(done[i])
  /\ \A i, j \in DOMAIN done : i < j => Earlier(done[i], done[j])
  /\ queue # <<>> /\ buf.state = "ACTIVE" =>
       Counted(buf) /\ \A i \in DOMAIN done : Earlier(done[i], buf)

\* The ways the decoder counts.
Counts ==
  \/ /\ run' = run /\ sequence' \in {sequence, sequence + 1}
     /\ \A l \in Int : Behind(l) => Behind(l)'
  \/ run' = run + 1

LEMMA OffsetIs ==
  ASSUME setup \in Setups, NEW b \in Buffer, HasFirst(b)
  PROVE  /\ FirstFrame(b) \in Frames(b) /\ \A g \in Frames(b) : FirstFrame(b) <= g
         /\ FirstFrame(b) \in Int /\ Offset(b) \in Int
<1>1. FirstFrame(b) \in Frames(b) /\ \A g \in Frames(b) : FirstFrame(b) <= g
  BY DEF HasFirst, FirstFrame
<1>2. FirstFrame(b) \in Int /\ b.seq \in Int
  BY <1>1, BufferIs
<1> QED BY <1>1, <1>2 DEF Offset

LEMMA SameOffset ==
  ASSUME NEW a, NEW b, a.data = b.data, a.seq = b.seq
  PROVE  Offset(a) = Offset(b) /\ FirstFrame(a) = FirstFrame(b) /\ (HasFirst(a) <=> HasFirst(b))
BY DEF Offset, FirstFrame, Frames, HasFirst

LEMMA CountedMoves ==
  ASSUME Base, Counts, NEW b \in Buffer, Counted(b)
  PROVE  Counted(b)'
<1>1. PICK r \in Int, r0 \in Int : r = run /\ r0 = b.run /\ r0 <= r
  BY NatRun, BufferIs DEF Base, Counted, Typed
<1>2. CASE run' = run + 1
  <2>1. b.run <= run' /\ b.run # run'
    BY <1>1, <1>2
  <2> QED BY <2>1 DEF Counted, HasFirst, Frames
<1>3. CASE /\ run' = run /\ sequence' \in {sequence, sequence + 1}
           /\ \A l \in Int : Behind(l) => Behind(l)'
  <2>1. PICK s \in Int, s0 \in Int : s = sequence /\ s0 = b.seq
    BY BufferIs DEF Base, Typed
  <2>2. b.run = run => b.seq <= sequence'
    BY <1>3, <2>1 DEF Counted
  <2>3. ASSUME b.run = run, b.data # {} PROVE Behind(Offset(b))'
    <3>1. PICK l \in Int : l = Offset(b)
      BY <2>3, OffsetIs DEF Counted, Base, Typed
    <3>2. Behind(l)
      BY <2>3, <3>1 DEF Counted
    <3>3. Behind(l)'
      BY <1>3, <3>2
    <3>4. l = Offset(b)'
      BY <3>1 DEF Offset, FirstFrame, Frames
    <3> QED BY <3>3, <3>4 DEF Behind
  <2> QED BY <1>1, <1>3, <2>2, <2>3 DEF Counted, HasFirst, Frames
<1> QED BY <1>2, <1>3 DEF Counts

\* The counters of a buffer do not depend on anything else of it.
LEMMA CountedAlike ==
  ASSUME NEW a, NEW b, a.data = b.data, a.seq = b.seq, a.run = b.run
  PROVE  /\ Counted(a) <=> Counted(b)
         /\ \A c : Earlier(c, a) <=> Earlier(c, b)
BY SameOffset DEF Counted, Earlier

LEMMA SeqInit == Init => SeqInv
<1> SUFFICES ASSUME Init PROVE SeqInv
  OBVIOUS
<1>1. DOMAIN done = {}
  BY DEF Init
<1>2. queue # <<>> => buf.state # "ACTIVE"
  BY DEF Init, buf, Fresh
<1> QED BY <1>1, <1>2 DEF SeqInv

LEMMA DoneCounted ==
  ASSUME Base, SeqInv, Counts, NEW i \in DOMAIN done, NEW b, b = done[i]
  PROVE  Counted(b)'
<1>1. b \in Buffer
  BY ElementOfSeq DEF Base, Typed
<1>2. Counted(b)
  BY DEF SeqInv
<1> QED BY <1>1, <1>2, CountedMoves

\* done is as it was, and the first buffer kept or fresh.
LEMMA SeqKept ==
  ASSUME Base, SeqInv, Counts, done' = done, HeadKept \/ HeadFresh
  PROVE  SeqInv'
<1>1. \A i \in DOMAIN done' : Counted(done[i])'
  <2> SUFFICES ASSUME NEW i \in DOMAIN done PROVE Counted(done[i])'
    OBVIOUS
  <2>1. PICK b : b = done[i]
    OBVIOUS
  <2>2. Counted(b)' /\ b = done'[i]
    BY <2>1, DoneCounted
  <2> QED BY <2>2
<1>2. \A i, j \in DOMAIN done' : i < j => Earlier(done[i], done[j])'
  <2>1. \A i, j \in DOMAIN done' : i < j => Earlier(done'[i], done'[j])
    BY DEF SeqInv
  <2> QED BY <2>1 DEF Earlier, Offset, FirstFrame, Frames
<1>3. CASE HeadKept
  <2>1. PICK b, b1 : b = buf /\ b1 = buf'
    OBVIOUS
  <2>2. b1.state = b.state /\ b1.data = b.data /\ b1.seq = b.seq /\ b1.run = b.run /\ queue # <<>>
    BY <1>3, <2>1 DEF HeadKept
  <2>3. b \in Buffer
    BY <2>1, <2>2, HeadIs DEF Base
  <2>4. ASSUME b1.state = "ACTIVE" PROVE Counted(b1)' /\ \A i \in DOMAIN done : Earlier(done[i], b1)
    <3>1. Counted(b) /\ \A i \in DOMAIN done : Earlier(done[i], b)
      BY <2>1, <2>2, <2>4 DEF SeqInv
    <3>2. Counted(b)'
      BY <2>3, <3>1, CountedMoves
    <3>3. Counted(b1)'
      BY <2>2, <3>2, SameOffset DEF Counted, Behind, Offset, HasFirst, FirstFrame, Frames
    <3> QED BY <2>2, <3>1, <3>3, CountedAlike
  <2>5. buf'.state = "ACTIVE" => Counted(buf)' /\ \A i \in DOMAIN done' : Earlier(done[i], buf)'
    BY <2>1, <2>4 DEF Counted, Earlier, Behind, Offset, HasFirst, FirstFrame, Frames
  <2> QED BY <1>1, <1>2, <2>5 DEF SeqInv
<1>4. CASE HeadFresh
  <2>1. queue' # <<>> => buf'.state # "ACTIVE"
    BY <1>4 DEF HeadFresh, Fresh
  <2> QED BY <1>1, <1>2, <2>1 DEF SeqInv
<1> QED BY <1>3, <1>4

\* A frame is handed over.
LEMMA SeqHandedOver ==
  ASSUME Base, SeqInv, Counts, NEW z \in Buffer, done' = Append(done, z), HeadFresh,
         Counted(z)', \A i \in DOMAIN done : Earlier(done[i], z)
  PROVE  SeqInv'
<1> DEFINE n == Len(done)
<1>2. /\ n \in Nat /\ DOMAIN done = 1 .. n
      /\ \A i \in DOMAIN done : done'[i] = done[i] /\ i # n + 1 /\ i \in Nat
      /\ done'[n + 1] = z
      /\ \A i \in DOMAIN done' : i \in DOMAIN done \/ i = n + 1
  BY DoneIs
<1> HIDE DEF n
<1>3. \A i \in DOMAIN done' : Counted(done[i])'
  <2> SUFFICES ASSUME NEW i \in DOMAIN done' PROVE Counted(done[i])'
    OBVIOUS
  <2>1. CASE i \in DOMAIN done
    <3>1. PICK b : b = done[i]
      OBVIOUS
    <3>2. Counted(b)' /\ b = done'[i]
      BY <1>2, <2>1, <3>1, DoneCounted
    <3> QED BY <3>2
  <2>2. CASE i = n + 1
    BY <1>2, <2>2
  <2> QED BY <1>2, <2>1, <2>2
<1>4. \A i, j \in DOMAIN done' : i < j => Earlier(done'[i], done'[j])
  <2> SUFFICES ASSUME NEW i \in DOMAIN done', NEW j \in DOMAIN done', i < j
               PROVE  Earlier(done'[i], done'[j])
    OBVIOUS
  <2>1. i \in DOMAIN done
    BY <1>2
  <2>2. CASE j \in DOMAIN done
    BY <1>2, <2>1, <2>2 DEF SeqInv
  <2>3. CASE j = n + 1
    BY <1>2, <2>1, <2>3
  <2> QED BY <1>2, <2>2, <2>3
<1>5. \A i, j \in DOMAIN done' : i < j => Earlier(done[i], done[j])'
  BY <1>4 DEF Earlier, Offset, FirstFrame, Frames
<1>6. queue' # <<>> => buf'.state # "ACTIVE"
  BY DEF HeadFresh, Fresh
<1> QED BY <1>3, <1>5, <1>6 DEF SeqInv

\* What is copied keeps the first frame of the buffer, or begins one.
LEMMA FilledOffset ==
  ASSUME Base, DataInv, SeqInv, InSync, CountFrame, NEW z \in Buffer,
         z.data = Filled.data, z.seq = Filled.seq, z.run = Filled.run
  PROVE  /\ queue # <<>> /\ Decoding /\ ~blind /\ setup \in Setups /\ buf \in Buffer
         /\ z.run = run /\ z.seq = sequence'
         /\ buf.used # 0 => pkt.fid = last_fid
         /\ buf.used = 0 <=> buf.data = {}
         /\ pkt.fid = last_fid => buf.state = "ACTIVE" /\ buf.run = run /\ buf.seq = sequence
         /\ buf.data # {} => HasFirst(buf) /\ HasFirst(z) /\ Offset(z) = Offset(buf)
                             /\ pkt.fid = last_fid /\ z.data # {}
         /\ (buf.data = {} /\ z.data # {}) => HasFirst(z) /\ Offset(z) = pkt.frame - sequence'
<1>1. /\ queue # <<>> /\ Decoding /\ ~blind /\ Filled \in Buffer /\ setup \in Setups
      /\ z.run = run /\ z.seq = sequence'
      /\ Frames(z) = Frames(buf) \/ Frames(z) = Frames(buf) \cup {pkt.frame}
      /\ buf.state = "ACTIVE" \/ pkt.fid # last_fid
      /\ buf.used # 0 => pkt.fid = last_fid
      /\ buf.used = 0 <=> buf.data = {}
  <2>1. queue # <<>> /\ Decoding /\ Filled \in Buffer /\ Filled.run = run /\ Filled.seq = sequence'
    BY FilledIsCounted
  <2>2. Frames(z) = Frames(Filled)
    BY DEF Frames
  <2>3. Frames(Filled) = Frames(buf) \/ Frames(Filled) = Frames(buf) \cup {pkt.frame}
    BY <2>1, FilledIs
  <2>4. ~blind /\ (buf.state = "ACTIVE" \/ pkt.fid # last_fid) /\ (buf.used # 0 => pkt.fid = last_fid)
    BY DEF InSync, InFrame, Filling
  <2> QED BY <2>1, <2>2, <2>3, <2>4 DEF Base, Typed, QueueInv
<1>2. /\ buf \in Buffer /\ Frames(buf) \subseteq 1 .. MaxFrames /\ pkt.frame \in 1 .. MaxFrames
      /\ MaxFrames \in Nat /\ (Frames(buf) = {} <=> buf.data = {}) /\ pkt.fid \in {0, 1}
      /\ (Frames(z) = {} <=> z.data = {}) /\ sequence \in Int
  <2>1. buf \in Buffer /\ pkt.frame \in 1 .. MaxFrames /\ pkt.fid \in {0, 1}
    BY <1>1, HeadIs, PacketIs DEF Base
  <2>2. Frames(buf) \subseteq 1 .. MaxFrames /\ (Frames(buf) = {} <=> buf.data = {})
    BY <1>1, <2>1, BufferIs
  <2>3. Frames(z) = {} <=> z.data = {}
    BY <1>1, BufferIs
  <2>4. sequence \in Int /\ MaxFrames \in Nat
    BY BoundsAssumption DEF Base, Typed
  <2> QED BY <2>1, <2>2, <2>3, <2>4
<1>3. CurFrame = pkt.frame
  BY <1>1 DEF CurFrame
<1>4. sequence' = IF pkt.fid # last_fid THEN sequence + 1 ELSE sequence
  BY DEF CountFrame
<1>5. pkt.fid = last_fid => buf.state = "ACTIVE" /\ buf.run = run /\ buf.seq = sequence
  BY <1>1, <1>2 DEF Base, QueueInv, FidUnknown
<1>6. ASSUME buf.data # {}
      PROVE  HasFirst(buf) /\ HasFirst(z) /\ Offset(z) = Offset(buf) /\ pkt.fid = last_fid /\ z.data # {}
  <2>1. pkt.fid = last_fid /\ buf.state = "ACTIVE" /\ z.seq = buf.seq /\ z.data # {}
    BY <1>1, <1>2, <1>4, <1>5, <1>6
  <2>2. HasFirst(buf)
    BY <1>1, <1>6, <2>1 DEF SeqInv, Counted
  <2>3. PICK f : f = FirstFrame(buf) /\ f \in Frames(buf) /\ \A g \in Frames(buf) : f <= g
    BY <1>1, <1>2, <2>2, OffsetIs
  <2>4. f <= pkt.frame
    BY <1>1, <1>3, <2>3 DEF DataInv, Held
  <2>5. f \in Frames(z) /\ (\A g \in Frames(z) : f <= g)
    BY <1>1, <2>3, <2>4
  <2>6. HasFirst(z)
    BY <2>5 DEF HasFirst
  <2>7. FirstFrame(z) \in Frames(z) /\ FirstFrame(z) \in Int /\ \A g \in Frames(z) : FirstFrame(z) <= g
    BY <1>1, <2>6, OffsetIs
  <2>8. f \in Int
    BY <1>2, <2>3
  <2>9. FirstFrame(z) <= f /\ f <= FirstFrame(z)
    BY <2>5, <2>7
  <2> QED BY <2>1, <2>2, <2>3, <2>6, <2>7, <2>8, <2>9 DEF Offset
<1>7. ASSUME buf.data = {}, z.data # {}
      PROVE  HasFirst(z) /\ Offset(z) = pkt.frame - sequence'
  <2>1. PICK c \in Int : c = pkt.frame
    BY <1>2
  <2>2. Frames(z) = {c} /\ c <= c
    BY <1>1, <1>2, <1>7, <2>1
  <2>3. HasFirst(z)
    BY <2>2 DEF HasFirst
  <2>4. FirstFrame(z) = c
    BY <1>1, <2>2, <2>3, OffsetIs
  <2> QED BY <1>1, <2>1, <2>3, <2>4 DEF Offset
<1> QED BY <1>1, <1>2, <1>5, <1>6, <1>7

\* What is copied is counted at once.
LEMMA FilledCounts ==
  ASSUME Base, DataInv, SeqInv, Consumes, InSync, CountFrame, NEW z \in Buffer,
         z.data = Filled.data, z.seq = Filled.seq, z.run = Filled.run
  PROVE  Counted(z)' /\ \A i \in DOMAIN done : Earlier(done[i], z)
<1>1. /\ queue # <<>> /\ Decoding /\ setup \in Setups /\ buf \in Buffer
      /\ z.run = run /\ z.seq = sequence' /\ run' = run
      /\ pkt.fid = last_fid => buf.state = "ACTIVE" /\ buf.run = run /\ buf.seq = sequence
      /\ buf.data # {} => HasFirst(buf) /\ HasFirst(z) /\ Offset(z) = Offset(buf) /\ pkt.fid = last_fid
                          /\ z.data # {}
      /\ (buf.data = {} /\ z.data # {}) => HasFirst(z) /\ Offset(z) = pkt.frame - sequence'
  BY FilledOffset DEF Consumes
<1>2. pkt.frame \in 1 .. MaxFrames /\ MaxFrames \in Nat
  BY <1>1, PacketIs, BoundsAssumption DEF Base
<1>3. /\ CurFrame = pkt.frame /\ CurFid = pkt.fid /\ CurPos = pkt.pos /\ Goes
      /\ last_fid' = CurFid \/ CurPos = LastPos
  BY ConsumesGoes
<1>4. sequence \in Int /\ sequence' = IF pkt.fid # last_fid THEN sequence + 1 ELSE sequence
  BY DEF CountFrame, Base, Typed
<1>5. z.run <= run' /\ z.seq <= sequence'
  BY <1>1, <1>4, NatRun DEF Base
<1>6. ASSUME NEW i \in DOMAIN done
      PROVE  done[i].run = run => /\ done[i].seq < z.seq
                                  /\ done[i].seq \in Int /\ Offset(done[i]) \in Int
                                  /\ Behind(Offset(done[i]))
  <2> SUFFICES ASSUME done[i].run = run
               PROVE  /\ done[i].seq < z.seq /\ done[i].seq \in Int /\ Offset(done[i]) \in Int
                      /\ Behind(Offset(done[i]))
    OBVIOUS
  <2>1. done[i] \in Buffer
    BY ElementOfSeq DEF Base, Typed
  <2>2. Counted(done[i]) /\ done[i].data # {}
    BY DEF SeqInv, DataInv
  <2>3. done[i].seq \in Int /\ Offset(done[i]) \in Int
    BY <1>1, <2>1, <2>2, BufferIs, OffsetIs DEF Counted
  <2>4. done[i].seq <= sequence /\ Behind(Offset(done[i]))
    BY <2>2 DEF Counted
  <2>5. pkt.fid = last_fid => done[i].seq < sequence
    BY <1>1 DEF SeqInv, Earlier
  <2> QED BY <1>1, <1>4, <2>3, <2>4, <2>5
<1>7. CASE buf.data # {}
  <2>1. buf.state = "ACTIVE" /\ buf.run = run /\ buf.seq = sequence /\ Counted(buf)
    BY <1>1, <1>7 DEF SeqInv
  <2>2. PICK l \in Int : l = Offset(buf) /\ Behind(l)
    BY <1>1, <1>7, <2>1, OffsetIs DEF Counted
  <2>3. Behind(l)' /\ l = Offset(z)
    BY <1>1, <1>7, <2>2, BehindConsumes
  <2>4. Behind(Offset(z))'
    BY <2>3 DEF Behind, Offset, FirstFrame, Frames
  <2>5. Counted(z)'
    BY <1>1, <1>5, <1>7, <2>4 DEF Counted, HasFirst, Frames
  <2>6. \A i \in DOMAIN done : Earlier(done[i], z)
    <3> SUFFICES ASSUME NEW i \in DOMAIN done, done[i].run = run
                 PROVE  done[i].seq < z.seq /\ Offset(done[i]) <= Offset(z)
      BY <1>1 DEF Earlier
    <3>1. Earlier(done[i], buf)
      BY <1>1, <2>1 DEF SeqInv
    <3> QED BY <1>1, <1>6, <1>7, <2>1, <3>1 DEF Earlier
  <2> QED BY <2>5, <2>6
<1>8. CASE buf.data = {}
  <2>2. PICK c \in Int, s \in Int, s1 \in Int :
          c = pkt.frame /\ s = sequence /\ s1 = sequence'
    BY <1>2, <1>4
  <2>3. z.data # {} => HasFirst(z) /\ Offset(z) = c - s1
    BY <1>1, <1>8, <2>2
  <2>4. LastPos \in Nat /\ CurPos \in 1 .. LastPos
    BY <1>1, SetupIs, CurIs DEF Base
  <2>5. PICK l \in Int : l = c - s1
    BY <2>2
  <2>6. Behind(l)'
    <3>1. PICK c1, p1, f1, l1, p, f :
            /\ c1 = CurFrame' /\ p1 = CurPos' /\ f1 = CurFid' /\ l1 = last_fid'
            /\ p = CurPos /\ f = CurFid
      OBVIOUS
    <3>2. \/ c1 = c /\ p1 = p + 1 /\ p # 0 /\ f1 = f /\ l1 = f
          \/ c1 = c + 1 /\ p1 = 1
      BY <1>3, <2>2, <2>4, <3>1 DEF Goes
    <3>3. p \in Nat
      BY <2>4, <3>1
    <3>4. IF p1 = 1 THEN c1 - 1 - s1 >= l ELSE c1 - s1 >= l /\ (c1 - s1 = l => l1 = f1)
      BY <2>2, <2>5, <3>2, <3>3
    <3> QED BY <2>2, <3>1, <3>4 DEF Behind
  <2>7. Counted(z)'
    <3>1. z.data # {} => Behind(Offset(z))'
      BY <2>3, <2>5, <2>6 DEF Behind, Offset, FirstFrame, Frames
    <3> QED BY <1>5, <2>3, <3>1 DEF Counted, HasFirst, Frames
  <2>8. \A i \in DOMAIN done : Earlier(done[i], z)
    <3> SUFFICES ASSUME NEW i \in DOMAIN done, done[i].run = run
                 PROVE  done[i].seq < z.seq /\ (z.data # {} => Offset(done[i]) <= Offset(z))
      BY <1>1 DEF Earlier
    <3>1. PICK o \in Int : o = Offset(done[i]) /\ Behind(o)
      BY <1>6
    <3>2. IF CurPos = 1 THEN c - 1 - s >= o ELSE c - s >= o /\ (c - s = o => last_fid = pkt.fid)
      BY <1>3, <2>2, <3>1 DEF Behind
    <3>3. o <= c - s1
      BY <1>4, <2>2, <3>2
    <3> QED BY <1>6, <2>3, <3>1, <3>3
  <2> QED BY <2>7, <2>8
<1> QED BY <1>7, <1>8

\* Every step keeps the sequence numbers in order.
LEMMA SeqStep ==
  ASSUME Base, DataInv, SeqInv, [Next]_vars
  PROVE  SeqInv'
<1>1. CASE Arrive
  <2>1. Stays /\ UNCHANGED <<queue, done, run, sequence, last_fid>>
    BY <1>1, ArriveStep
  <2>2. Counts
    BY <2>1, BehindStays DEF Counts
  <2>3. HeadKept \/ HeadFresh
    BY <2>1 DEF HeadKept, HeadFresh, buf
  <2> QED BY <2>1, <2>2, <2>3, SeqKept
<1>2. CASE PacketLost \/ PacketInvalid
  <2>1. Goes /\ UNCHANGED <<done, run, sequence, last_fid>> /\ (HeadKept \/ HeadFresh)
    BY <1>2, LostStep DEF HeadFresh
  <2>2. Counts
    BY <2>1, BehindLost DEF Counts
  <2> QED BY <2>1, <2>2, SeqKept
<1>3. CASE NextUrb \/ QueueBuffer
  <2>1. Stays /\ UNCHANGED <<done, run, sequence, last_fid>> /\ (HeadKept \/ HeadFresh)
    BY <1>3, QueueStep
  <2>2. Counts
    BY <2>1, BehindStays DEF Counts
  <2> QED BY <2>1, <2>2, SeqKept
<1>4. CASE SuspendResume \/ StopStart
  <2>1. done' = done /\ run' = run + 1 /\ (HeadKept \/ HeadFresh)
    BY <1>4, StartStep
  <2> QED BY <2>1, SeqKept DEF Counts
<1>5. CASE FidToggled \/ ImageStarted
  <2>1. /\ Stays /\ UNCHANGED <<run, sequence>> /\ queue # <<>> /\ buf.used # 0 /\ HeadFresh
        /\ last_fid' = last_fid \/ CurPos = 1
    BY <1>5, EndedStep
  <2>2. PICK z \in Buffer : done' = Append(done, z) /\ z.data = buf.data /\ z.seq = buf.seq /\ z.run = buf.run
    BY <1>5, EndedStep
  <2>3. Counts
    BY <2>1, BehindStays DEF Counts
  <2>4. buf.state = "ACTIVE"
    <3>1. buf \in Buffer /\ setup \in Setups
      BY <2>1, HeadIs DEF Base, Typed
    <3>2. buf.state \in {"QUEUED", "ACTIVE"}
      BY <3>1, BufferIs
    <3> QED BY <2>1, <3>2 DEF Base, QueueInv
  <2>5. Counted(z) /\ \A i \in DOMAIN done : Earlier(done[i], z)
    <3>1. Counted(buf) /\ \A i \in DOMAIN done : Earlier(done[i], buf)
      BY <2>1, <2>4 DEF SeqInv
    <3>2. PICK b : b = buf
      OBVIOUS
    <3> QED BY <2>2, <3>1, <3>2, CountedAlike
  <2>6. Counted(z)'
    BY <2>3, <2>5, CountedMoves
  <2> QED BY <2>1, <2>2, <2>3, <2>5, <2>6, SeqHandedOver
<1>6. ASSUME Consumes PROVE Counts
  <2>1. \A l \in Int : Behind(l) => Behind(l)'
    BY <1>6, BehindConsumes
  <2> QED BY <1>6, <2>1 DEF Counts, Consumes
<1>7. CASE NoBuffer \/ OutOfSync
  <2>1. Consume
    BY <1>7 DEF Consume
  <2>2. Consumes /\ done' = done /\ (HeadKept \/ HeadFresh)
    BY <1>7, <2>1, ConsumeStep DEF HeadFresh
  <2> QED BY <1>6, <2>2, SeqKept
<1>8. CASE PayloadCopied
  <2>1. Consume
    BY <1>8 DEF Consume
  <2>2. Consumes /\ done' = done /\ InSync /\ CountFrame /\ queue' # <<>> /\ buf' = Filled
    BY <1>8, <2>1, ConsumeStep
  <2>3. PICK z \in Buffer : z = Filled
    BY <2>2, FilledIsCounted
  <2>4. Counted(z)' /\ \A i \in DOMAIN done : Earlier(done[i], z)
    BY <2>2, <2>3, FilledCounts
  <2>5. Counted(buf)' /\ \A i \in DOMAIN done : Earlier(done[i], buf')
    <3>1. z = buf'
      BY <2>2, <2>3
    <3> QED BY <2>4, <3>1
  <2>6. \A i \in DOMAIN done' : Earlier(done[i], buf)'
    BY <2>2, <2>5 DEF Earlier, Offset, FirstFrame, Frames
  <2>7. \A i \in DOMAIN done' : Counted(done[i])'
    <3> SUFFICES ASSUME NEW i \in DOMAIN done PROVE Counted(done[i])'
      BY <2>2
    <3>1. PICK b : b = done[i]
      OBVIOUS
    <3>2. Counted(b)' /\ b = done'[i]
      BY <1>6, <2>2, <3>1, DoneCounted
    <3> QED BY <3>2
  <2>8. \A i, j \in DOMAIN done' : i < j => Earlier(done[i], done[j])'
    <3>1. \A i, j \in DOMAIN done' : i < j => Earlier(done'[i], done'[j])
      BY <2>2 DEF SeqInv
    <3> QED BY <3>1 DEF Earlier, Offset, FirstFrame, Frames
  <2> QED BY <2>5, <2>6, <2>7, <2>8 DEF SeqInv
<1>9. CASE FrameEnded
  <2>1. Consume
    BY <1>9 DEF Consume
  <2>2. Consumes /\ InSync /\ CountFrame /\ HeadFresh
    BY <1>9, <2>1, ConsumeStep
  <2>3. PICK z \in Buffer : done' = Append(done, z) /\ z.data = Filled.data /\ z.seq = Filled.seq
                            /\ z.run = Filled.run
    BY <1>9, <2>1, ConsumeStep
  <2>4. Counted(z)' /\ \A i \in DOMAIN done : Earlier(done[i], z)
    BY <2>2, <2>3, FilledCounts
  <2> QED BY <1>6, <2>2, <2>3, <2>4, SeqHandedOver
<1>10. CASE UNCHANGED vars
  <2>1. /\ UNCHANGED <<setup, frame, pos, fid, pkt, queue, blind, last_fid, sequence, done, run, faults>>
    BY <1>10 DEF vars, device
  <2>2. Stays
    BY <2>1 DEF Stays, CurFrame, CurPos, CurFid, Decoding
  <2>3. Counts
    BY <2>1, <2>2, BehindStays DEF Counts
  <2>4. HeadKept \/ HeadFresh
    BY <2>1 DEF HeadKept, HeadFresh, buf
  <2> QED BY <2>1, <2>3, <2>4, SeqKept
<1> QED BY <1>1, <1>2, <1>3, <1>4, <1>5, <1>7, <1>8, <1>9, <1>10 DEF Next, Bus, Decode

\* The part of SequenceCountsFrames that holds for every stream.
SequenceStaysBehind ==
  \A i, j \in DOMAIN done :
    (i < j /\ done[i].run = done[j].run) =>
      done[j].seq - done[i].seq \in 1 .. FirstFrame(done[j]) - FirstFrame(done[i])

LEMMA SeqStaysBehind ==
  ASSUME Base, DataInv, SeqInv
  PROVE  SequenceStaysBehind
<1> SUFFICES ASSUME NEW i \in DOMAIN done, NEW j \in DOMAIN done, i < j, done[i].run = done[j].run
             PROVE  done[j].seq - done[i].seq \in 1 .. FirstFrame(done[j]) - FirstFrame(done[i])
  BY DEF SequenceStaysBehind
<1>1. done[i] \in Buffer /\ done[j] \in Buffer /\ setup \in Setups
  BY ElementOfSeq DEF Base, Typed
<1>2. HasFirst(done[i]) /\ HasFirst(done[j]) /\ Earlier(done[i], done[j]) /\ done[j].data # {}
  BY DEF DataInv, SeqInv, Counted
<1>3. /\ FirstFrame(done[i]) \in Int /\ FirstFrame(done[j]) \in Int
      /\ done[i].seq \in Int /\ done[j].seq \in Int
  BY <1>1, <1>2, OffsetIs, BufferIs
<1>4. /\ done[i].seq < done[j].seq
      /\ FirstFrame(done[i]) - done[i].seq <= FirstFrame(done[j]) - done[j].seq
  BY <1>2 DEF Earlier, Offset
<1> QED BY <1>3, <1>4

\* Whatever is lost, the sequence number of a later buffer of the same run is
\* greater, and by no more than the frames the device sent in between.
THEOREM SequenceIsInOrder == Spec => []SequenceStaysBehind
<1>1. Init => (Base /\ DataInv /\ SeqInv)
  BY BaseInit, DataInit, SeqInit
<1>2. (Base /\ DataInv /\ SeqInv) /\ [Next]_vars => (Base /\ DataInv /\ SeqInv)'
  BY DataStep, SeqStep
<1>3. (Base /\ DataInv /\ SeqInv) => SequenceStaysBehind
  BY SeqStaysBehind
<1> QED BY <1>1, <1>2, <1>3, PTL DEF Spec

-----------------------------------------------------------------------------
(* Exact counting *)

\* UVC_QUIRK_MJPEG_NO_EOF finds a frame by the marker of its first payload, and
\* looks for it only where there is a buffer; a device without FID needs its EOF.
MarkersComplete == \A s \in Setups :
  /\ s.mjpegNoEof => ~s.starves /\ "lost" \notin s.faults /\ "invalid" \notin s.faults
  /\ s.noFid => s.eof # "never"

Exact == (faults = 0 \/ setup.mjpegNoEof) /\ ~(NoFid /\ setup.starves)

\* The decoder is where the device is: last_fid says so, or the marker will; and
\* a buffer that waits for data does not wait within a frame.
Ready ==
  /\ CurPos # 1 => last_fid = CurFid
  /\ CurPos = 1 => (last_fid # CurFid \/ (setup.mjpegNoEof /\ ~blind /\ buf.used # 0))
  /\ (queue # <<>> /\ buf.state = "ACTIVE") => buf.used # 0
  /\ (~setup.starves /\ CurPos # 1) => (buf.state = "ACTIVE" /\ buf.used < CurPos)

LEMMA Markers ==
  ASSUME MarkersComplete, setup \in Setups
  PROVE  /\ setup.mjpegNoEof => (~setup.starves /\ "lost" \notin setup.faults /\ "invalid" \notin setup.faults)
         /\ NoFid => setup.eof # "never"
BY DEF MarkersComplete, NoFid

LEMMA ExactBefore ==
  ASSUME Base, setup' = setup, faults' = faults \/ faults' = faults + 1, Exact'
  PROVE  Exact
BY NatRun DEF Exact, NoFid, Base

LEMMA ReadyInit == Init => Ready
<1> SUFFICES ASSUME Init PROVE Ready
  OBVIOUS
<1>1. CurPos = 1 /\ CurFid \in {0, 1}
  BY DEF Init, CurPos, CurFid, Decoding
<1>2. queue # <<>> => buf.state # "ACTIVE"
  BY DEF Init, buf, Fresh
<1>3. last_fid = FidUnknown
  BY DEF Init
<1> QED BY <1>1, <1>2, <1>3 DEF Ready, FidUnknown

\* A packet that is consumed flips last_fid if and only if it begins a frame.
LEMMA FlipsAtFirst ==
  ASSUME Base, Ready, InFrame
  PROVE  /\ CurPos = pkt.pos /\ CurFid = pkt.fid /\ CurFrame = pkt.frame
         /\ pkt.fid # last_fid <=> pkt.pos = 1
         /\ (pkt.pos = 1 /\ ~blind) => buf.used = 0
<1>1. Decoding /\ CurPos = pkt.pos /\ CurFid = pkt.fid /\ CurFrame = pkt.frame
  BY DEF InFrame, CurPos, CurFid, CurFrame
<1>2. CASE pkt.pos # 1
  BY <1>1, <1>2 DEF Ready
<1>3. CASE pkt.pos = 1
  <2>1. setup.mjpegNoEof \in BOOLEAN
    BY SetupIs DEF Base, Typed
  <2>2. CASE pkt.fid = last_fid
    BY <1>1, <1>3, <2>2 DEF Ready, InFrame, StartOfImage, Filling
  <2>3. CASE pkt.fid # last_fid
    BY <1>1, <1>3, <2>3 DEF InFrame, Filling
  <2> QED BY <2>2, <2>3
<1> QED BY <1>1, <1>2, <1>3

\* A frame never overflows its buffer while the queue does not run empty.
LEMMA FilledReady ==
  ASSUME Base, Ready, InSync
  PROVE  /\ Filled.used # 0 /\ Filled.state = "ACTIVE"
         /\ ~setup.starves => ~Overflows /\ Filled.used < pkt.pos + 1
<1>1. /\ Decoding /\ InFrame /\ ~blind /\ queue # <<>>
      /\ buf.state = "ACTIVE" \/ pkt.fid # last_fid
  BY DEF InSync, InFrame, Base, QueueInv
<1>2. /\ setup \in Setups /\ pkt.pos \in 1 .. LastPos /\ pkt.size \in {0, 1} /\ buf \in Buffer
      /\ pkt.size = IF pkt.pos > FrameSize THEN 0 ELSE 1
  BY <1>1, PacketIs, HeadIs DEF Base, Typed, PktInv
<1>3. /\ FrameSize \in Nat \ {0} /\ BufferLength \in Nat \ {0} /\ BufferLength >= FrameSize
      /\ LastPos \in Nat /\ buf.used \in Nat
  BY <1>2, SetupIs, BufferIs
<1>4. /\ Filled.state = "ACTIVE"
      /\ Filled.used = (IF Overflows THEN BufferLength ELSE buf.used + pkt.size)
      /\ Overflows => pkt.size = 1 /\ buf.used = BufferLength
  BY <1>1, FilledIs
<1>5. pkt.pos = 1 => buf.used = 0 /\ pkt.size = 1
  BY <1>1, <1>2, <1>3, FlipsAtFirst
<1>6. pkt.pos # 1 => buf.used # 0
  <2> SUFFICES ASSUME pkt.pos # 1 PROVE buf.used # 0
    OBVIOUS
  <2>1. pkt.fid = last_fid
    BY <1>1, FlipsAtFirst
  <2> QED BY <1>1, <2>1 DEF Ready
<1>7. ~setup.starves => buf.used < pkt.pos
  <2> SUFFICES ASSUME ~setup.starves PROVE buf.used < pkt.pos
    OBVIOUS
  <2>1. CASE pkt.pos = 1
    BY <1>5, <2>1
  <2>2. CASE pkt.pos # 1
    BY <1>1, <2>2, FlipsAtFirst DEF Ready
  <2> QED BY <2>1, <2>2
<1>8. Filled.used # 0
  <2>1. CASE Overflows
    BY <1>3, <1>4, <2>1
  <2>2. CASE ~Overflows
    <3>1. Filled.used = buf.used + pkt.size
      BY <1>4, <2>2
    <3>2. buf.used + pkt.size # 0
      BY <1>2, <1>3, <1>5, <1>6
    <3> QED BY <3>1, <3>2
  <2> QED BY <2>1, <2>2
<1>9. ~setup.starves => ~Overflows
  <2> SUFFICES ASSUME ~setup.starves, Overflows PROVE FALSE
    OBVIOUS
  <2>1. pkt.size = 1 /\ buf.used = BufferLength /\ buf.used < pkt.pos
    BY <1>4, <1>7
  <2>2. pkt.pos <= FrameSize
    BY <1>2, <1>3, <2>1
  <2> QED BY <1>2, <1>3, <2>1, <2>2
<1>10. ~setup.starves => Filled.used < pkt.pos + 1
  <2> SUFFICES ASSUME ~setup.starves PROVE Filled.used < pkt.pos + 1
    OBVIOUS
  <2>1. Filled.used = buf.used + pkt.size /\ buf.used < pkt.pos
    BY <1>4, <1>7, <1>9
  <2> QED BY <1>2, <1>3, <2>1
<1> QED BY <1>4, <1>8, <1>9, <1>10

\* After the last payload of a frame last_fid is not the FID that comes next,
\* unless the marker of the next frame will be found.
LEMMA ReadyForNext ==
  ASSUME MarkersComplete, Base, Exact, Ready, Consume, CurPos' = 1
  PROVE  last_fid' # CurFid' \/ (setup.mjpegNoEof /\ ~blind' /\ buf'.used # 0)
<1>1. /\ Consumes /\ Goes /\ InFrame /\ Decoding /\ setup \in Setups
      /\ CurFid' = fid /\ CurPos = pkt.pos
  <2>1. Consumes
    BY ConsumeStep
  <2>2. InFrame
    BY DEF Consume, NoBuffer, OutOfSync, PayloadCopied, FrameEnded, InSync
  <2> QED BY <2>1, <2>2, ConsumesGoes DEF InFrame, Base, Typed
<1>2. pkt.pos = LastPos
  <2>1. pkt.pos \in 1 .. LastPos /\ LastPos \in Nat
    BY <1>1, PacketIs, SetupIs DEF Base
  <2> QED BY <1>1, <2>1 DEF Goes
<1>3. /\ pkt.eof => fid = IF NoFid THEN pkt.fid ELSE 1 - pkt.fid
      /\ faults = 0 => ((setup.eof # "never" => pkt.eof) /\ (~NoFid => fid = 1 - pkt.fid))
  BY <1>1, <1>2 DEF Base, PktInv
<1>4. pkt.fid \in {0, 1} /\ NoFid \in BOOLEAN /\ setup.mjpegNoEof \in BOOLEAN /\ setup.starves \in BOOLEAN
  BY <1>1, PacketIs, SetupIs DEF Base
<1>5. /\ setup.mjpegNoEof => ~setup.starves
      /\ NoFid => setup.eof # "never" /\ ~setup.starves
      /\ faults = 0 \/ setup.mjpegNoEof
  BY <1>1, Markers DEF Exact
<1>6. CASE NoBuffer
  <2>1. setup.starves /\ last_fid' = pkt.fid
    BY <1>6 DEF NoBuffer, Base, QueueInv
  <2> QED BY <1>1, <1>3, <1>4, <1>5, <2>1
<1>7. CASE OutOfSync
  <2>1. buf.state # "ACTIVE" /\ pkt.fid = last_fid
    BY <1>7 DEF OutOfSync
  <2>2. setup.starves
    BY <1>1, <2>1, FlipsAtFirst DEF Ready
  <2>3. ~NoFid /\ faults = 0
    BY <1>5, <2>2
  <2>4. last_fid' = last_fid
    BY <1>7, <2>3 DEF OutOfSync
  <2> QED BY <1>1, <1>3, <1>4, <2>1, <2>3, <2>4
<1>8. CASE PayloadCopied
  <2>1. InSync /\ ~Ends /\ blind' = blind /\ ~blind /\ buf' = Filled /\ last_fid' = pkt.fid
    <3>1. InSync /\ ~Ends /\ blind' = blind /\ buf' = Filled
      BY <1>8, ConsumeStep
    <3>2. ~blind /\ last_fid' = pkt.fid
      BY <1>8 DEF PayloadCopied, InSync
    <3> QED BY <3>1, <3>2
  <2>2. Filled.used # 0
    BY <2>1, FilledReady
  <2>3. ~pkt.eof
    BY <2>1, <2>2 DEF Ends, EofFound
  <2>4. CASE setup.mjpegNoEof
    BY <2>1, <2>2, <2>4
  <2>5. CASE ~setup.mjpegNoEof
    <3>1. faults = 0 /\ ~NoFid
      BY <1>3, <1>5, <2>3, <2>5
    <3> QED BY <1>1, <1>3, <1>4, <2>1, <3>1
  <2> QED BY <2>4, <2>5
<1>9. CASE FrameEnded
  <2>1. InSync /\ Ends /\ last_fid' = IF NoFid /\ EofFound THEN Toggle(pkt.fid) ELSE pkt.fid
    BY <1>9 DEF FrameEnded
  <2>2. ~setup.starves => EofFound
    BY <2>1, FilledReady DEF Ends
  <2>3. EofFound => pkt.eof
    BY DEF EofFound
  <2>4. CASE NoFid
    BY <1>1, <1>3, <1>4, <1>5, <2>1, <2>2, <2>3, <2>4 DEF Toggle
  <2>5. CASE ~NoFid
    <3>1. last_fid' = pkt.fid
      BY <2>1, <2>5
    <3>2. fid = 1 - pkt.fid
      BY <1>3, <1>4, <1>5, <2>2, <2>3, <2>5
    <3> QED BY <1>1, <1>4, <3>1, <3>2
  <2> QED BY <2>4, <2>5
<1> QED BY <1>6, <1>7, <1>8, <1>9 DEF Consume

\* A packet is consumed.
LEMMA ReadyConsume ==
  ASSUME MarkersComplete, Base, Exact, Ready, Consume
  PROVE  Ready'
<1>1. /\ Consumes /\ Goes /\ InFrame /\ Decoding /\ setup \in Setups
      /\ CurFrame = pkt.frame /\ CurPos = pkt.pos /\ CurFid = pkt.fid
      /\ last_fid' = CurFid \/ CurPos = LastPos
      /\ setup' = setup
  <2>1. Consumes
    BY ConsumeStep
  <2>2. InFrame
    BY DEF Consume, NoBuffer, OutOfSync, PayloadCopied, FrameEnded, InSync
  <2> QED BY <2>1, <2>2, ConsumesGoes DEF InFrame, Base, Typed, Consumes
<1>2. pkt.pos \in 1 .. LastPos /\ LastPos \in Nat \ {0}
  BY <1>1, PacketIs, SetupIs DEF Base
<1>3. CurPos' # 1 => last_fid' = CurFid' /\ CurPos' = CurPos + 1 /\ CurPos # LastPos
  BY <1>1, <1>2 DEF Goes
<1>4. CurPos' = 1 => (last_fid' # CurFid' \/ (setup.mjpegNoEof /\ ~blind' /\ buf'.used # 0))
  BY ReadyForNext
<1>5. CASE NoBuffer \/ OutOfSync
  <2>1. /\ HeadKept \/ (queue = <<>> /\ queue' = <<>>)
        /\ queue # <<>> => buf.state # "ACTIVE"
        /\ OutOfSync => queue # <<>> /\ ~blind /\ CurFid = last_fid
    BY <1>5, ConsumeStep DEF Consume
  <2>2. (queue' # <<>> /\ buf'.state = "ACTIVE") => FALSE
    BY <2>1 DEF HeadKept
  <2>3. setup.starves
    <3>1. CASE NoBuffer
      BY <3>1 DEF NoBuffer, Base, QueueInv
    <3>2. CASE OutOfSync
      BY <1>1, <2>1, <3>2, FlipsAtFirst DEF Ready
    <3> QED BY <1>5, <3>1, <3>2
  <2> QED BY <1>1, <1>3, <1>4, <2>2, <2>3 DEF Ready
<1>6. CASE PayloadCopied
  <2>1. InSync /\ queue' # <<>> /\ buf' = Filled
    BY <1>6, ConsumeStep DEF Consume
  <2>2. Filled.used # 0 /\ Filled.state = "ACTIVE" /\ (~setup.starves => Filled.used < pkt.pos + 1)
    BY <2>1, FilledReady
  <2>3. (~setup.starves /\ CurPos' # 1) => (buf'.state = "ACTIVE" /\ buf'.used < CurPos')
    BY <1>1, <1>3, <2>1, <2>2
  <2> QED BY <1>1, <1>3, <1>4, <2>1, <2>2, <2>3 DEF Ready
<1>7. CASE FrameEnded
  <2>1. InSync /\ HeadFresh /\ Ends
    BY <1>7, ConsumeStep DEF Consume
  <2>2. (queue' # <<>> /\ buf'.state = "ACTIVE") => FALSE
    BY <2>1 DEF HeadFresh, Fresh
  <2>3. (~setup.starves /\ CurPos' # 1) => FALSE
    <3> SUFFICES ASSUME ~setup.starves, CurPos' # 1 PROVE FALSE
      OBVIOUS
    <3>1. pkt.eof
      BY <2>1, FilledReady DEF Ends, EofFound
    <3>2. pkt.pos = LastPos
      BY <1>1, <3>1 DEF Base, PktInv
    <3> QED BY <1>1, <1>3, <3>2
  <2> QED BY <1>1, <1>3, <1>4, <2>2, <2>3 DEF Ready
<1> QED BY <1>5, <1>6, <1>7 DEF Consume

\* A payload that is lost ends the exact counting.
LEMMA NothingIsLost ==
  ASSUME MarkersComplete, Base, PacketLost \/ PacketInvalid, Exact'
  PROVE  FALSE
<1>1. /\ setup' = setup /\ faults' = faults + 1
      /\ "lost" \in setup.faults \/ "invalid" \in setup.faults
  BY LostStep
<1>2. setup.mjpegNoEof
  BY <1>1, NatRun DEF Exact, Base
<1>3. setup \in Setups
  BY DEF Base, Typed
<1> QED BY <1>1, <1>2, <1>3, Markers

\* Every step leaves the decoder ready.
LEMMA ReadyStep ==
  ASSUME MarkersComplete, Base, Exact => Ready, [Next]_vars, Exact'
  PROVE  Exact /\ Ready /\ Ready'
<1>1. CASE Arrive
  <2>1. /\ Stays /\ UNCHANGED <<setup, queue, blind, last_fid>>
        /\ faults' = faults \/ faults' = faults + 1
    BY <1>1, ArriveStep
  <2>2. Exact /\ Ready
    BY <2>1, ExactBefore
  <2> QED BY <2>1, <2>2 DEF Ready, Stays, buf
<1>2. CASE PacketLost \/ PacketInvalid
  BY <1>2, NothingIsLost
<1>3. CASE NextUrb \/ QueueBuffer
  <2>1. /\ Stays /\ UNCHANGED <<setup, last_fid, faults>>
        /\ HeadKept \/ (queue = <<>> /\ HeadFresh)
        /\ (~blind /\ blind') => queue = <<>>
    BY <1>3, QueueStep
  <2>2. Exact /\ Ready
    BY <2>1, ExactBefore
  <2>3. ~blind => queue # <<>>
    BY DEF Base, QueueInv
  <2>4. setup \in Setups /\ CurPos' = CurPos /\ CurFid' = CurFid
    BY <2>1 DEF Base, Typed, Stays
  <2>5. CASE HeadKept
    BY <2>1, <2>2, <2>3, <2>4, <2>5 DEF Ready, HeadKept
  <2>6. CASE queue = <<>> /\ HeadFresh
    <3>1. setup.starves /\ blind
      BY <2>3, <2>6 DEF Base, QueueInv
    <3>2. (queue' # <<>> /\ buf'.state = "ACTIVE") => FALSE
      BY <2>6 DEF HeadFresh, Fresh
    <3> QED BY <2>1, <2>2, <2>4, <3>1, <3>2 DEF Ready
  <2> QED BY <2>1, <2>5, <2>6
<1>4. CASE SuspendResume \/ StopStart
  <2>1. /\ setup' = setup /\ CurPos' = 1 /\ CurFid' \in {0, 1} /\ last_fid' = FidUnknown
        /\ faults' = faults + 1 /\ (HeadKept \/ HeadFresh)
    BY <1>4, StartStep
  <2>2. Exact /\ Ready
    BY <2>1, ExactBefore
  <2>3. (queue' # <<>> /\ buf'.state = "ACTIVE") => buf'.used # 0
    BY <2>1, <2>2 DEF HeadKept, HeadFresh, Fresh, Ready
  <2> QED BY <2>1, <2>2, <2>3 DEF Ready, FidUnknown
<1>5. CASE FidToggled \/ ImageStarted
  <2>1. /\ Stays /\ UNCHANGED <<setup, faults>> /\ HeadFresh
        /\ last_fid' # CurFid
        /\ (FidToggled => last_fid # CurFid) /\ (ImageStarted => CurPos = 1)
    <3>1. /\ Stays /\ UNCHANGED <<setup, faults>> /\ HeadFresh /\ Decoding
          /\ FidToggled => last_fid' = last_fid /\ last_fid # CurFid
          /\ ImageStarted => last_fid' # CurFid
      BY <1>5, EndedStep
    <3>2. ImageStarted => CurPos = 1
      BY <3>1 DEF ImageStarted, StartOfImage, CurPos
    <3> QED BY <1>5, <3>1, <3>2
  <2>2. Exact /\ Ready
    BY <2>1, ExactBefore
  <2>3. CurPos = 1
    BY <1>5, <2>1, <2>2 DEF Ready
  <2>4. (queue' # <<>> /\ buf'.state = "ACTIVE") => FALSE
    BY <2>1 DEF HeadFresh, Fresh
  <2> QED BY <2>1, <2>2, <2>3, <2>4 DEF Ready, Stays
<1>6. CASE Consume
  <2>1. UNCHANGED <<setup, faults>>
    BY <1>6, ConsumeStep DEF Consumes
  <2>2. Exact /\ Ready
    BY <2>1, ExactBefore
  <2> QED BY <1>6, <2>2, ReadyConsume
<1>7. CASE UNCHANGED vars
  <2>1. UNCHANGED <<setup, frame, pos, fid, pkt, queue, blind, last_fid, sequence, done, run, faults>>
    BY <1>7 DEF vars, device
  <2>2. Exact /\ Ready
    BY <2>1, ExactBefore
  <2>3. CurPos' = CurPos /\ CurFid' = CurFid
    BY <2>1 DEF CurPos, CurFid, Decoding
  <2> QED BY <2>1, <2>2, <2>3 DEF Ready, buf
<1> QED BY <1>1, <1>2, <1>3, <1>4, <1>5, <1>6, <1>7 DEF Next, Bus, Decode, Consume

\* How far the sequence number is behind the frame that is being decoded.
Lag == IF CurPos = 1 THEN CurFrame - 1 - sequence ELSE CurFrame - sequence

OnTime(b) == b.run = run => Offset(b) = Lag
Level(a, b) == a.run = b.run => Offset(a) = Offset(b)

\* All the buffers of a run are equally far behind.
Even ==
  /\ \A i \in DOMAIN done : OnTime(done[i])
  /\ \A i, j \in DOMAIN done : Level(done[i], done[j])
  /\ (queue # <<>> /\ buf.data # {}) => OnTime(buf) /\ \A i \in DOMAIN done : Level(done[i], buf)

LEMMA EvenInit == Init => Even
<1> SUFFICES ASSUME Init PROVE Even
  OBVIOUS
<1>1. DOMAIN done = {}
  BY DEF Init
<1>2. queue # <<>> => buf.data = {}
  BY DEF Init, buf, Fresh
<1> QED BY <1>1, <1>2 DEF Even

LEMMA OnTimeMoves ==
  ASSUME NEW b, OnTime(b), (Lag' = Lag /\ run' = run) \/ b.run # run'
  PROVE  OnTime(b)'
<1>1. b.run = run' => Offset(b) = Lag'
  BY DEF OnTime
<1> QED BY <1>1 DEF OnTime, Offset, FirstFrame, Frames

\* The ways the lag moves: it stays, or a new run begins.
Lags == (Lag' = Lag /\ run' = run) \/ run' = run + 1

LEMMA DoneOnTime ==
  ASSUME Base, SeqInv, Even, Lags, NEW i \in DOMAIN done, NEW b, b = done[i]
  PROVE  OnTime(b)'
<1>1. b \in Buffer
  BY ElementOfSeq DEF Base, Typed
<1>2. OnTime(b) /\ b.run <= run
  BY DEF Even, SeqInv, Counted
<1>3. b.run \in Nat /\ run \in Nat
  BY <1>1, NatRun, BufferIs DEF Base, Typed
<1> QED BY <1>2, <1>3, OnTimeMoves DEF Lags

LEMMA EvenKept ==
  ASSUME Base, SeqInv, Even, Lags, done' = done, HeadKept \/ HeadFresh
  PROVE  Even'
<1>1. \A i \in DOMAIN done' : OnTime(done[i])'
  <2> SUFFICES ASSUME NEW i \in DOMAIN done PROVE OnTime(done[i])'
    OBVIOUS
  <2>1. PICK b : b = done[i]
    OBVIOUS
  <2>2. OnTime(b)' /\ b = done'[i]
    BY <2>1, DoneOnTime
  <2> QED BY <2>2
<1>2. \A i, j \in DOMAIN done' : Level(done[i], done[j])'
  <2>1. \A i, j \in DOMAIN done' : Level(done'[i], done'[j])
    BY DEF Even
  <2> QED BY <2>1 DEF Level, Offset, FirstFrame, Frames
<1>3. CASE HeadKept
  <2>1. PICK b, b1 : b = buf /\ b1 = buf'
    OBVIOUS
  <2>2. b1.data = b.data /\ b1.seq = b.seq /\ b1.run = b.run /\ queue # <<>>
    BY <1>3, <2>1 DEF HeadKept
  <2>3. b.run \in Nat /\ run \in Nat /\ b.run <= run
    <3>1. b \in Buffer /\ setup \in Setups
      BY <2>1, <2>2, HeadIs DEF Base, Typed
    <3> QED BY <2>1, <2>2, <3>1, BufferIs, NatRun DEF Base, QueueInv
  <2>4. ASSUME b1.data # {} PROVE OnTime(b1)' /\ \A i \in DOMAIN done : Level(done[i], b1)
    <3>1. OnTime(b) /\ \A i \in DOMAIN done : Level(done[i], b)
      BY <2>1, <2>2, <2>4 DEF Even
    <3>2. Offset(b1) = Offset(b)
      BY <2>2, SameOffset
    <3>3. OnTime(b1) /\ \A i \in DOMAIN done : Level(done[i], b1)
      BY <2>2, <3>1, <3>2 DEF OnTime, Level
    <3>4. OnTime(b1)'
      BY <2>2, <2>3, <3>3, OnTimeMoves DEF Lags
    <3> QED BY <3>3, <3>4
  <2>5. buf'.data # {} => OnTime(buf)' /\ \A i \in DOMAIN done' : Level(done[i], buf)'
    BY <2>1, <2>4 DEF OnTime, Level, Lag, Offset, FirstFrame, Frames
  <2> QED BY <1>1, <1>2, <2>5 DEF Even
<1>4. CASE HeadFresh
  <2>1. queue' # <<>> => buf'.data = {}
    BY <1>4 DEF HeadFresh, Fresh
  <2> QED BY <1>1, <1>2, <2>1 DEF Even
<1> QED BY <1>3, <1>4

LEMMA EvenHandedOver ==
  ASSUME Base, SeqInv, Even, Lags, NEW z \in Buffer, done' = Append(done, z), HeadFresh,
         OnTime(z)', \A i \in DOMAIN done : Level(done[i], z)
  PROVE  Even'
<1> DEFINE n == Len(done)
<1>2. /\ n \in Nat /\ DOMAIN done = 1 .. n
      /\ \A i \in DOMAIN done : done'[i] = done[i] /\ i # n + 1 /\ i \in Nat
      /\ done'[n + 1] = z
      /\ \A i \in DOMAIN done' : i \in DOMAIN done \/ i = n + 1
  BY DoneIs
<1> HIDE DEF n
<1>3. \A i \in DOMAIN done' : OnTime(done[i])'
  <2> SUFFICES ASSUME NEW i \in DOMAIN done' PROVE OnTime(done[i])'
    OBVIOUS
  <2>1. CASE i \in DOMAIN done
    <3>1. PICK b : b = done[i]
      OBVIOUS
    <3>2. OnTime(b)' /\ b = done'[i]
      BY <1>2, <2>1, <3>1, DoneOnTime
    <3> QED BY <3>2
  <2>2. CASE i = n + 1
    BY <1>2, <2>2
  <2> QED BY <1>2, <2>1, <2>2
<1>4. \A i, j \in DOMAIN done' : Level(done'[i], done'[j])
  <2> SUFFICES ASSUME NEW i \in DOMAIN done', NEW j \in DOMAIN done' PROVE Level(done'[i], done'[j])
    OBVIOUS
  <2>1. \A k \in DOMAIN done : Level(done[k], z) /\ Level(z, done[k])
    BY DEF Level
  <2>2. Level(z, z)
    BY DEF Level
  <2>3. CASE i \in DOMAIN done /\ j \in DOMAIN done
    BY <1>2, <2>3 DEF Even
  <2>4. CASE i = n + 1 \/ j = n + 1
    BY <1>2, <2>1, <2>2, <2>4
  <2> QED BY <1>2, <2>3, <2>4
<1>5. \A i, j \in DOMAIN done' : Level(done[i], done[j])'
  BY <1>4 DEF Level, Offset, FirstFrame, Frames
<1>6. queue' # <<>> => buf'.data = {}
  BY DEF HeadFresh, Fresh
<1> QED BY <1>3, <1>5, <1>6 DEF Even

LEMMA LagStays ==
  ASSUME Stays, sequence' = sequence
  PROVE  Lag' = Lag
BY DEF Stays, Lag

LEMMA LagConsumes ==
  ASSUME Base, Ready, Consumes, InFrame
  PROVE  Lag' = Lag
<1>1. /\ CurPos = pkt.pos /\ CurFid = pkt.fid /\ CurFrame = pkt.frame
      /\ pkt.fid # last_fid <=> pkt.pos = 1
      /\ Goes /\ Decoding
  BY FlipsAtFirst, ConsumesGoes DEF Consumes
<1>2. PICK c \in Int, p \in Int, s \in Int, n \in Int :
        c = CurFrame /\ p = CurPos /\ s = sequence /\ n = LastPos /\ p >= 1
  <2>1. LastPos \in Nat /\ sequence \in Int
    BY SetupIs DEF Base, Typed
  <2> QED BY <2>1, CurIs, BoundsAssumption DEF Base
<1>3. PICK c1, p1, s1 : c1 = CurFrame' /\ p1 = CurPos' /\ s1 = sequence'
  OBVIOUS
<1>4. /\ s1 = IF p = 1 THEN s + 1 ELSE s
      /\ (c1 = c /\ p1 = p + 1) \/ (c1 = c + 1 /\ p1 = 1)
  BY <1>1, <1>2, <1>3 DEF Goes, Consumes
<1>5. (IF p1 = 1 THEN c1 - 1 - s1 ELSE c1 - s1) = (IF p = 1 THEN c - 1 - s ELSE c - s)
  BY <1>2, <1>4
<1> QED BY <1>2, <1>3, <1>5 DEF Lag

\* What is copied is as far behind as the decoder.
LEMMA FilledOnTime ==
  ASSUME Base, DataInv, SeqInv, Ready, Even, Consumes, InSync, CountFrame, NEW z \in Buffer,
         z.data = Filled.data, z.seq = Filled.seq, z.run = Filled.run
  PROVE  OnTime(z)' /\ \A i \in DOMAIN done : Level(done[i], z)
<1>1. /\ queue # <<>> /\ Decoding /\ ~blind /\ setup \in Setups /\ buf \in Buffer
      /\ z.run = run /\ z.seq = sequence'
      /\ buf.used = 0 <=> buf.data = {}
      /\ pkt.fid = last_fid => buf.state = "ACTIVE" /\ buf.run = run /\ buf.seq = sequence
      /\ buf.data # {} => Offset(z) = Offset(buf) /\ pkt.fid = last_fid
      /\ (buf.data = {} /\ z.data # {}) => Offset(z) = pkt.frame - sequence'
  BY FilledOffset
<1>2. InFrame /\ z.data # {}
  BY FilledReady, FilledIsCounted DEF InSync
<1>3. /\ CurPos = pkt.pos /\ CurFrame = pkt.frame
      /\ pkt.fid # last_fid <=> pkt.pos = 1
  BY <1>2, FlipsAtFirst
<1>4. Offset(z) = Lag
  <2>1. CASE buf.data # {}
    <3>1. OnTime(buf)
      BY <1>1, <2>1 DEF Even
    <3> QED BY <1>1, <2>1, <3>1 DEF OnTime
  <2>2. CASE buf.data = {}
    <3>1. buf.state # "ACTIVE"
      BY <1>1, <2>2 DEF Ready
    <3>2. pkt.pos = 1 /\ pkt.fid # last_fid
      BY <1>1, <1>3, <3>1
    <3>3. PICK c \in Int, s \in Int : c = pkt.frame /\ s = sequence
      BY <1>1, PacketIs, BoundsAssumption DEF Base, Typed
    <3>4. Offset(z) = c - (s + 1)
      BY <1>1, <1>2, <2>2, <3>2, <3>3 DEF CountFrame
    <3>5. Lag = c - 1 - s
      BY <1>3, <3>2, <3>3 DEF Lag
    <3> QED BY <3>3, <3>4, <3>5
  <2> QED BY <2>1, <2>2
<1>5. OnTime(z)'
  <2>1. OnTime(z)
    BY <1>4 DEF OnTime
  <2>2. Lag' = Lag /\ run' = run
    BY <1>2, LagConsumes DEF Consumes
  <2> QED BY <2>1, <2>2, OnTimeMoves
<1>6. \A i \in DOMAIN done : Level(done[i], z)
  BY <1>1, <1>4 DEF Even, OnTime, Level
<1> QED BY <1>5, <1>6

\* Every step keeps the buffers of a run equally far behind.
LEMMA EvenStep ==
  ASSUME MarkersComplete, Base, DataInv, SeqInv, Ready, Even, [Next]_vars, Exact'
  PROVE  Even'
<1>1. CASE Arrive
  <2>1. Stays /\ UNCHANGED <<queue, done, run, sequence>>
    BY <1>1, ArriveStep
  <2>2. Lags
    BY <2>1, LagStays DEF Lags
  <2>3. HeadKept \/ HeadFresh
    BY <2>1 DEF HeadKept, HeadFresh, buf
  <2> QED BY <2>1, <2>2, <2>3, EvenKept
<1>2. CASE NextUrb \/ QueueBuffer
  <2>1. Stays /\ UNCHANGED <<done, run, sequence>> /\ (HeadKept \/ HeadFresh)
    BY <1>2, QueueStep
  <2>2. Lags
    BY <2>1, LagStays DEF Lags
  <2> QED BY <2>1, <2>2, EvenKept
<1>3. CASE SuspendResume \/ StopStart
  <2>1. done' = done /\ run' = run + 1 /\ (HeadKept \/ HeadFresh)
    BY <1>3, StartStep
  <2> QED BY <2>1, EvenKept DEF Lags
<1>4. CASE FidToggled \/ ImageStarted
  <2>1. /\ Stays /\ UNCHANGED <<run, sequence>> /\ queue # <<>> /\ buf.used # 0 /\ HeadFresh
    BY <1>4, EndedStep
  <2>2. PICK z \in Buffer : done' = Append(done, z) /\ z.data = buf.data /\ z.seq = buf.seq /\ z.run = buf.run
    BY <1>4, EndedStep
  <2>3. Lag' = Lag /\ run' = run
    BY <2>1, LagStays
  <2>4. OnTime(z) /\ \A i \in DOMAIN done : Level(done[i], z)
    <3>1. buf.data # {}
      BY <2>1 DEF Base, QueueInv
    <3>2. OnTime(buf) /\ \A i \in DOMAIN done : Level(done[i], buf)
      BY <2>1, <3>1 DEF Even
    <3>3. PICK b : b = buf
      OBVIOUS
    <3>4. Offset(z) = Offset(b)
      BY <2>2, <3>3, SameOffset
    <3> QED BY <2>2, <3>2, <3>3, <3>4 DEF OnTime, Level
  <2>5. OnTime(z)'
    BY <2>3, <2>4, OnTimeMoves
  <2>6. Lags
    BY <2>3 DEF Lags
  <2> QED BY <2>1, <2>2, <2>4, <2>5, <2>6, EvenHandedOver
<1>5. ASSUME Consume PROVE Consumes /\ Lags
  <2>1. Consumes
    BY <1>5, ConsumeStep
  <2>2. InFrame
    BY <1>5 DEF Consume, NoBuffer, OutOfSync, PayloadCopied, FrameEnded, InSync
  <2> QED BY <2>1, <2>2, LagConsumes DEF Lags, Consumes
<1>6. CASE NoBuffer \/ OutOfSync
  <2>1. Consume
    BY <1>6 DEF Consume
  <2>2. done' = done /\ (HeadKept \/ HeadFresh)
    BY <1>6, <2>1, ConsumeStep DEF HeadFresh
  <2> QED BY <1>5, <2>1, <2>2, EvenKept
<1>7. CASE PayloadCopied
  <2>1. Consume
    BY <1>7 DEF Consume
  <2>2. done' = done /\ InSync /\ CountFrame /\ queue' # <<>> /\ buf' = Filled
    BY <1>7, <2>1, ConsumeStep
  <2>3. PICK z \in Buffer : z = Filled
    BY <2>2, FilledIsCounted
  <2>4. OnTime(z)' /\ \A i \in DOMAIN done : Level(done[i], z)
    BY <1>5, <2>1, <2>2, <2>3, FilledOnTime
  <2>5. z = buf'
    BY <2>2, <2>3
  <2>6. OnTime(buf)' /\ \A i \in DOMAIN done' : Level(done[i], buf)'
    BY <2>2, <2>4, <2>5 DEF OnTime, Lag, Level, Offset, FirstFrame, Frames
  <2>7. \A i \in DOMAIN done' : OnTime(done[i])'
    <3> SUFFICES ASSUME NEW i \in DOMAIN done PROVE OnTime(done[i])'
      BY <2>2
    <3>1. PICK b : b = done[i]
      OBVIOUS
    <3>2. OnTime(b)' /\ b = done'[i]
      BY <1>5, <2>1, <2>2, <3>1, DoneOnTime
    <3> QED BY <3>2
  <2>8. \A i, j \in DOMAIN done' : Level(done[i], done[j])'
    <3>1. \A i, j \in DOMAIN done' : Level(done'[i], done'[j])
      BY <2>2 DEF Even
    <3> QED BY <3>1 DEF Level, Offset, FirstFrame, Frames
  <2> QED BY <2>6, <2>7, <2>8 DEF Even
<1>8. CASE FrameEnded
  <2>1. Consume
    BY <1>8 DEF Consume
  <2>2. InSync /\ CountFrame /\ HeadFresh
    BY <1>8, <2>1, ConsumeStep
  <2>3. PICK z \in Buffer : done' = Append(done, z) /\ z.data = Filled.data /\ z.seq = Filled.seq
                            /\ z.run = Filled.run
    BY <1>8, <2>1, ConsumeStep
  <2>4. OnTime(z)' /\ \A i \in DOMAIN done : Level(done[i], z)
    BY <1>5, <2>1, <2>2, <2>3, FilledOnTime
  <2> QED BY <1>5, <2>1, <2>2, <2>3, <2>4, EvenHandedOver
<1>9. CASE UNCHANGED vars
  <2>1. UNCHANGED <<setup, frame, pos, fid, pkt, queue, blind, last_fid, sequence, done, run, faults>>
    BY <1>9 DEF vars, device
  <2>2. Stays
    BY <2>1 DEF Stays, CurFrame, CurPos, CurFid, Decoding
  <2>3. Lags
    BY <2>1, <2>2, LagStays DEF Lags
  <2>4. HeadKept \/ HeadFresh
    BY <2>1 DEF HeadKept, HeadFresh, buf
  <2> QED BY <2>1, <2>3, <2>4, EvenKept
<1>10. CASE PacketLost \/ PacketInvalid
  BY <1>10, NothingIsLost
<1> QED BY <1>1, <1>2, <1>3, <1>4, <1>6, <1>7, <1>8, <1>9, <1>10 DEF Next, Bus, Decode

LEMMA SeqCounts ==
  ASSUME Base, DataInv, SeqInv, Exact => Even
  PROVE  SequenceCountsFrames
<1>1. SequenceStaysBehind
  BY SeqStaysBehind
<1>2. ASSUME NEW i \in DOMAIN done, NEW j \in DOMAIN done, done[i].run = done[j].run, Exact
      PROVE  done[j].seq - done[i].seq = FirstFrame(done[j]) - FirstFrame(done[i])
  <2>1. done[i] \in Buffer /\ done[j] \in Buffer /\ setup \in Setups
    BY ElementOfSeq DEF Base, Typed
  <2>2. HasFirst(done[i]) /\ HasFirst(done[j])
    BY DEF DataInv, SeqInv, Counted
  <2>3. /\ FirstFrame(done[i]) \in Int /\ FirstFrame(done[j]) \in Int
        /\ done[i].seq \in Int /\ done[j].seq \in Int
    BY <2>1, <2>2, OffsetIs, BufferIs
  <2>4. FirstFrame(done[i]) - done[i].seq = FirstFrame(done[j]) - done[j].seq
    BY <1>2 DEF Even, Level, Offset
  <2> QED BY <2>3, <2>4
<1>3. ((faults = 0 \/ setup.mjpegNoEof) /\ ~(NoFid /\ setup.starves)) <=> Exact
  BY DEF Exact
<1> QED BY <1>1, <1>2, <1>3 DEF SequenceCountsFrames, SequenceStaysBehind

\* Where the markers of the frames are complete, the sequence numbers moreover count
\* the frames of the device exactly: without faults, and with
\* UVC_QUIRK_MJPEG_NO_EOF also when the device forgets the end of a frame.
THEOREM SequenceIsExact == MarkersComplete /\ Spec => []SequenceCountsFrames
<1> SUFFICES ASSUME MarkersComplete PROVE Spec => []SequenceCountsFrames
  OBVIOUS
<1> DEFINE Inv == Base /\ DataInv /\ SeqInv /\ (Exact => (Ready /\ Even))
<1>1. Init => Inv
  BY BaseInit, DataInit, SeqInit, ReadyInit, EvenInit
<1>2. Inv /\ [Next]_vars => Inv'
  <2> SUFFICES ASSUME Inv, [Next]_vars PROVE Inv'
    OBVIOUS
  <2>1. Base' /\ DataInv' /\ SeqInv'
    BY DataStep, SeqStep
  <2>2. ASSUME Exact' PROVE Ready' /\ Even'
    <3>1. Exact /\ Ready /\ Ready'
      BY <2>2, ReadyStep
    <3> QED BY <2>2, <3>1, EvenStep
  <2> QED BY <2>1, <2>2
<1>3. Inv => SequenceCountsFrames
  BY SeqCounts
<1> HIDE DEF Inv
<1> QED BY <1>1, <1>2, <1>3, PTL DEF Spec

-----------------------------------------------------------------------------
(* Whole frames *)

\* The device marks the end of a frame or the start of the next.
EndsShow == \A s \in Setups : "invalid" \notin s.faults =>
  /\ s.noFid => s.eof # "never"
  /\ "noEof" \in s.faults => s.mjpegNoEof

\* Is a frame taken in from its first payload, whatever its size?
FromFirst == Compressed /\ "lost" \notin setup.faults

\* b holds the payloads p to k of the frame f.
Part(b, f, p, k) ==
  /\ b.data = {f} \X (p .. k) /\ b.used = k - p + 1
  /\ f \in 1 .. MaxFrames /\ p \in 1 .. FrameSize /\ k \in p .. FrameSize
  /\ FromFirst => p = 1

\* What comes after the payload k of the frame f comes next.
Follows(f, k) ==
  \/ CurFrame = f /\ CurPos = k + 1 /\ last_fid = CurFid
  \/ /\ CurFrame = f + 1 /\ CurPos = 1 /\ k = FrameSize
     /\ last_fid # CurFid \/ setup.mjpegNoEof

\* Without a loss the decoder is in step with the device.
InStep == FromFirst =>
  /\ CurPos # 1 => last_fid = CurFid
  /\ (queue # <<>> /\ buf.state = "ACTIVE") => buf.data # {}

HeadWhole == (queue # <<>> /\ ~buf.error /\ buf.data # {}) =>
  \E f, p, k : Part(buf, f, p, k) /\ (buf.run = run => Follows(f, k))

\* The last payload of a frame says so.
Marked == (Decoding /\ pkt.pos = LastPos /\ "noEof" \notin setup.faults) =>
  /\ setup.eof # "never" => pkt.eof
  /\ ~NoFid => fid = 1 - pkt.fid

\* b holds a whole frame, but for what a compressed format does not show.
HoldsWhole(b) ==
  \E f \in Frames(b), first \in 1 .. FrameSize, last \in 1 .. FrameSize :
    /\ b.data = {f} \X (first .. last)
    /\ first = 1 \/ (Compressed /\ "lost" \in setup.faults)
    /\ last = FrameSize \/ (Compressed /\ b.run < run)

IsWhole(b) == ~b.error => HoldsWhole(b)
DoneWhole == \A i \in DOMAIN done : IsWhole(done[i])

WholeInv == InStep /\ HeadWhole /\ Marked /\ DoneWhole

LEMMA Shows ==
  ASSUME EndsShow, setup \in Setups, "invalid" \notin setup.faults
  PROVE  /\ NoFid => setup.eof # "never"
         /\ "noEof" \in setup.faults => setup.mjpegNoEof
BY DEF EndsShow, NoFid

LEMMA WholeInit == Init => WholeInv
<1> SUFFICES ASSUME Init PROVE WholeInv
  OBVIOUS
<1>1. CurPos = 1 /\ ~Decoding /\ DOMAIN done = {}
  BY DEF Init, CurPos, Decoding
<1>2. queue # <<>> => buf = Fresh
  BY DEF Init, buf
<1> QED BY <1>1, <1>2 DEF WholeInv, InStep, HeadWhole, Marked, DoneWhole, Fresh

LEMMA PartGrows ==
  ASSUME NEW f, NEW p \in Nat, NEW k \in Nat, p <= k + 1
  PROVE  ({f} \X (p .. k)) \cup {<<f, k + 1>>} = {f} \X (p .. k + 1)
<1>1. (p .. k) \cup {k + 1} = p .. k + 1
  OBVIOUS
<1>2. PICK A : A = p .. k
  OBVIOUS
<1>3. ({f} \X A) \cup {<<f, k + 1>>} = {f} \X (A \cup {k + 1})
  OBVIOUS
<1> QED BY <1>1, <1>2, <1>3

\* A part is whole when it has the size of a frame, or, where the size shows
\* nothing, when it reaches the end of its frame or was cut off by a suspend.
LEMMA PartIsWhole ==
  ASSUME setup \in Setups, NEW b, NEW f, NEW p, NEW k, Part(b, f, p, k),
         IF Compressed THEN k = FrameSize \/ b.run < run ELSE b.used = FrameSize
  PROVE  HoldsWhole(b)
<1>1. FrameSize \in Nat \ {0} /\ p \in 1 .. FrameSize /\ k \in p .. FrameSize /\ b.used = k - p + 1
      /\ b.data = {f} \X (p .. k) /\ (FromFirst => p = 1)
  BY SetupIs DEF Part
<1>2. k \in 1 .. FrameSize /\ <<f, p>> \in b.data /\ <<f, p>>[1] = f
  BY <1>1
<1>3. f \in Frames(b)
  BY <1>2 DEF Frames
<1>4. p = 1 \/ (Compressed /\ "lost" \in setup.faults)
  BY <1>1 DEF FromFirst
<1>5. k = FrameSize \/ (Compressed /\ b.run < run)
  BY <1>1
<1> QED BY <1>1, <1>2, <1>3, <1>4, <1>5 DEF HoldsWhole

\* What is copied without an error is a part of the frame of the packet.
LEMMA FilledIsPart ==
  ASSUME EndsShow, "invalid" \notin setup.faults, Base, WholeInv, InSync, CountFrame,
         ~Filled.error
  PROVE  /\ ~Overflows
         /\ Filled.data # {} => \E p, k : /\ Part(Filled, pkt.frame, p, k)
                                          /\ \/ pkt.pos = k
                                             \/ k = FrameSize /\ pkt.pos = FrameSize + 1
<1>1. /\ Decoding /\ InFrame /\ ~blind /\ queue # <<>> /\ setup \in Setups /\ buf \in Buffer
      /\ buf.state = "ACTIVE" \/ pkt.fid # last_fid
      /\ CurFrame = pkt.frame /\ CurFid = pkt.fid /\ CurPos = pkt.pos
  <2>1. Decoding /\ InFrame /\ ~blind /\ (buf.state = "ACTIVE" \/ pkt.fid # last_fid)
    BY DEF InSync, InFrame
  <2>2. queue # <<>> /\ setup \in Setups
    BY <2>1 DEF Base, QueueInv, Typed
  <2>3. buf \in Buffer
    BY <2>2, HeadIs DEF Base
  <2> QED BY <2>1, <2>2, <2>3 DEF CurFrame, CurFid, CurPos
<1>2. ~Overflows /\ ~buf.error
  BY <1>1, FilledIs, StampedIs DEF Base
<1>3. /\ Filled.used = buf.used + pkt.size
      /\ Filled.data = (IF pkt.size = 0 THEN buf.data ELSE buf.data \cup {<<pkt.frame, pkt.pos>>})
  BY <1>1, <1>2, FilledIs
<1>4. /\ FrameSize \in Nat \ {0} /\ LastPos \in Nat /\ LastPos <= FrameSize + 1
      /\ pkt.pos \in 1 .. LastPos /\ pkt.size \in {0, 1} /\ pkt.frame \in 1 .. MaxFrames
      /\ pkt.size = (IF pkt.pos > FrameSize THEN 0 ELSE 1) /\ pkt.fid \in {0, 1}
      /\ buf.used \in Nat /\ (buf.used = 0 <=> buf.data = {})
  <2>1. buf.used \in Nat /\ (buf.used = 0 <=> buf.data = {})
    BY <1>1, BufferIs DEF Base, QueueInv
  <2> QED BY <1>1, <2>1, SetupIs, PacketIs DEF Base, PktInv
<1>5. ASSUME Filled.data # {}
      PROVE  \E p, k : /\ Part(Filled, pkt.frame, p, k)
                       /\ pkt.pos = k \/ (k = FrameSize /\ pkt.pos = FrameSize + 1)
  <2>1. CASE buf.data # {}
    <3>1. pkt.fid = last_fid /\ buf.run = run /\ ~StartOfImage
      <4>1. pkt.fid = last_fid /\ ~StartOfImage
        BY <1>1, <1>4, <2>1 DEF InFrame, Filling
      <4>2. buf.state = "ACTIVE" /\ last_fid # FidUnknown
        BY <1>1, <1>4, <4>1 DEF FidUnknown
      <4> QED BY <1>1, <4>1, <4>2 DEF Base, QueueInv
    <3>2. PICK f, p, k : Part(buf, f, p, k) /\ Follows(f, k)
      BY <1>1, <1>2, <2>1, <3>1 DEF WholeInv, HeadWhole
    <3>3. CurFrame = f /\ CurPos = k + 1
      BY <1>1, <1>4, <2>1, <3>1, <3>2 DEF Follows, StartOfImage, Filling
    <3>4. /\ f = pkt.frame /\ pkt.pos = k + 1 /\ p \in 1 .. FrameSize /\ k \in p .. FrameSize
          /\ p \in Nat /\ k \in Nat /\ buf.used = k - p + 1 /\ (FromFirst => p = 1)
          /\ buf.data = {f} \X (p .. k) /\ f \in 1 .. MaxFrames
      BY <1>1, <1>4, <3>2, <3>3 DEF Part
    <3>5. CASE pkt.size = 0
      <4>1. k = FrameSize /\ pkt.pos = FrameSize + 1 /\ Filled.used = k - p + 1 /\ Filled.data = {f} \X (p .. k)
        BY <1>3, <1>4, <3>4, <3>5
      <4> QED BY <3>4, <4>1 DEF Part
    <3>6. CASE pkt.size = 1
      <4>1. pkt.pos <= FrameSize /\ Filled.used = (k + 1) - p + 1 /\ k + 1 \in p .. FrameSize
        BY <1>3, <1>4, <3>4, <3>6
      <4>2. Filled.data = {f} \X (p .. k + 1)
        <5>1. p <= k + 1
          BY <3>4
        <5>2. Filled.data = ({f} \X (p .. k)) \cup {<<f, k + 1>>}
          BY <1>3, <3>4, <3>6
        <5> QED BY <3>4, <5>1, <5>2, PartGrows
      <4>3. Part(Filled, f, p, k + 1)
        BY <3>4, <4>1, <4>2 DEF Part
      <4> QED BY <3>4, <4>3
    <3> QED BY <1>4, <3>5, <3>6
  <2>2. CASE buf.data = {}
    <3>1. pkt.size = 1 /\ pkt.pos \in 1 .. FrameSize
      BY <1>3, <1>4, <1>5, <2>2
    <3>2. Filled.data = {<<pkt.frame, pkt.pos>>} /\ Filled.used = 1
      BY <1>3, <1>4, <2>2, <3>1
    <3>3. PICK f, n \in Nat : f = pkt.frame /\ n = pkt.pos /\ n \in 1 .. FrameSize
      BY <1>4, <3>1
    <3>4. {<<f, n>>} = {f} \X (n .. n)
      BY <3>3
    <3>5. FromFirst => n = 1
      BY <1>1, <2>2, <3>3 DEF WholeInv, InStep
    <3>6. Part(Filled, f, n, n)
      <4>1. 1 = n - n + 1 /\ n \in n .. FrameSize /\ f \in 1 .. MaxFrames
        BY <1>4, <3>3
      <4> QED BY <3>2, <3>3, <3>4, <3>5, <4>1 DEF Part
    <3> QED BY <3>3, <3>6
  <2> QED BY <2>1, <2>2
<1> QED BY <1>2, <1>5

\* A later run changes nothing of what was handed over.
LEMMA IsWholeKept ==
  ASSUME NEW b \in Buffer, IsWhole(b), setup \in Setups, setup' = setup,
         run \in Nat, run' \in {run, run + 1}
  PROVE  IsWhole(b)'
<1>1. FrameSize' = FrameSize /\ Compressed' = Compressed
  BY SetupStays
<1>2. b.run < run => b.run < run'
  BY BufferIs
<1> QED BY <1>1, <1>2 DEF IsWhole, HoldsWhole, Frames

LEMMA DoneWholeKept ==
  ASSUME Base, DoneWhole, setup' = setup, done' = done, run' \in {run, run + 1}
  PROVE  DoneWhole'
<1>1. setup \in Setups /\ run \in Nat /\ \A i \in DOMAIN done : done[i] \in Buffer
  BY ElementOfSeq, NatRun DEF Base, Typed
<1>2. ASSUME NEW i \in DOMAIN done PROVE IsWhole(done[i])'
  <2>1. PICK b \in Buffer : b = done[i] /\ b = done'[i]
    BY <1>1, <1>2
  <2>2. IsWhole(b)'
    BY <1>1, <1>2, <2>1, IsWholeKept DEF DoneWhole
  <2> QED BY <2>1, <2>2 DEF IsWhole, HoldsWhole, Frames
<1> QED BY <1>2 DEF DoneWhole

LEMMA EachWhole ==
  ASSUME \A i \in DOMAIN done' : \E b : b = done'[i] /\ IsWhole(b)'
  PROVE  DoneWhole'
<1>1. ASSUME NEW i \in DOMAIN done' PROVE IsWhole(done[i])'
  <2>1. PICK b : b = done'[i] /\ IsWhole(b)'
    OBVIOUS
  <2> QED BY <2>1 DEF IsWhole, HoldsWhole, Frames
<1> QED BY <1>1 DEF DoneWhole

LEMMA DoneWholeAppend ==
  ASSUME Base, DoneWhole, setup' = setup, run' = run,
         NEW z \in Buffer, done' = Append(done, z), IsWhole(z)
  PROVE  DoneWhole'
<1>1. \A i \in DOMAIN done' : IsWhole(done'[i])
  BY DoneIs DEF DoneWhole
<1>2. FrameSize' = FrameSize /\ Compressed' = Compressed
  BY SetupStays
<1>3. ASSUME NEW b, IsWhole(b) PROVE IsWhole(b)'
  BY <1>2, <1>3 DEF IsWhole, HoldsWhole, Frames
<1>4. \A i \in DOMAIN done' : \E b : b = done'[i] /\ IsWhole(b)'
  BY <1>1, <1>3
<1> QED BY <1>4, EachWhole

\* There is nothing to say of a buffer that is empty or known to be faulty.
LEMMA HeadWholeEmpty ==
  ASSUME queue' # <<>> => (buf'.data = {} \/ buf'.error)
  PROVE  HeadWhole'
BY DEF HeadWhole

LEMMA HeadWholeKept ==
  ASSUME Base, HeadWhole, HeadKept, setup' = setup,
         \/ Stays /\ last_fid' = last_fid /\ run' = run
         \/ run' = run + 1
  PROVE  HeadWhole'
<1>1. PICK b, b1 : b = buf /\ b1 = buf'
  OBVIOUS
<1>2. /\ queue # <<>> /\ queue' # <<>> /\ b1.data = b.data /\ b1.used = b.used /\ b1.run = b.run
      /\ b.error => b1.error
  BY <1>1 DEF HeadKept
<1>3. b.run <= run /\ b.run \in Nat /\ run \in Nat
  <2>1. b \in Buffer /\ setup \in Setups
    BY <1>1, <1>2, HeadIs DEF Base, Typed
  <2> QED BY <1>1, <1>2, <2>1, BufferIs, NatRun DEF Base, QueueInv
<1>4. ASSUME ~b1.error, b1.data # {}
      PROVE  \E f, p, k : Part(b1, f, p, k)' /\ (b1.run = run' => Follows(f, k)')
  <2>1. ~b.error /\ b.data # {}
    BY <1>2, <1>4
  <2>2. PICK f, p, k : Part(b, f, p, k) /\ (b.run = run => Follows(f, k))
    BY <1>1, <1>2, <2>1 DEF HeadWhole
  <2>3. FrameSize' = FrameSize /\ Compressed' = Compressed /\ FromFirst' = FromFirst
    BY SetupStays DEF FromFirst
  <2>4. Part(b1, f, p, k)'
    BY <1>2, <2>2, <2>3 DEF Part
  <2>5. ASSUME b1.run = run' PROVE Follows(f, k)'
    <3>1. Stays /\ last_fid' = last_fid /\ b.run = run
      BY <1>2, <1>3, <2>5
    <3> QED BY <2>2, <2>3, <3>1 DEF Follows, Stays
  <2> QED BY <2>4, <2>5
<1>5. HeadWhole'
  <2>1. (~buf'.error /\ buf'.data # {}) =>
          \E f, p, k : Part(buf, f, p, k)' /\ (buf'.run = run' => Follows(f, k)')
    BY <1>1, <1>4 DEF Part
  <2> QED BY <2>1 DEF HeadWhole
<1> QED BY <1>5

\* After a payload that does not end its frame, the one after it comes next.
LEMMA FollowsConsume ==
  ASSUME EndsShow, "invalid" \notin setup.faults, Base, WholeInv, Consumes,
         last_fid' = pkt.fid, ~pkt.eof, NEW k \in 1 .. FrameSize, NEW f, f = pkt.frame,
         pkt.pos = k \/ (k = FrameSize /\ pkt.pos = FrameSize + 1)
  PROVE  Follows(f, k)'
<1>1. /\ Decoding /\ Goes /\ CurFrame = pkt.frame /\ CurPos = pkt.pos /\ CurFid = pkt.fid
      /\ CurFid' = fid /\ setup' = setup /\ FrameSize' = FrameSize /\ setup \in Setups
  BY ConsumesGoes, SetupStays DEF Consumes, Base, Typed
<1>2. /\ FrameSize \in Nat \ {0} /\ LastPos \in Nat /\ FrameSize <= LastPos /\ LastPos <= FrameSize + 1
      /\ pkt.pos \in 1 .. LastPos /\ pkt.fid \in {0, 1} /\ NoFid \in BOOLEAN
  BY <1>1, SetupIs, PacketIs DEF Base
<1>3. CASE pkt.pos < LastPos
  <2>1. CurFrame' = pkt.frame /\ CurPos' = pkt.pos + 1 /\ CurFid' = pkt.fid
    BY <1>1, <1>2, <1>3 DEF Goes
  <2>2. pkt.pos = k
    BY <1>2, <1>3
  <2> QED BY <2>1, <2>2 DEF Follows
<1>4. CASE pkt.pos = LastPos
  <2>1. CurFrame' = pkt.frame + 1 /\ CurPos' = 1
    BY <1>1, <1>2, <1>4 DEF Goes
  <2>2. k = FrameSize
    BY <1>2, <1>4
  <2>3. last_fid' # CurFid' \/ setup.mjpegNoEof
    <3> SUFFICES ASSUME ~setup.mjpegNoEof PROVE last_fid' # CurFid'
      OBVIOUS
    <3>1. "noEof" \notin setup.faults /\ (NoFid => setup.eof # "never")
      BY <1>1, Shows
    <3>2. (setup.eof # "never" => pkt.eof) /\ (~NoFid => fid = 1 - pkt.fid)
      BY <1>1, <1>4, <3>1 DEF WholeInv, Marked
    <3>3. fid = 1 - pkt.fid
      BY <3>1, <3>2
    <3> QED BY <1>1, <1>2, <3>3
  <2> QED BY <1>1, <2>1, <2>2, <2>3 DEF Follows
<1> QED BY <1>2, <1>3, <1>4

\* The last payload that arrives says so, unless the device forgets it.
LEMMA MarkedArrives ==
  ASSUME Base, Arrive
  PROVE  Marked'
<1>1. PICK err \in BOOLEAN, forget \in BOOLEAN :
        /\ forget => "noEof" \in setup.faults
        /\ Advance(forget)
        /\ pkt' = [frame |-> frame, pos |-> pos, size |-> IF pos > FrameSize THEN 0 ELSE 1,
                   fid |-> fid, err |-> err,
                   eof |-> setup.eof # "never" /\ pos = LastPos /\ ~forget]
  BY DEF Arrive
<1>2. setup' = setup /\ LastPos' = LastPos /\ NoFid' = NoFid
  BY SetupStays DEF Arrive
<1> DEFINE e == setup.eof # "never" /\ pos = LastPos /\ ~forget
           z == IF pos > FrameSize THEN 0 ELSE 1
<1>3. e <=> setup.eof # "never" /\ pos = LastPos /\ ~forget
  OBVIOUS
<1>4. pkt' = [frame |-> frame, pos |-> pos, size |-> z, fid |-> fid, err |-> err, eof |-> e]
  BY <1>1
<1> HIDE DEF e, z
<1>5. pkt'.pos = pos /\ pkt'.fid = fid /\ pkt'.eof = e
  BY <1>4
<1>6. ASSUME pos = LastPos, ~forget PROVE ~NoFid => fid' = 1 - fid
  <2>1. LastPos \in Nat
    BY SetupIs DEF Base, Typed
  <2> QED BY <1>1, <1>6, <2>1 DEF Advance
<1> QED BY <1>1, <1>2, <1>3, <1>5, <1>6 DEF Marked

\* An error is set on the first buffer when a packet is lost.
LEMMA LossIsMarked ==
  ASSUME Base, PacketLost
  PROVE  queue' # <<>> => (buf'.data = {} \/ buf'.error)
<1> SUFFICES ASSUME queue' # <<>> PROVE buf'.data = {} \/ buf'.error
  OBVIOUS
<1>1. CASE blind
  <2>1. queue' = queue
    BY <1>1 DEF PacketLost
  <2>2. buf.used = 0 /\ buf.data = {}
    BY <1>1, <2>1 DEF Base, QueueInv
  <2> QED BY <2>1, <2>2 DEF buf
<1>2. CASE ~blind
  <2>1. queue # <<>> /\ queue' = [queue EXCEPT ![1].error = TRUE]
    BY <1>2 DEF PacketLost, Base, QueueInv
  <2>2. 1 \in DOMAIN queue
    BY <2>1, HeadIs DEF Base
  <2>3. buf'.error = TRUE
    <3>1. queue'[1] = [queue[1] EXCEPT !.error = TRUE]
      BY <2>1, <2>2
    <3>2. queue[1] \in Buffer
      BY <2>1, HeadIs DEF Base, buf
    <3>3. buf' = [queue[1] EXCEPT !.error = TRUE]
      BY <3>1 DEF buf
    <3> DEFINE U == 0 .. BufferLength
               Q == -1 .. MaxFrames
               R == 0 .. MaxFaults + 1
               P == SUBSET ((1 .. MaxFrames) \X (1 .. FrameSize))
    <3>4. queue[1] \in [state : {"QUEUED", "ACTIVE"}, error : BOOLEAN, used : U, seq : Q, run : R, data : P]
      BY <3>2 DEF Buffer
    <3> HIDE DEF U, Q, R, P
    <3> QED BY <3>3, <3>4
  <2> QED BY <2>3
<1> QED BY <1>1, <1>2

\* What the decoder hands over before it consumes the packet.
LEMMA EndedIsWhole ==
  ASSUME EndsShow, "invalid" \notin setup.faults, Base, WholeInv, FidToggled \/ ImageStarted
  PROVE  DoneWhole'
<1>1. /\ queue # <<>> /\ ~blind /\ buf.used # 0 /\ Decoding /\ setup' = setup /\ setup \in Setups
      /\ run' = run /\ buf.data # {} /\ buf \in Buffer
  <2>1. queue # <<>> /\ ~blind /\ buf.used # 0 /\ Decoding /\ setup' = setup /\ run' = run
    BY EndedStep
  <2> QED BY <2>1, HeadIs DEF Base, QueueInv, Typed
<1>2. CASE FidToggled
  <2>1. HandOver(buf) /\ pkt.fid # last_fid /\ CurFid = pkt.fid /\ CurPos = pkt.pos
    BY <1>1, <1>2 DEF FidToggled, CurFid, CurPos
  <2>2. PICK b \in Buffer : b = buf
    BY <1>1
  <2>3. PICK z \in Buffer : /\ done' = Append(done, z) /\ z.data = b.data /\ z.run = b.run
                            /\ z.error = (b.error \/ (~Compressed /\ b.used # FrameSize))
    BY <1>1, <2>1, <2>2, HandOverIs
  <2>4. ASSUME ~z.error PROVE HoldsWhole(z)
    <3>1. ~buf.error /\ (Compressed \/ buf.used = FrameSize)
      BY <2>2, <2>3, <2>4
    <3>2. PICK f, p, k : Part(buf, f, p, k) /\ (buf.run = run => Follows(f, k))
      BY <1>1, <3>1 DEF WholeInv, HeadWhole
    <3>3. k = FrameSize \/ buf.run < run
      <4>1. buf.run <= run /\ buf.run \in Nat /\ run \in Nat
        BY <1>1, BufferIs, NatRun DEF Base, QueueInv
      <4>2. buf.run = run => k = FrameSize
        BY <2>1, <3>2 DEF Follows
      <4> QED BY <4>1, <4>2
    <3>4. HoldsWhole(buf)
      <4>1. Compressed \in BOOLEAN
        BY <1>1, SetupIs
      <4> QED BY <1>1, <3>1, <3>2, <3>3, <4>1, PartIsWhole
    <3> QED BY <2>2, <2>3, <3>4 DEF HoldsWhole, Frames
  <2> QED BY <1>1, <2>3, <2>4, DoneWholeAppend DEF IsWhole, WholeInv
<1>3. CASE ImageStarted
  <2>1. HandOver([buf EXCEPT !.error = TRUE])
    BY <1>3 DEF ImageStarted
  <2> DEFINE b == [buf EXCEPT !.error = TRUE]
             U == 0 .. BufferLength
             Q == -1 .. MaxFrames
             R == 0 .. MaxFaults + 1
             P == SUBSET ((1 .. MaxFrames) \X (1 .. FrameSize))
  <2>2. b \in Buffer /\ b.error = TRUE
    <3>1. buf \in [state : {"QUEUED", "ACTIVE"}, error : BOOLEAN, used : U, seq : Q, run : R, data : P]
      BY <1>1 DEF Buffer
    <3> HIDE DEF U, Q, R, P
    <3>2. b \in [state : {"QUEUED", "ACTIVE"}, error : BOOLEAN, used : U, seq : Q, run : R, data : P]
          /\ b.error = TRUE
      BY <3>1
    <3> QED BY <3>2 DEF Buffer, U, Q, R, P
  <2>3. HandOver(b)
    BY <2>1
  <2> HIDE DEF b
  <2>4. PICK z \in Buffer : done' = Append(done, z) /\ z.error
    BY <1>1, <2>2, <2>3, HandOverIs
  <2>5. IsWhole(z)
    BY <2>4 DEF IsWhole
  <2> QED BY <1>1, <2>4, <2>5, DoneWholeAppend DEF WholeInv
<1> QED BY <1>2, <1>3

\* A packet is consumed.
LEMMA WholeConsume ==
  ASSUME EndsShow, "invalid" \notin setup.faults, Base, WholeInv, Consume
  PROVE  WholeInv'
<1>1. /\ Consumes /\ Goes /\ InFrame /\ Decoding /\ setup \in Setups /\ ~Decoding' /\ Base'
      /\ CurFrame = pkt.frame /\ CurPos = pkt.pos /\ CurFid = pkt.fid
      /\ last_fid' = CurFid \/ CurPos = LastPos
      /\ setup' = setup /\ FrameSize' = FrameSize /\ Compressed' = Compressed /\ run' = run
      /\ FromFirst' = FromFirst /\ Compressed \in BOOLEAN
  <2>1. Consumes /\ Base'
    BY ConsumeStep
  <2>2. InFrame
    BY DEF Consume, NoBuffer, OutOfSync, PayloadCopied, FrameEnded, InSync
  <2>3. setup \in Setups /\ setup' = setup /\ run' = run
    BY <2>1 DEF Base, Typed, Consumes
  <2>4. Compressed \in BOOLEAN
    BY <2>3, SetupIs
  <2>5. FrameSize' = FrameSize /\ Compressed' = Compressed /\ FromFirst' = FromFirst
    BY <2>3, SetupStays DEF FromFirst
  <2>6. /\ Goes /\ ~Decoding' /\ CurFrame = pkt.frame /\ CurPos = pkt.pos /\ CurFid = pkt.fid
        /\ last_fid' = CurFid \/ CurPos = LastPos
    BY <2>1, ConsumesGoes
  <2> QED BY <2>1, <2>2, <2>3, <2>4, <2>5, <2>6 DEF InFrame
<1>2. CurPos' # 1 => last_fid' = CurFid'
  <2>1. pkt.pos \in 1 .. LastPos /\ LastPos \in Nat
    BY <1>1, PacketIs, SetupIs DEF Base
  <2> QED BY <1>1, <2>1 DEF Goes
<1>3. Marked'
  BY <1>1 DEF Marked
<1>4. CASE NoBuffer \/ OutOfSync
  <2>1. /\ HeadKept \/ (queue = <<>> /\ queue' = <<>>)
        /\ queue # <<>> => buf.state # "ACTIVE"
        /\ done' = done
    BY <1>4, ConsumeStep DEF Consume
  <2>2. queue # <<>> => buf.data = {}
    <3> SUFFICES ASSUME queue # <<>> PROVE buf.data = {}
      OBVIOUS
    <3>1. buf \in Buffer
      BY HeadIs DEF Base
    <3>2. buf.state = "QUEUED"
      BY <1>1, <2>1, <3>1, BufferIs
    <3> QED BY <3>2 DEF Base, QueueInv
  <2>3. HeadWhole'
    BY <2>1, <2>2, HeadWholeEmpty DEF HeadKept
  <2>4. (queue' # <<>> /\ buf'.state = "ACTIVE") => FALSE
    BY <2>1 DEF HeadKept
  <2>5. InStep'
    BY <1>1, <1>2, <2>4 DEF InStep
  <2>6. DoneWhole'
    BY <1>1, <2>1, DoneWholeKept DEF WholeInv
  <2> QED BY <1>3, <2>3, <2>5, <2>6 DEF WholeInv
<1>5. ASSUME InSync, CountFrame, FromFirst PROVE Filled.data # {}
  <2>1. queue # <<>> /\ (buf.state = "ACTIVE" \/ pkt.fid # last_fid)
        /\ (Filled.used = 0 <=> Filled.data = {}) /\ (Overflows => Filled.used # 0)
    BY <1>5, FilledIsCounted DEF InSync
  <2>2. CASE Overflows
    BY <2>1, <2>2
  <2>3. CASE ~Overflows /\ buf.state = "ACTIVE"
    <3>1. buf.data # {}
      BY <1>5, <2>1, <2>3 DEF WholeInv, InStep
    <3>2. Filled.data = (IF pkt.size = 0 THEN buf.data ELSE buf.data \cup {<<pkt.frame, pkt.pos>>})
      BY <1>1, <2>1, <2>3, FilledIs
    <3> QED BY <2>1, <3>1, <3>2
  <2>4. CASE ~Overflows /\ pkt.fid # last_fid
    <3>1. pkt.pos = 1
      BY <1>1, <1>5, <2>4 DEF WholeInv, InStep
    <3>2. pkt.size = 1
      <4>1. FrameSize \in Nat \ {0} /\ pkt.size = IF pkt.pos > FrameSize THEN 0 ELSE 1
        BY <1>1, SetupIs DEF Base, PktInv
      <4> QED BY <3>1, <4>1
    <3>3. Filled.data = buf.data \cup {<<pkt.frame, pkt.pos>>}
      BY <1>1, <2>1, <2>4, <3>2, FilledIs
    <3> QED BY <2>1, <3>3
  <2> QED BY <2>1, <2>2, <2>3, <2>4
<1>6. CASE PayloadCopied
  <2>1. /\ InSync /\ CountFrame /\ done' = done /\ ~Ends /\ queue' # <<>> /\ buf' = Filled
        /\ last_fid' = pkt.fid
    BY <1>1, <1>6, ConsumeStep DEF Consume
  <2>2. PICK b : b = Filled
    OBVIOUS
  <2>3. InStep'
    BY <1>1, <1>2, <1>5, <2>1 DEF InStep
  <2>4. ASSUME ~b.error, b.data # {}
        PROVE  \E f, p, k : Part(b, f, p, k)' /\ Follows(f, k)'
    <3>1. PICK p, k : /\ Part(Filled, pkt.frame, p, k)
                      /\ pkt.pos = k \/ (k = FrameSize /\ pkt.pos = FrameSize + 1)
      BY <2>1, <2>2, <2>4, FilledIsPart
    <3>2. PICK f : f = pkt.frame
      OBVIOUS
    <3>3. Part(b, f, p, k)
      BY <2>2, <3>1, <3>2
    <3>4. Part(b, f, p, k)'
      BY <1>1, <3>3 DEF Part
    <3>5. k \in 1 .. FrameSize
      <4>1. FrameSize \in Nat
        BY <1>1, SetupIs
      <4> QED BY <3>3, <4>1 DEF Part
    <3>6. ~pkt.eof
      <4>1. Filled.used # 0
        BY <2>1, <2>2, <2>4, FilledIsCounted
      <4> QED BY <2>1, <4>1 DEF Ends, EofFound
    <3>7. Follows(f, k)'
      BY <1>1, <2>1, <3>1, <3>2, <3>5, <3>6, FollowsConsume
    <3> QED BY <3>4, <3>7
  <2>5. HeadWhole'
    <3>1. b = buf'
      BY <2>1, <2>2
    <3>2. (~buf'.error /\ buf'.data # {}) => \E f, p, k : Part(buf, f, p, k)' /\ Follows(f, k)'
      BY <2>4, <3>1 DEF Part
    <3> QED BY <3>2 DEF HeadWhole
  <2>6. DoneWhole'
    BY <1>1, <2>1, DoneWholeKept DEF WholeInv
  <2> QED BY <1>3, <2>3, <2>5, <2>6 DEF WholeInv
<1>7. CASE FrameEnded
  <2>1. InSync /\ CountFrame /\ HeadFresh /\ Ends
    BY <1>7, ConsumeStep DEF Consume
  <2>2. queue' # <<>> => buf'.data = {} /\ buf'.state # "ACTIVE"
    BY <2>1 DEF HeadFresh, Fresh
  <2>3. HeadWhole' /\ InStep'
    BY <1>1, <1>2, <2>2, HeadWholeEmpty DEF InStep
  <2>4. PICK b \in Buffer : b = Filled
    BY <2>1, FilledIsCounted
  <2>5. PICK z \in Buffer : /\ done' = Append(done, z) /\ z.data = b.data /\ z.run = b.run
                            /\ z.error = (b.error \/ (~Compressed /\ b.used # FrameSize))
    <3>1. HandOver(b) /\ queue # <<>>
      BY <1>7, <2>1, <2>4, FilledIsCounted DEF FrameEnded
    <3> QED BY <1>1, <3>1, HandOverIs
  <2>6. ASSUME ~z.error PROVE HoldsWhole(z)
    <3>1. ~Filled.error /\ (Compressed \/ b.used = FrameSize)
      BY <2>4, <2>5, <2>6
    <3>2. ~Overflows
      BY <2>1, <3>1, FilledIsPart
    <3>3. pkt.eof /\ Filled.data # {}
      BY <2>1, <3>2, FilledIsCounted DEF Ends, EofFound
    <3>4. PICK p, k : /\ Part(Filled, pkt.frame, p, k)
                      /\ pkt.pos = k \/ (k = FrameSize /\ pkt.pos = FrameSize + 1)
      BY <2>1, <3>1, <3>3, FilledIsPart
    <3>5. PICK f : f = pkt.frame
      OBVIOUS
    <3>6. Part(b, f, p, k)
      BY <2>4, <3>4, <3>5
    <3>7. k = FrameSize
      <4>1. pkt.pos = LastPos
        BY <1>1, <3>3 DEF Base, PktInv
      <4>2. FrameSize \in Nat \ {0} /\ LastPos \in Nat /\ FrameSize <= LastPos /\ k \in Nat /\ k <= FrameSize
        BY <1>1, <3>6, SetupIs DEF Part
      <4> QED BY <3>4, <4>1, <4>2
    <3>8. HoldsWhole(b)
      BY <1>1, <3>1, <3>6, <3>7, PartIsWhole
    <3> QED BY <2>5, <3>8 DEF HoldsWhole, Frames
  <2>7. DoneWhole'
    BY <1>1, <2>5, <2>6, DoneWholeAppend DEF IsWhole, WholeInv
  <2> QED BY <1>3, <2>3, <2>7 DEF WholeInv
<1> QED BY <1>4, <1>6, <1>7 DEF Consume

LEMMA SetupIsChosenOnce ==
  ASSUME [Next]_vars
  PROVE  setup' = setup
BY DEF Next, vars, Bus, Decode, Arrive, PacketLost, PacketInvalid, NextUrb, QueueBuffer, FidToggled,
       ImageStarted, NoBuffer, OutOfSync, PayloadCopied, FrameEnded, SuspendResume, StopStart, StartTransfer

\* The first buffer is the same, or there is none but a fresh one.
LEMMA WholeKept ==
  ASSUME Base, WholeInv, Stays, UNCHANGED <<setup, last_fid, run, done>>, Marked',
         \/ HeadKept /\ buf' = buf
         \/ HeadFresh
  PROVE  WholeInv'
<1>1. DoneWhole'
  BY DoneWholeKept DEF WholeInv
<1>2. (HeadFresh /\ queue' # <<>>) => (buf'.data = {} /\ buf'.state = "QUEUED")
  BY DEF HeadFresh, Fresh
<1>3. HeadWhole'
  <2>1. CASE HeadKept
    BY <2>1, HeadWholeKept DEF WholeInv
  <2>2. CASE HeadFresh
    BY <1>2, <2>2, HeadWholeEmpty
  <2> QED BY <2>1, <2>2
<1>4. InStep'
  <2>1. FromFirst' = FromFirst
    BY SetupStays DEF FromFirst
  <2>2. FromFirst => (CurPos' # 1 => last_fid' = CurFid')
    BY DEF WholeInv, InStep, Stays
  <2>3. FromFirst => ((queue' # <<>> /\ buf'.state = "ACTIVE") => buf'.data # {})
    BY <1>2 DEF WholeInv, InStep, HeadKept
  <2> QED BY <2>1, <2>2, <2>3 DEF InStep
<1> QED BY <1>1, <1>3, <1>4 DEF WholeInv

LEMMA WholeStep ==
  ASSUME EndsShow, "invalid" \notin setup.faults, Base, WholeInv, [Next]_vars
  PROVE  WholeInv'
<1>0. setup \in Setups /\ setup' = setup /\ FromFirst' = FromFirst
  BY SetupIsChosenOnce, SetupStays DEF Base, Typed, FromFirst
<1>1. CASE Arrive
  <2>1. Stays /\ UNCHANGED <<queue, last_fid, run, done>> /\ Marked'
    BY <1>1, ArriveStep, MarkedArrives
  <2>2. buf' = buf /\ (HeadKept \/ HeadFresh)
    BY <2>1 DEF buf, HeadKept, HeadFresh
  <2> QED BY <1>0, <2>1, <2>2, WholeKept
<1>2. CASE PacketLost
  <2>1. ~Decoding' /\ UNCHANGED <<done, run>> /\ "lost" \in setup.faults /\ (HeadKept \/ queue' = <<>>)
    BY <1>2, LostStep
  <2>2. ~FromFirst
    BY <2>1 DEF FromFirst
  <2>3. HeadWhole'
    BY <1>2, LossIsMarked, HeadWholeEmpty
  <2>4. DoneWhole'
    BY <1>0, <2>1, DoneWholeKept DEF WholeInv
  <2> QED BY <1>0, <2>1, <2>2, <2>3, <2>4 DEF WholeInv, InStep, Marked
<1>3. CASE PacketInvalid
  BY <1>3, LostStep
<1>4. CASE NextUrb \/ QueueBuffer
  <2>1. /\ Stays /\ UNCHANGED <<last_fid, run, done, pkt, fid>>
        /\ HeadKept \/ HeadFresh
    BY <1>4, QueueStep DEF NextUrb, QueueBuffer, device
  <2>2. buf' = buf \/ HeadFresh
    <3>1. CASE queue = <<>>
      BY <2>1, <3>1 DEF HeadKept
    <3>2. CASE queue # <<>>
      <4>1. queue \in Seq(Buffer) /\ Fresh \in Buffer /\ 1 \in 1 .. Len(queue)
        BY <1>0, <3>2, HeadIs, FreshIs DEF Base, Typed
      <4>2. Append(queue, Fresh)[1] = queue[1]
        BY <4>1, AppendProperties
      <4> QED BY <1>4, <4>2 DEF NextUrb, QueueBuffer, buf
    <3> QED BY <3>1, <3>2
  <2>3. Marked'
    <3>1. Decoding' = Decoding /\ LastPos' = LastPos /\ NoFid' = NoFid
      BY <1>0, <2>1, SetupStays DEF Decoding, NoPacket
    <3> QED BY <1>0, <2>1, <3>1 DEF WholeInv, Marked
  <2> QED BY <1>0, <2>1, <2>2, <2>3, WholeKept
<1>5. CASE SuspendResume \/ StopStart
  <2>1. /\ ~Decoding' /\ done' = done /\ run' = run + 1 /\ CurPos' = 1
        /\ HeadKept \/ HeadFresh
    BY <1>5, StartStep
  <2>2. CASE HeadFresh
    <3>1. queue' # <<>> => buf'.data = {} /\ buf'.state = "QUEUED"
      BY <2>2 DEF HeadFresh, Fresh
    <3>2. HeadWhole' /\ InStep'
      BY <2>1, <3>1, HeadWholeEmpty DEF InStep
    <3> QED BY <1>0, <2>1, <3>2, DoneWholeKept DEF WholeInv, Marked
  <2>3. CASE ~HeadFresh
    <3>1. HeadKept
      BY <2>1, <2>3
    <3>2. HeadWhole'
      BY <1>0, <2>1, <3>1, HeadWholeKept DEF WholeInv
    <3>3. InStep'
      BY <1>0, <2>1, <3>1 DEF WholeInv, InStep, HeadKept
    <3> QED BY <1>0, <2>1, <3>2, <3>3, DoneWholeKept DEF WholeInv, Marked
  <2> QED BY <2>2, <2>3
<1>6. CASE FidToggled \/ ImageStarted
  <2>1. /\ Stays /\ HeadFresh /\ (FidToggled => last_fid' = last_fid)
        /\ (ImageStarted => CurPos = 1)
    <3>1. Stays /\ HeadFresh /\ (FidToggled => last_fid' = last_fid) /\ Decoding
      BY <1>6, EndedStep
    <3>2. ImageStarted => CurPos = 1
      BY <3>1 DEF ImageStarted, StartOfImage, CurPos
    <3> QED BY <3>1, <3>2
  <2>2. DoneWhole'
    BY <1>6, EndedIsWhole
  <2>3. queue' # <<>> => buf'.data = {} /\ buf'.state = "QUEUED"
    BY <2>1 DEF HeadFresh, Fresh
  <2>4. InStep'
    BY <1>0, <1>6, <2>1, <2>3 DEF WholeInv, InStep, Stays
  <2>5. Marked'
    <3>1. UNCHANGED <<pkt, fid>>
      BY <1>6 DEF FidToggled, ImageStarted, device
    <3>2. Decoding' = Decoding /\ LastPos' = LastPos /\ NoFid' = NoFid
      BY <1>0, <3>1, SetupStays DEF Decoding, NoPacket
    <3> QED BY <1>0, <3>1, <3>2 DEF WholeInv, Marked
  <2> QED BY <2>2, <2>3, <2>4, <2>5, HeadWholeEmpty DEF WholeInv
<1>7. CASE Consume
  BY <1>7, WholeConsume
<1>8. CASE UNCHANGED vars
  <2>1. UNCHANGED <<setup, frame, pos, fid, pkt, queue, blind, last_fid, sequence, done, run, faults>>
    BY <1>8 DEF vars, device
  <2>2. Stays /\ Decoding' = Decoding /\ LastPos' = LastPos /\ NoFid' = NoFid
    BY <2>1, SetupStays DEF Stays, CurFrame, CurPos, CurFid, Decoding, NoPacket
  <2>3. Marked'
    BY <2>1, <2>2 DEF WholeInv, Marked
  <2>4. buf' = buf /\ (HeadKept \/ HeadFresh)
    BY <2>1 DEF buf, HeadKept, HeadFresh
  <2> QED BY <2>1, <2>2, <2>3, <2>4, WholeKept
<1> QED BY <1>1, <1>2, <1>3, <1>4, <1>5, <1>6, <1>7, <1>8 DEF Next, Bus, Decode, Consume

\* Where the ends of frames show and nothing vanishes unreported, a frame that is
\* handed over without an error is one frame of the device without a hole: all of it
\* in an uncompressed format, and in a compressed one all but what was lost before its
\* first payload or cut off by a suspend (uvc_video_decode_isoc, _start and _end).
THEOREM WithoutErrorIsWhole == EndsShow /\ Spec => []ErrorFreeIsWhole
<1> SUFFICES ASSUME EndsShow PROVE Spec => []ErrorFreeIsWhole
  OBVIOUS
<1> DEFINE Inv == Base /\ DataInv /\ ("invalid" \notin setup.faults => WholeInv)
<1>1. Init => Inv
  BY BaseInit, DataInit, WholeInit
<1>2. Inv /\ [Next]_vars => Inv'
  <2> SUFFICES ASSUME Inv, [Next]_vars PROVE Inv'
    OBVIOUS
  <2>1. Base' /\ DataInv' /\ setup' = setup
    BY DataStep, SetupIsChosenOnce
  <2> QED BY <2>1, WholeStep
<1>3. Inv => ErrorFreeIsWhole
  BY DEF WholeInv, DoneWhole, IsWhole, HoldsWhole, ErrorFreeIsWhole
<1> HIDE DEF Inv
<1> QED BY <1>1, <1>2, <1>3, PTL DEF Spec

=============================================================================
