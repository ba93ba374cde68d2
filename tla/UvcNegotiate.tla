----------------------------- MODULE UvcNegotiate -----------------------------
(***************************************************************************)
(* How the UVC driver and a device agree on a format, a frame size and a   *)
(* bandwidth (uvc_video.c: uvc_video_init, uvc_probe_video,                *)
(* uvc_commit_video, uvc_get_video_ctrl and uvc_fixup_video_ctrl), and     *)
(* what the start of a transfer makes of it: the alternate setting of the  *)
(* interface and the size of the transfer buffers.                         *)
(*                                                                         *)
(* A control request and its answer are one step.  Control paths run one   *)
(* at a time (stream->mutex, the queue's mutex and the PM core).           *)
(***************************************************************************)
EXTENDS Integers, Sequences, FiniteSets, FiniteSetsExt

CONSTANTS
  Setups,          \* devices and their interfaces, see SetupsAssumption
  Half,            \* 2^16; sizes of payloads are below Half * Half
  LowestEstimate,  \* the smallest bandwidth that is estimated: 1024
  MaxPackets,      \* UVC_MAX_PACKETS
  MaxFaults        \* bound on the requests and allocations that fail

\* UVC_QUIRK_PROBE_MINMAX, _PROBE_DEF and _FIX_BANDWIDTH, and the identifier of
\* the Elgato Cam Link 4K.
Quirks == {"minmax", "probeDef", "fixBandwidth", "elgato"}

\* What a device asks for: the bandwidth it needs, the same computed on 16 bits
\* and sign-extended, or too much.
Askings == {"need", "extended", "huge"}

\* A frame needs the bandwidth needs[1] with the least and needs[2] with the
\* device's own compression parameters, and the driver estimates estimate.
FrameType == [index : Nat, size : Nat \ {0}, needs : [1 .. 2 -> 1 .. Half - 1], estimate : Nat]
FormatType == [index : Nat, compressed : BOOLEAN, frames : Seq(FrameType)]

\* old: uvc_version < 0x0110.  alts: the payload sizes of the alternate settings
\* 1, 2, ... of an isochronous endpoint, empty for a bulk endpoint of packets of
\* size packet.
SetupType ==
  [formats : Seq(FormatType) \ {<<>>}, alts : Seq(1 .. Half * Half - 1), packet : Nat \ {0},
   quirks : SUBSET Quirks, asks : Askings, minmax : {"full", "quality", "stall"},
   sizes : {"right", "null", "short"}, old : BOOLEAN, def : BOOLEAN, zeroIndex : BOOLEAN]

ASSUME SetupsAssumption == Setups \subseteq SetupType
ASSUME BoundsAssumption ==
  /\ {Half, LowestEstimate, MaxPackets} \subseteq Nat \ {0} /\ MaxFaults \in Nat

VARIABLES
  setup,      \* the device at hand
  pc,         \* where the control path is; "idle" when none runs
  aim,        \* what uvc_probe_video runs for, VIDIOC_TRY_FMT or VIDIOC_S_FMT
  wanted,     \* the format and frame the application asked it for
  probe,      \* its argument probe
  probe_min,  \* its local variables
  probe_max,
  round,      \* i + 1
  ctrl,       \* stream->ctrl
  cur,        \* stream->cur_format and stream->cur_frame, by their indexes
  streaming,  \* vb2_is_streaming(&queue->queue)
  suspended,
  alt,        \* the alternate setting of the interface
  urb_size,   \* stream->urb_size
  npackets,   \* urb->number_of_packets of the running transfer
  chosen,     \* the device's current settings of the probe control
  committed,  \* the settings the device has committed to
  answered,   \* the settings the device had chosen at each successful GET_CUR
  faults

local == <<aim, wanted, probe, probe_min, probe_max, round>>
stream == <<ctrl, cur, streaming, suspended>>
transfer == <<alt, urb_size, npackets>>
device == <<chosen, committed, answered>>
vars == <<setup, pc, local, stream, transfer, device, faults>>

-----------------------------------------------------------------------------
(* The descriptors.                                                        *)

Formats == setup.formats
FrameAt(i, j) == Formats[i].frames[j]
\* The pairs of positions of formats and frames that c names.
Named(c) ==
  {p \in UNION {{i} \X DOMAIN Formats[i].frames : i \in DOMAIN Formats} :
     /\ Formats[p[1]].index = c.format
     /\ FrameAt(p[1], p[2]).index = c.frame}
Described(c) == Named(c) # {}
FrameOf(c) == LET p == CHOOSE p \in Named(c) : TRUE IN FrameAt(p[1], p[2])
CompressedOf(c) == Formats[(CHOOSE p \in Named(c) : TRUE)[1]].compressed

Isochronous == setup.alts # <<>>
Psizes == {setup.alts[i] : i \in DOMAIN setup.alts}
maxpsize == Max(Psizes \cup {0})

-----------------------------------------------------------------------------
(* uvc_fixup_video_ctrl: what the driver makes of an answer.               *)

CorrectedHint(c) ==
  IF "elgato" \in setup.quirks /\ c.hint > 255
  THEN [c EXCEPT !.hint = 1, !.format = c.hint \div 256]
  ELSE c

\* Mutant: the size of an answer is believed.
FrameSizeAnswered(c) == c.size

FrameSize(c) ==
  IF ~CompressedOf(c) \/ (c.size = 0 /\ setup.old) THEN FrameOf(c).size ELSE c.size

\* Mutant: the sign extension is not noticed.
SignKept(n) == n

SignDropped(n) == IF n \div Half = Half - 1 THEN n % Half ELSE n

Bandwidth(c) ==
  IF ~CompressedOf(c) /\ "fixBandwidth" \in setup.quirks /\ Isochronous
  THEN Max({FrameOf(c).estimate, LowestEstimate})
  ELSE SignDropped(c.payload)

\* Mutant: the bandwidth is not capped by that of the interface.
CappedNever(n) == n

Capped(n) == IF Isochronous /\ n > maxpsize THEN maxpsize ELSE n

FixedUp(answer) ==
  LET c == CorrectedHint(answer) IN
  IF ~Described(c) THEN c
  ELSE [c EXCEPT !.size = FrameSize(c), !.payload = Capped(Bandwidth(c))]

-----------------------------------------------------------------------------
(* The device (external).  It takes the settings of a SET_CUR that it      *)
(* describes, completes those it is not given, and answers what it needs.  *)

MaxQuality == 2
Zero == [hint |-> 0, format |-> 0, frame |-> 0, quality |-> 0, tuning |-> 0,
         size |-> 0, payload |-> 0]

Setting(c) == [format |-> c.format, frame |-> c.frame, quality |-> c.quality, tuning |-> c.tuning]
Nothing == Setting(Zero)

Default ==
  LET i == Len(Formats)
      j == Len(Formats[i].frames)
  IN [format |-> Formats[i].index,
      frame |-> IF j = 0 THEN 0 ELSE FrameAt(i, j).index,
      quality |-> 1, tuning |-> 2]

\* What the device takes from a SET_CUR of c.
Adopted(c) ==
  [IF Described(c) THEN Setting(c) ELSE chosen
     EXCEPT !.quality = c.quality, !.tuning = IF c.tuning = 0 THEN 2 ELSE c.tuning]

Needed(s) == FrameOf(s).needs[s.tuning]
Asked(s) ==
  IF ~Described(s) THEN 0
  ELSE CASE setup.asks = "huge" -> Half * Half - Half - 1
         [] setup.asks = "extended" /\ 2 * Needed(s) >= Half -> Half * (Half - 1) + Needed(s)
         [] OTHER -> Needed(s)

\* The bytes of the answer for the settings s.
Answer(s) ==
  [hint |-> IF "elgato" \in setup.quirks THEN 256 * s.format ELSE 1,
   format |-> IF setup.zeroIndex THEN 0 ELSE IF "elgato" \in setup.quirks THEN 1 ELSE s.format,
   frame |-> IF setup.zeroIndex THEN 0 ELSE s.frame,
   quality |-> s.quality, tuning |-> s.tuning,
   size |-> IF ~Described(s) THEN 0
            ELSE CASE setup.sizes = "null" -> 0
                   [] setup.sizes = "short" -> FrameOf(s).size \div 2
                   [] setup.sizes = "right" -> FrameOf(s).size,
   payload |-> Asked(s)]

\* A request fails: the device stalls it, or its end does not come in time.
Fault == faults < MaxFaults /\ faults' = faults + 1
NoFault == UNCHANGED faults

-----------------------------------------------------------------------------
(* uvc_video_init, for a stream with at least one format.                  *)

Init ==
  /\ setup \in Setups
  /\ pc = "new" /\ aim = "try" /\ wanted = [format |-> 0, frame |-> 0] /\ round = 1
  /\ probe = Zero /\ probe_min = Zero /\ probe_max = Zero
  /\ ctrl = Zero /\ cur = [format |-> 0, frame |-> 0]
  /\ streaming = FALSE /\ suspended = FALSE
  /\ alt = 0 /\ urb_size = 0 /\ npackets = 0
  /\ chosen = Default /\ committed = Nothing /\ answered = {}
  /\ faults = 0

\* GET_DEF, which many devices do not support.
InitGetDef ==
  /\ pc = "new"
  /\ \/ /\ setup.def /\ "probeDef" \notin setup.quirks
        /\ ctrl' = FixedUp(Answer(Default)) /\ pc' = "initSet" /\ NoFault
     \/ /\ ~setup.def \/ "probeDef" \in setup.quirks
        /\ pc' = "initCur" /\ UNCHANGED ctrl /\ NoFault
     \/ pc' = "initCur" /\ UNCHANGED ctrl /\ Fault
  /\ UNCHANGED <<setup, local, cur, streaming, suspended, transfer, device>>

\* SET_CUR of the defaults; whether it succeeds does not matter.
InitSet ==
  /\ pc = "initSet" /\ pc' = "initCur"
  /\ \/ chosen' = Adopted(ctrl) /\ NoFault
     \/ chosen' \in {chosen, Adopted(ctrl)} /\ Fault
  /\ UNCHANGED <<setup, local, stream, transfer, committed, answered>>

\* The position of an index in a sequence of descriptors, the first when there
\* is none.
PositionOr1(index, descriptors) ==
  IF \E i \in DOMAIN descriptors : descriptors[i].index = index
  THEN Max({i \in DOMAIN descriptors : descriptors[i].index = index})
  ELSE 1

\* GET_CUR, and the correction of its indexes.
InitGetCur ==
  /\ pc = "initCur"
  /\ \/ LET c == FixedUp(Answer(chosen))
            format == Formats[PositionOr1(c.format, Formats)]
            frame == format.frames[PositionOr1(c.frame, format.frames)]
        IN /\ NoFault
           /\ answered' = answered \cup {chosen}
           /\ IF format.frames = <<>>
              THEN pc' = "failed" /\ ctrl' = c /\ UNCHANGED cur
              ELSE /\ pc' = "idle"
                   /\ ctrl' = [c EXCEPT !.format = format.index, !.frame = frame.index]
                   /\ cur' = [format |-> format.index, frame |-> frame.index]
     \/ pc' = "failed" /\ Fault /\ UNCHANGED <<ctrl, cur, answered>>
  /\ UNCHANGED <<setup, local, streaming, suspended, transfer, chosen, committed>>

-----------------------------------------------------------------------------
(* uvc_probe_video, for an application that tries or sets a format         *)
(* (uvc_v4l2.c, which is not part of the repository).                      *)

AskFormat ==
  /\ pc = "idle" /\ ~suspended
  /\ aim' \in IF streaming THEN {"try"} ELSE {"try", "set"}
  /\ \E i \in DOMAIN Formats : \E j \in DOMAIN Formats[i].frames :
       LET w == [format |-> Formats[i].index, frame |-> FrameAt(i, j).index] IN
       /\ wanted' = w
       /\ probe' = [Zero EXCEPT !.hint = 1, !.format = w.format, !.frame = w.frame]
  /\ pc' = "setAsked" /\ round' = 1
  /\ probe_min' = Zero /\ probe_max' = Zero
  /\ UNCHANGED <<setup, stream, transfer, device, faults>>

\* Mutant: uvc_probe_video is run on stream->ctrl in place of a copy.
RefusedInPlace == pc' = "idle" /\ ctrl' = probe /\ UNCHANGED cur

\* A failed probe changes nothing of the stream.
Refused == pc' = "idle" /\ UNCHANGED <<ctrl, cur>>
\* A successful one becomes the stream's, when the application sets the format.
Accepted(c) ==
  /\ pc' = "idle"
  /\ IF aim = "set"
     THEN /\ ctrl' = c
          /\ cur' = IF Described(c) THEN [format |-> c.format, frame |-> c.frame] ELSE wanted
     ELSE UNCHANGED <<ctrl, cur>>

\* The SET_CUR before the limits are read, and the one of a round.
SetProbe ==
  /\ \/ /\ pc = "setAsked"
        /\ pc' = IF "minmax" \in setup.quirks THEN "set" ELSE "getMin"
     \/ pc = "set" /\ pc' = "getCur"
  /\ chosen' = Adopted(probe)
  /\ UNCHANGED <<setup, local, stream, transfer, committed, answered, faults>>

SetProbeFails ==
  /\ pc \in {"setAsked", "set"}
  /\ Fault /\ Refused
  /\ chosen' \in {chosen, Adopted(probe)}
  /\ UNCHANGED <<setup, local, streaming, suspended, transfer, committed, answered>>

\* An answer to GET_MIN or GET_MAX of two bytes carries the quality only.
Limit(s) ==
  IF setup.minmax = "quality" THEN [Zero EXCEPT !.quality = s.quality] ELSE FixedUp(Answer(s))

GetLimits ==
  /\ setup.minmax # "stall"
  /\ \/ /\ pc = "getMin" /\ pc' = "getMax"
        /\ probe_min' = Limit([chosen EXCEPT !.quality = 1, !.tuning = 1])
        /\ UNCHANGED <<probe, probe_max>>
     \/ /\ pc = "getMax" /\ pc' = "set"
        /\ probe_max' = Limit([chosen EXCEPT !.quality = MaxQuality])
        /\ probe' = [probe EXCEPT !.quality = probe_max'.quality]
        /\ UNCHANGED probe_min
  /\ UNCHANGED <<setup, aim, wanted, round, stream, transfer, device, faults>>

GetFails ==
  /\ pc \in {"getMin", "getMax", "getCur"}
  /\ \/ pc # "getCur" /\ setup.minmax = "stall" /\ NoFault
     \/ Fault
  /\ Refused
  /\ UNCHANGED <<setup, local, streaming, suspended, transfer, device>>

Lowered(c) == [c EXCEPT !.tuning = probe_min.tuning, !.quality = probe_max.quality]

GetCur ==
  /\ pc = "getCur"
  /\ answered' = answered \cup {chosen}
  /\ LET c == FixedUp(Answer(chosen)) IN
     \/ /\ ~Isochronous \/ c.payload <= maxpsize
        /\ probe' = c /\ Accepted(c) /\ UNCHANGED round
     \/ /\ Isochronous /\ c.payload > maxpsize /\ "minmax" \in setup.quirks
        /\ probe' = c /\ Refused /\ UNCHANGED round
     \/ /\ Isochronous /\ c.payload > maxpsize /\ "minmax" \notin setup.quirks
        /\ probe' = Lowered(c)
        /\ IF round = 1
           THEN pc' = "set" /\ round' = 2 /\ UNCHANGED <<ctrl, cur>>
           ELSE Accepted(Lowered(c)) /\ UNCHANGED round
  /\ UNCHANGED <<setup, aim, wanted, probe_min, probe_max, streaming, suspended,
                 transfer, chosen, committed, faults>>

-----------------------------------------------------------------------------
(* Starting, stopping, suspending and resuming.                            *)

StartStreaming ==
  /\ pc = "idle" /\ ~suspended /\ ~streaming
  /\ pc' = "commit"
  /\ UNCHANGED <<setup, local, stream, transfer, device, faults>>

\* Mutant: a stop keeps the transfer buffers, as a suspend does.
TransferStoppedKeeping == alt' = 0 /\ npackets' = 0 /\ UNCHANGED urb_size

\* uvc_video_stop_transfer(stream, 1), after which the interface goes back to
\* its alternate setting 0.
TransferStopped == alt' = 0 /\ urb_size' = 0 /\ npackets' = 0

\* A start that fails, and a resume that does: the resume's caller turns the
\* stream off.
StartFails == pc' = "idle" /\ streaming' = FALSE /\ TransferStopped

Commit ==
  /\ pc = "commit" /\ pc' = "select"
  /\ committed' = Adopted(ctrl)
  /\ UNCHANGED <<setup, local, stream, transfer, chosen, answered, faults>>

CommitFails ==
  /\ pc = "commit" /\ Fault /\ StartFails
  /\ committed' \in {committed, Adopted(ctrl)}
  /\ UNCHANGED <<setup, local, ctrl, cur, suspended, chosen, answered>>

\* The alternate settings that are wide enough for the committed bandwidth.
WideEnough ==
  LET bandwidth == IF ctrl.payload = 0 THEN 1 ELSE ctrl.payload IN
  {i \in DOMAIN setup.alts : setup.alts[i] >= bandwidth}
Narrowest(indexes) ==
  CHOOSE i \in indexes : \A k \in indexes : setup.alts[i] <= setup.alts[k]

SelectAlt ==
  /\ pc = "select" /\ Isochronous
  /\ IF WideEnough = {} THEN StartFails
     ELSE /\ alt' = Narrowest(WideEnough) /\ pc' = "allocate"
          /\ UNCHANGED <<streaming, urb_size, npackets>>
  /\ UNCHANGED <<setup, local, ctrl, cur, suspended, device, faults>>

SelectBulk ==
  /\ pc = "select" /\ ~Isochronous /\ pc' = "allocate"
  /\ UNCHANGED <<setup, local, stream, transfer, device, faults>>

\* usb_set_interface fails, or a submission after everything was set up.
SetupFails ==
  /\ pc = "select" /\ Fault /\ StartFails
  /\ UNCHANGED <<setup, local, ctrl, cur, suspended, device>>

Psize == IF Isochronous THEN setup.alts[alt] ELSE setup.packet
\* The bytes that the packets of one URB are to hold.
TransferSize == IF Isochronous THEN ctrl.size ELSE ctrl.payload
\* Mutant: the number of packets is not limited.
PacketsUnlimited == (TransferSize + Psize - 1) \div Psize
Packets == Min({(TransferSize + Psize - 1) \div Psize, MaxPackets})

\* uvc_alloc_urb_buffers and the start of the transfer: n packets per URB.
StartWith(n) ==
  /\ pc' = "idle" /\ streaming' = TRUE
  /\ npackets' = n /\ urb_size' = IF urb_size = 0 THEN n * Psize ELSE urb_size
  /\ UNCHANGED alt

Allocate ==
  /\ pc = "allocate"
  /\ LET n == IF urb_size # 0 THEN urb_size \div Psize ELSE Packets IN
     IF n = 0 THEN StartFails ELSE StartWith(n)
  /\ UNCHANGED <<setup, local, ctrl, cur, suspended, device, faults>>

Halvings == {n \in 0 .. Packets : \E k \in 1 .. MaxPackets : n = Packets \div 2 ^ k}

\* Memory is short: the number of packets is halved until the allocation
\* succeeds or nothing is left.
AllocateFewer ==
  /\ pc = "allocate" /\ urb_size = 0 /\ Fault
  /\ \E n \in Halvings : IF n = 0 THEN StartFails ELSE StartWith(n)
  /\ UNCHANGED <<setup, local, ctrl, cur, suspended, device>>

StopStreaming ==
  /\ pc = "idle" /\ ~suspended /\ streaming
  /\ streaming' = FALSE /\ TransferStopped
  /\ UNCHANGED <<setup, pc, local, ctrl, cur, suspended, device, faults>>

\* uvc_video_suspend: the transfer buffers are kept.
Suspend ==
  /\ pc = "idle" /\ ~suspended /\ suspended' = TRUE
  /\ alt' = 0 /\ npackets' = 0
  /\ UNCHANGED <<setup, pc, local, ctrl, cur, streaming, urb_size, device, faults>>

\* Mutant: a resume starts the transfer without a commit.
ResumeUncommitted ==
  /\ pc = "idle" /\ suspended /\ suspended' = FALSE
  /\ \/ chosen' = Default /\ committed' = Nothing
     \/ UNCHANGED <<chosen, committed>>
  /\ pc' = IF streaming THEN "select" ELSE "idle"
  /\ UNCHANGED <<setup, local, ctrl, cur, streaming, transfer, answered, faults>>

\* uvc_video_resume.  A device that was reset has forgotten what was agreed.
Resume ==
  /\ pc = "idle" /\ suspended /\ suspended' = FALSE
  /\ \/ chosen' = Default /\ committed' = Nothing
     \/ UNCHANGED <<chosen, committed>>
  /\ pc' = IF streaming THEN "commit" ELSE "idle"
  /\ UNCHANGED <<setup, local, ctrl, cur, streaming, transfer, answered, faults>>

Next ==
  \/ InitGetDef \/ InitSet \/ InitGetCur
  \/ AskFormat \/ SetProbe \/ SetProbeFails \/ GetLimits \/ GetFails \/ GetCur
  \/ StartStreaming \/ Commit \/ CommitFails
  \/ SelectAlt \/ SelectBulk \/ SetupFails \/ Allocate \/ AllocateFewer
  \/ StopStreaming \/ Suspend \/ Resume

Spec == Init /\ [][Next]_vars

-----------------------------------------------------------------------------
(* Properties.                                                             *)

Controls == [hint : Nat, format : Nat, frame : Nat, quality : 0 .. MaxQuality,
             tuning : 0 .. 2, size : Nat, payload : 0 .. Half * Half - 1]
Settings == [format : Nat, frame : Nat, quality : 0 .. MaxQuality, tuning : 0 .. 2]
Pairs == [format : Nat, frame : Nat]

\* Every variable has its type, and a payload fits in the 32 bits of its field
\* (struct uvc_streaming_control).
TypeOK ==
  /\ setup \in Setups
  /\ pc \in {"new", "initSet", "initCur", "failed", "idle", "setAsked", "getMin", "getMax",
             "set", "getCur", "commit", "select", "allocate"}
  /\ aim \in {"try", "set"} /\ wanted \in Pairs /\ round \in {1, 2}
  /\ {probe, probe_min, probe_max, ctrl} \subseteq Controls
  /\ cur \in Pairs /\ streaming \in BOOLEAN /\ suspended \in BOOLEAN
  /\ alt \in {0} \cup DOMAIN setup.alts /\ urb_size \in Nat /\ npackets \in 0 .. MaxPackets
  /\ {chosen, committed} \cup answered \subseteq Settings
  /\ faults \in 0 .. MaxFaults

\* What a device commits to is what it has answered to a GET_CUR on its probe
\* control: no requested, half negotiated or lowered setting is committed to
\* unanswered, whatever was tried, refused or lost before (the comment in
\* uvc_video_init, uvc_video.c:2248).
CommitsWhatWasAnswered == committed \in answered \cup {Nothing}

Running == streaming /\ ~suspended /\ pc = "idle"

\* A running stream delivers the format and frame the application was told,
\* also after other applications tried formats, after lost requests and after a
\* resume with a reset (uvc_video_resume commits anew).
StreamMatchesFormat ==
  Running => /\ committed.format = cur.format
             /\ committed.frame = cur.frame

\* When the transfer is started there is an alternate setting wide enough for
\* the bandwidth that was negotiated (the -EIO of uvc_video_start_transfer does
\* not happen), for every device that names its format.
BandwidthFound ==
  pc = "select" /\ Isochronous /\ ~setup.zeroIndex => WideEnough # {}

\* A running stream has the bandwidth the device needs or the widest there is,
\* although devices ask for sign-extended or senseless bandwidths
\* (uvc_fixup_video_ctrl); and unless what it asks for is senseless it has no
\* more of the bus than that.
BandwidthFits ==
  Running /\ Isochronous =>
    /\ \/ setup.alts[alt] >= Needed(committed)
       \/ setup.alts[alt] = maxpsize
    /\ setup.asks # "huge" =>
         \A p \in Psizes : p >= Needed(committed) => p >= setup.alts[alt]

\* The image size of a running stream is enough for the frames the device has
\* committed to, although devices return none or
\* a wrong one (uvc_fixup_video_ctrl).
BufferHoldsFrame ==
  Running /\ ~setup.zeroIndex => ctrl.size >= FrameOf(committed).size

\* The transfer buffers are those of the running stream's bandwidth: buffers
\* that were kept over a suspend fit the alternate setting selected after it,
\* and a stop left none for a stream with another one (uvc_alloc_urb_buffers).
UrbsMatchBandwidth ==
  Running => /\ npackets * Psize = urb_size
             /\ faults = 0 => npackets = Packets

\* A start finds an alternate setting, and what it sets up is of one piece: the
\* setting fits the bandwidth, the buffers the frames, the transfer buffers the
\* setting, and a payload's size its field.
TransferFits ==
  TypeOK /\ BandwidthFound /\ BandwidthFits /\ BufferHoldsFrame /\ UrbsMatchBandwidth

==============================================================================
