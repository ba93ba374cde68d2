------------------------------- MODULE UvcClock -------------------------------
(***************************************************************************)
(* The clock of the UVC driver (uvc_video.c: uvc_video_clock_decode,       *)
(* _add_sample, _reset and _update): samples of the device's and the       *)
(* host's counters in a ring, and the interpolation that turns the PTS of  *)
(* a buffer, in units of the device's clock, into host time.               *)
(*                                                                         *)
(* Time is counted in USB frames (1 ms), without the 16 decimal bits of    *)
(* the code; the counters keep their wrap-arounds.                         *)
(***************************************************************************)
EXTENDS Integers, Sequences, FiniteSets

CONSTANTS
  Size,        \* clock->size
  SofPeriod,   \* where the SOF counter of USB wraps around: 2048
  LowPeriod,   \* the range of the SOF bits every host has: 256
  StcPeriod,   \* where PTS and STC wrap around: 2^32
  MinDiff,     \* UVC_MIN_HW_TIMESTAMP_DIFF
  MinOffset,   \* smallest difference that is an offset and not a delay: 10
  Hosts,       \* where the host's frame number wraps around, for each host
  Offsets,     \* what the frame counters of the devices are ahead of the bus
  Delays,      \* from the packet to its handler, in this instance
  Gaps,        \* from one packet to the next, in this instance
  MaxAge,      \* the farthest PTS from the middle of the window that is converted
  Flaws,       \* what devices may do in this instance, a subset of AllFlaws
  MaxTime      \* bound on time

\* "hostSof": UVC_QUIRK_INVALID_DEVICE_SOF is set; "zeroScr": the device fills the
\* SCR of payloads without data with zeros; "noBuffer": the queue may be empty;
\* "reset": the stream may be suspended and resumed.
AllFlaws == {"hostSof", "zeroScr", "noBuffer", "reset"}

ASSUME PeriodsAssumption ==
  /\ {Size, SofPeriod, LowPeriod, StcPeriod, MinOffset} \subseteq Nat \ {0}
  /\ SofPeriod % LowPeriod = 0 /\ LowPeriod % 2 = 0 /\ StcPeriod % 2 = 0
  /\ \A h \in Hosts : h \in Nat \ {0} /\ h % LowPeriod = 0
ASSUME InstanceAssumption ==
  /\ Offsets \cup Delays \cup Gaps \subseteq Nat
  /\ {MinDiff, MaxAge, MaxTime} \subseteq Nat /\ Flaws \subseteq AllFlaws

VARIABLES
  now,                \* true time
  offset,             \* what the frame counter of this device is ahead
  host,               \* where the frame number of this host wraps around
  samples,            \* clock->samples
  head,               \* clock->head
  count,              \* clock->count
  last_sof,           \* clock->last_sof
  last_sof_overflow,  \* clock->last_sof_overflow
  sof_offset          \* clock->sof_offset

world == <<offset, host>>
clockVars == <<now, world, samples, head, count, last_sof, last_sof_overflow, sof_offset>>

\* (u16) -1 and (unsigned int) -1.
None == -1

NoSample == [dev_stc |-> 0, dev_sof |-> 0, host_sof |-> 0, host_time |-> 0, zero |-> FALSE]

\* uvc_video_clock_reset
ResetClock ==
  /\ head' = 0 /\ count' = 0
  /\ last_sof' = None /\ last_sof_overflow' = None /\ sof_offset' = None

ClockInit ==
  /\ now \in 0 .. SofPeriod - 1 /\ offset \in Offsets /\ host \in Hosts
  /\ samples = [i \in 0 .. Size - 1 |-> NoSample]
  /\ head = 0 /\ count = 0
  /\ last_sof = None /\ last_sof_overflow = None /\ sof_offset = None

-----------------------------------------------------------------------------
(* uvc_video_clock_decode and uvc_video_clock_add_sample.                  *)

sof_diff(a, b) == (a - b) % SofPeriod

\* Mutant: a second overflow drops nothing.
CountLeftAll(sof, overflow) == count

\* How many samples are left when a new one with this SOF is about to be added.
\* There is one SOF overflow per buffer: what is older than the last is dropped.
CountLeft(sof, overflow) ==
  IF count > 0 /\ last_sof > sof /\ overflow # None
  THEN (head - overflow) % Size
  ELSE count

\* Mutant: count is not bounded by the size.
SmallerNot(a, b) == a

Smaller(a, b) == IF a < b THEN a ELSE b

AddSample(sample) ==
  LET overflow == IF head = last_sof_overflow THEN None ELSE last_sof_overflow
  IN /\ last_sof_overflow' = IF count > 0 /\ last_sof > sample.dev_sof
                             THEN head ELSE overflow
     /\ samples' = [samples EXCEPT ![head] = sample]
     /\ head' = (head + 1) % Size
     /\ count' = Smaller(CountLeft(sample.dev_sof, overflow) + 1, Size)
     /\ last_sof' = sample.dev_sof

\* The offset is estimated with the first sample.
Offset(sample) ==
  LET delta == (sample.host_sof - sample.dev_sof) % LowPeriod
  IN IF sof_offset # None THEN sof_offset ELSE IF delta >= MinOffset THEN delta ELSE 0

\* A sample is added unless it is close to the previous one.
TakeSample(raw) ==
  LET sample == [raw EXCEPT !.dev_sof = (@ + Offset(raw)) % SofPeriod]
  IN /\ sof_offset' = Offset(raw)
     /\ IF sof_diff(sample.dev_sof, last_sof) <= MinDiff \div Size
        THEN UNCHANGED <<samples, head, count, last_sof, last_sof_overflow>>
        ELSE AddSample(sample)

\* The handler reads the host's counter and time d after the packet was sent.
Sample(t, d, stc, sof, zero) ==
  LET host_sof == (t + d) % host
  IN [dev_stc |-> stc, dev_sof |-> IF "hostSof" \in Flaws THEN host_sof ELSE sof,
      host_sof |-> host_sof, host_time |-> t + d, zero |-> zero]

\* A packet with SCR.
Decode ==
  /\ \E g \in Gaps, d \in Delays :
       /\ now + g <= MaxTime /\ now' = now + g
       /\ TakeSample(Sample(now', d, now' % StcPeriod, (now' + offset) % SofPeriod, FALSE))
  /\ UNCHANGED world

\* Mutant: it is taken.
ZeroTaken(blind) == FALSE

\* A packet without data for a buffer without data whose SCR is zero is ignored.
ZeroIgnored(blind) == ~blind

\* A packet without data whose SCR is zero; blind: is buf NULL?
DecodeZero ==
  /\ "zeroScr" \in Flaws
  /\ \E blind \in IF "noBuffer" \in Flaws THEN BOOLEAN ELSE {FALSE}, d \in Delays :
       IF ZeroIgnored(blind)
       THEN UNCHANGED <<samples, head, count, last_sof, last_sof_overflow, sof_offset>>
       ELSE TakeSample(Sample(now, d, 0, 0, TRUE))
  /\ UNCHANGED <<now, world>>

\* uvc_video_resume
Reset ==
  /\ "reset" \in Flaws
  /\ ResetClock
  /\ UNCHANGED <<now, world, samples>>

ClockNext == Decode \/ DecodeZero \/ Reset

ClockSpec == ClockInit /\ [][ClockNext]_clockVars

-----------------------------------------------------------------------------
(* uvc_video_clock_update.                                                 *)

\* uvc_video_clock_host_sof: the SOF of the host with all its bits, from its low
\* bits and the SOF of the device; the difference of the low bits is signed.
HostSof(s) ==
  LET low == (s.host_sof - s.dev_sof) % LowPeriod
      delta == IF low >= LowPeriod \div 2 THEN low - LowPeriod ELSE low
  IN (s.dev_sof + delta) % SofPeriod

\* Mutant: the window is one slot off.
SlotNext(i) == (head - count + i) % Size

\* The samples of the window, from the oldest.
Slot(i) == (head - count + i - 1) % Size
Window == [i \in 1 .. count |-> samples[Slot(i)]]
first == Window[1]
last == Window[count]

\* STC relative to a PTS that is brought to the middle of its range.
Centered(stc, pts) == (stc - (pts - StcPeriod \div 2)) % StcPeriod

\* Mutant: the SOF of the last sample is taken as it is.
UnwrappedNever(sof1, sof2) == sof2

\* A SOF that comes after sof1, which is the earlier one.
Unwrapped(sof1, sof2) == IF sof2 < sof1 THEN sof2 + SofPeriod ELSE sof2

\* SOFs are moved up by a period so that none is negative.
DevSof1 == first.dev_sof + SofPeriod
DevSof2 == Unwrapped(DevSof1, last.dev_sof + SofPeriod)
HostSof1 == HostSof(first) + SofPeriod
HostSof2 == Unwrapped(HostSof1, HostSof(last) + SofPeriod)

\* Are the samples enough for a timestamp?
Enough(pts) ==
  /\ count >= 2
  /\ Centered(first.dev_stc, pts) # Centered(last.dev_stc, pts)
  /\ count = Size \/ DevSof2 - DevSof1 >= MinDiff
  /\ HostSof1 # HostSof2

\* First step, PTS to SOF.
SofOf(pts) ==
  LET x1 == Centered(first.dev_stc, pts)
      x2 == Centered(last.dev_stc, pts)
  IN ((DevSof2 - DevSof1) * (StcPeriod \div 2) + DevSof1 * x2 - DevSof2 * x1) \div ((x2 - x1) % StcPeriod)

\* Mutant: the two counters are taken to wrap around together.
NearAlways(sof) == sof

\* Second step: close to the mean of the window, and SOF to host time.
Near(sof) ==
  LET mean == (HostSof1 + HostSof2) \div 2
  IN CASE mean - SofPeriod \div 2 > sof -> sof + SofPeriod
       [] sof > mean + SofPeriod \div 2 -> sof - SofPeriod
       [] OTHER -> sof

\* The host time of a SOF of the host.
TimeOf(sof) ==
  first.host_time + ((last.host_time - first.host_time) * (sof - HostSof1))
                      \div (HostSof2 - HostSof1)

-----------------------------------------------------------------------------
(* Properties.                                                             *)

SampleType == [dev_stc : 0 .. StcPeriod - 1, dev_sof : 0 .. SofPeriod - 1,
               host_sof : Nat, host_time : Nat, zero : BOOLEAN]

\* The indices stay within the ring and the SOFs within their period.
ClockTypeOK ==
  /\ now \in Nat /\ offset \in Offsets /\ host \in Hosts
  /\ samples \in [0 .. Size - 1 -> SampleType]
  /\ head \in 0 .. Size - 1 /\ count \in 0 .. Size
  /\ last_sof \in (0 .. SofPeriod - 1) \cup {None}
  /\ last_sof_overflow \in (0 .. Size - 1) \cup {None}
  /\ sof_offset \in (0 .. LowPeriod - 1) \cup {None}

\* Where the SOF goes down from one sample of the window to the next.
Descents == {i \in 2 .. count : samples[Slot(i)].dev_sof < samples[Slot(i - 1)].dev_sof}

\* "We only support one SOF overflow per circular buffer": the SOF goes down in the
\* window only where last_sof_overflow says.
OneOverflow == \A i \in Descents : Slot(i) = last_sof_overflow

\* The window holds the newest samples in the order they were taken, across every
\* wrap-around of the ring, reset and drop, and none of them was made from an SCR of
\* zeros that stands for no data.
WindowInOrder ==
  /\ \A i \in 2 .. count : samples[Slot(i - 1)].host_time < samples[Slot(i)].host_time
  /\ \A i \in 1 .. count : ~samples[Slot(i)].zero

\* The window is what uvc_video_clock_update may interpolate over: in its bounds,
\* in order, with at most the one overflow that it is told of.
WindowUsable == ClockTypeOK /\ OneOverflow /\ WindowInOrder

\* When the frames may have been captured whose PTS is converted: at most MaxAge
\* before or after the middle of the window, which is "smaller than the rollover
\* period".
Captures ==
  LET middle == (first.host_time + last.host_time) \div 2
      length == (last.dev_stc - first.dev_stc) % StcPeriod
  IN {t \in middle - MaxAge .. middle + MaxAge :
        t >= 0 /\ length < SofPeriod /\ Enough(t % StcPeriod)}

\* The timestamp is when the frame was captured, late by no more than the longest
\* delay and early by less than MinOffset, wherever the counters of the device and
\* the host wrap around; and "the SOF computed by (1) will never be smaller than 0",
\* for the arithmetic is unsigned.
TimestampRight ==
  count > 0 =>
    \A t \in Captures :
      LET sof == SofOf(t % StcPeriod)
      IN sof >= 0 /\ \E d \in Delays : TimeOf(Near(sof)) - t \in d - MinOffset + 1 .. d
===============================================================================
