---------------------------- MODULE MC_UvcDecode ----------------------------
(* Small instances of UvcDecode for TLC. *)
EXTENDS UvcDecode

\* A well-behaved device with an uncompressed format, on a lossy bus.
Uncompressed ==
  [frameSize |-> 2, bufferLength |-> 2, compressed |-> FALSE, eof |-> "empty",
   noFid |-> FALSE, mjpegNoEof |-> FALSE, starves |-> TRUE,
   faults |-> {"lost", "err", "restart", "suspend"}]

\* A compressed format, whose frames have no known size.
CompressedFormat == [Uncompressed EXCEPT !.compressed = TRUE]

\* No EOF bits, packets that vanish unreported, suspends.
Silent ==
  [CompressedFormat EXCEPT !.eof = "never", !.frameSize = 3, !.bufferLength = 3,
                           !.faults = {"invalid", "suspend"}]

\* A device that never toggles FID; with and without enough buffers.
WithoutFid ==
  [Uncompressed EXCEPT !.noFid = TRUE, !.eof = "last", !.starves = FALSE,
                       !.frameSize = 3, !.bufferLength = 3, !.faults = {"lost", "err", "restart"}]
WithoutFidOrBuffer == [WithoutFid EXCEPT !.starves = TRUE]

\* An MJPEG device that now and then forgets the end of a frame.
Mjpeg ==
  [CompressedFormat EXCEPT !.mjpegNoEof = TRUE, !.eof = "last", !.starves = FALSE,
                           !.bufferLength = 4, !.faults = {"noEof", "err", "restart"}]

AllSetups == {Uncompressed, CompressedFormat, Silent, WithoutFid, WithoutFidOrBuffer, Mjpeg}
=============================================================================
