---------------------------- MODULE MC_UvcNegotiate ----------------------------
EXTENDS UvcNegotiate

Frame(index, size, least, need, estimate) ==
  [index |-> index, size |-> size, needs |-> <<least, need>>, estimate |-> estimate]
Format(index, compressed, frames) ==
  [index |-> index, compressed |-> compressed, frames |-> frames]

Small == Frame(1, 10, 2, 4, 3)
Large == Frame(2, 30, 6, 9, 5)
TooLarge == Frame(3, 60, 12, 15, 14)

\* A device that does everything the specification asks of it.
Plain ==
  [formats |-> <<Format(1, FALSE, <<Small, Large>>), Format(2, TRUE, <<Large, TooLarge>>)>>,
   alts |-> <<5, 10, 12>>, packet |-> 8, quirks |-> {}, asks |-> "need",
   minmax |-> "full", old |-> FALSE, def |-> TRUE, zeroIndex |-> FALSE, sizes |-> "right"]

CamLink == [Plain EXCEPT !.quirks = {"elgato"}, !.def = FALSE]
ZeroIndexes ==
  [Plain EXCEPT !.formats = <<Format(1, TRUE, <<TooLarge>>)>>, !.zeroIndex = TRUE,
                !.alts = <<12, 20>>]
ZeroTooWide == [ZeroIndexes EXCEPT !.alts = <<5, 10>>]
NoSizes == [Plain EXCEPT !.old = TRUE, !.sizes = "null", !.minmax = "quality"]
Extended == [Plain EXCEPT !.asks = "extended", !.quirks = {"minmax", "probeDef"}]
Greedy ==
  [Plain EXCEPT !.formats = <<Format(1, FALSE, <<Small, Large>>)>>, !.asks = "huge",
                !.quirks = {"fixBandwidth"}, !.minmax = "stall",
                !.sizes = "short"]
Greedier == [Greedy EXCEPT !.minmax = "full"]
ZeroLimited == [ZeroTooWide EXCEPT !.quirks = {"minmax"}]
Bulk == [Plain EXCEPT !.alts = <<>>]
NoFrames == [Plain EXCEPT !.formats = <<Format(1, FALSE, <<Small>>), Format(2, TRUE, <<>>)>>]

AllSetups == {Plain, CamLink, ZeroIndexes, ZeroTooWide, NoSizes, Extended, Greedy, Greedier,
              ZeroLimited, Bulk, NoFrames}
================================================================================
