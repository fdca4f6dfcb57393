-------------------------- MODULE MCHistoryPusher --------------------------
(* HistoryPusher for TLC: three blocks, with a gap before the last.         *)
EXTENDS HistoryPusher

Block(n, s, e) == [seq |-> n, start |-> s, end |-> e]
ThreeBlocks == <<Block(1, 1, 2), Block(2, 2, 3), Block(3, 4, 5)>>
=============================================================================
