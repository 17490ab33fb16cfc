---------------------------- MODULE MCMatchState ----------------------------
(* Small instances of MatchState: four table layouts over two words that   *)
(* overlap in every way the code's can, index tables over tag tables among *)
(* them, windows of two bytes and indices that wrap within a few blocks.   *)
EXTENDS MatchState

Layout(hash, chain, hash3, tags, indexEnd, size) ==
    [hash |-> hash, chain |-> chain, hash3 |-> hash3, tags |-> tags,
     indexEnd |-> indexEnd, words |-> size]

Fast == [window |-> 2, cycle |-> 2, dictMax |-> 3, need |-> 1,
         layout |-> Layout({0}, {}, {}, {}, 1, 1),
         bt |-> FALSE, ultra |-> FALSE]
RowHash == [window |-> 2, cycle |-> 2, dictMax |-> 2, need |-> 2,
            layout |-> Layout({0}, {}, {}, {1}, 1, 2),
            bt |-> FALSE, ultra |-> FALSE]
BtLazy2 == [window |-> 2, cycle |-> 2, dictMax |-> 3, need |-> 4,
            layout |-> Layout({0}, {1}, {}, {}, 2, 2),
            bt |-> TRUE, ultra |-> FALSE]
BtUltra2 == [BtLazy2 EXCEPT !.dictMax = 2, !.bt = FALSE, !.ultra = TRUE]

ShapeParams == {Fast, RowHash, BtLazy2, BtUltra2}

\* The instances leave room for corrections, as the theorems assume.
ASSUME RoomForCorrections == CorrectionRoom
=============================================================================
