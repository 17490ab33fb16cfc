--------------------------- MODULE MCDecodeStream ---------------------------
(***************************************************************************)
(* Streams for DecodeStream, scaled down: blocks decode to two bytes at    *)
(* most, copies overshoot by one, a frame past its window has a margin of  *)
(* one block.                                                              *)
(***************************************************************************)
EXTENDS DecodeStream

Raw(n) == [clen |-> n, out |-> n, comp |-> FALSE, fault |-> "none"]
Comp(n) == [clen |-> 1, out |-> n, comp |-> TRUE, fault |-> "none"]
Faulty(fault) == [Comp(1) EXCEPT !.fault = fault]

Frame(window, fcs, blocks) ==
    [skip |-> FALSE, hlen |-> 3, left |-> 0, window |-> window, fcs |-> fcs, blocks |-> blocks,
     checksum |-> FALSE, sum_ok |-> TRUE, bad |-> FALSE, cut |-> FALSE]

Skippable(n) == [Frame(0, NoSize, <<>>) EXCEPT !.skip = TRUE, !.left = n]

MCStreams ==
    {\* past its window: the buffer wraps, with blocks of one and two bytes
     <<[Frame(2, NoSize, <<Comp(2), Comp(2), Comp(2), Comp(1), Comp(2), Comp(2), Raw(1)>>)
           EXCEPT !.checksum = TRUE]>>,
     <<Frame(3, 9, <<Raw(2), Comp(1), Comp(2), Comp(2), Comp(2)>>)>>,
     \* a small frame after a larger one, which left its buffer
     <<Frame(3, 3, <<Comp(2), Comp(1)>>),
       Frame(1, NoSize, <<Comp(1), Raw(1), Comp(1), Comp(1), Comp(1), Comp(1)>>)>>,
     \* skippable and empty frames
     <<Skippable(0), Frame(2, 0, <<Raw(0)>>), Skippable(2), Frame(2, 2, <<Comp(1), Raw(1)>>)>>,
     \* above the window limit
     <<Frame(4, 4, <<Comp(2), Comp(2)>>)>>,
     <<Frame(4, NoSize, <<Comp(2)>>)>>,
     <<Frame(4, 2, <<Comp(1), Faulty("reserved")>>)>>,
     \* corrupt: sizes, a checksum, a header, block headers and contents
     <<Frame(2, 3, <<Comp(2), Comp(2), Comp(1)>>)>>,
     <<Frame(2, 4, <<Comp(2), Comp(1)>>)>>,
     <<[Frame(2, 2, <<Comp(2)>>) EXCEPT !.checksum = TRUE, !.sum_ok = FALSE]>>,
     <<Frame(2, 1, <<Raw(1)>>), [Frame(2, 1, <<Raw(1)>>) EXCEPT !.bad = TRUE]>>,
     <<Frame(2, NoSize, <<Comp(2), Faulty("size"), Raw(1)>>)>>,
     <<Frame(2, NoSize, <<Comp(2), Comp(1), Faulty("reserved"), Raw(1)>>)>>,
     <<Frame(2, NoSize, <<Comp(1), Faulty("content"), Raw(1)>>)>>,
     \* truncated
     <<[Frame(2, NoSize, <<Comp(2), Raw(2)>>) EXCEPT !.cut = TRUE]>>,
     <<[Skippable(2) EXCEPT !.cut = TRUE]>>}
=============================================================================
