--------------------------- MODULE MCSerialBlocks ---------------------------
(* Two instances of SerialBlocks, one after the other in the same run.  A  *)
(* full block is 8 bytes and gains at least one when it is written         *)
(* COMPRESSED.                                                             *)
(*                                                                         *)
(* The first asks about offsets: both kinds of finders, every start of a   *)
(* job, split blocks, two blocks and one too small to compress.  Coders    *)
(* asks about tables: both of them, chosen by the heuristic, over three    *)
(* blocks that start from a dictionary.                                    *)
EXTENDS SerialBlocks

VARIABLE instance

OneCall == {[kind |-> "JobEnd", end |-> Content + 18]}
DictReps == <<2, 4, 3>>
HeldReps == {<<1, 4, 8>>, <<5, 2, 5>>}
AllCodes == 0..3
NoCuts == {{}}

Coders == INSTANCE SerialBlocks WITH
    Tables <- {"huf", "of"}, DefaultMaxOff <- 4, Heuristic <- TRUE, Split <- FALSE,
    Threes <- {FALSE}, JobStarts <- {"Dict"}, Reaches <- {100}

BothInit ==
    \/ instance = "searches" /\ Init
    \/ instance = "coders" /\ Coders!Init

BothNext ==
    /\ UNCHANGED instance
    /\ \/ instance = "searches" /\ SerialNext
       \/ instance = "coders" /\ Coders!SerialNext

Spec == BothInit /\ [][BothNext]_<<svars, instance>>
=============================================================================
