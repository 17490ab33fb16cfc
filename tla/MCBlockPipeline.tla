-------------------------- MODULE MCBlockPipeline --------------------------
(* A small instance of BlockPipeline.  A full block is 8 bytes and gains   *)
(* at least one when it is written COMPRESSED; the pre-splitter cuts one   *)
(* to 7.                                                                   *)
EXTENDS BlockPipeline

\* Three blocks and one too small to compress in up to three calls, the first
\* of them flushed or left open.
ManyCalls == {[kind |-> "JobEnd", end |-> Content + 26],
              [kind |-> "Chunk", end |-> Content + 12],
              [kind |-> "Open", end |-> Content + 20]}

DictReps == <<2, 4, 3>>
HeldReps == {<<1, 4, 8>>, <<5, 2, 5>>}
AllCodes == 0..3

SomeCuts == {{}, {8, 16, Content + 8, Content + 16}}
=============================================================================
