--------------------------- MODULE BlockPipeline ---------------------------
(***************************************************************************)
(* compress_blocks_pipelined of src/src/compress/block.rs: while block N is *)
(* entropy coded and written, the block compressor already searches block  *)
(* N + 1, when N is proven to be written COMPRESSED, so that the offsets   *)
(* N + 1 starts from and its size are known before N is written.  The two  *)
(* sides of the rayon::join are steps of their own, in any order.          *)
(*                                                                         *)
(* A call runs the pipelined loop or the plain one.  Whatever it does is   *)
(* what SerialBlocks does: a block found ahead becomes the block in hand   *)
(* of the plain loop once the one before it is accounted.                  *)
(***************************************************************************)
EXTENDS SerialBlocks

CONSTANT MinOverlap     \* MIN_OVERLAP

\* A pre-split block that overlaps still attempts compression.
ASSUME OverlapConstants ==
    /\ MinOverlap \in Nat
    /\ AttemptsCompression(MinOverlap) /\ AttemptsCompression(SplitSize)

VARIABLES
    pipelined,  \* the call's parameter
    ahead       \* the overlap: the following block, what was proven of this one

vars == <<svars, pipelined, ahead>>

NoRep == <<>>
NoEnd == -1

Ahead(end, rep, least, found, b) ==
    [end |-> end, rep |-> rep, least |-> least, found |-> found, blk |-> b]

NoAhead == Ahead(NoEnd, NoRep, 0, FALSE, NoBlock)

PipelineInit == Init /\ pipelined = FALSE /\ ahead = NoAhead

-----------------------------------------------------------------------------
(* What is proven before entropy coding *)

\* Mutant of ProvenCompressed: a bound that just fits passes.
ProvenInclusive(u) == ~u.rle /\ u.bound <= u.len - MinGain(u.len)

ProvenCompressed(u) == ~u.rle /\ u.bound < u.len - MinGain(u.len)

ProvenRepAfter(b, units, prev) ==
    IF \E i \in 1..Len(units) : ~ProvenCompressed(units[i]) THEN NoRep
    ELSE IF Len(units) = 1 THEN b.rep ELSE UpdateReps(prev, b.found)

CompressedGainBound(units) ==
    LET gain[i \in 0..Len(units)] ==
          IF i = 0 THEN 0 ELSE gain[i - 1] + MinGain(units[i].len) + 1 - BlockHeaderSize
    IN  gain[Len(units)]

OverlapsAt(start) ==
    Ready(jb, start, input) /\ UnsplitSize(jb, start, input) >= MinOverlap

\* Mutant of NextUnwritten: the size is taken from the savings so far.
NextUnwrittenAnyway(start, leastGained) ==
    BlockEnd(jb, start, input, Savings(jb, start, leastGained), start \in job.cuts)

\* Where the following block ends, unless that depends on what this one
\* comes to.
NextUnwritten(start, leastGained) ==
    LET leastSavings == Savings(jb, start, leastGained)
        maySplit == jb.sizing.split /\ UnsplitSize(jb, start, input) = SplitBlockSize
    IN  IF maySplit /\ leastSavings < 3 THEN NoEnd
        ELSE BlockEnd(jb, start, input, leastSavings, start \in job.cuts)

-----------------------------------------------------------------------------
(* The loop *)

PipelinedCall(i) == Call(i) /\ pipelined' \in BOOLEAN /\ UNCHANGED ahead

\* The loop's head: partitions, then whether the following block overlaps.
PipelinedDerive ==
    /\ pc = "derive" /\ pipelined
    /\ \E units \in Cuttings(blk) :
         LET least   == jb.gained + CompressedGainBound(units)
             repNext == IF blk.built THEN ProvenRepAfter(blk, units, st.rep) ELSE NoRep
             end     == IF OverlapsAt(blk.end) /\ repNext # NoRep
                        THEN NextUnwritten(blk.end, least) ELSE NoEnd
         IN  /\ StartEmit(units)
             /\ IF end # NoEnd
                THEN /\ pc' = "overlap"
                     /\ ahead' = Ahead(end, repNext, least, FALSE, NoBlock)
                ELSE pc' = "emit" /\ UNCHANGED ahead
    /\ UNCHANGED <<jb, input, st, dec, read, job, pipelined>>

\* One side of the join: build_seq_store of the following block.
FindAhead ==
    /\ pc = "overlap" /\ ~ahead.found
    /\ \E b \in Builds(job.three, blk.end, ahead.end, ahead.rep) :
         ahead' = Ahead(ahead.end, ahead.rep, ahead.least, TRUE, b)
    /\ UNCHANGED <<svars, pipelined>>

\* The other: emit_block of this one.
EmitBeside == pc = "overlap" /\ EmitUnit /\ UNCHANGED <<pc, pipelined, ahead>>

Join ==
    /\ pc = "overlap" /\ ahead.found /\ Emitted
    /\ jb' = Wrote(jb, blk.end, emit.gain) /\ pc' = "joined"
    /\ blk' = NoBlock /\ emit' = NoEmit /\ read' = NoRead
    /\ UNCHANGED <<input, st, dec, job, pipelined, ahead>>

TakeFollowing ==
    /\ pc = "joined" /\ pc' = "derive"
    /\ blk' = ahead.blk /\ ahead' = NoAhead
    /\ UNCHANGED <<jb, input, emit, st, dec, read, job, pipelined>>

Plainly ==
    /\ CutAndFind \/ (~pipelined /\ Derive) \/ Emit \/ BlockWritten \/ Return
    /\ UNCHANGED <<pipelined, ahead>>

Step == Plainly \/ PipelinedDerive \/ FindAhead \/ EmitBeside \/ Join \/ TakeFollowing

Next == (\E i \in Inputs : PipelinedCall(i)) \/ Step

Spec == PipelineInit /\ [][Next]_vars

\* A call runs until it returns: rayon::join runs both of its sides.
FairSpec == Spec /\ WF_vars(Step)

-----------------------------------------------------------------------------
(* Properties *)

\* The assertions after the join: every block written is COMPRESSED, the
\* committed offsets are the ones the following block was searched from, and
\* no less was gained than its size assumed.
ProofsHold ==
    pc = "overlap" /\ Emitted =>
      /\ emit.all
      /\ st.rep = ahead.rep
      /\ jb.gained + emit.gain >= ahead.least

\* Where the plain loop is: it writes while the pipelined one overlaps, and
\* has accounted the block after the join.
PlainPc == CASE pc = "overlap" -> "emit" [] pc = "joined" -> "cut" [] OTHER -> pc

Plain == INSTANCE SerialBlocks WITH pc <- PlainPc

\* "Output is identical either way": with the search ahead hidden, every
\* behaviour is one of the plain loop.
PipelineIsSerial == Plain!SerialSpec

\* Every call returns.
CallReturns == pc # "idle" ~> pc = "idle"

=============================================================================
