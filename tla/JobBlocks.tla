----------------------------- MODULE JobBlocks -----------------------------
(***************************************************************************)
(* How a job is cut into blocks: BlockSizing, InputEnd and JobBlocks of    *)
(* src/src/compress/block.rs.  One operator per method over the cursor, a  *)
(* record.  Positions are offsets into the input slice; the job's start    *)
(* may lie before it once a streaming buffer moved, so it is an integer.   *)
(*                                                                         *)
(* What depends on the bytes is a parameter of the operators: whether the  *)
(* pre-splitter cuts a full block (cut), and what a written block gained.  *)
(***************************************************************************)
EXTENDS Integers

CONSTANTS
    SplitBlockSize,  \* SPLIT_BLOCK_SIZE: only such blocks are pre-split
    SplitSize        \* the size the pre-splitter cuts one to

ASSUME SplitConstants ==
    /\ SplitBlockSize \in Nat \ {0} /\ SplitSize \in 1..SplitBlockSize

Least(a, b) == IF a <= b THEN a ELSE b

Sizing == [blockSizeMax: Nat \ {0}, split: BOOLEAN, chunkSize: Nat \ {0},
           headerLen: Nat]

InputEnd == [kind: {"Open", "Chunk", "JobEnd"}, end: Nat]

JobBlocksType == [sizing: Sizing, jobStart: Int, firstJob: BOOLEAN,
                  lastJob: BOOLEAN, done: Nat, firstChunkEnd: Nat,
                  gained: Int]

NewJobBlocks(sizing, jobStart, firstJob, lastJob) ==
    [sizing |-> sizing, jobStart |-> jobStart, firstJob |-> firstJob,
     lastJob |-> lastJob, done |-> 0, firstChunkEnd |-> sizing.chunkSize,
     gained |-> 0]

NextStart(jb) == jb.jobStart + jb.done

RebaseBlocks(jb, shift) == [jb EXCEPT !.jobStart = @ - shift]

UnsplitSize(jb, start, input) ==
    LET chunk    == jb.sizing.chunkSize
        offset   == start - jb.jobStart
        chunkEnd == (offset \div chunk + 1) * chunk
        end      == IF input.kind = "Open" THEN chunkEnd
                    ELSE Least(chunkEnd, input.end - jb.jobStart)
    IN  Least(end - offset, jb.sizing.blockSizeMax)

\* Mutant of Ready: a full block is cut before more input shows it is not
\* the last.
ReadyWhenFull(jb, start, input) ==
    IF input.kind = "Open" THEN input.end - start >= jb.sizing.blockSizeMax
    ELSE start < input.end

Ready(jb, start, input) ==
    IF input.kind = "Open" THEN input.end - start > jb.sizing.blockSizeMax
    ELSE start < input.end

HasReady(jb, input) == Ready(jb, NextStart(jb), input)

\* Mutant of IsLast: a flushed chunk ends the frame.
IsLastOfChunk(jb, end, input) == jb.lastJob /\ input.end = end

IsLast(jb, end, input) ==
    jb.lastJob /\ input.kind = "JobEnd" /\ input.end = end

InputEnded(jb, input) ==
    IF input.kind = "Chunk"
    THEN [jb EXCEPT !.firstChunkEnd = Least(@, input.end - jb.jobStart)]
    ELSE jb

Savings(jb, start, gained) ==
    gained - (IF jb.firstJob /\ start - jb.jobStart >= jb.firstChunkEnd
              THEN jb.sizing.headerLen ELSE 0)

\* The end of the block that starts at start (ZSTD_optimalBlockSize).
BlockEnd(jb, start, input, savings, cut) ==
    LET unsplit == UnsplitSize(jb, start, input)
    IN  start + (IF jb.sizing.split /\ unsplit = SplitBlockSize /\ savings >= 3 /\ cut
                 THEN SplitSize ELSE unsplit)

NextBlockEnd(jb, input, cut) ==
    LET start == NextStart(jb)
    IN  BlockEnd(jb, start, input, Savings(jb, start, jb.gained), cut)

\* Mutant of Wrote: a written block is not accounted.
WroteForgotten(jb, end, gain) == jb

Wrote(jb, end, gain) ==
    [jb EXCEPT !.done = end - jb.jobStart, !.gained = @ + gain]

=============================================================================
