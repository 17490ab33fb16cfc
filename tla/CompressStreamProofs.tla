------------------------ MODULE CompressStreamProofs ------------------------
(***************************************************************************)
(* The streaming session writes the frame a one-shot call would, keeps the *)
(* history its matches may reference and returns exact values, for any     *)
(* window, block size, prefix and input, cut into calls in any way.        *)
(*                                                                         *)
(* RepCodesProofs is extended for its induction over naturals.             *)
(***************************************************************************)
EXTENDS CompressStream, RepCodesProofs

-----------------------------------------------------------------------------
(* The inductive invariant.                                                *)

FrameSizing == [blockSizeMax |-> BlockSizeMax, split |-> TRUE,
                chunkSize |-> NoChunk, headerLen |-> HeaderLen]

CursorSet == [sizing: {FrameSizing}, jobStart: Int, firstJob: BOOLEAN, lastJob: BOOLEAN,
              done: Nat, firstChunkEnd: Int, gained: Int]

\* The cursor of a streaming frame: one job, the first and the last.
IsCursor(jb) == jb \in CursorSet /\ jb.firstJob = TRUE /\ jb.lastJob = TRUE

FrameSet == [jb: CursorSet, buf: Seq(Int), cap: Nat, content: Nat, pledged: Int,
             consumed: Nat, header: BOOLEAN, ldmEnd: Int]

IsFrame(f) == f \in FrameSet /\ IsCursor(f.jb)

ItemSet == [item: {"header", "block", "epilogue"}, size: Int, bytes: Seq(Int),
            last: BOOLEAN]

InputSet == [kind: {"None", "Open", "Chunk", "JobEnd"}, end: Nat]

CallSet == [pc: {"idle", "flush", "match", "blocks"}, src: Nat, room: Nat,
            op: Directives, input: InputSet]

ReturnSet == [op: Directives, err: Errors, left: Nat, src: Nat]

TypeInv ==
    /\ stage \in {"Idle", "Frame", "Ended", "Failed"}
    /\ pledged \in Int /\ prefix \in Nat
    /\ out \in Seq(ItemSet) /\ sent \in Seq(ItemSet)
    /\ IsFrame(fr)
    /\ call \in CallSet
    /\ ret \in ReturnSet
    /\ flushed \in BOOLEAN

\* Where a call is.
CallInv ==
    /\ call.pc = "idle" => call.src = 0
    /\ call.pc = "match" => out = <<>>
    /\ call.pc = "blocks" => /\ stage = "Frame" /\ call.input.kind # "None"
                             /\ call.input.end = Len(fr.buf)
    /\ call.input.kind = "JobEnd" => call.pc = "blocks"
    /\ fr.consumed + call.src <= MaxInput
    /\ stage \notin {"Frame", "Ended"} => fr = NoFrame

\* The k-th byte of what a frame with content c may reference.
ByteOf(c, k) == IF k <= c THEN k - c - 1 ELSE k - c

\* The buffer holds the end of the history, all of it until more than a
\* window is written, and then a window before the next block.
Buffered(f) ==
    /\ f.cap = f.content + 2 * (WindowSize + BlockSizeMax)
    /\ Len(f.buf) = f.jb.jobStart + f.consumed
    /\ f.jb.jobStart <= f.content /\ f.jb.done <= f.consumed
    /\ \A i \in 1..Len(f.buf) : f.buf[i] = ByteOf(f.content, i + f.content - f.jb.jobStart)
    /\ \/ f.jb.jobStart = f.content
       \/ NextStart(f.jb) >= WindowSize /\ f.jb.done > WindowSize

\* No block is ready between calls; a buffer grows past its capacity only for
\* a frame that one call begins and ends.
BufferInv ==
    stage = "Frame" =>
        /\ Buffered(fr)
        /\ call.pc # "blocks" => Len(fr.buf) - NextStart(fr.jb) <= BlockSizeMax
        /\ call.input.kind # "JobEnd" => Len(fr.buf) <= fr.cap

CodedInv ==
    stage \in {"Frame", "Ended"} => BlocksCodeTheInput

\* Boolean fields, as predicates.
Marked(i) == i.last = TRUE
NeedsHeader(f) == f.header = TRUE

\* A header and blocks, none of them last; the same with a last block; and a
\* whole frame.
Going(s, size) ==
    /\ Len(s) >= 1 /\ s[1] = Header(size)
    /\ \A i \in 2..Len(s) : s[i].item = "block" /\ ~Marked(s[i])

Closed(s, size) ==
    /\ Len(s) >= 2 /\ s[1] = Header(size)
    /\ \A i \in 2..Len(s) : s[i].item = "block" /\ (Marked(s[i]) <=> i = Len(s))

Whole(s, size) ==
    /\ Len(s) >= 3 /\ s[1] = Header(size) /\ s[Len(s)] = Epilogue
    /\ \A i \in 2..(Len(s) - 1) : s[i].item = "block" /\ (Marked(s[i]) <=> i = Len(s) - 1)

\* The last block is written.
AllWritten == call.input.kind = "JobEnd" /\ ~HasReady(fr.jb, call.input)

ItemsInv ==
    /\ stage = "Frame" /\ NeedsHeader(fr) => Items = <<>> /\ call.pc # "blocks"
    /\ stage = "Frame" /\ ~NeedsHeader(fr) /\ ~AllWritten => Going(Items, fr.pledged)
    /\ stage = "Frame" /\ ~NeedsHeader(fr) /\ AllWritten => Closed(Items, fr.pledged)
    /\ stage = "Ended" => Whole(Items, fr.pledged)
    /\ stage = "Ended" \/ call.input.kind = "JobEnd" =>
          fr.pledged = NoSize \/ fr.pledged = fr.consumed

ReturnInv ==
    call.pc = "idle" /\ ret.err = "None" =>
        /\ ret.op = "Continue" /\ stage = "Frame" /\ out = <<>> => ret.left = InputHint(fr)
        /\ ret.op # "Continue" /\ ret.left = 0 =>
              /\ ret.src = 0 /\ out = <<>>
              /\ stage = "Frame" => fr.jb.done = fr.consumed
              /\ ret.op = "End" => stage = "Idle" /\ sent[Len(sent)] = Epilogue

-----------------------------------------------------------------------------
(* The one-shot frame of n bytes, by blocks, as the oracle o decides.      *)

GainOf(o, bytes) == IF Head(bytes) \in o.gain THEN 4 ELSE 0 - 3

WholeInput(n) == [kind |-> "JobEnd", end |-> n]

CutStep(o, n, st) ==
    IF ~HasReady(st.jb, WholeInput(n)) THEN st
    ELSE LET start == NextStart(st.jb)
             to    == NextBlockEnd(st.jb, WholeInput(n), start + 1 \in o.cut)
             bytes == Bytes(start, to - start)
         IN  [jb |-> Wrote(st.jb, to, GainOf(o, bytes)),
              blocks |-> Append(st.blocks, Block(bytes, IsLast(st.jb, to, WholeInput(n))))]

\* What it has come to after each block.
NothingCut == [jb |-> NoFrame.jb, blocks |-> <<>>]
ChainAt(o, n, f, i) == IF i = 0 THEN NothingCut ELSE CutStep(o, n, f[i - 1])
IsChain(o, n, m, f) == f = [i \in 0..m |-> ChainAt(o, n, f, i)]
Chain(o, n) == CHOOSE f : IsChain(o, n, n, f)

OneShot(o, n) == IF n = 0 THEN <<Block(<<>>, TRUE)>> ELSE Chain(o, n)[n].blocks

\* The stream has come as far as st: the same cursor, but for where the buffer
\* lies, and the same blocks.
Follows(f, items, st) ==
    /\ st.jb = RebaseBlocks(f.jb, f.jb.jobStart)
    /\ NeedsHeader(f) => st.blocks = <<>> /\ items = <<>>
    /\ ~NeedsHeader(f) => items = <<Header(f.pledged)>> \o st.blocks

Following(f, items, o, n) ==
    \E k \in 0..f.jb.done : Follows(f, items, Chain(o, n)[k])

\* A frame that was not flushed has come as far as some point of the one-shot
\* frame of each input it may become; a frame of no input ends with its only
\* block.
EmptyFrame == <<Header(fr.pledged), Block(<<>>, TRUE)>>

SameInv ==
    /\ stage = "Frame" /\ ~flushed =>
          /\ call.pc = "blocks" => call.input.kind # "Chunk"
          /\ call.input.kind # "JobEnd" /\ fr.consumed > 0 => fr.jb.done < fr.consumed
          /\ call.input.kind = "JobEnd" /\ fr.consumed = 0 => Items = EmptyFrame
          /\ ~(call.input.kind = "JobEnd" /\ fr.consumed = 0) =>
                \A n \in Inputs : Following(fr, Items, oracle, n)
    /\ stage = "Ended" /\ ~flushed =>
          Items = Append(<<Header(fr.pledged)>> \o OneShot(oracle, fr.consumed), Epilogue)

-----------------------------------------------------------------------------
(* The block cursor.                                                       *)

(* What is below a divisor divides to nothing.                             *)
LEMMA DivBelow ==
  ASSUME NEW a \in Nat, NEW c \in Nat, a < c
  PROVE  a \div c = 0
<1>1. c > 0 /\ a \div c \in Int
  OBVIOUS
<1>2. a = c * (a \div c) + (a % c) /\ a % c \in 0..(c - 1)
  BY <1>1
<1> DEFINE q == a \div c
           r == a % c
<1>3. q \in Int /\ r \in 0..(c - 1) /\ a = c * q + r
  BY <1>1, <1>2
<1> HIDE DEF q, r
<1>4. CASE q >= 1
  <2>1. c * q >= c
    BY <1>1, <1>3, <1>4
  <2> QED BY <1>3, <2>1
<1>5. CASE q <= -1
  <2>1. c * q <= 0 - c
    BY <1>1, <1>3, <1>5
  <2> QED BY <1>3, <2>1
<1> QED BY <1>3, <1>4, <1>5 DEF q

\* How much of the job the input lets the next block reach, from its start.
Reach(jb, input) ==
    IF input.kind = "Open" THEN NoChunk ELSE Least(NoChunk, input.end - jb.jobStart)

(* A frame is one chunk, so a block reaches to its end or to the input's.  *)
LEMMA UnsplitIs ==
  ASSUME NEW jb, IsCursor(jb), jb.done <= MaxInput, NEW input
  PROVE  UnsplitSize(jb, NextStart(jb), input)
           = Least(Reach(jb, input) - jb.done, BlockSizeMax)
<1>1. /\ jb.jobStart \in Int /\ jb.done \in Nat /\ NoChunk \in Nat /\ jb.done < NoChunk
      /\ jb.sizing.chunkSize = NoChunk /\ jb.sizing.blockSizeMax = BlockSizeMax
  BY StreamConstants DEF IsCursor, CursorSet, FrameSizing
<1> DEFINE offset == NextStart(jb) - jb.jobStart
<1>2. offset = jb.done
  BY <1>1 DEF NextStart
<1>3. offset \div NoChunk = 0
  BY <1>1, <1>2, DivBelow
<1>4. (offset \div NoChunk + 1) * NoChunk = NoChunk
  BY <1>1, <1>3
<1>5. UnsplitSize(jb, NextStart(jb), input)
        = Least((IF input.kind = "Open" THEN (offset \div NoChunk + 1) * NoChunk
                 ELSE Least((offset \div NoChunk + 1) * NoChunk, input.end - jb.jobStart))
                  - offset, BlockSizeMax)
  BY <1>1 DEF UnsplitSize
<1> HIDE DEF offset
<1> QED BY <1>2, <1>4, <1>5 DEF Reach

\* The size of the next block: whether the pre-splitter may cut it depends on
\* the cursor alone.
SizeOf(jb, unsplit, cut) ==
    IF unsplit = SplitBlockSize /\ Savings(jb, NextStart(jb), jb.gained) >= 3 /\ cut
    THEN SplitSize ELSE unsplit

(* It ends that much further on.                                           *)
LEMMA NextEndIs ==
  ASSUME NEW jb, IsCursor(jb), NEW input, NEW cut
  PROVE  NextBlockEnd(jb, input, cut)
           = NextStart(jb) + SizeOf(jb, UnsplitSize(jb, NextStart(jb), input), cut)
<1>1. jb.sizing.split = TRUE
  BY DEF IsCursor, CursorSet, FrameSizing
<1> QED BY <1>1 DEF NextBlockEnd, BlockEnd, SizeOf

(* A block is cut from input that is ready, and takes none that is not     *)
(* there; while more may come, it leaves some.                             *)
LEMMA NextEndBounds ==
  ASSUME NEW jb, IsCursor(jb), NEW input, input.end \in Nat, HasReady(jb, input),
         jb.done <= MaxInput, NEW cut
  PROVE  /\ NextBlockEnd(jb, input, cut) \in Int
         /\ NextStart(jb) < NextBlockEnd(jb, input, cut)
         /\ NextBlockEnd(jb, input, cut) <= input.end
         /\ input.kind = "Open" => NextBlockEnd(jb, input, cut) < input.end
<1> DEFINE u == UnsplitSize(jb, NextStart(jb), input)
<1>1. /\ jb.jobStart \in Int /\ jb.done \in Nat /\ BlockSizeMax \in Nat \ {0}
      /\ jb.sizing.blockSizeMax = BlockSizeMax /\ NoChunk \in Nat /\ MaxInput \in Nat
      /\ MaxInput < NoChunk /\ SplitSize \in 1..SplitBlockSize /\ SplitBlockSize \in Nat
  BY StreamConstants, SplitConstants DEF IsCursor, CursorSet, FrameSizing
<1>2. u = Least(Reach(jb, input) - jb.done, BlockSizeMax)
  BY UnsplitIs
<1>3. NextBlockEnd(jb, input, cut) = NextStart(jb) + SizeOf(jb, u, cut)
  BY NextEndIs
<1>4. IF input.kind = "Open" THEN input.end - NextStart(jb) > BlockSizeMax
      ELSE NextStart(jb) < input.end
  BY <1>1 DEF HasReady, Ready
<1> HIDE DEF u
<1>5. /\ u \in Int /\ u >= 1 /\ u <= BlockSizeMax
      /\ input.kind # "Open" => NextStart(jb) + u <= input.end
  BY <1>1, <1>2, <1>4 DEF Least, Reach, NextStart
<1>6. SizeOf(jb, u, cut) \in 1..u
  BY <1>1, <1>5 DEF SizeOf
<1>7. NextStart(jb) \in Int
  BY <1>1 DEF NextStart
<1> QED BY <1>1, <1>3, <1>4, <1>5, <1>6, <1>7

(* Cursors are equal if they say the same.                                 *)
LEMMA CursorsEqual ==
  ASSUME NEW a, IsCursor(a), NEW b, IsCursor(b), a.jobStart = b.jobStart, a.done = b.done,
         a.firstChunkEnd = b.firstChunkEnd, a.gained = b.gained
  PROVE  a = b
<1>1. a.firstJob = b.firstJob /\ a.lastJob = b.lastJob /\ a.sizing = b.sizing
  BY DEF IsCursor, CursorSet
<1> QED BY <1>1 DEF IsCursor, CursorSet

(* A cursor whose job starts elsewhere.                                    *)
LEMMA RebaseIs ==
  ASSUME NEW jb, IsCursor(jb), NEW shift \in Int
  PROVE  /\ IsCursor(RebaseBlocks(jb, shift))
         /\ RebaseBlocks(jb, shift).jobStart = jb.jobStart - shift
         /\ RebaseBlocks(jb, shift).done = jb.done
         /\ RebaseBlocks(jb, shift).firstChunkEnd = jb.firstChunkEnd
         /\ RebaseBlocks(jb, shift).gained = jb.gained
         /\ NextStart(RebaseBlocks(jb, shift)) = NextStart(jb) - shift
<1> DEFINE r == RebaseBlocks(jb, shift)
           s == jb.jobStart - shift
<1>1. jb \in CursorSet /\ s \in Int /\ r = [jb EXCEPT !.jobStart = s]
  BY DEF RebaseBlocks, IsCursor, CursorSet
<1> HIDE DEF r, s
<1>2. /\ r \in CursorSet /\ r.jobStart = s /\ r.done = jb.done /\ r.gained = jb.gained
      /\ r.firstChunkEnd = jb.firstChunkEnd
      /\ r.firstJob = jb.firstJob /\ r.lastJob = jb.lastJob
  BY <1>1 DEF CursorSet
<1>3. IsCursor(r)
  BY <1>2 DEF IsCursor
<1>4. NextStart(r) = NextStart(jb) - shift
  BY <1>1, <1>2 DEF NextStart, CursorSet, s
<1> QED BY <1>2, <1>3, <1>4 DEF r, s

(* A cursor after a block.                                                 *)
LEMMA WroteIs ==
  ASSUME NEW jb, IsCursor(jb), NEW end \in Int, end >= jb.jobStart, NEW gain \in Int
  PROVE  /\ IsCursor(Wrote(jb, end, gain))
         /\ Wrote(jb, end, gain).jobStart = jb.jobStart
         /\ Wrote(jb, end, gain).done = end - jb.jobStart
         /\ Wrote(jb, end, gain).firstChunkEnd = jb.firstChunkEnd
         /\ Wrote(jb, end, gain).gained = jb.gained + gain
         /\ NextStart(Wrote(jb, end, gain)) = end
<1> DEFINE w == Wrote(jb, end, gain)
           d == end - jb.jobStart
           g == jb.gained + gain
<1>1. w = [jb EXCEPT !.done = d, !.gained = g]
  BY DEF Wrote
<1>2. jb \in CursorSet /\ d \in Nat /\ g \in Int
  BY DEF IsCursor, CursorSet
<1> HIDE DEF w, d, g
<1>3. /\ w \in CursorSet /\ w.jobStart = jb.jobStart /\ w.done = d /\ w.gained = g
      /\ w.firstChunkEnd = jb.firstChunkEnd
      /\ w.firstJob = jb.firstJob /\ w.lastJob = jb.lastJob
  BY <1>1, <1>2 DEF CursorSet
<1>4. IsCursor(w)
  BY <1>3 DEF IsCursor
<1>5. NextStart(w) = end
  BY <1>2, <1>3 DEF NextStart, CursorSet, d
<1> QED BY <1>3, <1>4, <1>5 DEF w, d, g

(* A cursor after an input.                                                *)
LEMMA InputEndedIs ==
  ASSUME NEW jb, IsCursor(jb), NEW input, input.end \in Nat
  PROVE  /\ IsCursor(InputEnded(jb, input))
         /\ InputEnded(jb, input).jobStart = jb.jobStart
         /\ InputEnded(jb, input).done = jb.done
         /\ NextStart(InputEnded(jb, input)) = NextStart(jb)
         /\ input.kind # "Chunk" => InputEnded(jb, input) = jb
<1>1. CASE input.kind # "Chunk"
  BY <1>1 DEF InputEnded
<1>2. CASE input.kind = "Chunk"
  <2> DEFINE c == Least(jb.firstChunkEnd, input.end - jb.jobStart)
             w == InputEnded(jb, input)
  <2>1. jb \in CursorSet /\ c \in Int
    BY DEF IsCursor, CursorSet, Least
  <2>2. w = [jb EXCEPT !.firstChunkEnd = c]
    BY <1>2 DEF InputEnded
  <2> HIDE DEF c, w
  <2>3. /\ w \in CursorSet /\ w.jobStart = jb.jobStart /\ w.done = jb.done
        /\ w.firstJob = jb.firstJob /\ w.lastJob = jb.lastJob
    BY <2>1, <2>2 DEF CursorSet
  <2>4. IsCursor(w)
    BY <2>3 DEF IsCursor
  <2>5. NextStart(w) = NextStart(jb)
    BY <2>3 DEF NextStart
  <2> QED BY <1>2, <2>3, <2>4, <2>5 DEF w
<1> QED BY <1>1, <1>2

(* The stream cuts the block the one-shot frame of n bytes is cut at: more *)
(* input than a block is left of both, or what is left is the same.        *)
LEMMA SameEnd ==
  ASSUME NEW jb, IsCursor(jb), NEW input, input.end \in Nat, HasReady(jb, input),
         jb.done <= MaxInput, NEW n \in 0..MaxInput, NEW cut,
         input.kind # "Open" => n = input.end - jb.jobStart,
         input.kind = "Open" => n >= input.end - jb.jobStart
  PROVE  LET r == RebaseBlocks(jb, jb.jobStart)
         IN  /\ IsCursor(r) /\ HasReady(r, WholeInput(n)) /\ NextStart(r) = jb.done
             /\ NextBlockEnd(r, WholeInput(n), cut)
                  = NextBlockEnd(jb, input, cut) - jb.jobStart
<1> DEFINE r == RebaseBlocks(jb, jb.jobStart)
           u == UnsplitSize(jb, NextStart(jb), input)
           v == UnsplitSize(r, NextStart(r), WholeInput(n))
<1>1. /\ jb.jobStart \in Int /\ jb.done \in Nat /\ BlockSizeMax \in Nat \ {0}
      /\ jb.sizing.blockSizeMax = BlockSizeMax /\ NoChunk \in Nat /\ MaxInput \in Nat
      /\ MaxInput < NoChunk /\ jb.firstJob = TRUE /\ jb.sizing.headerLen = HeaderLen
  BY StreamConstants DEF IsCursor, CursorSet, FrameSizing
<1>2. /\ IsCursor(r) /\ r.jobStart = 0 /\ r.done = jb.done /\ NextStart(r) = jb.done
      /\ r.firstChunkEnd = jb.firstChunkEnd /\ r.gained = jb.gained
      /\ r.firstJob = TRUE /\ r.sizing.headerLen = HeaderLen
  <2>1. /\ IsCursor(r) /\ r.jobStart = jb.jobStart - jb.jobStart /\ r.done = jb.done
        /\ r.firstChunkEnd = jb.firstChunkEnd /\ r.gained = jb.gained
        /\ NextStart(r) = NextStart(jb) - jb.jobStart
    BY <1>1, RebaseIs
  <2> HIDE DEF r
  <2>2. NextStart(r) = jb.done /\ r.jobStart = 0
    BY <1>1, <2>1 DEF NextStart
  <2> QED BY <2>1, <2>2 DEF IsCursor, CursorSet, FrameSizing
<1>3. NextStart(jb) = jb.jobStart + jb.done
  BY DEF NextStart
<1>4. IF input.kind = "Open" THEN input.end - NextStart(jb) > BlockSizeMax
      ELSE NextStart(jb) < input.end
  BY <1>1 DEF HasReady, Ready
<1>5. jb.done < n
  BY <1>1, <1>3, <1>4
<1> HIDE DEF r
<1>6. HasReady(r, WholeInput(n))
  BY <1>2, <1>5 DEF HasReady, Ready, WholeInput
<1>7. u = Least(Reach(jb, input) - jb.done, BlockSizeMax)
  BY UnsplitIs
<1>8. v = Least(Reach(r, WholeInput(n)) - jb.done, BlockSizeMax)
  BY <1>2, UnsplitIs
<1>9. Reach(r, WholeInput(n)) = n
  BY <1>1, <1>2 DEF Reach, WholeInput, Least
<1>10. u = v
  <2> HIDE DEF u, v
  <2>1. CASE input.kind = "Open"
    BY <1>1, <1>3, <1>4, <1>7, <1>8, <1>9, <2>1 DEF Reach, Least
  <2>2. CASE input.kind # "Open"
    <3>1. Reach(jb, input) = n
      BY <1>1, <2>2 DEF Reach, Least
    <3> QED BY <1>7, <1>8, <1>9, <3>1
  <2> QED BY <2>1, <2>2
<1>11. Savings(r, NextStart(r), r.gained) = Savings(jb, NextStart(jb), jb.gained)
  <2>1. NextStart(jb) - jb.jobStart = jb.done /\ NextStart(r) - r.jobStart = jb.done
    BY <1>1, <1>2, <1>3
  <2> QED BY <1>1, <1>2, <2>1 DEF Savings
<1>12. SizeOf(r, v, cut) = SizeOf(jb, u, cut)
  <2> HIDE DEF u, v
  <2> QED BY <1>10, <1>11 DEF SizeOf
<1>13. NextBlockEnd(jb, input, cut) = NextStart(jb) + SizeOf(jb, u, cut)
  BY NextEndIs
<1>14. NextBlockEnd(r, WholeInput(n), cut) = jb.done + SizeOf(jb, u, cut)
  BY <1>2, <1>12, NextEndIs
<1>15. SizeOf(jb, u, cut) \in Int
  <2>1. NextBlockEnd(jb, input, cut) \in Int
    BY NextEndBounds
  <2>2. u \in Int
    <3> HIDE DEF u
    <3>1. Reach(jb, input) \in Int
      BY <1>1 DEF Reach, Least
    <3> QED BY <1>1, <1>7, <3>1 DEF Least
  <2> HIDE DEF u
  <2> QED BY <2>2, SplitConstants DEF SizeOf
<1> HIDE DEF u
<1> QED BY <1>1, <1>2, <1>3, <1>6, <1>13, <1>14, <1>15 DEF r

-----------------------------------------------------------------------------
(* The frame.                                                              *)

(* The cursor of a new frame.                                              *)
LEMMA NewCursorIs ==
  /\ IsCursor(NoFrame.jb) /\ NoFrame.jb.jobStart = 0 /\ NoFrame.jb.done = 0
  /\ NoFrame.jb.firstChunkEnd = NoChunk /\ NoFrame.jb.gained = 0
<1> DEFINE jb == NewJobBlocks(FrameSizing, 0, TRUE, TRUE)
<1>1. NoFrame.jb = jb
  BY DEF NoFrame, FrameSizing
<1>2. FrameSizing.chunkSize = NoChunk /\ NoChunk \in Nat
  BY StreamConstants DEF FrameSizing
<1>3. /\ jb.jobStart = 0 /\ jb.done = 0 /\ jb.firstChunkEnd = NoChunk /\ jb.gained = 0
      /\ jb.firstJob = TRUE /\ jb.lastJob = TRUE
  BY <1>2 DEF NewJobBlocks
<1>4. jb \in CursorSet
  <2> DEFINE c == FrameSizing.chunkSize
  <2>1. c \in Int /\ 0 \in Int /\ 0 \in Nat /\ TRUE \in BOOLEAN /\ FrameSizing \in {FrameSizing}
    BY <1>2
  <2>2. jb = [sizing |-> FrameSizing, jobStart |-> 0, firstJob |-> TRUE, lastJob |-> TRUE,
              done |-> 0, firstChunkEnd |-> c, gained |-> 0]
    BY DEF NewJobBlocks
  <2> HIDE DEF c, jb
  <2> QED BY <2>1, <2>2 DEF CursorSet
<1> HIDE DEF jb
<1> QED BY <1>1, <1>3, <1>4 DEF IsCursor

(* No frame.                                                               *)
LEMMA NoFrameIs ==
  /\ IsFrame(NoFrame) /\ NoFrame.buf = <<>> /\ NoFrame.cap = 0 /\ NoFrame.content = 0
  /\ NoFrame.pledged = NoSize /\ NoFrame.consumed = 0 /\ ~NeedsHeader(NoFrame)
  /\ NoFrame.ldmEnd = NoSize
<1> DEFINE jb == NewJobBlocks([blockSizeMax |-> BlockSizeMax, split |-> TRUE,
                               chunkSize |-> NoChunk, headerLen |-> HeaderLen],
                              0, TRUE, TRUE)
<1>1. NoFrame = [jb |-> jb, buf |-> <<>>, cap |-> 0, content |-> 0, pledged |-> NoSize,
                 consumed |-> 0, header |-> FALSE, ldmEnd |-> NoSize]
  BY DEF NoFrame
<1> HIDE DEF jb
<1>2. /\ NoFrame.jb = jb /\ NoFrame.buf = <<>> /\ NoFrame.cap = 0 /\ NoFrame.content = 0
      /\ NoFrame.pledged = NoSize /\ NoFrame.consumed = 0 /\ NoFrame.ldmEnd = NoSize
      /\ NoFrame.header = FALSE
  BY <1>1
<1>3. jb \in CursorSet
  BY <1>2, NewCursorIs DEF IsCursor
<1>4. NoFrame \in FrameSet
  <2>1. <<>> \in Seq(Int) /\ NoSize \in Int /\ 0 \in Nat /\ FALSE \in BOOLEAN
    BY DEF NoSize
  <2> QED BY <1>1, <1>3, <2>1 DEF FrameSet
<1> QED BY <1>2, <1>4, NewCursorIs DEF IsFrame, NeedsHeader

(* A frame with another cursor.                                            *)
LEMMA WithCursor ==
  ASSUME NEW f, IsFrame(f), NEW jb, IsCursor(jb)
  PROVE  LET g == [f EXCEPT !.jb = jb]
         IN  /\ IsFrame(g) /\ g.jb = jb /\ g.buf = f.buf /\ g.cap = f.cap
             /\ g.content = f.content /\ g.pledged = f.pledged /\ g.consumed = f.consumed
             /\ NeedsHeader(g) <=> NeedsHeader(f)
<1> DEFINE g == [f EXCEPT !.jb = jb]
<1>1. f \in FrameSet /\ jb \in CursorSet
  BY DEF IsFrame, IsCursor
<1>2. /\ g \in FrameSet /\ g.jb = jb /\ g.buf = f.buf /\ g.cap = f.cap
      /\ g.content = f.content /\ g.pledged = f.pledged /\ g.consumed = f.consumed
      /\ g.header = f.header
  BY <1>1 DEF FrameSet
<1> HIDE DEF g
<1>3. IsFrame(g) /\ (NeedsHeader(g) <=> NeedsHeader(f))
  BY <1>2 DEF IsFrame, NeedsHeader
<1> QED BY <1>2, <1>3 DEF g

(* A frame whose header is written.                                        *)
LEMMA WithoutHeader ==
  ASSUME NEW f, IsFrame(f)
  PROVE  LET g == [f EXCEPT !.header = FALSE]
         IN  /\ IsFrame(g) /\ g.jb = f.jb /\ g.buf = f.buf /\ g.cap = f.cap
             /\ g.content = f.content /\ g.pledged = f.pledged /\ g.consumed = f.consumed
             /\ ~NeedsHeader(g)
<1> DEFINE g == [f EXCEPT !.header = FALSE]
<1>1. f \in FrameSet
  BY DEF IsFrame
<1>2. /\ g \in FrameSet /\ g.jb = f.jb /\ g.buf = f.buf /\ g.cap = f.cap
      /\ g.content = f.content /\ g.pledged = f.pledged /\ g.consumed = f.consumed
      /\ g.header = FALSE
  BY <1>1 DEF FrameSet
<1> HIDE DEF g
<1>3. IsFrame(g) /\ ~NeedsHeader(g)
  BY <1>2 DEF IsFrame, NeedsHeader
<1> QED BY <1>2, <1>3 DEF g

(* The names of n bytes.                                                   *)
LEMMA BytesIs ==
  ASSUME NEW from \in Int, NEW n \in Nat
  PROVE  /\ Bytes(from, n) \in Seq(Int) /\ Len(Bytes(from, n)) = n
         /\ \A i \in 1..n : Bytes(from, n)[i] = from + i
BY DEF Bytes

(* The names of a prefix.                                                  *)
LEMMA ContentIs ==
  ASSUME NEW len \in Nat
  PROVE  /\ Content(len) \in Seq(Int) /\ Len(Content(len)) = len
         /\ \A i \in 1..len : Content(len)[i] = i - len - 1
BY DEF Content

(* A new frame.                                                            *)
LEMMA BeginIs ==
  ASSUME NEW size \in Int, NEW len \in Nat, NEW ldm
  PROVE  LET f == Begin(size, len, ldm)
         IN  /\ IsFrame(f) /\ f.jb.jobStart = len /\ f.jb.done = 0
             /\ f.jb.firstChunkEnd = NoChunk /\ f.jb.gained = 0
             /\ f.buf = Content(len) /\ f.cap = len + 2 * (WindowSize + BlockSizeMax)
             /\ f.content = len /\ f.pledged = size /\ f.consumed = 0 /\ NeedsHeader(f)
<1> DEFINE f == Begin(size, len, ldm)
           e == IF ldm THEN len ELSE NoSize
           c == Content(len)
           p == len + 2 * (WindowSize + BlockSizeMax)
           j == [NoFrame.jb EXCEPT !.jobStart = len]
<1>1. /\ e \in Int /\ c \in Seq(Int) /\ p \in Nat /\ TRUE \in BOOLEAN
      /\ NoFrame \in FrameSet /\ NoFrame.jb \in CursorSet
  <2>1. p \in Nat /\ e \in Int
    BY StreamConstants DEF NoSize
  <2>2. c \in Seq(Int)
    BY ContentIs
  <2>3. NoFrame \in FrameSet /\ NoFrame.jb \in CursorSet
    BY NoFrameIs DEF IsFrame, IsCursor
  <2> QED BY <2>1, <2>2, <2>3
<1>2. f = [NoFrame EXCEPT !.jb = j, !.buf = c, !.cap = p, !.content = len, !.pledged = size,
                          !.header = TRUE, !.ldmEnd = e]
  <2>1. f = [NoFrame EXCEPT !.jb.jobStart = len, !.buf = c, !.cap = p, !.content = len,
                            !.pledged = size, !.header = TRUE, !.ldmEnd = e]
    BY DEF Begin
  <2> HIDE DEF f, c, p, e
  <2> QED BY <1>1, <2>1 DEF FrameSet
<1> HIDE DEF f, e, c, p
<1>3. /\ j \in CursorSet /\ j.jobStart = len /\ j.done = NoFrame.jb.done
      /\ j.firstChunkEnd = NoFrame.jb.firstChunkEnd /\ j.gained = NoFrame.jb.gained
      /\ j.firstJob = NoFrame.jb.firstJob /\ j.lastJob = NoFrame.jb.lastJob
  <2> DEFINE b == NoFrame.jb
  <2>1. b \in CursorSet /\ len \in Int /\ j = [b EXCEPT !.jobStart = len]
    BY <1>1
  <2> HIDE DEF b, j
  <2>2. /\ j \in CursorSet /\ j.jobStart = len /\ j.done = b.done
        /\ j.firstChunkEnd = b.firstChunkEnd /\ j.gained = b.gained
        /\ j.firstJob = b.firstJob /\ j.lastJob = b.lastJob
    BY <2>1 DEF CursorSet
  <2> QED BY <2>2 DEF b
<1> HIDE DEF j
<1>4. IsCursor(j)
  BY <1>3, NewCursorIs DEF IsCursor
<1>5. /\ f \in FrameSet /\ f.jb = j /\ f.buf = c /\ f.cap = p /\ f.content = len
      /\ f.pledged = size /\ f.consumed = NoFrame.consumed /\ f.header = TRUE
  BY <1>1, <1>2, <1>3 DEF FrameSet
<1>6. IsFrame(f) /\ NeedsHeader(f)
  BY <1>4, <1>5 DEF IsFrame, NeedsHeader
<1> QED BY <1>3, <1>5, <1>6, NewCursorIs, NoFrameIs DEF f, c, p

(* It holds its prefix.                                                    *)
LEMMA BeginBuffered ==
  ASSUME NEW size \in Int, NEW len \in Nat, NEW ldm
  PROVE  Buffered(Begin(size, len, ldm))
<1> DEFINE f == Begin(size, len, ldm)
<1>1. /\ f.jb.jobStart = len /\ f.jb.done = 0 /\ f.consumed = 0 /\ f.content = len
      /\ f.buf = Content(len) /\ f.cap = len + 2 * (WindowSize + BlockSizeMax)
  BY BeginIs
<1> HIDE DEF f
<1> QED BY <1>1, ContentIs DEF Buffered, ByteOf, f

(* What a slice of a buffer holds.                                         *)
LEMMA SliceIs ==
  ASSUME NEW s \in Seq(Int), NEW a \in Nat, NEW e \in Int, a <= e, e <= Len(s)
  PROVE  /\ SubSeq(s, a + 1, e) \in Seq(Int) /\ Len(SubSeq(s, a + 1, e)) = e - a
         /\ \A i \in 1..(e - a) : SubSeq(s, a + 1, e)[i] = s[a + i]
OBVIOUS

(* What a concatenation holds.                                             *)
LEMMA JoinIs ==
  ASSUME NEW s \in Seq(Int), NEW t \in Seq(Int)
  PROVE  /\ s \o t \in Seq(Int) /\ Len(s \o t) = Len(s) + Len(t)
         /\ \A i \in 1..Len(s) : (s \o t)[i] = s[i]
         /\ \A i \in 1..Len(t) : (s \o t)[Len(s) + i] = t[i]
OBVIOUS

\* A buffer that starts a bytes before the frame's input, of which k are
\* kept as content.
Holds(buf, k, a) == \A i \in 1..Len(buf) : buf[i] = ByteOf(k, i + k - a)

(* The bytes that follow are held too: accepting input only appends.       *)
LEMMA HoldsInputToo ==
  ASSUME NEW s \in Seq(Int), NEW k \in Nat, NEW a \in Int, NEW c \in Nat, NEW n \in Nat,
         Len(s) = a + c, a <= k, Holds(s, k, a)
  PROVE  /\ s \o Bytes(c, n) \in Seq(Int) /\ Len(s \o Bytes(c, n)) = Len(s) + n
         /\ Holds(s \o Bytes(c, n), k, a)
<1> DEFINE b == Bytes(c, n)
           t == s \o b
           L == Len(s)
<1>1. b \in Seq(Int) /\ Len(b) = n /\ \A i \in 1..n : b[i] = c + i
  <2>1. c \in Int
    OBVIOUS
  <2> QED BY <2>1, BytesIs, Zenon
<1> HIDE DEF b
<1>2. /\ t \in Seq(Int) /\ Len(t) = Len(s) + n /\ L \in Nat
      /\ \A i \in 1..Len(s) : t[i] = s[i]
      /\ \A i \in 1..n : t[Len(s) + i] = b[i]
  <2>1. /\ t \in Seq(Int) /\ Len(t) = Len(s) + Len(b)
        /\ \A i \in 1..Len(s) : t[i] = s[i]
        /\ \A i \in 1..Len(b) : t[Len(s) + i] = b[i]
    BY <1>1, JoinIs, Zenon
  <2> QED BY <1>1, <2>1
<1> HIDE DEF t
<1>3. ASSUME NEW i \in 1..(L + n)
      PROVE  t[i] = ByteOf(k, i + k - a)
  <2>1. CASE i <= L
    BY <1>2, <2>1 DEF Holds
  <2>2. CASE i > L
    <3> DEFINE j == i - L
    <3>1. j \in 1..n /\ i = L + j
      BY <1>2, <2>2
    <3>2. t[L + j] = c + j
      <4> HIDE DEF j
      <4> QED BY <1>1, <1>2, <3>1
    <3> HIDE DEF j, L
    <3>3. i = a + c + j
      BY <3>1 DEF L
    <3> QED BY <3>1, <3>2, <3>3 DEF ByteOf
  <2> QED BY <1>2, <2>1, <2>2
<1>4. Holds(t, k, a)
  BY <1>2, <1>3 DEF Holds
<1> QED BY <1>2, <1>4 DEF t, b

(* Input that follows is buffered as it comes.                             *)
LEMMA BufferedInput ==
  ASSUME NEW f, IsFrame(f), Buffered(f), NEW take \in Nat, NEW g,
         g.buf = f.buf \o Bytes(f.consumed, take), g.consumed = f.consumed + take,
         g.jb = f.jb, g.cap = f.cap, g.content = f.content
  PROVE  Buffered(g) /\ Len(g.buf) = Len(f.buf) + take /\ g.buf \in Seq(Int)
<1>1. /\ f.buf \in Seq(Int) /\ f.consumed \in Nat /\ f.content \in Nat /\ f.cap \in Nat
      /\ f.jb.jobStart \in Int /\ f.jb.done \in Nat
  BY DEF IsFrame, FrameSet, CursorSet
<1>2. /\ Len(f.buf) = f.jb.jobStart + f.consumed /\ f.jb.jobStart <= f.content
      /\ f.jb.done <= f.consumed /\ Holds(f.buf, f.content, f.jb.jobStart)
      /\ f.cap = f.content + 2 * (WindowSize + BlockSizeMax)
      /\ \/ f.jb.jobStart = f.content
         \/ NextStart(f.jb) >= WindowSize /\ f.jb.done > WindowSize
  BY DEF Buffered, Holds
<1>3. /\ g.buf \in Seq(Int) /\ Len(g.buf) = Len(f.buf) + take
      /\ Holds(g.buf, f.content, f.jb.jobStart)
  <2> DEFINE s == f.buf
             k == f.content
             a == f.jb.jobStart
             c == f.consumed
  <2>1. /\ s \in Seq(Int) /\ k \in Nat /\ a \in Int /\ c \in Nat /\ Len(s) = a + c
        /\ a <= k /\ Holds(s, k, a) /\ g.buf = s \o Bytes(c, take)
    BY <1>1, <1>2
  <2> HIDE DEF s, k, a, c
  <2> DEFINE t == s \o Bytes(c, take)
  <2>2. t \in Seq(Int) /\ Len(t) = Len(s) + take /\ Holds(t, k, a)
    BY <2>1, HoldsInputToo, Zenon
  <2> HIDE DEF t
  <2>3. g.buf = t
    BY <2>1 DEF t
  <2> QED BY <2>2, <2>3 DEF s, k, a
<1>4. Len(g.buf) = f.jb.jobStart + (f.consumed + take)
  BY <1>1, <1>2, <1>3
<1>5. f.jb.done <= f.consumed + take
  BY <1>1, <1>2
<1> QED BY <1>2, <1>3, <1>4, <1>5 DEF Buffered, Holds

(* The end of a sequence, after its first m elements.                      *)
LEMMA TailIs ==
  ASSUME NEW s \in Seq(Int), NEW m \in Nat, m <= Len(s)
  PROVE  /\ SubSeq(s, m + 1, Len(s)) \in Seq(Int)
         /\ Len(SubSeq(s, m + 1, Len(s))) = Len(s) - m
         /\ \A i \in 1..(Len(s) - m) : SubSeq(s, m + 1, Len(s))[i] = s[i + m]
OBVIOUS

(* Dropping the buffer's first bytes drops the oldest.                     *)
LEMMA HoldsTail ==
  ASSUME NEW s \in Seq(Int), NEW k \in Nat, NEW a \in Int, NEW m \in Nat, m <= Len(s),
         Holds(s, k, a)
  PROVE  Holds(SubSeq(s, m + 1, Len(s)), k, a - m)
<1> DEFINE t == SubSeq(s, m + 1, Len(s))
<1>1. /\ t \in Seq(Int) /\ Len(t) = Len(s) - m /\ Len(s) \in Nat
      /\ \A i \in 1..(Len(s) - m) : t[i] = s[i + m]
  BY TailIs
<1> HIDE DEF t
<1>2. ASSUME NEW i \in 1..Len(t)
      PROVE  t[i] = ByteOf(k, i + k - (a - m))
  <2>1. i + m \in 1..Len(s) /\ i \in 1..(Len(s) - m)
    BY <1>1
  <2>2. t[i] = ByteOf(k, (i + m) + k - a)
    BY <1>1, <2>1 DEF Holds
  <2>3. (i + m) + k - a = i + k - (a - m)
    BY <2>1
  <2> QED BY <2>2, <2>3
<1> QED BY <1>2 DEF Holds, t

\* What a block cursor has come to, wherever the buffer lies.
SameCursor(a, b) == a.done = b.done /\ a.firstChunkEnd = b.firstChunkEnd /\ a.gained = b.gained

\* The same frame, but for where its buffer lies.
SameFrame(m, f) ==
    /\ m.cap = f.cap /\ m.content = f.content /\ m.pledged = f.pledged
    /\ m.consumed = f.consumed /\ (NeedsHeader(m) <=> NeedsHeader(f))
    /\ SameCursor(m.jb, f.jb)

(* What a move leaves, in numbers: a job that starts at J and is done up   *)
(* to D, of C bytes consumed, in a full buffer of L bytes.                 *)
LEMMA MoveBounds ==
  ASSUME NEW J \in Int, NEW D \in Nat, NEW K \in Nat, NEW C \in Nat, NEW L \in Nat,
         NEW W \in Nat \ {0}, NEW B \in 1..W, L = J + C, J <= K, D <= C,
         L = K + 2 * (W + B), L - (J + D) <= B
  PROVE  /\ J + D - W \in Nat /\ J + D - W <= L /\ D > W
         /\ J - (J + D - W) + D = W /\ J - (J + D - W) <= K
         /\ L - (J + D - W) = J - (J + D - W) + C
         /\ L - (J + D - W) - W = L - (J + D)
OBVIOUS

(* Moving a full buffer: a window and what waits after it remain.          *)
LEMMA MovedIs ==
  ASSUME NEW f, IsFrame(f), Buffered(f), Len(f.buf) <= f.cap,
         Len(f.buf) - NextStart(f.jb) <= BlockSizeMax
  PROVE  LET m == Moved(f)
         IN  /\ IsFrame(m) /\ Buffered(m) /\ SameFrame(m, f) /\ Len(m.buf) <= m.cap
             /\ Len(m.buf) - NextStart(m.jb) = Len(f.buf) - NextStart(f.jb)
<1>1. CASE Len(f.buf) # f.cap
  BY <1>1 DEF Moved, SameFrame, SameCursor
<1>2. CASE Len(f.buf) = f.cap
  <2> DEFINE m  == Moved(f)
             sh == Shift(f)
             b  == SubSeq(f.buf, sh + 1, Len(f.buf))
             j  == RebaseBlocks(f.jb, sh)
             e  == IF f.ldmEnd = NoSize THEN f.ldmEnd ELSE f.ldmEnd - sh
             s  == f.buf
             L  == Len(s)
             J  == f.jb.jobStart
             D  == f.jb.done
             K  == f.content
             C  == f.consumed
  <2>1. /\ f \in FrameSet /\ s \in Seq(Int) /\ L \in Nat
        /\ J \in Int /\ D \in Nat /\ K \in Nat /\ C \in Nat /\ f.ldmEnd \in Int
        /\ IsCursor(f.jb) /\ WindowSize \in Nat \ {0} /\ BlockSizeMax \in 1..WindowSize
    BY StreamConstants DEF IsFrame, FrameSet, CursorSet
  <2>2. /\ L = J + C /\ J <= K /\ D <= C /\ Holds(s, K, J) /\ f.cap = L
        /\ L = K + 2 * (WindowSize + BlockSizeMax)
    BY <1>2 DEF Buffered, Holds
  <2>3. NextStart(f.jb) = J + D
    BY DEF NextStart
  <2>4. m = [f EXCEPT !.buf = b, !.jb = j, !.ldmEnd = e]
    BY <1>2 DEF Moved
  <2>5. sh = NextStart(f.jb) - WindowSize
    BY DEF Shift
  <2>6. L - (J + D) <= BlockSizeMax
    BY <2>3
  <2> HIDE DEF m, sh, L, J, D, K, C, s
  <2>7. /\ sh \in Nat /\ sh <= L /\ D > WindowSize
        /\ J - sh + D = WindowSize /\ J - sh <= K
        /\ L - sh = J - sh + C /\ L - sh - WindowSize = L - (J + D)
    BY <2>1, <2>2, <2>3, <2>5, <2>6, MoveBounds
  <2>8. b \in Seq(Int) /\ Len(b) = L - sh /\ Holds(b, K, J - sh)
    <3>1. sh <= Len(s)
      BY <2>7 DEF L
    <3> DEFINE t == SubSeq(s, sh + 1, Len(s))
    <3>2. t \in Seq(Int) /\ Len(t) = Len(s) - sh
      BY <2>1, <2>7, <3>1, TailIs, Zenon
    <3>3. Holds(t, K, J - sh)
      BY <2>1, <2>2, <2>7, <3>1, HoldsTail, Zenon
    <3> QED BY <3>2, <3>3 DEF s, L
  <2>9. /\ IsCursor(j) /\ j.jobStart = J - sh /\ j.done = D
        /\ j.firstChunkEnd = f.jb.firstChunkEnd /\ j.gained = f.jb.gained
        /\ NextStart(j) = (J + D) - sh
    <3>1. sh \in Int
      BY <2>7
    <3> QED BY <2>1, <2>3, <3>1, RebaseIs DEF J, D
  <2>10. e \in Int
    BY <2>1, <2>7
  <2> HIDE DEF b, j, e
  <2>11. /\ m \in FrameSet /\ m.jb = j /\ m.buf = b /\ m.cap = f.cap
         /\ m.content = f.content /\ m.pledged = f.pledged /\ m.consumed = f.consumed
         /\ m.header = f.header
    BY <2>1, <2>4, <2>8, <2>9, <2>10 DEF FrameSet, IsCursor
  <2>12. IsFrame(m) /\ SameFrame(m, f)
    BY <2>9, <2>11 DEF IsFrame, SameFrame, SameCursor, NeedsHeader, D
  <2>13. NextStart(j) = WindowSize /\ Len(b) <= L
    <3> DEFINE ns == NextStart(j)
               lb == Len(b)
    <3>1. ns = (J + D) - sh /\ lb = L - sh
      BY <2>8, <2>9
    <3> HIDE DEF ns, lb
    <3>2. ns = WindowSize
      BY <2>1, <2>7, <3>1
    <3>3. lb <= L
      BY <2>1, <2>7, <3>1
    <3> QED BY <3>2, <3>3 DEF ns, lb
  <2>14. Len(b) = j.jobStart + C /\ Len(b) - NextStart(j) = L - (J + D)
    BY <2>7, <2>8, <2>9, <2>13
  <2>15. Buffered(m)
    <3>1. /\ j.jobStart <= K /\ j.done <= C /\ j.done > WindowSize
          /\ Holds(b, K, j.jobStart) /\ NextStart(j) >= WindowSize
      BY <2>1, <2>2, <2>7, <2>8, <2>9, <2>13
    <3>2. f.cap = K + 2 * (WindowSize + BlockSizeMax)
      BY <2>2
    <3> QED BY <2>11, <2>14, <3>1, <3>2 DEF Buffered, Holds, K, C
  <2>16. Len(m.buf) <= m.cap /\ Len(m.buf) - NextStart(m.jb) = Len(f.buf) - NextStart(f.jb)
    BY <2>2, <2>3, <2>11, <2>13, <2>14 DEF L, s
  <2> QED BY <2>12, <2>15, <2>16 DEF m
<1> QED BY <1>1, <1>2

(* Accepting input: as much as fits follows what is buffered.              *)
LEMMA AcceptIs ==
  ASSUME NEW f, IsFrame(f), Buffered(f), Len(f.buf) <= f.cap,
         Len(f.buf) - NextStart(f.jb) <= BlockSizeMax, NEW n \in Nat
  PROVE  LET g == Accept(f, n)
         IN  /\ Accepted(f, n) \in 0..n
             /\ IsFrame(g) /\ Buffered(g) /\ Len(g.buf) <= g.cap
             /\ g.cap = f.cap /\ g.content = f.content /\ g.pledged = f.pledged
             /\ g.consumed = f.consumed + Accepted(f, n)
             /\ NeedsHeader(g) <=> NeedsHeader(f)
             /\ SameCursor(g.jb, f.jb)
             /\ Len(g.buf) - NextStart(g.jb) = Len(f.buf) - NextStart(f.jb) + Accepted(f, n)
<1> DEFINE m == Moved(f)
           a == Accepted(f, n)
           g == Accept(f, n)
           b == m.buf \o Bytes(f.consumed, a)
           c == m.consumed + a
<1>1. /\ IsFrame(m) /\ Buffered(m) /\ SameFrame(m, f) /\ Len(m.buf) <= m.cap
      /\ Len(m.buf) - NextStart(m.jb) = Len(f.buf) - NextStart(f.jb)
  BY MovedIs
<1>2. g = [m EXCEPT !.buf = b, !.consumed = c]
  BY DEF Accept
<1>3. a = Least(n, f.cap - Len(m.buf))
  BY DEF Accepted
<1> HIDE DEF m, a, g
<1>4. /\ m \in FrameSet /\ m.buf \in Seq(Int) /\ Len(m.buf) \in Nat /\ m.cap \in Nat
      /\ m.consumed \in Nat /\ m.consumed = f.consumed /\ m.cap = f.cap /\ IsCursor(m.jb)
  BY <1>1 DEF IsFrame, FrameSet, SameFrame
<1>5. a \in 0..n /\ Len(m.buf) + a <= m.cap
  BY <1>1, <1>3, <1>4 DEF Least
<1>6. b \in Seq(Int)
  <2> DEFINE s == m.buf
             y == Bytes(f.consumed, a)
  <2>1. y \in Seq(Int)
    <3>1. f.consumed \in Int /\ a \in Nat
      BY <1>4, <1>5
    <3> QED BY <3>1, BytesIs, Zenon
  <2>2. s \in Seq(Int)
    BY <1>4
  <2> HIDE DEF s, y
  <2>3. s \o y \in Seq(Int)
    BY <2>1, <2>2
  <2> QED BY <2>3 DEF s, y
<1>7. c \in Nat
  BY <1>4, <1>5
<1> HIDE DEF b, c
<1>8. /\ g \in FrameSet /\ g.jb = m.jb /\ g.buf = b /\ g.cap = m.cap
      /\ g.content = m.content /\ g.pledged = m.pledged /\ g.consumed = c
      /\ g.header = m.header
  BY <1>2, <1>4, <1>6, <1>7 DEF FrameSet
<1>9. IsFrame(g) /\ (NeedsHeader(g) <=> NeedsHeader(m))
  BY <1>4, <1>8 DEF IsFrame, NeedsHeader
<1>10. Buffered(g) /\ Len(g.buf) = Len(m.buf) + a
  <2>1. b = m.buf \o Bytes(m.consumed, a) /\ c = m.consumed + a /\ a \in Nat
    BY <1>4, <1>5 DEF b, c
  <2> QED BY <1>1, <1>8, <2>1, BufferedInput
<1>11. NextStart(m.jb) \in Int /\ NextStart(f.jb) \in Int /\ Len(f.buf) \in Nat
  <2>1. IsCursor(f.jb) /\ f.buf \in Seq(Int)
    BY DEF IsFrame, FrameSet
  <2>2. Len(f.buf) \in Nat
    BY <2>1
  <2>3. \A j : IsCursor(j) => NextStart(j) \in Int
    BY DEF IsCursor, CursorSet, NextStart
  <2> QED BY <1>4, <2>1, <2>2, <2>3, Zenon
<1>12. Len(g.buf) - NextStart(g.jb) = Len(f.buf) - NextStart(f.jb) + a
  BY <1>1, <1>4, <1>5, <1>8, <1>10, <1>11
<1> QED BY <1>1, <1>4, <1>5, <1>8, <1>9, <1>10, <1>12 DEF SameFrame, a, g, c

-----------------------------------------------------------------------------
(* The history is kept.                                                    *)

Core == TypeInv /\ CallInv /\ BufferInv

(* The items of a frame.                                                   *)
LEMMA HeaderIs ==
  ASSUME NEW size \in Int
  PROVE  /\ Header(size) \in ItemSet /\ Header(size).item = "header"
         /\ Header(size).size = size /\ Header(size).bytes = <<>>
<1>1. <<>> \in Seq(Int) /\ FALSE \in BOOLEAN
  OBVIOUS
<1> QED BY <1>1 DEF Header, ItemSet

(* A block codes bytes, and may be the last.                               *)
LEMMA BlockIs ==
  ASSUME NEW bytes \in Seq(Int), NEW last \in BOOLEAN
  PROVE  /\ Block(bytes, last) \in ItemSet /\ Block(bytes, last).item = "block"
         /\ Block(bytes, last).bytes = bytes /\ Marked(Block(bytes, last)) <=> last
<1>1. NoSize \in Int
  BY DEF NoSize
<1>2. /\ Block(bytes, last) \in ItemSet /\ Block(bytes, last).item = "block"
      /\ Block(bytes, last).bytes = bytes /\ Block(bytes, last).last = last
  BY <1>1 DEF Block, ItemSet
<1> QED BY <1>2 DEF Marked

(* The same, of an item that is one.                                       *)
LEMMA IsBlock ==
  ASSUME NEW bytes, bytes \in Seq(Int), NEW last, last \in BOOLEAN, NEW k,
         k = Block(bytes, last)
  PROVE  k \in ItemSet /\ k.item = "block" /\ k.bytes = bytes /\ (Marked(k) <=> last)
<1>1. NoSize \in Int
  BY DEF NoSize
<1>2. k \in ItemSet /\ k.item = "block" /\ k.bytes = bytes /\ k.last = last
  BY <1>1 DEF Block, ItemSet
<1> QED BY <1>2 DEF Marked

(* The epilogue codes none.                                                *)
LEMMA EpilogueIs ==
  /\ Epilogue \in ItemSet /\ Epilogue.item = "epilogue" /\ Epilogue.bytes = <<>>
<1>1. <<>> \in Seq(Int) /\ FALSE \in BOOLEAN /\ NoSize \in Int
  BY DEF NoSize
<1> QED BY <1>1 DEF Epilogue, ItemSet

(* What a session holds first.                                             *)
LEMMA CoreInit == Init => Core
<1> SUFFICES ASSUME Init PROVE Core
  OBVIOUS
<1>1. /\ stage = "Idle" /\ pledged = NoSize /\ out = <<>> /\ prefix = 0 /\ fr = NoFrame
      /\ call = NoCall /\ ret = NoReturn /\ sent = <<>> /\ flushed = FALSE
  BY DEF Init
<1>2. call \in CallSet /\ call.pc = "idle" /\ call.src = 0 /\ call.input.kind = "None"
  BY <1>1 DEF NoCall, NoInput, CallSet, InputSet, Directives
<1>3. ret \in ReturnSet
  BY <1>1 DEF NoReturn, ReturnSet, Directives, Errors
<1>4. TypeInv
  <2>1. pledged \in Int /\ prefix \in Nat
    BY <1>1 DEF NoSize
  <2>2. out \in Seq(ItemSet) /\ sent \in Seq(ItemSet)
    BY <1>1
  <2>3. flushed \in BOOLEAN /\ IsFrame(fr) /\ stage \in {"Idle", "Frame", "Ended", "Failed"}
    BY <1>1, NoFrameIs
  <2> QED BY <1>2, <1>3, <2>1, <2>2, <2>3 DEF TypeInv
<1>5. CallInv
  <2>1. fr.consumed + call.src <= MaxInput
    BY <1>1, <1>2, NoFrameIs, StreamConstants
  <2> QED BY <1>1, <1>2, <2>1 DEF CallInv
<1>6. BufferInv
  BY <1>1 DEF BufferInv
<1> QED BY <1>4, <1>5, <1>6 DEF Core

(* A call begins.                                                          *)
LEMMA CallCore ==
  ASSUME Core, NEW n \in SrcLens, NEW room \in Rooms, NEW op \in Directives,
         Call(n, room, op)
  PROVE  Core'
<1>1. n \in Nat /\ room \in Nat
  BY StreamConstants
<1>2. /\ call' = [NoCall EXCEPT !.pc = "flush", !.src = n, !.room = room, !.op = op]
      /\ stage' = stage /\ pledged' = pledged /\ out' = out /\ prefix' = prefix
      /\ fr' = fr /\ ret' = ret /\ sent' = sent /\ flushed' = flushed
      /\ fr.consumed + n <= MaxInput /\ call.pc = "idle"
  BY DEF Call
<1>3. /\ call' \in CallSet /\ call'.pc = "flush" /\ call'.src = n
      /\ call'.input.kind = "None"
  BY <1>1, <1>2 DEF NoCall, NoInput, CallSet, InputSet, Directives
<1>4. TypeInv'
  BY <1>2, <1>3 DEF Core, TypeInv
<1>5. CallInv'
  BY <1>2, <1>3 DEF Core, CallInv
<1>6. BufferInv'
  BY <1>2, <1>3 DEF Core, CallInv, BufferInv
<1> QED BY <1>4, <1>5, <1>6 DEF Core

(* What leaves no frame leaves nothing of it.                              *)
LEMMA NoFrameCore ==
  ASSUME stage' \in {"Idle", "Failed"}, fr' = NoFrame,
         call' \in CallSet, call'.pc = "idle" => call'.src = 0,
         call'.pc = "match" => out' = <<>>, call'.pc # "blocks",
         call'.input.kind # "JobEnd", call'.src <= MaxInput
  PROVE  CallInv' /\ BufferInv' /\ IsFrame(fr)'
<1>1. fr'.consumed = 0 /\ IsFrame(fr')
  BY NoFrameIs
<1>2. call'.src \in Nat
  BY DEF CallSet
<1>3. fr'.consumed + call'.src <= MaxInput
  BY <1>1, <1>2, StreamConstants
<1>4. CallInv'
  BY <1>3 DEF CallInv
<1>5. BufferInv'
  BY DEF BufferInv
<1> QED BY <1>1, <1>4, <1>5

(* The session is reset.                                                   *)
LEMMA ResetCore ==
  ASSUME Core, ResetStream
  PROVE  Core'
<1>1. /\ stage' = "Idle" /\ pledged' = NoSize /\ out' = <<>> /\ fr' = NoFrame
      /\ sent' = <<>> /\ flushed' = FALSE /\ ret' = NoReturn /\ prefix' = prefix
      /\ call' = call /\ call.pc = "idle"
  BY DEF ResetStream
<1>2. /\ call' \in CallSet /\ call'.src = 0 /\ call'.pc = "idle"
      /\ call'.input.kind # "JobEnd"
  BY <1>1 DEF Core, TypeInv, CallInv
<1>3. CallInv' /\ BufferInv' /\ IsFrame(fr)'
  <2>1. call'.src <= MaxInput
    BY <1>2, StreamConstants
  <2> QED BY <1>1, <1>2, <2>1, NoFrameCore
<1>4. TypeInv'
  <2>1. ret' \in ReturnSet
    BY <1>1 DEF NoReturn, ReturnSet, Directives, Errors
  <2>2. pledged' \in Int /\ prefix' \in Nat
    BY <1>1 DEF NoSize, Core, TypeInv
  <2>3. out' \in Seq(ItemSet) /\ sent' \in Seq(ItemSet)
    BY <1>1
  <2>4. flushed' \in BOOLEAN
    BY <1>1
  <2> QED BY <1>1, <1>2, <1>3, <2>1, <2>2, <2>3, <2>4 DEF TypeInv
<1> QED BY <1>3, <1>4 DEF Core

(* A call fails.                                                           *)
LEMMA FailCore ==
  ASSUME Core, NEW error \in Errors, Fail(error)
  PROVE  Core'
<1>1. /\ stage' = "Failed" /\ pledged' = pledged /\ out' = out /\ fr' = NoFrame
      /\ sent' = sent /\ flushed' = flushed /\ prefix' = prefix /\ call' = NoCall
      /\ ret' = [op |-> call.op, err |-> error, left |-> 0, src |-> call.src]
  BY DEF Fail
<1>2. /\ call' \in CallSet /\ call'.src = 0 /\ call'.pc = "idle"
      /\ call'.input.kind = "None"
  BY <1>1 DEF NoCall, NoInput, CallSet, InputSet, Directives
<1>3. CallInv' /\ BufferInv' /\ IsFrame(fr)'
  <2>1. call'.src <= MaxInput
    BY <1>2, StreamConstants
  <2> QED BY <1>1, <1>2, <2>1, NoFrameCore
<1>4. ret' \in ReturnSet
  BY <1>1 DEF ReturnSet, CallSet, Core, TypeInv
<1>5. TypeInv'
  BY <1>1, <1>2, <1>3, <1>4 DEF Core, TypeInv
<1> QED BY <1>3, <1>5 DEF Core

(* The same of a sequence of items.                                        *)
LEMMA JoinItemsIs ==
  ASSUME NEW s \in Seq(ItemSet), NEW t \in Seq(ItemSet)
  PROVE  /\ s \o t \in Seq(ItemSet) /\ Len(s \o t) = Len(s) + Len(t)
         /\ \A i \in 1..Len(s) : (s \o t)[i] = s[i]
         /\ \A i \in 1..Len(t) : (s \o t)[Len(s) + i] = t[i]
OBVIOUS

(* Output that goes to the caller is no longer pending, and in its place.  *)
LEMMA FlushedIs ==
  ASSUME NEW s \in Seq(ItemSet), NEW o \in Seq(ItemSet), NEW n \in 0..Len(o)
  PROVE  /\ s \o SubSeq(o, 1, n) \in Seq(ItemSet)
         /\ SubSeq(o, n + 1, Len(o)) \in Seq(ItemSet)
         /\ (s \o SubSeq(o, 1, n)) \o SubSeq(o, n + 1, Len(o)) = s \o o
<1>1. SubSeq(o, 1, n) \in Seq(ItemSet) /\ SubSeq(o, n + 1, Len(o)) \in Seq(ItemSet)
  OBVIOUS
<1> DEFINE a == SubSeq(o, 1, n)
           b == SubSeq(o, n + 1, Len(o))
<1>2. /\ a \in Seq(ItemSet) /\ Len(a) = n /\ \A i \in 1..n : a[i] = o[i]
      /\ b \in Seq(ItemSet) /\ Len(b) = Len(o) - n /\ \A i \in 1..(Len(o) - n) : b[i] = o[n + i]
      /\ Len(o) \in Nat
  OBVIOUS
<1> HIDE DEF a, b
<1>3. s \o a \in Seq(ItemSet)
  BY <1>2
<1>4. (s \o a) \o b = s \o o
  <2> DEFINE v == s \o a
             x == v \o b
             y == s \o o
             S == Len(s)
             O == Len(o)
  <2>1. /\ v \in Seq(ItemSet) /\ Len(v) = S + n
        /\ \A i \in 1..S : v[i] = s[i]
        /\ \A i \in 1..n : v[S + i] = a[i]
    <3>1. /\ v \in Seq(ItemSet) /\ Len(v) = Len(s) + Len(a)
          /\ \A i \in 1..Len(s) : v[i] = s[i]
          /\ \A i \in 1..Len(a) : v[Len(s) + i] = a[i]
      BY <1>2, JoinItemsIs, Zenon
    <3> QED BY <1>2, <3>1
  <2> HIDE DEF v
  <2>2. /\ x \in Seq(ItemSet) /\ Len(x) = (S + n) + (O - n)
        /\ \A i \in 1..(S + n) : x[i] = v[i]
        /\ \A i \in 1..(O - n) : x[S + n + i] = b[i]
    <3>1. /\ x \in Seq(ItemSet) /\ Len(x) = Len(v) + Len(b)
          /\ \A i \in 1..Len(v) : x[i] = v[i]
          /\ \A i \in 1..Len(b) : x[Len(v) + i] = b[i]
      BY <1>2, <2>1, JoinItemsIs, Zenon
    <3> HIDE DEF x
    <3> QED BY <1>2, <2>1, <3>1
  <2>3. /\ y \in Seq(ItemSet) /\ Len(y) = S + O
        /\ \A i \in 1..S : y[i] = s[i]
        /\ \A i \in 1..O : y[S + i] = o[i]
    BY JoinItemsIs, Zenon
  <2>4. S \in Nat /\ O \in Nat /\ n \in 0..O
    OBVIOUS
  <2>5. /\ \A i \in 1..n : a[i] = o[i] 
        /\ \A i \in 1..(O - n) : b[i] = o[n + i]
    BY <1>2
  <2> HIDE DEF x, y, S, O
  <2>6. ASSUME NEW i \in 1..(S + O)
        PROVE  x[i] = y[i]
    <3>1. CASE i <= S
      BY <2>1, <2>2, <2>3, <2>4, <3>1
    <3>2. CASE i > S /\ i <= S + n
      <4> DEFINE k == i - S
      <4>1. k \in 1..n /\ k \in 1..O /\ i = S + k /\ i \in 1..(S + n)
        BY <2>4, <3>2
      <4> HIDE DEF k
      <4> QED BY <2>1, <2>2, <2>3, <2>5, <4>1
    <3>3. CASE i > S + n
      <4> DEFINE k == i - S - n
      <4>1. k \in 1..(O - n) /\ n + k \in 1..O /\ i = S + n + k /\ i = S + (n + k)
        BY <2>4, <3>3
      <4> HIDE DEF k
      <4>2. x[i] = o[n + k]
        BY <2>2, <2>5, <4>1
      <4>3. y[i] = o[n + k]
        BY <2>3, <4>1
      <4> QED BY <4>2, <4>3
    <3> QED BY <2>4, <3>1, <3>2, <3>3
  <2>7. Len(x) = S + O
    BY <2>2, <2>4
  <2>8. x = y
    BY <2>2, <2>3, <2>6, <2>7
  <2> QED BY <2>8 DEF x, y, v
<1> QED BY <1>1, <1>3, <1>4 DEF a, b

(* What a call says is left is a number.                                   *)
LEMMA LeftIs ==
  ASSUME Core, NEW pending \in Nat, NEW src \in Nat
  PROVE  Left(pending, src) \in Nat
<1>1. fr.buf \in Seq(Int) /\ NextStart(fr.jb) \in Int /\ BlockSizeMax \in Nat
  BY StreamConstants DEF Core, TypeInv, IsFrame, FrameSet, CursorSet, NextStart
<1> DEFINE held == Len(fr.buf) - NextStart(fr.jb)
<1>2. held \in Int
  BY <1>1
<1>3. InputHint(fr) \in Nat
  <2>1. InputHint(fr) = IF BlockSizeMax + 1 > held THEN BlockSizeMax + 1 - held ELSE 1
    BY DEF InputHint
  <2> HIDE DEF held
  <2> QED BY <1>1, <1>2, <2>1
<1> QED BY <1>3 DEF Left

(* A step that leaves the frame, and is not at its blocks, leaves its      *)
(* buffer as it was.                                                       *)
LEMMA FrameKeptCore ==
  ASSUME Core, fr' = fr, stage' = stage, call.pc # "blocks", call'.pc # "blocks",
         call'.input.kind # "JobEnd", call'.src \in Nat, call'.src <= call.src,
         call'.pc = "idle" => call'.src = 0, call'.pc = "match" => out' = <<>>
  PROVE  CallInv' /\ BufferInv'
<1>1. call.input.kind # "JobEnd"
  BY DEF Core, CallInv
<1>2. BufferInv'
  BY <1>1 DEF Core, BufferInv
<1>3. fr.consumed \in Nat /\ call.src \in Nat /\ fr.consumed + call.src <= MaxInput
  BY DEF Core, TypeInv, CallInv, IsFrame, FrameSet, CallSet
<1>4. fr'.consumed + call'.src <= MaxInput
  BY <1>3, StreamConstants
<1>5. stage' \notin {"Frame", "Ended"} => fr' = NoFrame
  BY DEF Core, CallInv
<1> QED BY <1>2, <1>4, <1>5 DEF CallInv

(* Pending output goes to the caller.                                      *)
LEMMA FlushCore ==
  ASSUME Core, FlushTo
  PROVE  Core' /\ Items' = Items
<1> DEFINE n == Least(call.room, Len(out))
<1>1. /\ out \in Seq(ItemSet) /\ sent \in Seq(ItemSet) /\ call \in CallSet
      /\ call.room \in Nat /\ Len(out) \in Nat /\ call.src \in Nat
  BY DEF Core, TypeInv, CallSet
<1>2. n \in 0..Len(out) /\ n <= call.room
  BY <1>1 DEF Least
<1>3. /\ stage' = stage /\ pledged' = pledged /\ prefix' = prefix /\ fr' = fr
      /\ flushed' = flushed /\ sent' = sent \o SubSeq(out, 1, n)
      /\ out' = SubSeq(out, n + 1, Len(out)) /\ call.pc = "flush"
  BY DEF FlushTo
<1>4. \/ /\ out' # <<>>
         /\ ret' = [op |-> call.op, err |-> "None",
                    left |-> Left(Len(out'), call.src), src |-> call.src]
         /\ call' = NoCall
      \/ /\ out' = <<>>
         /\ call' = [call EXCEPT !.pc = "match", !.room = call.room - n]
         /\ ret' = ret
  BY DEF FlushTo, Return
<1> HIDE DEF n
<1>5. /\ sent' \in Seq(ItemSet) /\ out' \in Seq(ItemSet) /\ sent' \o out' = sent \o out
  <2> DEFINE s == sent
             o == out
  <2>1. s \in Seq(ItemSet) /\ o \in Seq(ItemSet) /\ n \in 0..Len(o)
    BY <1>1, <1>2
  <2> HIDE DEF s, o
  <2>2. /\ s \o SubSeq(o, 1, n) \in Seq(ItemSet) /\ SubSeq(o, n + 1, Len(o)) \in Seq(ItemSet)
        /\ (s \o SubSeq(o, 1, n)) \o SubSeq(o, n + 1, Len(o)) = s \o o
    BY <2>1, FlushedIs, Zenon
  <2> QED BY <1>3, <2>2, Zenon DEF s, o
<1>6. Len(out') \in Nat
  BY <1>5
<1>7. Left(Len(out'), call.src) \in Nat
  BY <1>1, <1>6, LeftIs
<1>8. ret' \in ReturnSet
  <2>1. call.op \in Directives /\ ret \in ReturnSet
    BY DEF Core, TypeInv, CallSet
  <2> QED BY <1>1, <1>4, <1>7, <2>1 DEF ReturnSet, Errors
<1>9. /\ call' \in CallSet /\ call'.pc # "blocks" /\ call'.input.kind # "JobEnd"
      /\ call'.src <= call.src /\ (call'.pc = "idle" => call'.src = 0)
      /\ (call'.pc = "match" => out' = <<>>) /\ call'.src \in Nat
  <2>1. CASE call' = NoCall
    BY <1>1, <2>1 DEF NoCall, NoInput, CallSet, InputSet, Directives
  <2>2. CASE out' = <<>> /\ call' = [call EXCEPT !.pc = "match", !.room = call.room - n]
    <3> DEFINE c == call
               d == call'
               m == c.room - n
    <3>1. m \in Nat
      BY <1>1, <1>2
    <3>2. c \in CallSet /\ c.input.kind # "JobEnd" /\ d = [c EXCEPT !.pc = "match", !.room = m]
      BY <1>1, <1>3, <2>2 DEF Core, CallInv
    <3> HIDE DEF m, c, d
    <3>3. /\ d \in CallSet /\ d.pc = "match" /\ d.src = c.src /\ d.input = c.input
          /\ c.src \in Nat
      BY <3>1, <3>2 DEF CallSet
    <3>4. d.src <= c.src
      BY <3>3
    <3> QED BY <2>2, <3>2, <3>3, <3>4 DEF c, d
  <2> QED BY <1>4, <2>1, <2>2
<1>10. TypeInv'
  BY <1>3, <1>5, <1>8, <1>9 DEF Core, TypeInv
<1>11. CallInv' /\ BufferInv'
  BY <1>3, <1>9, FrameKeptCore
<1> QED BY <1>5, <1>10, <1>11 DEF Core, Items

(* The frame is complete, and the next call begins another.                *)
LEMMA StepEndedCore ==
  ASSUME Core, StepEnded
  PROVE  Core'
<1>1. /\ stage' = "Idle" /\ pledged' = NoSize /\ fr' = NoFrame /\ call.pc = "match"
      /\ out' = out /\ prefix' = prefix /\ sent' = sent /\ flushed' = flushed
  BY DEF StepEnded
<1>2. \/ call' = NoCall /\ ret' = [op |-> call.op, err |-> "None", left |-> 0, src |-> 0]
      \/ call' = [call EXCEPT !.pc = "flush"] /\ ret' = ret
  BY DEF StepEnded, Return
<1>3. /\ call \in CallSet /\ call.src \in Nat /\ call.input.kind # "JobEnd"
      /\ fr.consumed \in Nat /\ fr.consumed + call.src <= MaxInput /\ ret \in ReturnSet
  BY <1>1 DEF Core, TypeInv, CallInv, CallSet, IsFrame, FrameSet
<1>4. /\ call' \in CallSet /\ call'.pc \in {"idle", "flush"} /\ call'.input.kind # "JobEnd"
      /\ call'.src <= MaxInput /\ (call'.pc = "idle" => call'.src = 0)
  <2>1. MaxInput \in Nat /\ call.src <= MaxInput
    BY <1>3, StreamConstants
  <2>2. CASE call' = NoCall
    BY <2>1, <2>2 DEF NoCall, NoInput, CallSet, InputSet, Directives
  <2>3. CASE call' = [call EXCEPT !.pc = "flush"]
    BY <1>3, <2>1, <2>3 DEF CallSet
  <2> QED BY <1>2, <2>2, <2>3
<1>5. ret' \in ReturnSet
  BY <1>2, <1>3 DEF ReturnSet, CallSet, Errors
<1>6. CallInv' /\ BufferInv' /\ IsFrame(fr)'
  BY <1>1, <1>4, NoFrameCore
<1>7. pledged' \in Int
  BY <1>1 DEF NoSize
<1>8. TypeInv'
  BY <1>1, <1>4, <1>5, <1>6, <1>7 DEF Core, TypeInv
<1> QED BY <1>6, <1>8 DEF Core

(* There is nothing to do but return.                                      *)
LEMMA StepContinueCore ==
  ASSUME Core, StepContinue
  PROVE  Core'
<1>1. /\ stage' = stage /\ pledged' = pledged /\ out' = out /\ prefix' = prefix
      /\ fr' = fr /\ sent' = sent /\ flushed' = flushed /\ call.pc = "match"
      /\ ret' = [op |-> call.op, err |-> "None", left |-> Left(0, 0), src |-> 0]
      /\ call' = NoCall
  BY DEF StepContinue, Return
<1>2. /\ call' \in CallSet /\ call'.pc = "idle" /\ call'.input.kind # "JobEnd"
      /\ call'.src = 0
  BY <1>1 DEF NoCall, NoInput, CallSet, InputSet, Directives
<1>3. Left(0, 0) \in Nat
  BY LeftIs
<1>4. call.op \in Directives /\ call.src \in Nat
  BY DEF Core, TypeInv, CallSet
<1>5. ret' \in ReturnSet
  BY <1>1, <1>3, <1>4 DEF ReturnSet, Errors
<1>6. CallInv' /\ BufferInv'
  BY <1>1, <1>2, <1>4, FrameKeptCore
<1>7. TypeInv'
  BY <1>1, <1>2, <1>5 DEF Core, TypeInv
<1> QED BY <1>6, <1>7 DEF Core

(* The header to write is an item.                                         *)
LEMMA HeaderItemsIs ==
  ASSUME NEW f, IsFrame(f)
  PROVE  /\ HeaderItems(f) \in Seq(ItemSet)
         /\ NeedsHeader(f) => HeaderItems(f) = <<Header(f.pledged)>>
         /\ ~NeedsHeader(f) => HeaderItems(f) = <<>>
<1>1. f.pledged \in Int /\ f.header \in BOOLEAN
  BY DEF IsFrame, FrameSet
<1>2. Header(f.pledged) \in ItemSet
  BY <1>1, HeaderIs
<1>3. CASE NeedsHeader(f)
  <2>1. HeaderItems(f) = <<Header(f.pledged)>>
    BY <1>3 DEF HeaderItems, NeedsHeader
  <2> QED BY <1>2, <1>3, <2>1
<1>4. CASE ~NeedsHeader(f)
  <2>1. HeaderItems(f) = <<>>
    BY <1>1, <1>4 DEF HeaderItems, NeedsHeader
  <2> QED BY <1>4, <2>1
<1> QED BY <1>3, <1>4

\* The same frame, but for its header.
SameBlocks(g, f) ==
    /\ g.jb = f.jb /\ g.buf = f.buf /\ g.cap = f.cap /\ g.content = f.content
    /\ g.pledged = f.pledged /\ g.consumed = f.consumed

(* It is as well buffered.                                                 *)
LEMMA SameBuffered ==
  ASSUME NEW f, Buffered(f), NEW g, SameBlocks(g, f)
  PROVE  Buffered(g)
BY DEF Buffered, SameBlocks

(* Blocks that input makes ready are begun, or it waits.                   *)
LEMMA StartBlocksIs ==
  ASSUME NEW c \in CallSet, NEW f, IsFrame(f), NEW input \in InputSet,
         StartBlocks(c, f, input)
  PROVE  /\ call' \in CallSet /\ call'.src = c.src /\ call'.op = c.op /\ call'.input = input
         /\ call'.pc = IF HasReady(f.jb, input) THEN "blocks" ELSE "flush"
         /\ out' = IF HasReady(f.jb, input) THEN HeaderItems(f) ELSE <<>>
         /\ out' \in Seq(ItemSet) /\ IsFrame(fr') /\ SameBlocks(fr', f)
         /\ HasReady(f.jb, input) => ~NeedsHeader(fr')
         /\ ~HasReady(f.jb, input) => fr' = f
<1>1. HeaderItems(f) \in Seq(ItemSet)
  BY HeaderItemsIs
<1>2. CASE HasReady(f.jb, input)
  <2>1. /\ call' = [c EXCEPT !.pc = "blocks", !.input = input]
        /\ out' = HeaderItems(f) /\ fr' = [f EXCEPT !.header = FALSE]
    BY <1>2 DEF StartBlocks
  <2>2. /\ call' \in CallSet /\ call'.src = c.src /\ call'.op = c.op
        /\ call'.input = input /\ call'.pc = "blocks"
    BY <2>1 DEF CallSet
  <2>3. IsFrame(fr') /\ SameBlocks(fr', f) /\ ~NeedsHeader(fr')
    BY <2>1, WithoutHeader DEF SameBlocks
  <2> QED BY <1>1, <1>2, <2>1, <2>2, <2>3
<1>3. CASE ~HasReady(f.jb, input)
  <2>1. /\ call' = [c EXCEPT !.pc = "flush", !.input = input]
        /\ out' = <<>> /\ fr' = f
    BY <1>3 DEF StartBlocks
  <2>2. /\ call' \in CallSet /\ call'.src = c.src /\ call'.op = c.op
        /\ call'.input = input /\ call'.pc = "flush"
    BY <2>1 DEF CallSet
  <2>3. IsFrame(fr') /\ SameBlocks(fr', f) /\ out' \in Seq(ItemSet)
    BY <2>1 DEF SameBlocks
  <2> QED BY <1>3, <2>1, <2>2, <2>3
<1> QED BY <1>2, <1>3

\* The end of the frame's input.
FrameEnd(f) == [kind |-> "JobEnd", end |-> Len(f.buf)]

(* The last blocks are begun.                                              *)
LEMMA FinishIs ==
  ASSUME NEW c \in CallSet, NEW f, IsFrame(f), Finish(c, f)
  PROVE  /\ FrameEnd(f) \in InputSet /\ FrameEnd(f).kind = "JobEnd"
         /\ FrameEnd(f).end = Len(f.buf)
         /\ call' \in CallSet /\ call'.src = c.src /\ call'.op = c.op
         /\ call'.input = FrameEnd(f) /\ call'.pc = "blocks"
         /\ HasReady(f.jb, FrameEnd(f)) => out' = HeaderItems(f)
         /\ ~HasReady(f.jb, FrameEnd(f)) => out' = Append(HeaderItems(f), Block(<<>>, TRUE))
         /\ out' \in Seq(ItemSet) /\ IsFrame(fr') /\ SameBlocks(fr', f)
         /\ ~NeedsHeader(fr')
<1> DEFINE end == FrameEnd(f)
           h == HeaderItems(f)
           z == Block(<<>>, TRUE)
<1>1. end \in InputSet /\ end.kind = "JobEnd" /\ end.end = Len(f.buf)
  <2>1. f.buf \in Seq(Int)
    BY DEF IsFrame, FrameSet
  <2>2. Len(f.buf) \in Nat
    BY <2>1
  <2> QED BY <2>2 DEF FrameEnd, InputSet
<1>2. /\ call' = [c EXCEPT !.pc = "blocks", !.input = end]
      /\ out' = h \o (IF HasReady(f.jb, end) THEN <<>> ELSE <<z>>)
      /\ fr' = [f EXCEPT !.header = FALSE]
  BY DEF Finish, FrameEnd
<1> HIDE DEF end
<1>3. /\ call' \in CallSet /\ call'.src = c.src /\ call'.op = c.op
      /\ call'.input = end /\ call'.pc = "blocks"
  BY <1>1, <1>2 DEF CallSet
<1>4. IsFrame(fr') /\ SameBlocks(fr', f) /\ ~NeedsHeader(fr')
  BY <1>2, WithoutHeader DEF SameBlocks
<1>5. h \in Seq(ItemSet)
  BY HeaderItemsIs
<1>6. z \in ItemSet
  <2>1. <<>> \in Seq(Int) /\ TRUE \in BOOLEAN
    OBVIOUS
  <2> QED BY <2>1, BlockIs, Zenon
<1> HIDE DEF h, z
<1>7. /\ HasReady(f.jb, end) => out' = h
      /\ ~HasReady(f.jb, end) => out' = Append(h, z)
  BY <1>2, <1>5, <1>6
<1>8. out' \in Seq(ItemSet)
  BY <1>5, <1>6, <1>7
<1> QED BY <1>1, <1>3, <1>4, <1>7, <1>8 DEF end, h, z

(* A step into the blocks of a frame, or one after which they wait.        *)
LEMMA BlocksAheadCore ==
  ASSUME stage' = "Frame", call' \in CallSet, call'.pc \in {"blocks", "flush"},
         call'.input.kind # "None", call'.input.end = Len(fr'.buf), IsFrame(fr'),
         Buffered(fr'), fr'.consumed + call'.src <= MaxInput,
         call'.pc = "flush" => /\ Len(fr'.buf) - NextStart(fr'.jb) <= BlockSizeMax
                               /\ call'.input.kind # "JobEnd",
         call'.input.kind # "JobEnd" => Len(fr'.buf) <= fr'.cap
  PROVE  CallInv' /\ BufferInv'
<1>1. CallInv'
  BY DEF CallInv
<1>2. BufferInv'
  BY DEF BufferInv
<1> QED BY <1>1, <1>2

\* A first End call's frame.
WholeFrame(n, len, ldm) ==
    [Begin(n, len, ldm) EXCEPT !.buf = @ \o Bytes(0, n), !.consumed = n]

(* It holds its prefix and the whole input.                                *)
LEMMA BeginWholeIs ==
  ASSUME NEW n \in Nat, NEW len \in Nat, NEW ldm
  PROVE  LET f == WholeFrame(n, len, ldm)
         IN  /\ IsFrame(f) /\ Buffered(f) /\ f.jb.jobStart = len /\ f.jb.done = 0
             /\ f.jb.firstChunkEnd = NoChunk /\ f.jb.gained = 0 /\ f.consumed = n
             /\ f.pledged = n /\ NeedsHeader(f) /\ Len(f.buf) = len + n
<1> DEFINE g == Begin(n, len, ldm)
           b == g.buf \o Bytes(0, n)
           f == [g EXCEPT !.buf = b, !.consumed = n]
<1>1. /\ IsFrame(g) /\ g.jb.jobStart = len /\ g.jb.done = 0 /\ g.consumed = 0
      /\ g.jb.firstChunkEnd = NoChunk /\ g.jb.gained = 0 /\ g.pledged = n
      /\ NeedsHeader(g) /\ g.buf = Content(len) /\ Buffered(g)
  BY BeginIs, BeginBuffered
<1>2. Content(len) \in Seq(Int) /\ Len(Content(len)) = len
  BY ContentIs
<1>3. Bytes(0, n) \in Seq(Int)
  BY BytesIs
<1> HIDE DEF g
<1>4. b \in Seq(Int)
  <2> DEFINE y == Bytes(0, n)
             s == Content(len)
  <2>1. y \in Seq(Int) /\ s \in Seq(Int) /\ g.buf = s
    BY <1>1, <1>2, <1>3
  <2> HIDE DEF y, s
  <2>2. s \o y \in Seq(Int)
    BY <2>1
  <2> QED BY <2>1, <2>2 DEF y
<1>5. g \in FrameSet /\ IsCursor(g.jb)
  BY <1>1 DEF IsFrame
<1>6. /\ b = g.buf \o Bytes(g.consumed, n) /\ n = g.consumed + n
  BY <1>1
<1> HIDE DEF b
<1>7. /\ f \in FrameSet /\ f.jb = g.jb /\ f.buf = b /\ f.cap = g.cap
      /\ f.content = g.content /\ f.pledged = g.pledged /\ f.consumed = n
      /\ f.header = g.header
  BY <1>4, <1>5 DEF FrameSet
<1> HIDE DEF f
<1>8. IsFrame(f) /\ NeedsHeader(f)
  BY <1>1, <1>5, <1>7 DEF IsFrame, NeedsHeader
<1>9. Buffered(f) /\ Len(f.buf) = Len(g.buf) + n
  BY <1>1, <1>6, <1>7, BufferedInput
<1>10. f = WholeFrame(n, len, ldm)
  BY DEF WholeFrame, f, b, g
<1> QED BY <1>1, <1>2, <1>7, <1>8, <1>9, <1>10

(* The next block codes the bytes that follow what is done.                *)
LEMMA NextBlockIs ==
  ASSUME NEW f, IsFrame(f), Buffered(f), f.consumed <= MaxInput, NEW input \in InputSet,
         input.end = Len(f.buf), HasReady(f.jb, input)
  PROVE  LET b == NextBlock(f, input)
             start == NextStart(f.jb)
         IN  /\ b.end \in Int /\ start \in Nat /\ start < b.end /\ b.end <= Len(f.buf)
             /\ input.kind = "Open" => b.end < Len(f.buf)
             /\ f.buf[start + 1] = f.jb.done + 1
             /\ b.end = NextBlockEnd(f.jb, input, f.jb.done + 1 \in oracle.cut)
             /\ b.bytes = Bytes(f.jb.done, b.end - start)
             /\ b.bytes \in Seq(Int)
<1> DEFINE b == NextBlock(f, input)
           jb == f.jb
           start == NextStart(jb)
           s == f.buf
           L == Len(s)
           J == jb.jobStart
           D == jb.done
           K == f.content
           C == f.consumed
           cut == s[start + 1] \in oracle.cut
           e == NextBlockEnd(jb, input, cut)
<1>1. /\ s \in Seq(Int) /\ L \in Nat /\ J \in Int /\ D \in Nat /\ K \in Nat /\ C \in Nat
      /\ IsCursor(jb)
  BY DEF IsFrame, FrameSet, CursorSet
<1>2. /\ L = J + C /\ J <= K /\ D <= C /\ (J = K \/ start >= WindowSize)
      /\ \A i \in 1..L : s[i] = ByteOf(K, i + K - J)
  BY DEF Buffered
<1>3. start = J + D
  BY DEF NextStart
<1>4. b = [bytes |-> SubSeq(s, start + 1, e), end |-> e]
  BY DEF NextBlock
<1>5. /\ e \in Int /\ start < e /\ e <= L /\ (input.kind = "Open" => e < L)
  <2>1. jb.done <= MaxInput /\ input.end \in Nat
    BY <1>1, <1>2, StreamConstants DEF InputSet
  <2> HIDE DEF cut
  <2> QED BY <1>1, <2>1, NextEndBounds
<1> HIDE DEF e, start, J, D, K, C, s, jb
<1>6. start \in Nat
  <2>1. WindowSize \in Nat
    BY StreamConstants
  <2> QED BY <1>1, <1>2, <1>3, <2>1
<1>7. ASSUME NEW i \in 1..(e - start)
      PROVE  s[start + i] = D + i
  <2>1. start + i \in 1..L /\ i \in Nat /\ i >= 1
    BY <1>1, <1>5, <1>6
  <2> DEFINE p == (start + i) + K - J
  <2>2. s[start + i] = ByteOf(K, p)
    BY <1>2, <2>1
  <2>3. p = K + (D + i)
    BY <1>1, <1>3, <2>1
  <2> HIDE DEF p
  <2>4. ~(p <= K) /\ p - K = D + i
    BY <1>1, <2>1, <2>3
  <2> QED BY <2>2, <2>4 DEF ByteOf
<1> DEFINE t == SubSeq(s, start + 1, e)
<1> HIDE DEF L
<1>8. t \in Seq(Int) /\ Len(t) = e - start /\ \A i \in 1..(e - start) : t[i] = s[start + i]
  <2>1. e <= Len(s) /\ start <= e
    BY <1>5, <1>6 DEF L
  <2> QED BY <1>1, <1>5, <1>6, <2>1, SliceIs, Zenon
<1>9. t = Bytes(D, e - start)
  <2> DEFINE y == Bytes(D, e - start)
  <2>1. e - start \in Nat /\ D \in Int
    BY <1>1, <1>5, <1>6
  <2>2. y \in Seq(Int) /\ Len(y) = e - start /\ \A i \in 1..(e - start) : y[i] = D + i
    BY <2>1, BytesIs, Zenon
  <2> HIDE DEF y, t
  <2>3. \A i \in 1..(e - start) : t[i] = y[i]
    BY <1>7, <1>8, <2>2
  <2>4. t = y
    BY <1>8, <2>1, <2>2, <2>3
  <2> QED BY <2>4 DEF y
<1>10. s[start + 1] = D + 1
  <2>1. 1 \in 1..(e - start)
    BY <1>5, <1>6
  <2> QED BY <1>7, <2>1
<1>11. e = NextBlockEnd(jb, input, D + 1 \in oracle.cut)
  BY <1>10 DEF e
<1> HIDE DEF t
<1>12. b.end = e /\ b.bytes = t
  <2>1. b = [bytes |-> t, end |-> e]
    BY <1>4 DEF t
  <2> HIDE DEF b
  <2> QED BY <2>1
<1> HIDE DEF b
<1> QED BY <1>5, <1>6, <1>8, <1>9, <1>10, <1>11, <1>12 DEF b, jb, start, s, L, D

(* A first call that does not end it begins a frame.                       *)
LEMMA StepIdleCore ==
  ASSUME Core, StepIdle
  PROVE  Core'
<1>1. CASE Multithreaded(pledged)
  <2>1. Fail("Unsupported")
    BY <1>1 DEF StepIdle
  <2> QED BY <2>1, FailCore DEF Errors
<1>2. CASE ~Multithreaded(pledged)
  <2>1. PICK ldm \in Ldms : fr' = Begin(pledged, prefix, ldm)
    BY <1>2 DEF StepIdle
  <2>2. /\ stage' = "Frame" /\ prefix' = 0 /\ sent' = <<>> /\ flushed' = FALSE
        /\ call' = [call EXCEPT !.pc = "flush"] /\ pledged' = pledged /\ out' = out
        /\ ret' = ret /\ call.pc = "match" /\ stage = "Idle"
    BY <1>2 DEF StepIdle
  <2>3. /\ pledged \in Int /\ prefix \in Nat /\ call \in CallSet /\ call.src \in Nat
        /\ call.input.kind # "JobEnd" /\ fr = NoFrame /\ fr.consumed + call.src <= MaxInput
    BY <2>2 DEF Core, TypeInv, CallInv, CallSet
  <2>4. /\ IsFrame(fr') /\ Buffered(fr') /\ fr'.consumed = 0 /\ fr'.jb.jobStart = prefix
        /\ fr'.jb.done = 0 /\ fr'.buf = Content(prefix)
        /\ fr'.cap = prefix + 2 * (WindowSize + BlockSizeMax)
    BY <2>1, <2>3, BeginIs, BeginBuffered
  <2>5. /\ call' \in CallSet /\ call'.pc = "flush" /\ call'.src = call.src
        /\ call'.input.kind # "JobEnd"
    BY <2>2, <2>3 DEF CallSet
  <2>6. Len(fr'.buf) = prefix
    BY <2>3, <2>4, ContentIs
  <2>7. CallInv'
    <3>1. fr.consumed = 0
      BY <2>3, NoFrameIs
    <3>2. fr'.consumed + call'.src <= MaxInput
      BY <2>3, <2>4, <2>5, <3>1
    <3> QED BY <2>2, <2>5, <3>2 DEF CallInv
  <2>8. BufferInv'
    <3>1. NextStart(fr'.jb) = prefix
      BY <2>3, <2>4 DEF NextStart
    <3>2. Len(fr'.buf) - NextStart(fr'.jb) <= BlockSizeMax /\ Len(fr'.buf) <= fr'.cap
      BY <2>3, <2>4, <2>6, <3>1, StreamConstants
    <3> QED BY <2>4, <3>2 DEF BufferInv
  <2>9. TypeInv'
    <3>1. sent' \in Seq(ItemSet)
      BY <2>2
    <3>2. flushed' \in BOOLEAN
      BY <2>2
    <3> QED BY <2>2, <2>4, <2>5, <3>1, <3>2 DEF Core, TypeInv
  <2> QED BY <2>7, <2>8, <2>9 DEF Core
<1> QED BY <1>1, <1>2

(* A first End call begins the frame and ends it.                          *)
LEMMA StepIdleEndCore ==
  ASSUME Core, StepIdleEnd
  PROVE  Core'
<1>1. CASE pledged # NoSize /\ pledged # call.src
  <2>1. Fail("SrcSizeWrong")
    BY <1>1 DEF StepIdleEnd
  <2> QED BY <2>1, FailCore DEF Errors
<1>2. CASE ~(pledged # NoSize /\ pledged # call.src)
  <2> DEFINE F(ldm) == WholeFrame(call.src, prefix, ldm)
             c == [call EXCEPT !.src = 0]
  <2>1. PICK ldm \in Ldms : Finish(c, F(ldm))
    BY <1>2 DEF StepIdleEnd, WholeFrame
  <2>2. /\ stage' = "Frame" /\ prefix' = 0 /\ sent' = <<>> /\ flushed' = FALSE
        /\ pledged' = pledged /\ ret' = ret /\ call.pc = "match" /\ stage = "Idle"
    BY <1>2 DEF StepIdleEnd
  <2>3. /\ prefix \in Nat /\ call \in CallSet /\ call.src \in Nat
        /\ fr = NoFrame /\ fr.consumed + call.src <= MaxInput
    BY <2>2 DEF Core, TypeInv, CallInv, CallSet
  <2> DEFINE f == F(ldm)
  <2>4. IsFrame(f) /\ Buffered(f) /\ f.consumed = call.src
    BY <2>3, BeginWholeIs
  <2>5. c \in CallSet /\ c.src = 0
    BY <2>3 DEF CallSet
  <2>6. Finish(c, f)
    BY <2>1
  <2> HIDE DEF f, c
  <2>7. /\ call' \in CallSet /\ call'.src = 0 /\ call'.pc = "blocks"
        /\ call'.input.kind = "JobEnd" /\ call'.input.end = Len(f.buf)
        /\ out' \in Seq(ItemSet) /\ IsFrame(fr') /\ SameBlocks(fr', f)
    BY <2>4, <2>5, <2>6, FinishIs
  <2>8. Buffered(fr') /\ fr'.consumed = call.src /\ fr'.buf = f.buf
    BY <2>4, <2>7, SameBuffered DEF SameBlocks
  <2>9. fr'.consumed + call'.src <= MaxInput
    <3>1. fr.consumed = 0
      BY <2>3, NoFrameIs
    <3> QED BY <2>3, <2>7, <2>8, <3>1
  <2>10. CallInv' /\ BufferInv'
    BY <2>2, <2>7, <2>8, <2>9, BlocksAheadCore
  <2>11. TypeInv'
    <3>1. sent' \in Seq(ItemSet)
      BY <2>2
    <3>2. flushed' \in BOOLEAN
      BY <2>2
    <3> QED BY <2>2, <2>7, <3>1, <3>2 DEF Core, TypeInv
  <2> QED BY <2>10, <2>11 DEF Core
<1> QED BY <1>1, <1>2

(* Input is accepted.                                                      *)
LEMMA StepAcceptCore ==
  ASSUME Core, StepAccept
  PROVE  Core'
<1>1. CASE fr.pledged # NoSize /\ fr.consumed + call.src > fr.pledged
  <2>1. Fail("SrcSizeWrong")
    BY <1>1 DEF StepAccept
  <2> QED BY <2>1, FailCore DEF Errors
<1>2. CASE ~(fr.pledged # NoSize /\ fr.consumed + call.src > fr.pledged)
  <2> DEFINE f == Accept(fr, call.src)
             a == Accepted(fr, call.src)
             input == [kind |-> "Open", end |-> Len(f.buf)]
             c == [call EXCEPT !.src = @ - a]
  <2>1. /\ StartBlocks(c, f, input) /\ stage' = stage /\ pledged' = pledged
        /\ prefix' = prefix /\ ret' = ret /\ sent' = sent /\ flushed' = flushed
        /\ call.pc = "match" /\ stage = "Frame"
    BY <1>2 DEF StepAccept
  <2>2. /\ IsFrame(fr) /\ Buffered(fr) /\ Len(fr.buf) - NextStart(fr.jb) <= BlockSizeMax
        /\ Len(fr.buf) <= fr.cap /\ call \in CallSet /\ call.src \in Nat
        /\ fr.consumed \in Nat /\ fr.consumed + call.src <= MaxInput
    BY <2>1 DEF Core, TypeInv, CallInv, BufferInv, CallSet, IsFrame, FrameSet
  <2>3. /\ a \in 0..call.src /\ IsFrame(f) /\ Buffered(f) /\ Len(f.buf) <= f.cap
        /\ f.consumed = fr.consumed + a
    BY <2>2, AcceptIs
  <2> HIDE DEF f, a
  <2>4. input \in InputSet /\ input.kind = "Open" /\ input.end = Len(f.buf)
    <3>1. f.buf \in Seq(Int)
      BY <2>3 DEF IsFrame, FrameSet
    <3> QED BY <3>1 DEF InputSet
  <2>5. c \in CallSet /\ c.src = call.src - a
    <3> DEFINE d == call.src - a
    <3>1. d \in Nat /\ c = [call EXCEPT !.src = d]
      BY <2>2, <2>3
    <3> HIDE DEF d
    <3>2. c \in CallSet /\ c.src = d
      BY <2>2, <3>1 DEF CallSet
    <3> QED BY <3>2 DEF d
  <2> HIDE DEF c, input
  <2>6. /\ call' \in CallSet /\ call'.src = c.src /\ call'.input = input
        /\ call'.pc = IF HasReady(f.jb, input) THEN "blocks" ELSE "flush"
        /\ out' \in Seq(ItemSet) /\ IsFrame(fr') /\ SameBlocks(fr', f)
    BY <2>1, <2>3, <2>4, <2>5, StartBlocksIs
  <2>7. /\ Buffered(fr') /\ fr'.consumed = f.consumed /\ fr'.buf = f.buf /\ fr'.jb = f.jb
        /\ fr'.cap = f.cap
    BY <2>3, <2>6, SameBuffered DEF SameBlocks
  <2>8. fr'.consumed + call'.src <= MaxInput
    BY <2>2, <2>3, <2>5, <2>6, <2>7
  <2>9. ~HasReady(f.jb, input) => Len(f.buf) - NextStart(f.jb) <= BlockSizeMax
    <3>1. f.jb.sizing.blockSizeMax = BlockSizeMax
      BY <2>3 DEF IsFrame, IsCursor, CursorSet, FrameSizing
    <3>2. f.buf \in Seq(Int) /\ NextStart(f.jb) \in Int /\ BlockSizeMax \in Nat
      BY <2>3, StreamConstants DEF IsFrame, FrameSet, CursorSet, NextStart
    <3>3. Len(f.buf) \in Nat
      BY <3>2
    <3> QED BY <2>4, <3>1, <3>2, <3>3 DEF HasReady, Ready
  <2>10. CallInv' /\ BufferInv'
    BY <2>1, <2>3, <2>4, <2>6, <2>7, <2>8, <2>9, BlocksAheadCore
  <2>11. TypeInv'
    BY <2>1, <2>6 DEF Core, TypeInv
  <2> QED BY <2>10, <2>11 DEF Core
<1> QED BY <1>1, <1>2

(* A Flush cuts the input off.                                             *)
LEMMA StepFlushCore ==
  ASSUME Core, StepFlush
  PROVE  Core'
<1> DEFINE input == [kind |-> "Chunk", end |-> Len(fr.buf)]
<1>1. /\ StartBlocks(call, fr, input) /\ stage' = stage /\ pledged' = pledged
      /\ prefix' = prefix /\ ret' = ret /\ sent' = sent /\ HoldsInput(fr)
      /\ call.pc = "match" /\ stage = "Frame" /\ flushed' = TRUE
  BY DEF StepFlush
<1>2. /\ IsFrame(fr) /\ Buffered(fr) /\ Len(fr.buf) <= fr.cap /\ call \in CallSet
      /\ fr.consumed + call.src <= MaxInput
  BY <1>1 DEF Core, TypeInv, CallInv, BufferInv
<1>3. input \in InputSet /\ input.kind = "Chunk" /\ input.end = Len(fr.buf)
  <2>1. fr.buf \in Seq(Int)
    BY <1>2 DEF IsFrame, FrameSet
  <2> QED BY <2>1 DEF InputSet
<1> HIDE DEF input
<1>4. HasReady(fr.jb, input)
  BY <1>1, <1>3 DEF HasReady, Ready, HoldsInput
<1>5. /\ call' \in CallSet /\ call'.src = call.src /\ call'.input = input
      /\ call'.pc = "blocks"
      /\ out' \in Seq(ItemSet) /\ IsFrame(fr') /\ SameBlocks(fr', fr)
  BY <1>1, <1>2, <1>3, <1>4, StartBlocksIs
<1>6. Buffered(fr') /\ fr'.consumed = fr.consumed /\ fr'.buf = fr.buf /\ fr'.cap = fr.cap
  BY <1>2, <1>5, SameBuffered DEF SameBlocks
<1>7. CallInv' /\ BufferInv'
  BY <1>1, <1>2, <1>3, <1>5, <1>6, BlocksAheadCore
<1>8. flushed' \in BOOLEAN
  BY <1>1
<1>9. TypeInv'
  BY <1>1, <1>5, <1>8 DEF Core, TypeInv
<1> QED BY <1>7, <1>9 DEF Core

(* An End ends the frame.                                                  *)
LEMMA StepEndCore ==
  ASSUME Core, StepEnd
  PROVE  Core'
<1>1. CASE fr.pledged # NoSize /\ fr.pledged # fr.consumed
  <2>1. Fail("SrcSizeWrong")
    BY <1>1 DEF StepEnd
  <2> QED BY <2>1, FailCore DEF Errors
<1>2. CASE ~(fr.pledged # NoSize /\ fr.pledged # fr.consumed)
  <2>1. /\ Finish(call, fr) /\ stage' = stage /\ pledged' = pledged
        /\ prefix' = prefix /\ ret' = ret /\ sent' = sent /\ flushed' = flushed
        /\ call.pc = "match" /\ stage = "Frame"
    BY <1>2 DEF StepEnd
  <2>2. /\ IsFrame(fr) /\ Buffered(fr) /\ call \in CallSet
        /\ fr.consumed + call.src <= MaxInput
    BY <2>1 DEF Core, TypeInv, CallInv, BufferInv
  <2>3. /\ call' \in CallSet /\ call'.src = call.src /\ call'.pc = "blocks"
        /\ call'.input.kind = "JobEnd" /\ call'.input.end = Len(fr.buf)
        /\ out' \in Seq(ItemSet) /\ IsFrame(fr') /\ SameBlocks(fr', fr)
    BY <2>1, <2>2, FinishIs
  <2>4. Buffered(fr') /\ fr'.consumed = fr.consumed /\ fr'.buf = fr.buf
    BY <2>2, <2>3, SameBuffered DEF SameBlocks
  <2>5. CallInv' /\ BufferInv'
    BY <2>1, <2>2, <2>3, <2>4, BlocksAheadCore
  <2>6. TypeInv'
    BY <2>1, <2>3 DEF Core, TypeInv
  <2> QED BY <2>5, <2>6 DEF Core
<1> QED BY <1>1, <1>2

\* The block that is written next, whether it is the last, and its item.
TheBlock == NextBlock(fr, call.input)
TheLast == IsLast(fr.jb, TheBlock.end, call.input)
TheItem == Block(TheBlock.bytes, TheLast)

(* It codes the bytes that follow what is done, and the last ends the      *)
(* input.                                                                  *)
LEMMA TheBlockIs ==
  ASSUME Core, call.pc = "blocks", HasReady(fr.jb, call.input)
  PROVE  /\ stage = "Frame" /\ call.input \in InputSet /\ call.input.end = Len(fr.buf)
         /\ NextStart(fr.jb) \in Nat /\ TheBlock.end \in Int
         /\ NextStart(fr.jb) < TheBlock.end /\ TheBlock.end <= Len(fr.buf)
         /\ call.input.kind = "Open" => TheBlock.end < Len(fr.buf)
         /\ TheBlock.end = NextBlockEnd(fr.jb, call.input, fr.jb.done + 1 \in oracle.cut)
         /\ TheBlock.bytes = Bytes(fr.jb.done, TheBlock.end - NextStart(fr.jb))
         /\ TheBlock.bytes \in Seq(Int)
         /\ TheItem \in ItemSet /\ TheItem.item = "block" /\ TheItem.bytes = TheBlock.bytes
         /\ Marked(TheItem) <=> call.input.kind = "JobEnd" /\ TheBlock.end = Len(fr.buf)
<1>1. /\ stage = "Frame" /\ call.input \in InputSet /\ call.input.end = Len(fr.buf)
      /\ IsFrame(fr) /\ Buffered(fr) /\ fr.consumed + call.src <= MaxInput
      /\ call.src \in Nat /\ fr.consumed \in Nat
  BY DEF Core, TypeInv, CallInv, BufferInv, CallSet, IsFrame, FrameSet
<1>2. fr.consumed <= MaxInput
  BY <1>1, StreamConstants
<1>3. /\ TheBlock.end \in Int /\ NextStart(fr.jb) \in Nat
      /\ NextStart(fr.jb) < TheBlock.end /\ TheBlock.end <= Len(fr.buf)
      /\ call.input.kind = "Open" => TheBlock.end < Len(fr.buf)
      /\ TheBlock.end = NextBlockEnd(fr.jb, call.input, fr.jb.done + 1 \in oracle.cut)
      /\ TheBlock.bytes = Bytes(fr.jb.done, TheBlock.end - NextStart(fr.jb))
      /\ TheBlock.bytes \in Seq(Int)
  BY <1>1, <1>2, NextBlockIs DEF TheBlock
<1>4. fr.jb.lastJob = TRUE
  BY <1>1 DEF IsFrame, IsCursor
<1>5. /\ TheLast \in BOOLEAN
      /\ TheLast <=> call.input.kind = "JobEnd" /\ TheBlock.end = Len(fr.buf)
  <2> DEFINE e == TheBlock.end
             l == TheLast
  <2>1. l = (fr.jb.lastJob /\ call.input.kind = "JobEnd" /\ call.input.end = e)
    BY DEF TheLast, IsLast
  <2> HIDE DEF e, l
  <2>2. l = (call.input.kind = "JobEnd" /\ Len(fr.buf) = e)
    BY <1>1, <1>4, <2>1
  <2>3. l \in BOOLEAN /\ (l <=> call.input.kind = "JobEnd" /\ e = Len(fr.buf))
    BY <2>2
  <2> QED BY <2>3 DEF e, l
<1>6. /\ TheItem \in ItemSet /\ TheItem.item = "block" /\ TheItem.bytes = TheBlock.bytes
      /\ Marked(TheItem) <=> TheLast
  <2>1. TheBlock.bytes \in Seq(Int) /\ TheLast \in BOOLEAN
    BY <1>3, <1>5
  <2> DEFINE y == TheBlock.bytes
             l == TheLast
             k == TheItem
  <2>2. k = Block(y, l)
    BY DEF TheItem
  <2> HIDE DEF y, l, k
  <2>3. y \in Seq(Int) /\ l \in BOOLEAN
    BY <2>1 DEF y, l
  <2>4. k \in ItemSet /\ k.item = "block" /\ k.bytes = y /\ (Marked(k) <=> l)
    BY <2>2, <2>3, IsBlock, Zenon
  <2> QED BY <2>4, Zenon DEF y, l, k
<1> QED BY <1>1, <1>3, <1>5, <1>6

\* The same frame, but for its cursor.
SameData(g, f) ==
    /\ g.buf = f.buf /\ g.cap = f.cap /\ g.content = f.content /\ g.pledged = f.pledged
    /\ g.consumed = f.consumed /\ (NeedsHeader(g) <=> NeedsHeader(f))

(* A block is written: what it leaves.                                     *)
LEMMA WriteBlockIs ==
  ASSUME Core, WriteBlock
  PROVE  /\ call.pc = "blocks" /\ HasReady(fr.jb, call.input)
         /\ out' = Append(out, TheItem)
         /\ fr'.jb = Wrote(fr.jb, TheBlock.end, Gain(TheBlock.bytes))
         /\ IsFrame(fr') /\ fr'.jb.jobStart = fr.jb.jobStart
         /\ fr'.jb.done = TheBlock.end - fr.jb.jobStart /\ NextStart(fr'.jb) = TheBlock.end
         /\ fr'.jb.done = fr.jb.done + (TheBlock.end - NextStart(fr.jb))
         /\ fr'.jb.firstChunkEnd = fr.jb.firstChunkEnd
         /\ fr'.jb.gained = fr.jb.gained + Gain(TheBlock.bytes)
         /\ SameData(fr', fr)
<1> DEFINE e == TheBlock.end
           g == Gain(TheBlock.bytes)
           jb == fr.jb
           w == Wrote(jb, e, g)
           J == jb.jobStart
           D == jb.done
<1>1. /\ call.pc = "blocks" /\ HasReady(jb, call.input)
      /\ out' = Append(out, TheItem) /\ fr' = [fr EXCEPT !.jb = w]
  BY DEF WriteBlock, TheBlock, TheItem, TheLast
<1>2. NextStart(jb) \in Nat /\ e \in Int /\ NextStart(jb) < e
  BY <1>1, TheBlockIs
<1>3. IsFrame(fr) /\ IsCursor(jb) /\ J \in Int /\ D \in Nat
  BY DEF Core, TypeInv, IsFrame, IsCursor, CursorSet
<1>4. NextStart(jb) = J + D
  BY DEF NextStart
<1>5. g \in Int
  BY DEF Gain
<1> HIDE DEF e, g, jb, J, D
<1>6. e >= J /\ e - J = D + (e - NextStart(jb))
  BY <1>2, <1>3, <1>4
<1>7. /\ IsCursor(w) /\ w.jobStart = J /\ w.done = e - J
      /\ w.firstChunkEnd = jb.firstChunkEnd /\ w.gained = jb.gained + g /\ NextStart(w) = e
  BY <1>2, <1>3, <1>5, <1>6, WroteIs DEF J
<1> HIDE DEF w
<1>8. IsFrame(fr') /\ fr'.jb = w /\ SameData(fr', fr)
  <2> DEFINE f == fr
             h == [f EXCEPT !.jb = w]
  <2>1. IsFrame(f) /\ fr' = h
    BY <1>1, <1>3
  <2>2. IsCursor(w)
    BY <1>7
  <2> HIDE DEF f
  <2>3. /\ IsFrame(h) /\ h.jb = w /\ h.buf = f.buf /\ h.cap = f.cap
        /\ h.content = f.content /\ h.pledged = f.pledged /\ h.consumed = f.consumed
        /\ NeedsHeader(h) <=> NeedsHeader(f)
    BY <2>1, <2>2, WithCursor, Zenon
  <2> HIDE DEF h
  <2>4. SameData(h, f)
    BY <2>3, Zenon DEF SameData
  <2> QED BY <2>1, <2>3, <2>4, Zenon DEF f
<1> QED BY <1>1, <1>6, <1>7, <1>8 DEF w, e, g, jb, J, D

(* A block is written.                                                     *)
LEMMA WriteBlockCore ==
  ASSUME Core, WriteBlock
  PROVE  Core'
<1>1. /\ stage' = stage /\ pledged' = pledged /\ prefix' = prefix /\ call' = call
      /\ ret' = ret /\ sent' = sent /\ flushed' = flushed
  BY DEF WriteBlock
<1>2. /\ call.pc = "blocks" /\ HasReady(fr.jb, call.input) /\ out' = Append(out, TheItem)
      /\ IsFrame(fr') /\ fr'.jb.jobStart = fr.jb.jobStart
      /\ fr'.jb.done = TheBlock.end - fr.jb.jobStart /\ NextStart(fr'.jb) = TheBlock.end
      /\ SameData(fr', fr)
  BY WriteBlockIs
<1>3. /\ NextStart(fr.jb) \in Nat /\ TheBlock.end \in Int /\ NextStart(fr.jb) < TheBlock.end
      /\ TheBlock.end <= Len(fr.buf) /\ TheItem \in ItemSet /\ stage = "Frame"
  BY <1>2, TheBlockIs
<1>4. out' \in Seq(ItemSet)
  <2>1. out \in Seq(ItemSet)
    BY DEF Core, TypeInv
  <2> QED BY <1>2, <1>3, <2>1
<1>5. TypeInv'
  BY <1>1, <1>2, <1>4 DEF Core, TypeInv
<1>6. CallInv'
  BY <1>1, <1>2, <1>3 DEF Core, CallInv, SameData
<1>7. Buffered(fr')
  <2>1. Buffered(fr)
    BY <1>3 DEF Core, BufferInv
  <2> DEFINE e == TheBlock.end
             J == fr.jb.jobStart
             D == fr.jb.done
             C == fr.consumed
  <2>2. J \in Int /\ D \in Nat /\ C \in Nat
    BY DEF Core, TypeInv, IsFrame, FrameSet, CursorSet
  <2>3. NextStart(fr.jb) = J + D
    BY DEF NextStart
  <2>4. Len(fr.buf) = J + C
    BY <2>1 DEF Buffered
  <2>5. fr'.jb.jobStart = J /\ fr'.jb.done = e - J /\ NextStart(fr'.jb) = e
    BY <1>2
  <2>6. NextStart(fr.jb) >= WindowSize /\ D > WindowSize
          => NextStart(fr'.jb) >= WindowSize /\ fr'.jb.done > WindowSize
    <3> HIDE DEF e, J, D
    <3>1. e > J + D /\ e \in Int
      BY <1>3, <2>3 DEF e
    <3> QED BY <2>2, <2>3, <2>5, <3>1, StreamConstants
  <2>7. fr'.jb.done <= C
    <3> HIDE DEF e, J, C
    <3>1. e <= J + C /\ e \in Int
      BY <1>3, <2>4 DEF e
    <3> QED BY <2>2, <2>5, <3>1
  <2> QED BY <1>2, <2>1, <2>6, <2>7 DEF Buffered, SameData
<1>8. BufferInv'
  BY <1>1, <1>2, <1>3, <1>7 DEF Core, BufferInv, SameData
<1> QED BY <1>5, <1>6, <1>8 DEF Core

(* No block is ready any more.                                             *)
LEMMA BlocksDoneIs ==
  ASSUME Core, BlocksDone
  PROVE  /\ call.pc = "blocks" /\ stage = "Frame" /\ ~HasReady(fr.jb, call.input)
         /\ call.input \in InputSet /\ call.input.end = Len(fr.buf)
         /\ IsFrame(fr') /\ SameData(fr', fr)
         /\ fr'.jb.jobStart = fr.jb.jobStart /\ fr'.jb.done = fr.jb.done
         /\ NextStart(fr'.jb) = NextStart(fr.jb)
         /\ call.input.kind # "Chunk" => fr' = fr
         /\ call' \in CallSet /\ call'.pc = "flush" /\ call'.input.kind = "None"
         /\ call'.src = call.src /\ call'.op = call.op
         /\ call.input.kind = "JobEnd" => /\ out' = Append(out, Epilogue)
                                          /\ stage' = "Ended"
         /\ call.input.kind # "JobEnd" => out' = out /\ stage' = stage
<1> DEFINE jb == InputEnded(fr.jb, call.input)
<1>1. /\ call.pc = "blocks" /\ ~HasReady(fr.jb, call.input)
      /\ fr' = [fr EXCEPT !.jb = jb]
      /\ call' = [call EXCEPT !.pc = "flush", !.input = NoInput]
      /\ call.input.kind = "JobEnd" => out' = Append(out, Epilogue) /\ stage' = "Ended"
      /\ call.input.kind # "JobEnd" => out' = out /\ stage' = stage
  BY DEF BlocksDone
<1>2. /\ stage = "Frame" /\ call.input \in InputSet /\ call.input.end = Len(fr.buf)
      /\ IsFrame(fr) /\ call \in CallSet /\ IsCursor(fr.jb)
  BY <1>1 DEF Core, TypeInv, CallInv, CallSet, IsFrame
<1>3. /\ IsCursor(jb) /\ jb.jobStart = fr.jb.jobStart /\ jb.done = fr.jb.done
      /\ NextStart(jb) = NextStart(fr.jb)
      /\ call.input.kind # "Chunk" => jb = fr.jb
  <2>1. call.input.end \in Nat
    BY <1>2 DEF InputSet
  <2> QED BY <1>2, <2>1, InputEndedIs
<1> HIDE DEF jb
<1>4. IsFrame(fr') /\ fr'.jb = jb /\ SameData(fr', fr)
  <2> DEFINE f == fr
             h == [f EXCEPT !.jb = jb]
  <2>1. IsFrame(f) /\ fr' = h
    BY <1>1, <1>2
  <2> HIDE DEF f
  <2>2. IsFrame(h) /\ h.jb = jb /\ SameData(h, f)
    BY <1>3, <2>1, WithCursor, Zenon DEF SameData
  <2> HIDE DEF h
  <2> QED BY <2>1, <2>2, Zenon DEF f
<1>5. /\ call' \in CallSet /\ call'.pc = "flush" /\ call'.input.kind = "None"
      /\ call'.src = call.src /\ call'.op = call.op
  BY <1>1, <1>2 DEF CallSet, NoInput, InputSet
<1>6. call.input.kind # "Chunk" => fr' = fr
  BY <1>1, <1>2, <1>3 DEF IsFrame, FrameSet
<1> QED BY <1>1, <1>2, <1>3, <1>4, <1>5, <1>6

(* The blocks are written.                                                 *)
LEMMA BlocksDoneCore ==
  ASSUME Core, BlocksDone
  PROVE  Core'
<1>1. /\ pledged' = pledged /\ prefix' = prefix /\ ret' = ret /\ sent' = sent
      /\ flushed' = flushed
  BY DEF BlocksDone
<1>2. /\ call.pc = "blocks" /\ stage = "Frame" /\ ~HasReady(fr.jb, call.input)
      /\ call.input \in InputSet /\ call.input.end = Len(fr.buf)
      /\ IsFrame(fr') /\ SameData(fr', fr)
      /\ fr'.jb.jobStart = fr.jb.jobStart /\ fr'.jb.done = fr.jb.done
      /\ NextStart(fr'.jb) = NextStart(fr.jb)
      /\ call' \in CallSet /\ call'.pc = "flush" /\ call'.input.kind = "None"
      /\ call'.src = call.src
      /\ call.input.kind = "JobEnd" => out' = Append(out, Epilogue) /\ stage' = "Ended"
      /\ call.input.kind # "JobEnd" => out' = out /\ stage' = stage
  BY BlocksDoneIs
<1>3. out' \in Seq(ItemSet) /\ stage' \in {"Frame", "Ended"}
  <2>1. out \in Seq(ItemSet) /\ Epilogue \in ItemSet
    BY EpilogueIs DEF Core, TypeInv
  <2> QED BY <1>2, <2>1
<1>4. TypeInv'
  BY <1>1, <1>2, <1>3 DEF Core, TypeInv
<1>5. CallInv'
  BY <1>2, <1>3 DEF Core, CallInv, SameData
<1>6. BufferInv'
  <2>1. CASE call.input.kind = "JobEnd"
    BY <1>2, <2>1 DEF BufferInv
  <2>2. CASE call.input.kind # "JobEnd"
    <3>1. Buffered(fr) /\ Len(fr.buf) <= fr.cap /\ fr.buf \in Seq(Int) /\ IsCursor(fr.jb)
      BY <1>2, <2>2 DEF Core, BufferInv, TypeInv, IsFrame, FrameSet
    <3>2. Buffered(fr')
      BY <1>2, <3>1 DEF Buffered, SameData
    <3>3. Len(fr.buf) - NextStart(fr.jb) <= BlockSizeMax
      <4>1. fr.jb.sizing.blockSizeMax = BlockSizeMax /\ BlockSizeMax \in Nat
        BY <3>1, StreamConstants DEF IsCursor, CursorSet, FrameSizing
      <4>2. Len(fr.buf) \in Nat /\ NextStart(fr.jb) \in Int
        BY <3>1 DEF IsCursor, CursorSet, NextStart
      <4> QED BY <1>2, <4>1, <4>2 DEF HasReady, Ready
    <3> QED BY <1>2, <3>1, <3>2, <3>3 DEF BufferInv, SameData
  <2> QED BY <2>1, <2>2
<1> QED BY <1>4, <1>5, <1>6 DEF Core

(* Every step.                                                             *)
LEMMA CoreNext == Core /\ [Next]_vars => Core'
<1> SUFFICES ASSUME Core, [Next]_vars PROVE Core'
  OBVIOUS
<1>1. CASE AnyCall
  BY <1>1, CallCore DEF AnyCall
<1>2. ASSUME NEW size \in Pledges \cup {NoSize}, SetPledgedSrcSize(size)
      PROVE  Core'
  <2>1. size \in Int
    BY StreamConstants DEF NoSize
  <2>2. /\ stage' = stage /\ out' = out /\ pledged' = size /\ prefix' = prefix /\ fr' = fr
        /\ call' = call /\ ret' = ret /\ sent' = sent /\ flushed' = flushed
    BY <1>2 DEF SetPledgedSrcSize
  <2> QED BY <2>1, <2>2 DEF Core, TypeInv, CallInv, BufferInv
<1>3. ASSUME NEW len \in PrefixLens, SetPrefix(len)
      PROVE  Core'
  <2>1. len \in Nat
    BY StreamConstants
  <2>2. /\ stage' = stage /\ out' = out /\ pledged' = pledged /\ prefix' = len /\ fr' = fr
        /\ call' = call /\ ret' = ret /\ sent' = sent /\ flushed' = flushed
    BY <1>3 DEF SetPrefix
  <2> QED BY <2>1, <2>2 DEF Core, TypeInv, CallInv, BufferInv
<1>4. CASE ResetStream
  BY <1>4, ResetCore
<1>5. CASE FlushTo
  BY <1>5, FlushCore
<1>6. CASE StepFailed
  BY <1>6, FailCore DEF StepFailed, Errors
<1>7. CASE StepEnded
  BY <1>7, StepEndedCore
<1>8. CASE StepIdleEnd
  BY <1>8, StepIdleEndCore
<1>9. CASE StepIdle
  BY <1>9, StepIdleCore
<1>10. CASE StepAccept
  BY <1>10, StepAcceptCore
<1>11. CASE StepContinue
  BY <1>11, StepContinueCore
<1>12. CASE StepFlush
  BY <1>12, StepFlushCore
<1>13. CASE StepEnd
  BY <1>13, StepEndCore
<1>14. CASE WriteBlock
  BY <1>14, WriteBlockCore
<1>15. CASE BlocksDone
  BY <1>15, BlocksDoneCore
<1>16. CASE UNCHANGED vars
  BY <1>16 DEF vars, Core, TypeInv, CallInv, BufferInv
<1> QED
  BY <1>1, <1>2, <1>3, <1>4, <1>5, <1>6, <1>7, <1>8, <1>9, <1>10, <1>11, <1>12, <1>13,
     <1>14, <1>15, <1>16 DEF Next, LoopStep

(* The core of the invariant holds.                                        *)
LEMMA CoreHolds == Spec => []Core
BY CoreInit, CoreNext, PTL DEF Spec

(* A sequence that ends another is its suffix.                             *)
LEMMA SuffixIs ==
  ASSUME NEW s \in Seq(Int), NEW t \in Seq(Int), Len(s) <= Len(t),
         \A i \in 1..Len(s) : s[i] = t[Len(t) - Len(s) + i]
  PROVE  IsSuffix(s, t)
<1> DEFINE n == Len(s)
           m == Len(t)
           r == Reverse(s)
           q == Reverse(t)
<1>1. n \in Nat /\ m \in Nat /\ n <= m
  OBVIOUS
<1>2. \A i \in 1..n : s[i] \in Int
  OBVIOUS
<1>3. r = [i \in 1..n |-> s[n - i + 1]] /\ q = [i \in 1..m |-> t[m - i + 1]]
  BY DEF Reverse
<1>4. \A i \in 1..n : s[i] = t[m - n + i]
  OBVIOUS
<1>5. \A i \in 1..m : t[i] \in Int
  OBVIOUS
<1> HIDE DEF n, m, r, q
<1>6. r \in Seq(Int) /\ Len(r) = n
  <2>1. \A i \in 1..n : s[n - i + 1] \in Int
    BY <1>1, <1>2
  <2> QED BY <1>1, <1>3, <2>1
<1>7. q \in Seq(Int) /\ Len(q) = m
  <2>1. \A i \in 1..m : t[m - i + 1] \in Int
    BY <1>1, <1>5
  <2> QED BY <1>1, <1>3, <2>1
<1>8. ASSUME NEW i \in 1..n
      PROVE  r[i] = q[i]
  <2> DEFINE k == n - i + 1
  <2>1. k \in 1..n /\ i \in 1..m /\ m - n + k = m - i + 1
    BY <1>1
  <2>2. r[i] = s[k] /\ q[i] = t[m - i + 1]
    BY <1>3, <2>1
  <2> HIDE DEF k
  <2> QED BY <1>4, <2>1, <2>2
<1>9. SubSeq(r, 1, n) = SubSeq(q, 1, n)
  <2> DEFINE u == SubSeq(r, 1, n)
             v == SubSeq(q, 1, n)
  <2>1. u \in Seq(Int) /\ Len(u) = n /\ \A i \in 1..n : u[i] = r[i]
    BY <1>1, <1>6
  <2>2. v \in Seq(Int) /\ Len(v) = n /\ \A i \in 1..n : v[i] = q[i]
    BY <1>1, <1>7
  <2> HIDE DEF u, v
  <2>3. \A i \in 1..n : u[i] = v[i]
    BY <1>8, <2>1, <2>2
  <2>4. u = v
    BY <1>1, <2>1, <2>2, <2>3
  <2> QED BY <2>4 DEF u, v
<1> QED BY <1>1, <1>6, <1>7, <1>9 DEF IsSuffix, IsPrefix, r, q

(* The history a frame needs is in its buffer.                             *)
LEMMA BufferedHistory ==
  ASSUME NEW f, IsFrame(f), Buffered(f)
  PROVE  LET history == Content(f.content) \o Bytes(0, f.jb.done)
             held    == SubSeq(f.buf, 1, NextStart(f.jb))
         IN  /\ NextStart(f.jb) \in 0..Len(f.buf)
             /\ IsSuffix(held, history)
             /\ Len(held) >= Least(Len(history), WindowSize)
             /\ f.jb.done <= WindowSize => held = history
<1> DEFINE s == f.buf
           K == f.content
           J == f.jb.jobStart
           D == f.jb.done
           C == f.consumed
           N == NextStart(f.jb)
           a == Content(K)
           b == Bytes(0, D)
           h == a \o b
           e == SubSeq(s, 1, N)
           L == Len(s)
<1>1. s \in Seq(Int) /\ L \in Nat /\ K \in Nat /\ J \in Int /\ D \in Nat /\ C \in Nat
  BY DEF IsFrame, FrameSet, CursorSet
<1>2. /\ L = J + C /\ J <= K /\ D <= C /\ \A i \in 1..L : s[i] = ByteOf(K, i + K - J)
      /\ J = K \/ (N >= WindowSize /\ D > WindowSize)
  BY DEF Buffered
<1>3. N = J + D /\ WindowSize \in Nat
  BY StreamConstants DEF NextStart
<1>4. a \in Seq(Int) /\ Len(a) = K /\ \A i \in 1..K : a[i] = i - K - 1
  BY <1>1, ContentIs
<1>5. b \in Seq(Int) /\ Len(b) = D /\ \A i \in 1..D : b[i] = 0 + i
  <2>1. 0 \in Int
    OBVIOUS
  <2> QED BY <1>1, <2>1, BytesIs
<1> HIDE DEF s, K, J, D, C, N, a, b, L
<1>6. N \in 0..L
  BY <1>1, <1>2, <1>3
<1>7. /\ h \in Seq(Int) /\ Len(h) = K + D
      /\ \A i \in 1..K : h[i] = a[i]
      /\ \A i \in 1..D : h[K + i] = b[i]
  <2>1. /\ h \in Seq(Int) /\ Len(h) = Len(a) + Len(b)
        /\ \A i \in 1..Len(a) : h[i] = a[i]
        /\ \A i \in 1..Len(b) : h[Len(a) + i] = b[i]
    <3>1. a \in Seq(Int) /\ b \in Seq(Int)
      BY <1>4, <1>5
    <3> QED BY <3>1, JoinIs, Zenon
  <2> HIDE DEF h
  <2> QED BY <1>4, <1>5, <2>1
<1> HIDE DEF h
<1>8. ASSUME NEW i \in 1..(K + D)
      PROVE  h[i] = ByteOf(K, i)
  <2>1. CASE i <= K
    BY <1>1, <1>4, <1>7, <2>1 DEF ByteOf
  <2>2. CASE i > K
    <3> DEFINE j == i - K
    <3>1. j \in 1..D /\ i = K + j
      BY <1>1, <2>2
    <3> HIDE DEF j
    <3>2. h[i] = 0 + j
      BY <1>5, <1>7, <3>1
    <3> QED BY <1>1, <2>2, <3>1, <3>2 DEF ByteOf
  <2> QED BY <1>1, <2>1, <2>2
<1>9. e \in Seq(Int) /\ Len(e) = N /\ \A i \in 1..N : e[i] = s[i]
  <2>1. N \in 0..Len(s)
    BY <1>6 DEF L
  <2> QED BY <1>1, <2>1
<1> HIDE DEF e
<1>10. ASSUME NEW i \in 1..N
       PROVE  e[i] = h[(K + D) - N + i]
  <2> DEFINE j == (K + D) - N + i
  <2>1. j = i + K - J /\ i \in 1..L /\ j \in 1..(K + D)
    BY <1>1, <1>2, <1>3, <1>6
  <2> HIDE DEF j
  <2>2. e[i] = ByteOf(K, j)
    BY <1>2, <1>9, <2>1
  <2>3. h[j] = ByteOf(K, j)
    BY <1>8, <2>1
  <2> QED BY <2>2, <2>3 DEF j
<1>11. N <= K + D
  BY <1>1, <1>2, <1>3
<1>12. IsSuffix(e, h)
  BY <1>7, <1>9, <1>10, <1>11, SuffixIs
<1>13. N >= Least(K + D, WindowSize)
  BY <1>1, <1>2, <1>3 DEF Least
<1>14. ASSUME D <= WindowSize
       PROVE  e = h
  <2>1. N = K + D
    BY <1>1, <1>2, <1>3, <1>14
  <2>2. \A i \in 1..N : e[i] = h[i]
    <3> SUFFICES ASSUME NEW i \in 1..N PROVE e[i] = h[i]
      OBVIOUS
    <3>1. (K + D) - N + i = i
      BY <1>1, <2>1
    <3> QED BY <1>10, <3>1
  <2> QED BY <1>7, <1>9, <2>1, <2>2
<1> QED BY <1>6, <1>7, <1>9, <1>12, <1>13, <1>14 DEF N, L, s, K, D, a, b, h, e

(* Moving the buffer never drops a byte a match may reference: a window,   *)
(* or all there was, and all of the prefix until more than a window of     *)
(* input follows it.                                                       *)
THEOREM HistoryIsKept == Spec => []HistoryKept
<1>1. Core => HistoryKept
  <2> SUFFICES ASSUME Core, stage = "Frame" PROVE HistoryKept
    BY DEF HistoryKept
  <2>1. IsFrame(fr) /\ Buffered(fr)
    BY DEF Core, TypeInv, BufferInv
  <2> QED BY <2>1, BufferedHistory, Zenon DEF HistoryKept
<1> QED BY <1>1, CoreHolds, PTL

-----------------------------------------------------------------------------
(* The frame is well formed.                                               *)

(* An item more.                                                           *)
LEMMA AppendIs ==
  ASSUME NEW s \in Seq(ItemSet), NEW x \in ItemSet
  PROVE  /\ Append(s, x) \in Seq(ItemSet) /\ Len(Append(s, x)) = Len(s) + 1
         /\ \A i \in 1..Len(s) : Append(s, x)[i] = s[i]
         /\ Append(s, x)[Len(s) + 1] = x
OBVIOUS

(* An item more is pending: it follows all.                                *)
LEMMA JoinAppend ==
  ASSUME NEW s \in Seq(ItemSet), NEW o \in Seq(ItemSet), NEW x \in ItemSet
  PROVE  s \o Append(o, x) = Append(s \o o, x)
<1> DEFINE S == Len(s)
           O == Len(o)
           p == Append(o, x)
           u == s \o p
           j == s \o o
           v == Append(j, x)
<1>1. p \in Seq(ItemSet) /\ Len(p) = O + 1 /\ (\A i \in 1..O : p[i] = o[i]) /\ p[O + 1] = x
  BY AppendIs
<1> HIDE DEF p
<1>2. /\ u \in Seq(ItemSet) /\ Len(u) = S + Len(p) /\ \A i \in 1..S : u[i] = s[i]
      /\ \A i \in 1..Len(p) : u[S + i] = p[i]
  BY <1>1, JoinItemsIs, Zenon
<1>3. /\ j \in Seq(ItemSet) /\ Len(j) = S + O /\ \A i \in 1..S : j[i] = s[i]
      /\ \A i \in 1..O : j[S + i] = o[i]
  BY JoinItemsIs, Zenon
<1>4. S \in Nat /\ O \in Nat
  OBVIOUS
<1> HIDE DEF j, u, S, O
<1>5. /\ v \in Seq(ItemSet) /\ Len(v) = Len(j) + 1
      /\ (\A i \in 1..Len(j) : v[i] = j[i]) /\ v[Len(j) + 1] = x
  BY <1>3, AppendIs, Zenon
<1> HIDE DEF v
<1>6. ASSUME NEW i \in 1..(S + O + 1)
      PROVE  u[i] = v[i]
  <2>1. CASE i <= S
    BY <1>2, <1>3, <1>4, <1>5, <2>1
  <2>2. CASE i > S /\ i <= S + O
    <3> DEFINE k == i - S
    <3>1. k \in 1..O /\ k \in 1..(O + 1) /\ i = S + k /\ i \in 1..(S + O)
      BY <1>4, <2>2
    <3> HIDE DEF k
    <3>2. u[i] = o[k]
      BY <1>1, <1>2, <3>1
    <3>3. v[i] = o[k]
      BY <1>3, <1>5, <3>1
    <3> QED BY <3>2, <3>3
  <2>3. CASE i = S + O + 1
    <3>1. O + 1 \in 1..(O + 1) /\ i = S + (O + 1)
      BY <1>4, <2>3
    <3>2. u[i] = x
      BY <1>1, <1>2, <3>1
    <3>3. v[i] = x
      BY <1>3, <1>5, <2>3
    <3> QED BY <3>2, <3>3
  <2> QED BY <1>4, <2>1, <2>2, <2>3
<1>7. Len(u) = S + O + 1 /\ Len(v) = S + O + 1
  BY <1>1, <1>2, <1>3, <1>4, <1>5
<1>8. u = v
  BY <1>2, <1>5, <1>6, <1>7
<1> QED BY <1>8 DEF u, v, j, p

(* A header begins a frame.                                                *)
LEMMA GoingBegins ==
  ASSUME NEW size \in Int
  PROVE  Going(<<Header(size)>>, size)
<1> DEFINE h == Header(size)
<1> HIDE DEF h
<1>1. Len(<<h>>) = 1 /\ <<h>>[1] = h
  OBVIOUS
<1> QED BY <1>1 DEF Going, h

(* A block continues it, or is its last.                                   *)
LEMMA GoingGoes ==
  ASSUME NEW s \in Seq(ItemSet), NEW size, Going(s, size), NEW x \in ItemSet,
         x.item = "block"
  PROVE  /\ ~Marked(x) => Going(Append(s, x), size)
         /\ Marked(x) => Closed(Append(s, x), size)
<1> DEFINE t == Append(s, x)
           n == Len(s)
           h == Header(size)
<1>1. t \in Seq(ItemSet) /\ Len(t) = n + 1 /\ (\A i \in 1..n : t[i] = s[i]) /\ t[n + 1] = x
  BY AppendIs
<1>2. /\ n \in Nat /\ n >= 1 /\ s[1] = h
      /\ \A i \in 2..n : s[i].item = "block" /\ ~Marked(s[i])
  BY DEF Going
<1> HIDE DEF t, n, h
<1>3. t[1] = h
  BY <1>1, <1>2
<1>4. \A i \in 2..n : t[i] = s[i] /\ i # n + 1
  BY <1>1, <1>2
<1>5. \A i \in 2..(n + 1) : i \in 2..n \/ i = n + 1
  BY <1>2
<1>6. \A i \in 2..n : t[i].item = "block" /\ ~Marked(t[i])
  BY <1>2, <1>4
<1>7. \A i \in 2..(n + 1) : t[i].item = "block" /\ (Marked(t[i]) => i = n + 1 /\ Marked(x))
  BY <1>1, <1>5, <1>6
<1>8. ~Marked(x) => Going(t, size)
  <2> SUFFICES ASSUME ~Marked(x) PROVE Going(t, size)
    OBVIOUS
  <2>1. \A i \in 2..(n + 1) : t[i].item = "block" /\ ~Marked(t[i])
    BY <1>7
  <2>2. Len(t) >= 1
    BY <1>1, <1>2
  <2> QED BY <1>1, <1>3, <2>1, <2>2 DEF Going, h
<1>9. Marked(x) => Closed(t, size)
  <2> SUFFICES ASSUME Marked(x) PROVE Closed(t, size)
    OBVIOUS
  <2>1. \A i \in 2..(n + 1) : t[i].item = "block" /\ (Marked(t[i]) <=> i = n + 1)
    BY <1>1, <1>7
  <2>2. Len(t) >= 2
    BY <1>1, <1>2
  <2> QED BY <1>1, <1>3, <2>1, <2>2 DEF Closed, h
<1> QED BY <1>8, <1>9 DEF t

(* The epilogue completes it.                                              *)
LEMMA ClosedEnds ==
  ASSUME NEW s \in Seq(ItemSet), NEW size, Closed(s, size)
  PROVE  Whole(Append(s, Epilogue), size)
<1> DEFINE x == Epilogue
           t == Append(s, x)
           n == Len(s)
           h == Header(size)
<1>1. x \in ItemSet
  BY EpilogueIs
<1> HIDE DEF x
<1>2. t \in Seq(ItemSet) /\ Len(t) = n + 1 /\ (\A i \in 1..n : t[i] = s[i]) /\ t[n + 1] = x
  BY <1>1, AppendIs
<1>3. /\ n \in Nat /\ n >= 2 /\ s[1] = h
      /\ \A i \in 2..n : s[i].item = "block" /\ (Marked(s[i]) <=> i = n)
  BY DEF Closed
<1> HIDE DEF t, n, h
<1>4. t[1] = h /\ Len(t) >= 3 /\ Len(t) - 1 = n
  BY <1>2, <1>3
<1>5. \A i \in 2..n : t[i] = s[i]
  BY <1>2, <1>3
<1>6. \A i \in 2..n : t[i].item = "block" /\ (Marked(t[i]) <=> i = n)
  BY <1>3, <1>5
<1>7. t[Len(t)] = x
  BY <1>2
<1> QED BY <1>4, <1>6, <1>7 DEF Whole, h, t, x

(* Nothing pending: what was sent is all.                                  *)
LEMMA NothingPending ==
  ASSUME Core, out = <<>>
  PROVE  Items = sent /\ Items \in Seq(ItemSet)
<1>1. sent \in Seq(ItemSet)
  BY DEF Core, TypeInv
<1> QED BY <1>1 DEF Items

(* All that was written is a sequence of items.                            *)
LEMMA ItemsAre ==
  ASSUME Core
  PROVE  Items \in Seq(ItemSet)
<1>1. sent \in Seq(ItemSet) /\ out \in Seq(ItemSet)
  BY DEF Core, TypeInv
<1> QED BY <1>1 DEF Items

(* A step that leaves the frame and what is written.                       *)
LEMMA KeptItems ==
  ASSUME Core, Core', ItemsInv, Items' = Items, fr' = fr, stage' = stage,
         call.pc # "blocks", call'.pc # "blocks"
  PROVE  ItemsInv'
<1>1. call.input.kind # "JobEnd" /\ call'.input.kind # "JobEnd"
  BY DEF Core, CallInv
<1>2. ~AllWritten /\ ~AllWritten'
  BY <1>1 DEF AllWritten
<1> QED BY <1>1, <1>2 DEF ItemsInv

(* A step that leaves no frame.                                            *)
LEMMA NoItems ==
  ASSUME Core', stage' \in {"Idle", "Failed"}
  PROVE  ItemsInv'
<1>1. call'.input.kind # "JobEnd"
  BY DEF Core, CallInv
<1> QED BY <1>1 DEF ItemsInv

(* A header that is due, and what was sent, begin the frame.               *)
LEMMA HeaderGoing ==
  ASSUME Core, ItemsInv, stage = "Frame", call.pc = "match", NEW f, IsFrame(f),
         f.pledged = fr.pledged, NeedsHeader(f) <=> NeedsHeader(fr)
  PROVE  /\ Going(sent \o HeaderItems(f), fr.pledged)
         /\ sent \o HeaderItems(f) \in Seq(ItemSet)
         /\ ~NeedsHeader(f) => sent \o HeaderItems(f) = Items
<1>1. out = <<>> /\ ~AllWritten
  BY DEF Core, CallInv, AllWritten
<1>2. sent \in Seq(ItemSet) /\ fr.pledged \in Int
  BY DEF Core, TypeInv, IsFrame, FrameSet
<1>3. Items = sent
  BY <1>1, NothingPending
<1>4. CASE NeedsHeader(f)
  <2>1. sent = <<>>
    BY <1>3, <1>4 DEF ItemsInv
  <2>2. HeaderItems(f) = <<Header(fr.pledged)>>
    BY <1>4, HeaderItemsIs
  <2>3. Header(fr.pledged) \in ItemSet
    BY <1>2, HeaderIs
  <2>4. sent \o HeaderItems(f) = <<Header(fr.pledged)>>
    <3> DEFINE h == Header(fr.pledged)
    <3> HIDE DEF h
    <3>1. <<>> \o <<h>> = <<h>>
      OBVIOUS
    <3> QED BY <2>1, <2>2, <3>1 DEF h
  <2>5. Going(<<Header(fr.pledged)>>, fr.pledged)
    BY <1>2, GoingBegins
  <2>6. <<Header(fr.pledged)>> \in Seq(ItemSet)
    BY <2>3
  <2> QED BY <1>4, <2>4, <2>5, <2>6
<1>5. CASE ~NeedsHeader(f)
  <2>1. HeaderItems(f) = <<>>
    BY <1>5, HeaderItemsIs
  <2>2. sent \o <<>> = sent
    BY <1>2
  <2>3. Going(Items, fr.pledged)
    BY <1>1, <1>5 DEF ItemsInv
  <2> QED BY <1>2, <1>3, <2>1, <2>2, <2>3
<1> QED BY <1>4, <1>5

(* Blocks that input makes ready follow the header, or it waits.           *)
LEMMA StartedItems ==
  ASSUME Core, Core', ItemsInv, stage = "Frame", stage' = "Frame", call.pc = "match",
         sent' = sent, NEW c \in CallSet, NEW f, IsFrame(f), NEW input \in InputSet,
         input.kind # "JobEnd", StartBlocks(c, f, input), f.pledged = fr.pledged,
         NeedsHeader(f) <=> NeedsHeader(fr)
  PROVE  ItemsInv'
<1>1. /\ call'.input = input /\ SameBlocks(fr', f)
      /\ call'.pc = IF HasReady(f.jb, input) THEN "blocks" ELSE "flush"
      /\ out' = IF HasReady(f.jb, input) THEN HeaderItems(f) ELSE <<>>
      /\ HasReady(f.jb, input) => ~NeedsHeader(fr')
      /\ ~HasReady(f.jb, input) => fr' = f
  BY StartBlocksIs
<1>2. ~AllWritten' /\ call'.input.kind # "JobEnd"
  BY <1>1 DEF AllWritten
<1>3. fr'.pledged = fr.pledged
  BY <1>1 DEF SameBlocks
<1>4. CASE HasReady(f.jb, input)
  <2>1. Items' = sent \o HeaderItems(f)
    BY <1>1, <1>4 DEF Items
  <2>2. Going(Items', fr.pledged)
    BY <2>1, HeaderGoing
  <2> QED BY <1>1, <1>2, <1>3, <1>4, <2>2 DEF ItemsInv
<1>5. CASE ~HasReady(f.jb, input)
  <2>1. out = <<>> /\ ~AllWritten
    BY DEF Core, CallInv, AllWritten
  <2>2. Items' = Items
    BY <1>1, <1>5, <2>1 DEF Items
  <2>3. NeedsHeader(fr') <=> NeedsHeader(fr)
    BY <1>1, <1>5
  <2> QED BY <1>1, <1>2, <1>3, <1>5, <2>1, <2>2, <2>3 DEF ItemsInv
<1> QED BY <1>4, <1>5

(* The last blocks follow the header, or an empty one.                     *)
LEMMA FinishedItems ==
  ASSUME Core', stage' = "Frame", NEW c \in CallSet, NEW f, IsFrame(f), Finish(c, f),
         Going(sent' \o HeaderItems(f), f.pledged), sent' \in Seq(ItemSet),
         sent' \o HeaderItems(f) \in Seq(ItemSet),
         f.pledged = NoSize \/ f.pledged = f.consumed
  PROVE  ItemsInv'
<1>1. /\ FrameEnd(f).kind = "JobEnd" /\ call'.input = FrameEnd(f) /\ call'.pc = "blocks"
      /\ HasReady(f.jb, FrameEnd(f)) => out' = HeaderItems(f)
      /\ ~HasReady(f.jb, FrameEnd(f)) => out' = Append(HeaderItems(f), Block(<<>>, TRUE))
      /\ SameBlocks(fr', f) /\ ~NeedsHeader(fr')
  BY FinishIs
<1>2. fr'.pledged = f.pledged /\ fr'.consumed = f.consumed /\ fr'.jb = f.jb
  BY <1>1 DEF SameBlocks
<1>3. AllWritten' <=> ~HasReady(f.jb, FrameEnd(f))
  BY <1>1, <1>2 DEF AllWritten
<1>4. CASE HasReady(f.jb, FrameEnd(f))
  <2>1. Items' = sent' \o HeaderItems(f)
    BY <1>1, <1>4 DEF Items
  <2> QED BY <1>1, <1>2, <1>3, <1>4, <2>1 DEF ItemsInv
<1>5. CASE ~HasReady(f.jb, FrameEnd(f))
  <2> DEFINE h == HeaderItems(f)
             z == Block(<<>>, TRUE)
  <2>1. z \in ItemSet /\ z.item = "block" /\ Marked(z)
    <3>1. <<>> \in Seq(Int) /\ TRUE \in BOOLEAN
      OBVIOUS
    <3> QED BY <3>1, BlockIs, Zenon
  <2>2. h \in Seq(ItemSet)
    BY HeaderItemsIs
  <2>3. Items' = sent' \o Append(h, z)
    BY <1>1, <1>5 DEF Items
  <2> HIDE DEF h, z
  <2>4. Items' = Append(sent' \o h, z)
    BY <2>1, <2>2, <2>3, JoinAppend
  <2>5. Closed(Items', f.pledged)
    <3>1. Going(sent' \o h, f.pledged) /\ sent' \o h \in Seq(ItemSet)
      BY DEF h
    <3> DEFINE s == sent' \o h
    <3> HIDE DEF s
    <3>2. Closed(Append(s, z), f.pledged)
      BY <2>1, <3>1, GoingGoes DEF s
    <3> QED BY <2>4, <3>2 DEF s
  <2> QED BY <1>1, <1>2, <1>3, <1>5, <2>5 DEF ItemsInv
<1> QED BY <1>4, <1>5

(* What is written stays a well-formed beginning, at every step.           *)
LEMMA ItemsNext == Core /\ ItemsInv /\ [Next]_vars => ItemsInv'
<1> SUFFICES ASSUME Core, ItemsInv, [Next]_vars PROVE ItemsInv'
  OBVIOUS
<1>0. Core'
  BY CoreNext
<1>1. CASE AnyCall
  <2>1. /\ Items' = Items /\ fr' = fr /\ stage' = stage /\ call.pc = "idle"
        /\ call' \in CallSet
    BY <1>0, <1>1 DEF AnyCall, Call, Items, Core, TypeInv
  <2>2. call'.pc = "flush"
    BY <1>1 DEF AnyCall, Call, NoCall
  <2> QED BY <1>0, <2>1, <2>2, KeptItems
<1>2. CASE \/ \E size \in Pledges \cup {NoSize} : SetPledgedSrcSize(size)
           \/ \E len \in PrefixLens : SetPrefix(len)
  <2>1. /\ Items' = Items /\ fr' = fr /\ stage' = stage /\ call.pc = "idle" /\ call' = call
    BY <1>2 DEF SetPledgedSrcSize, SetPrefix, Items
  <2> QED BY <1>0, <2>1, KeptItems
<1>3. CASE ResetStream
  BY <1>0, <1>3, NoItems DEF ResetStream
<1>4. CASE FlushTo
  <2>1. /\ Items' = Items
    BY <1>4, FlushCore
  <2>2. fr' = fr /\ stage' = stage /\ call.pc = "flush"
    BY <1>4 DEF FlushTo
  <2>3. call'.pc # "blocks"
    <3>1. \/ call' = NoCall
          \/ \E m : call' = [call EXCEPT !.pc = "match", !.room = m]
      BY <1>4 DEF FlushTo, Return
    <3>2. call \in CallSet
      BY DEF Core, TypeInv
    <3>3. CASE call' = NoCall
      BY <3>3 DEF NoCall
    <3>4. ASSUME NEW m, call' = [call EXCEPT !.pc = "match", !.room = m]
          PROVE  call'.pc # "blocks"
      BY <3>2, <3>4 DEF CallSet
    <3> QED BY <3>1, <3>3, <3>4
  <2> QED BY <1>0, <2>1, <2>2, <2>3, KeptItems
<1>5. CASE StepFailed
  BY <1>0, <1>5, NoItems DEF StepFailed, Fail
<1>6. CASE StepEnded
  BY <1>0, <1>6, NoItems DEF StepEnded
<1>7. CASE StepIdleEnd
  <2>1. CASE pledged # NoSize /\ pledged # call.src
    BY <1>0, <1>7, <2>1, NoItems DEF StepIdleEnd, Fail
  <2>2. CASE ~(pledged # NoSize /\ pledged # call.src)
    <3> DEFINE n == call.src
               len == prefix
               F(ldm) == WholeFrame(n, len, ldm)
               c == [call EXCEPT !.src = 0]
    <3>1. PICK ldm \in Ldms : Finish(c, F(ldm))
      BY <1>7, <2>2 DEF StepIdleEnd, WholeFrame
    <3>2. stage' = "Frame" /\ sent' = <<>>
      BY <1>7, <2>2 DEF StepIdleEnd
    <3>3. n \in Nat /\ len \in Nat /\ c \in CallSet
      BY DEF Core, TypeInv, CallSet
    <3> DEFINE f == F(ldm)
    <3>4. IsFrame(f) /\ f.pledged = n /\ f.consumed = n /\ NeedsHeader(f)
      BY <3>3, BeginWholeIs
    <3>5. Finish(c, f)
      BY <3>1
    <3> HIDE DEF f, n, c
    <3>6. HeaderItems(f) = <<Header(n)>>
      BY <3>4, HeaderItemsIs
    <3>7. Header(n) \in ItemSet /\ n \in Int
      BY <3>3, HeaderIs
    <3>8. sent' \o HeaderItems(f) = <<Header(n)>>
      <4> DEFINE h == Header(n)
      <4> HIDE DEF h
      <4>1. <<>> \o <<h>> = <<h>>
        OBVIOUS
      <4> QED BY <3>2, <3>6, <4>1 DEF h
    <3>9. Going(sent' \o HeaderItems(f), f.pledged)
      BY <3>4, <3>7, <3>8, GoingBegins
    <3>10. sent' \o HeaderItems(f) \in Seq(ItemSet) /\ sent' \in Seq(ItemSet)
      <4> DEFINE h == Header(n)
      <4>1. h \in ItemSet
        BY <3>7
      <4> HIDE DEF h
      <4>2. <<h>> \in Seq(ItemSet) /\ <<>> \in Seq(ItemSet)
        BY <4>1
      <4> QED BY <3>2, <3>8, <4>2, Zenon DEF h
    <3> QED BY <1>0, <3>2, <3>3, <3>4, <3>5, <3>9, <3>10, FinishedItems
  <2> QED BY <2>1, <2>2
<1>8. CASE StepIdle
  <2>1. CASE Multithreaded(pledged)
    BY <1>0, <1>8, <2>1, NoItems DEF StepIdle, Fail
  <2>2. CASE ~Multithreaded(pledged)
    <3>1. PICK ldm \in Ldms : fr' = Begin(pledged, prefix, ldm)
      BY <1>8, <2>2 DEF StepIdle
    <3>2. /\ stage' = "Frame" /\ sent' = <<>> /\ out' = out /\ call.pc = "match"
          /\ call' = [call EXCEPT !.pc = "flush"]
      BY <1>8, <2>2 DEF StepIdle
    <3>3. NeedsHeader(fr')
      BY <3>1, BeginIs DEF Core, TypeInv
    <3>4. Items' = <<>>
      <4>1. out' = <<>>
        BY <3>2 DEF Core, CallInv
      <4> QED BY <3>2, <4>1 DEF Items
    <3>5. call'.pc = "flush"
      BY <3>2 DEF Core, TypeInv, CallSet
    <3>6. call'.input.kind # "JobEnd"
      BY <1>0, <3>5 DEF Core, CallInv
    <3> QED BY <3>2, <3>3, <3>4, <3>5, <3>6 DEF ItemsInv
  <2> QED BY <2>1, <2>2
<1>9. CASE StepAccept
  <2>1. CASE fr.pledged # NoSize /\ fr.consumed + call.src > fr.pledged
    BY <1>0, <1>9, <2>1, NoItems DEF StepAccept, Fail
  <2>2. CASE ~(fr.pledged # NoSize /\ fr.consumed + call.src > fr.pledged)
    <3> DEFINE f == Accept(fr, call.src)
               a == Accepted(fr, call.src)
               input == [kind |-> "Open", end |-> Len(f.buf)]
               c == [call EXCEPT !.src = @ - a]
    <3>1. /\ StartBlocks(c, f, input) /\ stage' = stage /\ sent' = sent
          /\ call.pc = "match" /\ stage = "Frame"
      BY <1>9, <2>2 DEF StepAccept
    <3>2. /\ IsFrame(fr) /\ Buffered(fr) /\ Len(fr.buf) - NextStart(fr.jb) <= BlockSizeMax
          /\ Len(fr.buf) <= fr.cap /\ call \in CallSet /\ call.src \in Nat
      BY <3>1 DEF Core, TypeInv, BufferInv, CallInv, CallSet
    <3>3. /\ a \in 0..call.src /\ IsFrame(f) /\ f.pledged = fr.pledged
          /\ NeedsHeader(f) <=> NeedsHeader(fr)
      BY <3>2, AcceptIs
    <3> HIDE DEF f, a
    <3>4. input \in InputSet /\ input.kind # "JobEnd"
      <4>1. f.buf \in Seq(Int)
        BY <3>3 DEF IsFrame, FrameSet
      <4> QED BY <4>1 DEF InputSet
    <3>5. c \in CallSet
      <4> DEFINE d == call.src - a
      <4>1. d \in Nat /\ c = [call EXCEPT !.src = d]
        BY <3>2, <3>3
      <4> HIDE DEF d
      <4> QED BY <3>2, <4>1 DEF CallSet
    <3> HIDE DEF c, input
    <3> QED BY <1>0, <3>1, <3>3, <3>4, <3>5, StartedItems
  <2> QED BY <2>1, <2>2
<1>10. CASE StepContinue
  <2>1. /\ Items' = Items /\ fr' = fr /\ stage' = stage /\ call.pc = "match"
        /\ call'.pc = "idle"
    BY <1>10 DEF StepContinue, Return, NoCall, Items
  <2> QED BY <1>0, <2>1, KeptItems
<1>11. CASE StepFlush
  <2> DEFINE input == [kind |-> "Chunk", end |-> Len(fr.buf)]
  <2>1. /\ StartBlocks(call, fr, input) /\ stage' = stage /\ sent' = sent
        /\ call.pc = "match" /\ stage = "Frame"
    BY <1>11 DEF StepFlush
  <2>2. IsFrame(fr) /\ call \in CallSet /\ fr.buf \in Seq(Int)
    BY DEF Core, TypeInv, IsFrame, FrameSet
  <2>3. input \in InputSet /\ input.kind # "JobEnd"
    BY <2>2 DEF InputSet
  <2> HIDE DEF input
  <2> QED BY <1>0, <2>1, <2>2, <2>3, StartedItems
<1>12. CASE StepEnd
  <2>1. CASE fr.pledged # NoSize /\ fr.pledged # fr.consumed
    BY <1>0, <1>12, <2>1, NoItems DEF StepEnd, Fail
  <2>2. CASE ~(fr.pledged # NoSize /\ fr.pledged # fr.consumed)
    <3>1. /\ Finish(call, fr) /\ stage' = stage /\ sent' = sent
          /\ call.pc = "match" /\ stage = "Frame"
      BY <1>12, <2>2 DEF StepEnd
    <3>2. IsFrame(fr) /\ call \in CallSet /\ sent \in Seq(ItemSet)
      BY DEF Core, TypeInv
    <3>3. /\ Going(sent \o HeaderItems(fr), fr.pledged)
          /\ sent \o HeaderItems(fr) \in Seq(ItemSet)
      BY <3>1, <3>2, HeaderGoing
    <3> QED BY <1>0, <2>2, <3>1, <3>2, <3>3, FinishedItems
  <2> QED BY <2>1, <2>2
<1>13. CASE WriteBlock
  <2>1. stage' = stage /\ sent' = sent /\ call' = call
    BY <1>13 DEF WriteBlock
  <2>2. /\ call.pc = "blocks" /\ HasReady(fr.jb, call.input) /\ out' = Append(out, TheItem)
        /\ NextStart(fr'.jb) = TheBlock.end /\ SameData(fr', fr) /\ IsFrame(fr')
    BY <1>13, WriteBlockIs
  <2>3. /\ stage = "Frame" /\ call.input.end = Len(fr.buf) /\ TheBlock.end \in Int
        /\ TheBlock.end <= Len(fr.buf) /\ TheItem \in ItemSet /\ TheItem.item = "block"
        /\ Marked(TheItem) <=> call.input.kind = "JobEnd" /\ TheBlock.end = Len(fr.buf)
    BY <2>2, TheBlockIs
  <2>4. Items' = Append(Items, TheItem)
    <3>1. sent \in Seq(ItemSet) /\ out \in Seq(ItemSet)
      BY DEF Core, TypeInv
    <3> QED BY <2>1, <2>2, <2>3, <3>1, JoinAppend DEF Items
  <2>5. ~NeedsHeader(fr) /\ ~NeedsHeader(fr') /\ ~AllWritten
    BY <2>2, <2>3 DEF ItemsInv, SameData, AllWritten
  <2>6. Going(Items, fr.pledged) /\ Items \in Seq(ItemSet)
    BY <2>3, <2>5, ItemsAre DEF ItemsInv
  <2>7. /\ ~Marked(TheItem) => Going(Items', fr.pledged)
        /\ Marked(TheItem) => Closed(Items', fr.pledged)
    BY <2>3, <2>4, <2>6, GoingGoes
  <2>8. AllWritten' <=> Marked(TheItem)
    <3>1. fr.buf \in Seq(Int)
      BY DEF Core, TypeInv, IsFrame, FrameSet
    <3>2. Len(fr.buf) \in Nat
      BY <3>1
    <3>3. AllWritten' <=> call.input.kind = "JobEnd" /\ ~(TheBlock.end < Len(fr.buf))
      BY <2>1, <2>2, <2>3 DEF AllWritten, HasReady, Ready
    <3> QED BY <2>3, <3>2, <3>3
  <2>9. fr'.pledged = fr.pledged /\ fr'.consumed = fr.consumed
    BY <2>2 DEF SameData
  <2> QED BY <2>1, <2>3, <2>5, <2>7, <2>8, <2>9 DEF ItemsInv
<1>14. CASE BlocksDone
  <2>1. sent' = sent
    BY <1>14 DEF BlocksDone
  <2>2. /\ call.pc = "blocks" /\ stage = "Frame" /\ ~HasReady(fr.jb, call.input)
        /\ SameData(fr', fr) /\ call'.pc = "flush" /\ call'.input.kind = "None"
        /\ call.input.kind = "JobEnd" => out' = Append(out, Epilogue) /\ stage' = "Ended"
        /\ call.input.kind # "JobEnd" => out' = out /\ stage' = stage
    BY <1>14, BlocksDoneIs
  <2>3. ~NeedsHeader(fr) /\ ~NeedsHeader(fr') /\ ~AllWritten' /\ fr'.pledged = fr.pledged
        /\ fr'.consumed = fr.consumed
    BY <2>2 DEF ItemsInv, SameData, AllWritten
  <2>4. CASE call.input.kind = "JobEnd"
    <3>1. AllWritten
      BY <2>2, <2>4 DEF AllWritten
    <3>2. /\ Closed(Items, fr.pledged) /\ Items \in Seq(ItemSet)
          /\ fr.pledged = NoSize \/ fr.pledged = fr.consumed
      BY <2>2, <2>3, <2>4, <3>1, ItemsAre DEF ItemsInv
    <3>3. Items' = Append(Items, Epilogue)
      <4>1. sent \in Seq(ItemSet) /\ out \in Seq(ItemSet) /\ Epilogue \in ItemSet
        BY EpilogueIs DEF Core, TypeInv
      <4> QED BY <2>1, <2>2, <2>4, <4>1, JoinAppend DEF Items
    <3>4. Whole(Items', fr.pledged)
      BY <3>2, <3>3, ClosedEnds
    <3> QED BY <2>2, <2>3, <2>4, <3>2, <3>4 DEF ItemsInv
  <2>5. CASE call.input.kind # "JobEnd"
    <3>1. Items' = Items /\ ~AllWritten
      BY <2>1, <2>2, <2>5 DEF Items, AllWritten
    <3> QED BY <2>2, <2>3, <2>5, <3>1 DEF ItemsInv
  <2> QED BY <2>4, <2>5
<1>15. CASE UNCHANGED vars
  BY <1>15 DEF vars, ItemsInv, AllWritten, Items
<1> QED
  BY <1>1, <1>2, <1>3, <1>4, <1>5, <1>6, <1>7, <1>8, <1>9, <1>10, <1>11, <1>12, <1>13,
     <1>14, <1>15 DEF Next, LoopStep

(* A frame that ended is one header, blocks of which the last alone is     *)
(* marked last, and one epilogue, with the size it pledged.                *)
THEOREM FramesAreWellFormed == Spec => []WellFormedFrame
<1>1. Init => ItemsInv
  BY DEF Init, NoCall, NoInput, ItemsInv
<1>2. Core /\ ItemsInv => WellFormedFrame
  <2> SUFFICES ASSUME Core, ItemsInv, stage = "Ended" PROVE WellFormedFrame
    BY DEF WellFormedFrame
  <2> DEFINE s == Items
             n == Len(s)
             p == fr.pledged
  <2>1. Whole(s, p) /\ (p = NoSize \/ p = fr.consumed) /\ p \in Int
    BY DEF ItemsInv, Core, TypeInv, IsFrame, FrameSet
  <2>2. s \in Seq(ItemSet)
    BY ItemsAre
  <2> HIDE DEF s, p
  <2>3. /\ n \in Nat /\ n >= 3 /\ s[1] = Header(p) /\ s[n] = Epilogue
        /\ \A i \in 2..(n - 1) : s[i].item = "block" /\ (Marked(s[i]) <=> i = n - 1)
    BY <2>1, <2>2 DEF Whole
  <2>4. s[1].item = "header" /\ s[1].size = p /\ s[n].item = "epilogue"
    BY <2>1, <2>3, HeaderIs, EpilogueIs
  <2>5. ASSUME NEW i \in 2..(n - 1)
        PROVE  s[i].item = "block" /\ (s[i].last <=> i = n - 1)
    <3>1. i \in 1..n
      BY <2>3
    <3>2. s[i] \in ItemSet
      BY <2>2, <3>1
    <3>3. s[i].last \in BOOLEAN
      BY <3>2 DEF ItemSet
    <3>4. s[i].last <=> Marked(s[i])
      BY <3>3 DEF Marked
    <3> QED BY <2>3, <3>4
  <2>6. s[1].size # NoSize => s[1].size = fr.consumed
    BY <2>1, <2>4
  <2> QED BY <2>3, <2>4, <2>5, <2>6 DEF WellFormedFrame, s
<1> QED BY <1>1, <1>2, CoreHolds, ItemsNext, PTL DEF Spec

-----------------------------------------------------------------------------
(* The blocks code the input.                                              *)

\* f flattens the first n of the sequences q.
FlatAt(q, f, i) == IF i = 1 THEN q[i] ELSE f[i - 1] \o q[i]
IsFlat(q, n, f) == f = [i \in 1..n |-> FlatAt(q, f, i)]

(* Each of its values is the one before, and the sequence there.           *)
LEMMA FlatStep ==
  ASSUME NEW q, NEW n \in Nat, NEW f, IsFlat(q, n, f), NEW i \in 1..n
  PROVE  f[i] = FlatAt(q, f, i)
BY DEF IsFlat

(* It exists.                                                              *)
LEMMA FlatExists ==
  ASSUME NEW q, NEW k \in Nat
  PROVE  \E f : IsFlat(q, k, f)
<1> DEFINE S == {n \in Nat : \E f : IsFlat(q, n, f)}
<1>1. 0 \in S
  <2>1. IsFlat(q, 0, [i \in 1..0 |-> 0])
    BY DEF IsFlat
  <2> QED BY <2>1
<1>2. ASSUME NEW n \in Nat, n \in S PROVE n + 1 \in S
  <2>1. PICK f : IsFlat(q, n, f)
    BY <1>2
  <2> DEFINE g == [i \in 1..(n + 1) |-> FlatAt(q, f, i)]
  <2>2. \A i \in 1..n : f[i] = FlatAt(q, f, i)
    BY <2>1, FlatStep, Zenon
  <2>3. \A i \in 1..(n + 1) : g[i] = FlatAt(q, f, i)
    OBVIOUS
  <2>4. \A i \in 1..n : i \in 1..(n + 1)
    OBVIOUS
  <2>5. \A i \in 1..n : f[i] = g[i]
    BY <2>2, <2>3, <2>4, Zenon
  <2> HIDE DEF g
  <2>6. \A i \in 1..(n + 1) : FlatAt(q, f, i) = FlatAt(q, g, i)
    <3> SUFFICES ASSUME NEW i \in 1..(n + 1) PROVE FlatAt(q, f, i) = FlatAt(q, g, i)
      OBVIOUS
    <3>1. CASE i = 1
      BY <3>1 DEF FlatAt
    <3>2. CASE i # 1
      <4>1. i - 1 \in 1..n
        BY <3>2
      <4>2. f[i - 1] = g[i - 1]
        BY <2>5, <4>1
      <4> QED BY <3>2, <4>2 DEF FlatAt
    <3> QED BY <3>1, <3>2
  <2>7. g = [i \in 1..(n + 1) |-> FlatAt(q, f, i)]
    BY DEF g
  <2>8. g = [i \in 1..(n + 1) |-> FlatAt(q, g, i)]
    BY <2>6, <2>7
  <2>9. IsFlat(q, n + 1, g)
    BY <2>8 DEF IsFlat
  <2> QED BY <2>9
<1>3. Nat \subseteq S
  <2> HIDE DEF S
  <2> QED BY <1>1, <1>2, SetInduction
<1> QED BY <1>3

\* The first n values of two functions are the same.
SameFirst(q, r, n) == \A i \in 1..n : q[i] = r[i]

(* It depends on those sequences only.                                     *)
LEMMA FlatAgrees ==
  ASSUME NEW q, NEW r, NEW n \in Nat, NEW m \in Nat, n <= m, SameFirst(q, r, n),
         NEW f, NEW g, IsFlat(q, n, f), IsFlat(r, m, g)
  PROVE  SameFirst(f, g, n)
<1> DEFINE S == {k \in Nat : \A i \in 1..n : i <= k => f[i] = g[i]}
<1>1. 0 \in S
  OBVIOUS
<1>2. ASSUME NEW k \in Nat, k \in S PROVE k + 1 \in S
  <2>1. SUFFICES ASSUME NEW i \in 1..n, i = k + 1 PROVE f[i] = g[i]
    BY <1>2
  <2>2. f[i] = FlatAt(q, f, i)
    BY FlatStep, Zenon
  <2>3. g[i] = FlatAt(r, g, i)
    <3>1. i \in 1..m
      OBVIOUS
    <3> QED BY <3>1, FlatStep, Zenon
  <2>4. CASE i = 1
    BY <2>2, <2>3, <2>4 DEF FlatAt, SameFirst
  <2>5. CASE i # 1
    <3>1. i - 1 \in 1..n /\ i - 1 <= k
      BY <2>1, <2>5
    <3>2. f[i - 1] = g[i - 1] /\ q[i] = r[i]
      BY <1>2, <3>1 DEF SameFirst
    <3> QED BY <2>2, <2>3, <2>5, <3>2 DEF FlatAt
  <2> QED BY <2>4, <2>5
<1>3. Nat \subseteq S
  <2> HIDE DEF S
  <2> QED BY <1>1, <1>2, SetInduction
<1> QED BY <1>3 DEF SameFirst

\* The bytes of each item.
BytesOf(s) == [i \in 1..Len(s) |-> s[i].bytes]

(* They are as many as the items.                                          *)
LEMMA BytesOfIs ==
  ASSUME NEW s \in Seq(ItemSet)
  PROVE  /\ BytesOf(s) \in Seq(Seq(Int)) /\ Len(BytesOf(s)) = Len(s)
         /\ \A i \in 1..Len(s) : BytesOf(s)[i] = s[i].bytes
<1>1. \A i \in 1..Len(s) : s[i].bytes \in Seq(Int)
  <2> SUFFICES ASSUME NEW i \in 1..Len(s) PROVE s[i].bytes \in Seq(Int)
    OBVIOUS
  <2>1. s[i] \in ItemSet
    OBVIOUS
  <2> QED BY <2>1 DEF ItemSet
<1>2. Len(s) \in Nat
  OBVIOUS
<1> QED BY <1>1, <1>2 DEF BytesOf

(* The bytes coded by no item, and by some.                                *)
LEMMA CodedIs ==
  ASSUME NEW s \in Seq(ItemSet)
  PROVE  /\ Len(s) = 0 => Coded(s) = <<>>
         /\ Len(s) > 0 => \E f : IsFlat(BytesOf(s), Len(s), f) /\ Coded(s) = f[Len(s)]
<1> DEFINE q == BytesOf(s)
           n == Len(s)
<1>1. q \in Seq(Seq(Int)) /\ Len(q) = n /\ n \in Nat
  BY BytesOfIs
<1>2. Coded(s) = FlattenSeq(q)
  BY DEF Coded, BytesOf
<1> HIDE DEF q, n
<1>3. CASE n = 0
  <2>1. q = <<>>
    BY <1>1, <1>3
  <2>2. FlattenSeq(q) = q
    BY <1>1, <1>3 DEF FlattenSeq
  <2> QED BY <1>2, <1>3, <2>1, <2>2 DEF n
<1>4. CASE n > 0
  <2> DEFINE f == CHOOSE g : IsFlat(q, n, g)
  <2>1. IsFlat(q, n, f)
    BY <1>1, FlatExists
  <2>2. FlattenSeq(q) = f[n]
    BY <1>1, <1>4 DEF FlattenSeq, IsFlat, FlatAt
  <2> HIDE DEF f
  <2> QED BY <1>2, <1>4, <2>1, <2>2 DEF n, q
<1> QED BY <1>1, <1>3, <1>4

(* The bytes coded by an item more follow.                                 *)
LEMMA CodedAppend ==
  ASSUME NEW s \in Seq(ItemSet), NEW x \in ItemSet
  PROVE  Coded(Append(s, x)) = Coded(s) \o x.bytes
<1> DEFINE t == Append(s, x)
           n == Len(s)
           b == x.bytes
           q == BytesOf(s)
           r == BytesOf(t)
<1>1. t \in Seq(ItemSet) /\ Len(t) = n + 1 /\ (\A i \in 1..n : t[i] = s[i]) /\ t[n + 1] = x
  BY AppendIs
<1>2. n \in Nat /\ b \in Seq(Int)
  BY DEF ItemSet
<1> HIDE DEF t, n
<1>3. \A i \in 1..n : q[i] = s[i].bytes
  BY BytesOfIs DEF n
<1>4. \A i \in 1..(n + 1) : r[i] = t[i].bytes
  BY <1>1, BytesOfIs
<1> HIDE DEF q, r, b
<1>5. (\A i \in 1..n : q[i] = r[i]) /\ r[n + 1] = b
  <2>1. n + 1 \in 1..(n + 1) /\ \A i \in 1..n : i \in 1..(n + 1)
    BY <1>2
  <2> QED BY <1>1, <1>3, <1>4, <2>1 DEF b
<1>6. PICK g : IsFlat(r, n + 1, g) /\ Coded(t) = g[n + 1]
  <2>1. Len(t) > 0
    BY <1>1, <1>2
  <2> QED BY <1>1, <2>1, CodedIs DEF r
<1>7. g[n + 1] = IF n + 1 = 1 THEN r[n + 1] ELSE g[n] \o r[n + 1]
  <2>1. n + 1 \in 1..(n + 1) /\ (n + 1) - 1 = n
    BY <1>2
  <2> DEFINE m == n + 1
  <2> HIDE DEF m
  <2>2. m \in 1..m /\ m - 1 = n
    BY <2>1 DEF m
  <2>3. g[m] = FlatAt(r, g, m)
    <3>1. IsFlat(r, m, g)
      BY <1>6 DEF m
    <3> QED BY <2>2, <3>1 DEF IsFlat
  <2> QED BY <2>2, <2>3 DEF m, FlatAt
<1>8. CASE n = 0
  <2>1. Coded(s) = <<>>
    BY <1>8, CodedIs DEF n
  <2>2. Coded(t) = b
    BY <1>2, <1>5, <1>6, <1>7, <1>8
  <2>3. <<>> \o b = b
    BY <1>2
  <2> QED BY <2>1, <2>2, <2>3 DEF t, b
<1>9. CASE n > 0
  <2>1. PICK f : IsFlat(q, n, f) /\ Coded(s) = f[n]
    BY <1>9, CodedIs DEF q, n
  <2>2. f[n] = g[n]
    <3>1. n <= n + 1 /\ n + 1 \in Nat /\ n \in 1..n
      BY <1>2, <1>9
    <3>2. \A i \in 1..n : f[i] = g[i]
      <4> DEFINE m == n + 1
      <4>1. n \in Nat /\ m \in Nat /\ n <= m
        BY <1>2, <3>1
      <4>2. SameFirst(q, r, n)
        BY <1>5 DEF SameFirst
      <4>3. IsFlat(q, n, f) /\ IsFlat(r, m, g)
        BY <1>6, <2>1
      <4> HIDE DEF m
      <4>4. SameFirst(f, g, n)
        BY <4>1, <4>2, <4>3, FlatAgrees, Zenon
      <4> QED BY <4>4 DEF SameFirst
    <3> QED BY <3>1, <3>2
  <2>3. n + 1 # 1
    BY <1>2, <1>9
  <2> QED BY <1>5, <1>6, <1>7, <2>1, <2>2, <2>3 DEF t, b
<1> QED BY <1>2, <1>8, <1>9

(* Bytes that follow others.                                               *)
LEMMA BytesFollow ==
  ASSUME NEW d \in Nat, NEW k \in Nat
  PROVE  Bytes(0, d) \o Bytes(d, k) = Bytes(0, d + k)
<1> DEFINE s == Bytes(0, d)
           t == Bytes(d, k)
           u == s \o t
           v == Bytes(0, d + k)
<1>1. /\ s \in Seq(Int) /\ Len(s) = d /\ \A i \in 1..d : s[i] = 0 + i
      /\ t \in Seq(Int) /\ Len(t) = k /\ \A i \in 1..k : t[i] = d + i
      /\ v \in Seq(Int) /\ Len(v) = d + k /\ \A i \in 1..(d + k) : v[i] = 0 + i
  <2>1. 0 \in Int /\ d \in Int /\ d + k \in Nat
    OBVIOUS
  <2> QED BY <2>1, BytesIs, Zenon
<1> HIDE DEF s, t, v
<1>2. /\ u \in Seq(Int) /\ Len(u) = d + k /\ (\A i \in 1..d : u[i] = s[i])
      /\ \A i \in 1..k : u[d + i] = t[i]
  BY <1>1, JoinIs
<1> HIDE DEF u
<1>3. ASSUME NEW i \in 1..(d + k) PROVE u[i] = v[i]
  <2>1. CASE i \in 1..d
    BY <1>1, <1>2, <2>1
  <2>2. CASE i \notin 1..d
    <3>1. i - d \in 1..k /\ d + (i - d) = i
      BY <2>2
    <3>2. u[i] = t[i - d]
      BY <1>2, <3>1
    <3> QED BY <1>1, <3>1, <3>2
  <2> QED BY <2>1, <2>2
<1>4. u = v
  BY <1>1, <1>2, <1>3
<1> QED BY <1>4 DEF u, v, s, t

(* No item codes no byte.                                                  *)
LEMMA CodedNone == Coded(<<>>) = Bytes(0, 0)
<1>1. <<>> \in Seq(ItemSet) /\ Len(<<>>) = 0
  OBVIOUS
<1>2. Coded(<<>>) = <<>>
  BY <1>1, CodedIs
<1>3. Bytes(0, 0) \in Seq(Int) /\ Len(Bytes(0, 0)) = 0
  BY BytesIs
<1>4. Bytes(0, 0) = <<>>
  BY <1>3
<1> QED BY <1>2, <1>4

(* An item that codes the k bytes that follow.                             *)
LEMMA CodedMore ==
  ASSUME NEW s \in Seq(ItemSet), NEW x \in ItemSet, NEW d \in Nat, NEW k \in Nat,
         Coded(s) = Bytes(0, d), x.bytes = Bytes(d, k)
  PROVE  Coded(Append(s, x)) = Bytes(0, d + k)
BY CodedAppend, BytesFollow

(* An item that codes no byte.                                             *)
LEMMA CodedSame ==
  ASSUME NEW s \in Seq(ItemSet), NEW x \in ItemSet, NEW d \in Nat,
         Coded(s) = Bytes(0, d), x.bytes = <<>>
  PROVE  Coded(Append(s, x)) = Bytes(0, d)
<1>1. Coded(Append(s, x)) = Bytes(0, d) \o <<>>
  BY CodedAppend
<1>2. Bytes(0, d) \in Seq(Int)
  BY BytesIs
<1> QED BY <1>1, <1>2

(* A header that is due codes no byte.                                     *)
LEMMA CodedHeader ==
  ASSUME NEW s \in Seq(ItemSet), NEW f, IsFrame(f), NEW d \in Nat, Coded(s) = Bytes(0, d),
         NeedsHeader(f) => s = <<>>
  PROVE  Coded(s \o HeaderItems(f)) = Bytes(0, d)
<1>1. CASE NeedsHeader(f)
  <2> DEFINE h == Header(f.pledged)
  <2>1. f.pledged \in Int
    BY DEF IsFrame, FrameSet
  <2>2. h \in ItemSet /\ h.bytes = <<>>
    BY <2>1, HeaderIs
  <2>3. HeaderItems(f) = <<h>>
    BY <1>1, HeaderItemsIs
  <2> HIDE DEF h
  <2>4. s \o <<h>> = Append(s, h)
    BY <2>2
  <2>5. Coded(Append(s, h)) = Bytes(0, d)
    BY <2>2, CodedSame
  <2> QED BY <2>3, <2>4, <2>5
<1>2. CASE ~NeedsHeader(f)
  <2>1. HeaderItems(f) = <<>>
    BY <1>2, HeaderItemsIs
  <2>2. s \o <<>> = s
    OBVIOUS
  <2> QED BY <2>1, <2>2
<1> QED BY <1>1, <1>2

(* The last blocks of a frame are begun: they code what is done.           *)
LEMMA CodedFinish ==
  ASSUME NEW c \in CallSet, NEW f, IsFrame(f), Finish(c, f), sent' \in Seq(ItemSet),
         stage' = "Frame", Coded(sent') = Bytes(0, f.jb.done), NeedsHeader(f) => sent' = <<>>
  PROVE  CodedInv'
<1> DEFINE h == HeaderItems(f)
           z == Block(<<>>, TRUE)
           d == f.jb.done
<1>1. /\ HasReady(f.jb, FrameEnd(f)) => out' = h
      /\ ~HasReady(f.jb, FrameEnd(f)) => out' = Append(h, z)
      /\ SameBlocks(fr', f)
  BY FinishIs
<1>2. fr'.jb.done = d /\ d \in Nat
  BY <1>1 DEF SameBlocks, IsFrame, FrameSet, CursorSet
<1>3. h \in Seq(ItemSet)
  BY HeaderItemsIs
<1>4. z \in ItemSet /\ z.bytes = <<>>
  <2>1. <<>> \in Seq(Int) /\ TRUE \in BOOLEAN
    OBVIOUS
  <2> QED BY <2>1, BlockIs, Zenon
<1> HIDE DEF d
<1>5. Coded(sent' \o h) = Bytes(0, d)
  BY <1>2, CodedHeader DEF d
<1> HIDE DEF h, z
<1>6. sent' \o h \in Seq(ItemSet)
  BY <1>3, JoinItemsIs
<1>7. Coded(Append(sent' \o h, z)) = Bytes(0, d)
  BY <1>2, <1>4, <1>5, <1>6, CodedSame
<1>8. sent' \o Append(h, z) = Append(sent' \o h, z)
  BY <1>3, <1>4, JoinAppend
<1>9. Coded(Items') = Bytes(0, d)
  BY <1>1, <1>5, <1>7, <1>8 DEF Items
<1> QED BY <1>2, <1>9 DEF CodedInv, BlocksCodeTheInput

(* Blocks that input makes ready are begun, or it waits.                   *)
LEMMA CodedStart ==
  ASSUME Core, ItemsInv, CodedInv, stage = "Frame", stage' = "Frame", call.pc = "match",
         sent' = sent, NEW c \in CallSet, NEW f, IsFrame(f), NEW input \in InputSet,
         StartBlocks(c, f, input), f.jb.done = fr.jb.done,
         NeedsHeader(f) <=> NeedsHeader(fr)
  PROVE  CodedInv'
<1>1. /\ out' = IF HasReady(f.jb, input) THEN HeaderItems(f) ELSE <<>>
      /\ SameBlocks(fr', f)
  BY StartBlocksIs
<1>2. fr'.jb.done = fr.jb.done /\ fr.jb.done \in Nat
  BY <1>1 DEF SameBlocks, Core, TypeInv, IsFrame, FrameSet, CursorSet
<1>3. out = <<>>
  BY DEF Core, CallInv
<1>4. Items = sent /\ sent \in Seq(ItemSet)
  BY <1>3, NothingPending DEF Core, TypeInv
<1>5. Coded(sent) = Bytes(0, fr.jb.done)
  BY <1>4 DEF CodedInv, BlocksCodeTheInput
<1>6. NeedsHeader(f) => sent = <<>>
  BY <1>4 DEF ItemsInv
<1>7. Coded(sent \o HeaderItems(f)) = Bytes(0, fr.jb.done)
  BY <1>2, <1>4, <1>5, <1>6, CodedHeader
<1>8. sent \o <<>> = sent
  BY <1>4
<1>9. Coded(Items') = Bytes(0, fr.jb.done)
  BY <1>1, <1>5, <1>7, <1>8 DEF Items
<1> QED BY <1>2, <1>9 DEF CodedInv, BlocksCodeTheInput

(* The blocks code the input up to the cursor, at every step.              *)
LEMMA CodedNext == Core /\ ItemsInv /\ CodedInv /\ [Next]_vars => CodedInv'
<1> SUFFICES ASSUME Core, ItemsInv, CodedInv, [Next]_vars PROVE CodedInv'
  OBVIOUS
<1>0. Core'
  BY CoreNext
<1>1. CASE \/ AnyCall
           \/ \E size \in Pledges \cup {NoSize} : SetPledgedSrcSize(size)
           \/ \E len \in PrefixLens : SetPrefix(len)
           \/ StepContinue
  BY <1>1 DEF AnyCall, Call, SetPledgedSrcSize, SetPrefix, StepContinue, Items, CodedInv,
              BlocksCodeTheInput
<1>3. CASE ResetStream \/ StepFailed \/ StepEnded
  BY <1>3 DEF ResetStream, StepFailed, Fail, StepEnded, CodedInv
<1>4. CASE FlushTo
  <2>1. Items' = Items
    BY <1>4, FlushCore
  <2>2. fr' = fr /\ stage' = stage
    BY <1>4 DEF FlushTo
  <2> QED BY <2>1, <2>2 DEF CodedInv, BlocksCodeTheInput
<1>7. CASE StepIdleEnd
  <2>1. CASE pledged # NoSize /\ pledged # call.src
    BY <1>7, <2>1 DEF StepIdleEnd, Fail, CodedInv
  <2>2. CASE ~(pledged # NoSize /\ pledged # call.src)
    <3> DEFINE n == call.src
               len == prefix
               F(ldm) == WholeFrame(n, len, ldm)
               c == [call EXCEPT !.src = 0]
    <3>1. PICK ldm \in Ldms : Finish(c, F(ldm))
      BY <1>7, <2>2 DEF StepIdleEnd, WholeFrame
    <3>2. stage' = "Frame" /\ sent' = <<>>
      BY <1>7, <2>2 DEF StepIdleEnd
    <3>3. n \in Nat /\ len \in Nat /\ c \in CallSet
      BY DEF Core, TypeInv, CallSet
    <3> DEFINE f == F(ldm)
    <3>4. IsFrame(f) /\ f.jb.done = 0
      BY <3>3, BeginWholeIs
    <3>5. Finish(c, f)
      BY <3>1
    <3> HIDE DEF f, c
    <3>6. sent' \in Seq(ItemSet)
      BY <1>0 DEF Core, TypeInv
    <3>7. Coded(sent') = Bytes(0, f.jb.done)
      BY <3>2, <3>4, CodedNone
    <3> QED BY <3>2, <3>3, <3>4, <3>5, <3>6, <3>7, CodedFinish
  <2> QED BY <2>1, <2>2
<1>8. CASE StepIdle
  <2>1. CASE Multithreaded(pledged)
    BY <1>8, <2>1 DEF StepIdle, Fail, CodedInv
  <2>2. CASE ~Multithreaded(pledged)
    <3>1. PICK ldm \in Ldms : fr' = Begin(pledged, prefix, ldm)
      BY <1>8, <2>2 DEF StepIdle
    <3>2. stage' = "Frame" /\ sent' = <<>> /\ out' = out /\ call.pc = "match"
      BY <1>8, <2>2 DEF StepIdle
    <3>3. fr'.jb.done = 0
      BY <3>1, BeginIs DEF Core, TypeInv
    <3>4. Items' = <<>>
      <4>1. out' = <<>>
        BY <3>2 DEF Core, CallInv
      <4> QED BY <3>2, <4>1 DEF Items
    <3> QED BY <3>2, <3>3, <3>4, CodedNone DEF CodedInv, BlocksCodeTheInput
  <2> QED BY <2>1, <2>2
<1>9. CASE StepAccept
  <2>1. CASE fr.pledged # NoSize /\ fr.consumed + call.src > fr.pledged
    BY <1>9, <2>1 DEF StepAccept, Fail, CodedInv
  <2>2. CASE ~(fr.pledged # NoSize /\ fr.consumed + call.src > fr.pledged)
    <3> DEFINE f == Accept(fr, call.src)
               a == Accepted(fr, call.src)
               input == [kind |-> "Open", end |-> Len(f.buf)]
               c == [call EXCEPT !.src = @ - a]
    <3>1. /\ StartBlocks(c, f, input) /\ stage' = stage /\ sent' = sent
          /\ call.pc = "match" /\ stage = "Frame"
      BY <1>9, <2>2 DEF StepAccept
    <3>2. /\ IsFrame(fr) /\ Buffered(fr) /\ Len(fr.buf) - NextStart(fr.jb) <= BlockSizeMax
          /\ Len(fr.buf) <= fr.cap /\ call \in CallSet /\ call.src \in Nat
      BY <3>1 DEF Core, TypeInv, BufferInv, CallInv, CallSet
    <3>3. /\ a \in 0..call.src /\ IsFrame(f) /\ SameCursor(f.jb, fr.jb)
          /\ NeedsHeader(f) <=> NeedsHeader(fr)
      BY <3>2, AcceptIs
    <3> HIDE DEF f, a
    <3>4. input \in InputSet
      <4>1. f.buf \in Seq(Int)
        BY <3>3 DEF IsFrame, FrameSet
      <4> QED BY <4>1 DEF InputSet
    <3>5. c \in CallSet
      <4> DEFINE d == call.src - a
      <4>1. d \in Nat /\ c = [call EXCEPT !.src = d]
        BY <3>2, <3>3
      <4> HIDE DEF d
      <4> QED BY <3>2, <4>1 DEF CallSet
    <3>6. f.jb.done = fr.jb.done
      BY <3>3 DEF SameCursor
    <3> HIDE DEF c, input
    <3> QED BY <3>1, <3>3, <3>4, <3>5, <3>6, CodedStart
  <2> QED BY <2>1, <2>2
<1>11. CASE StepFlush
  <2> DEFINE input == [kind |-> "Chunk", end |-> Len(fr.buf)]
  <2>1. /\ StartBlocks(call, fr, input) /\ stage' = stage /\ sent' = sent
        /\ call.pc = "match" /\ stage = "Frame"
    BY <1>11 DEF StepFlush
  <2>2. IsFrame(fr) /\ call \in CallSet /\ fr.buf \in Seq(Int)
    BY DEF Core, TypeInv, IsFrame, FrameSet
  <2>3. input \in InputSet
    BY <2>2 DEF InputSet
  <2> HIDE DEF input
  <2> QED BY <2>1, <2>2, <2>3, CodedStart
<1>12. CASE StepEnd
  <2>1. CASE fr.pledged # NoSize /\ fr.pledged # fr.consumed
    BY <1>12, <2>1 DEF StepEnd, Fail, CodedInv
  <2>2. CASE ~(fr.pledged # NoSize /\ fr.pledged # fr.consumed)
    <3>1. /\ Finish(call, fr) /\ stage' = stage /\ sent' = sent
          /\ call.pc = "match" /\ stage = "Frame"
      BY <1>12, <2>2 DEF StepEnd
    <3>2. IsFrame(fr) /\ call \in CallSet /\ sent \in Seq(ItemSet) /\ out = <<>>
      BY <3>1 DEF Core, TypeInv, CallInv
    <3>3. Items = sent
      BY <3>2, NothingPending
    <3>4. Coded(sent) = Bytes(0, fr.jb.done) /\ (NeedsHeader(fr) => sent = <<>>)
      BY <3>1, <3>3 DEF CodedInv, BlocksCodeTheInput, ItemsInv
    <3> QED BY <3>1, <3>2, <3>4, CodedFinish
  <2> QED BY <2>1, <2>2
<1>13. CASE WriteBlock
  <2> DEFINE d == fr.jb.done
             k == TheBlock.end - NextStart(fr.jb)
  <2>1. stage' = stage /\ sent' = sent
    BY <1>13 DEF WriteBlock
  <2>2. /\ call.pc = "blocks" /\ HasReady(fr.jb, call.input) /\ out' = Append(out, TheItem)
        /\ fr'.jb.done = d + k
    BY <1>13, WriteBlockIs
  <2>3. /\ stage = "Frame" /\ TheBlock.end \in Int /\ NextStart(fr.jb) < TheBlock.end
        /\ NextStart(fr.jb) \in Nat
        /\ TheItem \in ItemSet /\ TheItem.bytes = Bytes(d, k)
    BY <2>2, TheBlockIs
  <2>4. Items' = Append(Items, TheItem) /\ Items \in Seq(ItemSet)
    <3>1. sent \in Seq(ItemSet) /\ out \in Seq(ItemSet)
      BY DEF Core, TypeInv
    <3> QED BY <2>1, <2>2, <2>3, <3>1, JoinAppend, ItemsAre DEF Items
  <2>5. d \in Nat /\ k \in Nat
    BY <2>3 DEF Core, TypeInv, IsFrame, FrameSet, CursorSet
  <2>6. Coded(Items) = Bytes(0, d)
    BY <2>3 DEF CodedInv, BlocksCodeTheInput
  <2> HIDE DEF d, k
  <2>7. Coded(Items') = Bytes(0, d + k)
    BY <2>3, <2>4, <2>5, <2>6, CodedMore
  <2> QED BY <2>1, <2>2, <2>3, <2>7 DEF CodedInv, BlocksCodeTheInput
<1>14. CASE BlocksDone
  <2>1. sent' = sent
    BY <1>14 DEF BlocksDone
  <2>2. /\ call.pc = "blocks" /\ stage = "Frame" /\ ~HasReady(fr.jb, call.input)
        /\ SameData(fr', fr) /\ fr'.jb.done = fr.jb.done /\ call.input.end = Len(fr.buf)
        /\ call.input.kind = "JobEnd" => out' = Append(out, Epilogue) /\ stage' = "Ended"
        /\ call.input.kind # "JobEnd" => out' = out /\ stage' = stage
    BY <1>14, BlocksDoneIs
  <2>3. Coded(Items) = Bytes(0, fr.jb.done) /\ fr.jb.done \in Nat
    BY <2>2 DEF CodedInv, BlocksCodeTheInput, Core, TypeInv, IsFrame, FrameSet, CursorSet
  <2>4. CASE call.input.kind = "JobEnd"
    <3>1. Items' = Append(Items, Epilogue) /\ Items \in Seq(ItemSet)
      <4>1. sent \in Seq(ItemSet) /\ out \in Seq(ItemSet) /\ Epilogue \in ItemSet
        BY EpilogueIs DEF Core, TypeInv
      <4>2. Items' = Append(Items, Epilogue)
        BY <2>1, <2>2, <2>4, <4>1, JoinAppend DEF Items
      <4> QED BY <4>2, ItemsAre
    <3>2. Coded(Items') = Bytes(0, fr.jb.done)
      BY <2>3, <3>1, CodedSame, EpilogueIs
    <3>3. fr'.consumed = fr.consumed
      BY <2>2 DEF SameData
    <3>4. fr.jb.done = fr.consumed
      <4> DEFINE J == fr.jb.jobStart
                 D == fr.jb.done
                 C == fr.consumed
                 L == Len(fr.buf)
      <4>1. J \in Int /\ D \in Nat /\ C \in Nat /\ L = J + C /\ D <= C
        BY <2>2 DEF Core, TypeInv, IsFrame, FrameSet, CursorSet, BufferInv, Buffered
      <4>2. ~(J + D < L)
        BY <2>2, <2>4 DEF HasReady, Ready, NextStart
      <4> HIDE DEF J, D, C, L
      <4>3. D = C
        BY <4>1, <4>2
      <4> QED BY <4>3 DEF D, C
    <3> QED BY <2>2, <3>2, <3>3, <3>4 DEF CodedInv, BlocksCodeTheInput
  <2>5. CASE call.input.kind # "JobEnd"
    <3>1. Items' = Items
      BY <2>1, <2>2, <2>5 DEF Items
    <3> QED BY <2>2, <2>3, <2>5, <3>1 DEF CodedInv, BlocksCodeTheInput
  <2> QED BY <2>4, <2>5
<1>15. CASE UNCHANGED vars
  BY <1>15 DEF vars, CodedInv, BlocksCodeTheInput, Items
<1> QED
  BY <1>1, <1>3, <1>4, <1>7, <1>8, <1>9, <1>11, <1>12, <1>13, <1>14, <1>15
     DEF Next, LoopStep

-----------------------------------------------------------------------------
(* What a call returns is exact.                                           *)

(* A step into the blocks of a frame, or one that has none, is in a call.  *)
LEMMA BlocksAhead ==
  ASSUME NEW c \in CallSet, NEW f, NEW input, Finish(c, f) \/ StartBlocks(c, f, input)
  PROVE  call'.pc # "idle"
<1>1. \E i, pc : pc \in {"blocks", "flush"} /\ call' = [c EXCEPT !.pc = pc, !.input = i]
  BY DEF Finish, StartBlocks
<1>2. PICK i, pc : pc \in {"blocks", "flush"} /\ call' = [c EXCEPT !.pc = pc, !.input = i]
  BY <1>1
<1>3. call'.pc = pc
  BY <1>2 DEF CallSet
<1> QED BY <1>2, <1>3

(* A step that fails, returns no value.                                    *)
LEMMA FailReturns ==
  ASSUME NEW error \in Errors, error # "None", Fail(error)
  PROVE  ReturnInv'
<1>1. ret'.err = error
  BY DEF Fail
<1> QED BY <1>1 DEF ReturnInv

(* With output pending, something is left.                                 *)
LEMMA LeftPending ==
  ASSUME NEW pending \in Nat, pending > 0, NEW src
  PROVE  Left(pending, src) > 0 /\ Left(pending, src) = pending
BY DEF Left

(* With nothing to do, a Continue needs input and a Flush is complete.     *)
LEMMA LeftNothing ==
  ASSUME stage = "Frame"
  PROVE  /\ call.op = "Continue" => Left(0, 0) = InputHint(fr)
         /\ call.op = "Flush" /\ ~HoldsInput(fr) => Left(0, 0) = 0
BY DEF Left

(* What a call returned says where the session is, at every step.          *)
LEMMA ReturnNext == Core /\ ItemsInv /\ ReturnInv /\ [Next]_vars => ReturnInv'
<1> SUFFICES ASSUME Core, ItemsInv, ReturnInv, [Next]_vars PROVE ReturnInv'
  OBVIOUS
<1>a. call \in CallSet
  BY DEF Core, TypeInv
<1>1. CASE AnyCall
  <2>1. call'.pc = "flush"
    BY <1>1 DEF AnyCall, Call, NoCall
  <2> QED BY <2>1 DEF ReturnInv
<1>2. CASE \/ \E size \in Pledges \cup {NoSize} : SetPledgedSrcSize(size)
           \/ \E len \in PrefixLens : SetPrefix(len)
  <2>1. fr' = fr /\ stage' = stage /\ out' = out /\ call' = call /\ ret' = ret /\ sent' = sent
    BY <1>2 DEF SetPledgedSrcSize, SetPrefix
  <2> QED BY <2>1 DEF ReturnInv, InputHint
<1>3. CASE ResetStream
  <2>1. stage' = "Idle" /\ ret'.op = "Continue"
    BY <1>3 DEF ResetStream, NoReturn
  <2> QED BY <2>1 DEF ReturnInv
<1>4. CASE FlushTo
  <2>1. CASE out' # <<>>
    <3>1. ret'.left = Left(Len(out'), call.src)
      <4> DEFINE l == Left(Len(out'), call.src)
      <4>1. ret' = [op |-> call.op, err |-> "None", left |-> l, src |-> call.src]
        BY <1>4, <2>1 DEF FlushTo, Return
      <4> HIDE DEF l
      <4>2. ret'.left = l
        BY <4>1
      <4> QED BY <4>2 DEF l
    <3>2. out' \in Seq(ItemSet)
      BY <1>4, FlushCore DEF Core, TypeInv
    <3>3. Len(out') \in Nat /\ Len(out') > 0
      BY <2>1, <3>2
    <3>4. Left(Len(out'), call.src) > 0
      BY <3>3, LeftPending
    <3>5. ret'.left # 0
      BY <3>1, <3>3, <3>4
    <3> QED BY <2>1, <3>5 DEF ReturnInv
  <2>2. CASE out' = <<>>
    <3>1. \E m : call' = [call EXCEPT !.pc = "match", !.room = m]
      BY <1>4, <2>2 DEF FlushTo
    <3>2. call'.pc = "match"
      BY <1>a, <3>1 DEF CallSet
    <3> QED BY <3>2 DEF ReturnInv
  <2> QED BY <2>1, <2>2
<1>5. CASE StepFailed
  BY <1>5, FailReturns DEF StepFailed, Errors
<1>6. CASE StepEnded
  <2>1. CASE call.op = "End" /\ call.src = 0
    <3>1. /\ call.pc = "match" /\ stage = "Ended" /\ stage' = "Idle" /\ out' = out
          /\ sent' = sent /\ ret' = [op |-> call.op, err |-> "None", left |-> 0, src |-> 0]
      BY <1>6, <2>1 DEF StepEnded, Return
    <3>2. ret'.op = "End" /\ ret'.left = 0 /\ ret'.src = 0
      BY <2>1, <3>1
    <3>3. out = <<>>
      BY <3>1 DEF Core, CallInv
    <3>4. Items = sent
      BY <3>3, NothingPending
    <3>5. Whole(sent, fr.pledged)
      BY <3>1, <3>4 DEF ItemsInv
    <3>6. sent[Len(sent)] = Epilogue
      BY <3>5 DEF Whole
    <3> QED BY <3>1, <3>2, <3>3, <3>6 DEF ReturnInv
  <2>2. CASE ~(call.op = "End" /\ call.src = 0)
    <3>1. call' = [call EXCEPT !.pc = "flush"]
      BY <1>6, <2>2 DEF StepEnded
    <3>2. call'.pc = "flush"
      BY <1>a, <3>1 DEF CallSet
    <3> QED BY <3>2 DEF ReturnInv
  <2> QED BY <2>1, <2>2
<1>7. CASE StepIdleEnd
  <2>1. CASE Fail("SrcSizeWrong")
    BY <2>1, FailReturns DEF Errors
  <2>2. CASE \E f : Finish([call EXCEPT !.src = 0], f)
    <3>1. [call EXCEPT !.src = 0] \in CallSet
      BY <1>a DEF CallSet
    <3>2. call'.pc # "idle"
      BY <2>2, <3>1, BlocksAhead
    <3> QED BY <3>2 DEF ReturnInv
  <2> QED BY <1>7, <2>1, <2>2 DEF StepIdleEnd
<1>8. CASE StepIdle
  <2>1. CASE Fail("Unsupported")
    BY <2>1, FailReturns DEF Errors
  <2>2. CASE call' = [call EXCEPT !.pc = "flush"]
    <3>1. call'.pc = "flush"
      BY <1>a, <2>2 DEF CallSet
    <3> QED BY <3>1 DEF ReturnInv
  <2> QED BY <1>8, <2>1, <2>2 DEF StepIdle
<1>9. CASE StepAccept
  <2>1. CASE Fail("SrcSizeWrong")
    BY <2>1, FailReturns DEF Errors
  <2>2. CASE ~(fr.pledged # NoSize /\ fr.consumed + call.src > fr.pledged)
    <3> DEFINE f == Accept(fr, call.src)
               a == Accepted(fr, call.src)
               input == [kind |-> "Open", end |-> Len(f.buf)]
               c == [call EXCEPT !.src = @ - a]
    <3>1. StartBlocks(c, f, input) /\ call.pc = "match" /\ stage = "Frame"
      BY <1>9, <2>2 DEF StepAccept
    <3>2. /\ IsFrame(fr) /\ Buffered(fr) /\ Len(fr.buf) - NextStart(fr.jb) <= BlockSizeMax
          /\ Len(fr.buf) <= fr.cap /\ call.src \in Nat
      BY <3>1 DEF Core, TypeInv, BufferInv, CallInv, CallSet
    <3>3. a \in 0..call.src
      BY <3>2, AcceptIs
    <3> HIDE DEF f, a
    <3>4. c \in CallSet
      <4> DEFINE d == call.src - a
      <4>1. d \in Nat /\ c = [call EXCEPT !.src = d]
        BY <3>2, <3>3
      <4> HIDE DEF d
      <4> QED BY <1>a, <4>1 DEF CallSet
    <3> HIDE DEF c, input
    <3>5. call'.pc # "idle"
      BY <3>1, <3>4, BlocksAhead
    <3> QED BY <3>5 DEF ReturnInv
  <2> QED BY <1>9, <2>1, <2>2 DEF StepAccept
<1>10. CASE StepContinue
  <2>1. /\ stage = "Frame" /\ call.pc = "match" /\ stage' = stage /\ fr' = fr /\ out' = out
        /\ call.op = "Continue" \/ (call.op = "Flush" /\ ~HoldsInput(fr))
        /\ ret' = [op |-> call.op, err |-> "None", left |-> Left(0, 0), src |-> 0]
    BY <1>10 DEF StepContinue, Return
  <2>2. ret'.op = call.op /\ ret'.left = Left(0, 0) /\ ret'.src = 0
    BY <2>1
  <2>3. CASE call.op = "Continue"
    BY <2>1, <2>2, <2>3, LeftNothing DEF ReturnInv, InputHint
  <2>4. CASE call.op = "Flush" /\ ~HoldsInput(fr)
    <3>1. out = <<>>
      BY <2>1 DEF Core, CallInv
    <3>2. fr.jb.done = fr.consumed
      <4> DEFINE J == fr.jb.jobStart
                 D == fr.jb.done
                 C == fr.consumed
                 L == Len(fr.buf)
      <4>1. J \in Int /\ D \in Nat /\ C \in Nat /\ L = J + C /\ D <= C
        BY <2>1 DEF Core, TypeInv, IsFrame, FrameSet, CursorSet, BufferInv, Buffered
      <4>2. ~(J + D < L)
        BY <2>4 DEF HoldsInput, NextStart
      <4> HIDE DEF J, D, C, L
      <4>3. D = C
        BY <4>1, <4>2
      <4> QED BY <4>3 DEF D, C
    <3> QED BY <2>1, <2>2, <2>4, <3>1, <3>2 DEF ReturnInv
  <2> QED BY <2>1, <2>3, <2>4
<1>11. CASE StepFlush
  <2>1. \E input : StartBlocks(call, fr, input)
    BY <1>11 DEF StepFlush
  <2>2. call'.pc # "idle"
    BY <1>a, <2>1, BlocksAhead
  <2> QED BY <2>2 DEF ReturnInv
<1>12. CASE StepEnd
  <2>1. CASE Fail("SrcSizeWrong")
    BY <2>1, FailReturns DEF Errors
  <2>2. CASE Finish(call, fr)
    <3>1. call'.pc # "idle"
      BY <1>a, <2>2, BlocksAhead
    <3> QED BY <3>1 DEF ReturnInv
  <2> QED BY <1>12, <2>1, <2>2 DEF StepEnd
<1>13. CASE WriteBlock
  <2>1. call'.pc = "blocks"
    BY <1>13 DEF WriteBlock
  <2> QED BY <2>1 DEF ReturnInv
<1>14. CASE BlocksDone
  <2>1. call'.pc = "flush"
    BY <1>14, BlocksDoneIs
  <2> QED BY <2>1 DEF ReturnInv
<1>15. CASE UNCHANGED vars
  BY <1>15 DEF vars, ReturnInv, InputHint
<1> QED
  BY <1>1, <1>2, <1>3, <1>4, <1>5, <1>6, <1>7, <1>8, <1>9, <1>10, <1>11, <1>12, <1>13,
     <1>14, <1>15 DEF Next, LoopStep

(* An open input makes a block ready when it ends more than one further.   *)
LEMMA OpenReady ==
  ASSUME NEW jb, NEW e \in Int, NEW B, jb.sizing.blockSizeMax = B
  PROVE  HasReady(jb, [kind |-> "Open", end |-> e]) <=> e - NextStart(jb) > B
<1> DEFINE input == [kind |-> "Open", end |-> e]
<1>1. input.kind = "Open" /\ input.end = e
  OBVIOUS
<1> HIDE DEF input
<1>2. HasReady(jb, input) = (e - NextStart(jb) > B)
  BY <1>1 DEF HasReady, Ready
<1>3. HasReady(jb, input) <=> e - NextStart(jb) > B
  BY <1>2
<1> QED BY <1>3 DEF input

(* What a call returns is exact: a complete Flush has delivered every byte *)
(* consumed and a complete End the whole frame, and the input a Continue   *)
(* asks for makes a block ready, and no less does.                         *)
THEOREM ReturnsAreExact == Spec => []ReturnIsExact
<1>1. Init => ItemsInv /\ CodedInv /\ ReturnInv
  BY DEF Init, NoCall, NoInput, NoReturn, ItemsInv, CodedInv, ReturnInv
<1>2. Core /\ CodedInv /\ ReturnInv => ReturnIsExact
  <2> SUFFICES ASSUME Core, CodedInv, ReturnInv, call.pc = "idle", ret.err = "None"
               PROVE  ReturnIsExact
    BY DEF ReturnIsExact
  <2>1. ASSUME ret.op = "Continue", stage = "Frame", out = <<>>, NEW more \in 0..ret.left
        PROVE  HasReady(fr.jb, [kind |-> "Open", end |-> Len(fr.buf) + more])
                 <=> more = ret.left
    <3> DEFINE L == Len(fr.buf)
               S == NextStart(fr.jb)
               B == BlockSizeMax
               R == ret.left
    <3>1. R = IF B + 1 > L - S THEN B + 1 - (L - S) ELSE 1
      BY <2>1 DEF ReturnInv, InputHint
    <3>2. L \in Nat /\ S \in Int /\ L - S <= B /\ B \in Nat /\ R \in Nat
      <4>1. fr.buf \in Seq(Int) /\ fr.jb.jobStart \in Int /\ fr.jb.done \in Nat
        BY DEF Core, TypeInv, IsFrame, FrameSet, CursorSet
      <4>2. L - S <= B
        BY <2>1 DEF Core, BufferInv
      <4>3. ret.left \in Nat
        BY DEF Core, TypeInv, ReturnSet
      <4> QED BY <4>1, <4>2, <4>3, StreamConstants DEF NextStart
    <3>3. fr.jb.sizing.blockSizeMax = B
      BY DEF Core, TypeInv, IsFrame, FrameSet, CursorSet, FrameSizing
    <3>4. HasReady(fr.jb, [kind |-> "Open", end |-> L + more]) <=> (L + more) - S > B
      <4>1. L + more \in Int
        BY <3>2
      <4> HIDE DEF L, B
      <4> QED BY <3>3, <4>1, OpenReady
    <3> HIDE DEF L, S, B, R
    <3>5. (L + more) - S > B <=> more = R
      <4>1. more \in 0..R
        BY <2>1 DEF R
      <4> QED BY <3>1, <3>2, <4>1
    <3> QED BY <3>4, <3>5 DEF L, R
  <2>2. ASSUME ret.op # "Continue", ret.left = 0, stage = "Frame"
        PROVE  Coded(sent) = Bytes(0, fr.consumed)
    <3>1. out = <<>> /\ fr.jb.done = fr.consumed
      BY <2>2 DEF ReturnInv
    <3>2. Items = sent
      BY <3>1, NothingPending
    <3> QED BY <2>2, <3>1, <3>2 DEF CodedInv, BlocksCodeTheInput
  <2>3. ASSUME ret.op # "Continue", ret.left = 0
        PROVE  /\ ret.src = 0 /\ out = <<>>
               /\ ret.op = "End" => stage = "Idle" /\ sent[Len(sent)] = Epilogue
    BY <2>3 DEF ReturnInv
  <2> QED BY <2>1, <2>2, <2>3 DEF ReturnIsExact
<1> QED
  BY <1>1, <1>2, CoreHolds, ItemsNext, CodedNext, ReturnNext, PTL DEF Spec

-----------------------------------------------------------------------------
(* The frame is the one-shot frame.                                        *)

(* The one-shot frame's blocks, as the chain says.                         *)
LEMMA OneShotIs ==
  ASSUME NEW n
  PROVE  OneShotBlocks(n) = OneShot(oracle, n)
BY DEF OneShotBlocks, OneShot, Chain, IsChain, ChainAt, NothingCut, CutStep, GainOf, Gain,
       WholeInput

(* Each of a chain's states follows from the one before.                   *)
LEMMA ChainStep ==
  ASSUME NEW o, NEW n, NEW m \in Nat, NEW f, IsChain(o, n, m, f), NEW i \in 0..m
  PROVE  f[i] = ChainAt(o, n, f, i)
BY DEF IsChain

(* There is one.                                                           *)
LEMMA ChainExists ==
  ASSUME NEW o, NEW n, NEW k \in Nat
  PROVE  \E f : IsChain(o, n, k, f)
<1> DEFINE S == {m \in Nat : \E f : IsChain(o, n, m, f)}
<1>1. 0 \in S
  <2> DEFINE f == [i \in 0..0 |-> NothingCut]
  <2>1. \A i \in 0..0 : ChainAt(o, n, f, i) = NothingCut
    BY DEF ChainAt
  <2>2. f = [i \in 0..0 |-> ChainAt(o, n, f, i)]
    BY <2>1
  <2>3. IsChain(o, n, 0, f)
    BY <2>2 DEF IsChain
  <2> QED BY <2>3
<1>2. ASSUME NEW m \in Nat, m \in S PROVE m + 1 \in S
  <2>1. PICK f : IsChain(o, n, m, f)
    BY <1>2
  <2> DEFINE g == [i \in 0..(m + 1) |-> ChainAt(o, n, f, i)]
  <2>2. \A i \in 0..m : f[i] = ChainAt(o, n, f, i)
    BY <2>1, ChainStep, Zenon
  <2>3. \A i \in 0..(m + 1) : g[i] = ChainAt(o, n, f, i)
    OBVIOUS
  <2>4. \A i \in 0..m : i \in 0..(m + 1)
    OBVIOUS
  <2>5. \A i \in 0..m : f[i] = g[i]
    BY <2>2, <2>3, <2>4, Zenon
  <2> HIDE DEF g
  <2>6. \A i \in 0..(m + 1) : ChainAt(o, n, f, i) = ChainAt(o, n, g, i)
    <3> SUFFICES ASSUME NEW i \in 0..(m + 1) PROVE ChainAt(o, n, f, i) = ChainAt(o, n, g, i)
      OBVIOUS
    <3>1. CASE i = 0
      BY <3>1 DEF ChainAt
    <3>2. CASE i # 0
      <4>1. i - 1 \in 0..m
        BY <3>2
      <4>2. f[i - 1] = g[i - 1]
        BY <2>5, <4>1
      <4> QED BY <3>2, <4>2 DEF ChainAt
    <3> QED BY <3>1, <3>2
  <2>7. g = [i \in 0..(m + 1) |-> ChainAt(o, n, f, i)]
    BY DEF g
  <2>8. g = [i \in 0..(m + 1) |-> ChainAt(o, n, g, i)]
    BY <2>6, <2>7
  <2>9. IsChain(o, n, m + 1, g)
    BY <2>8 DEF IsChain
  <2> QED BY <2>9
<1>3. Nat \subseteq S
  <2> HIDE DEF S
  <2> QED BY <1>1, <1>2, SetInduction
<1> QED BY <1>3

(* The chain, from its start.                                              *)
LEMMA ChainIs ==
  ASSUME NEW o, NEW n \in Nat
  PROVE  /\ Chain(o, n)[0] = NothingCut
         /\ \A i \in 1..n : Chain(o, n)[i] = CutStep(o, n, Chain(o, n)[i - 1])
<1> DEFINE f == Chain(o, n)
<1>1. IsChain(o, n, n, f)
  BY ChainExists DEF Chain
<1> HIDE DEF f
<1>2. f[0] = ChainAt(o, n, f, 0)
  <2>1. 0 \in 0..n
    OBVIOUS
  <2> QED BY <1>1, <2>1, ChainStep, Zenon
<1>3. ASSUME NEW i \in 1..n PROVE f[i] = CutStep(o, n, f[i - 1])
  <2>1. i \in 0..n /\ i # 0
    OBVIOUS
  <2>2. f[i] = ChainAt(o, n, f, i)
    BY <1>1, <2>1, ChainStep, Zenon
  <2> QED BY <2>1, <2>2 DEF ChainAt
<1>4. f[0] = NothingCut
  BY <1>2 DEF ChainAt
<1> QED BY <1>3, <1>4 DEF f

\* One sequence begins another.
Begins(s, t) == Len(s) <= Len(t) /\ \A i \in 1..Len(s) : s[i] = t[i]

\* A one-shot frame of n bytes, part of its blocks cut.
Cutting(n, st) ==
    /\ IsCursor(st.jb) /\ st.jb.jobStart = 0 /\ st.jb.done <= n
    /\ st.blocks \in Seq(ItemSet)

\* The next block of a one-shot frame: where it ends, and what it is.
CutEnd(o, n, st) == NextBlockEnd(st.jb, WholeInput(n), NextStart(st.jb) + 1 \in o.cut)
CutBytes(o, n, st) == Bytes(NextStart(st.jb), CutEnd(o, n, st) - NextStart(st.jb))
CutLast(o, n, st) == IsLast(st.jb, CutEnd(o, n, st), WholeInput(n))

(* A step that cuts a block, and one that does not.                        *)
LEMMA CutIs ==
  ASSUME NEW o, NEW n, NEW st
  PROVE  /\ ~HasReady(st.jb, WholeInput(n)) => CutStep(o, n, st) = st
         /\ HasReady(st.jb, WholeInput(n)) =>
              /\ CutStep(o, n, st).jb
                   = Wrote(st.jb, CutEnd(o, n, st), GainOf(o, CutBytes(o, n, st)))
              /\ CutStep(o, n, st).blocks
                   = Append(st.blocks, Block(CutBytes(o, n, st), CutLast(o, n, st)))
BY DEF CutStep, CutEnd, CutBytes, CutLast

(* A step goes on with the frame.                                          *)
LEMMA CutStepIs ==
  ASSUME NEW o, NEW n \in 0..MaxInput, NEW st, Cutting(n, st)
  PROVE  Cutting(n, CutStep(o, n, st)) /\ Begins(st.blocks, CutStep(o, n, st).blocks)
<1>1. CASE ~HasReady(st.jb, WholeInput(n))
  <2>1. CutStep(o, n, st) = st
    BY <1>1, CutIs
  <2>2. Begins(st.blocks, st.blocks)
    BY DEF Cutting, Begins
  <2> QED BY <2>1, <2>2
<1>2. CASE HasReady(st.jb, WholeInput(n))
  <2> DEFINE jb == st.jb
             e == CutEnd(o, n, st)
             y == CutBytes(o, n, st)
             l == CutLast(o, n, st)
             g == GainOf(o, y)
             b == Block(y, l)
             t == CutStep(o, n, st)
             input == WholeInput(n)
  <2>1. t.jb = Wrote(jb, e, g) /\ t.blocks = Append(st.blocks, b)
    BY <1>2, CutIs
  <2>2. /\ IsCursor(jb) /\ jb.jobStart = 0 /\ jb.done <= n /\ jb.done \in Nat
        /\ st.blocks \in Seq(ItemSet) /\ jb.lastJob = TRUE
    BY DEF Cutting, IsCursor, CursorSet
  <2>3. input.end = n /\ n \in Nat /\ n <= MaxInput /\ input.kind = "JobEnd" /\ MaxInput \in Nat
    BY StreamConstants DEF WholeInput
  <2>4. NextStart(jb) = jb.done
    BY <2>2 DEF NextStart
  <2>5. e \in Int /\ NextStart(jb) < e /\ e <= n
    <3>1. jb.done <= MaxInput /\ input.end \in Nat /\ HasReady(jb, input)
      BY <1>2, <2>2, <2>3
    <3> DEFINE cut == NextStart(jb) + 1 \in o.cut
    <3> HIDE DEF cut, input
    <3>2. /\ NextBlockEnd(jb, input, cut) \in Int
          /\ NextStart(jb) < NextBlockEnd(jb, input, cut)
          /\ NextBlockEnd(jb, input, cut) <= input.end
      BY <2>2, <3>1, NextEndBounds
    <3> QED BY <2>3, <3>2 DEF CutEnd, cut, input
  <2>6. y \in Seq(Int)
    <3>1. NextStart(jb) \in Int /\ e - NextStart(jb) \in Nat
      BY <2>2, <2>4, <2>5
    <3> QED BY <3>1, BytesIs DEF CutBytes
  <2>7. l \in BOOLEAN
    BY <2>2 DEF CutLast, IsLast
  <2>8. g \in Int
    BY DEF GainOf
  <2> HIDE DEF e, y, l, g, t, jb, input
  <2>9. b \in ItemSet
    BY <2>6, <2>7, BlockIs, Zenon
  <2>10. e >= jb.jobStart
    BY <2>2, <2>4, <2>5
  <2>11. IsCursor(t.jb) /\ t.jb.jobStart = 0 /\ t.jb.done = e - 0
    BY <2>1, <2>2, <2>5, <2>8, <2>10, WroteIs
  <2> HIDE DEF b
  <2>12. t.blocks \in Seq(ItemSet) /\ Begins(st.blocks, t.blocks)
    BY <2>1, <2>2, <2>9 DEF Begins
  <2>13. t.jb.done <= n
    BY <2>5, <2>11
  <2> QED BY <2>11, <2>12, <2>13 DEF Cutting, t
<1> QED BY <1>1, <1>2

(* The state before any block.                                             *)
LEMMA NothingCutIs ==
  ASSUME NEW n \in Nat
  PROVE  /\ Cutting(n, NothingCut) /\ NothingCut.jb = NoFrame.jb
         /\ NothingCut.blocks = <<>>
<1>1. NothingCut.jb = NoFrame.jb /\ NothingCut.blocks = <<>>
  BY DEF NothingCut
<1>2. IsCursor(NoFrame.jb) /\ NoFrame.jb.jobStart = 0 /\ NoFrame.jb.done = 0
  BY NewCursorIs
<1>3. <<>> \in Seq(ItemSet)
  OBVIOUS
<1> HIDE DEF NothingCut
<1> QED BY <1>1, <1>2, <1>3 DEF Cutting

(* Every state of a chain cuts the frame further.                          *)
LEMMA ChainCuts ==
  ASSUME NEW o, NEW n \in 0..MaxInput, NEW k \in 0..n
  PROVE  Cutting(n, Chain(o, n)[k])
<1> DEFINE f == Chain(o, n)
           S == {i \in Nat : i <= n => Cutting(n, f[i])}
<1>0. n \in Nat
  BY StreamConstants
<1>1. /\ f[0] = NothingCut
      /\ \A i \in 1..n : f[i] = CutStep(o, n, f[i - 1])
  BY <1>0, ChainIs
<1> HIDE DEF f
<1>2. 0 \in S
  BY <1>0, <1>1, NothingCutIs
<1>3. ASSUME NEW i \in Nat, i \in S PROVE i + 1 \in S
  <2> SUFFICES ASSUME i + 1 <= n PROVE Cutting(n, f[i + 1])
    OBVIOUS
  <2>1. i + 1 \in 1..n /\ (i + 1) - 1 = i /\ i <= n
    BY <1>0
  <2>2. f[i + 1] = CutStep(o, n, f[i])
    BY <1>1, <2>1
  <2>3. Cutting(n, f[i])
    BY <1>3, <2>1
  <2> QED BY <2>2, <2>3, CutStepIs
<1>4. Nat \subseteq S
  <2> HIDE DEF S
  <2> QED BY <1>2, <1>3, SetInduction
<1> QED BY <1>0, <1>4 DEF f

(* The blocks cut begin the frame.                                         *)
LEMMA ChainBegins ==
  ASSUME NEW o, NEW n \in 0..MaxInput, NEW k \in 0..n
  PROVE  Begins(Chain(o, n)[k].blocks, Chain(o, n)[n].blocks)
<1> DEFINE f == Chain(o, n)
           S == {j \in Nat : k + j <= n => Begins(f[k].blocks, f[k + j].blocks)}
<1>0. n \in Nat /\ k \in Nat /\ k <= n
  BY StreamConstants
<1>1. \A i \in 1..n : f[i] = CutStep(o, n, f[i - 1])
  BY <1>0, ChainIs
<1>2. \A i \in 0..n : Cutting(n, f[i])
  BY ChainCuts
<1> HIDE DEF f
<1>3. 0 \in S
  <2>1. k + 0 = k
    BY <1>0
  <2>2. Begins(f[k].blocks, f[k].blocks)
    <3>1. f[k].blocks \in Seq(ItemSet)
      BY <1>2 DEF Cutting
    <3> DEFINE b == f[k].blocks
    <3> HIDE DEF b
    <3>2. b \in Seq(ItemSet)
      BY <3>1 DEF b
    <3>3. Begins(b, b)
      BY <3>2 DEF Begins
    <3> QED BY <3>3 DEF b
  <2> QED BY <2>1, <2>2
<1>4. ASSUME NEW j \in Nat, j \in S PROVE j + 1 \in S
  <2> SUFFICES ASSUME k + (j + 1) <= n PROVE Begins(f[k].blocks, f[k + (j + 1)].blocks)
    OBVIOUS
  <2> DEFINE i == k + j
  <2>1. k + (j + 1) = i + 1 /\ i + 1 \in 1..n /\ (i + 1) - 1 = i /\ i \in 0..n
    BY <1>0
  <2>2. f[i + 1] = CutStep(o, n, f[i])
    BY <1>1, <2>1
  <2>3. Begins(f[k].blocks, f[i].blocks) /\ Cutting(n, f[i]) /\ Cutting(n, f[k])
    BY <1>2, <1>4, <2>1
  <2>4. Begins(f[i].blocks, f[i + 1].blocks) /\ Cutting(n, f[i + 1])
    BY <2>2, <2>3, CutStepIs
  <2> HIDE DEF i
  <2>5. Begins(f[k].blocks, f[i + 1].blocks)
    <3> DEFINE a == f[k].blocks
               b == f[i].blocks
               c == f[i + 1].blocks
    <3>1. /\ a \in Seq(ItemSet) /\ b \in Seq(ItemSet) /\ c \in Seq(ItemSet)
          /\ Begins(a, b) /\ Begins(b, c)
      BY <2>3, <2>4 DEF Cutting
    <3> HIDE DEF a, b, c
    <3>2. Begins(a, c)
      BY <3>1 DEF Begins
    <3> QED BY <3>2 DEF a, c
  <2> QED BY <2>1, <2>5
<1>5. Nat \subseteq S
  <2> HIDE DEF S
  <2> QED BY <1>3, <1>4, SetInduction
<1>6. n - k \in Nat /\ k + (n - k) = n
  BY <1>0
<1>7. n - k \in S
  BY <1>5, <1>6
<1> QED BY <1>0, <1>6, <1>7 DEF f

(* Once no block is ready, the frame is cut.                               *)
LEMMA ChainEnds ==
  ASSUME NEW o, NEW n \in 0..MaxInput, NEW k \in 0..n,
         ~HasReady(Chain(o, n)[k].jb, WholeInput(n))
  PROVE  Chain(o, n)[n] = Chain(o, n)[k]
<1> DEFINE f == Chain(o, n)
           S == {j \in Nat : k + j <= n => f[k + j] = f[k]}
<1>0. n \in Nat /\ k \in Nat /\ k <= n
  BY StreamConstants
<1>1. \A i \in 1..n : f[i] = CutStep(o, n, f[i - 1])
  BY <1>0, ChainIs
<1>2. CutStep(o, n, f[k]) = f[k]
  BY CutIs
<1> HIDE DEF f
<1>3. 0 \in S
  <2>1. k + 0 = k
    BY <1>0
  <2> QED BY <2>1
<1>4. ASSUME NEW j \in Nat, j \in S PROVE j + 1 \in S
  <2> SUFFICES ASSUME k + (j + 1) <= n PROVE f[k + (j + 1)] = f[k]
    OBVIOUS
  <2> DEFINE i == k + j
  <2>1. k + (j + 1) = i + 1 /\ i + 1 \in 1..n /\ (i + 1) - 1 = i /\ i <= n
    BY <1>0
  <2>2. f[i + 1] = CutStep(o, n, f[i])
    BY <1>1, <2>1
  <2>3. f[i] = f[k]
    BY <1>4, <2>1
  <2> QED BY <1>2, <2>1, <2>2, <2>3
<1>5. Nat \subseteq S
  <2> HIDE DEF S
  <2> QED BY <1>3, <1>4, SetInduction
<1>6. n - k \in Nat /\ k + (n - k) = n
  BY <1>0
<1>7. n - k \in S
  BY <1>5, <1>6
<1> QED BY <1>0, <1>6, <1>7 DEF f

(* Inputs are those not shorter than what was consumed.                    *)
LEMMA InputsAre ==
  ASSUME Core, NEW n \in Inputs
  PROVE  /\ n \in 0..MaxInput /\ n \in Nat /\ fr.consumed <= n
         /\ call.input.kind = "JobEnd" => n = fr.consumed
<1>1. fr.consumed \in Nat /\ call.src \in Nat /\ fr.consumed + call.src <= MaxInput
  BY DEF Core, TypeInv, CallInv, IsFrame, FrameSet, CallSet
<1> QED BY <1>1, StreamConstants DEF Inputs

(* A block the stream writes is the next of the one-shot frame.            *)
LEMMA BlockFollows ==
  ASSUME Core, ItemsInv, WriteBlock, call.input.kind # "Chunk", NEW n \in Inputs,
         NEW k \in 0..fr.jb.done, Follows(fr, Items, Chain(oracle, n)[k])
  PROVE  k + 1 \in 0..fr'.jb.done /\ Follows(fr', Items', Chain(oracle, n)[k + 1])
<1> DEFINE jb == fr.jb
           J == jb.jobStart
           D == jb.done
           B == TheBlock.end
           E == B - J
           st == Chain(oracle, n)[k]
           r == RebaseBlocks(jb, J)
           y == TheBlock.bytes
           g == Gain(y)
           C == fr.consumed
           input == call.input
           cut == D + 1 \in oracle.cut
<1>1. /\ call.pc = "blocks" /\ HasReady(jb, input) /\ out' = Append(out, TheItem)
      /\ IsFrame(fr') /\ fr'.jb.jobStart = J /\ fr'.jb.done = E
      /\ fr'.jb.firstChunkEnd = jb.firstChunkEnd /\ fr'.jb.gained = jb.gained + g
      /\ SameData(fr', fr)
  BY WriteBlockIs
<1>2. /\ stage = "Frame" /\ input \in InputSet /\ input.end = Len(fr.buf)
      /\ NextStart(jb) \in Nat /\ B \in Int /\ NextStart(jb) < B /\ B <= Len(fr.buf)
      /\ (input.kind = "Open" => B < Len(fr.buf))
      /\ B = NextBlockEnd(jb, input, cut)
      /\ y = Bytes(D, B - NextStart(jb)) /\ TheItem \in ItemSet
  BY <1>1, TheBlockIs
<1>3. /\ IsFrame(fr) /\ IsCursor(jb) /\ J \in Int /\ D \in Nat /\ C \in Nat
      /\ Len(fr.buf) = J + C /\ D <= C /\ NextStart(jb) = J + D
  BY <1>2 DEF Core, TypeInv, IsFrame, FrameSet, CursorSet, BufferInv, Buffered, NextStart
<1>4. /\ n \in 0..MaxInput /\ n \in Nat /\ C <= n /\ (input.kind = "JobEnd" => n = C)
  BY InputsAre
<1>5. input.kind \in {"Open", "JobEnd"} /\ input.end \in Nat
  BY <1>1, <1>2 DEF Core, CallInv, InputSet
<1>6. st.jb = r /\ ~NeedsHeader(fr) /\ Items = <<Header(fr.pledged)>> \o st.blocks
  BY <1>1, <1>2 DEF Follows, ItemsInv
<1>7. g \in Int /\ g = GainOf(oracle, y)
  BY DEF Gain, GainOf
<1>8. k \in Nat /\ k <= D /\ k + 1 \in 1..n /\ (k + 1) - 1 = k /\ k \in 0..n /\ k + 1 \in 0..E
  <2> HIDE DEF J, D, B, C
  <2>1. D + 1 <= B - J /\ B - J <= C
    BY <1>2, <1>3
  <2>2. k \in 0..D
    BY DEF D
  <2> QED BY <1>2, <1>3, <1>4, <2>1, <2>2
<1>9. Chain(oracle, n)[k + 1] = CutStep(oracle, n, st)
  BY <1>4, <1>8, ChainIs
<1>10. Cutting(n, st)
  BY <1>4, <1>8, ChainCuts
<1>11. /\ IsCursor(r) /\ HasReady(r, WholeInput(n)) /\ NextStart(r) = D
       /\ NextBlockEnd(r, WholeInput(n), cut) = B - J
  <2> HIDE DEF cut
  <2>1. D <= MaxInput
    BY <1>3, <1>4, StreamConstants
  <2>2. /\ input.kind # "Open" => n = input.end - J
        /\ input.kind = "Open" => n >= input.end - J
    <3>1. input.end - J = C
      <4> HIDE DEF J, C, input
      <4>1. input.end = J + C
        BY <1>2, <1>3
      <4> QED BY <1>3, <4>1
    <3> QED BY <1>4, <1>5, <3>1
  <2>3. /\ IsCursor(r) /\ HasReady(r, WholeInput(n)) /\ NextStart(r) = D
        /\ NextBlockEnd(r, WholeInput(n), cut) = NextBlockEnd(jb, input, cut) - J
    <3>1. IsCursor(jb) /\ HasReady(jb, input) /\ input.end \in Nat /\ n \in 0..MaxInput
      BY <1>1, <1>3, <1>4, <1>5
    <3> QED BY <2>1, <2>2, <3>1, SameEnd, Zenon
  <2> QED BY <1>2, <2>3
<1>12. CutEnd(oracle, n, st) = E
  BY <1>6, <1>11 DEF CutEnd
<1>13. CutBytes(oracle, n, st) = y
  <2>1. E - D = B - NextStart(jb)
    <3> HIDE DEF J, D, B
    <3> QED BY <1>2, <1>3
  <2> QED BY <1>2, <1>6, <1>11, <1>12, <2>1 DEF CutBytes
<1>14. CutLast(oracle, n, st) = TheLast
  <2> DEFINE c == CutLast(oracle, n, st)
             l == TheLast
  <2>1. r.lastJob = TRUE /\ jb.lastJob = TRUE
    BY <1>3, <1>11 DEF IsCursor
  <2>2. c = (r.lastJob /\ WholeInput(n).kind = "JobEnd" /\ WholeInput(n).end = E)
    BY <1>6, <1>12 DEF CutLast, IsLast
  <2>3. WholeInput(n).kind = "JobEnd" /\ WholeInput(n).end = n
    BY DEF WholeInput
  <2>4. l = (jb.lastJob /\ input.kind = "JobEnd" /\ input.end = B)
    BY DEF TheLast, IsLast
  <2> HIDE DEF c, l, r, jb, B, J, C, input, E
  <2>5. c = (n = E)
    BY <2>1, <2>2, <2>3
  <2>6. l = (input.kind = "JobEnd" /\ input.end = B)
    BY <2>1, <2>4
  <2>7. n = E <=> input.kind = "JobEnd" /\ input.end = B
    <3>1. input.end = J + C /\ E = B - J
      BY <1>2, <1>3 DEF E
    <3>2. CASE input.kind = "JobEnd"
      BY <1>2, <1>3, <1>4, <3>1, <3>2
    <3>3. CASE input.kind = "Open"
      BY <1>2, <1>3, <1>4, <3>1, <3>3
    <3> QED BY <1>5, <3>2, <3>3
  <2>8. c = l
    BY <2>5, <2>6, <2>7
  <2> QED BY <2>8 DEF c, l
<1> DEFINE t == CutStep(oracle, n, st)
<1>15. t.jb = Wrote(r, E, g) /\ t.blocks = Append(st.blocks, TheItem)
  <2>1. HasReady(st.jb, WholeInput(n))
    BY <1>6, <1>11
  <2>2. /\ t.jb = Wrote(st.jb, CutEnd(oracle, n, st), GainOf(oracle, CutBytes(oracle, n, st)))
        /\ t.blocks
             = Append(st.blocks, Block(CutBytes(oracle, n, st), CutLast(oracle, n, st)))
    BY <2>1, CutIs
  <2> HIDE DEF t, st, r, E, y, g
  <2>3. t.jb = Wrote(r, E, g)
    BY <1>6, <1>7, <1>12, <1>13, <2>2, Zenon
  <2>4. t.blocks = Append(st.blocks, Block(y, TheLast))
    BY <1>13, <1>14, <2>2, Zenon
  <2> QED BY <2>3, <2>4 DEF TheItem, y
<1>16. t.jb = RebaseBlocks(fr'.jb, fr'.jb.jobStart)
  <2> DEFINE w == Wrote(r, E, g)
             q == fr'.jb
             v == RebaseBlocks(q, q.jobStart)
  <2>1. /\ r.jobStart = J - J /\ r.gained = jb.gained /\ r.firstChunkEnd = jb.firstChunkEnd
    BY <1>3, RebaseIs
  <2>2. IsCursor(q) /\ q.jobStart \in Int
    BY <1>1 DEF IsFrame, IsCursor, CursorSet
  <2>3. /\ IsCursor(v) /\ v.jobStart = q.jobStart - q.jobStart /\ v.done = q.done
        /\ v.firstChunkEnd = q.firstChunkEnd /\ v.gained = q.gained
    BY <2>2, RebaseIs
  <2> HIDE DEF r, g, q, v
  <2>4. r.jobStart = 0 /\ E \in Int /\ E >= 0
    <3> HIDE DEF J, B
    <3> QED BY <1>2, <1>3, <2>1
  <2> HIDE DEF E
  <2>5. /\ IsCursor(w) /\ w.jobStart = r.jobStart /\ w.done = E - r.jobStart
        /\ w.firstChunkEnd = r.firstChunkEnd /\ w.gained = r.gained + g
    BY <1>7, <1>11, <2>4, WroteIs
  <2> HIDE DEF w
  <2>6. w.jobStart = v.jobStart /\ w.done = v.done
    BY <1>1, <2>2, <2>3, <2>4, <2>5 DEF q
  <2>7. w.firstChunkEnd = v.firstChunkEnd /\ w.gained = v.gained
    BY <1>1, <2>1, <2>3, <2>5 DEF q
  <2>8. w = v
    BY <2>3, <2>5, <2>6, <2>7, CursorsEqual
  <2> QED BY <1>15, <2>8 DEF w, v, q
<1>17. Items' = <<Header(fr.pledged)>> \o t.blocks
  <2> DEFINE h == <<Header(fr.pledged)>>
             b == st.blocks
             x == TheItem
  <2>1. h \in Seq(ItemSet)
    <3>1. fr.pledged \in Int
      BY <1>3 DEF IsFrame, FrameSet
    <3>2. Header(fr.pledged) \in ItemSet
      BY <3>1, HeaderIs
    <3> QED BY <3>2
  <2>2. b \in Seq(ItemSet) /\ x \in ItemSet
    BY <1>2, <1>10 DEF Cutting
  <2>3. Items' = Append(Items, x)
    <3>1. sent \in Seq(ItemSet) /\ out \in Seq(ItemSet) /\ sent' = sent
      BY DEF Core, TypeInv, WriteBlock
    <3> QED BY <1>1, <2>2, <3>1, JoinAppend DEF Items
  <2>4. Items = h \o b /\ t.blocks = Append(b, x)
    BY <1>6, <1>15
  <2> HIDE DEF h, b, x, t
  <2>5. h \o Append(b, x) = Append(h \o b, x)
    BY <2>1, <2>2, JoinAppend
  <2> QED BY <2>3, <2>4, <2>5 DEF h
<1>18. ~NeedsHeader(fr') /\ fr'.pledged = fr.pledged
  BY <1>1, <1>6 DEF SameData
<1> HIDE DEF t, st, E
<1> QED BY <1>1, <1>8, <1>9, <1>16, <1>17, <1>18 DEF Follows, t, st

(* Cursors that say the same, wherever the buffer lies.                    *)
LEMMA SameRebased ==
  ASSUME NEW a, IsCursor(a), NEW b, IsCursor(b), SameCursor(a, b)
  PROVE  RebaseBlocks(a, a.jobStart) = RebaseBlocks(b, b.jobStart)
<1> DEFINE v == RebaseBlocks(a, a.jobStart)
           w == RebaseBlocks(b, b.jobStart)
<1>1. a.jobStart \in Int /\ b.jobStart \in Int
  BY DEF IsCursor, CursorSet
<1>2. /\ IsCursor(v) /\ v.jobStart = a.jobStart - a.jobStart /\ v.done = a.done
      /\ v.firstChunkEnd = a.firstChunkEnd /\ v.gained = a.gained
  BY <1>1, RebaseIs
<1>3. /\ IsCursor(w) /\ w.jobStart = b.jobStart - b.jobStart /\ w.done = b.done
      /\ w.firstChunkEnd = b.firstChunkEnd /\ w.gained = b.gained
  BY <1>1, RebaseIs
<1> HIDE DEF v, w
<1>4. v.jobStart = w.jobStart
  BY <1>1, <1>2, <1>3
<1>5. v = w
  BY <1>2, <1>3, <1>4, CursorsEqual DEF SameCursor
<1> QED BY <1>5 DEF v, w

(* More input, or none, and the header of the first block, leave a stream  *)
(* where it is.                                                            *)
LEMMA StartFollows ==
  ASSUME Core, ItemsInv, stage = "Frame", call.pc = "match", NEW f, IsFrame(f),
         f.pledged = fr.pledged, NeedsHeader(f) <=> NeedsHeader(fr), SameCursor(f.jb, fr.jb),
         NEW o, NEW n \in 0..MaxInput, fr.jb.done <= n, Following(fr, Items, o, n)
  PROVE  /\ Following(f, Items, o, n)
         /\ \A g : SameBlocks(g, f) /\ ~NeedsHeader(g)
                     => Following(g, sent \o HeaderItems(f), o, n)
<1>1. PICK k \in 0..fr.jb.done : Follows(fr, Items, Chain(o, n)[k])
  BY DEF Following
<1> DEFINE st == Chain(o, n)[k]
           h == <<Header(fr.pledged)>>
<1>2. f.jb.done = fr.jb.done
  BY DEF SameCursor
<1>3. IsFrame(fr) /\ IsCursor(fr.jb) /\ IsCursor(f.jb) /\ fr.pledged \in Int /\ fr.jb.done \in Nat
  BY DEF Core, TypeInv, IsFrame, FrameSet, CursorSet
<1>4. RebaseBlocks(f.jb, f.jb.jobStart) = RebaseBlocks(fr.jb, fr.jb.jobStart)
  BY <1>3, SameRebased
<1>5. Follows(f, Items, st)
  BY <1>1, <1>4 DEF Follows
<1>6. out = <<>>
  BY DEF Core, CallInv
<1>7. Items = sent
  BY <1>6, NothingPending
<1>8. st.blocks \in Seq(ItemSet)
  <2>1. n \in Nat
    BY StreamConstants
  <2>2. k \in 0..n
    BY <1>3, <2>1
  <2> QED BY <2>2, ChainCuts DEF Cutting
<1>9. Header(fr.pledged) \in ItemSet
  BY <1>3, HeaderIs
<1>10. sent \o HeaderItems(f) = h \o st.blocks
  <2>1. CASE NeedsHeader(f)
    <3>1. Items = <<>> /\ st.blocks = <<>>
      BY <1>1, <2>1 DEF Follows
    <3>2. HeaderItems(f) = h
      BY <2>1, HeaderItemsIs
    <3>3. h \in Seq(ItemSet)
      BY <1>9
    <3> HIDE DEF h
    <3>4. <<>> \o h = h /\ h \o <<>> = h
      BY <3>3
    <3> QED BY <1>7, <3>1, <3>2, <3>4
  <2>2. CASE ~NeedsHeader(f)
    <3>1. Items = h \o st.blocks
      BY <1>1, <2>2 DEF Follows
    <3>2. HeaderItems(f) = <<>>
      BY <2>2, HeaderItemsIs
    <3>3. sent \in Seq(ItemSet)
      BY DEF Core, TypeInv
    <3>4. sent \o <<>> = sent
      BY <3>3
    <3> QED BY <1>7, <3>1, <3>2, <3>4
  <2> QED BY <2>1, <2>2
<1> HIDE DEF st, h
<1>11. ASSUME NEW g, SameBlocks(g, f), ~NeedsHeader(g)
       PROVE  Following(g, sent \o HeaderItems(f), o, n)
  <2>1. g.jb = f.jb /\ g.pledged = fr.pledged
    BY <1>11 DEF SameBlocks
  <2>2. Follows(g, sent \o HeaderItems(f), st)
    BY <1>5, <1>10, <1>11, <2>1 DEF Follows, h
  <2> QED BY <1>2, <2>1, <2>2 DEF Following, st
<1> QED BY <1>2, <1>5, <1>11 DEF Following, st

(* A new frame is before any block.                                        *)
LEMMA BeginFollows ==
  ASSUME NEW f, IsFrame(f), f.jb.done = 0, f.jb.firstChunkEnd = NoChunk, f.jb.gained = 0,
         NEW items, NEW o, NEW n \in Nat, NeedsHeader(f) => items = <<>>,
         ~NeedsHeader(f) => items = <<Header(f.pledged)>>
  PROVE  Following(f, items, o, n)
<1> DEFINE st == Chain(o, n)[0]
           r == RebaseBlocks(f.jb, f.jb.jobStart)
           h == <<Header(f.pledged)>>
<1>1. st.jb = NoFrame.jb /\ st.blocks = <<>>
  BY ChainIs, NothingCutIs
<1>2. IsCursor(f.jb) /\ f.jb.jobStart \in Int /\ f.pledged \in Int
  BY DEF IsFrame, FrameSet, CursorSet
<1>3. /\ IsCursor(r) /\ r.jobStart = f.jb.jobStart - f.jb.jobStart /\ r.done = 0
      /\ r.firstChunkEnd = NoChunk /\ r.gained = 0
  BY <1>2, RebaseIs
<1> HIDE DEF r, st
<1>4. r = st.jb
  <2>1. r.jobStart = 0
    BY <1>2, <1>3
  <2> QED BY <1>1, <1>3, <2>1, NewCursorIs, CursorsEqual
<1>5. h \o st.blocks = h
  <2>1. Header(f.pledged) \in ItemSet
    BY <1>2, HeaderIs
  <2>2. h \in Seq(ItemSet)
    BY <2>1
  <2> HIDE DEF h
  <2>3. h \o <<>> = h
    BY <2>2
  <2> QED BY <1>1, <2>3
<1>6. Follows(f, items, st)
  BY <1>1, <1>4, <1>5 DEF Follows, r
<1>7. 0 \in 0..f.jb.done
  OBVIOUS
<1> QED BY <1>6, <1>7 DEF Following, st

(* The inputs after a step.                                                *)
LEMMA InputsNext ==
  ASSUME Core', NEW n \in Inputs'
  PROVE  /\ n \in 0..MaxInput /\ n \in Nat /\ fr'.consumed <= n
         /\ call'.input.kind = "JobEnd" => n = fr'.consumed
<1>1. fr'.consumed \in Nat /\ call'.src \in Nat /\ fr'.consumed + call'.src <= MaxInput
  BY DEF Core, TypeInv, CallInv, IsFrame, FrameSet, CallSet
<1> QED BY <1>1, StreamConstants DEF Inputs

(* A step that leaves the frame and what is written.                       *)
LEMMA KeptSame ==
  ASSUME Core, Core', SameInv, Items' = Items, fr' = fr, stage' = stage, oracle' = oracle,
         flushed' = flushed, call.pc # "blocks", call'.pc # "blocks"
  PROVE  SameInv'
<1>1. call.input.kind # "JobEnd" /\ call'.input.kind # "JobEnd"
  BY DEF Core, CallInv
<1>2. Inputs' = Inputs
  BY <1>1 DEF Inputs
<1> QED BY <1>1, <1>2 DEF SameInv

(* Of what is done, consumed and buffered.                                 *)
LEMMA FrameNumbers ==
  ASSUME Core, stage = "Frame"
  PROVE  /\ IsFrame(fr) /\ IsCursor(fr.jb) /\ fr.jb.jobStart \in Int /\ fr.jb.done \in Nat
         /\ fr.consumed \in Nat /\ fr.consumed <= MaxInput /\ fr.jb.done <= fr.consumed
         /\ Len(fr.buf) = fr.jb.jobStart + fr.consumed
<1>1. fr.consumed \in Nat /\ call.src \in Nat /\ fr.consumed + call.src <= MaxInput
  BY DEF Core, TypeInv, CallInv, IsFrame, FrameSet, CallSet
<1>2. fr.consumed <= MaxInput
  BY <1>1, StreamConstants
<1> QED
  BY <1>1, <1>2 DEF Core, TypeInv, IsFrame, FrameSet, CursorSet, BufferInv, Buffered

(* Blocks that input makes ready are begun, or it waits.                   *)
LEMMA StartedSame ==
  ASSUME Core, Core', ItemsInv, SameInv, stage = "Frame", stage' = "Frame",
         call.pc = "match", sent' = sent, flushed' = flushed, oracle' = oracle,
         NEW c \in CallSet, NEW f, IsFrame(f), NEW input \in InputSet, input.kind = "Open",
         StartBlocks(c, f, input), f.pledged = fr.pledged, f.consumed >= fr.consumed,
         SameCursor(f.jb, fr.jb), NeedsHeader(f) <=> NeedsHeader(fr)
  PROVE  SameInv'
<1>1. /\ call'.input = input /\ SameBlocks(fr', f)
      /\ out' = IF HasReady(f.jb, input) THEN HeaderItems(f) ELSE <<>>
      /\ HasReady(f.jb, input) => ~NeedsHeader(fr')
      /\ ~HasReady(f.jb, input) => fr' = f
  BY StartBlocksIs
<1> SUFFICES ASSUME ~flushed PROVE SameInv'
  BY DEF SameInv
<1>2. call'.input.kind = "Open" /\ call.input.kind # "JobEnd"
  BY <1>1 DEF Core, CallInv
<1>3. fr'.jb.done = fr.jb.done /\ fr'.consumed = f.consumed /\ f.consumed \in Nat
  BY <1>1 DEF SameBlocks, SameCursor, IsFrame, FrameSet
<1>4. fr.jb.done \in Nat /\ fr.consumed \in Nat /\ fr.jb.done <= fr.consumed
  BY FrameNumbers
<1>5. fr'.consumed > 0 => fr'.jb.done < fr'.consumed
  <2>1. fr.consumed > 0 => fr.jb.done < fr.consumed
    BY <1>2 DEF SameInv
  <2> QED BY <1>3, <1>4, <2>1
<1>6. ASSUME NEW n \in Inputs'
      PROVE  Following(fr', Items', oracle', n)
  <2>1. n \in 0..MaxInput /\ n \in Nat /\ fr'.consumed <= n
    BY InputsNext
  <2>2. n \in Inputs /\ fr.jb.done <= n
    <3>1. n >= fr.consumed /\ n <= MaxInput
      BY <1>3, <1>4, <2>1, StreamConstants
    <3> QED BY <1>2, <1>4, <2>1, <3>1, StreamConstants DEF Inputs
  <2>3. Following(fr, Items, oracle, n)
    BY <1>2, <2>2 DEF SameInv
  <2>4. /\ Following(f, Items, oracle, n)
        /\ \A g : SameBlocks(g, f) /\ ~NeedsHeader(g)
                    => Following(g, sent \o HeaderItems(f), oracle, n)
    BY <2>1, <2>2, <2>3, StartFollows
  <2>5. CASE HasReady(f.jb, input)
    <3>1. Items' = sent \o HeaderItems(f)
      BY <1>1, <2>5 DEF Items
    <3> QED BY <1>1, <2>4, <2>5, <3>1
  <2>6. CASE ~HasReady(f.jb, input)
    <3>1. out = <<>>
      BY DEF Core, CallInv
    <3>2. Items' = Items
      BY <1>1, <2>6, <3>1 DEF Items
    <3> QED BY <1>1, <2>4, <2>6, <3>2
  <2> QED BY <2>5, <2>6
<1> QED BY <1>2, <1>5, <1>6 DEF SameInv

(* Two items.                                                              *)
LEMMA TwoItems ==
  ASSUME NEW x \in ItemSet, NEW y \in ItemSet
  PROVE  Append(<<x>>, y) = <<x, y>> /\ <<x>> \o <<y>> = <<x, y>>
<1> DEFINE u == Append(<<x>>, y)
           v == <<x, y>>
           w == <<x>> \o <<y>>
<1>1. u \in Seq(ItemSet) /\ Len(u) = 2 /\ u[1] = x /\ u[2] = y
  OBVIOUS
<1>2. v \in Seq(ItemSet) /\ Len(v) = 2 /\ v[1] = x /\ v[2] = y
  OBVIOUS
<1>3. w \in Seq(ItemSet) /\ Len(w) = 2 /\ w[1] = x /\ w[2] = y
  OBVIOUS
<1> HIDE DEF u, v, w
<1>4. u = v /\ w = v
  <2>1. \A i \in 1..2 : u[i] = v[i] /\ w[i] = v[i]
    <3>1. \A i \in 1..2 : i = 1 \/ i = 2
      OBVIOUS
    <3> QED BY <1>1, <1>2, <1>3, <3>1
  <2> QED BY <1>1, <1>2, <1>3, <2>1
<1> QED BY <1>4 DEF u, v, w

(* The last blocks of a frame are begun: the frame of no input is empty,   *)
(* any other has come as far as it had.                                    *)
LEMMA FinishedSame ==
  ASSUME Core', stage' = "Frame", NEW c \in CallSet, NEW f, IsFrame(f), Finish(c, f),
         Len(f.buf) = f.jb.jobStart + f.consumed, f.jb.done <= f.consumed,
         sent' \in Seq(ItemSet),
         f.consumed = 0 => sent' \o HeaderItems(f) = <<Header(f.pledged)>>,
         f.consumed > 0 => /\ f.jb.done < f.consumed
                           /\ \A g : IsFrame(g) /\ SameBlocks(g, f) /\ ~NeedsHeader(g)
                                 => Following(g, sent' \o HeaderItems(f), oracle', f.consumed)
  PROVE  SameInv'
<1> DEFINE h == HeaderItems(f)
           z == Block(<<>>, TRUE)
           J == f.jb.jobStart
           D == f.jb.done
           C == f.consumed
<1>1. /\ FrameEnd(f).kind = "JobEnd" /\ FrameEnd(f).end = Len(f.buf)
      /\ call'.input = FrameEnd(f)
      /\ HasReady(f.jb, FrameEnd(f)) => out' = h
      /\ ~HasReady(f.jb, FrameEnd(f)) => out' = Append(h, z)
      /\ IsFrame(fr') /\ SameBlocks(fr', f) /\ ~NeedsHeader(fr')
  BY FinishIs
<1>2. fr'.consumed = C /\ fr'.pledged = f.pledged
  BY <1>1 DEF SameBlocks
<1>3. J \in Int /\ D \in Nat /\ C \in Nat
  BY DEF IsFrame, FrameSet, CursorSet
<1>4. HasReady(f.jb, FrameEnd(f)) <=> D < C
  <2>1. HasReady(f.jb, FrameEnd(f)) <=> J + D < J + C
    BY <1>1 DEF HasReady, Ready, NextStart
  <2> HIDE DEF J, D, C
  <2> QED BY <1>3, <2>1
<1>5. CASE C = 0
  <2>1. ~HasReady(f.jb, FrameEnd(f))
    BY <1>3, <1>4, <1>5
  <2>2. Items' = sent' \o Append(h, z)
    BY <1>1, <2>1 DEF Items
  <2>3. z \in ItemSet
    <3>1. <<>> \in Seq(Int) /\ TRUE \in BOOLEAN
      OBVIOUS
    <3> QED BY <3>1, BlockIs, Zenon
  <2>4. h \in Seq(ItemSet)
    BY HeaderItemsIs
  <2> HIDE DEF h, z
  <2>5. Items' = Append(sent' \o h, z)
    BY <2>2, <2>3, <2>4, JoinAppend
  <2>6. sent' \o h = <<Header(f.pledged)>>
    BY <1>5 DEF h
  <2>7. Append(<<Header(f.pledged)>>, z) = <<Header(f.pledged), z>>
    <3>1. f.pledged \in Int
      BY DEF IsFrame, FrameSet
    <3>2. Header(f.pledged) \in ItemSet
      BY <3>1, HeaderIs
    <3> QED BY <2>3, <3>2, TwoItems
  <2>8. Items' = EmptyFrame'
    BY <1>2, <2>5, <2>6, <2>7 DEF EmptyFrame, z
  <2> QED BY <1>1, <1>2, <1>5, <2>8 DEF SameInv
<1>6. CASE C > 0
  <2>1. HasReady(f.jb, FrameEnd(f))
    BY <1>4, <1>6
  <2>2. Items' = sent' \o h
    BY <1>1, <2>1 DEF Items
  <2>3. Following(fr', Items', oracle', C)
    BY <1>1, <1>6, <2>2
  <2>4. \A n \in Inputs' : n = C
    BY <1>1, <1>2, InputsNext
  <2>5. ~(fr'.consumed = 0)
    BY <1>2, <1>3, <1>6
  <2> HIDE DEF C
  <2> QED BY <1>1, <2>3, <2>4, <2>5 DEF SameInv
<1> QED BY <1>3, <1>5, <1>6

(* The stream follows the one-shot frames of its inputs, at every step.    *)
LEMMA SameNext == Core /\ ItemsInv /\ SameInv /\ [Next]_vars => SameInv'
<1> SUFFICES ASSUME Core, ItemsInv, SameInv, [Next]_vars PROVE SameInv'
  OBVIOUS
<1>0. Core'
  BY CoreNext
<1>a. call \in CallSet
  BY DEF Core, TypeInv
<1>1. CASE AnyCall
  <2>1. /\ Items' = Items /\ fr' = fr /\ stage' = stage /\ call.pc = "idle"
        /\ oracle' = oracle /\ flushed' = flushed
    BY <1>1 DEF AnyCall, Call, Items
  <2>2. call'.pc = "flush"
    BY <1>1 DEF AnyCall, Call, NoCall
  <2> QED BY <1>0, <2>1, <2>2, KeptSame
<1>2. CASE \/ \E size \in Pledges \cup {NoSize} : SetPledgedSrcSize(size)
           \/ \E len \in PrefixLens : SetPrefix(len)
  <2>1. /\ Items' = Items /\ fr' = fr /\ stage' = stage /\ call.pc = "idle" /\ call' = call
        /\ oracle' = oracle /\ flushed' = flushed
    BY <1>2 DEF SetPledgedSrcSize, SetPrefix, Items
  <2> QED BY <1>0, <2>1, KeptSame
<1>3. CASE ResetStream \/ StepFailed \/ StepEnded
  <2>1. stage' \in {"Idle", "Failed"}
    BY <1>3 DEF ResetStream, StepFailed, Fail, StepEnded
  <2> QED BY <2>1 DEF SameInv
<1>4. CASE FlushTo
  <2>1. Items' = Items
    BY <1>4, FlushCore
  <2>2. /\ fr' = fr /\ stage' = stage /\ call.pc = "flush" /\ oracle' = oracle
        /\ flushed' = flushed
    BY <1>4 DEF FlushTo
  <2>3. call'.pc # "blocks"
    <3>1. \/ call' = NoCall
          \/ \E m : call' = [call EXCEPT !.pc = "match", !.room = m]
      BY <1>4 DEF FlushTo, Return
    <3>2. CASE call' = NoCall
      BY <3>2 DEF NoCall
    <3>3. ASSUME NEW m, call' = [call EXCEPT !.pc = "match", !.room = m]
          PROVE  call'.pc # "blocks"
      BY <1>a, <3>3 DEF CallSet
    <3> QED BY <3>1, <3>2, <3>3
  <2> QED BY <1>0, <2>1, <2>2, <2>3, KeptSame
<1>7. CASE StepIdleEnd
  <2>1. CASE pledged # NoSize /\ pledged # call.src
    <3>1. stage' = "Failed"
      BY <1>7, <2>1 DEF StepIdleEnd, Fail
    <3> QED BY <3>1 DEF SameInv
  <2>2. CASE ~(pledged # NoSize /\ pledged # call.src)
    <3> DEFINE n == call.src
               len == prefix
               F(ldm) == WholeFrame(n, len, ldm)
               c == [call EXCEPT !.src = 0]
    <3>1. PICK ldm \in Ldms : Finish(c, F(ldm))
      BY <1>7, <2>2 DEF StepIdleEnd, WholeFrame
    <3>2. stage' = "Frame" /\ sent' = <<>>
      BY <1>7, <2>2 DEF StepIdleEnd
    <3>3. n \in Nat /\ len \in Nat /\ c \in CallSet
      BY DEF Core, TypeInv, CallSet
    <3> DEFINE f == F(ldm)
    <3>4. /\ IsFrame(f) /\ f.pledged = n /\ f.consumed = n /\ NeedsHeader(f)
          /\ f.jb.jobStart = len /\ f.jb.done = 0 /\ f.jb.firstChunkEnd = NoChunk
          /\ f.jb.gained = 0 /\ Len(f.buf) = len + n
      BY <3>3, BeginWholeIs
    <3>5. Finish(c, f)
      BY <3>1
    <3> HIDE DEF f, c
    <3>6. HeaderItems(f) = <<Header(f.pledged)>>
      BY <3>4, HeaderItemsIs
    <3>7. Header(f.pledged) \in ItemSet
      BY <3>3, <3>4, HeaderIs
    <3>8. sent' \o HeaderItems(f) = <<Header(f.pledged)>>
      <4> DEFINE h == Header(f.pledged)
      <4> HIDE DEF h
      <4>1. <<>> \o <<h>> = <<h>>
        OBVIOUS
      <4> QED BY <3>2, <3>6, <4>1 DEF h
    <3>9. sent' \in Seq(ItemSet)
      BY <1>0 DEF Core, TypeInv
    <3>10. ASSUME NEW g, IsFrame(g), SameBlocks(g, f), ~NeedsHeader(g)
           PROVE  Following(g, sent' \o HeaderItems(f), oracle', f.consumed)
      <4>1. g.jb = f.jb /\ g.pledged = f.pledged
        BY <3>10 DEF SameBlocks
      <4> QED BY <3>3, <3>4, <3>8, <3>10, <4>1, BeginFollows
    <3>11. f.jb.done <= f.consumed /\ (f.consumed > 0 => f.jb.done < f.consumed)
      BY <3>3, <3>4
    <3>12. Len(f.buf) = f.jb.jobStart + f.consumed
      BY <3>4
    <3> QED BY <1>0, <3>2, <3>3, <3>4, <3>5, <3>8, <3>9, <3>10, <3>11, <3>12, FinishedSame
  <2> QED BY <2>1, <2>2
<1>8. CASE StepIdle
  <2>1. CASE Multithreaded(pledged)
    <3>1. stage' = "Failed"
      BY <1>8, <2>1 DEF StepIdle, Fail
    <3> QED BY <3>1 DEF SameInv
  <2>2. CASE ~Multithreaded(pledged)
    <3>1. PICK ldm \in Ldms : fr' = Begin(pledged, prefix, ldm)
      BY <1>8, <2>2 DEF StepIdle
    <3>2. /\ stage' = "Frame" /\ sent' = <<>> /\ out' = out /\ call.pc = "match"
          /\ call' = [call EXCEPT !.pc = "flush"]
      BY <1>8, <2>2 DEF StepIdle
    <3>3. /\ IsFrame(fr') /\ fr'.jb.done = 0 /\ fr'.jb.firstChunkEnd = NoChunk
          /\ fr'.jb.gained = 0 /\ fr'.consumed = 0 /\ NeedsHeader(fr')
      BY <3>1, BeginIs DEF Core, TypeInv
    <3>4. Items' = <<>>
      <4>1. out' = <<>>
        BY <3>2 DEF Core, CallInv
      <4> QED BY <3>2, <4>1 DEF Items
    <3>5. call'.pc = "flush"
      BY <1>a, <3>2 DEF CallSet
    <3>6. call'.input.kind # "JobEnd"
      BY <1>0, <3>5 DEF Core, CallInv
    <3>7. ASSUME NEW n \in Inputs' PROVE Following(fr', Items', oracle', n)
      <4>1. n \in Nat
        BY <1>0, InputsNext
      <4> QED BY <3>3, <3>4, <4>1, BeginFollows
    <3> QED BY <3>2, <3>3, <3>5, <3>6, <3>7 DEF SameInv
  <2> QED BY <2>1, <2>2
<1>9. CASE StepAccept
  <2>1. CASE fr.pledged # NoSize /\ fr.consumed + call.src > fr.pledged
    <3>1. stage' = "Failed"
      BY <1>9, <2>1 DEF StepAccept, Fail
    <3> QED BY <3>1 DEF SameInv
  <2>2. CASE ~(fr.pledged # NoSize /\ fr.consumed + call.src > fr.pledged)
    <3> DEFINE f == Accept(fr, call.src)
               a == Accepted(fr, call.src)
               input == [kind |-> "Open", end |-> Len(f.buf)]
               c == [call EXCEPT !.src = @ - a]
    <3>1. /\ StartBlocks(c, f, input) /\ stage' = stage /\ sent' = sent
          /\ call.pc = "match" /\ stage = "Frame" /\ flushed' = flushed /\ oracle' = oracle
      BY <1>9, <2>2 DEF StepAccept
    <3>2. /\ IsFrame(fr) /\ Buffered(fr) /\ Len(fr.buf) - NextStart(fr.jb) <= BlockSizeMax
          /\ Len(fr.buf) <= fr.cap /\ call.src \in Nat
      BY <3>1 DEF Core, TypeInv, BufferInv, CallInv, CallSet
    <3>3. /\ a \in 0..call.src /\ IsFrame(f) /\ f.pledged = fr.pledged
          /\ f.consumed = fr.consumed + a /\ SameCursor(f.jb, fr.jb)
          /\ NeedsHeader(f) <=> NeedsHeader(fr)
      BY <3>2, AcceptIs
    <3> HIDE DEF f, a
    <3>4. input \in InputSet /\ input.kind = "Open"
      <4>1. f.buf \in Seq(Int)
        BY <3>3 DEF IsFrame, FrameSet
      <4> QED BY <4>1 DEF InputSet
    <3>5. c \in CallSet
      <4> DEFINE d == call.src - a
      <4>1. d \in Nat /\ c = [call EXCEPT !.src = d]
        BY <3>2, <3>3
      <4> HIDE DEF d
      <4> QED BY <1>a, <4>1 DEF CallSet
    <3>6. f.consumed >= fr.consumed
      <4>1. fr.consumed \in Nat
        BY <3>2 DEF IsFrame, FrameSet
      <4> QED BY <3>2, <3>3, <4>1
    <3> HIDE DEF c, input
    <3> QED BY <1>0, <3>1, <3>3, <3>4, <3>5, <3>6, StartedSame
  <2> QED BY <2>1, <2>2
<1>10. CASE StepContinue
  <2>1. /\ Items' = Items /\ fr' = fr /\ stage' = stage /\ call.pc = "match"
        /\ call'.pc = "idle" /\ oracle' = oracle /\ flushed' = flushed
    BY <1>10 DEF StepContinue, Return, NoCall, Items
  <2> QED BY <1>0, <2>1, KeptSame
<1>11. CASE StepFlush
  <2>1. flushed' = TRUE
    BY <1>11 DEF StepFlush
  <2> QED BY <2>1 DEF SameInv
<1>12. CASE StepEnd
  <2>1. CASE fr.pledged # NoSize /\ fr.pledged # fr.consumed
    <3>1. stage' = "Failed"
      BY <1>12, <2>1 DEF StepEnd, Fail
    <3> QED BY <3>1 DEF SameInv
  <2>2. CASE ~(fr.pledged # NoSize /\ fr.pledged # fr.consumed)
    <3>1. /\ Finish(call, fr) /\ stage' = stage /\ sent' = sent /\ flushed' = flushed
          /\ oracle' = oracle /\ call.pc = "match" /\ stage = "Frame"
      BY <1>12, <2>2 DEF StepEnd
    <3>2. CASE flushed
      BY <3>1, <3>2 DEF SameInv
    <3>3. CASE ~flushed
      <4> DEFINE C == fr.consumed
                 s == sent \o HeaderItems(fr)
      <4>1. /\ IsFrame(fr) /\ fr.jb.done \in Nat /\ C \in Nat /\ C <= MaxInput
            /\ fr.jb.done <= C /\ Len(fr.buf) = fr.jb.jobStart + C
        BY <3>1, FrameNumbers
      <4>2. call.input.kind # "JobEnd"
        BY <3>1 DEF Core, CallInv
      <4>3. C > 0 => fr.jb.done < C
        BY <3>1, <3>3, <4>2 DEF SameInv
      <4>4. C \in Inputs /\ C \in 0..MaxInput
        BY <4>1, <4>2, StreamConstants DEF Inputs
      <4>5. Following(fr, Items, oracle, C)
        BY <3>1, <3>3, <4>2, <4>4 DEF SameInv
      <4>6. SameCursor(fr.jb, fr.jb)
        BY DEF SameCursor
      <4>7. \A g : SameBlocks(g, fr) /\ ~NeedsHeader(g) => Following(g, s, oracle, C)
        BY <3>1, <4>1, <4>4, <4>5, <4>6, StartFollows
      <4>8. sent' \o HeaderItems(fr) = s
        BY <3>1
      <4>9. C = 0 => s = <<Header(fr.pledged)>>
        <5> SUFFICES ASSUME C = 0 PROVE s = <<Header(fr.pledged)>>
          OBVIOUS
        <5>1. /\ SameBlocks(fr', fr) /\ ~NeedsHeader(fr')
          BY <1>a, <3>1, <4>1, FinishIs
        <5>2. Following(fr', s, oracle, 0)
          BY <4>7, <5>1
        <5>3. fr'.jb.done = 0 /\ fr'.pledged = fr.pledged
          BY <4>1, <5>1 DEF SameBlocks
        <5>4. Follows(fr', s, Chain(oracle, 0)[0])
          BY <5>2, <5>3 DEF Following
        <5>5. Chain(oracle, 0)[0].blocks = <<>>
          BY ChainIs, NothingCutIs
        <5>6. s = <<Header(fr.pledged)>> \o <<>>
          BY <5>1, <5>3, <5>4, <5>5 DEF Follows
        <5>7. Header(fr.pledged) \in ItemSet
          BY <4>1, HeaderIs DEF IsFrame, FrameSet
        <5> DEFINE h == Header(fr.pledged)
        <5>8. h \in ItemSet
          BY <5>7
        <5> HIDE DEF h, s
        <5>9. <<h>> \o <<>> = <<h>>
          BY <5>8
        <5> QED BY <5>6, <5>9 DEF h
      <4>10. sent' \in Seq(ItemSet)
        BY <1>0 DEF Core, TypeInv
      <4>11. C > 0 => \A g : IsFrame(g) /\ SameBlocks(g, fr) /\ ~NeedsHeader(g)
                              => Following(g, sent' \o HeaderItems(fr), oracle', C)
        BY <3>1, <4>7, <4>8
      <4> QED BY <1>0, <1>a, <3>1, <4>1, <4>3, <4>8, <4>9, <4>10, <4>11, FinishedSame
    <3> QED BY <3>2, <3>3
  <2> QED BY <2>1, <2>2

<1>13. CASE WriteBlock
  <2>1. /\ stage' = stage /\ call' = call /\ oracle' = oracle /\ flushed' = flushed
        /\ call.pc = "blocks" /\ HasReady(fr.jb, call.input)
    BY <1>13 DEF WriteBlock
  <2>2. stage = "Frame" /\ call.input.kind # "None"
    BY <2>1 DEF Core, CallInv
  <2>3. CASE flushed
    BY <2>1, <2>2, <2>3 DEF SameInv
  <2>4. CASE ~flushed
    <3> DEFINE B == TheBlock.end
               J == fr.jb.jobStart
               D == fr.jb.done
               C == fr.consumed
    <3>1. call.input.kind # "Chunk" /\ call.input.kind \in {"Open", "JobEnd"}
      BY <1>a, <2>1, <2>2, <2>4 DEF SameInv, CallSet, InputSet
    <3>2. fr'.jb.done = B - J /\ fr'.consumed = C
      BY <1>13, WriteBlockIs DEF SameData
    <3>3. /\ B \in Int /\ NextStart(fr.jb) < B /\ B <= Len(fr.buf)
          /\ call.input.kind = "Open" => B < Len(fr.buf)
      BY <2>1, TheBlockIs
    <3>4. J \in Int /\ D \in Nat /\ C \in Nat /\ D <= C /\ Len(fr.buf) = J + C
      BY <2>2, FrameNumbers
    <3>5. NextStart(fr.jb) = J + D
      BY DEF NextStart
    <3>6. C # 0 /\ (call.input.kind # "JobEnd" => fr'.jb.done < fr'.consumed)
      <4> HIDE DEF B, J, D, C
      <4>1. C # 0
        BY <3>3, <3>4, <3>5
      <4>2. call.input.kind = "Open" => B - J < C
        BY <3>3, <3>4
      <4> QED BY <3>1, <3>2, <4>1, <4>2
    <3>7. Inputs' = Inputs
      BY <2>1, <3>2 DEF Inputs
    <3>8. ASSUME NEW n \in Inputs PROVE Following(fr', Items', oracle, n)
      <4>1. Following(fr, Items, oracle, n)
        BY <2>2, <2>4, <3>6 DEF SameInv
      <4>2. PICK k \in 0..fr.jb.done : Follows(fr, Items, Chain(oracle, n)[k])
        BY <4>1 DEF Following
      <4>3. k + 1 \in 0..fr'.jb.done /\ Follows(fr', Items', Chain(oracle, n)[k + 1])
        BY <1>13, <3>1, <4>2, BlockFollows
      <4> QED BY <4>3 DEF Following
    <3> QED BY <2>1, <2>2, <3>1, <3>2, <3>6, <3>7, <3>8 DEF SameInv
  <2> QED BY <2>3, <2>4
<1>14. CASE BlocksDone
  <2>1. oracle' = oracle /\ flushed' = flushed /\ sent' = sent
    BY <1>14 DEF BlocksDone
  <2>2. /\ call.pc = "blocks" /\ stage = "Frame" /\ ~HasReady(fr.jb, call.input)
        /\ call.input.end = Len(fr.buf)
        /\ SameData(fr', fr) /\ call'.pc = "flush" /\ call'.input.kind = "None"
        /\ call.input.kind # "Chunk" => fr' = fr
        /\ call.input.kind = "JobEnd" => out' = Append(out, Epilogue) /\ stage' = "Ended"
        /\ call.input.kind # "JobEnd" => out' = out /\ stage' = stage
    BY <1>14, BlocksDoneIs
  <2>3. CASE flushed
    BY <2>1, <2>3 DEF SameInv
  <2>4. CASE ~flushed /\ call.input.kind # "JobEnd"
    <3>1. fr' = fr /\ Items' = Items
      BY <2>1, <2>2, <2>4 DEF SameInv, Items
    <3>2. Inputs' = Inputs
      BY <2>2, <2>4, <3>1 DEF Inputs
    <3> QED BY <2>1, <2>2, <2>4, <3>1, <3>2 DEF SameInv
  <2>5. CASE ~flushed /\ call.input.kind = "JobEnd"
    <3> DEFINE h == <<Header(fr.pledged)>>
               n == fr.consumed
               J == fr.jb.jobStart
               D == fr.jb.done
    <3>1. /\ IsCursor(fr.jb) /\ J \in Int /\ D \in Nat /\ n \in Nat /\ n <= MaxInput
          /\ D <= n /\ Len(fr.buf) = J + n /\ IsFrame(fr)
      BY <2>2, FrameNumbers
    <3>2. D = n
      <4>1. ~(J + D < J + n)
        BY <2>2, <2>5, <3>1 DEF HasReady, Ready, NextStart
      <4> HIDE DEF J, D, n
      <4> QED BY <3>1, <4>1
    <3>3. Items = h \o OneShot(oracle, n)
      <4>1. CASE n = 0
        <5>1. Items = <<Header(fr.pledged), Block(<<>>, TRUE)>>
          BY <2>2, <2>5, <4>1 DEF SameInv, EmptyFrame
        <5>2. OneShot(oracle, n) = <<Block(<<>>, TRUE)>>
          BY <4>1 DEF OneShot
        <5>3. Header(fr.pledged) \in ItemSet /\ Block(<<>>, TRUE) \in ItemSet
          <6>1. fr.pledged \in Int
            BY <3>1 DEF IsFrame, FrameSet
          <6>2. Header(fr.pledged) \in ItemSet
            BY <6>1, HeaderIs
          <6>3. <<>> \in Seq(Int) /\ TRUE \in BOOLEAN
            OBVIOUS
          <6>4. Block(<<>>, TRUE) \in ItemSet
            BY <6>3, BlockIs, Zenon
          <6> QED BY <6>2, <6>4
        <5>4. <<Header(fr.pledged)>> \o <<Block(<<>>, TRUE)>>
                = <<Header(fr.pledged), Block(<<>>, TRUE)>>
          <6> DEFINE x == Header(fr.pledged)
                     y == Block(<<>>, TRUE)
          <6>1. x \in ItemSet /\ y \in ItemSet
            BY <5>3
          <6> HIDE DEF x, y
          <6>2. <<x>> \o <<y>> = <<x, y>>
            BY <6>1, TwoItems, Zenon
          <6> QED BY <6>2, Zenon DEF x, y
        <5> QED BY <5>1, <5>2, <5>4, Zenon
      <4>2. CASE n # 0
        <5>1. n \in Inputs /\ n \in 0..MaxInput
          BY <2>5, <3>1, StreamConstants DEF Inputs
        <5>2. Following(fr, Items, oracle, n)
          BY <2>2, <2>5, <4>2, <5>1 DEF SameInv
        <5>3. PICK k \in 0..D : Follows(fr, Items, Chain(oracle, n)[k])
          BY <5>2 DEF Following
        <5> DEFINE st == Chain(oracle, n)[k]
        <5>4. ~NeedsHeader(fr)
          BY <2>2 DEF ItemsInv
        <5>5. Items = h \o st.blocks /\ st.jb = RebaseBlocks(fr.jb, J)
          BY <5>3, <5>4 DEF Follows
        <5>6. NextStart(st.jb) = n
          <6>1. NextStart(st.jb) = NextStart(fr.jb) - J
            BY <3>1, <5>5, RebaseIs
          <6>2. NextStart(fr.jb) = J + D
            BY DEF NextStart
          <6> HIDE DEF J, D, n, st
          <6> QED BY <3>1, <3>2, <6>1, <6>2
        <5>7. ~HasReady(st.jb, WholeInput(n))
          <6>1. WholeInput(n).kind = "JobEnd" /\ WholeInput(n).end = n
            BY DEF WholeInput
          <6> HIDE DEF st, n
          <6> QED BY <3>1, <5>6, <6>1 DEF HasReady, Ready
        <5>8. Chain(oracle, n)[n] = st
          <6>1. k \in 0..n
            BY <3>2
          <6> QED BY <5>1, <5>7, <6>1, ChainEnds
        <5>9. OneShot(oracle, n) = st.blocks
          BY <4>2, <5>8 DEF OneShot
        <5> QED BY <5>5, <5>9
      <4> QED BY <4>1, <4>2
    <3>4. Items' = Append(Items, Epilogue)
      <4>1. sent \in Seq(ItemSet) /\ out \in Seq(ItemSet) /\ Epilogue \in ItemSet
        BY EpilogueIs DEF Core, TypeInv
      <4> QED BY <2>1, <2>2, <2>5, <4>1, JoinAppend DEF Items
    <3>5. fr' = fr
      BY <2>2, <2>5
    <3> QED BY <2>1, <2>2, <2>5, <3>3, <3>4, <3>5 DEF SameInv
  <2> QED BY <2>3, <2>4, <2>5
<1>15. CASE UNCHANGED vars
  BY <1>15 DEF vars, SameInv, Items, EmptyFrame, Inputs
<1> QED
  BY <1>1, <1>2, <1>3, <1>4, <1>7, <1>8, <1>9, <1>10, <1>11, <1>12, <1>13, <1>14, <1>15
     DEF Next, LoopStep

(* A sequence of items that begins another, behind a common first one.     *)
LEMMA PrefixIs ==
  ASSUME NEW x \in ItemSet, NEW s \in Seq(ItemSet), NEW t \in Seq(ItemSet), Begins(s, t)
  PROVE  /\ IsPrefix(<<x>> \o s, <<x>> \o t)
         /\ IsPrefix(<<>>, <<x>> \o t)
<1> DEFINE h == <<x>>
           u == h \o s
           v == h \o t
           m == Len(u)
           a == SubSeq(u, 1, m)
           b == SubSeq(v, 1, m)
<1>1. h \in Seq(ItemSet) /\ Len(h) = 1
  OBVIOUS
<1> HIDE DEF h
<1>2. /\ u \in Seq(ItemSet) /\ Len(u) = 1 + Len(s)
      /\ \A i \in 1..1 : u[i] = h[i]
      /\ \A i \in 1..Len(s) : u[1 + i] = s[i]
  <2>1. /\ u \in Seq(ItemSet) /\ Len(u) = Len(h) + Len(s)
        /\ \A i \in 1..Len(h) : u[i] = h[i]
        /\ \A i \in 1..Len(s) : u[Len(h) + i] = s[i]
    BY <1>1, JoinItemsIs, Zenon
  <2> QED BY <1>1, <2>1, Zenon
<1>3. /\ v \in Seq(ItemSet) /\ Len(v) = 1 + Len(t)
      /\ \A i \in 1..1 : v[i] = h[i]
      /\ \A i \in 1..Len(t) : v[1 + i] = t[i]
  <2>1. /\ v \in Seq(ItemSet) /\ Len(v) = Len(h) + Len(t)
        /\ \A i \in 1..Len(h) : v[i] = h[i]
        /\ \A i \in 1..Len(t) : v[Len(h) + i] = t[i]
    BY <1>1, JoinItemsIs, Zenon
  <2> QED BY <1>1, <2>1, Zenon
<1>4. /\ Len(s) \in Nat /\ Len(t) \in Nat /\ Len(s) <= Len(t)
      /\ \A i \in 1..Len(s) : s[i] = t[i]
  BY DEF Begins
<1> HIDE DEF u, v
<1>5. m \in Nat /\ m <= Len(v)
  BY <1>2, <1>3, <1>4
<1>6. ASSUME NEW i \in 1..m PROVE u[i] = v[i]
  <2>1. CASE i = 1
    BY <1>2, <1>3, <2>1
  <2>2. CASE i # 1
    <3>1. i - 1 \in 1..Len(s) /\ i - 1 \in 1..Len(t) /\ 1 + (i - 1) = i
      BY <1>2, <1>4, <2>2
    <3>2. u[i] = s[i - 1] /\ v[i] = t[i - 1]
      BY <1>2, <1>3, <3>1
    <3> QED BY <1>4, <3>1, <3>2
  <2> QED BY <2>1, <2>2
<1>7. a \in Seq(ItemSet) /\ Len(a) = m /\ \A i \in 1..m : a[i] = u[i]
  BY <1>2
<1>8. b \in Seq(ItemSet) /\ Len(b) = m /\ \A i \in 1..m : b[i] = v[i]
  <2>1. v \in Seq(ItemSet)
    BY <1>3
  <2> HIDE DEF m
  <2> QED BY <1>5, <2>1
<1> HIDE DEF a, b, m
<1>9. \A i \in 1..m : a[i] = b[i]
  BY <1>6, <1>7, <1>8
<1>10. a = b
  BY <1>7, <1>8, <1>9
<1>11. IsPrefix(u, v)
  BY <1>5, <1>10 DEF IsPrefix, a, b, m
<1>12. IsPrefix(<<>>, v)
  <2> DEFINE e == SubSeq(v, 1, 0)
             d == SubSeq(<<>>, 1, 0)
  <2>1. d = <<>>
    OBVIOUS
  <2>2. e = <<>>
    BY <1>3
  <2>3. Len(<<>>) = 0 /\ 0 <= Len(v)
    BY <1>3, <1>4
  <2> QED BY <2>1, <2>2, <2>3 DEF IsPrefix
<1> QED BY <1>11, <1>12 DEF u, v, h

(* What a frame has come to begins the one-shot frame.                     *)
LEMMA FollowingBegins ==
  ASSUME Core, stage = "Frame", NEW n \in 0..MaxInput, fr.consumed <= n,
         Following(fr, Items, oracle, n)
  PROVE  IsPrefix(Items, <<Header(fr.pledged)>> \o OneShot(oracle, n))
<1>1. PICK k \in 0..fr.jb.done : Follows(fr, Items, Chain(oracle, n)[k])
  BY DEF Following
<1> DEFINE x == Header(fr.pledged)
           s == Chain(oracle, n)[k].blocks
           t == OneShot(oracle, n)
<1>2. fr.jb.done \in Nat /\ fr.consumed \in Nat /\ fr.jb.done <= fr.consumed /\ n \in Nat
  BY FrameNumbers, StreamConstants
<1>3. k \in 0..n /\ (n = 0 => k = 0)
  BY <1>2
<1>4. x \in ItemSet
  BY HeaderIs DEF Core, TypeInv, IsFrame, FrameSet
<1>5. s \in Seq(ItemSet)
  BY <1>3, ChainCuts DEF Cutting
<1>6. t \in Seq(ItemSet) /\ Begins(s, t)
  <2>1. CASE n = 0
    <3>1. t = <<Block(<<>>, TRUE)>>
      BY <2>1 DEF OneShot
    <3>2. Block(<<>>, TRUE) \in ItemSet
      <4>1. <<>> \in Seq(Int) /\ TRUE \in BOOLEAN
        OBVIOUS
      <4> QED BY <4>1, BlockIs, Zenon
    <3>3. s = <<>>
      BY <1>2, <1>3, <2>1, ChainIs, NothingCutIs
    <3> DEFINE z == Block(<<>>, TRUE)
    <3>4. z \in ItemSet /\ t = <<z>>
      BY <3>1, <3>2
    <3> HIDE DEF z, t, s
    <3>5. <<z>> \in Seq(ItemSet) /\ Begins(<<>>, <<z>>)
      BY <3>4 DEF Begins
    <3> QED BY <3>3, <3>4, <3>5
  <2>2. CASE n # 0
    <3>1. t = Chain(oracle, n)[n].blocks
      BY <2>2 DEF OneShot
    <3>2. n \in 0..n
      BY <1>2
    <3>3. Cutting(n, Chain(oracle, n)[n])
      BY <3>2, ChainCuts
    <3>4. Begins(s, Chain(oracle, n)[n].blocks)
      BY <1>3, ChainBegins
    <3> QED BY <3>1, <3>3, <3>4 DEF Cutting
  <2> QED BY <2>1, <2>2
<1>7. Items = <<>> \/ Items = <<x>> \o s
  BY <1>1 DEF Follows
<1> HIDE DEF x, s, t
<1>8. IsPrefix(<<x>> \o s, <<x>> \o t) /\ IsPrefix(<<>>, <<x>> \o t)
  BY <1>4, <1>5, <1>6, PrefixIs
<1>9. IsPrefix(Items, <<x>> \o t)
  BY <1>7, <1>8, Zenon
<1> QED BY <1>9 DEF x, t

(* An empty frame is all of its one-shot frame.                            *)
LEMMA EmptyBegins ==
  ASSUME Core, stage = "Frame"
  PROVE  IsPrefix(EmptyFrame, <<Header(fr.pledged)>> \o OneShot(oracle, 0))
<1> DEFINE x == Header(fr.pledged)
           z == Block(<<>>, TRUE)
           s == <<z>>
<1>1. x \in ItemSet
  BY HeaderIs DEF Core, TypeInv, IsFrame, FrameSet
<1>2. z \in ItemSet
  <2>1. <<>> \in Seq(Int) /\ TRUE \in BOOLEAN
    OBVIOUS
  <2> QED BY <2>1, BlockIs, Zenon
<1>3. OneShot(oracle, 0) = s
  BY DEF OneShot
<1>4. EmptyFrame = <<x, z>>
  BY DEF EmptyFrame
<1> HIDE DEF x, z
<1>5. s \in Seq(ItemSet) /\ Begins(s, s)
  BY <1>2 DEF Begins
<1>6. <<x>> \o <<z>> = <<x, z>>
  BY <1>1, <1>2, TwoItems, Zenon
<1>7. IsPrefix(<<x>> \o s, <<x>> \o s)
  <2> HIDE DEF s
  <2> QED BY <1>1, <1>5, PrefixIs
<1>8. IsPrefix(<<x, z>>, <<x>> \o s)
  BY <1>6, <1>7
<1> QED BY <1>3, <1>4, <1>8 DEF x

(* However its input is cut into calls, a frame's blocks code the input in *)
(* order, and without a Flush the frame is the one a one-shot call writes, *)
(* of which what is written so far is a beginning whatever input follows.  *)
THEOREM StreamsAreOneShot == Spec => []SameAsOneShot
<1>1. Init => ItemsInv /\ CodedInv /\ SameInv
  BY DEF Init, NoCall, NoInput, ItemsInv, CodedInv, SameInv
<1>2. Core /\ CodedInv /\ SameInv => SameAsOneShot
  <2> SUFFICES ASSUME Core, CodedInv, SameInv, stage \in {"Frame", "Ended"}
               PROVE  SameAsOneShot
    BY DEF SameAsOneShot
  <2>1. BlocksCodeTheInput
    BY DEF CodedInv
  <2>2. \A n : OneShotFrame(n) = <<Header(fr.pledged)>> \o OneShot(oracle, n)
    BY OneShotIs DEF OneShotFrame
  <2>3. ASSUME ~flushed, stage = "Ended"
        PROVE  Items = Append(OneShotFrame(fr.consumed), Epilogue)
    BY <2>2, <2>3 DEF SameInv
  <2>4. ASSUME ~flushed, stage = "Frame", NEW n \in Inputs
        PROVE  IsPrefix(Items, OneShotFrame(n))
    <3>1. /\ n \in 0..MaxInput /\ fr.consumed <= n
          /\ call.input.kind = "JobEnd" => n = fr.consumed
      BY InputsAre
    <3>2. CASE call.input.kind = "JobEnd" /\ fr.consumed = 0
      <4>1. Items = EmptyFrame /\ n = 0
        BY <2>4, <3>1, <3>2 DEF SameInv
      <4> QED BY <2>2, <2>4, <4>1, EmptyBegins
    <3>3. CASE ~(call.input.kind = "JobEnd" /\ fr.consumed = 0)
      <4>1. Following(fr, Items, oracle, n)
        BY <2>4, <3>3 DEF SameInv
      <4> QED BY <2>2, <2>4, <3>1, <4>1, FollowingBegins
    <3> QED BY <3>2, <3>3
  <2> QED BY <2>1, <2>3, <2>4 DEF SameAsOneShot
<1> QED
  BY <1>1, <1>2, CoreHolds, ItemsNext, CodedNext, SameNext, PTL DEF Spec
=============================================================================
