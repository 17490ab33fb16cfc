---------------------------- MODULE DecodeStream ----------------------------
(***************************************************************************)
(* The frame decoder's stages (decode.rs, FrameDecoder) under the          *)
(* streaming driver (decode/stream.rs, Decompressor), which gathers units  *)
(* from pieces of input of any size, decodes blocks into a round buffer    *)
(* and writes that out into buffers of any size.                           *)
(*                                                                         *)
(* A stream is a sequence of frames, cut into units: a frame header, a     *)
(* block header, a block's content, a checksum, a skippable frame's bytes. *)
(* Units keep their lengths and what their headers say; a decoded byte is  *)
(* a token naming its frame and position, so a byte read from the wrong    *)
(* place of the round buffer is another byte.  Blocks are written byte by  *)
(* byte, each write overshooting by Overlength bytes as the copies of the  *)
(* code do.                                                                *)
(***************************************************************************)
EXTENDS Integers, Sequences, FiniteSets, SequencesExt

CONSTANTS
    Streams,       \* the streams decoded, sequences of frames
    MaxBlock,      \* MAX_BLOCK_SIZE
    Overlength,    \* WILDCOPY_OVERLENGTH
    MarginBlocks,  \* RING_MARGIN_BLOCKS
    PrefixLen,     \* FRAME_HEADER_PREFIX_LEN
    DictLen,       \* length of a dictionary's content
    WindowMax,     \* the streaming limit on a frame's window
    Gives, Rooms,  \* sizes of the input and output buffers of a call
    MaxResets      \* bound on the resets

ASSUME SizesAssumption ==
    /\ MaxBlock > 0 /\ PrefixLen > 1
    /\ MaxBlock \in Nat /\ Overlength \in Nat /\ MarginBlocks \in Nat
    /\ PrefixLen \in Nat /\ DictLen \in Nat /\ WindowMax \in Nat
    /\ Gives \subseteq Nat \ {0} /\ Rooms \subseteq Nat /\ Rooms # {0}
    /\ MaxResets \in Nat

BlockHeaderLen == 1
ChecksumLen == 1
BlockRoom == MaxBlock + Overlength

NoSize == -1   \* None, of a Frame_Content_Size
Junk == 0      \* a byte an overshooting copy wrote, or none did
Unbounded == 1000  \* usize::MAX, of the room of a call

VARIABLES
    stream,       \* the stream being decoded
    upos,         \* the unit of it the decoder is at
    left,         \* bytes of the call's input not read
    given,        \* bytes of the stream the caller has handed over
    room,         \* bytes of the call's output not written
    out,          \* the bytes written out
    dict,         \* whether frames start from a dictionary
    batches,      \* whether decode_blocks_parallel takes whole blocks
    stage,        \* FrameDecoder::stage and its Frame
    unit,         \* how many bytes of the unit are gathered
    ring, mem,    \* the round buffer, and what its bytes hold
    frame_ended, failed,
    todo,         \* located blocks left of the batch, 0 outside one
    blk,          \* the block being written: its destination and history
    result,       \* what the last call returned
    zeros,        \* the frames it has reported
    resets, pc

input == <<stream, given, dict, batches, resets>>
ringvars == <<ring, mem>>
vars == <<stream, upos, left, given, room, out, dict, batches, stage, unit, ring, mem,
          frame_ended, failed, todo, blk, result, zeros, resets, pc>>

Least(a, b) == IF a < b THEN a ELSE b
Most(a, b) == IF a < b THEN b ELSE a

----------------------------------------------------------------------------
(* Streams and their units. *)

\* A unit: its kind, length and frame, and for a block its number.
Unit(k, len, f, i) == [k |-> k, len |-> len, f |-> f, i |-> i]

FrameUnits(fr, f) ==
    <<Unit("header", fr.hlen, f, 0)>> \o
    IF fr.skip THEN <<Unit("skip", fr.left, f, 0)>>
    ELSE FlattenSeq([i \in DOMAIN fr.blocks |->
                        <<Unit("block", BlockHeaderLen, f, i),
                          Unit("content", fr.blocks[i].clen, f, i)>>])
         \o (IF fr.checksum THEN <<Unit("checksum", ChecksumLen, f, 0)>> ELSE <<>>)

\* The size of its blocks' content a frame allows.
BlockSizeMax(fr) == Least(fr.window, MaxBlock)

\* A block: the bytes it is coded in and decodes to, and what is wrong with
\* it: its size or type, in its header, or its content. One that decodes decodes to no more than the frame allows, for else
\* its header or its decoding fails.
BlockSet ==
    [clen: Nat, out: Nat, comp: BOOLEAN,
     fault: {"none", "size", "content", "reserved"}]

FrameSet ==
    [skip: BOOLEAN, hlen: Nat, left: Nat, window: Nat, fcs: Nat \union {NoSize},
     blocks: Seq(BlockSet), checksum: BOOLEAN, sum_ok: BOOLEAN, bad: BOOLEAN, cut: BOOLEAN]

\* A frame header is no shorter than its prefix, a skippable frame has no
\* blocks, and any other has a last block.
FrameOk(fr) ==
    /\ fr.hlen >= PrefixLen
    /\ fr.skip <=> fr.blocks = <<>>
    /\ \A i \in DOMAIN fr.blocks :
          fr.blocks[i].fault = "none" => fr.blocks[i].out <= BlockSizeMax(fr)

\* Mutant of HeaderFails: a reserved block type is left to the content.
HeaderFailsOnSize(b) == b.fault = "size"

\* parse_block_header refuses a reserved block type, and a block larger than
\* the frame allows.
HeaderFails(b) == b.fault \in {"size", "reserved"}

ASSUME StreamsAssumption ==
    /\ Streams \subseteq Seq(FrameSet)
    /\ \A s \in Streams : s # <<>> /\ \A f \in DOMAIN s : FrameOk(s[f])

Units == [s \in Streams |-> FlattenSeq([f \in DOMAIN s |-> FrameUnits(s[f], f)])]

\* The sums of the first n of ns, for each n.
Sums(ns) ==
    LET sum[n \in 0 .. Len(ns)] == IF n = 0 THEN 0 ELSE sum[n - 1] + ns[n]
    IN sum

Total(ns) == Sums(ns)[Len(ns)]
Lens(us) == Total([i \in DOMAIN us |-> us[i].len])
Size(fr) == Total([i \in DOMAIN fr.blocks |-> fr.blocks[i].out])

CurUnits == Units[stream]
Cur == CurUnits[upos]
CurFrame == stream[Cur.f]
CurBlock == CurFrame.blocks[Cur.i]

\* A cut stream ends one byte short of its last unit.
StreamLen == [s \in Streams |-> Lens(Units[s]) - (IF s[Len(s)].cut THEN 1 ELSE 0)]

\* The bytes of frame f's units from the u-th of the stream on.
LensFrom(u, f) ==
    Total([i \in DOMAIN CurUnits |->
              IF i >= u /\ CurUnits[i].f = f THEN CurUnits[i].len ELSE 0])

Token(f, i) == 100 * f + i
DictToken(i) == -i

FrameContent(s, f) == [i \in 1 .. Size(s[f]) |-> Token(f, i)]
Content == [s \in Streams |-> FlattenSeq([f \in DOMAIN s |-> FrameContent(s, f)])]

----------------------------------------------------------------------------
(* Lengths of the next unit. *)

\* unit_len, seen bytes of the unit being at hand: a frame header's length
\* is known once its prefix is.
UnitLen(seen) ==
    CASE stage.k = "header" ->
            IF seen < PrefixLen \/ upos > Len(CurUnits) THEN PrefixLen ELSE Cur.len
      [] stage.k = "skip" -> stage.left
      [] OTHER -> Cur.len

Hint == Most(UnitLen(unit) - unit, 1)

Pending == ring.end - ring.flushed

----------------------------------------------------------------------------
(* The round buffer. *)

FitsOneBlock(fr) == fr.fcs # NoSize /\ fr.fcs <= BlockSizeMax(fr)

\* The length a frame's buffer grows to: its content, or the window and a
\* margin, with room for a block.
FullLen(fr) ==
    LET known == fr.fcs # NoSize
        reach == IF known THEN Least(fr.fcs, fr.window) ELSE fr.window
        margin == IF known /\ fr.fcs <= fr.window THEN 0
                  ELSE MarginBlocks * Least(fr.window, MaxBlock)
    IN reach + Overlength + BlockRoom + margin

\* RingOut::start: the buffer keeps its length from frame to frame.
StartRing(fr) ==
    [ring EXCEPT !.window = fr.window, !.full = FullLen(fr),
                 !.end = 0, !.ext_end = 0, !.flushed = 0]

\* Ring::grow.
Grown(r) ==
    IF r.end + BlockRoom > r.len /\ r.len < r.full
    THEN [r EXCEPT !.len = Least(Most(2 * r.len, r.end + BlockRoom), r.full)]
    ELSE r

\* A new segment, with the last as its history, where the block might not fit.
Wrapped(r) ==
    IF r.end + BlockRoom > r.len
    THEN [r EXCEPT !.ext_end = r.end, !.end = 0, !.flushed = 0]
    ELSE r

\* Mutant of ExtOf: the dictionary is out of reach a byte early.
ExtOfAtWindow(r) ==
    CASE r.end >= r.window -> [k |-> "none", len |-> 0]
      [] r.end < r.window /\ r.ext_end = 0 ->
            [k |-> "dict", len |-> IF dict THEN DictLen ELSE 0]
      [] OTHER -> [k |-> "ring", len |-> r.ext_end]

\* The ExtHistory of a block at r.end: none, the dictionary, or the ring's.
ExtOf(r) ==
    CASE r.end > r.window -> [k |-> "none", len |-> 0]
      [] r.end <= r.window /\ r.ext_end = 0 ->
            [k |-> "dict", len |-> IF dict THEN DictLen ELSE 0]
      [] OTHER -> [k |-> "ring", len |-> r.ext_end]

NoBlk == [j |-> 0, ext |-> [k |-> "none", len |-> 0]]

\* block_dst; resized bytes are zeroed.
BlockDst ==
    LET g == Grown(ring)
        r == Wrapped(g)
    IN /\ ring' = r
       /\ mem' = [p \in 0 .. g.len - 1 |-> IF p < ring.len THEN mem[p] ELSE Junk]
       /\ blk' = [j |-> 0, ext |-> ExtOf(r)]

\* The byte a match at distance d reads, the block's first blk.j bytes
\* written; none where exec_sequence refuses it.
Lookup(d) ==
    LET avail == ring.end + blk.j
        refused == \/ d > ring.window /\ (blk.ext.k # "dict" \/ avail > ring.window)
                   \/ d - avail > blk.ext.len
    IN IF refused THEN <<>>
       ELSE IF d <= avail THEN <<mem[avail - d]>>
       ELSE IF blk.ext.k = "dict" THEN <<DictToken(d - avail)>>
       ELSE <<mem[ring.ext_end - (d - avail)]>>

----------------------------------------------------------------------------
(* Calls. *)

Return(res) ==
    /\ pc' = "idle"
    /\ result' = res
    /\ zeros' = IF res.k = "zero" THEN zeros + 1 ELSE zeros

Hinted(n) == [k |-> "hint", n |-> n]
Zero == [k |-> "zero", n |-> 0]
Err == [k |-> "err", n |-> 0]

\* An error stops the decoder, in this call and every later one.
Fail ==
    /\ failed' = TRUE
    /\ todo' = 0
    /\ blk' = NoBlk
    /\ Return(Err)

\* The caller hands over what it has not, up to g bytes more, with r bytes
\* of output.
Call(g, r) ==
    /\ pc = "idle" /\ ~failed
    /\ LET n == Least(g, StreamLen[stream] - given)
       IN /\ given' = given + n
          /\ left' = left + n
    /\ room' = r
    /\ pc' = "top"
    /\ result' = [k |-> "none", n |-> 0]
    /\ UNCHANGED <<stream, upos, out, dict, batches, stage, unit, ring, mem, frame_ended,
                   failed, todo, blk, zeros, resets>>

\* Mutant of FlushLen: a byte of the room is never used.
FlushLenShort == IF room = 0 THEN 0 ELSE Least(Pending, room - 1)

\* What Ring::flush can write out, and its effect.
FlushLen == Least(Pending, room)

Flush(n) ==
    /\ out' = out \o [i \in 1 .. n |-> mem[ring.flushed + i - 1]]
    /\ room' = room - n

AtHeader == [k |-> "header", left |-> 0, decoded |-> 0, whole |-> FALSE]

\* The top of run's loop: the ring is written out before the next unit; then
\* a frame's end is reported, or a skippable frame's bytes are skipped.
Top ==
    /\ pc = "top"
    /\ LET n == FlushLen
           s == Least(stage.left, left)
       IN /\ Flush(n)
          /\ ring' = [ring EXCEPT !.flushed = @ + n]
          /\ \/ /\ n < Pending
                /\ Return(Hinted(IF frame_ended THEN 1 ELSE Hint))
                /\ UNCHANGED <<upos, left, stage, frame_ended>>
             \/ /\ n = Pending /\ frame_ended
                /\ frame_ended' = FALSE
                /\ Return(Zero)
                /\ UNCHANGED <<upos, left, stage>>
             \/ /\ n = Pending /\ ~frame_ended /\ stage.k = "skip"
                /\ left' = left - s
                /\ IF s = stage.left
                   THEN /\ stage' = AtHeader
                        /\ upos' = upos + 1
                        /\ frame_ended' = TRUE
                        /\ UNCHANGED <<pc, result, zeros>>
                   ELSE /\ stage' = [stage EXCEPT !.left = @ - s]
                        /\ Return(Hinted(stage.left - s))
                        /\ UNCHANGED <<upos, frame_ended>>
             \/ /\ n = Pending /\ ~frame_ended /\ stage.k # "skip"
                /\ pc' = "unit"
                /\ UNCHANGED <<upos, left, stage, frame_ended, result, zeros>>
    /\ UNCHANGED <<input, unit, mem, failed, todo, blk>>

----------------------------------------------------------------------------
(* Whole blocks in the input. *)

\* located: how many blocks from block i on n bytes hold whole with headers
\* that parse, past the first only while those before may decode to r bytes
\* at most.
BlockBound(fr, b) == IF b.comp THEN BlockSizeMax(fr) ELSE b.out

LocatedFrom(fr, i, n, r) ==
    LET most == Len(fr.blocks) + 1 - i
        bytes == Sums([j \in 1 .. most |-> BlockHeaderLen + fr.blocks[i + j - 1].clen])
        bound == Sums([j \in 1 .. most |-> BlockBound(fr, fr.blocks[i + j - 1])])
        Held(k) == /\ bytes[k] <= n
                   /\ \A j \in 1 .. k : ~HeaderFails(fr.blocks[i + j - 1])
                   /\ k > 1 => bound[k - 1] <= r
    IN Max({k \in 0 .. most : Held(k)})

\* Room for the rest of the content is room for all the blocks.
BatchRoom ==
    IF CurFrame.fcs # NoSize /\ CurFrame.fcs - stage.decoded <= room THEN Unbounded ELSE room

Batchable ==
    /\ batches /\ unit = 0 /\ stage.k = "block"
    /\ ~FitsOneBlock(CurFrame)
    /\ LocatedFrom(CurFrame, Cur.i, left, BatchRoom) > 0

\* The next block of the batch is read, and decodes to a destination.
ReadWhole(u) ==
    /\ left' = left - u.len - CurUnits[upos + 1].len
    /\ upos' = upos + 1
    /\ BlockDst
    /\ pc' = "write"

Batch ==
    /\ pc = "unit" /\ Batchable
    /\ todo' = LocatedFrom(CurFrame, Cur.i, left, BatchRoom)
    /\ ReadWhole(Cur)
    /\ UNCHANGED <<input, room, out, stage, unit, frame_ended, failed, result, zeros>>

\* `next` says stop: n bytes written out leave some in the ring.
StopsBatch(n) == n < Pending

\* Before each block but the first, the blocks before are written out; a
\* batch stops where they do not fit.
NextOfBatch ==
    /\ pc = "next"
    /\ LET n == FlushLen
           r == [ring EXCEPT !.flushed = @ + n]
           g == Grown(r)
       IN /\ Flush(n)
          /\ IF StopsBatch(n)
             THEN /\ todo' = 0 /\ pc' = "top" /\ ring' = r
                  /\ UNCHANGED <<left, upos, mem, blk>>
             ELSE /\ left' = left - Cur.len - CurUnits[upos + 1].len
                  /\ upos' = upos + 1
                  /\ ring' = Wrapped(g)
                  /\ mem' = [p \in 0 .. g.len - 1 |-> IF p < ring.len THEN mem[p] ELSE Junk]
                  /\ blk' = [j |-> 0, ext |-> ExtOf(Wrapped(g))]
                  /\ pc' = "write"
                  /\ UNCHANGED todo
    /\ UNCHANGED <<input, stage, unit, frame_ended, failed, result, zeros>>

----------------------------------------------------------------------------
(* Units. *)

\* What a unit of known bytes still needs.
Need(known) == known - unit

\* Gather the unit from the input: where it is not whole yet, its bytes are
\* kept, and the call returns what it still needs. `whole`: it came in one
\* piece.
Gather ==
    /\ pc = "unit" /\ ~Batchable
    /\ LET known == IF stage.k = "header" /\ unit < PrefixLen /\ unit + left >= PrefixLen
                    THEN UnitLen(PrefixLen) ELSE UnitLen(unit)
           take == Least(Need(known), left)
       IN /\ left' = left - take
          /\ unit' = unit + take
          /\ stage' = [stage EXCEPT !.whole = unit = 0 /\ take = known]
          /\ IF unit + take = known
             THEN pc' = stage.k /\ UNCHANGED <<result, zeros>>
             ELSE Return(Hinted(Need(known) - take))
    /\ UNCHANGED <<input, upos, room, out, ring, mem, frame_ended, failed, todo, blk>>

\* A frame the decoder takes whatever its window: one this call has whole,
\* header included, with room for its content. The walk over its blocks ends
\* at a reserved block type.
HoldsFrame(fr) ==
    /\ \A i \in DOMAIN fr.blocks : fr.blocks[i].fault # "reserved"
    /\ LensFrom(upos + 1, Cur.f) <= left

Admitted(fr) ==
    \/ fr.window <= WindowMax
    \/ fr.fcs # NoSize /\ fr.fcs <= room /\ stage.whole /\ HoldsFrame(fr)

\* frame_header, then admit.
Header ==
    /\ pc = "header"
    /\ unit' = 0
    /\ IF CurFrame.bad
       THEN Fail /\ UNCHANGED <<upos, stage, ring>>
       ELSE IF CurFrame.skip
       THEN /\ stage' = [AtHeader EXCEPT !.k = "skip", !.left = CurFrame.left]
            /\ upos' = upos + 1
            /\ pc' = "top"
            /\ UNCHANGED <<ring, failed, todo, blk, result, zeros>>
       ELSE /\ ring' = StartRing(CurFrame)
            /\ stage' = [AtHeader EXCEPT !.k = "block"]
            /\ upos' = upos + 1
            /\ IF Admitted(CurFrame)
               THEN pc' = "top" /\ UNCHANGED <<failed, todo, blk, result, zeros>>
               ELSE Fail
    /\ UNCHANGED <<input, left, room, out, mem, frame_ended>>

\* A block's header came as a unit: parse_block_header takes it, or the
\* decoder fails there.
BlockHeader ==
    /\ pc = "block"
    /\ unit' = 0
    /\ IF HeaderFails(CurBlock)
       THEN Fail /\ UNCHANGED <<upos, stage>>
       ELSE /\ upos' = upos + 1
            /\ stage' = [stage EXCEPT !.k = "content"]
            /\ pc' = "top"
            /\ UNCHANGED <<failed, todo, blk, result, zeros>>
    /\ UNCHANGED <<input, left, room, out, ring, mem, frame_ended>>

\* A block's content came as a unit of its own.
BlockContent ==
    /\ pc = "content"
    /\ unit' = 0
    /\ stage' = [stage EXCEPT !.k = "block"]
    /\ todo' = 1
    /\ BlockDst
    /\ pc' = "write"
    /\ UNCHANGED <<input, upos, left, room, out, frame_ended, failed, result, zeros>>

\* Write one byte of the block, overshooting by Overlength.
WriteByte ==
    /\ pc = "write"
    /\ CurBlock.fault = "none" /\ blk.j < CurBlock.out
    /\ LET at == ring.end + blk.j
       IN mem' = [p \in DOMAIN mem |->
                     IF p = at THEN Token(Cur.f, stage.decoded + blk.j + 1)
                     ELSE IF p \in at + 1 .. at + Overlength THEN Junk ELSE mem[p]]
    /\ blk' = [blk EXCEPT !.j = @ + 1]
    /\ UNCHANGED <<input, upos, left, room, out, stage, unit, ring, frame_ended, failed, todo,
                   result, zeros, pc>>

\* decode_block fails, with nothing committed.
BlockFails ==
    /\ pc = "write"
    /\ CurBlock.fault = "content"
    /\ Fail
    /\ UNCHANGED <<input, upos, left, room, out, stage, unit, ring, mem, frame_ended>>

Oversized(n) == CurFrame.fcs # NoSize /\ n > CurFrame.fcs

\* blocks_ended, after the last block: the frame's size must be the one its
\* header gave.
SizeWrong(n) == CurFrame.fcs # NoSize /\ n # CurFrame.fcs

\* commit, block_decoded and, after the last block, blocks_ended.
BlockDone ==
    /\ pc = "write"
    /\ CurBlock.fault = "none" /\ blk.j = CurBlock.out
    /\ LET n == stage.decoded + blk.j
           last == Cur.i = Len(CurFrame.blocks)
       IN /\ ring' = [ring EXCEPT !.end = @ + blk.j]
          /\ IF Oversized(n)
             THEN Fail /\ UNCHANGED <<stage, frame_ended, upos>>
             ELSE IF last /\ SizeWrong(n)
             THEN Fail /\ stage' = AtHeader /\ UNCHANGED <<frame_ended, upos>>
             ELSE /\ upos' = upos + 1
                  /\ blk' = NoBlk
                  /\ todo' = todo - 1
                  /\ stage' = IF ~last THEN [stage EXCEPT !.decoded = n]
                              ELSE IF CurFrame.checksum THEN [AtHeader EXCEPT !.k = "checksum"]
                              ELSE AtHeader
                  /\ frame_ended' = (last /\ ~CurFrame.checksum)
                  /\ pc' = IF todo > 1 THEN "next" ELSE "top"
                  /\ UNCHANGED <<failed, result, zeros>>
    /\ UNCHANGED <<input, left, room, out, unit, mem>>

Checksum ==
    /\ pc = "checksum"
    /\ unit' = 0
    /\ IF ~CurFrame.sum_ok
       THEN Fail /\ UNCHANGED <<upos, stage, frame_ended>>
       ELSE /\ upos' = upos + 1
            /\ stage' = AtHeader
            /\ frame_ended' = TRUE
            /\ pc' = "top"
            /\ UNCHANGED <<failed, todo, blk, result, zeros>>
    /\ UNCHANGED <<input, left, room, out, ring, mem>>

----------------------------------------------------------------------------
(* The caller. *)

\* Once failed, every call returns the error.
CallFailed ==
    /\ pc = "idle" /\ failed
    /\ result' = Err
    /\ UNCHANGED <<stream, upos, left, given, room, out, dict, batches, stage, unit, ring, mem,
                   frame_ended, failed, todo, blk, zeros, resets, pc>>

\* Mutant of Dropped: the output in hand is kept.
DroppedNot(r) == r

\* reset drops the output in hand.
Dropped(r) == [r EXCEPT !.flushed = r.end]

\* Mutant of Reset: an ended frame is reported to the next stream.
ResetKeepsEnd(s, d) ==
    /\ pc = "idle" /\ resets < MaxResets
    /\ stage' = AtHeader
    /\ unit' = 0
    /\ ring' = Dropped(ring)
    /\ failed' = FALSE
    /\ stream' = s /\ dict' = d
    /\ upos' = 1 /\ left' = 0 /\ given' = 0 /\ out' = <<>> /\ zeros' = 0
    /\ result' = [k |-> "none", n |-> 0]
    /\ resets' = resets + 1
    /\ UNCHANGED <<room, batches, mem, frame_ended, todo, blk, pc>>

\* reset, set_dict (d), and the resets before and after a one-shot
\* decompress: input and output in hand are dropped, the buffer stays. The
\* caller goes on with the start of a stream.
Reset(s, d) ==
    /\ pc = "idle" /\ resets < MaxResets
    /\ stage' = AtHeader
    /\ unit' = 0
    /\ ring' = Dropped(ring)
    /\ frame_ended' = FALSE
    /\ failed' = FALSE
    /\ stream' = s /\ dict' = d
    /\ upos' = 1 /\ left' = 0 /\ given' = 0 /\ out' = <<>> /\ zeros' = 0
    /\ result' = [k |-> "none", n |-> 0]
    /\ resets' = resets + 1
    /\ UNCHANGED <<room, batches, mem, todo, blk, pc>>

Init ==
    /\ stream \in Streams
    /\ dict \in BOOLEAN
    /\ batches \in BOOLEAN
    /\ upos = 1 /\ left = 0 /\ given = 0 /\ room = 0 /\ out = <<>>
    /\ stage = AtHeader
    /\ unit = 0
    /\ ring = [len |-> 0, window |-> 0, full |-> 0, end |-> 0, ext_end |-> 0, flushed |-> 0]
    /\ mem = [p \in {} |-> Junk]
    /\ frame_ended = FALSE /\ failed = FALSE
    /\ todo = 0 /\ blk = NoBlk
    /\ result = [k |-> "none", n |-> 0]
    /\ zeros = 0 /\ resets = 0 /\ pc = "idle"

Step ==
    \/ Top \/ Batch \/ NextOfBatch \/ Gather \/ Header \/ BlockHeader \/ BlockContent
    \/ WriteByte \/ BlockFails \/ BlockDone \/ Checksum

Next ==
    \/ \E g \in Gives, r \in Rooms : Call(g, r)
    \/ CallFailed
    \/ \E s \in Streams, d \in BOOLEAN : Reset(s, d)
    \/ Step

Spec == Init /\ [][Next]_vars

\* A call runs to its return, and the caller (DecompressReader, which calls
\* until a read gives content) calls again with room for some.
FairSpec ==
    /\ Spec
    /\ WF_vars(Step)
    /\ SF_vars(\E g \in Gives, r \in Rooms \ {0} : Call(g, r))

----------------------------------------------------------------------------
(* The verdict of the one-shot driver, decompress_frames: the first unit   *)
(* that fails.                                                             *)

UnitFails(s, u) ==
    LET fr == s[u.f]
        n == Total([j \in 1 .. u.i |-> fr.blocks[j].out])
    IN CASE u.k = "header" -> fr.bad
         [] u.k = "skip" -> FALSE
         [] u.k = "block" -> fr.blocks[u.i].fault = "size" \/ fr.blocks[u.i].fault = "reserved"
         [] u.k = "content" ->
               \/ fr.blocks[u.i].fault = "content"
               \/ fr.fcs # NoSize /\ (n > fr.fcs \/ (u.i = Len(fr.blocks) /\ n # fr.fcs))
         [] u.k = "checksum" -> ~fr.sum_ok

BadUnits == [s \in Streams |-> {i \in DOMAIN Units[s] : UnitFails(s, Units[s][i])}]

OneShotOk(s) == BadUnits[s] = {} /\ ~s[Len(s)].cut

\* finish(): nothing left to write out, and the input ends between frames.
Finish == ~failed /\ Pending = 0 /\ stage.k = "header" /\ unit = 0

FramesBehind == IF upos > Len(CurUnits) THEN Len(stream) ELSE Cur.f - 1

\* The bytes from here to the end of the current frame.
FrameRest ==
    IF upos > Len(CurUnits) THEN PrefixLen
    ELSE LensFrom(upos, Cur.f) - unit - (IF stage.k = "skip" THEN Cur.len - stage.left ELSE 0)

----------------------------------------------------------------------------
(* Properties. *)

\* What is written out is the streams' content from its start, whatever the
\* pieces the input came in, the room of each call and where the round
\* buffer wrapped or kept bytes of an earlier frame.
Delivered == IsPrefix(out, Content[stream])

\* Wherever a block's next byte goes, it has the room of the Dst contract,
\* every byte of the window before it is found through the segment and its
\* history, overwritten by none of the block's overshooting copies, so is
\* the dictionary while no more than a window is decoded, and no match
\* reaches past them.
HistoryIntact ==
    (pc = "write" /\ CurBlock.fault = "none" /\ blk.j < CurBlock.out) =>
        LET n == stage.decoded + blk.j
            w == CurFrame.window
            fromDict == dict /\ n <= w
        IN /\ ring.end + BlockRoom <= ring.len
           /\ \A d \in 1 .. Least(n, w) : Lookup(d) = <<Token(Cur.f, n - d + 1)>>
           /\ fromDict => \A e \in 1 .. DictLen : Lookup(n + e) = <<DictToken(e)>>
           /\ \A d \in Least(n, w) + 1 .. n + DictLen + 1 :
                 Lookup(d) # <<>> => fromDict /\ d \in n + 1 .. n + DictLen

\* What a call returns tells the caller where the frames are.  It is 0
\* exactly once for each frame, a skippable or an empty one too, and only
\* when all of its content is written out; a hint is positive and never asks
\* for a byte past the end of the frame, so a caller that reads what it is
\* told to never blocks on bytes the frame does not have.
FramesReported ==
    /\ zeros + (IF frame_ended THEN 1 ELSE 0) = FramesBehind
    /\ result.k = "zero" =>
          Len(out) = Total([f \in 1 .. FramesBehind |-> Size(stream[f])])
    /\ result.k = "hint" => /\ result.n >= 1
                            /\ ~frame_ended => result.n <= FrameRest

\* Streaming takes the verdict of the one-shot decoder, at the same unit: an
\* error only there, or at the header of a frame above the window limit; and
\* finish() accepts the input read exactly where one-shot decoding does.
VerdictIsOneShot ==
    /\ failed => \/ upos \in BadUnits[stream]
                 \/ upos > 1 /\ CurUnits[upos - 1].k = "header" /\ CurFrame.window > WindowMax
    /\ \A i \in BadUnits[stream] : upos <= i
    /\ (pc = "idle" /\ ~failed /\ given = StreamLen[stream] /\ left = 0 /\ Pending = 0) =>
          (Finish <=> OneShotOk(stream))

\* A caller that goes on calling with room gets all of the content and the
\* end of every frame, or an error.
Completes ==
    [](resets = MaxResets =>
          <>(failed \/ stream[Len(stream)].cut \/ (out = Content[stream] /\ zeros = Len(stream))))
=============================================================================
