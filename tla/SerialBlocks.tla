---------------------------- MODULE SerialBlocks ----------------------------
(***************************************************************************)
(* The blocks of one job, one after the other: compress_blocks without its *)
(* pipelined loop, compress_block, emit_block and entropy_and_emit of      *)
(* src/src/compress/block.rs, with the BlockState they commit to, beside   *)
(* the state of the decoder that has read every block written.             *)
(*                                                                         *)
(* A block's bytes appear as what they decide: the moves of the block      *)
(* compressor, where the post-sequence splitter cuts, whether a block is   *)
(* one repeated byte, the bound on its sections and their size, and the    *)
(* literals' symbols.  Positions count the content before the job, so an   *)
(* offset of a match in a block that ends at e is at most e less a match.  *)
(***************************************************************************)
EXTENDS JobBlocks, RepCodes, EntropySlots

CONSTANTS
    BlockSizeMax,   \* block_size_max
    ChunkSize,      \* chunk_size
    HeaderLen,      \* header_len
    PreSplit,       \* the pre-splitter is on
    Cuts,           \* sets of positions it cuts the block at
    Split,          \* the post-sequence splitter is on
    Threes,         \* whether the strategy keeps three offsets (btopt and above)
    MinLog,         \* the shift of min_gain
    RleMax,         \* RLE_MAX_LENGTH
    JobStarts,      \* how the job starts: "First", "Dict" or "Later"
    Content,        \* length of the dictionary or prefix before the job
    DictRep,        \* the dictionary's repeat offsets
    DictHuf,        \* the literals the dictionary's table codes
    DictOf,         \* and the offset codes
    DecoderReps,    \* offsets the decoder may hold when a later job starts
    Inputs,         \* the InputEnds of the calls
    Offsets, Reaches, MaxSeqs,  \* matches, distances to the window's low end,
                                \* and sequences of a block
    Bounds, Sizes,  \* section bounds, and sizes of coded sections
    LitSymbols      \* symbols of literals

MinCBlockSize == 2
BlockHeaderSize == 3
MinMatch == 3
RepStartValue == <<1, 4, 8>>
NoSize == -1

ASSUME BlockConstants ==
    /\ BlockSizeMax \in Nat \ {0} /\ ChunkSize \in Nat \ {0} /\ HeaderLen \in Nat
    /\ {PreSplit, Split} \cup Threes \subseteq BOOLEAN
    /\ MinLog \in Nat /\ RleMax \in Nat /\ Content \in Nat /\ MaxSeqs \in Nat
    /\ JobStarts \subseteq {"First", "Dict", "Later"}
    /\ Inputs \subseteq InputEnd
    /\ "Dict" \in JobStarts => DictRep \in (1..Content) \X (1..Content) \X (1..Content)
    /\ Offsets \subseteq Nat \ {0} /\ Reaches \subseteq Nat
    /\ Bounds \subseteq Nat /\ Sizes \subseteq Nat

VARIABLES
    jb,     \* the JobBlocks cursor
    input,  \* the InputEnd of the call
    pc,     \* where compress_blocks is
    blk,    \* the block in hand: its range, its store and its partitions
    emit,   \* emit_block: the partition it is at, d_rep, c_rep, what it gained
    st,     \* the BlockState
    dec,    \* history: what a decoder of the blocks written holds
    read,   \* history: the unit just written, as the decoder reads it
    job     \* whether three offsets are kept, and where the pre-splitter cuts

svars == <<jb, input, pc, blk, emit, st, dec, read, job>>

-----------------------------------------------------------------------------
\* (len >> min_log) + 2
MinGain(len) ==
    LET shr[k \in 0..MinLog] == IF k = 0 THEN len ELSE shr[k - 1] \div 2
    IN  shr[MinLog] + 2

\* ZSTD_highbit32, the offset code of an offBase: how often it can be halved.
OffCode(ob) ==
    LET high[v \in 1..ob] == IF v = 1 THEN 0 ELSE high[v \div 2] + 1
    IN  high[ob]

Codes(seqs) == {OffCode(seqs[i].ob) : i \in 1..Len(seqs)}

AttemptsCompression(len) == len > MinCBlockSize + BlockHeaderSize + 1

Block(start, end, built, found, rep) ==
    [start |-> start, end |-> end, built |-> built, found |-> found, rep |-> rep,
     units |-> <<>>]

NoBlock == Block(0, 0, FALSE, <<>>, RepStartValue)

NoRead == [kind |-> "Raw", raws |-> <<>>, offs |-> <<>>, coded |-> <<>>,
           need |-> <<>>, tables |-> <<>>]

Emission(i, d, c, all, gain) == [i |-> i, d |-> d, c |-> c, all |-> all, gain |-> gain]

NoEmit == Emission(1, RepStartValue, RepStartValue, TRUE, 0)

\* load_entropy: a table is valid if it codes every literal, or the offsets
\* of a first block.
DictSlots(t) ==
    LET table == IF t = "huf" THEN DictHuf ELSE DictOf
        need  == IF t = "huf" THEN LitSymbols ELSE 0..OffCode(Content + BlockSizeMax)
    IN  Slots(table, IF need \subseteq table THEN "Valid" ELSE "Check")

\* begin_job: the state the job starts from.  A later job's decoder holds
\* what the job before it left.
JobState(start) ==
    [rep |-> CASE start = "First" -> RepStartValue
               [] start = "Dict"  -> DictRep
               [] start = "Later" -> <<0, 0, 0>>,
     ent |-> [t \in Tables |-> IF start = "Dict" THEN Load(NoSlots, DictSlots(t))
                               ELSE Clear(NoSlots)]]

DecoderStates(start) ==
    IF start = "Later"
    THEN [rep: DecoderReps, tables: [Tables -> {NoTable, {0, 2}}]]
    ELSE {[rep |-> JobState(start).rep,
           tables |-> [t \in Tables |-> HeldTable(JobState(start).ent[t])]]}

Init ==
    \E start \in JobStarts :
      /\ jb = NewJobBlocks([blockSizeMax |-> BlockSizeMax, split |-> PreSplit,
                            chunkSize |-> ChunkSize, headerLen |-> HeaderLen],
                           IF start = "First" THEN 0 ELSE Content,
                           start # "Later", TRUE)
      /\ st = JobState(start)
      /\ dec \in DecoderStates(start)
      /\ input = [kind |-> "Chunk", end |-> 0]
      /\ pc = "idle" /\ blk = NoBlock /\ emit = NoEmit /\ read = NoRead
      /\ job \in [three : Threes, cuts : Cuts]

-----------------------------------------------------------------------------
(* compress_blocks *)

Call(i) ==
    /\ pc = "idle" /\ input.kind # "JobEnd"
    /\ i.end >= input.end /\ i.end >= NextStart(jb)
    /\ input' = i /\ pc' = "cut"
    /\ UNCHANGED <<jb, blk, emit, st, dec, read, job>>

Return ==
    /\ pc = "cut" /\ ~HasReady(jb, input)
    /\ pc' = "idle" /\ jb' = InputEnded(jb, input)
    /\ UNCHANGED <<input, blk, emit, st, dec, read, job>>

Moves(three) ==
    [what: {"offset"}, off: Offsets, ll0: BOOLEAN]
    \cup (IF three THEN [what: {"rep"}, off: {0}, ll0: BOOLEAN, code: 1..RepNum]
          ELSE [what: {"ldm"}, off: Offsets, ll0: BOOLEAN, reach: Reaches]
               \cup {[what |-> "rep", off |-> 0, ll0 |-> FALSE],
                     [what |-> "again", off |-> 0, ll0 |-> TRUE]})

\* The blocks build_seq_store makes of [start, end) from the offsets rep: not
\* attempted when too small, else with the sequences of a search.
Builds(three, start, end, rep) ==
    LET near  == {m \in Moves(three) : m.off + MinMatch <= end}
        found == {Search(three, rep, reach, moves) :
                    reach \in Reaches, moves \in SeqOf(near, MaxSeqs)}
    IN  IF AttemptsCompression(end - start)
        THEN {Block(start, end, TRUE, f.seqs, f.rep) : f \in {g \in found : g.ok}}
        ELSE {Block(start, end, FALSE, <<>>, RepStartValue)}

\* blocks.next, then build_seq_store from the committed offsets.
CutAndFind ==
    /\ pc = "cut" /\ HasReady(jb, input)
    /\ LET start == NextStart(jb)
       IN  blk' \in Builds(job.three, start,
                           NextBlockEnd(jb, input, start \in job.cuts), st.rep)
    /\ pc' = "derive"
    /\ UNCHANGED <<jb, input, emit, st, dec, read, job>>

Unit(seqs, len, rle, bound, lits) ==
    [seqs |-> seqs, len |-> len, rle |-> rle, bound |-> bound, lits |-> lits]

Literals == IF "huf" \in Tables THEN SUBSET LitSymbols \ {{}} ELSE {{}}

\* The ways to write the block in hand: whole, or cut after the k-th
\* sequence, each unit with what its bytes decide.
Cuttings(b) ==
    LET len == b.end - b.start
        n   == Len(b.found)
        whole == {<<Unit(b.found, len, r, bd, l)>> :
                    r \in BOOLEAN, bd \in Bounds, l \in Literals}
        cutAt(k) == {<<Unit(SubSeq(b.found, 1, k), len \div 2, r1, b1, l1),
                       Unit(SubSeq(b.found, k + 1, n), len - len \div 2, r2, b2, l2)>> :
                       r1 \in BOOLEAN, r2 \in BOOLEAN, b1 \in Bounds, b2 \in Bounds,
                       l1 \in Literals, l2 \in Literals}
    IN  IF ~b.built THEN {<<>>}
        ELSE whole \cup (IF Split THEN UNION {cutAt(k) : k \in 1..(n - 1)} ELSE {})

StartEmit(units) ==
    /\ blk' = [blk EXCEPT !.units = units]
    /\ emit' = Emission(1, st.rep, st.rep, TRUE, 0)

\* splitter.derive, against the state the previous block committed.
Derive ==
    /\ pc = "derive"
    /\ \E units \in Cuttings(blk) : StartEmit(units)
    /\ pc' = "emit"
    /\ UNCHANGED <<jb, input, st, dec, read, job>>

\* The sizes entropy coding may come to: within the bound, and failing only
\* where the bound is raised past any block.
SizesOf(u) == {s \in Sizes : s <= u.bound} \cup (IF u.bound > BlockSizeMax THEN {NoSize} ELSE {})

\* Mutant of EndBlock: only a COMPRESSED block demotes the offset table.
EndBlockDemotesCompressed(s, kind, rep, coded) ==
    IF kind # "Compressed" THEN s
    ELSE [rep |-> rep,
          ent |-> [t \in Tables |->
                     LET c == Commit(s.ent[t], NextOf(coded[t]))
                     IN  IF t = "of" THEN DemoteValid(c) ELSE c]]

EndBlock(s, kind, rep, coded) ==
    [rep |-> IF kind = "Compressed" THEN rep ELSE s.rep,
     ent |-> [t \in Tables |->
                LET c == IF kind = "Compressed" THEN Commit(s.ent[t], NextOf(coded[t]))
                         ELSE s.ent[t]
                IN  IF t = "of" THEN DemoteValid(c) ELSE c]]

\* The block-type decision of entropy_and_emit, from the size coding came to.
KindOf(u, size, first) ==
    LET coded == size # NoSize /\ size < u.len - MinGain(u.len)
        cSize == IF coded THEN size ELSE 0
    IN  IF ~first /\ cSize < RleMax /\ u.rle THEN "Rle"
        ELSE IF coded THEN "Compressed" ELSE "Raw"

Written(kind, len, size) ==
    BlockHeaderSize + (CASE kind = "Raw" -> len [] kind = "Rle" -> 1
                         [] kind = "Compressed" -> size)

\* What the section coders may do with the tables held.
AllCodings(need) ==
    {c \in [Tables -> UNION {Codings(t, st.ent[t], need[t]) : t \in Tables}] :
       \A t \in Tables : c[t] \in Codings(t, st.ent[t], need[t])}

Restored(d, kind, original) == IF kind = "Compressed" THEN d ELSE original

\* The unit emit_block is at: resolved, coded, written, and read by the
\* decoder.  A block kept whole carries the finder's offsets.
EmitUnit ==
    /\ emit.i <= Len(blk.units)
    /\ LET u     == blk.units[emit.i]
           whole == Len(blk.units) = 1
           r     == IF whole THEN [d |-> blk.rep, c |-> emit.c, seqs |-> u.seqs]
                    ELSE ResolveOffCodes(emit.d, emit.c, u.seqs)
           need  == [t \in Tables |-> IF t = "huf" THEN u.lits ELSE Codes(r.seqs)]
           first == blk.start = jb.jobStart
       IN  \E size \in SizesOf(u), coded \in AllCodings(need) :
             LET kind  == KindOf(u, size, first)
                 built == [st EXCEPT !.ent = [t \in Tables |-> Build(@[t], coded[t])]]
                 dseqs == DecodeSequences(dec.rep, r.seqs)
                 held  == [t \in Tables |-> DecodedWith(dec.tables[t], coded[t])]
             IN  /\ st' = EndBlock(built, kind, r.d, coded)
                 /\ emit' = Emission(emit.i + 1, Restored(r.d, kind, emit.d), r.c,
                                     emit.all /\ kind = "Compressed",
                                     emit.gain + u.len - Written(kind, u.len, size))
                 /\ dec' = IF kind = "Compressed"
                           THEN [rep |-> dseqs.hist, tables |-> held] ELSE dec
                 /\ read' = [kind |-> kind, raws |-> [k \in 1..Len(u.seqs) |-> u.seqs[k].raw],
                             offs |-> dseqs.offs, coded |-> coded, need |-> need,
                             tables |-> held]
    /\ UNCHANGED <<jb, input, blk, job>>

\* A block not attempted is written RAW.
EmitUncompressed ==
    /\ blk.units = <<>> /\ emit.i = 1
    /\ LET len == blk.end - blk.start
       IN  emit' = Emission(2, emit.d, emit.c, FALSE, len - Written("Raw", len, NoSize))
    /\ st' = EndBlock(st, "Raw", st.rep, <<>>)
    /\ read' = NoRead
    /\ UNCHANGED <<jb, input, blk, dec, job>>

Emit == pc = "emit" /\ UNCHANGED pc /\ (EmitUnit \/ EmitUncompressed)

Emitted == emit.i > Len(blk.units) /\ emit.i > 1

BlockWritten ==
    /\ pc = "emit" /\ Emitted
    /\ jb' = Wrote(jb, blk.end, emit.gain) /\ pc' = "cut"
    /\ blk' = NoBlock /\ emit' = NoEmit /\ read' = NoRead
    /\ UNCHANGED <<input, st, dec, job>>

Serially == CutAndFind \/ Derive \/ Emit \/ BlockWritten \/ Return

SerialNext == (\E i \in Inputs : Call(i)) \/ Serially

SerialSpec == Init /\ [][SerialNext]_svars

-----------------------------------------------------------------------------
(* Properties *)

(* Encoder and decoder agree on offsets: the decoder copies each match     *)
(* from the offset the block compressor found it at, through repcodes,     *)
(* blocks written RAW or RLE, and partitions whose repcodes                *)
(* resolve_off_codes rewrote.  The offsets the committed state names are   *)
(* the decoder's, where the job knows them and the strategy uses them, and *)
(* the last COMPRESSED partition of a split block committed its history    *)
(* (debug_assert_eq!(state.rep(), d_rep)).                                 *)
MatchesDecodeAsFound ==
    /\ read.kind = "Compressed" => read.offs = read.raws
    /\ \A k \in 1..(IF job.three THEN 3 ELSE 2) :
          st.rep[k] # 0 => st.rep[k] = dec.rep[k]
    /\ Len(blk.units) > 1 /\ Emitted => st.rep = emit.d

\* A table a later block may repeat is the one the decoder holds, although
\* blocks that were not committed built others in the spare slot.
CommittedTablesAreTheDecoders ==
    \A t \in DOMAIN st.ent :
        st.ent[t].mode # "None" => HeldTable(st.ent[t]) = dec.tables[t]

\* A section is coded with a table that has a code for every symbol in it,
\* the table the decoder reads it with: a dictionary's offset table may be
\* repeated unchecked in the first block only.
SectionsAreDecodable ==
    read.kind = "Compressed" =>
      \A t \in DOMAIN read.coded :
        read.coded[t].mode # "Raw" => /\ read.need[t] \subseteq read.coded[t].table
                                      /\ read.tables[t] = read.coded[t].table

=============================================================================
