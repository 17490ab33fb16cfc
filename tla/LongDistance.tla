---------------------------- MODULE LongDistance ----------------------------
(***************************************************************************)
(* The long distance matcher (src/src/compress/ldm.rs): the state that     *)
(* finds long matches ahead of the block compressors, the store of raw     *)
(* sequences they go to, and the blocks that consume the store, by cutting *)
(* it or, from btopt on, through the optimal parser's view of it (OptLdm   *)
(* of src/src/compress/opt.rs).                                            *)
(*                                                                         *)
(* src is a function of the positions that can be read.  Where the gear    *)
(* hash stops, and the bucket and the checksum of a hashed word, depend on *)
(* the word alone: hashing.stop is a set of words, hashing.bucket and      *)
(* hashing.checksum are functions of them that collide.                    *)
(***************************************************************************)
EXTENDS MatchWindow, Sequences, SequencesExt, FiniteSetsExt

CONSTANTS LdmMinMatch,   \* min_match_length: the bytes hashed, and a match's least
          MinMatch,      \* min_match of the block compressors
          MaxChunk,      \* MAX_CHUNK_SIZE
          BatchSize,     \* LDM_BATCH_SIZE
          BucketSize     \* 1 << bucket_size_log

RawSeq(offset, lit, match) == [offset |-> offset, lit |-> lit, match |-> match]

SeqLen(q) == q.lit + q.match

RawSeqStore(seqs) == [seqs |-> seqs, pos |-> 1, pos_in_sequence |-> 0]

is_exhausted(st) == st.pos > Len(st.seqs)

-----------------------------------------------------------------------------
(* Consuming the store.  What lies before pos is never read again.         *)

\* The sequence that the byte n after the start of the current one is in, and
\* how many bytes of it come before that one.
Onward(st, n) ==
  LET before[i \in st.pos .. Len(st.seqs) + 1] ==
        IF i = st.pos THEN 0 ELSE before[i - 1] + SeqLen(st.seqs[i - 1])
      i == Max({j \in DOMAIN before : before[j] <= n})
  IN  [i |-> i, d |-> n - before[i]]

\* Mutant of skip_sequences: the rest of a match that is omitted is lost.
skip_sequences_losing(st, n, min_match) ==
  LET to == Onward(st, n)
      q == st.seqs[to.i]
      rest == SeqLen(q) - to.d
  IN  IF to.i > Len(st.seqs) THEN [st EXCEPT !.pos = to.i]
      ELSE IF to.d <= q.lit THEN [st EXCEPT !.pos = to.i, !.seqs[to.i].lit = @ - to.d]
      ELSE IF rest >= min_match THEN [st EXCEPT !.pos = to.i, !.seqs[to.i] = RawSeq(q.offset, 0, rest)]
      ELSE [st EXCEPT !.pos = to.i + 1]

\* n bytes are consumed: literals of the sequence they end in, or the first
\* part of its match; a rest too short to be one is literals of the next.
skip_sequences(st, n, min_match) ==
  LET to == Onward(st, n)
      q == st.seqs[to.i]
      rest == SeqLen(q) - to.d
  IN  IF to.i > Len(st.seqs) THEN [st EXCEPT !.pos = to.i]
      ELSE IF to.d <= q.lit THEN [st EXCEPT !.pos = to.i, !.seqs[to.i].lit = @ - to.d]
      ELSE IF rest >= min_match THEN [st EXCEPT !.pos = to.i, !.seqs[to.i] = RawSeq(q.offset, 0, rest)]
      ELSE [st EXCEPT !.pos = to.i + 1,
                      !.seqs = [j \in DOMAIN @ |-> IF j = to.i + 1 THEN [@[j] EXCEPT !.lit = @ + rest]
                                                   ELSE @[j]]]

\* The next sequence cut to the remaining bytes of the block, offset 0 when
\* they are literals.
maybe_split_sequence(st, remaining, min_match) ==
  LET q == st.seqs[st.pos]
      part == remaining - q.lit
  IN  IF remaining >= SeqLen(q) THEN [st |-> [st EXCEPT !.pos = @ + 1], seq |-> q]
      ELSE [st |-> skip_sequences(st, remaining, min_match),
            seq |-> IF part < min_match THEN [q EXCEPT !.offset = 0] ELSE [q EXCEPT !.match = part]]

\* The optimal parser's way: the sequences stay whole.
skip_bytes(st, n) ==
  LET to == Onward(st, st.pos_in_sequence + n)
  IN  [st EXCEPT !.pos = to.i, !.pos_in_sequence = IF to.i > Len(st.seqs) THEN 0 ELSE to.d]

-----------------------------------------------------------------------------
(* The state.                                                              *)

NoEntry == [offset |-> 0, checksum |-> 0]

\* LdmState::reset: an empty window at first and zeroed tables.
LdmReset(first, frequently, size, hashing) ==
  [window |-> WindowNew(first, frequently), size |-> size, hashing |-> hashing,
   table |-> [b \in {hashing.bucket[word] : word \in DOMAIN hashing.bucket} |->
                [ents |-> [k \in 1..BucketSize |-> NoEntry], next |-> 1]]]

HashedWord(src, p) == [k \in 0 .. LdmMinMatch - 1 |-> src[p + k]]

\* The ends of the words at which feed records a split.
SplitEnds(l, src, ends) == {e \in ends : HashedWord(src, e - LdmMinMatch) \in l.hashing.stop}

\* insert_entry, of the split.
Inserted(l, src, split) ==
  LET word == HashedWord(src, split)
      b == l.hashing.bucket[word]
      entry == [offset |-> Index(l.window, split) % U32, checksum |-> l.hashing.checksum[word]]
  IN  [l EXCEPT !.table[b] = [ents |-> [@.ents EXCEPT ![l.table[b].next] = entry],
                              next |-> (@.next % BucketSize) + 1]]

InOrder(S) == [k \in 1 .. Cardinality(S) |-> CHOOSE x \in S : Cardinality({y \in S : y <= x}) = k]

fill_hash_table(l, src, start, end) ==
  FoldLeft(LAMBDA m, e : Inserted(m, src, e - LdmMinMatch), l,
           InOrder(SplitEnds(l, src, start + LdmMinMatch .. end)))

\* load_dict, enter_dict of the window included.
load_dict(l, src, start, end) ==
  fill_hash_table([l EXCEPT !.window = LoadDict(ExtendTo(@, end))], src, start, end)

reduce_table(t, reducer) ==
  [b \in DOMAIN t |-> [t[b] EXCEPT !.ents = [k \in DOMAIN @ |-> [@[k] EXCEPT !.offset = Monus(@, reducer)]]]]

-----------------------------------------------------------------------------
(* Generating sequences.                                                   *)

Forward(src, a, b, end) == Max({n \in 0 .. end - a : \A k \in 0 .. n - 1 : src[a + k] = src[b + k]})

count_backwards(src, p_in, anchor, p_match, low) ==
  Max({n \in 0 .. Min({p_in - anchor, p_match - low}) : \A k \in 1..n : src[p_in - k] = src[p_match - k]})

\* The match of a split with each entry of its bucket that may be one, and
\* the first of the longest.
BestMatches(l, src, split, anchor, end) ==
  LET word == HashedWord(src, split)
      ents == l.table[l.hashing.bucket[word]].ents
      lowest == LowestMatchIndex(l.window, Index(l.window, end - 1), l.size)
      MatchOf(k) == Pos(l.window, ents[k].offset)
      Ahead(k) == Forward(src, split, MatchOf(k), end)
      Behind(k) == count_backwards(src, split, anchor, MatchOf(k), Pos(l.window, l.window.low))
      found == {k \in DOMAIN ents : /\ ents[k].checksum = l.hashing.checksum[word] /\ ents[k].offset >= lowest
                                    /\ Ahead(k) >= LdmMinMatch}
      best == {k \in found : \A j \in found : LET more == Ahead(k) + Behind(k) - Ahead(j) - Behind(j)
                                              IN  more > 0 \/ (more = 0 /\ k <= j)}
  IN  {[offset |-> (Index(l.window, split) % U32) - ents[k].offset,
        forward |-> Ahead(k), backward |-> Behind(k)] : k \in best}

\* One split, of the batch of ends after s.from up to s.upto.  A match that
\* ends past the batch restarts the hash after it.
BatchEnd(ends, ilimit, ip) ==
  LET later == {x \in ends : x > ip}
  IN  IF Cardinality(later) < BatchSize THEN ilimit ELSE InOrder(later)[BatchSize]

InBatch(s, ends, ilimit, from) == [s EXCEPT !.from = from, !.upto = BatchEnd(ends, ilimit, from)]

MatchFound(s, ends, ilimit, split, m) ==
  LET past == split + m.forward
      t == [s EXCEPT !.anchor = past,
                     !.seqs = Append(@, RawSeq(m.offset, split - m.backward - s.anchor, m.forward + m.backward))]
  IN  IF past > s.upto THEN InBatch(t, ends, ilimit, past) ELSE t

AfterSearch(s, ends, ilimit, split, best) ==
  IF best = {} THEN s ELSE MatchFound(s, ends, ilimit, split, CHOOSE x \in best : TRUE)

Searched(s, src, split, end) ==
  IF split < s.anchor THEN {} ELSE BestMatches(s.ldm, src, split, s.anchor, end)

AtSplit(s, src, ends, end, ilimit, e) ==
  LET split == e - LdmMinMatch
  IN  IF e <= s.from THEN s
      ELSE AfterSearch([InBatch(s, ends, ilimit, IF e > s.upto THEN s.upto ELSE s.from)
                          EXCEPT !.ldm = Inserted(@, src, split)],
                       ends, ilimit, split, Searched(s, src, split, end))

SplitsOver(l, src, start, end, ilimit, ends, seqs) ==
  FoldLeft(LAMBDA t, e : AtSplit(t, src, ends, end, ilimit, e),
           [ldm |-> l, seqs |-> seqs, anchor |-> start, from |-> start + LdmMinMatch, upto |-> start + LdmMinMatch],
           InOrder(ends))

ChunkDone(s, end) == [ldm |-> s.ldm, seqs |-> s.seqs, leftover |-> end - s.anchor]

\* Over one chunk; the literals after its last match are left over.
generate_sequences_internal(l, src, start, end, seqs) ==
  LET ilimit == Monus(end, HashReadSize)
  IN  IF end - start < LdmMinMatch THEN [ldm |-> l, seqs |-> seqs, leftover |-> end - start]
      ELSE ChunkDone(SplitsOver(l, src, start, end, ilimit, SplitEnds(l, src, start + LdmMinMatch + 1 .. ilimit), seqs),
                     end)

\* Before a chunk: the overflow correction, then the maximum distance.
ChunkEntered(l, start, end) ==
  LET c == Correction(l.window, 1, l.size, start)
      m == IF ~NeedOverflowCorrection(l.window, 1, l.size, start, end) THEN l
           ELSE [l EXCEPT !.window = CorrectOverflow(@, c), !.table = reduce_table(@, c)]
  IN  [m EXCEPT !.window = EnforceMaxDist(@, end, l.size)]

\* The literals left over go to the chunk's first sequence, or are left on.
JoinChunk(g, h) ==
  LET k == Len(g.seqs) + 1
  IN  IF k > Len(h.seqs) THEN [h EXCEPT !.leftover = g.leftover + @]
      ELSE [h EXCEPT !.seqs[k].lit = @ + g.leftover]

GenerateChunk(g, src, from, to) ==
  JoinChunk(g, generate_sequences_internal(ChunkEntered(g.ldm, from, to), src, from, to, g.seqs))

Generated(g) == [ldm |-> g.ldm, store |-> RawSeqStore(g.seqs)]

generate_sequences(l, src, start, end, max_seqs) ==
  Generated(FoldLeft(LAMBDA g, from : IF Len(g.seqs) >= max_seqs THEN g
                                      ELSE GenerateChunk(g, src, from, Min({end, from + MaxChunk})),
                     [ldm |-> l, seqs |-> <<>>, leftover |-> 0],
                     InOrder({p \in start .. end - 1 : (p - start) % MaxChunk = 0})))

-----------------------------------------------------------------------------
(* block_compress below btopt, a sequence at a time: the literal run it    *)
(* hands to the block compressor and the match it stores after it.         *)

NoMatch == [at |-> 0, offset |-> 0, len |-> 0]

LdmBlock(store, start, end) ==
  [store |-> store, ip |-> start, end |-> end, stored |-> NoMatch, done |-> FALSE]

AfterCut(b, cut) ==
  LET at == b.ip + cut.seq.lit
  IN  IF cut.seq.offset = 0 THEN [b EXCEPT !.store = cut.st, !.done = TRUE, !.stored = NoMatch]
      ELSE [b EXCEPT !.store = cut.st, !.ip = at + cut.seq.match,
                     !.stored = [at |-> at, offset |-> cut.seq.offset, len |-> cut.seq.match]]

ldm_block_step(b) ==
  IF is_exhausted(b.store) \/ b.ip >= b.end THEN [b EXCEPT !.done = TRUE, !.stored = NoMatch]
  ELSE AfterCut(b, maybe_split_sequence(b.store, b.end - b.ip, MinMatch))

-----------------------------------------------------------------------------
(* OptLdm: positions are relative to the block's start.                    *)

NoPos == U32 - 1   \* u32::MAX

get_next_match_and_update_seq_store(o, cur, remaining) ==
  LET q == o.store.seqs[o.store.pos]
      in == o.store.pos_in_sequence
      lits == Monus(q.lit, in)
      match == IF lits = 0 THEN q.match - (in - q.lit) ELSE q.match
      none == [o EXCEPT !.start = NoPos, !.end = NoPos]
      end == cur + lits + match
  IN  IF is_exhausted(o.store) THEN none
      ELSE IF lits >= remaining THEN [none EXCEPT !.store = skip_bytes(@, remaining)]
      ELSE [start |-> cur + lits, offset |-> q.offset, end |-> Min({end, cur + remaining}),
            store |-> skip_bytes(o.store, IF end > cur + remaining THEN remaining ELSE lits + match)]

OptLdmNew(store, len) ==
  get_next_match_and_update_seq_store([store |-> store, start |-> 0, end |-> 0, offset |-> 0], 0, len)

\* process_match_candidate without the offer.
process_match_candidate(o, cur, remaining) ==
  LET past == IF cur > o.end THEN [o EXCEPT !.store = skip_bytes(@, cur - o.end)] ELSE o
  IN  IF is_exhausted(o.store) \/ cur < o.end THEN o
      ELSE get_next_match_and_update_seq_store(past, cur, remaining)

\* maybe_add_match: the candidate it adds at cur unless a longer match is
\* known.  A view that was exhausted offers nothing any more.
Offer(before, o, cur) ==
  IF is_exhausted(before.store) \/ cur < o.start \/ cur >= o.end \/ o.end - cur < MinMatch THEN NoMatch
  ELSE [at |-> cur, offset |-> o.offset, len |-> o.end - cur]
=============================================================================
