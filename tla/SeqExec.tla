------------------------------ MODULE SeqExec ------------------------------
(***************************************************************************)
(* The execution of a block's sequences (src/src/decode.rs, "Sequence      *)
(* execution"): the literals and the match of every sequence are copied    *)
(* into the frame in fixed-size chunks that may overshoot, by one of four  *)
(* copy implementations, from a segment of the output and from the history *)
(* that lies apart from it.                                                *)
(*                                                                         *)
(* Memory is a function from addresses to tokens.  Buffers are ranges of   *)
(* addresses with a gap between them.  A copy is a sequence of chunks; a   *)
(* chunk is loaded whole and then stored whole.                            *)
(***************************************************************************)
EXTENDS Integers, Sequences, SequencesExt, FiniteSetsExt

CONSTANT MAX_BLOCK_SIZE      \* the code's 128 KiB

ASSUME MaxBlockAssumption == MAX_BLOCK_SIZE \in Nat \ {0}

WILDCOPY_OVERLENGTH == 32
WILDCOPY_VECLEN == 16

CeilDiv(a, b) == (a + b - 1) \div b

(***************************************************************************)
(* Chunks.  The n bytes at src are loaded and byte pick[i] of them stored  *)
(* at dst + i.  ptr::copy_nonoverlapping requires the two ranges to be     *)
(* apart; ptr::copy and a vector load and store do not.                    *)
(***************************************************************************)
Plain(dst, src, n, apart) ==
  [dst |-> dst, src |-> src, n |-> n, apart |-> apart, pick |-> [i \in 0..n-1 |-> i]]
Disjoint(dst, src, n) == Plain(dst, src, n, TRUE)
Overlapping(dst, src, n) == Plain(dst, src, n, FALSE)

copy16(dst, src) == Disjoint(dst, src, 16)

\* k chunks of `width` bytes, one after the other.
Run(k, width, dst, src, apart) ==
  [i \in 1..k |-> Plain(dst + width * (i-1), src + width * (i-1), width, apart)]

\* One chunk, then pairs of them until `len` bytes are covered.
wildcopy(dst, src, len) ==
  Run(IF len <= 16 THEN 1 ELSE 1 + 2 * CeilDiv(len - 16, 32), 16, dst, src, TRUE)
wildcopy32(dst, src, len) == Run(Max({1, CeilDiv(len, 32)}), 32, dst, src, FALSE)
wildcopy_overlap8(dst, src, len) == Run(Max({1, CeilDiv(len, 8)}), 8, dst, src, TRUE)

(***************************************************************************)
(* The first 8 bytes of a match at an offset below 8: four single bytes,   *)
(* four more from DEC32 on, and a source DEC64 back, a multiple of the     *)
(* offset of at least 8 before the next byte.                              *)
(***************************************************************************)
DEC32 == [o \in 0..8 |-> <<0, 1, 2, 1, 4, 4, 4, 4, 4>>[o + 1]]
DEC64 == [o \in 0..8 |-> <<8, 8, 8, 7, 8, 9, 10, 11, 4>>[o + 1]]

Spread8(dst, src, row) ==
  [chunks |-> Run(4, 1, dst, src, TRUE) \o <<Disjoint(dst + 4, src + DEC32[row], 4)>>,
   dst |-> dst + 8,
   src |-> src + DEC32[row] + 8 - DEC64[row]]

overlap_copy8(dst, src, offset) ==
  IF offset < 8 THEN Spread8(dst, src, offset)
  ELSE [chunks |-> <<Disjoint(dst, src, 8)>>, dst |-> dst + 8, src |-> src + 8]

CopyShort(dst, offset, ml) ==
  LET o == overlap_copy8(dst, dst - offset, offset)
  IN  o.chunks \o IF ml > 8 THEN wildcopy_overlap8(o.dst, o.src, ml - 8) ELSE <<>>

(***************************************************************************)
(* copy_match of the four implementations.                                 *)
(***************************************************************************)
FallbackCopyMatch(dst, offset, ml) ==
  LET src == dst - offset
  IN  IF offset >= 16
      THEN <<copy16(dst, src), copy16(dst + 16, IF ml > 16 THEN src + 16 ELSE src)>>
           \o IF ml > 32 THEN wildcopy(dst + 32, src + 32, ml - 32) ELSE <<>>
      ELSE CopyShort(dst, offset, ml)

FallbackShortCopyMatch(dst, offset, ml) ==
  LET s == Spread8(dst, dst - offset, Min({offset, 8}))
  IN  s.chunks \o <<Disjoint(s.dst, s.src, 8)>>
      \o IF ml > 16 THEN wildcopy_overlap8(s.dst + 8, s.src + 8, ml - 16) ELSE <<>>

wide_chunks(dist) == dist > 128 /\ dist % 32 # 16

wildcopy_periodic(dst, dist, len) ==
  IF wide_chunks(dist) THEN wildcopy32(dst, dst - dist, len) ELSE wildcopy(dst, dst - dist, len)

Avx2CopyMatch(dst, offset, ml) ==
  CASE offset >= 32 ->
         <<Disjoint(dst, dst - offset, 32)>>
         \o IF ml > 32 THEN wildcopy_periodic(dst + 32, offset, ml - 32) ELSE <<>>
    [] offset \in WILDCOPY_VECLEN..31 -> wildcopy(dst, dst - offset, ml)
    [] OTHER -> CopyShort(dst, offset, ml)

(***************************************************************************)
(* The shuffle masks: byte i of the match is byte 32 - m + i % m of the 32 *)
(* loaded, picked from their low half by mask 0 or their high half by mask *)
(* 1.  A byte both masks leave alone would be zero.                        *)
(***************************************************************************)
Zeroed == 128
MATCH_MASKS == [m \in 1..32 |-> [h \in 0..1 |-> [i \in 0..31 |->
  LET idx == (32 - m) + (i % m) IN IF idx \div 16 = h THEN idx % 16 ELSE Zeroed]]]

PERIOD_SPREAD == [o \in 1..15 |-> o * CeilDiv(16, o)]

copy_match_short(dst, offset, ml) ==
  LET masks == MATCH_MASKS[Min({offset, 32})]
      dist == IF offset >= 16 THEN offset ELSE PERIOD_SPREAD[offset]
  IN  <<[dst |-> dst, src |-> dst - Max({offset, 32}), n |-> 32, apart |-> FALSE,
         pick |-> [i \in 0..31 |-> IF masks[0][i] # Zeroed THEN masks[0][i]
                                                           ELSE 16 + masks[1][i]]]>>
      \o IF ml > 32 THEN wildcopy_periodic(dst + 32, dist, ml - 32) ELSE <<>>

Avx2ShortCopyMatch(dst, offset, ml, avail) ==
  IF avail < 32 THEN Avx2CopyMatch(dst, offset, ml) ELSE copy_match_short(dst, offset, ml)

(***************************************************************************)
(* The copies a block is executed with: 32-byte ones where the CPU has     *)
(* AVX2, the ShortOffsets ones where its offsets table is rich in short    *)
(* offsets (execute_with).                                                 *)
(***************************************************************************)
Copies == [avx2 : BOOLEAN, short : BOOLEAN]

CopyMatch(w, dst, offset, ml, avail) ==
  CASE w.avx2 /\ w.short -> Avx2ShortCopyMatch(dst, offset, ml, avail)
    [] w.avx2 /\ ~w.short -> Avx2CopyMatch(dst, offset, ml)
    [] ~w.avx2 /\ w.short -> FallbackShortCopyMatch(dst, offset, ml)
    [] OTHER -> FallbackCopyMatch(dst, offset, ml)

WildCopy(w, dst, src, len) == IF w.avx2 THEN wildcopy32(dst, src, len) ELSE wildcopy(dst, src, len)

copy_literals(w, op, lit, ll) ==
  <<copy16(op, lit)>> \o IF ll > 16 THEN WildCopy(w, op + 16, lit + 16, ll - 16) ELSE <<>>

(***************************************************************************)
(* One sequence s = [ll, ml, offset] at cursor c = [op, lit] under the     *)
(* limits lim = [oend_w, lit_limit, prefix, ext, window].  EXT says which  *)
(* of the two loops runs.  The result is an error, or the chunks to copy.  *)
(***************************************************************************)
SeqError(e) == [err |-> e, chunks |-> <<>>]
Copied(chunks) == [err |-> "none", chunks |-> chunks]

\* A match that starts before the segment and cannot be copied inline.
exec_sequence_ext(w, c, s, avail, ext) ==
  LET back == s.offset - avail
      head == Min({back, s.ml})
      dst == c.op + s.ll
  IN  CASE s.offset = 0 -> SeqError("OffsetTooFar")
        [] s.offset # 0 /\ back > ext.len ->
             SeqError(IF ext.dict THEN "OffsetBeforeDict" ELSE "OffsetTooFar")
        [] OTHER ->
             Copied(copy_literals(w, c.op, c.lit, s.ll)
                    \o <<Overlapping(dst, ext.end - back, head)>>
                    \o IF s.ml > head
                       THEN CopyMatch(w, dst + head, s.offset, s.ml - head, s.offset)
                       ELSE <<>>)

\* The part of exec_sequence after the test of the window.
ExecInWindow(w, EXT, c, lim, s) ==
  LET dst == c.op + s.ll
      avail == dst - lim.prefix
      back == s.offset - avail
      inSegment == s.offset \in 1..avail
      inline == s.offset > 0 /\ back <= lim.ext.len /\ back >= s.ml + WILDCOPY_OVERLENGTH
  IN  CASE c.lit + s.ll > lim.lit_limit -> SeqError("NotEnoughLiterals")
        [] c.lit + s.ll <= lim.lit_limit /\ dst + s.ml > lim.oend_w -> SeqError("BlockTooLarge")
        [] OTHER ->
             IF inSegment
             THEN Copied(copy_literals(w, c.op, c.lit, s.ll)
                         \o CopyMatch(w, dst, s.offset, s.ml, avail))
             ELSE IF ~EXT THEN SeqError("OffsetTooFar")
             ELSE IF inline
             THEN Copied(copy_literals(w, c.op, c.lit, s.ll)
                         \o WildCopy(w, dst, lim.ext.end - back, s.ml))
             ELSE exec_sequence_ext(w, c, s, avail, lim.ext)

\* Mutant of PastWindowAllowed: the sequence's literals are not counted.
PastWindowBeforeLiterals(c, lim, s) == lim.ext.dict /\ c.op - lim.prefix <= lim.window

\* Past Window_Size a match may only reach into a dictionary, and only while
\* the frame has decoded at most Window_Size bytes.
PastWindowAllowed(c, lim, s) == lim.ext.dict /\ c.op + s.ll - lim.prefix <= lim.window

exec_sequence(w, EXT, c, lim, s) ==
  IF s.offset > lim.window /\ ~(EXT /\ PastWindowAllowed(c, lim, s))
  THEN SeqError("OffsetPastWindow")
  ELSE ExecInWindow(w, EXT, c, lim, s)

(***************************************************************************)
(* A block of sequences, followed by its last literals (run_sequences),    *)
(* and its size check (execute_with).  The result is the error, the block's*)
(* end and every chunk copied, those before an error included.             *)
(***************************************************************************)
AfterSequence(st, s, x) ==
  IF x.err # "none" THEN [st EXCEPT !.err = x.err]
  ELSE [err |-> "none", op |-> st.op + s.ll + s.ml, lit |-> st.lit + s.ll, chunks |-> st.chunks \o x.chunks]

LastLiterals(st, lim) ==
  LET rest == lim.lit_limit - st.lit
  IN  IF st.err # "none" THEN st
      ELSE IF st.op + rest > lim.oend_w THEN [st EXCEPT !.err = "BlockTooLarge"]
      ELSE [st EXCEPT !.op = @ + rest, !.lit = @ + rest, !.chunks = Append(@, Disjoint(st.op, st.lit, rest))]

RunWithin(w, EXT, seqs, st, lim) ==
  LastLiterals(FoldLeft(LAMBDA x, s : IF x.err # "none" THEN x
                                      ELSE AfterSequence(x, s, exec_sequence(w, EXT, [op |-> x.op, lit |-> x.lit], lim, s)),
                        st, seqs), lim)

run_sequences(w, EXT, seqs, lits, ext, dst) ==
  RunWithin(w, EXT, seqs, [err |-> "none", op |-> dst.base + dst.op, lit |-> lits.start, chunks |-> <<>>],
            [oend_w |-> dst.base + dst.op + MAX_BLOCK_SIZE, lit_limit |-> lits.start + lits.len,
             prefix |-> dst.base, ext |-> ext, window |-> dst.window])

SizeChecked(r, dst, block_size_max) ==
  IF r.err = "none" /\ r.op - (dst.base + dst.op) > block_size_max THEN [r EXCEPT !.err = "PastBlockMaximum"] ELSE r

execute_with(w, EXT, seqs, lits, ext, dst, block_size_max) ==
  SizeChecked(run_sequences(w, EXT, seqs, lits, ext, dst), dst, block_size_max)

(***************************************************************************)
(* Memory.                                                                 *)
(***************************************************************************)
Store(mem, c) ==
  [a \in DOMAIN mem |-> IF a \in c.dst .. c.dst + c.n - 1 THEN mem[c.src + c.pick[a - c.dst]]
                                                          ELSE mem[a]]
Memory(mem, chunks) == FoldLeft(Store, mem, chunks)

\* Every chunk is read from memory that exists, written to memory the block
\* may write, and the ranges of copy_nonoverlapping are apart.
Sound(mem, writable, chunks) ==
  \A i \in DOMAIN chunks :
    LET c == chunks[i]
    IN  /\ (c.src .. c.src + c.n - 1) \subseteq DOMAIN mem
        /\ (c.dst .. c.dst + c.n - 1) \subseteq writable
        /\ c.apart => c.dst >= c.src + c.n \/ c.src >= c.dst + c.n

(***************************************************************************)
(* The format's own definition, one byte at a time: the frame so far is a  *)
(* sequence of bytes, the history apart from the segment before it.        *)
(***************************************************************************)
Reachable(ext, window, produced, offset) ==
  /\ offset \in 1..(ext.len + produced)
  /\ offset <= window \/ (ext.dict /\ produced <= window)

RefSequence(st, s, ext, window) ==
  LET lits == SubSeq(st.lits, 1, s.ll)
      hist == st.hist \o lits
      produced == Len(hist) - ext.len
      match[i \in 1..s.ml] == IF i <= s.offset THEN hist[Len(hist) + i - s.offset]
                              ELSE match[i - s.offset]
  IN  IF ~st.ok \/ s.ll > Len(st.lits) \/ ~Reachable(ext, window, produced, s.offset)
      THEN [st EXCEPT !.ok = FALSE]
      ELSE [ok |-> TRUE, lits |-> SubSeq(st.lits, s.ll + 1, Len(st.lits)),
            hist |-> hist \o [i \in 1..s.ml |-> match[i]]]

RefBlock(hist, seqs, lits, ext, window) ==
  LET st == FoldLeft(LAMBDA a, s : RefSequence(a, s, ext, window),
                     [ok |-> TRUE, lits |-> lits, hist |-> hist], seqs)
  IN  IF st.ok THEN [st EXCEPT !.hist = @ \o st.lits] ELSE st
=============================================================================
