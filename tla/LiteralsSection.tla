--------------------------- MODULE LiteralsSection ---------------------------
(***************************************************************************)
(* The literals section of a block, as written (src/src/huf.rs,            *)
(* compress_literals_with) and as read (src/src/decode.rs,                 *)
(* LiteralsSection::parse, decode_literals).                               *)
(*                                                                         *)
(* held is the writer's table of an earlier block, [mode, table].          *)
(***************************************************************************)
EXTENDS HuffmanEncoder, HuffmanDecoder

LitType == [ty \in {"Raw", "RLE", "Compressed", "Treeless"} |->
  CASE ty = "Raw" -> 0 [] ty = "RLE" -> 1 [] ty = "Compressed" -> 2 [] OTHER -> 3]

\* Strategies by their number; costs are compared from Lazy on.
Lazy == 4
BtUltra == 8

-----------------------------------------------------------------------------
(* The writer.                                                             *)

\* The header of raw and RLE sections.
PlainHeader(ty, n) ==
  Bits(LitType[ty], 2) \o (IF n <= 31 THEN Bits(0, 1) \o Bits(n, 5)
                           ELSE IF n <= 4095 THEN Bits(1, 2) \o Bits(n, 12)
                           ELSE Bits(3, 2) \o Bits(n, 20))

LiteralBits(lits) == Fold(LAMBDA bits, b : bits \o Bits(b, 8), <<>>, lits)

encode_literals_raw(lits) == PlainHeader("Raw", Len(lits)) \o LiteralBits(lits)
encode_literals_rle(byte, n) == PlainHeader("RLE", n) \o Bits(byte, 8)

min_literals_to_compress(strategy, mode) == IF mode = "Valid" THEN 6 ELSE 8 * Pow2[Min({9 - strategy, 3})]
min_gain(n, strategy) == n \div Pow2[IF strategy >= BtUltra THEN strategy - 1 ELSE 6] + 2

\* The depth of the new table: by rule, or the one whose description and
\* streams are estimated smallest, probed upwards until they grow.
Better(best, size, guess) ==
  IF size > best.size + 1 THEN [best EXCEPT !.done = TRUE]
  ELSE IF size < best.size THEN [best EXCEPT !.size = size, !.log = guess] ELSE best

ProbeDescribed(best, size, desc, guess) == IF ~desc.ok THEN best ELSE Better(best, size + Bytes(desc.bits), guess)

ProbeTable(best, t, counts, guess, min_log) ==
  IF t.log < guess /\ guess > min_log THEN [best EXCEPT !.done = TRUE]
  ELSE ProbeDescribed(best, estimate_compressed_size(t, counts), write_ctable(t), guess)

ProbeDepths(max_log, counts, min_log) ==
  Fold(LAMBDA best, guess :
         IF best.done THEN best ELSE ProbeTable(best, build_ctable_huf(counts, guess), counts, guess, min_log),
       [done |-> FALSE, size |-> Pow2[29], log |-> max_log], [i \in 1..max_log - min_log + 1 |-> min_log + i - 1]).log

huf_optimal_table_log(max_log, n, counts, optimal_depth) ==
  IF ~optimal_depth THEN optimal_table_log_internal(max_log, n, MaxSymbol(counts), 1)
  ELSE ProbeDepths(max_log, counts, highest_bit(Cardinality({s \in DOMAIN counts : counts[s] # 0})) + 1)

\* The streams after a description; bits <<>> where nothing is gained.
WithDesc(desc, n, c) ==
  IF c.bits = <<>> \/ Bytes(desc) + Bytes(c.bits) >= n - 1 THEN [fits |-> TRUE, bits |-> <<>>]
  ELSE [fits |-> c.fits, bits |-> desc \o c.bits]

compress_ctable_internal(desc, src, single, table) ==
  WithDesc(desc, Len(src),
           IF single THEN compress_1x_using_ctable(src, table) ELSE compress_4x_using_ctable(src, table))

\* size is -1 (error), 0 (not compressible), 1 (one symbol) or that of bits;
\* mode what the held table is taken for, "None" where a new table is used.
Coded(c, mode, table) == [size |-> Bytes(c.bits), mode |-> mode, bits |-> c.bits, fits |-> c.fits, table |-> table]
Uncoded(size, mode, table) == [size |-> size, mode |-> mode, bits |-> <<>>, fits |-> TRUE, table |-> table]

\* The table the streams are written with, and its description if it is new.
StreamWith(desc, table, mode) == [coded |-> TRUE, desc |-> desc, table |-> table, mode |-> mode]
WriteNothing(size, mode) == [coded |-> FALSE, size |-> size, mode |-> mode]

\* The new table, unless the held one is estimated to do as well.
NewOrHeld(n, counts, held, mode, new, desc) ==
  LET h_size == Bytes(desc.bits)
      keep == mode # "None" /\ (estimate_compressed_size(held.table, counts)
                                  <= h_size + estimate_compressed_size(new, counts) \/ h_size + 12 >= n)
  IN  IF ~desc.ok THEN WriteNothing(-1, mode)
      ELSE IF keep THEN StreamWith(NoBits, held.table, mode)
      ELSE IF h_size + 12 >= n THEN WriteNothing(0, mode)
      ELSE StreamWith(desc, new, "None")

WithNew(n, counts, held, mode, new) == NewOrHeld(n, counts, held, mode, new, write_ctable(new))

\* The held table, if it codes every symbol or is known to.
ModeOf(held, counts) ==
  IF held.mode = "Check" /\ ~validate_ctable(held.table, counts) THEN "None" ELSE held.mode

ChooseByCounts(n, counts, held, mode, prefer_repeat, optimal_depth) ==
  LET largest == Max({counts[s] : s \in DOMAIN counts})
  IN  IF largest = n THEN WriteNothing(1, held.mode)
      ELSE IF largest <= n \div 128 + 4 THEN WriteNothing(0, held.mode)
      ELSE IF prefer_repeat /\ mode # "None" THEN StreamWith(NoBits, held.table, mode)
      ELSE WithNew(n, counts, held, mode,
             build_ctable_huf(counts, huf_optimal_table_log(HUF_TABLELOG_DEFAULT, n, counts, optimal_depth)))

CountAndChoose(n, counts, held, prefer_repeat, optimal_depth) ==
  ChooseByCounts(n, counts, held, ModeOf(held, counts), prefer_repeat, optimal_depth)

ChooseTable(src, held, prefer_repeat, optimal_depth) ==
  IF src = <<>> THEN WriteNothing(0, held.mode)
  ELSE IF prefer_repeat /\ held.mode = "Valid" THEN StreamWith(NoBits, held.table, "Valid")
  ELSE CountAndChoose(Len(src), hist_count(src), held, prefer_repeat, optimal_depth)

WriteWith(src, single, held, w) ==
  IF ~w.coded THEN Uncoded(w.size, w.mode, held.table)
  ELSE [Coded(compress_ctable_internal(w.desc.bits, src, single, w.table), w.mode, w.table)
          EXCEPT !.fits = @ /\ w.desc.fits]

\* The samples taken of 40960 literals and more, which can also give 0, are
\* left out.
compress_internal(src, single, held, prefer_repeat, optimal_depth) ==
  WriteWith(src, single, held, ChooseTable(src, held, prefer_repeat, optimal_depth))

\* The header of sections in one stream or four.
CodedHeader(ty, n, size, single) ==
  Bits(LitType[ty], 2) \o (IF n < 1024 THEN Bits(IF single THEN 0 ELSE 1, 2) \o Bits(n, 10) \o Bits(size, 10)
                           ELSE IF n < 16384 THEN Bits(2, 2) \o Bits(n, 14) \o Bits(size, 14)
                           ELSE Bits(3, 2) \o Bits(n, 18) \o Bits(size, 18))

\* Mutant of IsRle: a size of 1 is one symbol.
IsRleBySize(lits) == TRUE

\* A size of 1 is one symbol, or a stream of a byte where literals are few.
IsRle(lits) == Len(lits) >= 8 \/ \A i \in DOMAIN lits : lits[i] = lits[1]

\* next is what the section does to the held table, table the new one.
SectionBits(lits, single, held, strategy, c) ==
  LET n == Len(lits)
      ty == IF c.mode = "None" THEN "Compressed" ELSE "Treeless"
      Kept(bits) == [bits |-> bits, fits |-> TRUE, next |-> "Keep", table |-> held.table]
  IN  IF c.size < 1 \/ c.size >= n - min_gain(n, strategy) THEN Kept(encode_literals_raw(lits))
      ELSE IF c.size = 1 /\ IsRle(lits) THEN Kept(encode_literals_rle(lits[1], n))
      ELSE [bits |-> CodedHeader(ty, n, c.size, single) \o c.bits, fits |-> c.fits,
            next |-> IF ty = "Compressed" THEN "New" ELSE "Keep", table |-> c.table]

compress_literals_with(lits, held, strategy, disabled) ==
  LET n == Len(lits)
      single == n < 256 \/ (held.mode = "Valid" /\ n < 1024)
  IN  IF disabled \/ n < min_literals_to_compress(strategy, held.mode)
      THEN [bits |-> encode_literals_raw(lits), fits |-> TRUE, next |-> "Keep", table |-> held.table]
      ELSE SectionBits(lits, single, held, strategy,
             compress_internal(lits, single, held, strategy < Lazy /\ n <= 1024, strategy >= BtUltra))

literals_section_bound(n) == n + 1 + (IF n > 31 THEN 1 ELSE 0) + (IF n > 4095 THEN 1 ELSE 0)

-----------------------------------------------------------------------------
(* The reader.                                                             *)

\* The header's own length, from its type and format.
HeaderLen(plain, format) ==
  IF plain THEN CASE format \in {0, 2} -> 1 [] format = 1 -> 2 [] OTHER -> 3
  ELSE CASE format \in {0, 1} -> 3 [] format = 2 -> 4 [] OTHER -> 5

Field(raw, from, width) == Value(SubSeq(raw, from + 1, from + width))

ParseSizes(raw, ty, plain, format, len) ==
  LET size == IF plain THEN (IF len = 1 THEN Field(raw, 3, 5) ELSE Field(raw, 4, 8 * len - 4))
              ELSE Field(raw, 4, 4 * len - 2)
  IN  IF Bytes(raw) < len THEN Failed
      ELSE [ok |-> TRUE, ty |-> ty, size |-> size, len |-> len, four_streams |-> ~plain /\ format # 0,
            content |-> CASE ty = "RLE" -> 1 [] ty = "Raw" -> size
                          [] OTHER -> Field(raw, 4 * len + 2, 4 * len - 2)]

ParseAs(raw, ty, format) ==
  ParseSizes(raw, ty, ty \in {"Raw", "RLE"}, format, HeaderLen(ty \in {"Raw", "RLE"}, format))

LiteralsParse(raw) ==
  IF raw = <<>> THEN Failed
  ELSE ParseAs(raw, CHOOSE t \in DOMAIN LitType : LitType[t] = Field(raw, 0, 2), Field(raw, 2, 2))

LiteralsOut(d, n, table) ==
  IF ~d.ok THEN Failed ELSE [ok |-> TRUE, held |-> table, out |-> [i \in 1..n |-> d.out[i-1]] \o <<>>]

\* The streams of a section, with the table it describes or the held one.
DecodeWith(streams, p, table) ==
  IF table = NoHuffmanTable THEN Failed
  ELSE LiteralsOut(huf_decompress(streams, p.four_streams, table, p.size), p.size, table)

TableAndStreams(src, b, held, p) ==
  IF p.ty # "Compressed" THEN [ok |-> TRUE, table |-> held, streams |-> src]
  ELSE IF b.ok THEN [ok |-> TRUE, table |-> b.table, streams |-> From(src, b.len)] ELSE Failed

DecodeIfTable(t, p) == IF ~t.ok THEN Failed ELSE DecodeWith(t.streams, p, t.table)

DecodeContent(src, p, held) ==
  CASE p.ty = "Raw" -> [ok |-> TRUE, held |-> held, out |-> [i \in 1..p.size |-> ByteAt(src, i - 1)] \o <<>>]
    [] p.ty = "RLE" -> [ok |-> TRUE, held |-> held, out |-> [i \in 1..p.size |-> ByteAt(src, 0)] \o <<>>]
    [] OTHER -> DecodeIfTable(TableAndStreams(src, huf_build_decoder(src, p.size, p.four_streams), held, p), p)

DecodeParsed(raw, p, held, block_size_max) ==
  IF ~p.ok THEN Failed
  ELSE IF p.size > block_size_max \/ Bytes(raw) < p.len + p.content THEN Failed
  ELSE DecodeContent(SubSeq(raw, 8 * p.len + 1, 8 * (p.len + p.content)), p, held)

\* The literals of a section at the start of raw, and the table held after it.
decode_literals(raw, held, block_size_max) == DecodeParsed(raw, LiteralsParse(raw), held, block_size_max)
=============================================================================
