-------------------------- MODULE SequencesSection --------------------------
(***************************************************************************)
(* The sequences section of a block, as written (src/src/fse.rs,           *)
(* encode_sequences_section_with) and as read (src/src/decode.rs,          *)
(* SequencesHeader, build_sequence_tables, decode_sequence).               *)
(*                                                                         *)
(* A stored sequence is [lit_len, ml_base, off_base].  The three code      *)
(* streams are "ll", "of" and "ml"; a table held from an earlier block is  *)
(* a record [table, mode], mode being its FSE_repeat.                      *)
(***************************************************************************)
EXTENDS Fse

Reps == INSTANCE RepCodes

Streams == <<"ll", "of", "ml">>      \* in the order of their descriptions

MaxCode == [t \in {"ll", "of", "ml"} |-> CASE t = "ll" -> 35 [] t = "of" -> 31 [] OTHER -> 52]
FseLog == [t \in {"ll", "of", "ml"} |-> IF t = "of" THEN 8 ELSE 9]
StateBits == 9 + 8 + 9

FromZero(seq) == Tabulate([i \in 0..Len(seq) - 1 |-> seq[i + 1]])

LL_BITS == FromZero(Zeros(16) \o <<1, 1, 1, 1, 2, 2, 3, 3, 4, 6, 7, 8, 9, 10, 11, 12, 13, 14, 15, 16>>)
ML_BITS == FromZero(Zeros(32) \o <<1, 1, 1, 1, 2, 2, 3, 3, 4, 4, 5, 7, 8, 9, 10, 11, 12, 13, 14, 15, 16>>)
LL_BASE == FromZero([i \in 1..16 |-> i - 1] \o <<16, 18, 20, 22, 24, 28, 32, 40, 48>>
                    \o [i \in 1..11 |-> Pow2[i + 5]])
ML_BASE == FromZero([i \in 1..32 |-> i + 2] \o <<35, 37, 39, 41, 43, 47, 51, 59, 67, 83, 99>>
                    \o [i \in 1..10 |-> Pow2[i + 6] + 3])

ExtraBits(t, code) == CASE t = "ll" -> LL_BITS[code] [] t = "ml" -> ML_BITS[code] [] OTHER -> code

Default == [t \in {"ll", "of", "ml"} |->
  CASE t = "ll" -> [log |-> 6, norm |-> FromZero(<<4, 3>> \o [i \in 1..11 |-> 2] \o <<1, 1, 1>>
                      \o [i \in 1..9 |-> 2] \o <<3, 2>> \o Ones(5) \o [i \in 1..4 |-> -1])]
    [] t = "of" -> [log |-> 5, norm |-> FromZero(Ones(6) \o <<2, 2, 2>> \o Ones(15) \o [i \in 1..5 |-> -1])]
    [] OTHER    -> [log |-> 6, norm |-> FromZero(<<1, 4, 3, 2, 2, 2, 2, 2, 2>> \o Ones(37)
                      \o [i \in 1..7 |-> -1])]]

DefaultCTable == Tabulate([t \in {"ll", "of", "ml"} |-> CTable(Default[t].norm, Default[t].log)])
PREDEFINED_TABLES == Tabulate([t \in {"ll", "of", "ml"} |-> build_from_probabilities(Default[t].log, Default[t].norm, MaxCode[t]).table])

-----------------------------------------------------------------------------
(* The writer.                                                             *)

ll_code(v) == Cardinality({c \in 1..35 : LL_BASE[c] <= v})
ml_code(v) == Cardinality({c \in 1..52 : ML_BASE[c] - 3 <= v})
off_code(v) == highest_bit(v)

Code(t, s) == CASE t = "ll" -> ll_code(s.lit_len) [] t = "of" -> off_code(s.off_base)
                [] OTHER -> ml_code(s.ml_base)
RawValue(t, s) == CASE t = "ll" -> s.lit_len [] t = "of" -> s.off_base [] OTHER -> s.ml_base

seq_to_codes(t, seqs) == Tabulate([i \in DOMAIN seqs |-> Code(t, seqs[i])])

Histogram(codes) ==
  Tabulate([c \in 0..Max(Range(codes)) |-> Cardinality({i \in DOMAIN codes : codes[i] = c})])

DefaultAllowed(t, max) == max <= MaxSymbol(Default[t].norm)

\* The types a table can be sent as: below Lazy a rule, from it on whichever
\* of the candidates costs least, a held table being one if it has a cost.
select_encoding_type(t, counts, nb_seq, held, strategy) ==
  LET most == Max({counts[c] : c \in DOMAIN counts})
      allowed == DefaultAllowed(t, MaxSymbol(counts))
      log == Default[t].log
      costed == {ty \in {"Basic", "Repeat", "Compressed"} :
                   /\ ty = "Basic" => allowed
                   /\ ty = "Repeat" => held.mode # "None" /\ bit_cost(held.table, counts) # -1}
  IN  IF most = nb_seq THEN IF allowed /\ nb_seq <= 2 THEN {"Basic"} ELSE {"Rle"}
      ELSE IF strategy >= 4 THEN costed
      ELSE IF ~allowed THEN {"Compressed"}
      ELSE IF held.mode = "Valid" /\ nb_seq < 1000 THEN {"Repeat"}
      ELSE IF nb_seq < (Pow2[log] * (10 - strategy)) \div 8 \/ most < nb_seq \div Pow2[log - 1]
      THEN {"Basic"} ELSE {"Compressed"}

\* The description of a table and the table; the last code counts one less
\* in a new one, its state costing nothing.
NormalizeCodes(counts, last, less, n, log) ==
  normalize_count(log, [counts EXCEPT ![last] = @ - less], n - less, n - less >= 2048)

CompressedTable(n, log, desc) ==
  IF ~desc.ok THEN Failed ELSE [ok |-> TRUE, desc |-> desc.bits, table |-> CTable(n.norm, log)]

NewTable(n, log) ==
  IF ~n.ok THEN Failed ELSE IF n.log = 0 THEN Failed ELSE CompressedTable(n, log, write_ncount(n.norm, log))

build_ctable(t, ty, codes, counts, held) ==
  LET last == codes[Len(codes)]
      log == optimal_table_log(FseLog[t], Len(codes), MaxSymbol(counts))
  IN  CASE ty = "Rle" -> [ok |-> TRUE, desc |-> Bits(codes[1], 8), table |-> CTableRle(MaxSymbol(counts))]
        [] ty = "Repeat" -> [ok |-> TRUE, desc |-> <<>>, table |-> held.table]
        [] ty = "Basic" -> [ok |-> TRUE, desc |-> <<>>, table |-> DefaultCTable[t]]
        [] ty = "Compressed" ->
             NewTable(NormalizeCodes(counts, last, IF counts[last] > 1 THEN 1 ELSE 0, Len(codes), log), log)

AddRaw(w, t, s) == add_bits(w, RawValue(t, s), ExtraBits(t, Code(t, s)))

\* Mutant of FlushBeforeOffset: the container takes all raw bits.
FlushBeforeOffsetNever(raw) == FALSE

FlushBeforeOffset(raw) == raw > 56

\* One sequence of encode_sequences_body: the three states, then its raw
\* bits, with a flush where the container could otherwise overflow.
RawBits(s) == ExtraBits("ll", Code("ll", s)) + ExtraBits("of", Code("of", s)) + ExtraBits("ml", Code("ml", s))

EncodeCode(x, t, s, tables) ==
  LET e == EncodeState(x.w, tables[t], x.state[t], Code(t, s))
  IN  [w |-> e.w, state |-> [x.state EXCEPT ![t] = e.state]]
EncodeCodes(st, s, tables) ==
  EncodeCode(EncodeCode(EncodeCode(st, "of", s, tables), "ml", s, tables), "ll", s, tables)

FlushIf(p, w) == IF p THEN flush_bits(w) ELSE w
AddSequence(w, s, raw) ==
  LET w1 == FlushIf(raw >= 64 - 7 - StateBits, w)
      w2 == FlushIf(FlushBeforeOffset(raw), AddRaw(AddRaw(w1, "ll", s), "ml", s))
  IN  flush_bits(AddRaw(w2, "of", s))

WithRaw(coded, s) == [coded EXCEPT !.w = AddSequence(@, s, RawBits(s))]
EncodeSequence(st, s, tables) == WithRaw(EncodeCodes(st, s, tables), s)

ExtraBitsOf(seqs) == Fold(LAMBDA n, s : n + RawBits(s), 0, seqs)

\* The three states end the stream.
EndState(w, st, tables, t) == FlushState(w, st.state[t], tables[t].log)
EndSequences(st, tables) ==
  close(EndState(EndState(EndState(st.w, st, tables, "ml"), st, tables, "of"), st, tables, "ll"))

encode_sequences(seqs, tables) ==
  LET n == Len(seqs)
      last == seqs[n]
      region == BitCStream(capacity_for(ExtraBitsOf(seqs) + n * StateBits + 1))
      start == [w |-> flush_bits(AddRaw(AddRaw(AddRaw(region, "ll", last), "ml", last), "of", last)),
                state |-> [t \in {"ll", "of", "ml"} |-> init_state(tables[t], Code(t, last))]]
  IN  EndSequences(Fold(LAMBDA x, s : EncodeSequence(x, s, tables), start, Reverse(SubSeq(seqs, 1, n - 1))),
                   tables)

NbSeqHeader(n) ==
  CASE n < 128 -> Bits(n, 8)
    [] n \in 128..32511 -> Bits((n \div 256) + 128, 8) \o Bits(n, 8)
    [] OTHER -> Bits(255, 8) \o Bits(n - 32512, 16)

TypeNo == [ty \in {"Basic", "Rle", "Compressed", "Repeat"} |->
  CASE ty = "Basic" -> 0 [] ty = "Rle" -> 1 [] ty = "Compressed" -> 2 [] OTHER -> 3]

\* A last description and a stream below 4 bytes together are not written:
\* decoders up to 1.3.4 misread them.
JoinSection(n, types, built, stream) ==
  LET counted == SelectSeq(Streams, LAMBDA t : types[t] = "Compressed")
      lastSize == IF counted = <<>> THEN 0 ELSE Bytes(built[counted[Len(counted)]].desc)
      modes == Bits(0, 2) \o Bits(TypeNo[types["ml"]], 2) \o Bits(TypeNo[types["of"]], 2)
               \o Bits(TypeNo[types["ll"]], 2)
  IN  IF lastSize # 0 /\ lastSize + Bytes(stream.bits) < 4 THEN Failed
      ELSE [ok |-> TRUE, fits |-> stream.fits /\ stream.bits # <<>>,
            bits |-> NbSeqHeader(n) \o modes \o built["ll"].desc \o built["of"].desc
                     \o built["ml"].desc \o stream.bits]

SectionOf(seqs, types, built) ==
  IF \E t \in DOMAIN built : ~built[t].ok THEN Failed
  ELSE JoinSection(Len(seqs), types, built,
                   encode_sequences(seqs, [t \in {"ll", "of", "ml"} |-> built[t].table]))

BuiltTable(t, ty, codes, held) == build_ctable(t, ty, codes, Histogram(codes), held)

encode_sequences_section(seqs, types, held) ==
  IF seqs = <<>> THEN [ok |-> TRUE, fits |-> TRUE, bits |-> NbSeqHeader(0)]
  ELSE SectionOf(seqs, types, Tabulate([t \in {"ll", "of", "ml"} |->
                                          BuiltTable(t, types[t], seq_to_codes(t, seqs), held[t])]))

ncount_write_bound(max, log) == IF max = 0 THEN 512 ELSE ((max + 1) * log + 6) \div 8 + 3

sequences_section_bound(seqs) ==
  LET n == Len(seqs)
      header == 1 + (IF n >= 128 THEN 1 ELSE 0) + (IF n >= 32512 THEN 1 ELSE 0)
      extra == ExtraBitsOf(seqs)
      Desc(t) == ncount_write_bound(Max(Range(seq_to_codes(t, seqs))), FseLog[t])
      bound == header + 1 + Desc("ll") + Desc("of") + Desc("ml") + (extra + n * StateBits + 1 + 7) \div 8
  IN  IF n = 0 THEN header
      ELSE IF n >= 2 /\ extra <= 2 THEN Max({bound, 131073}) ELSE bound

-----------------------------------------------------------------------------
(* The reader.                                                             *)

\* Number of sequences, header length and modes.
ParseSequencesHeader(src) ==
  LET n == Bytes(src)
      first == IF n = 0 THEN -1 ELSE ByteAt(src, 0)
      len == CASE first \in 0..127 -> 1 [] first \in 128..254 -> 2 [] OTHER -> 3
      num == CASE len = 1 -> first
               [] len = 2 -> (first - 128) * 256 + ByteAt(src, 1)
               [] OTHER -> ByteAt(src, 1) + ByteAt(src, 2) * 256 + 32512
      modes == ByteAt(src, len)
  IN  IF n < len THEN Failed
      ELSE IF num = 0 THEN [ok |-> TRUE, num |-> 0, len |-> len, modes |-> <<>>]
      ELSE IF n <= len THEN Failed
      ELSE IF modes % 4 # 0 THEN Failed
      ELSE [ok |-> TRUE, num |-> num, len |-> len + 1,
            modes |-> [t \in {"ll", "of", "ml"} |->
                         CASE t = "ll" -> modes \div 64 [] t = "of" -> (modes \div 16) % 4
                           [] OTHER -> (modes \div 4) % 4]]

\* The table of one stream from its description at src: held is the table
\* the decoder holds, none before the first.
NoDTable == [none |-> TRUE]

build_sequence_table(t, mode, src, held) ==
  LET code == ByteAt(src, 0)
  IN  CASE mode = 2 -> build_decoder(src, MaxCode[t], FseLog[t])
        [] mode = 1 -> IF src = <<>> THEN Failed
                       ELSE IF code > MaxCode[t] THEN Failed
                       ELSE [ok |-> TRUE, len |-> 1, table |-> DTableRle(code)]
        [] mode = 0 -> [ok |-> TRUE, len |-> 0, table |-> PREDEFINED_TABLES[t]]
        [] mode = 3 -> IF held = NoDTable THEN Failed ELSE [ok |-> TRUE, len |-> 0, table |-> held]

AddTable(acc, b) ==
  IF ~b.ok THEN [acc EXCEPT !.ok = FALSE]
  ELSE [ok |-> TRUE, len |-> acc.len + b.len, tables |-> Append(acc.tables, b.table)]

build_sequence_tables(src, modes, held) ==
  Fold(LAMBDA acc, t : IF ~acc.ok THEN acc
                       ELSE AddTable(acc, build_sequence_table(t, modes[t], From(src, acc.len), held[t])),
       [ok |-> TRUE, len |-> 0, tables |-> <<>>], Streams)

\* The values of one sequence.  The reader is reloaded once in it when its
\* raw bits could leave fewer than the states need.
ReadLitLen(st, cell, of, ml, d) ==
  LET bits == LL_BITS[cell[1].symbol]
  IN  [st |-> st, cell |-> cell, of |-> of, ml |-> ml, ll |-> look_bits(d, bits), d |-> skip_bits(d, bits)]

ReloadIf(p, d) == IF p THEN reload(d) ELSE d

ReadMatchLen(st, cell, of, d) ==
  LET bits == ML_BITS[cell[3].symbol]
      raw == LL_BITS[cell[1].symbol] + cell[2].symbol + bits
  IN  ReadLitLen(st, cell, of, look_bits(d, bits), ReloadIf(raw >= 57 - 26, skip_bits(d, bits)))

ReadValues(st, cell) ==
  ReadMatchLen(st, cell, look_bits(st.d, cell[2].symbol), skip_bits(st.d, cell[2].symbol))

\* The next states, of the literal length, the match length and the offset.
NextStates(d, cell) ==
  LET d3 == skip_bits(d, cell[1].nb)
      d2 == skip_bits(d3, cell[3].nb)
  IN  [state |-> <<cell[1].next + look_bits(d, cell[1].nb), cell[2].next + look_bits(d2, cell[2].nb),
                   cell[3].next + look_bits(d3, cell[3].nb)>>,
       d |-> reload(skip_bits(d2, cell[2].nb))]

Resolved(r, base, ob) == Reps!DecodeSequence(r.st.hist, ob, base = 0)

\* The offset code's base is a repcode's below 2 bits.
SequenceOut(r, hist, next) ==
  [d |-> next.d, state |-> next.state, hist |-> hist,
   out |-> Append(r.st.out, [lit_len |-> LL_BASE[r.cell[1].symbol] + r.ll,
                             ml_base |-> ML_BASE[r.cell[3].symbol] + r.ml - 3, offset |-> hist[1]])]

\* The last sequence moves no state.
MoveStates(r, isLast) ==
  SequenceOut(r, Resolved(r, LL_BASE[r.cell[1].symbol],
                          IF r.cell[2].symbol = 0 THEN 1 ELSE Pow2[r.cell[2].symbol] + r.of),
              IF isLast THEN [state |-> r.st.state, d |-> r.d] ELSE NextStates(r.d, r.cell))

ReadSequence(st, dt, isLast) ==
  MoveStates(ReadValues(st, <<dt[1].cell[st.state[1]], dt[2].cell[st.state[2]], dt[3].cell[st.state[3]]>>), isLast)

ReadFrom(d, hist, dt, num, a, b, c) ==
  Fold(LAMBDA s, i : ReadSequence(s, dt, i = num),
       [d |-> d, hist |-> hist, state |-> <<a, b, c>>, out |-> <<>>], [i \in 1..num |-> i])

\* d1, d2 and d3 are the reader before each of the three states.
ReadStates(d1, d2, d3, dt, num, hist) ==
  ReadFrom(reload(skip_bits(d3, dt[3].log)), hist, dt, num,
           look_bits(d1, dt[1].log), look_bits(d2, dt[2].log), look_bits(d3, dt[3].log))

ThirdState(d1, d2, dt, num, hist) == ReadStates(d1, d2, reload(skip_bits(d2, dt[2].log)), dt, num, hist)

Finished(st) == IF ~is_finished(st.d) THEN Failed ELSE [ok |-> TRUE, out |-> st.out, hist |-> st.hist]

SequencesFrom(d, num, dt, hist) ==
  IF ~d.ok THEN Failed ELSE Finished(ThirdState(d, reload(skip_bits(d, dt[1].log)), dt, num, hist))

DecodeSequencesStream(src, num, dt, hist) == SequencesFrom(DStream(src), num, dt, hist)

StreamAfter(src, h, t, hist) ==
  IF ~t.ok THEN Failed ELSE DecodeSequencesStream(From(src, h.len + t.len), h.num, t.tables, hist)

DecodeAfterHeader(src, h, held, hist) ==
  IF ~h.ok THEN Failed
  ELSE IF h.num = 0 THEN IF Bytes(src) > h.len THEN Failed ELSE [ok |-> TRUE, out |-> <<>>, hist |-> hist]
  ELSE StreamAfter(src, h, build_sequence_tables(From(src, h.len), h.modes, held), hist)

decode_sequences_section(src, held, hist) == DecodeAfterHeader(src, ParseSequencesHeader(src), held, hist)
=============================================================================
