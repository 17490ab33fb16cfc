--------------------------- MODULE HuffmanDecoder ---------------------------
(***************************************************************************)
(* The Huffman decoder of src/src/decode.rs: HuffmanTable, its single- and *)
(* double-symbol cells, and the decoders of one and of four streams.       *)
(*                                                                         *)
(* A cell is [seq, nb, len]: the bytes written, the bits consumed and how  *)
(* many of the bytes count.  Cells are functions of the 11 bits looked up. *)
(***************************************************************************)
EXTENDS Fse

HUF_FAST_TABLE_LOG == 11     \* HUF_TABLELOG_MAX of the decoder

HUF_ALGO_TIME ==
  <<<<0, 0, 1, 1>>, <<0, 0, 1, 1>>, <<150, 216, 381, 119>>, <<170, 205, 514, 112>>, <<177, 199, 539, 110>>,
    <<197, 194, 644, 107>>, <<221, 192, 735, 107>>, <<256, 189, 881, 106>>, <<359, 188, 1167, 109>>,
    <<582, 187, 1570, 114>>, <<688, 187, 1712, 122>>, <<825, 186, 1965, 136>>, <<976, 185, 2131, 150>>,
    <<1180, 186, 2070, 175>>, <<1377, 185, 1731, 202>>, <<1412, 185, 1695, 202>>>>

huf_select_x2(dst, src) ==
  LET t == HUF_ALGO_TIME[1 + IF src >= dst THEN 15 ELSE (src * 16) \div dst]
      time1 == t[3] + t[4] * (dst \div 256)
  IN  time1 + time1 \div 32 < t[1] + t[2] * (dst \div 256)

-----------------------------------------------------------------------------
(* Weights.                                                                *)

\* The weights of a description and its length.
RawWeightsRead(src, n, size) ==
  LET Raw(i) == Value(SubSeq(src, 9 + 8 * ((i-1) \div 2) + 4 * (i % 2), 12 + 8 * ((i-1) \div 2) + 4 * (i % 2)))
  IN  IF Bytes(src) < 1 + size THEN Failed
      ELSE [ok |-> TRUE, len |-> 1 + size, weights |-> Tabulate([i \in 1..n |-> Raw(i)])]

WeightsDecoded(w, header) == IF ~w.ok THEN Failed ELSE [ok |-> TRUE, len |-> 1 + header, weights |-> w.out]

CodedWeightsRead(coded, header, fse) ==
  IF ~fse.ok THEN Failed
  ELSE WeightsDecoded(fse_decompress_weights(fse.table, From(coded, fse.len), 255), header)

WeightsAfter(src, coded, header) ==
  IF header >= 128 THEN RawWeightsRead(src, header - 127, (header - 126) \div 2)
  ELSE IF Bytes(src) < 1 + header THEN Failed
  ELSE CodedWeightsRead(coded, header, build_decoder(coded, HUF_FAST_TABLE_LOG, 6))

read_weights(src) ==
  LET header == ByteAt(src, 0)
  IN  IF src = <<>> THEN Failed ELSE WeightsAfter(src, SubSeq(src, 9, 8 + 8 * header), header)

\* The last weight completes the others to a power of two.
CheckedWeights(all, log) ==
  LET ones == Cardinality({s \in DOMAIN all : all[s] = 1})
  IN  IF ones < 2 \/ ones % 2 # 0 THEN Failed ELSE [ok |-> TRUE, log |-> log, weights |-> all]

CompletedBy(weights, log, rest) ==
  IF log > HUF_FAST_TABLE_LOG \/ Pow2[highest_bit(rest)] # rest THEN Failed
  ELSE CheckedWeights(Tabulate([s \in 0..Len(weights) |->
                        IF s < Len(weights) THEN weights[s+1] ELSE highest_bit(rest) + 1]), log)

CompleteWeights(weights, total) ==
  LET log == highest_bit(total) + 1
  IN  IF total = 0 THEN Failed ELSE CompletedBy(weights, log, Pow2[log] - total)

weight_stats(weights) ==
  IF \E i \in DOMAIN weights : weights[i] > HUF_FAST_TABLE_LOG THEN Failed
  ELSE CompleteWeights(weights, MapThenSumSet(LAMBDA i : Pow2[weights[i]] \div 2, DOMAIN weights))

-----------------------------------------------------------------------------
(* Cells.  sorted is the symbols by weight, then by value; start[w] how    *)
(* many come before those of weight w, run[w] the first cell of weight w.  *)

Sorted(stats) ==
  LET W == stats.weights
      N(w) == Cardinality({s \in DOMAIN W : W[s] = w})
      Cells11(w) == Pow2[HUF_FAST_TABLE_LOG - stats.log + w - 1]
      start[w \in 0..HUF_FAST_TABLE_LOG + 1] == IF w = 0 THEN 0 ELSE start[w-1] + N(w-1)
      run[w \in 1..stats.log + 1] == IF w = 1 THEN 0 ELSE run[w-1] + N(w-1) * Cells11(w-1)
      all == [i \in 1..MaxSymbol(W) + 1 |-> i - 1]
  IN  [log |-> stats.log, weights |-> W, start |-> Tabulate(start), run |-> Tabulate(run),
       top |-> Max(Range(W)),
       sorted |-> Fold(LAMBDA seq, w : seq \o SelectSeq(all, LAMBDA s : W[s] = w), <<>>,
                       [i \in 1..HUF_FAST_TABLE_LOG + 1 |-> i - 1])]

CodeLen(t, w) == t.log + 1 - w
code_len(t, s) == CodeLen(t, t.weights[s])

\* The k-th symbol of weight w, counted from 0.
SymbolOf(t, w, k) == t.sorted[t.start[w] + k + 1]
HasSymbols(t, w) == t.start[w + 1] > t.start[w]

\* Each symbol of n bits owns 2^(11 - n) cells in a row.
RunOf(t, u) == Max({w \in 1..t.log : HasSymbols(t, w) /\ t.run[w] <= u})

fill_x1(t) ==
  [u \in 0..Pow2[HUF_FAST_TABLE_LOG] - 1 |->
     LET w == RunOf(t, u)
         n == CodeLen(t, w)
     IN  [seq |-> <<SymbolOf(t, w, (u - t.run[w]) \div Pow2[HUF_FAST_TABLE_LOG - n])>>, nb |-> n, len |-> 1]]

Unwritten == [seq |-> <<-1, -1>>, nb |-> 0, len |-> 1]

(***************************************************************************)
(* Cell r of the run of first symbol base, of n bits: the run is filled    *)
(* with base alone, in whole writes of 8 cells, up to where the second     *)
(* symbols of min_weight start, and those are laid over it by weight.      *)
(***************************************************************************)
huf_fill_x2_level2(t, base, n, r) ==
  LET log == HUF_FAST_TABLE_LOG
      length == Pow2[log - n]
      min_weight == Max({1, n + t.log + 1 - log})
      First(w) == t.run[w] \div Pow2[n]
      Room(w) == Pow2[log - n - CodeLen(t, w)]
      Count(w) == t.start[w + 1] - t.start[w]
      over == {w \in min_weight..t.top : r >= First(w) /\ r < First(w) + Count(w) * Room(w)}
      skip == First(min_weight)
      alone == min_weight > 1 /\ (length <= 4 \/ r < 8 * ((skip + 7) \div 8))
      w == Max(over)
  IN  IF over # {}
      THEN [seq |-> <<base, SymbolOf(t, w, (r - First(w)) \div Room(w))>>, nb |-> n + CodeLen(t, w), len |-> 2]
      ELSE IF alone THEN [seq |-> <<base, 0>>, nb |-> n, len |-> 1] ELSE Unwritten

fill_x2(t) ==
  LET min_bits == CodeLen(t, t.top)
  IN  [u \in 0..Pow2[HUF_FAST_TABLE_LOG] - 1 |->
         LET w == RunOf(t, u)
             n == CodeLen(t, w)
             length == Pow2[HUF_FAST_TABLE_LOG - n]
             base == SymbolOf(t, w, (u - t.run[w]) \div length)
         IN  IF HUF_FAST_TABLE_LOG - n >= min_bits
             THEN huf_fill_x2_level2(t, base, n, (u - t.run[w]) % length)
             ELSE [seq |-> <<base, 0>>, nb |-> n, len |-> 1]]

TableOf(t, x2) == [is_x2 |-> x2, t |-> t, dt |-> IF x2 THEN fill_x2(t) ELSE fill_x1(t)]
HuffmanTable(stats, x2) == TableOf(Sorted(stats), x2)

NoHuffmanTable == [none |-> TRUE]

DecoderOf(stats, len, x2) ==
  IF ~stats.ok THEN Failed ELSE [ok |-> TRUE, len |-> len, table |-> HuffmanTable(stats, x2)]
DecoderFrom(r, x2) == IF ~r.ok THEN Failed ELSE DecoderOf(weight_stats(r.weights), r.len, x2)

huf_build_decoder(src, dst_size, four_streams) ==
  DecoderFrom(read_weights(src), four_streams /\ huf_select_x2(dst_size, Bytes(src)))

-----------------------------------------------------------------------------
(* One stream.  A state is [d, op, out]: reader, next output position and  *)
(* output; end is where the stream's output ends.                          *)

Put(out, at, bytes) ==
  IF Len(bytes) = 1 THEN [out EXCEPT ![at] = bytes[1]] ELSE [out EXCEPT ![at] = bytes[1], ![at + 1] = bytes[2]]

PutCell(st, cell) ==
  [d |-> skip_bits(st.d, cell.nb), op |-> st.op + cell.len, out |-> Put(st.out, st.op, cell.seq)]
DecodeCell(st, dt) == PutCell(st, dt[look_bits(st.d, HUF_FAST_TABLE_LOG)])

DecodeCells(st, dt, n) == Fold(LAMBDA x, i : DecodeCell(x, dt), st, [i \in 1..n |-> i])
Reloaded(st) == [st EXCEPT !.d = reload(@)]
IsUnfinished(st) == st.d.status = "Unfinished"

\* n cells a reload while room for them and bits are left.
RECURSIVE CellsWhileUnfinished(_, _, _, _, _), CellsAfterReload(_, _, _, _, _)
CellsWhileUnfinished(st, dt, n, room, end) == CellsAfterReload(Reloaded(st), dt, n, room, end)

CellsAfterReload(r, dt, n, room, end) ==
  IF IsUnfinished(r) /\ r.op + room <= end
  THEN CellsWhileUnfinished(DecodeCells(r, dt, n), dt, n, room, end) ELSE r

RECURSIVE CellsToEnd(_, _, _, _)
CellsToEnd(st, dt, room, end) ==
  IF st.op + room <= end THEN CellsToEnd(DecodeCell(st, dt), dt, room, end) ELSE st

huf_decode_stream_x1(st, dt, end) ==
  LET a == IF end - st.op > 3 THEN CellsWhileUnfinished(st, dt, 4, 4, end) ELSE Reloaded(st)
  IN  CellsToEnd(a, dt, 1, end)

\* Mutant of huf_decode_last_symbol_x2: it consumes its whole cell.
last_symbol_of_cell(st, t) ==
  LET cell == t.dt[look_bits(st.d, HUF_FAST_TABLE_LOG)]
  IN  [d |-> skip_bits(st.d, cell.nb), op |-> st.op + 1, out |-> Put(st.out, st.op, <<cell.seq[1]>>)]

\* The last symbol consumes its own length, not its cell's.
huf_decode_last_symbol_x2(st, t) ==
  LET symbol == t.dt[look_bits(st.d, HUF_FAST_TABLE_LOG)].seq[1]
  IN  [d |-> skip_bits(st.d, code_len(t.t, symbol)), op |-> st.op + 1, out |-> Put(st.out, st.op, <<symbol>>)]

LastSymbol(st, t, end) == IF st.op < end THEN huf_decode_last_symbol_x2(st, t) ELSE st
CellsByOne(st, t, end) ==
  IF end - st.op >= 2 THEN CellsToEnd(CellsWhileUnfinished(st, t.dt, 1, 2, end), t.dt, 2, end) ELSE st

huf_decode_stream_x2(st, t, end) ==
  LastSymbol(CellsByOne(IF end - st.op >= 8 THEN CellsWhileUnfinished(st, t.dt, 5, 10, end) ELSE Reloaded(st),
                        t, end), t, end)

DecodeStream(st, t, end) ==
  IF t.is_x2 THEN huf_decode_stream_x2(st, t, end) ELSE huf_decode_stream_x1(st, t.dt, end)

Blank(n) == Tabulate([i \in 0..n - 1 |-> 0])
Decoded(out) == [ok |-> TRUE, out |-> out]

\* huf_decompress_1x1 and huf_decompress_1x2.
DecodedIf(st) == IF ~is_finished(st.d) THEN Failed ELSE Decoded(st.out)
DecodeWhole(d, t, n) ==
  IF ~d.ok THEN Failed ELSE DecodedIf(DecodeStream([d |-> d, op |-> 0, out |-> Blank(n)], t, n))
huf_decompress_1x(src, t, n) == DecodeWhole(DStream(src), t, n)

-----------------------------------------------------------------------------
(* Four streams.                                                           *)

SplitAt(istart, size, segment, dst_size) ==
  IF istart[4] > size \/ 3 * segment > dst_size THEN Failed
  ELSE [ok |-> TRUE, istart |-> istart, iend |-> <<istart[2], istart[3], istart[4], size>>, segment |-> segment]

StartsAfter(l1, l2, l3) == <<6, 6 + l1, 6 + l1 + l2, 6 + l1 + l2 + l3>>

HufStreamsSplit(src, dst_size) ==
  LET len(i) == Value(SubSeq(src, 16 * i + 1, 16 * i + 16))
  IN  IF Bytes(src) < 10 THEN Failed
      ELSE SplitAt(StartsAfter(len(0), len(1), len(2)), Bytes(src), (dst_size + 3) \div 4, dst_size)

StreamOf(h, src, s) == SubSeq(src, 8 * h.istart[s] + 1, 8 * h.iend[s])
segment_end(h, s, dst_size) == Min({s * h.segment, dst_size})

(***************************************************************************)
(* The fast loops read all four streams through containers of 8 bytes of   *)
(* the whole section, from byte ip on, of which used bits are consumed.    *)
(* The lowest bit of a container is replaced by the sentinel that tells    *)
(* used; it is lost once 64 bits are consumed.                             *)
(***************************************************************************)
UseFast(h, dst_size) ==
  3 * h.segment < dst_size /\ \A s \in 1..4 : h.iend[s] - h.istart[s] >= 8

huf_fast_args_init(h, src) ==
  LET last(s) == ByteAt(src, h.iend[s] - 1)
  IN  IF \E s \in 1..4 : last(s) = 0 THEN Failed
      ELSE [ok |-> TRUE, ip |-> [s \in 1..4 |-> h.iend[s] - 8] \o <<>>,
            op |-> [s \in 1..4 |-> (s - 1) * h.segment] \o <<>>,
            used |-> [s \in 1..4 |-> 8 - highest_bit(last(s))] \o <<>>]

\* The 11 bits at the top of a container.
FastLook(src, ip, used) ==
  LET Bit(j) == IF j < 0 THEN 0 ELSE IF j = 0 THEN 1 ELSE src[8 * ip + j + 1]
  IN  Value([i \in 1..HUF_FAST_TABLE_LOG |-> Bit(64 - used - HUF_FAST_TABLE_LOG + i - 1)])

FastPut(a, s, cell) ==
  [a EXCEPT !.used[s] = @ + cell.nb, !.op[s] = @ + cell.len, !.out = Put(@, a.op[s], cell.seq)]
FastCell(a, src, dt, s) == FastPut(a, s, dt[FastLook(src, a.ip[s], a.used[s])])

\* No more than 64 zeros are counted.
FastReload(a, s) ==
  LET ctz == Min({a.used[s], 64}) IN [a EXCEPT !.ip[s] = @ - ctz \div 8, !.used[s] = ctz % 8]

FastStream(a, src, dt, s) == FastReload(Fold(LAMBDA x, i : FastCell(x, src, dt, s), a, <<1, 2, 3, 4, 5>>), s)
FastRound(a, src, dt) == Fold(LAMBDA x, s : FastStream(x, src, dt, s), a, <<1, 2, 3, 4>>)

RECURSIVE FastRounds(_, _, _, _)
FastRounds(a, src, dt, olimit) ==
  IF a.op[4] >= olimit THEN a ELSE FastRounds(FastRound(a, src, dt), src, dt, olimit)

\* huf_4x1_fast_loop and huf_4x2_fast_loop: rounds for which 7 bytes of input
\* and the output each needs are left, counted anew until there is none.
RECURSIVE huf_fast_loop(_, _, _, _)
huf_fast_loop(a, src, t, oend) ==
  LET out == IF t.is_x2 THEN Min({(oend[s] - a.op[s]) \div 10 : s \in 1..4})
             ELSE (oend[4] - a.op[4]) \div 5
      olimit == a.op[4] + 5 * Min({a.ip[1] \div 7, out})
  IN  IF a.op[4] = olimit \/ a.ip[2] < a.ip[1] \/ a.ip[3] < a.ip[2] \/ a.ip[4] < a.ip[3] THEN a
      ELSE huf_fast_loop(FastRounds(a, src, t.dt, olimit), src, t, oend)

\* The reader that goes on where a fast loop stopped.
huf_remaining_dstream(a, h, s, src) ==
  LET below == Max({0, h.istart[s] - a.ip[s]})
      used == Min({a.used[s], 64}) + 8 * below
  IN  IF a.ip[s] + 8 < h.istart[s] \/ used > 64 THEN Failed
      ELSE [ok |-> TRUE, src |-> StreamOf(h, src, s), status |-> "Unfinished",
            ptr |-> Max({0, a.ip[s] - h.istart[s]}), used |-> used]

FinishStream(d, op, end, out, t) ==
  IF op > end \/ ~d.ok THEN Failed ELSE DecodedIf(DecodeStream([d |-> d, op |-> op, out |-> out], t, end))

FinishStreams(fast, src, t, n, h) ==
  Fold(LAMBDA st, s : IF ~st.ok THEN st
                      ELSE FinishStream(huf_remaining_dstream(fast, h, s, src), fast.op[s], segment_end(h, s, n),
                                        st.out, t),
       Decoded(fast.out), <<1, 2, 3, 4>>)

DecodeFastFrom(args, src, t, n, h) ==
  IF ~args.ok THEN Failed
  ELSE FinishStreams(huf_fast_loop(args @@ [out |-> Blank(n)], src, t,
                                   <<h.segment, 2 * h.segment, 3 * h.segment, n>>), src, t, n, h)

DecodeFast(src, t, n, h) == DecodeFastFrom(huf_fast_args_init(h, src), src, t, n, h)

\* Four cells of every stream, then its fast reload.
CellsOfStream(x, s, r) == [ds |-> [x.ds EXCEPT ![s] = [d |-> reload_fast(r.d), op |-> r.op]], out |-> r.out]
PlainRound(x, t) ==
  Fold(LAMBDA y, s : CellsOfStream(y, s, DecodeCells([d |-> y.ds[s].d, op |-> y.ds[s].op, out |-> y.out], t.dt, 4)),
       x, <<1, 2, 3, 4>>)

\* Rounds go on while all four are unfinished and the last stream has room.
RECURSIVE PlainRounds(_, _, _, _), RoundsAfter(_, _, _, _)
PlainRounds(x, t, room, oend) ==
  IF x.ds[4].op + room > oend THEN x ELSE RoundsAfter(PlainRound(x, t), t, room, oend)

RoundsAfter(x, t, room, oend) ==
  IF \A s \in 1..4 : x.ds[s].d.status = "Unfinished" THEN PlainRounds(x, t, room, oend) ELSE x

\* Each stream goes on to its own end.
StreamEnd(h, s, n) == IF s < 4 THEN s * h.segment ELSE n
AllDecoded(st) == IF st.ok THEN st ELSE Failed
AndDecoded(ok, x) == [ok |-> ok /\ is_finished(x.d), out |-> x.out]

FinishPlain(r, t, n, h) ==
  IF \E s \in 1..3 : r.ds[s].op > s * h.segment THEN Failed
  ELSE AllDecoded(Fold(LAMBDA st, s :
                         AndDecoded(st.ok, DecodeStream([d |-> r.ds[s].d, op |-> r.ds[s].op, out |-> st.out], t,
                                                        StreamEnd(h, s, n))),
                       Decoded(r.out), <<1, 2, 3, 4>>))

DecodePlainFrom(x, t, n, h) ==
  IF \E s \in 1..4 : ~x.ds[s].d.ok THEN Failed
  ELSE FinishPlain(IF n - x.ds[4].op >= 8 THEN PlainRounds(x, t, IF t.is_x2 THEN 8 ELSE 4, n) ELSE x, t, n, h)

DecodePlain(src, t, n, h) ==
  DecodePlainFrom([ds |-> [s \in 1..4 |-> [d |-> DStream(StreamOf(h, src, s)), op |-> (s - 1) * h.segment]] \o <<>>,
                   out |-> Blank(n)], t, n, h)

\* huf_decompress_4x1 and huf_decompress_4x2.
DecodeSplit(src, t, n, h) ==
  IF ~h.ok THEN Failed ELSE IF UseFast(h, n) THEN DecodeFast(src, t, n, h) ELSE DecodePlain(src, t, n, h)
huf_decompress_4x(src, t, n) == DecodeSplit(src, t, n, HufStreamsSplit(src, n))

huf_decompress(src, four_streams, t, n) ==
  IF four_streams THEN huf_decompress_4x(src, t, n) ELSE huf_decompress_1x(src, t, n)
=============================================================================
