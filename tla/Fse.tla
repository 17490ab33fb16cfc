-------------------------------- MODULE Fse --------------------------------
(***************************************************************************)
(* The finite state entropy coder: normalized counts, their header, the    *)
(* encoder's tables (src/src/fse.rs) and the decoder's (src/src/decode.rs, *)
(* FSETable), and the two-state streams that carry Huffman weights.        *)
(*                                                                         *)
(* Counts, normalized or not, are functions from 0..max.                   *)
(***************************************************************************)
EXTENDS BitStreams

FSE_MIN_TABLELOG == 5
FSE_MAX_TABLELOG == 12

Abs(n) == IF n < 0 THEN -n ELSE n
SumOf(f, S) == MapThenSumSet(LAMBDA s : f[s], S)
Cells(norm) == MapThenSumSet(LAMBDA s : Abs(norm[s]), DOMAIN norm)
MaxSymbol(f) == Max(DOMAIN f)
Clamp(v, lo, hi) == Max({lo, Min({v, hi})})

-----------------------------------------------------------------------------
(* Normalization.                                                          *)

min_table_log(total, max) == Min({highest_bit(total) + 1, highest_bit(max) + 2})

\* highest_bit(total - 1) - minus wraps below zero and then lowers nothing.
optimal_table_log_internal(max_log, total, max, minus) ==
  LET bits == highest_bit(total - 1)
      most == IF bits >= minus THEN Min({bits - minus, max_log}) ELSE max_log
  IN  Clamp(Max({most, min_table_log(total, max)}), FSE_MIN_TABLELOG, FSE_MAX_TABLELOG)

optimal_table_log(max_log, total, max) == optimal_table_log_internal(max_log, total, max, 2)

RTB_TABLE == [p \in 0..7 |-> <<0, 473195, 504333, 520860, 550000, 700000, 750000, 830000>>[p + 1]]

(***************************************************************************)
(* count * floor(2^62 / total) in units of 2^(62 - log), rounded by        *)
(* RTB_TABLE below 8.  The truncated step makes an exact quotient fall     *)
(* just short unless total is a power of two: its rest is then a whole     *)
(* unit.  Exact for totals below 2^10, where a rest differs from a bound   *)
(* by more than the truncation.                                            *)
(***************************************************************************)
Proba(count, total, log) ==
  LET scaled == count * Pow2[log]
      short == scaled % total = 0 /\ Pow2[highest_bit(total)] # total
      proba == scaled \div total - IF short THEN 1 ELSE 0
      rest == scaled - proba * total
  IN  IF proba < 8 /\ rest * Pow2[20] > RTB_TABLE[proba] * total THEN proba + 1 ELSE proba

Failed == [ok |-> FALSE]
Normalized(norm, log) == [ok |-> TRUE, log |-> log, norm |-> norm]

NotYet == -2

\* The secondary method: poor symbols get one cell, the others a share of
\* the rest of the table by the running total of their counts.
FirstCells(counts, total, log, low) ==
  LET threshold == total \div Pow2[log]
      one == (3 * total) \div Pow2[log + 1]
  IN  Tabulate([s \in DOMAIN counts |-> CASE counts[s] = 0 -> 0
                                          [] counts[s] \in 1..threshold -> low
                                          [] counts[s] \in threshold+1 .. one -> 1
                                          [] OTHER -> NotYet])

GivenCells(norm) == {s \in DOMAIN norm : norm[s] \notin {0, NotYet}}
LeftCounts(counts, total, norm) == total - SumOf(counts, GivenCells(norm))
RoomFor(norm, log) == Pow2[log] - Cardinality(GivenCells(norm))

\* Where the rest is rich in room, symbols up to one and a half of a cell's
\* share get one cell as well.
SecondCells(counts, first, left, room, one) ==
  IF left \div room > one
  THEN Tabulate([s \in DOMAIN first |->
                   IF first[s] = NotYet /\ counts[s] <= (3 * left) \div (2 * room) THEN 1 ELSE first[s]])
  ELSE first

\* The remaining cells, dealt one by one to the positive symbols in turn.
DealtCells(norm, room, positive) ==
  [s \in DOMAIN norm |->
     norm[s] + IF s \notin positive THEN 0
               ELSE room \div Cardinality(positive)
                    + IF Cardinality({t \in positive : t < s}) < room % Cardinality(positive) THEN 1 ELSE 0]

\* The running share of c counts, its rounding bias a little below one half.
RunningShare(c, left, room) == (left + 2 * c * room + c - 1) \div (2 * left)

SharedCells(counts, norm, left, room) ==
  LET Before(s) == SumOf(counts, {t \in DOMAIN norm : norm[t] = NotYet /\ t < s})
  IN  Tabulate([s \in DOMAIN norm |->
        IF norm[s] = NotYet
        THEN RunningShare(Before(s) + counts[s], left, room) - RunningShare(Before(s), left, room)
        ELSE norm[s]])

Weighted(norm, weight, log) ==
  IF \E s \in DOMAIN norm : norm[s] = NotYet /\ weight[s] < 1 THEN Failed ELSE Normalized(weight, log)

ShareRest(counts, norm, left, room, log) ==
  LET most == Min({s \in DOMAIN norm : \A t \in DOMAIN norm : counts[t] <= counts[s]})
  IN  IF GivenCells(norm) = DOMAIN norm THEN Normalized([norm EXCEPT ![most] = @ + room], log)
      ELSE IF left = 0 THEN Normalized(DealtCells(norm, room, {s \in DOMAIN norm : norm[s] > 0}), log)
      ELSE Weighted(norm, SharedCells(counts, norm, left, room), log)

ShareAfter(counts, total, norm, log) ==
  ShareRest(counts, norm, LeftCounts(counts, total, norm), RoomFor(norm, log), log)

GiveRest(counts, total, log, first) ==
  IF RoomFor(first, log) = 0 THEN Normalized(first, log)
  ELSE ShareAfter(counts, total,
         SecondCells(counts, first, LeftCounts(counts, total, first), RoomFor(first, log),
                     (3 * total) \div Pow2[log + 1]), log)

normalize_m2(counts, total, log, low) == GiveRest(counts, total, log, FirstCells(counts, total, log, low))

\* The largest probability takes what is left over or missing.  A log of 0
\* says that one symbol carries every count.
ScaledCells(counts, total, log, low) ==
  Tabulate([s \in DOMAIN counts |-> CASE counts[s] = 0 -> 0
                                      [] counts[s] \in 1 .. total \div Pow2[log] -> low
                                      [] OTHER -> Proba(counts[s], total, log)])

\* The first symbol of the largest probability, 0 where none is scaled.
LargestScaled(norm, scaled) ==
  IF scaled = {} THEN 0 ELSE Min({s \in scaled : \A t \in scaled : norm[t] <= norm[s]})

Levelled(counts, total, log, low, norm, left, largest) ==
  IF -left >= norm[largest] \div 2 THEN normalize_m2(counts, total, log, low)
  ELSE Normalized([norm EXCEPT ![largest] = @ + left], log)

Level(counts, total, log, low, norm) ==
  Levelled(counts, total, log, low, norm, Pow2[log] - Cells(norm),
           LargestScaled(norm, {s \in DOMAIN counts : counts[s] > total \div Pow2[log]}))

normalize_count(log, counts, total, use_low_prob_count) ==
  LET low == IF use_low_prob_count THEN -1 ELSE 1
  IN  IF log \notin FSE_MIN_TABLELOG..FSE_MAX_TABLELOG \/ log < min_table_log(total, MaxSymbol(counts))
      THEN Failed
      ELSE IF \E s \in DOMAIN counts : counts[s] = total THEN Normalized(counts, 0)
      ELSE Level(counts, total, log, low, ScaledCells(counts, total, log, low))

-----------------------------------------------------------------------------
(* The header of normalized counts.  held is the number of bits of the     *)
(* writer's 32-bit accumulator.                                            *)

\* A run of zero counts after a zero: 24 at a time, 3 at a time, the rest.
ZeroRun(n) == Ones(16 * (n \div 24)) \o Ones(2 * ((n % 24) \div 3)) \o Bits((n % 24) % 3, 2)

RECURSIVE WriteCounts(_, _)
WriteCounts(norm, st) ==
  LET max == MaxSymbol(norm)
      next == IF st.prev0 THEN Min({max + 1} \cup {s \in st.symbol..max : norm[s] # 0}) ELSE st.symbol
      run == IF st.prev0 THEN ZeroRun(next - st.symbol) ELSE <<>>
      \* words are written while the run is, and after it
      held1 == st.held + Len(run) - 16 * ((next - st.symbol) \div 24)
      held2 == IF held1 > 16 THEN held1 - 16 ELSE held1
      threshold == Pow2[st.nb_bits - 1]
      spread == (2 * threshold - 1) - st.remaining
      count == norm[next] + 1
      code == IF count >= threshold THEN count + spread ELSE count
      width == IF code < spread THEN st.nb_bits - 1 ELSE st.nb_bits
      remaining == st.remaining - Abs(norm[next])
      held3 == held2 + width
  IN  IF st.symbol > max \/ st.remaining <= 1 \/ ~st.ok THEN st
      ELSE IF next > max THEN [st EXCEPT !.symbol = next]
      ELSE IF remaining < 1 THEN [st EXCEPT !.ok = FALSE]
      ELSE WriteCounts(norm,
             [symbol |-> next + 1, remaining |-> remaining, prev0 |-> code = 1,
              nb_bits |-> Min({st.nb_bits, highest_bit(remaining) + 1}),
              bits |-> st.bits \o run \o Bits(code, width),
              held |-> IF held3 > 16 THEN held3 - 16 ELSE held3,
              fits |-> st.fits /\ held1 <= 32 /\ held3 <= 32, ok |-> TRUE])

CountsWritten(w) == [ok |-> w.ok /\ w.remaining = 1, fits |-> w.fits, bits |-> PadToByte(w.bits)]

write_ncount(norm, log) ==
  CountsWritten(WriteCounts(norm, [symbol |-> 0, remaining |-> Pow2[log] + 1, prev0 |-> FALSE,
                                   nb_bits |-> log + 1, bits |-> Bits(log - FSE_MIN_TABLELOG, 4),
                                   held |-> 4, fits |-> TRUE, ok |-> TRUE]))

(***************************************************************************)
(* The reader works on a 32-bit window that starts at byte ip, of which    *)
(* bc bits are consumed, and cannot move past the last four bytes.         *)
(***************************************************************************)
Window(src, ip, bc) == SubSeq(src, 8 * ip + 1 + bc, 8 * ip + 32)
LowBits(window, n) == Value(SubSeq(window, 1, Min({n, Len(window)})))
Repeats(window) ==
  Min({31} \cup {i - 1 : i \in {i \in DOMAIN window : window[i] = 0}} \cup {Len(window)}) \div 2

Advance(iend, st) ==
  IF st.ip + 7 <= iend \/ st.ip + st.bc \div 8 + 4 <= iend
  THEN [st EXCEPT !.ip = @ + st.bc \div 8, !.bc = @ % 8]
  ELSE [st EXCEPT !.bc = (@ - 8 * (iend - 4 - st.ip)) % 32, !.ip = iend - 4]

\* Twelve repeats at a time, 36 zero counts.
RECURSIVE SkipRepeats(_, _, _)
SkipRepeats(src, iend, st) ==
  IF Repeats(Window(src, st.ip, st.bc)) < 12 THEN st
  ELSE SkipRepeats(src, iend,
         IF st.ip + 7 <= iend THEN [st EXCEPT !.charnum = @ + 36, !.ip = @ + 3]
         ELSE [st EXCEPT !.charnum = @ + 36, !.bc = (@ - 8 * (iend - 7 - st.ip)) % 32, !.ip = iend - 4])

ReadZeros(src, iend, st) ==
  LET s == SkipRepeats(src, iend, st)
      window == Window(src, s.ip, s.bc)
      n == Repeats(window)
  IN  [s EXCEPT !.charnum = @ + 3 * n + LowBits(SubSeq(window, 2 * n + 1, Len(window)), 2),
                !.bc = @ + 2 * n + 2]

\* Mutant of Spent: a count of -1 gives a cell back.
SpentSigned(count) == count

\* The cells a count takes, one for a count of -1.
Spent(count) == Abs(count)

\* The next count's code plus one and its bits: small codes take one less.
CountCode(window, st) ==
  LET spread == (2 * st.threshold - 1) - st.remaining
      small == LowBits(window, st.nb_bits - 1)
      large == LowBits(window, st.nb_bits)
  IN  IF small < spread THEN [code |-> small, bits |-> st.nb_bits - 1]
      ELSE [code |-> IF large >= st.threshold THEN large - spread ELSE large, bits |-> st.nb_bits]

TakeCount(st, read) ==
  [st EXCEPT !.bc = @ + read.bits, !.remaining = @ - Spent(read.code - 1), !.charnum = @ + 1,
             !.prev0 = read.code = 1, !.counts[st.charnum] = read.code - 1]

LowerThreshold(st) ==
  IF st.remaining < st.threshold
  THEN [st EXCEPT !.nb_bits = highest_bit(st.remaining) + 1, !.threshold = Pow2[highest_bit(st.remaining)]]
  ELSE st

NextCount(src, at) == TakeCount(at, CountCode(Window(src, at.ip, at.bc), at))

RECURSIVE ReadCounts(_, _, _, _), CountsAfterZeros(_, _, _, _), CountsAfter(_, _, _, _)
ReadCounts(src, iend, max_sv1, st) ==
  IF st.prev0 THEN CountsAfterZeros(src, iend, max_sv1, ReadZeros(src, iend, st))
  ELSE CountsAfter(src, iend, max_sv1, NextCount(src, st))

CountsAfterZeros(src, iend, max_sv1, z) ==
  IF z.charnum >= max_sv1 THEN z ELSE CountsAfter(src, iend, max_sv1, NextCount(src, Advance(iend, z)))

CountsAfter(src, iend, max_sv1, c) ==
  IF c.remaining <= 1 \/ c.charnum >= max_sv1 THEN c
  ELSE ReadCounts(src, iend, max_sv1, Advance(iend, LowerThreshold(c)))

\* The counts read, if they tile the table.
CountsRead(r, log, max_symbol) ==
  IF r.remaining # 1 \/ r.charnum > max_symbol + 1 \/ r.bc > 32 THEN Failed
  ELSE [ok |-> TRUE, log |-> log, norm |-> [s \in 0..r.charnum - 1 |-> r.counts[s]],
        len |-> r.ip + (r.bc + 7) \div 8]

read_ncount_body(src, max_symbol, max_log) ==
  LET log == LowBits(src, 4) + FSE_MIN_TABLELOG
  IN  IF log > max_log THEN Failed
      ELSE CountsRead(ReadCounts(src, Bytes(src), max_symbol + 1,
                        [ip |-> 0, bc |-> 4, remaining |-> Pow2[log] + 1, threshold |-> Pow2[log],
                         nb_bits |-> log + 1, charnum |-> 0, prev0 |-> FALSE,
                         counts |-> [s \in 0..max_symbol |-> 0]]),
                      log, max_symbol)

Within(r, n) == IF r.ok /\ r.len > n THEN Failed ELSE r

\* A source below 8 bytes is read with zeros after it.
read_probabilities(src, max_symbol, max_log) ==
  Within(read_ncount_body(src \o Zeros(8 * Max({0, 8 - Bytes(src)})), max_symbol, max_log), Bytes(src))

-----------------------------------------------------------------------------
(* Tables.  Both sides lay a symbol of count -1 at the top of the table    *)
(* and the others along the positions a fixed step visits.                 *)

HighThreshold(norm, size) == size - 1 - Cardinality({s \in DOMAIN norm : norm[s] = -1})
StepOf(size) == size \div 2 + size \div 8 + 3

\* The symbols of count -1, each below the ones before it.
LowCell(norm, size, u) ==
  CHOOSE s \in DOMAIN norm :
    norm[s] = -1 /\ u = size - 1 - Cardinality({t \in DOMAIN norm : t < s /\ norm[t] = -1})

Visited(norm, size) ==
  SelectSeq([k \in 1..size |-> ((k - 1) * StepOf(size)) % size],
            LAMBDA p : p <= HighThreshold(norm, size))

InOrder(norm) ==
  Fold(LAMBDA seq, s : seq \o [i \in 1..Max({0, norm[s]}) |-> s], <<>>,
           [i \in 1..MaxSymbol(norm) + 1 |-> i - 1])

LowCells(norm, size) ==
  Tabulate([u \in 0..size - 1 |-> IF u > HighThreshold(norm, size) THEN LowCell(norm, size, u) ELSE 0])

LayAt(at, symbols, base) ==
  Fold(LAMBDA table, k : [table EXCEPT ![at[k]] = symbols[k]], base, [k \in DOMAIN at |-> k])

SpreadInOrder(norm, size) == LayAt(Visited(norm, size), InOrder(norm), LowCells(norm, size))

\* Cells of the symbols before each.
Starts(norm) ==
  Tabulate([s \in DOMAIN norm |-> LET upTo[t \in 0..s] == IF t = 0 THEN 0 ELSE upTo[t-1] + Abs(norm[t-1])
                                  IN  upTo[s]])

\* The cells of each symbol, in order, and for a cell how many of its
\* symbol's are before it.
CellsOf(table, size) ==
  LET all == [i \in 1..size |-> i - 1]
  IN  Tabulate([s \in Range(table) |-> SelectSeq(all, LAMBDA u : table[u] = s)])

Ranks(table, size) ==
  Fold(LAMBDA r, u : [seen |-> [r.seen EXCEPT ![table[u]] = @ + 1], rank |-> Append(r.rank, r.seen[table[u]])],
       [seen |-> Tabulate([s \in Range(table) |-> 0]), rank |-> <<>>], [u \in 1..size |-> u - 1]).rank

-----------------------------------------------------------------------------
(* The encoder's table: the states of every symbol, in order, and for a    *)
(* symbol where its states start and how many bits a state sheds.          *)

SymbolTT(prob, total, log) ==
  CASE prob = 0 -> [find |-> 0, nb |-> (log + 1) * Pow2[16] - Pow2[log]]
    [] prob = 1 -> [find |-> total - 1, nb |-> log * Pow2[16] - Pow2[log]]
    [] OTHER -> LET out == log - highest_bit(prob - 1)
                IN  [find |-> total - prob, nb |-> out * Pow2[16] - prob * Pow2[out]]

\* The cells of the first symbol, then of the next, and so on.
CellsInOrder(norm, cells) ==
  Fold(LAMBDA seq, s : IF norm[s] = 0 THEN seq ELSE seq \o cells[s], <<>>,
       [i \in 1..MaxSymbol(norm) + 1 |-> i - 1])

CTableOf(norm, log, size, ordered, start) ==
  [log |-> log, max_symbol |-> MaxSymbol(norm),
   state |-> Tabulate([i \in 0..size - 1 |-> size + ordered[i + 1]]),
   tt |-> Tabulate([s \in DOMAIN norm |-> SymbolTT(Abs(norm[s]), start[s], log)])]

CTable(norm, log) ==
  LET size == Pow2[log]
  IN  CTableOf(norm, log, size, CellsInOrder(norm, CellsOf(SpreadInOrder(norm, size), size)), Starts(norm))

CTableRle(symbol) ==
  [log |-> 0, max_symbol |-> symbol, state |-> [i \in {0} |-> 0],
   tt |-> [s \in 0..symbol |-> [find |-> 0, nb |-> 0]]]

NextState(ct, shifted, find) == ct.state[shifted + find]

init_state(ct, s) ==
  LET nb == (ct.tt[s].nb + Pow2[15]) \div Pow2[16]
      base == nb * Pow2[16] - ct.tt[s].nb
  IN  NextState(ct, base \div Pow2[nb], ct.tt[s].find)

\* The bits a state sheds for a symbol, and the state after it.
NbBits(ct, state, s) == (state + ct.tt[s].nb) \div Pow2[16]
StateAfter(ct, state, s) == NextState(ct, state \div Pow2[NbBits(ct, state, s)], ct.tt[s].find)

\* Cost of a symbol in 1/256 bits, and of counts; -1 where the table lacks
\* a code for one of them.
fse_bit_cost(tt, log) ==
  LET min == tt.nb \div Pow2[16]
      delta == (min + 1) * Pow2[16] - (tt.nb + Pow2[log])
  IN  (min + 1) * 256 - (delta * 256) \div Pow2[log]

bit_cost(ct, counts) ==
  LET counted == {s \in DOMAIN counts : counts[s] > 0}
      Cost(s) == fse_bit_cost(ct.tt[s], ct.log)
  IN  IF ct.max_symbol < MaxSymbol(counts) \/ \E s \in counted : Cost(s) >= (ct.log + 1) * 256 THEN -1
      ELSE MapThenSumSet(LAMBDA s : counts[s] * Cost(s), counted) \div 256

-----------------------------------------------------------------------------
(* The decoder's table.                                                    *)

\* Without low symbols the symbols are laid in order in 8-byte writes, each
\* overwriting what the one before it wrote too much.
Laid(norm, size) ==
  LET pos == Starts(norm)
      Blocks8(s) == Max({1, (norm[s] + 7) \div 8})
  IN  Tabulate([p \in 0..size - 1 |-> Max({s \in DOMAIN norm : p \in pos[s] .. pos[s] + 8 * Blocks8(s) - 1})])

SpreadLaid(laid, size) ==
  Fold(LAMBDA table, k : [table EXCEPT ![(k * StepOf(size)) % size] = laid[k]], laid, [k \in 1..size |-> k - 1])

DSymbols(norm, size) ==
  IF \E s \in DOMAIN norm : norm[s] = -1 THEN SpreadInOrder(norm, size) ELSE SpreadLaid(Laid(norm, size), size)

fse_cell_state(next, log) ==
  LET nb == log - highest_bit(next)
  IN  [nb |-> nb, next |-> next * Pow2[nb] - Pow2[log]]

\* Cells of [symbol, nb, next], for states 0..2^log - 1.
DCells(norm, log, symbol, rank) ==
  Tabulate([u \in DOMAIN symbol |->
              fse_cell_state(Abs(norm[symbol[u]]) + rank[u + 1], log) @@ [symbol |-> symbol[u]]])

DTableOf(norm, log, symbol) ==
  [log |-> log, norm |-> norm, cell |-> DCells(norm, log, symbol, Ranks(symbol, Pow2[log]))]

build_decoding_table(norm, log) == DTableOf(norm, log, DSymbols(norm, Pow2[log]))

DTableRle(symbol) ==
  [log |-> 0, norm |-> <<>>, cell |-> [u \in {0} |-> [symbol |-> symbol, nb |-> 0, next |-> 0]]]

\* A described table needs two symbols.
DescribedTable(r) ==
  IF ~r.ok THEN Failed
  ELSE IF Cardinality({s \in DOMAIN r.norm : r.norm[s] # 0}) < 2 THEN Failed
  ELSE [ok |-> TRUE, len |-> r.len, table |-> build_decoding_table(r.norm, r.log)]

build_decoder(src, max_symbol, max_log) == DescribedTable(read_probabilities(src, max_symbol, max_log))

\* Counts that no header gave are checked to tile the table.
build_from_probabilities(log, norm, max_symbol) ==
  IF log \notin FSE_MIN_TABLELOG..9 \/ MaxSymbol(norm) > max_symbol
     \/ (\E s \in DOMAIN norm : norm[s] < -1) \/ Cells(norm) # Pow2[log]
  THEN Failed ELSE [ok |-> TRUE, table |-> build_decoding_table(norm, log)]

-----------------------------------------------------------------------------
(* Streams of two interleaved states.                                      *)

EncodeState(w, ct, state, s) ==
  [w |-> add_bits(w, state, NbBits(ct, state, s)), state |-> StateAfter(ct, state, s)]

\* Both states end the stream, the second one first.
FlushState(w, v, log) == flush_bits(add_bits(w, v, log))
CloseStates(st, ct) == close(FlushState(FlushState(st.w, st.state[2], ct.log), st.state[1], ct.log))

\* The symbols of src are coded from its last on, the states in turn; the
\* writer is flushed after an odd symbol, a pair or four of them.
compress_using_ctable(src, ct) ==
  LET n == Len(src)
      Sym(k) == src[n + 1 - k]                     \* the k-th one coded
      \* 1 or 2: the first symbol goes to state 1 of an odd number
      Which(k) == IF (n - k) % 2 = 0 THEN 1 ELSE 2
      Flushed(k) == (n - k) % 4 = 0 \/ (n % 2 = 1 /\ k = 3)
      Step(st, k) ==
        LET i == Which(k)
            e == EncodeState(st.w, ct, st.state[i], Sym(k))
        IN  [w |-> IF Flushed(k) THEN flush_bits(e.w) ELSE e.w, state |-> [st.state EXCEPT ![i] = e.state]]
      start == [w |-> BitCStream(n + n \div 128 + 12),
                state |-> [i \in 1..2 |-> init_state(ct, Sym(IF Which(1) = i THEN 1 ELSE 2))]]
  IN  IF n <= 2 THEN [fits |-> TRUE, bits |-> <<>>]
      ELSE CloseStates(Fold(Step, start, [k \in 1..n - 2 |-> k + 2]), ct)

DecodeState(dt, st, i) ==
  LET cell == dt.cell[st.state[i]]
  IN  [d |-> skip_bits(st.d, cell.nb), out |-> Append(st.out, cell.symbol),
       state |-> [st.state EXCEPT ![i] = cell.next + look_bits(st.d, cell.nb)]]

\* Four symbols a reload while bits are left, then one at a time until the
\* stream overflows; the other state then holds the last symbol.
RECURSIVE DecodeFours(_, _, _)
DecodeFours(dt, st, omax) ==
  LET r == [st EXCEPT !.d = reload(@)]
      D(x, i) == DecodeState(dt, x, i)
  IN  IF r.d.status # "Unfinished" \/ Len(r.out) >= omax - 3 THEN r
      ELSE DecodeFours(dt, D(D(D(D(r, 1), 2), 1), 2), omax)

RECURSIVE DecodeTail(_, _, _, _)
DecodeTail(dt, st, i, omax) ==
  LET a == DecodeState(dt, st, i)
      r == [a EXCEPT !.d = reload(@)]
  IN  IF Len(st.out) > omax - 2 THEN Failed
      ELSE IF r.d.status = "Overflow" THEN [ok |-> TRUE, out |-> DecodeState(dt, r, 3 - i).out]
      ELSE DecodeTail(dt, r, 3 - i, omax)

DecodeWeights(dt, c, a, b, omax) ==
  IF c.status = "Overflow" THEN Failed
  ELSE DecodeTail(dt, DecodeFours(dt, [d |-> c, state |-> <<a, b>>, out |-> <<>>], omax), 1, omax)

\* d is the reader before the first state, e before the second.
StartWeights(dt, d, e, omax) ==
  DecodeWeights(dt, reload(reload(skip_bits(e, dt.log))), look_bits(d, dt.log), look_bits(e, dt.log), omax)

WeightsFrom(dt, d, omax) ==
  IF ~d.ok THEN Failed ELSE StartWeights(dt, d, reload(skip_bits(d, dt.log)), omax)

fse_decompress_weights(dt, src, omax) == WeightsFrom(dt, DStream(src), omax)
=============================================================================
