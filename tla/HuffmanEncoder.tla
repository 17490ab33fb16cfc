--------------------------- MODULE HuffmanEncoder ---------------------------
(***************************************************************************)
(* The Huffman encoder of src/src/huf.rs: length-limited codes for counted *)
(* symbols, their description, and the backward streams coded with them.   *)
(*                                                                         *)
(* Counts are functions from 0..max_symbol.  A table gives every symbol    *)
(* its code's length nb (0: no code) and value.                            *)
(***************************************************************************)
EXTENDS Fse

HUF_TABLELOG_MAX == 12
HUF_TABLELOG_DEFAULT == 11
MAX_FSE_TABLELOG_FOR_HUFF_HEADER == 6

hist_count(src) == Tabulate([s \in 0..Max(Range(src)) |-> Cardinality({i \in DOMAIN src : src[i] = s})])

-----------------------------------------------------------------------------
(* Sorting: buckets of one count each below the cutoff, of counts of one   *)
(* power of two from there on, the latter sorted by an unstable quicksort. *)

RANK_POSITION_LOG_BUCKETS_BEGIN == 158
RANK_POSITION_DISTINCT_COUNT_CUTOFF == RANK_POSITION_LOG_BUCKETS_BEGIN + 7

huf_get_index(count) ==
  IF count < RANK_POSITION_DISTINCT_COUNT_CUTOFF THEN count ELSE highest_bit(count) + RANK_POSITION_LOG_BUCKETS_BEGIN

Swapped(arr, i, j) == [arr EXCEPT ![i] = arr[j], ![j] = arr[i]]

\* Each element goes behind the earlier ones that count at least as much.
huf_insertion_sort(arr, low, high) ==
  LET Before(i, j) == arr[i].count > arr[j].count \/ (arr[i].count = arr[j].count /\ i < j)
      At(p) == CHOOSE i \in low..high : Cardinality({j \in low..high : Before(j, i)}) = p - low
  IN  [p \in DOMAIN arr |-> IF p \in low..high THEN arr[At(p)] ELSE arr[p]]

PivotPlaced(st, high) == [arr |-> Swapped(st.arr, st.i + 1, high), idx |-> st.i + 1]

huf_quick_sort_partition(arr, low, high) ==
  PivotPlaced(Fold(LAMBDA x, j : IF x.arr[j].count > arr[high].count
                                 THEN [i |-> x.i + 1, arr |-> Swapped(x.arr, x.i + 1, j)] ELSE x,
                   [i |-> low - 1, arr |-> arr], [k \in 1..high - low |-> low + k - 1]),
              high)

\* The shorter side by recursion, the longer one by the loop; the loop does
\* not go back to the insertion sort.
RECURSIVE huf_simple_quick_sort(_, _, _), QuickSortLoop(_, _, _), SortParts(_, _, _)
huf_simple_quick_sort(arr, low, high) ==
  IF high - low < 8 THEN (IF high > low THEN huf_insertion_sort(arr, low, high) ELSE arr)
  ELSE QuickSortLoop(arr, low, high)

QuickSortLoop(arr, low, high) ==
  IF low >= high THEN arr ELSE SortParts(huf_quick_sort_partition(arr, low, high), low, high)

SortParts(p, low, high) ==
  IF p.idx - low < high - p.idx
  THEN QuickSortLoop(huf_simple_quick_sort(p.arr, low, p.idx - 1), p.idx + 1, high)
  ELSE QuickSortLoop(huf_simple_quick_sort(p.arr, p.idx + 1, high), low, p.idx - 1)

\* The symbols by bucket, the highest first, in symbol order in a bucket.
Bucket(leaves, b) == SelectSeq(leaves, LAMBDA e : huf_get_index(e.count) = b)

\* The cutoff is of ranks, one more than their bucket: the last bucket of a
\* single count is sorted too, which may reorder its equals.
SortedBucketLate(seq, b) ==
  IF b > RANK_POSITION_DISTINCT_COUNT_CUTOFF THEN huf_simple_quick_sort(seq, 1, Len(seq)) ELSE seq
SortedBucket(seq, b) ==
  IF b + 1 >= RANK_POSITION_DISTINCT_COUNT_CUTOFF THEN huf_simple_quick_sort(seq, 1, Len(seq)) ELSE seq

huf_sort(counts) ==
  LET leaves == [i \in 1..MaxSymbol(counts) + 1 |-> [count |-> counts[i-1], byte |-> i - 1]]
      used == {huf_get_index(counts[s]) : s \in DOMAIN counts}
      buckets == SelectSeq([i \in 1..192 |-> 192 - i], LAMBDA b : b \in used)
  IN  Fold(LAMBDA sorted, b : sorted \o SortedBucket(Bucket(leaves, b), b), <<>>, buckets)

-----------------------------------------------------------------------------
(* The tree.  Leaves and inner nodes are numbered from 0, the leaves by    *)
(* falling count, the inner nodes as they are made; an inner node not yet  *)
(* made, and the barrier below leaf 0, count more than any sum.            *)

NotMade == Pow2[30]
Barrier == Pow2[30] + 1

TakeLowest(st, leaf, k) ==
  LET ls == IF st.low_s < 0 THEN Barrier ELSE leaf[st.low_s + 1].count
      ln == IF st.low_n < Len(st.count) THEN st.count[st.low_n + 1] ELSE NotMade
  IN  IF ls < ln THEN [st EXCEPT !.low_s = @ - 1, !.sum = @ + ls, !.leafParent[st.low_s] = k]
      ELSE [st EXCEPT !.low_n = @ + 1, !.sum = @ + ln, !.parent[st.low_n] = k]

NodeMade(t) == [t EXCEPT !.count = Append(@, t.sum), !.sum = 0]

\* The first node takes the two lowest leaves.
MakeNode(st, leaf, last, k) ==
  NodeMade(IF k = 0
           THEN [st EXCEPT !.low_s = @ - 2, !.sum = leaf[last+1].count + leaf[last].count,
                           !.leafParent[last] = 0, !.leafParent[last-1] = 0]
           ELSE TakeLowest(TakeLowest(st, leaf, k), leaf, k))

CodeLengths(made, last) ==
  LET depth[n \in 0..last - 1] == IF n = last - 1 THEN 0 ELSE depth[made.parent[n]] + 1
  IN  Tabulate([i \in 0..last |-> depth[made.leafParent[i]] + 1])

MakeTree(leaf, last) ==
  Fold(LAMBDA st, k : MakeNode(st, leaf, last, k),
       [low_s |-> last, low_n |-> 0, sum |-> 0, count |-> <<>>,
        leafParent |-> Tabulate([i \in 0..last |-> -1]), parent |-> Tabulate([i \in 0..last |-> -1])],
       [k \in 1..last |-> k - 1])

\* The lengths of the codes of leaves 0..non_null_rank.
huf_build_tree(leaf) ==
  LET last == Max({i \in DOMAIN leaf : leaf[i].count # 0}) - 1 IN CodeLengths(MakeTree(leaf, last), last)

-----------------------------------------------------------------------------
(* HUF_setMaxHeight.  rank_last[r] is the last leaf of length target - r.  *)

NO_SYMBOL == -1

RECURSIVE BitsToDecrease(_, _, _)
BitsToDecrease(k, rank_last, leaf) ==
  IF k <= 1 THEN k
  ELSE IF rank_last[k] = NO_SYMBOL THEN BitsToDecrease(k - 1, rank_last, leaf)
  ELSE IF rank_last[k-1] = NO_SYMBOL THEN k
  ELSE IF leaf[rank_last[k] + 1].count <= 2 * leaf[rank_last[k-1] + 1].count THEN k
  ELSE BitsToDecrease(k - 1, rank_last, leaf)

\* The first rank from low on that has a leaf.
CheapestRank(st, low) ==
  Min({HUF_TABLELOG_MAX + 1} \cup {r \in low..HUF_TABLELOG_MAX : st.rank_last[r] # NO_SYMBOL})

\* The last leaf of rank k goes to the rank below it.
Lengthened(st, target, k) ==
  LET idx == st.rank_last[k]
      filled == IF st.rank_last[k-1] = NO_SYMBOL THEN [st.rank_last EXCEPT ![k-1] = idx] ELSE st.rank_last
      empty == idx = 0 \/ st.nb[idx - 1] # target - k
  IN  [st EXCEPT !.cost = @ - Pow2[k-1], !.nb[idx] = @ + 1,
                 !.rank_last = [filled EXCEPT ![k] = IF empty THEN NO_SYMBOL ELSE idx - 1]]

\* Lengthen a cheap code until the cost is repaid.
RECURSIVE RepayCost(_, _, _)
RepayCost(st, leaf, target) ==
  IF st.cost <= 0 THEN st
  ELSE RepayCost(Lengthened(st, target,
                   CheapestRank(st, BitsToDecrease(highest_bit(st.cost) + 1, st.rank_last, leaf))),
                 leaf, target)

\* Mutant of RefundCost: what was repaid too much stays.
RefundNothing(st, target) == st

\* Shorten codes of the longest rank where too much was repaid.
RECURSIVE RefundCost(_, _)
RefundCost(st, target) ==
  LET n == Max({-1} \cup {i \in 0..st.n : st.nb[i] # target})
      first == IF st.rank_last[1] = NO_SYMBOL THEN n + 1 ELSE st.rank_last[1] + 1
  IN  IF st.cost >= 0 THEN st
      ELSE RefundCost([st EXCEPT !.cost = @ + 1, !.nb[first] = @ - 1, !.rank_last[1] = first,
                                 !.n = IF st.rank_last[1] = NO_SYMBOL THEN n ELSE @], target)

\* What cutting the codes to the target costs, in codes of that length.
CostOfCut(nb, target, largest) ==
  LET base == Pow2[largest - target]
  IN  MapThenSumSet(LAMBDA i : base - Pow2[largest - nb[i]], {i \in DOMAIN nb : nb[i] > target}) \div base

RankLast(cut, target, n) ==
  LET lastOf(r) == {i \in 0..n : cut[i] = target - r /\ \A j \in i+1..n : cut[j] > cut[i]}
  IN  Tabulate([r \in 0..HUF_TABLELOG_MAX + 1 |-> IF r = 0 THEN NO_SYMBOL ELSE Max({NO_SYMBOL} \cup lastOf(r))])

CutState(cost, cut, target, n) == [cost |-> cost, nb |-> cut, rank_last |-> RankLast(cut, target, n), n |-> n]

Limited(cost, cut, leaf, target) ==
  LET n == Max({-1} \cup {i \in DOMAIN cut : cut[i] # target})
  IN  [nb |-> RefundCost(RepayCost(CutState(cost, cut, target, n), leaf, target), target).nb, log |-> target]

huf_set_max_height(nb, leaf, target) ==
  LET largest == nb[MaxSymbol(nb)]
  IN  IF largest <= target THEN [nb |-> nb, log |-> largest]
      ELSE Limited(CostOfCut(nb, target, largest), Tabulate([i \in DOMAIN nb |-> Min({nb[i], target})]),
                   leaf, target)

\* Values are given in symbol order within a length, the longest first.
LengthOf(nb, leaf, s) ==
  LET i == CHOOSE i \in DOMAIN leaf : leaf[i].byte = s
  IN  IF i - 1 \in DOMAIN nb THEN nb[i-1] ELSE 0

CodesOf(length, max_symbol, log) ==
  LET PerRank(n) == Cardinality({s \in DOMAIN length : length[s] = n})
      first[n \in 1..log] == IF n = log THEN 0 ELSE (first[n+1] + PerRank(n+1)) \div 2
  IN  [log |-> log, max_symbol |-> max_symbol, nb |-> length,
       value |-> Tabulate([s \in 0..max_symbol |->
                   IF length[s] = 0 THEN 0
                   ELSE first[length[s]] + Cardinality({t \in 0..s - 1 : length[t] = length[s]})])]

huf_build_ctable_from_tree(limited, leaf, max_symbol) ==
  CodesOf(Tabulate([s \in 0..max_symbol |-> LengthOf(limited.nb, leaf, s)]), max_symbol, limited.log)

CTableFromLeaves(leaf, max_symbol, max_nb_bits) ==
  huf_build_ctable_from_tree(huf_set_max_height(huf_build_tree(leaf), leaf, max_nb_bits), leaf, max_symbol)

build_ctable_huf(counts, max_nb_bits) == CTableFromLeaves(huf_sort(counts), MaxSymbol(counts), max_nb_bits)

NbBitsOf(table, s) == IF s \in DOMAIN table.nb THEN table.nb[s] ELSE 0

estimate_compressed_size(table, counts) ==
  MapThenSumSet(LAMBDA s : NbBitsOf(table, s) * counts[s], DOMAIN counts) \div 8

validate_ctable(table, counts) ==
  /\ table.max_symbol >= MaxSymbol(counts)
  /\ \A s \in DOMAIN counts : counts[s] # 0 => table.nb[s] # 0

-----------------------------------------------------------------------------
(* The description of a table: the weights of all symbols but the last,    *)
(* FSE-coded where that is shorter than two to a byte.                     *)

\* bits <<>> where the weights do not compress.
NoBits == [ok |-> TRUE, fits |-> TRUE, bits |-> <<>>]

WeightsCoded(desc, stream) ==
  IF stream.bits = <<>> THEN NoBits
  ELSE [ok |-> TRUE, fits |-> desc.fits /\ stream.fits, bits |-> desc.bits \o stream.bits]

CodeWeights(weights, norm, log, desc) ==
  IF ~desc.ok THEN Failed ELSE WeightsCoded(desc, compress_using_ctable(weights, CTable(norm, log)))

DescribeWeights(weights, n, log) ==
  IF ~n.ok THEN Failed ELSE CodeWeights(weights, n.norm, log, write_ncount(n.norm, log))

NormalizeWeights(weights, counts) ==
  LET most == Max({counts[w] : w \in DOMAIN counts})
      log == optimal_table_log(MAX_FSE_TABLELOG_FOR_HUFF_HEADER, Len(weights), MaxSymbol(counts))
  IN  IF most = Len(weights) \/ most = 1 THEN NoBits
      ELSE DescribeWeights(weights, normalize_count(log, counts, Len(weights), FALSE), log)

compress_weights(weights) == IF Len(weights) <= 1 THEN NoBits ELSE NormalizeWeights(weights, hist_count(weights))

\* The first of two weights in the high half of their byte.
RawWeights(weights) ==
  LET max == Len(weights)
      Nibble(i) == IF i <= max THEN weights[i] ELSE 0
  IN  Fold(LAMBDA bits, k : bits \o Bits(Nibble(2 * k), 4) \o Bits(Nibble(2 * k - 1), 4), <<>>,
           [k \in 1..(max + 1) \div 2 |-> k])

WeightsWritten(weights, max, coded) ==
  IF ~coded.ok THEN Failed
  ELSE IF Bytes(coded.bits) > 1 /\ Bytes(coded.bits) < max \div 2
  THEN [ok |-> TRUE, fits |-> coded.fits, bits |-> Bits(Bytes(coded.bits), 8) \o coded.bits]
  ELSE IF max > 128 THEN Failed
  ELSE [ok |-> TRUE, fits |-> TRUE, bits |-> Bits(128 + (max - 1), 8) \o RawWeights(weights)]

WriteWeights(weights) == WeightsWritten(weights, Len(weights), compress_weights(weights))

write_ctable(table) ==
  WriteWeights([i \in 1..table.max_symbol |->
                  IF table.nb[i-1] = 0 THEN 0 ELSE table.log + 1 - table.nb[i-1]] \o <<>>)

-----------------------------------------------------------------------------
(* HufCStream: two 64-bit containers c[1], c[2] filled from the top, pos   *)
(* the bits of each that count.  A fast add also leaves the code's length  *)
(* in the container's low 8 bits, where no bit that counts may be.         *)

HufCStream(capacity) ==
  [c |-> <<Zeros(64), Zeros(64)>>, pos |-> <<0, 0>>, out |-> <<>>, capacity |-> capacity, fits |-> TRUE]

\* The container shifted down by nb, and the bits of two containers joined.
ShiftedDown(c, nb) == SubSeq(c, nb + 1, 64) \o Zeros(nb)
Joined(c, b) == [i \in DOMAIN c |-> IF c[i] + b[i] > 0 THEN 1 ELSE 0] \o <<>>

huf_add_bits(h, nb, value, idx, fast) ==
  LET shifted == SubSeq(h.c[idx], nb + 1, 64) \o Bits(value, nb)
      noisy == Joined(SubSeq(shifted, 1, 8), Bits(nb, 8)) \o SubSeq(shifted, 9, 64)
  IN  [h EXCEPT !.c[idx] = IF fast THEN noisy ELSE shifted, !.pos[idx] = @ + nb]

zero_index1(h) == [h EXCEPT !.c[2] = Zeros(64), !.pos[2] = 0]

merge_index1(h) ==
  [h EXCEPT !.c[1] = Joined(ShiftedDown(@, h.pos[2]), h.c[2]), !.pos[1] = @ + h.pos[2],
            !.fits = @ /\ h.pos[2] < 64]

\* A whole word is stored; its whole bytes of bits that count are kept.
huf_flush_bits(h) ==
  LET nb == h.pos[1]
      word == SubSeq(h.c[1], 65 - nb, 64)
  IN  [h EXCEPT !.out = @ \o SubSeq(word, 1, 8 * (nb \div 8)), !.pos[1] = nb % 8,
                !.fits = @ /\ nb \in 1..64 /\ Bytes(h.out) + 8 <= h.capacity]

HufClosed(f) == [fits |-> f.fits, bits |-> PadToByte(f.out \o SubSeq(f.c[1], 65 - f.pos[1], 64))]
huf_close(h) == HufClosed(huf_flush_bits(huf_add_bits(h, 1, 1, 1, FALSE)))

AddSymbol(h, table, s, idx, fast) == huf_add_bits(h, table.nb[s], table.value[s], idx, fast)

\* The symbols of a group from its last on.
encode_group(h, group, table, idx, last_fast) ==
  Fold(LAMBDA x, i : AddSymbol(x, table, group[i], idx, i # 1 \/ last_fast), h, Reverse([i \in DOMAIN group |-> i]))

\* Symbols per container and whether the last of them is added fast.
Unroll(log) ==
  CASE log = 11 -> [k |-> 5, last_fast |-> FALSE] [] log = 10 -> [k |-> 5, last_fast |-> TRUE]
    [] log = 9 -> [k |-> 6, last_fast |-> FALSE] [] log = 8 -> [k |-> 7, last_fast |-> FALSE]
    [] log = 7 -> [k |-> 8, last_fast |-> FALSE] [] OTHER -> [k |-> 9, last_fast |-> TRUE]

\* The symbols past the last whole group, a whole group before an odd one,
\* then pairs of groups, one to each container.
EncodeRest(h, ip, table, rem) ==
  IF rem = 0 THEN h
  ELSE huf_flush_bits(Fold(LAMBDA x, s : AddSymbol(x, table, s, 1, FALSE), h,
                           Reverse(SubSeq(ip, Len(ip) - rem + 1, Len(ip)))))

FlushedGroup(h, ip, table, end, K, last_fast) ==
  huf_flush_bits(encode_group(h, SubSeq(ip, end - K + 1, end), table, 1, last_fast))

EncodePair(h, ip, table, end, K, last_fast) ==
  huf_flush_bits(merge_index1(encode_group(zero_index1(FlushedGroup(h, ip, table, end, K, last_fast)),
                                           SubSeq(ip, end - 2 * K + 1, end - K), table, 2, last_fast)))

EncodePairs(h, ip, table, n, K, last_fast) ==
  Fold(LAMBDA x, end : EncodePair(x, ip, table, end, K, last_fast), h,
       [i \in 1..n \div (2 * K) |-> n - 2 * K * (i - 1)])

EncodeGroups(h, ip, table, n, K, last_fast) ==
  LET odd == n % (2 * K) # 0
  IN  EncodePairs(IF odd THEN FlushedGroup(h, ip, table, n, K, last_fast) ELSE h, ip, table,
                  IF odd THEN n - K ELSE n, K, last_fast)

compress_1x_loop(h, ip, table, K, last_fast) ==
  LET rem == Len(ip) % K
  IN  EncodeGroups(EncodeRest(h, ip, table, rem), ip, table, Len(ip) - rem, K, last_fast)

tight_compress_bound(n, log) == (n * log) \div 8 + 8

compress_1x_using_ctable(src, table) ==
  LET u == Unroll(table.log)
  IN  huf_close(compress_1x_loop(HufCStream(tight_compress_bound(Len(src), table.log)), src, table,
                                 u.k, u.last_fast))

\* A jump table and four streams; bits <<>> where the input is too small.
JumpAndStreams(stream) ==
  LET Size(i) == Bytes(stream[i].bits)
  IN  IF \E i \in 1..4 : Size(i) > 65535 THEN [fits |-> TRUE, bits |-> <<>>]
      ELSE [fits |-> \A i \in 1..4 : stream[i].fits,
            bits |-> Bits(Size(1), 16) \o Bits(Size(2), 16) \o Bits(Size(3), 16)
                     \o stream[1].bits \o stream[2].bits \o stream[3].bits \o stream[4].bits]

compress_4x_using_ctable(src, table) ==
  LET n == Len(src)
      segment == (n + 3) \div 4
      Part(i) == SubSeq(src, (i - 1) * segment + 1, IF i < 4 THEN i * segment ELSE n)
  IN  IF n < 12 THEN [fits |-> TRUE, bits |-> <<>>]
      ELSE JumpAndStreams([i \in 1..4 |-> compress_1x_using_ctable(Part(i), table)] \o <<>>)
=============================================================================
