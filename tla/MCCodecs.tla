------------------------------ MODULE MCCodecs ------------------------------
(***************************************************************************)
(* The decoder's and the encoder's pure algorithms, each run on every case *)
(* of a bounded set and compared with its definition in the format.        *)
(***************************************************************************)
EXTENDS SeqExec, SequencesSection, LiteralsSection

VARIABLES case,      \* the algorithm and its input
          result     \* what the code computes from it, Pending before

vars == <<case, result>>
Pending == [pending |-> TRUE]

(***************************************************************************)
(* Sequence execution: a block of one or two sequences at output position  *)
(* op, in a first segment without or with a dictionary, or in a segment of *)
(* the ring, whose earlier output lies as close ahead as the ring allows.  *)
(***************************************************************************)
LitStart == -400
DictStart == -800

Layout(kind, len, op, window) ==
  [kind |-> kind, op |-> op, window |-> window,
   ext |-> CASE kind = "none" -> [end |-> 0, len |-> 0, dict |-> FALSE]
             [] kind = "dict" -> [end |-> DictStart + len, len |-> len, dict |-> TRUE]
             [] kind = "ring" -> [end |-> window + 33, len |-> len, dict |-> FALSE]]

Layouts == {Layout("none", 0, 0, 200), Layout("none", 0, 30, 33), Layout("none", 0, 170, 200),
            Layout("dict", 60, 0, 40), Layout("dict", 60, 20, 30), Layout("dict", 60, 36, 36),
            Layout("ring", 34, 0, 34), Layout("ring", 60, 20, 64), Layout("ring", 100, 35, 100)}

Offsets == (0..36) \cup {48, 58, 63, 64, 70, 90, 129, 144, 161}
MatchLens == {3, 8, 9, 17, 33, 50, 81}
Sequence(ll, ml, offset) == [ll |-> ll, ml |-> ml, offset |-> offset]

Blocks == {<<Sequence(ll, ml, o)>> : ll \in {0, 17}, ml \in MatchLens, o \in Offsets}
          \cup {<<Sequence(4, 5, 2), Sequence(ll, ml, o)>> :
                  ll \in {1, 34}, ml \in {4, 49}, o \in {1, 3, 7, 11, 16, 31, 40}}

ExecCases == [alg : {"exec"}, w : Copies, at : Layouts, seqs : Blocks]

Literals == 40
BlockMaximum == 120

Segment(at) == 0 .. at.op + MAX_BLOCK_SIZE + WILDCOPY_OVERLENGTH - 1
ExtRange(at) == at.ext.end - at.ext.len .. at.ext.end - 1
LitRange == LitStart .. LitStart + Literals + WILDCOPY_OVERLENGTH - 1

\* Every byte of memory before the block is one of a kind.
Mem(at) == [a \in Segment(at) \cup ExtRange(at) \cup LitRange |-> a]

Hist(at) == [i \in 1..at.ext.len |-> at.ext.end - at.ext.len + i - 1]
            \o [i \in 1..at.op |-> i - 1]
LitBytes == [i \in 1..Literals |-> LitStart + i - 1]

Execute ==
  /\ case.alg = "exec" /\ result = Pending
  /\ \E EXT \in IF case.at.kind = "none" THEN BOOLEAN ELSE {TRUE} :
       result' = execute_with(case.w, EXT, case.seqs, [start |-> LitStart, len |-> Literals],
                              case.at.ext, [base |-> 0, op |-> case.at.op, window |-> case.at.window],
                              BlockMaximum)
  /\ UNCHANGED case

(***************************************************************************)
(* A block is accepted exactly when every match starts in the reach of the *)
(* window (or of the dictionary) and everything fits, and then its output  *)
(* is what copying byte by byte gives, whichever of the copies ran; and no *)
(* chunk, of a block then rejected either, is read outside the buffers,    *)
(* written outside the block's room or given overlapping ranges that the   *)
(* copy does not allow.                                                    *)
(***************************************************************************)
ExecutesAsDefined ==
  case.alg = "exec" /\ result # Pending =>
    LET at == case.at
        ref == RefBlock(Hist(at), case.seqs, LitBytes, at.ext, at.window)
        before == at.ext.len + at.op
        out == Memory(Mem(at), result.chunks)
    IN  /\ Sound(Mem(at), {a \in Segment(at) : a >= at.op}, result.chunks)
        /\ (result.err = "none") <=> (ref.ok /\ Len(ref.hist) - before <= BlockMaximum)
        /\ result.err = "none" =>
             /\ result.op - at.op = Len(ref.hist) - before
             /\ \A i \in at.op .. result.op - 1 : out[i] = ref.hist[at.ext.len + i + 1]

-----------------------------------------------------------------------------
(***************************************************************************)
(* Normalized counts: few symbols, or many, some of them rare.             *)
(***************************************************************************)
CountsOver(n, m) == UNION {[0..k -> 0..m] : k \in 1..n-1}
CountInputs ==
  {c \in CountsOver(3, 6) : SumOf(c, DOMAIN c) > 1 /\ c[MaxSymbol(c)] > 0}
  \cup {[s \in 0..n |-> IF s % p = 0 THEN a ELSE b] :
          n \in {12, 27, 52}, p \in {2, 5, 50}, a \in {1, 7, 15}, b \in {1, 3}}
  \cup {[s \in 0..n |-> IF s \in {0, n} THEN a ELSE 0] : n \in {2, 4, 24, 26, 37, 52}, a \in {3, 40}}

NormalizeCases == [alg : {"normalize"}, counts : CountInputs, low : BOOLEAN, max_log : {6, 9}]

Described(n, log, w) ==
  [log |-> log, n |-> n, w |-> w, ct |-> CTable(n.norm, log), r |-> build_decoder(w.bits, 52, 9)]
NormalizedAs(n, log) ==
  IF ~n.ok THEN [log |-> log, n |-> n]
  ELSE IF n.log = 0 THEN [log |-> log, n |-> n] ELSE Described(n, log, write_ncount(n.norm, log))

Normalize ==
  /\ case.alg = "normalize" /\ result = Pending
  /\ LET total == SumOf(case.counts, DOMAIN case.counts)
         log == optimal_table_log(case.max_log, total, MaxSymbol(case.counts))
     IN  result' = NormalizedAs(normalize_count(log, case.counts, total, case.low), log)
  /\ UNCHANGED case

(***************************************************************************)
(* Counts of two symbols and more are scaled to tile the table, with a     *)
(* cell for every symbol that occurs and for no other; the description     *)
(* reads back to the same counts, ending where it ends; and the decoder's  *)
(* table built from it undoes every transition of the encoder's.           *)
(***************************************************************************)
NormalizedTablesAgree ==
  case.alg = "normalize" /\ result # Pending =>
    LET c == case.counts
        n == result.n
        r == result.r
        size == Pow2[result.log]
        occurring == {s \in DOMAIN c : c[s] > 0}
        Undone(s, x) ==      \* from state x, coding s
          LET cell == r.table.cell[StateAfter(result.ct, x, s) - size]
          IN  /\ cell.symbol = s /\ cell.nb = NbBits(result.ct, x, s)
              /\ cell.next + (x % Pow2[cell.nb]) = x - size
    IN  IF Cardinality(occurring) = 1 THEN n.ok /\ n.log = 0
        ELSE /\ n.ok /\ n.log = result.log /\ Cells(n.norm) = size
             /\ \A s \in DOMAIN c : (c[s] = 0 <=> n.norm[s] = 0) /\ n.norm[s] >= -1
             /\ result.w.ok /\ result.w.fits
             /\ r.ok /\ r.len = Bytes(result.w.bits) /\ r.table.log = result.log
             /\ r.table.norm = [s \in 0..Max(occurring) |-> n.norm[s]]
             /\ \A s \in occurring : \A x \in {size + k * 5 : k \in 0..(size - 1) \div 5} : Undone(s, x)

-----------------------------------------------------------------------------
(***************************************************************************)
(* Sequences sections: short lists, and long ones of two kinds of          *)
(* sequence, coded with the tables an earlier block left or without.       *)
(***************************************************************************)
Stored(ll, ml, ob) == [lit_len |-> ll, ml_base |-> ml, off_base |-> ob]
Rep1 == Stored(0, 0, 1)
Rep2 == Stored(3, 1, 2)
Rep3 == Stored(0, 40, 3)
Near == Stored(19, 5, 9)
Long == Stored(70000, 70001, 67108870)
Far == Stored(131000, 65600, 536870913)

SeqLists ==
  {<<>>} \cup {<<x>> : x \in {Rep1, Near, Far}} \cup {<<x, y>> : x \in {Rep1, Rep3, Far}, y \in {Rep2, Near, Long}}
  \cup {<<x, y, z>> : x \in {Rep1, Long}, y \in {Near, Far}, z \in {Rep2}}
  \cup {[i \in 1..n |-> IF i % p = 0 THEN x ELSE y] : n \in {5, 40}, p \in {2, 7}, x \in {Far, Near}, y \in {Rep1, Long}}

\* What an earlier block left: no table, tables of few codes to be checked,
\* or tables of all of them.
HeldCounts(k, t) ==
  CASE k = "none" -> [mode |-> "None", norm |-> [s \in 0..1 |-> 16], log |-> 5]
    [] k = "few" -> [mode |-> "Check", norm |-> [s \in 0..3 |-> <<21, 10, 0, -1>>[s + 1]], log |-> 5]
    [] k = "all" -> [mode |-> "Valid", norm |-> Default[t].norm, log |-> Default[t].log]
HeldKinds == {"none", "few", "all"}
HeldTable(h) == [mode |-> h.mode, table |-> CTable(h.norm, h.log)]
HeldTables == Tabulate([k \in HeldKinds |-> [t \in {"ll", "of", "ml"} |-> HeldTable(HeldCounts(k, t))]])
DHeldTable(h) == IF h.mode = "None" THEN NoDTable ELSE build_decoding_table(h.norm, h.log)
DHeld == Tabulate([k \in HeldKinds |-> [t \in {"ll", "of", "ml"} |-> DHeldTable(HeldCounts(k, t))]])

SequencesCases == [alg : {"sequences"}, seqs : SeqLists, held : HeldKinds, strategy : {1, 7}]

\* The types the three tables can be sent as.
TypeChoices(c) ==
  LET of == Tabulate([t \in {"ll", "of", "ml"} |->
              IF c.seqs = <<>> THEN {"Basic"}
              ELSE select_encoding_type(t, Histogram(seq_to_codes(t, c.seqs)), Len(c.seqs),
                                        HeldTables[c.held][t], c.strategy)])
  IN  {f \in [{"ll", "of", "ml"} -> {"Basic", "Rle", "Compressed", "Repeat"}] : \A t \in DOMAIN f : f[t] \in of[t]}

StartReps == <<1, 4, 8>>

ReadBack(types, w, held) ==
  [types |-> types, w |-> w, r |-> IF w.ok THEN decode_sequences_section(w.bits, held, StartReps) ELSE Failed]

CodeSequences ==
  /\ case.alg = "sequences" /\ result = Pending
  /\ \E types \in TypeChoices(case) :
       result' = ReadBack(types, encode_sequences_section(case.seqs, types, HeldTables[case.held]), DHeld[case.held])
  /\ UNCHANGED case

(***************************************************************************)
(* A written section decodes to the block's sequences, offsets resolved    *)
(* through the repeat history the encoder's own rules lead to, with no bit *)
(* of any container lost and within the size the bound gives; and one that *)
(* cannot be written has a bound no block may exceed.                      *)
(***************************************************************************)
SequencesRoundTrip ==
  case.alg = "sequences" /\ result # Pending =>
    LET seqs == case.seqs
        w == result.w
        e == Reps!DecodeSequences(StartReps, [i \in DOMAIN seqs |-> [ob |-> seqs[i].off_base, ll0 |-> seqs[i].lit_len = 0]])
    IN  /\ w.ok => /\ w.fits /\ result.r.ok /\ result.r.hist = e.hist
                    /\ result.r.out = [i \in DOMAIN seqs |-> [lit_len |-> seqs[i].lit_len, ml_base |-> seqs[i].ml_base,
                                                              offset |-> e.offs[i]]]
                    /\ Bytes(w.bits) <= sequences_section_bound(seqs)
        /\ ~w.ok => sequences_section_bound(seqs) > 131072

-----------------------------------------------------------------------------
(***************************************************************************)
(* Huffman tables: flat and skewed counts, some of them sorted by the      *)
(* quicksort, limited to every depth the writer can ask for.               *)
(***************************************************************************)
Doubling(n) == [s \in 0..n |-> IF s < 2 THEN 1 ELSE Pow2[s - 2]]
HufCounts ==
  {[s \in 0..n |-> IF s = 0 THEN a ELSE IF s = n THEN b ELSE c] :
     n \in {1, 2, 5, 9}, a \in {1, 50}, b \in {1, 7}, c \in {0, 1, 4}}
  \cup {Doubling(n) : n \in {4, 10, 12, 14}}
  \cup {[s \in 0..13 |-> <<1, 1, 1, 2, 3, 5, 8, 13, 21, 34, 55, 89, 144, 233>>[s + 1]],
        [s \in 0..13 |-> <<233, 1, 1, 2, 1, 89, 8, 13, 21, 34, 55, 5, 144, 1>>[s + 1]],
        [s \in 0..15 |-> IF s < 8 THEN 1 ELSE 100 * Pow2[s - 8]],
        [s \in 0..17 |-> 170 + ((s * 37) % 80)],
        [s \in 0..13 |-> IF s % 4 = 3 THEN 300 + 50 * s ELSE 164]}

TableCases == [alg : {"table"}, counts : HufCounts, limit : {5, 7, 9, 11}]

WithStats(t, w, r, stats) == [t |-> t, w |-> w, r |-> r, stats |-> stats, sorted |-> Sorted(stats)]
WithWeights(t, w, r) == WithStats(t, w, r, weight_stats(r.weights))
WithDescription(t, w) == WithWeights(t, w, read_weights(w.bits))
TableCoded(t) == WithDescription(t, write_ctable(t))

BuildTable ==
  /\ case.alg = "table" /\ result = Pending
  /\ result' = TableCoded(build_ctable_huf(case.counts, case.limit))
  /\ UNCHANGED case

\* Two lookups of the single-symbol table in one.
PairOf(x1, u) ==
  LET a == x1[u]
      b == x1[(u * Pow2[a.nb]) % Pow2[HUF_FAST_TABLE_LOG]]
  IN  IF a.nb + b.nb <= HUF_FAST_TABLE_LOG THEN [seq |-> <<a.seq[1], b.seq[1]>>, nb |-> a.nb + b.nb, len |-> 2]
      ELSE [seq |-> <<a.seq[1], 0>>, nb |-> a.nb, len |-> 1]

(***************************************************************************)
(* Codes are complete, no longer than the limit, and given to exactly the  *)
(* symbols that occur, never a longer one to a symbol that counts more,    *)
(* however the bucket sort and the quicksort order them; the description   *)
(* reads back to them; every lookup of the decoder's single-symbol table   *)
(* finds the one code it starts with, and every cell of the double-symbol  *)
(* table, each of them written, says what one or two lookups of the other  *)
(* say.                                                                    *)
(***************************************************************************)
HuffmanTablesAgree ==
  case.alg = "table" /\ result # Pending =>
    LET t == result.t
        x1 == fill_x1(result.sorted)
        x2 == fill_x2(result.sorted)
        symbols == DOMAIN t.nb
        coded == {s \in symbols : t.nb[s] # 0}
    IN  /\ t.log <= case.limit /\ coded = {s \in symbols : case.counts[s] # 0}
        /\ MapThenSumSet(LAMBDA s : Pow2[t.log - t.nb[s]], coded) = Pow2[t.log]
        /\ \A often, rare \in coded : case.counts[often] > case.counts[rare] => t.nb[often] <= t.nb[rare]
        /\ result.w.ok /\ result.w.fits /\ result.r.ok /\ result.r.len = Bytes(result.w.bits)
        /\ result.stats.ok /\ result.stats.log = t.log
        /\ \A s \in symbols : result.stats.weights[s] = IF s \in coded THEN t.log + 1 - t.nb[s] ELSE 0
        /\ \A u \in DOMAIN x1 :
             /\ LET s == x1[u].seq[1]
                IN  x1[u].nb = t.nb[s] /\ u \div Pow2[HUF_FAST_TABLE_LOG - t.nb[s]] = t.value[s]
             /\ x2[u] = PairOf(x1, u)

-----------------------------------------------------------------------------
(***************************************************************************)
(* Streams of symbols 0..n coded with a table of n bits, whole, damaged,   *)
(* or read to another length than was written.                             *)
(***************************************************************************)
HufLogs == {1, 3, 6, 7, 8, 9, 10, 11}
HufTables == Tabulate([n \in HufLogs |-> build_ctable_huf(Doubling(n), 11)])
HufStats == Tabulate([n \in HufLogs |-> weight_stats(read_weights(write_ctable(HufTables[n]).bits).weights)])

Source(n, len, p) ==
  [i \in 1..len |-> CASE p = 0 -> 0 [] p = 1 -> (i * 7) % (n + 1) [] OTHER -> IF i % p = 0 THEN n ELSE i % 2] \o <<>>

StreamCases ==
  [alg : {"streams"}, n : HufLogs, len : {37, 50, 96}, p : {0, 1, 2}, four : BOOLEAN, x2 : BOOLEAN,
   damage : {"none", "cut", "short", "long", "flip", "jump"}]

Damaged(bits, c) ==
  CASE c.damage = "cut" -> SubSeq(bits, 1, Len(bits) - 8)
    [] c.damage = "flip" -> [bits EXCEPT ![Len(bits) - 9] = 1 - @]
    [] c.damage = "jump" -> IF c.four THEN Bits(ByteAt(bits, 0) + 1, 16) \o From(bits, 2) ELSE bits \o Zeros(8)
    [] OTHER -> bits
ReadLen(c) == CASE c.damage = "short" -> c.len - 1 [] c.damage = "long" -> c.len + 1 [] OTHER -> c.len

StreamsRead(c, fits, bits) ==
  [fits |-> fits, bits |-> bits,
   r |-> huf_decompress(bits, c.four, HuffmanTable(HufStats[c.n], c.x2), ReadLen(c))]
StreamsCoded(c, e) == StreamsRead(c, e.fits, Damaged(e.bits, c))

CodeStreams ==
  /\ case.alg = "streams" /\ result = Pending
  /\ LET src == Source(case.n, case.len, case.p)
         t == HufTables[case.n]
     IN  result' = StreamsCoded(case, IF case.four THEN compress_4x_using_ctable(src, t)
                                      ELSE compress_1x_using_ctable(src, t))
  /\ UNCHANGED case

\* A stream, its bits in reading order, symbol by symbol.
RECURSIVE RefSymbols(_, _, _, _)
RefSymbols(bits, x1, n, out) ==
  LET ahead == [i \in 1..HUF_FAST_TABLE_LOG |->
                  IF HUF_FAST_TABLE_LOG + 1 - i <= Len(bits) THEN bits[HUF_FAST_TABLE_LOG + 1 - i] ELSE 0]
      cell == x1[Value(ahead)]
  IN  IF n = 0 THEN [ok |-> bits = <<>>, out |-> out]
      ELSE IF cell.nb > Len(bits) THEN Failed
      ELSE RefSymbols(SubSeq(bits, cell.nb + 1, Len(bits)), x1, n - 1, Append(out, cell.seq[1]))

RefStream(bits, x1, n) ==
  LET marks == {i \in Len(bits) - 7 .. Len(bits) : bits[i] = 1}
  IN  IF bits = <<>> \/ marks = {} THEN Failed
      ELSE RefSymbols(Reverse(SubSeq(bits, 1, Max(marks) - 1)) \o <<>>, x1, n, <<>>)

RefJoined(r) ==
  IF \E s \in 1..4 : ~r[s].ok THEN Failed ELSE Decoded(r[1].out \o r[2].out \o r[3].out \o r[4].out)
RefSplit(h, bits, x1, n) ==
  IF ~h.ok THEN Failed
  ELSE RefJoined([s \in 1..4 |-> RefStream(StreamOf(h, bits, s), x1,
                                           IF s < 4 THEN h.segment ELSE n - 3 * h.segment)] \o <<>>)
RefStreams(bits, four, x1, n) ==
  IF four THEN RefSplit(HufStreamsSplit(bits, n), bits, x1, n) ELSE RefStream(bits, x1, n)

(***************************************************************************)
(* Whatever its streams hold, a section is accepted exactly when each of   *)
(* them codes its share of the literals and not a bit more, by the single- *)
(* and the double-symbol decoder, of one stream and of four, with the fast *)
(* loops or without, and then they decode the same; what the writer wrote, *)
(* with no bit lost or added, decodes to what it was given.                *)
(***************************************************************************)
StreamVerdictsAgree ==
  case.alg = "streams" /\ result # Pending =>
    \E ref \in {RefStreams(result.bits, case.four, fill_x1(Sorted(HufStats[case.n])), ReadLen(case))} :
      /\ result.fits /\ result.r.ok = ref.ok
      /\ ref.ok => \A i \in 1..ReadLen(case) : result.r.out[i - 1] = ref.out[i]
      /\ case.damage = "none" => ref.ok /\ ref.out = Source(case.n, case.len, case.p)

-----------------------------------------------------------------------------
(***************************************************************************)
(* Literals sections, after a block that left no table, one to be checked  *)
(* or a valid one (which codes every literal).                             *)
(***************************************************************************)
HufHeld == [mode : {"None"}, n : {3}] \cup [mode : {"Check", "Valid"}, n : {3, 10}]
Literals2(c) ==
  [i \in 1..c.len |-> CASE c.p = 0 -> IF i = 1 /\ c.top > 0 THEN c.top - 1 ELSE c.top
                       [] c.p > 0 /\ i % c.p # 0 -> i % 2
                       [] OTHER -> (i \div c.p) % (c.top + 1)] \o <<>>

LiteralsCases ==
  {c \in [alg : {"literals"}, len : {0, 5, 6, 7, 12, 33, 80, 260}, top : {0, 3, 10}, p : {0, 1, 3}, held : HufHeld,
          strategy : {1, 9}, x2 : BOOLEAN] :
     /\ c.held.mode = "None" => ~c.x2
     /\ c.held.mode = "Valid" => c.top <= c.held.n
     /\ c.len = 260 => c.strategy = 1 /\ c.p = 3}

Lengths(h) == [s \in DOMAIN h.t.weights |-> IF h.t.weights[s] = 0 THEN 0 ELSE code_len(h.t, s)]
LiteralsRead(w, r) ==
  IF ~r.ok THEN [w |-> w, ok |-> FALSE]
  ELSE [w |-> w, ok |-> TRUE, out |-> r.out, lengths |-> IF r.held = NoHuffmanTable THEN <<>> ELSE Lengths(r.held)]
LiteralsWritten(c, w) ==
  LiteralsRead(w, decode_literals(w.bits, IF c.held.mode = "None" THEN NoHuffmanTable
                                          ELSE HuffmanTable(HufStats[c.held.n], c.x2), 131072))

CodeLiterals ==
  /\ case.alg = "literals" /\ result = Pending
  /\ result' = LiteralsWritten(case,
                 compress_literals_with(Literals2(case), [mode |-> case.held.mode, table |-> HufTables[case.held.n]],
                                        case.strategy, FALSE))
  /\ UNCHANGED case

(***************************************************************************)
(* A literals section decodes to the literals, takes no more than its      *)
(* bound, and leaves the decoder with the codes the writer goes on with.   *)
(***************************************************************************)
LiteralsRoundTrip ==
  case.alg = "literals" /\ result # Pending =>
    /\ result.w.fits /\ result.ok /\ result.out = Literals2(case)
    /\ Bytes(result.w.bits) <= literals_section_bound(case.len)
    /\ result.w.next = "New" \/ case.held.mode # "None" => result.lengths = result.w.table.nb

-----------------------------------------------------------------------------
(***************************************************************************)
(* The match finders and the long distance matcher, on texts in two        *)
(* letters.                                                                *)
(***************************************************************************)
Finders == INSTANCE MCFinders WITH
  MinMatch <- 3, LongMatch <- 4, HashReadSize <- 4, StepIncr <- 3, SearchStrength <- 4

LongDistances == INSTANCE MCLongDistance WITH
  MinMatch <- 3, HashReadSize <- 4, CurrentMax <- 26, OverflowMargin <- 1, U32 <- 64,
  LdmMinMatch <- 3, MaxChunk <- 13, BatchSize <- 2, BucketSize <- 3

\* MCFinders' ParsesDecode: a search stores only matches the decoder finds again.
ParsesDecode == case.alg = "find" => Finders!ParsesDecode

\* MCLongDistance's LongMatchesHold: a long match names bytes equal to its own.
LongMatchesHold == case.alg = "ldm" => LongDistances!LongMatchesHold

-----------------------------------------------------------------------------
Init ==
  \/ /\ case \in ExecCases \cup NormalizeCases \cup SequencesCases \cup TableCases \cup StreamCases
                   \cup LiteralsCases
     /\ result = Pending
  \/ Finders!Init
  \/ LongDistances!Init

Next ==
  \/ Execute \/ Normalize \/ CodeSequences \/ BuildTable \/ CodeStreams \/ CodeLiterals
  \/ case.alg = "find" /\ Finders!Next
  \/ case.alg = "ldm" /\ LongDistances!Next

Spec == Init /\ [][Next]_vars
=============================================================================
