------------------------ MODULE SerialBlocksProofs ------------------------
(***************************************************************************)
(* The properties of SerialBlocks, for blocks, offsets and tables of any   *)
(* size: encoder and decoder keep the same repeat offsets and the same     *)
(* entropy tables, and a section is coded with a table that codes it.      *)
(***************************************************************************)
EXTENDS SerialBlocks, RepCodesProofs

-----------------------------------------------------------------------------
(* Offset codes.                                                           *)

\* f is the recursive function of OffCode, on 1..n.
IsHigh(n, f) == f = [v \in 1..n |-> IF v = 1 THEN 0 ELSE f[v \div 2] + 1]

(* It exists.                                                              *)
LEMMA HighExists == \A n \in Nat : \E f : IsHigh(n, f)
<1> DEFINE S == {n \in Nat : \E f : IsHigh(n, f)}
<1>1. 0 \in S
  <2>1. IsHigh(0, [v \in 1..0 |-> 0])
    BY DEF IsHigh
  <2> QED BY <2>1
<1>2. ASSUME NEW n \in Nat, n \in S PROVE n + 1 \in S
  <2>1. PICK f : IsHigh(n, f)
    BY <1>2
  <2> DEFINE g == [v \in 1..(n + 1) |-> IF v = 1 THEN 0 ELSE f[v \div 2] + 1]
  <2>2. \A v \in 1..n : f[v] = g[v]
    BY <2>1 DEF IsHigh
  <2>3. \A v \in 1..(n + 1) : v # 1 => v \div 2 \in 1..n
    OBVIOUS
  <2>4. \A v \in 1..(n + 1) : v # 1 => f[v \div 2] = g[v \div 2]
    BY <2>2, <2>3
  <2>5. g = [v \in 1..(n + 1) |-> IF v = 1 THEN 0 ELSE g[v \div 2] + 1]
    BY <2>4
  <2>6. IsHigh(n + 1, g)
    BY <2>5 DEF IsHigh
  <2> QED BY <2>6
<1>3. Nat \subseteq S
  <2> HIDE DEF S
  <2> QED BY <1>1, <1>2, SetInduction
<1> QED BY <1>3

(* It does not depend on the domain.                                       *)
LEMMA HighAgrees ==
  ASSUME NEW n \in Nat, NEW m \in Nat, n <= m, NEW f, NEW g, IsHigh(n, f), IsHigh(m, g)
  PROVE  \A v \in 1..n : f[v] = g[v]
<1> DEFINE S == {k \in Nat : \A v \in 1..n : v <= k => f[v] = g[v]}
<1>1. 0 \in S
  OBVIOUS
<1>2. ASSUME NEW k \in Nat, k \in S PROVE k + 1 \in S
  <2>1. SUFFICES ASSUME NEW v \in 1..n, v = k + 1 PROVE f[v] = g[v]
    BY <1>2
  <2>2. CASE v = 1
    BY <2>2 DEF IsHigh
  <2>3. CASE v # 1
    <3>1. v \div 2 \in 1..n /\ v \div 2 <= k
      BY <2>1, <2>3
    <3>2. f[v \div 2] = g[v \div 2]
      BY <3>1, <1>2
    <3>3. f[v] = f[v \div 2] + 1 /\ g[v] = g[v \div 2] + 1
      BY <2>3 DEF IsHigh
    <3> QED BY <3>2, <3>3
  <2> QED BY <2>2, <2>3
<1>3. Nat \subseteq S
  <2> HIDE DEF S
  <2> QED BY <1>1, <1>2, SetInduction
<1> QED BY <1>3

(* It is natural and grows.                                                *)
LEMMA HighGrows ==
  ASSUME NEW n \in Nat, NEW f, IsHigh(n, f)
  PROVE  \A w \in 1..n : f[w] \in Nat /\ \A v \in 1..w : f[v] <= f[w]
<1> DEFINE S == {k \in Nat : \A w \in 1..n : w <= k =>
                    f[w] \in Nat /\ \A v \in 1..w : f[v] <= f[w]}
<1>1. 0 \in S
  OBVIOUS
<1>2. ASSUME NEW k \in Nat, k \in S PROVE k + 1 \in S
  <2>1. SUFFICES ASSUME NEW w \in 1..n, w = k + 1
                 PROVE  f[w] \in Nat /\ \A v \in 1..w : f[v] <= f[w]
    BY <1>2
  <2>2. f[1] = 0
    BY <2>1 DEF IsHigh
  <2>3. \A v \in 1..n : v # 1 => f[v] = f[v \div 2] + 1
    BY DEF IsHigh
  <2>4. CASE w = 1
    BY <2>2, <2>4
  <2>5. CASE w # 1
    <3>1. w \div 2 \in 1..n /\ w \div 2 <= k
      BY <2>1, <2>5
    <3>2. f[w \div 2] \in Nat
      BY <3>1, <1>2
    <3>3. f[w] = f[w \div 2] + 1
      BY <2>3, <2>5
    <3>4. ASSUME NEW v \in 1..w, v # 1 PROVE f[v] <= f[w]
      <4>1. v \div 2 \in 1..(w \div 2) /\ v \div 2 \in 1..n /\ v \div 2 <= k
        BY <3>4, <3>1
      <4>2. f[v \div 2] <= f[w \div 2] /\ f[v \div 2] \in Nat
        BY <4>1, <3>1, <1>2
      <4>3. f[v] = f[v \div 2] + 1
        BY <3>4, <2>3
      <4> QED BY <4>2, <4>3, <3>2, <3>3
    <3> QED BY <3>2, <3>3, <3>4, <2>2
  <2> QED BY <2>4, <2>5
<1>3. Nat \subseteq S
  <2> HIDE DEF S
  <2> QED BY <1>1, <1>2, SetInduction
<1> QED BY <1>3

(* The offset code of an offBase is natural, and a larger one's no less.   *)
LEMMA OffCodeGrows ==
  ASSUME NEW a \in Nat, NEW b \in Nat, 1 <= a, a <= b
  PROVE  OffCode(a) \in 0..OffCode(b)
<1> DEFINE High(n) == CHOOSE f : IsHigh(n, f)
<1>1. IsHigh(a, High(a)) /\ IsHigh(b, High(b))
  BY HighExists
<1>2. OffCode(a) = High(a)[a] /\ OffCode(b) = High(b)[b]
  BY DEF OffCode, IsHigh
<1> HIDE DEF High
<1>3. High(a)[a] = High(b)[a]
  BY <1>1, HighAgrees
<1>4. High(b)[b] \in Nat /\ High(b)[a] <= High(b)[b] /\ High(b)[a] \in Nat
  BY <1>1, HighGrows
<1> QED BY <1>2, <1>3, <1>4

-----------------------------------------------------------------------------
(* Entropy tables.                                                         *)

IsSlots(s) ==
    /\ s = [slots |-> <<s.slots[1], s.slots[2]>>, cur |-> s.cur, mode |-> s.mode]
    /\ s.cur \in {1, 2} /\ s.mode \in Repeats

\* A table of a state a job starts from, and after an attempt.
Begun(start, t) == IF start = "Dict" THEN Load(NoSlots, DictSlots(t)) ELSE Clear(NoSlots)

\* A table after a block.
After(t, kind, s, coding) ==
    LET c == IF kind = "Compressed" THEN Commit(s, NextOf(coding)) ELSE s
    IN  IF t = "of" THEN DemoteValid(c) ELSE c

(* A job starts from tables that are the decoder's, and a dictionary's is  *)
(* valid only if it codes what it may be asked to.                         *)
LEMMA BegunSlots ==
  ASSUME NEW start \in {"First", "Dict", "Later"}, NEW t \in {"huf", "of"}
  PROVE  LET s == Begun(start, t)
         IN  /\ IsSlots(s)
             /\ start # "Dict" => s.mode = "None"
             /\ t = "huf" /\ s.mode = "Valid" => LitSymbols \subseteq HeldTable(s)
             /\ t = "of" /\ s.mode = "Valid" =>
                  0..OffCode(Content + BlockSizeMax) \subseteq HeldTable(s)
<1> DEFINE n == OffCode(Content + BlockSizeMax)
<1> HIDE DEF n
<1>0. n = OffCode(Content + BlockSizeMax)
  BY DEF n
<1>1. CASE start # "Dict"
  BY <1>1 DEF Begun, Clear, NoSlots, Slots, IsSlots, Repeats
<1>2. CASE start = "Dict"
  <2>1. Begun(start, t) = Load(NoSlots, DictSlots(t))
    BY <1>2 DEF Begun
  <2> DEFINE table == IF t = "huf" THEN DictHuf ELSE DictOf
             need == IF t = "huf" THEN LitSymbols ELSE 0..n
             mode == IF need \subseteq table THEN "Valid" ELSE "Check"
  <2>2. DictSlots(t) = [slots |-> <<table, NoTable>>, cur |-> 1, mode |-> mode]
    BY <1>0 DEF DictSlots, Slots
  <2>3. mode \in {"Valid", "Check"} /\ (mode = "Valid" => need \subseteq table)
    OBVIOUS
  <2>4. (t = "huf" => need = LitSymbols) /\ (t = "of" => need = 0..n)
    OBVIOUS
  <2> HIDE DEF table, need, mode
  <2>5. Load(NoSlots, DictSlots(t)) = [slots |-> <<table, NoTable>>, cur |-> 1, mode |-> mode]
    <3> DEFINE from == DictSlots(t)
    <3>1. from.mode = mode /\ from.mode # "None" /\ HeldTable(from) = table
      BY <2>2, <2>3 DEF HeldTable
    <3> HIDE DEF from
    <3>2. NoSlots = [slots |-> <<NoTable, NoTable>>, cur |-> 1, mode |-> "None"]
      BY DEF NoSlots, Slots
    <3>3. Load(NoSlots, from) = [NoSlots EXCEPT !.mode = mode, !.slots[1] = table]
      BY <3>1, <3>2 DEF Load
    <3>4. [<<NoTable, NoTable>> EXCEPT ![1] = table] = <<table, NoTable>>
      OBVIOUS
    <3>5. [NoSlots EXCEPT !.mode = mode, !.slots[1] = table]
            = [slots |-> [<<NoTable, NoTable>> EXCEPT ![1] = table], cur |-> 1,
               mode |-> mode]
      <4> DEFINE pair == <<NoTable, NoTable>>
                 r == [slots |-> pair, cur |-> 1, mode |-> mode]
                 w == [pair EXCEPT ![1] = table]
      <4>1. [NoSlots EXCEPT !.mode = mode] = r
        BY <3>2
      <4>2. r.slots = pair
        OBVIOUS
      <4> HIDE DEF pair
      <4>3. [r EXCEPT !.slots = w] = [slots |-> w, cur |-> 1, mode |-> mode]
        OBVIOUS
      <4> HIDE DEF r
      <4>4. [NoSlots EXCEPT !.mode = mode, !.slots[1] = table] = [r EXCEPT !.slots = w]
        BY <4>1, <4>2
      <4> QED BY <4>3, <4>4 DEF pair
    <3> QED BY <3>3, <3>4, <3>5 DEF from
  <2>6. HeldTable(Begun(start, t)) = table /\ Begun(start, t).mode = mode
    BY <2>1, <2>5 DEF HeldTable
  <2>7. IsSlots(Begun(start, t))
    BY <2>1, <2>3, <2>5 DEF IsSlots, Repeats
  <2> QED BY <1>2, <2>3, <2>4, <2>6, <2>7, <1>0
<1> QED BY <1>1, <1>2

(* An attempt leaves the table held, and its mode, as they were.           *)
LEMMA BuildKeepsHeld ==
  ASSUME NEW s, IsSlots(s), NEW coding
  PROVE  LET b == Build(s, coding)
         IN  /\ IsSlots(b) /\ b.mode = s.mode /\ b.cur = s.cur
             /\ HeldTable(b) = HeldTable(s)
             /\ b.slots[Spare(s)] = coding.spare
<1>1. s.cur = 1 \/ s.cur = 2
  BY DEF IsSlots
<1>2. CASE s.cur = 1
  BY <1>2 DEF IsSlots, Build, HeldTable, Spare
<1>3. CASE s.cur = 2
  BY <1>3 DEF IsSlots, Build, HeldTable, Spare
<1> QED BY <1>1, <1>2, <1>3

\* The modes of a coding, and where the table of a new one is.
IsCoding(c) ==
    /\ c.mode \in {"Raw", "Repeat", "New", "Basic", "Rle"}
    /\ c.mode = "New" => c.table = c.spare

(* What the section coders may do.                                         *)
LEMMA CodingsAre ==
  ASSUME NEW t, NEW s, NEW need, NEW c \in Codings(t, s, need)
  PROVE  /\ IsCoding(c)
         /\ c.mode = "Repeat" => /\ s.mode # "None" /\ c.table = HeldTable(s)
                                 /\ s.mode = "Valid" \/ need \subseteq HeldTable(s)
         /\ c.mode \in {"New", "Basic", "Rle"} => need \subseteq c.table
<1>1. CASE t = "huf"
  <2>1. c \in LiteralCodings(s, need)
    BY <1>1 DEF Codings
  <2> QED BY <2>1 DEF LiteralCodings, Coding, IsCoding
<1>2. CASE t # "huf"
  <2>1. c \in CodeCodings(s, need)
    BY <1>2 DEF Codings
  <2> DEFINE kept == s.slots[Spare(s)]
             default == 0..DefaultMaxOff
  <2>2. \/ c = Coding("Raw", NoTable, kept)
        \/ c = Coding("Basic", default, default) /\ need \subseteq default
        \/ c = Coding("Rle", need, need)
        \/ c = Coding("New", need, need)
        \/ /\ c = Coding("Repeat", HeldTable(s), kept)
           /\ \/ s.mode = "Valid"
              \/ s.mode # "None" /\ need \subseteq HeldTable(s)
    <3> HIDE DEF kept, default
    <3> QED BY <2>1 DEF CodeCodings, kept, default
  <2> HIDE DEF kept, default
  <2> QED BY <2>2 DEF Coding, IsCoding
<1> QED BY <1>1, <1>2

\* The table of s is the decoder's, held, and the decoder's after a block.
Holds(s, held) == IsSlots(s) /\ (s.mode # "None" => HeldTable(s) = held)

HeldAfter(kind, held, c) == IF kind = "Compressed" THEN DecodedWith(held, c) ELSE held

\* a, the table after a block, is valid only if s, the one before, was.
ValidSince(t, s, a) ==
    a.mode = "Valid" => /\ t = "huf" /\ s.mode = "Valid"
                        /\ HeldTable(a) = HeldTable(s)

(* A table after a block is the decoder's, and valid only if it was, which *)
(* the offset table then no longer is.                                     *)
LEMMA AfterIsDecoders ==
  ASSUME NEW t \in {"huf", "of"}, NEW s, NEW need, NEW c \in Codings(t, s, need),
         NEW held, Holds(s, held), NEW kind
  PROVE  /\ Holds(After(t, kind, Build(s, c), c), HeldAfter(kind, held, c))
         /\ ValidSince(t, s, After(t, kind, Build(s, c), c))
<1>0. IsSlots(s) /\ (s.mode # "None" => HeldTable(s) = held)
  BY DEF Holds
<1> DEFINE b == Build(s, c)
           d == IF kind = "Compressed" THEN Commit(b, NextOf(c)) ELSE b
<1>1. /\ IsSlots(b) /\ b.mode = s.mode /\ b.cur = s.cur /\ HeldTable(b) = HeldTable(s)
      /\ b.slots[Spare(s)] = c.spare
  BY <1>0, BuildKeepsHeld
<1>2. /\ IsCoding(c) /\ (c.mode = "Repeat" => s.mode # "None")
  BY CodingsAre
<1>3. Spare(b) = Spare(s)
  BY <1>1 DEF Spare
<1> HIDE DEF b
<1>4. /\ IsSlots(d)
      /\ d.mode # "None" =>
           HeldTable(d) = HeldAfter(kind, held, c)
      /\ d.mode = "Valid" => s.mode = "Valid" /\ HeldTable(d) = HeldTable(s)
  <2>1. CASE kind # "Compressed"
    <3>1. d = b
      BY <2>1
    <3>2. HeldAfter(kind, held, c) = held
      BY <2>1 DEF HeldAfter
    <3> QED BY <3>1, <3>2, <1>0, <1>1
  <2>2. CASE kind = "Compressed" /\ c.mode = "New"
    <3>1. d = [b EXCEPT !.cur = Spare(b), !.mode = "Check"]
      BY <2>2 DEF NextOf, Commit
    <3>a. b = [slots |-> <<b.slots[1], b.slots[2]>>, cur |-> b.cur, mode |-> b.mode]
      BY <1>1 DEF IsSlots
    <3>b. Spare(s) \in {1, 2}
      BY <1>0 DEF IsSlots, Spare
    <3>2. d = [slots |-> b.slots, cur |-> Spare(s), mode |-> "Check"] /\ Spare(s) \in {1, 2}
      BY <3>1, <3>a, <3>b, <1>3
    <3>3. HeldTable(d) = c.table /\ DecodedWith(held, c) = c.table
      BY <3>2, <1>1, <1>2, <2>2 DEF HeldTable, DecodedWith, IsCoding
    <3>4. IsSlots(d)
      BY <3>2, <1>1 DEF IsSlots, Repeats
    <3> HIDE DEF d
    <3>5. HeldAfter(kind, held, c) = c.table
      BY <2>2, <3>3 DEF HeldAfter
    <3> QED BY <3>2, <3>3, <3>4, <3>5
  <2>3. CASE kind = "Compressed" /\ c.mode \in {"Basic", "Rle"}
    <3>1. d = [b EXCEPT !.mode = "None"]
      BY <2>3 DEF NextOf, Commit
    <3>2. d = [slots |-> b.slots, cur |-> b.cur, mode |-> "None"]
      BY <3>1, <1>1 DEF IsSlots
    <3>3. IsSlots(d)
      BY <3>2, <1>1 DEF IsSlots, Repeats
    <3> HIDE DEF d
    <3> QED BY <3>2, <3>3
  <2>4. CASE kind = "Compressed" /\ c.mode \in {"Raw", "Repeat"}
    <3>1. d = b
      BY <2>4 DEF NextOf, Commit
    <3>2. DecodedWith(held, c) = held
      BY <2>4 DEF DecodedWith
    <3> HIDE DEF d
    <3>3. HeldAfter(kind, held, c) = held
      BY <2>4, <3>2 DEF HeldAfter
    <3> QED BY <3>1, <3>3, <1>0, <1>1
  <2> QED BY <2>1, <2>2, <2>3, <2>4, <1>2 DEF IsCoding
<1>5. After(t, kind, Build(s, c), c) = IF t = "of" THEN DemoteValid(d) ELSE d
  BY DEF After, b
<1> HIDE DEF d
<1>6. CASE t = "huf"
  BY <1>4, <1>5, <1>6 DEF Holds, ValidSince
<1>7. CASE t = "of"
  <2>1. DemoteValid(d) = [slots |-> d.slots, cur |-> d.cur,
                          mode |-> IF d.mode = "Valid" THEN "Check" ELSE d.mode]
    BY <1>4 DEF DemoteValid, IsSlots
  <2>2. HeldTable(DemoteValid(d)) = HeldTable(d)
    BY <2>1 DEF HeldTable
  <2>3. IsSlots(DemoteValid(d)) /\ DemoteValid(d).mode # "Valid"
        /\ (DemoteValid(d).mode # "None" => d.mode # "None")
    BY <2>1, <1>4 DEF IsSlots, Repeats
  <2> QED BY <2>2, <2>3, <1>4, <1>5, <1>7 DEF Holds, ValidSince
<1> QED BY <1>6, <1>7

(* A block not attempted, the same.                                        *)
LEMMA RawKeepsTable ==
  ASSUME NEW t \in {"huf", "of"}, NEW s, IsSlots(s), NEW coding,
         NEW kind, kind # "Compressed"
  PROVE  LET a == After(t, kind, s, coding)
         IN  /\ IsSlots(a) /\ HeldTable(a) = HeldTable(s)
             /\ a.mode # "None" => s.mode # "None"
             /\ a.mode = "Valid" => t = "huf" /\ s.mode = "Valid"
<1>1. DemoteValid(s) = [slots |-> s.slots, cur |-> s.cur,
                        mode |-> IF s.mode = "Valid" THEN "Check" ELSE s.mode]
  BY DEF DemoteValid, IsSlots
<1>2. HeldTable(DemoteValid(s)) = HeldTable(s)
  BY <1>1 DEF HeldTable
<1>3. IsSlots(DemoteValid(s)) /\ DemoteValid(s).mode # "Valid"
      /\ (DemoteValid(s).mode # "None" => s.mode # "None")
  BY <1>1 DEF IsSlots, Repeats
<1>4. After(t, kind, s, coding) = IF t = "of" THEN DemoteValid(s) ELSE s
  BY DEF After
<1> QED BY <1>2, <1>3, <1>4

(* A section is coded with a table that codes it, which the decoder reads  *)
(* it with, if a valid table codes whatever it may be asked to.            *)
LEMMA CodedIsDecodable ==
  ASSUME NEW t \in {"huf", "of"}, NEW s, IsSlots(s), NEW need,
         NEW c \in Codings(t, s, need),
         NEW held, s.mode # "None" => HeldTable(s) = held,
         s.mode = "Valid" => need \subseteq HeldTable(s), c.mode # "Raw"
  PROVE  need \subseteq c.table /\ DecodedWith(held, c) = c.table
<1>1. /\ IsCoding(c)
      /\ c.mode = "Repeat" => /\ s.mode # "None" /\ c.table = HeldTable(s)
                              /\ s.mode = "Valid" \/ need \subseteq HeldTable(s)
      /\ c.mode \in {"New", "Basic", "Rle"} => need \subseteq c.table
  BY CodingsAre
<1> QED BY <1>1 DEF DecodedWith, IsCoding

-----------------------------------------------------------------------------
(* Blocks.                                                                 *)

SizingOf == [blockSizeMax |-> BlockSizeMax, split |-> PreSplit,
             chunkSize |-> ChunkSize, headerLen |-> HeaderLen]

CursorSet == [sizing: {SizingOf}, jobStart: Nat, firstJob: BOOLEAN, lastJob: BOOLEAN,
              done: Nat, firstChunkEnd: Int, gained: Int]

(* A chunk ends after any position in it.                                  *)
LEMMA ChunkEndsAfter ==
  ASSUME NEW a \in Nat, NEW c \in Nat \ {0}
  PROVE  (a \div c + 1) * c > a /\ (a \div c + 1) * c \in Nat
<1> DEFINE q == a \div c
<1>1. q \in Nat /\ a = c * q + (a % c) /\ 0 <= (a % c) /\ (a % c) < c
  OBVIOUS
<1> HIDE DEF q
<1>2. (q + 1) * c = c * q + c
  BY <1>1
<1>3. c * q \in Nat
  BY <1>1
<1> QED BY <1>1, <1>2, <1>3 DEF q

(* A block that is ready starts at the cursor, and is neither negative nor *)
(* larger than a block may be.                                             *)
LEMMA BlockEndsInReach ==
  ASSUME NEW j \in CursorSet, NEW in \in InputEnd, HasReady(j, in), NEW cut
  PROVE  /\ NextStart(j) \in Nat /\ NextBlockEnd(j, in, cut) \in Nat
         /\ NextStart(j) <= NextBlockEnd(j, in, cut)
         /\ NextBlockEnd(j, in, cut) <= NextStart(j) + BlockSizeMax
<1> DEFINE start == NextStart(j)
           chunkEnd == (j.done \div ChunkSize + 1) * ChunkSize
           unsplit == UnsplitSize(j, start, in)
<1>1. /\ j.jobStart \in Nat /\ j.done \in Nat /\ j.sizing.chunkSize = ChunkSize
      /\ j.sizing.blockSizeMax = BlockSizeMax /\ in.end \in Nat
      /\ ChunkSize \in Nat \ {0} /\ BlockSizeMax \in Nat \ {0}
  BY BlockConstants DEF CursorSet, SizingOf, InputEnd
<1>2. start = j.jobStart + j.done /\ start - j.jobStart = j.done /\ start \in Nat
  BY <1>1 DEF NextStart
<1>3. chunkEnd \in Nat /\ chunkEnd > j.done
  BY <1>1, ChunkEndsAfter
<1>4. in.kind # "Open" => in.end > start
  BY DEF HasReady, Ready
<1> DEFINE e == IF in.kind = "Open" THEN chunkEnd
                ELSE Least(chunkEnd, in.end - j.jobStart)
<1>5. unsplit = Least(e - j.done, BlockSizeMax)
  <2> HIDE DEF start
  <2> QED BY <1>1, <1>2 DEF UnsplitSize
<1> HIDE DEF chunkEnd, start, unsplit
<1>6. e \in Int /\ e > j.done
  BY <1>1, <1>2, <1>3, <1>4 DEF Least
<1> HIDE DEF e
<1>7. unsplit \in 1..BlockSizeMax
  BY <1>1, <1>5, <1>6 DEF Least
<1>8. NextBlockEnd(j, in, cut) = start + unsplit
      \/ (NextBlockEnd(j, in, cut) = start + SplitSize /\ unsplit = SplitBlockSize)
  BY DEF NextBlockEnd, BlockEnd, start, unsplit
<1>9. SplitSize \in Nat /\ SplitSize <= SplitBlockSize
  BY SplitConstants
<1> QED BY <1>1, <1>2, <1>7, <1>8, <1>9 DEF start

(* The moves of a search are moves, with offsets within the block's reach. *)
LEMMA MovesAreMoves ==
  ASSUME NEW three \in BOOLEAN, NEW end \in Nat, NEW n \in Nat,
         NEW moves \in [1..n -> {m \in Moves(three) : m.off + MinMatch <= end}]
  PROVE  AreMoves(three, end, n, moves)
<1>1. ASSUME NEW m \in Moves(three) PROVE IsMove(three, m)
  <2>0. Offsets \subseteq Nat \ {0} /\ Reaches \subseteq Nat
    BY BlockConstants
  <2>1. CASE m \in [what: {"offset"}, off: Offsets, ll0: BOOLEAN]
    <3>1. m.what = "offset" /\ m.off \in Offsets /\ m.ll0 \in BOOLEAN
      BY <2>1
    <3>2. \A x \in Offsets : x \in Nat /\ x >= 1
      BY <2>0
    <3>3. m.off \in Nat /\ m.off >= 1
      BY <3>1, <3>2, Zenon
    <3> QED BY <3>1, <3>3 DEF IsMove
  <2>2. CASE three /\ m \in [what: {"rep"}, off: {0}, ll0: BOOLEAN, code: 1..RepNum]
    BY <2>2 DEF IsMove
  <2>3. CASE ~three /\ m \in [what: {"ldm"}, off: Offsets, ll0: BOOLEAN, reach: Reaches]
    <3>a. m \in [what: {"ldm"}, off: Offsets, ll0: BOOLEAN, reach: Reaches]
      BY <2>3
    <3>1. m.what = "ldm" /\ m.off \in Offsets /\ m.ll0 \in BOOLEAN /\ m.reach \in Reaches
      BY <3>a
    <3>b. \A x \in Offsets : x \in Nat /\ x >= 1
      BY <2>0
    <3>2. m.off \in Nat /\ m.off >= 1 /\ m.reach \in Nat
      BY <3>1, <3>b, <2>0, Zenon
    <3> QED BY <2>3, <3>1, <3>2 DEF IsMove
  <2>4. CASE ~three /\ m = [what |-> "rep", off |-> 0, ll0 |-> FALSE]
    BY <2>4 DEF IsMove
  <2>5. CASE ~three /\ m = [what |-> "again", off |-> 0, ll0 |-> TRUE]
    BY <2>5 DEF IsMove
  <2> QED BY <1>1, <2>1, <2>2, <2>3, <2>4, <2>5 DEF Moves
<1>2. DOMAIN moves = 1..n
  OBVIOUS
<1>3. \A i \in 1..n : moves[i] \in Moves(three) /\ moves[i].off + 3 <= end
  BY DEF MinMatch
<1> QED BY <1>1, <1>2, <1>3 DEF AreMoves

\* What a search left of a block: its sequences, and the history it gave back.
Left(seqs, rep) == [rep |-> rep, seqs |-> seqs]

UnitSet == [seqs: Seq(SeqSet), len: Int, rle: BOOLEAN, bound: Nat, lits: SUBSET LitSymbols]

BlkSet == [start: Nat, end: Nat, built: BOOLEAN, found: Seq(SeqSet), rep: Reps,
           units: Seq(UnitSet)]

IsBuilt(b) == b.built = TRUE

(* What build_seq_store makes of a block.                                  *)
LEMMA BuildsFind ==
  ASSUME NEW three \in BOOLEAN, NEW start \in Nat, NEW end \in Nat, NEW rep \in Reps,
         Known(three, rep), NEW b \in Builds(three, start, end, rep)
  PROVE  /\ b \in BlkSet /\ b.start = start /\ b.end = end /\ b.units = <<>>
         /\ IsBuilt(b) => Finds(three, rep, end, Left(b.found, b.rep))
<1> DEFINE near == {m \in Moves(three) : m.off + MinMatch <= end}
           all == {Search(three, rep, reach, moves) :
                     reach \in Reaches, moves \in SeqOf(near, MaxSeqs)}
           good == {g \in all : g.ok}
           made == {Block(start, end, TRUE, g.seqs, g.rep) : g \in good}
<1>1. Builds(three, start, end, rep)
        = IF AttemptsCompression(end - start) THEN made
          ELSE {Block(start, end, FALSE, <<>>, RepStartValue)}
  BY DEF Builds
<1>2. RepStartValue \in Reps /\ <<>> \in Seq(SeqSet)
  BY DEF RepStartValue, Reps
<1> HIDE DEF made
<1>3. CASE ~AttemptsCompression(end - start)
  <2>1. b = Block(start, end, FALSE, <<>>, RepStartValue)
    BY <1>1, <1>3
  <2> QED BY <2>1, <1>2 DEF BlkSet, IsBuilt, Block
<1>4. CASE AttemptsCompression(end - start)
  <2>1. PICK reach \in Reaches, moves \in SeqOf(near, MaxSeqs) :
          LET f == Search(three, rep, reach, moves)
          IN  Possible(f) /\ b = Block(start, end, TRUE, f.seqs, f.rep)
    <3> HIDE DEF good, near, all
    <3>1. PICK g \in good : b = Block(start, end, TRUE, g.seqs, g.rep)
      BY <1>1, <1>4 DEF made
    <3>2. g \in all /\ Possible(g)
      <4>1. g \in {h \in all : h.ok}
        BY <3>1 DEF good
      <4>2. g \in all /\ g.ok
        BY <4>1, Zenon
      <4> QED BY <4>2, Zenon DEF Possible
    <3>3. PICK reach \in Reaches, moves \in SeqOf(near, MaxSeqs) :
            g = Search(three, rep, reach, moves)
      BY <3>2 DEF all
    <3> QED BY <3>1, <3>2, <3>3
  <2> DEFINE f == Search(three, rep, reach, moves)
  <2>2. end >= 3
    BY <1>4 DEF AttemptsCompression, MinCBlockSize, BlockHeaderSize
  <2>3. PICK n \in 0..MaxSeqs : moves \in [1..n -> near]
    BY DEF SeqOf
  <2>4. n \in Nat /\ reach \in Nat
    BY BlockConstants
  <2>5. AreMoves(three, end, n, moves)
    BY <2>3, <2>4, MovesAreMoves
  <2>6. Possible(f)
    BY <2>1
  <2> HIDE DEF near
  <2>7. Finds(three, rep, end, f)
    BY <2>2, <2>4, <2>5, <2>6, SearchFinds
  <2>8. b = Block(start, end, TRUE, f.seqs, f.rep)
    BY <2>1
  <2> HIDE DEF f
  <2>9. f.rep \in Reps /\ f.seqs \in Seq(SeqSet)
    BY <2>7 DEF Finds, Found
  <2>10. /\ b \in BlkSet /\ b.start = start /\ b.end = end /\ b.units = <<>>
         /\ b.found = f.seqs /\ b.rep = f.rep
    BY <2>8, <2>9 DEF BlkSet, Block
  <2>11. Finds(three, rep, end, Left(b.found, b.rep))
    BY <2>7, <2>10 DEF Finds, Left
  <2> QED BY <2>10, <2>11
<1> QED BY <1>3, <1>4

-----------------------------------------------------------------------------
(* What a unit is written as.                                              *)

(* Histories agree through a third.                                        *)
LEMMA AgreeThrough ==
  ASSUME NEW three \in BOOLEAN, NEW a, NEW b, NEW c, Agree(three, a, b), Agree(three, b, c)
  PROVE  Agree(three, a, c)
BY DEF Agree

\* r is what a unit with sequences seqs is written from, beside a decoder's
\* history hist: the decoder copies every match from where it was found, and
\* then holds what the encoder commits; the first unit's codes are below lim.
Emits(three, hist, lim, i, seqs, r) ==
    /\ r.d \in Reps /\ Known(three, r.d) /\ r.c \in Reps
    /\ DecodeSequences(hist, r.seqs).offs = [k \in 1..Len(seqs) |-> seqs[k].raw]
    /\ Agree(three, r.d, DecodeSequences(hist, r.seqs).hist)
    /\ \A k \in 1..Len(r.seqs) : /\ r.seqs[k].ob \in Nat /\ r.seqs[k].ob >= 1
                                 /\ i = 1 => r.seqs[k].ob <= lim

(* The history after what was found is known.                              *)
LEMMA FoundKnown ==
  ASSUME NEW three \in BOOLEAN, NEW seqs, NEW h, Found(three, seqs, h), Known(three, h[0])
  PROVE  Known(three, h[Len(seqs)])
<1> DEFINE n == Len(seqs)
<1>1. n \in Nat
  BY DEF Found
<1>2. CASE n = 0
  BY <1>2
<1>3. CASE n # 0
  <2>1. n \in 1..n
    BY <1>1, <1>3
  <2>2. h[n] \in Reps /\ h[n][1] = seqs[n].raw /\ IsSeq(three, seqs[n])
    BY <2>1 DEF Found
  <2>3. h[n][1] # 0
    BY <2>2 DEF IsSeq
  <2> QED BY <2>3 DEF Known
<1> QED BY <1>2, <1>3

(* A block kept whole carries the offsets its search gave back.            *)
LEMMA WholeEmits ==
  ASSUME NEW three \in BOOLEAN, NEW rep \in Reps, NEW lim, NEW seqs, NEW after,
         Finds(three, rep, lim, Left(seqs, after)),
         NEW hist, Agree(three, rep, hist), NEW c \in Reps
  PROVE  Emits(three, hist, lim, 1, seqs, [d |-> after, c |-> c, seqs |-> seqs])
<1> DEFINE r == [d |-> after, c |-> c, seqs |-> seqs]
<1>1. PICK h : /\ Found(three, seqs, h) /\ h[0] = rep
               /\ Agree(three, after, h[Len(seqs)])
  BY DEF Finds, Left
<1>2. after \in Reps /\ Known(three, after) /\ Below(lim, seqs)
  BY DEF Finds, Left
<1>3. /\ DecodeSequences(hist, seqs).offs = [k \in 1..Len(seqs) |-> seqs[k].raw]
      /\ Agree(three, h[Len(seqs)], DecodeSequences(hist, seqs).hist)
  BY <1>1, DecodeFound
<1>4. Agree(three, after, DecodeSequences(hist, seqs).hist)
  BY <1>1, <1>3, AgreeThrough
<1>5. \A k \in 1..Len(seqs) : /\ seqs[k].ob \in Nat /\ seqs[k].ob >= 1
                              /\ seqs[k].ob <= lim
  BY <1>1, <1>2 DEF Found, IsSeq, Below
<1>6. r.d = after /\ r.c = c /\ r.seqs = seqs
  OBVIOUS
<1> HIDE DEF r
<1>7. Emits(three, hist, lim, 1, seqs, r)
  BY <1>2, <1>3, <1>4, <1>5, <1>6 DEF Emits
<1> QED BY <1>7 DEF r

(* A partition is resolved to the decoder's history.                       *)
LEMMA PartEmits ==
  ASSUME NEW three \in BOOLEAN, NEW seqs, NEW h, Found(three, seqs, h),
         NEW d \in Reps, Known(three, d), NEW hist, Agree(three, d, hist),
         NEW lim, NEW i \in {1, 2},
         i = 1 => d = h[0] /\ Below(lim, seqs)
  PROVE  LET r == ResolveOffCodes(d, h[0], seqs)
         IN  r.c = h[Len(seqs)] /\ Emits(three, hist, lim, i, seqs, r)
<1> DEFINE r == ResolveOffCodes(d, h[0], seqs)
<1>1. /\ r.c = h[Len(seqs)]
      /\ d = h[0] => r.seqs = seqs
      /\ \E g : /\ Found(three, r.seqs, g) /\ g[0] = d
                /\ r.d = g[Len(r.seqs)] /\ Len(r.seqs) = Len(seqs)
                /\ \A j \in 1..Len(seqs) : r.seqs[j].raw = seqs[j].raw
  BY ResolveFound
<1> HIDE DEF r
<1>2. PICK g : /\ Found(three, r.seqs, g) /\ g[0] = d
               /\ r.d = g[Len(r.seqs)] /\ Len(r.seqs) = Len(seqs)
               /\ \A j \in 1..Len(seqs) : r.seqs[j].raw = seqs[j].raw
  BY <1>1
<1>3. r.c \in Reps /\ r.d \in Reps
  BY <1>1, <1>2, FoundReps
<1>4. Known(three, r.d)
  BY <1>2, FoundKnown
<1>5. /\ DecodeSequences(hist, r.seqs).offs = [k \in 1..Len(r.seqs) |-> r.seqs[k].raw]
      /\ Agree(three, r.d, DecodeSequences(hist, r.seqs).hist)
  BY <1>2, DecodeFound
<1>6. [k \in 1..Len(r.seqs) |-> r.seqs[k].raw] = [k \in 1..Len(seqs) |-> seqs[k].raw]
  BY <1>2
<1>7. \A k \in 1..Len(r.seqs) : r.seqs[k].ob \in Nat /\ r.seqs[k].ob >= 1
  BY <1>2 DEF Found, IsSeq
<1>8. i = 1 => \A k \in 1..Len(r.seqs) : r.seqs[k].ob <= lim
  BY <1>1 DEF Below
<1>9. Emits(three, hist, lim, i, seqs, r)
  BY <1>3, <1>4, <1>5, <1>6, <1>7, <1>8 DEF Emits
<1> QED BY <1>1, <1>9 DEF r

\* The partitions of a block split in two, s1 and s2, at the i-th of them.
Parts(three, lim, i, c, d, s1, s2) ==
    /\ i = 1 => /\ c = d /\ Below(lim, s1)
                /\ \E h : /\ Found(three, s1, h) /\ h[0] = c
                          /\ \E g : Found(three, s2, g) /\ g[0] = h[Len(s1)]
    /\ i = 2 => \E g : Found(three, s2, g) /\ g[0] = c

(* Where a block is cut, its search is two.                                *)
LEMMA CutIsParts ==
  ASSUME NEW three \in BOOLEAN, NEW rep, NEW lim, NEW seqs, NEW after,
         Finds(three, rep, lim, Left(seqs, after)), NEW k \in 1..(Len(seqs) - 1)
  PROVE  /\ Parts(three, lim, 1, rep, rep, SubSeq(seqs, 1, k),
                  SubSeq(seqs, k + 1, Len(seqs)))
         /\ SubSeq(seqs, 1, k) \in Seq(SeqSet)
         /\ SubSeq(seqs, k + 1, Len(seqs)) \in Seq(SeqSet)
<1> DEFINE s1 == SubSeq(seqs, 1, k)
           s2 == SubSeq(seqs, k + 1, Len(seqs))
<1>1. PICK h : Found(three, seqs, h) /\ h[0] = rep
  BY DEF Finds, Left
<1>2. Below(lim, seqs)
  BY DEF Finds, Left
<1>3. seqs \in Seq(SeqSet) /\ Len(seqs) \in Nat /\ k \in 0..Len(seqs)
  BY <1>1 DEF Found
<1> DEFINE g == [i \in 0..(Len(seqs) - k) |-> h[k + i]]
<1>4. Found(three, s1, h) /\ Found(three, s2, g)
  BY <1>1, <1>3, FoundParts
<1>5. Len(s1) = k /\ \A i \in 1..k : s1[i] = seqs[i]
  BY <1>3
<1>6. g[0] = h[k]
  BY <1>3
<1>7. Below(lim, s1)
  BY <1>2, <1>3, <1>5 DEF Below
<1> HIDE DEF s1, s2, g
<1>8. \E f : Found(three, s2, f) /\ f[0] = h[Len(s1)]
  BY <1>4, <1>5, <1>6
<1>9. Parts(three, lim, 1, rep, rep, s1, s2)
  BY <1>1, <1>4, <1>7, <1>8 DEF Parts
<1>10. s1 \in Seq(SeqSet) /\ s2 \in Seq(SeqSet)
  BY <1>4 DEF Found
<1> QED BY <1>9, <1>10 DEF s1, s2

(* The first partition of two.                                             *)
LEMMA FirstPartEmits ==
  ASSUME NEW three \in BOOLEAN, NEW lim, NEW c, NEW d \in Reps, Known(three, d),
         NEW s1, NEW s2, Parts(three, lim, 1, c, d, s1, s2),
         NEW hist, Agree(three, d, hist)
  PROVE  LET r == ResolveOffCodes(d, c, s1)
         IN  /\ Emits(three, hist, lim, 1, s1, r)
             /\ \A e : Parts(three, lim, 2, r.c, e, s1, s2)
<1>1. PICK h : /\ Found(three, s1, h) /\ h[0] = c
               /\ \E g : Found(three, s2, g) /\ g[0] = h[Len(s1)]
  BY DEF Parts
<1>2. c = d /\ Below(lim, s1)
  BY DEF Parts
<1> DEFINE r == ResolveOffCodes(d, c, s1)
<1>3. r.c = h[Len(s1)] /\ Emits(three, hist, lim, 1, s1, r)
  BY <1>1, <1>2, PartEmits
<1> HIDE DEF r
<1>4. \A e : Parts(three, lim, 2, r.c, e, s1, s2)
  BY <1>1, <1>3 DEF Parts
<1> QED BY <1>3, <1>4 DEF r

(* The second.                                                             *)
LEMMA SecondPartEmits ==
  ASSUME NEW three \in BOOLEAN, NEW lim, NEW c, NEW d \in Reps, Known(three, d),
         NEW s1, NEW s2, Parts(three, lim, 2, c, d, s1, s2),
         NEW hist, Agree(three, d, hist)
  PROVE  LET r == ResolveOffCodes(d, c, s2)
         IN  Emits(three, hist, lim, 2, s2, r)
<1>1. PICK h : Found(three, s2, h) /\ h[0] = c
  BY DEF Parts
<1> QED BY <1>1, PartEmits

-----------------------------------------------------------------------------
(* The inductive invariant.                                                *)

\* A block is being written.  The plain loop is never at "overlap", nor at
\* "joined": the pipelined one is there too, and keeps the same invariant.
Emitting == pc \in {"emit", "overlap"}

TypeInv ==
    /\ jb \in CursorSet /\ input \in InputEnd
    /\ pc \in {"idle", "cut", "joined", "derive", "emit", "overlap"}
    /\ blk \in BlkSet
    /\ emit \in [i: Nat, d: Reps, c: Reps, all: BOOLEAN, gain: Int]
    /\ job \in [three: BOOLEAN, cuts: Cuts]
    /\ st = [rep |-> st.rep, ent |-> st.ent] /\ st.rep \in Reps
    /\ DOMAIN st.ent = Tables /\ \A t \in Tables : IsSlots(st.ent[t])

\* The block in hand is at the cursor; what is written of it was committed.
PlaceInv ==
    /\ pc = "derive" \/ Emitting => /\ blk.start = NextStart(jb) /\ blk.start <= blk.end
                                    /\ blk.end <= blk.start + BlockSizeMax
    /\ ~Emitting => blk.units = <<>>
    /\ emit.i >= 1
    /\ Emitting => Len(blk.units) <= 2 /\ emit.d = st.rep

\* What the encoder committed to the decoder holds, and what is left of the
\* block in hand was found from it.
RepInv ==
    /\ Known(job.three, st.rep) /\ Agree(job.three, st.rep, dec.rep)
    /\ pc = "derive" /\ IsBuilt(blk) =>
         Finds(job.three, st.rep, blk.end, Left(blk.found, blk.rep))
    /\ Emitting /\ Len(blk.units) = 1 /\ emit.i = 1 =>
         Finds(job.three, st.rep, blk.end, Left(blk.units[1].seqs, blk.rep))
    /\ Emitting /\ Len(blk.units) = 2 =>
         Parts(job.three, blk.end, emit.i, emit.c, st.rep,
               blk.units[1].seqs, blk.units[2].seqs)

\* A table with a mode is the decoder's; a valid one codes every literal, or
\* every offset of a first block, of which nothing is written yet.
EntInv ==
    \A t \in Tables :
      /\ st.ent[t].mode # "None" => HeldTable(st.ent[t]) = dec.tables[t]
      /\ t = "huf" /\ st.ent[t].mode = "Valid" => LitSymbols \subseteq HeldTable(st.ent[t])
      /\ t = "of" /\ st.ent[t].mode = "Valid" =>
           /\ 0..OffCode(Content + BlockSizeMax) \subseteq HeldTable(st.ent[t])
           /\ NextStart(jb) <= Content /\ (Emitting => emit.i = 1)

ReadInv ==
    /\ read.kind = "Compressed" => read.offs = read.raws
    /\ SectionsAreDecodable

IInv == TypeInv /\ PlaceInv /\ RepInv /\ EntInv /\ ReadInv

(* The invariant is what is claimed.                                       *)
LEMMA IInvImplies ==
  IInv => MatchesDecodeAsFound /\ CommittedTablesAreTheDecoders /\ SectionsAreDecodable
<1> SUFFICES ASSUME IInv
             PROVE  MatchesDecodeAsFound /\ CommittedTablesAreTheDecoders
                    /\ SectionsAreDecodable
  OBVIOUS
<1>1. SectionsAreDecodable /\ CommittedTablesAreTheDecoders
  BY DEF IInv, TypeInv, ReadInv, EntInv, CommittedTablesAreTheDecoders
<1>2. Len(blk.units) > 1 /\ Emitted => st.rep = emit.d
  BY DEF IInv, PlaceInv, TypeInv, Emitting
<1>3. \A k \in 1..(IF job.three THEN 3 ELSE 2) :
        st.rep[k] # 0 => st.rep[k] = dec.rep[k]
  <2>1. job.three \in BOOLEAN /\ Agree(job.three, st.rep, dec.rep)
    BY DEF IInv, TypeInv, RepInv
  <2>2. CASE job.three = TRUE
    BY <2>1, <2>2 DEF Agree
  <2>3. CASE job.three = FALSE
    BY <2>1, <2>3 DEF Agree
  <2> QED BY <2>1, <2>2, <2>3
<1> QED BY <1>1, <1>2, <1>3 DEF MatchesDecodeAsFound, IInv, ReadInv

(* A job starts from what its decoder holds.                               *)
LEMMA InitInv == Init => IInv
<1> SUFFICES ASSUME Init PROVE IInv
  OBVIOUS
<1>1. PICK start \in JobStarts :
      /\ jb = NewJobBlocks(SizingOf, IF start = "First" THEN 0 ELSE Content,
                           start # "Later", TRUE)
      /\ st = JobState(start)
      /\ dec \in DecoderStates(start)
      /\ input = [kind |-> "Chunk", end |-> 0]
      /\ pc = "idle" /\ blk = NoBlock /\ emit = NoEmit /\ read = NoRead
      /\ job \in [three : Threes, cuts : Cuts]
  BY DEF Init, SizingOf
<1>2. start \in {"First", "Dict", "Later"} /\ Content \in Nat /\ ChunkSize \in Nat
      /\ Threes \subseteq BOOLEAN
  BY BlockConstants
<1>3. jb = [sizing |-> SizingOf, jobStart |-> IF start = "First" THEN 0 ELSE Content,
            firstJob |-> start # "Later", lastJob |-> TRUE, done |-> 0,
            firstChunkEnd |-> ChunkSize, gained |-> 0]
  BY <1>1 DEF NewJobBlocks, SizingOf
<1>4. jb \in CursorSet /\ NextStart(jb) <= Content
  BY <1>2, <1>3 DEF CursorSet, NextStart
<1>5. st.rep = (CASE start = "First" -> RepStartValue
                  [] start = "Dict"  -> DictRep
                  [] start = "Later" -> <<0, 0, 0>>)
      /\ st.ent = [t \in Tables |-> Begun(start, t)]
      /\ st = [rep |-> st.rep, ent |-> st.ent]
  BY <1>1 DEF JobState, Begun
<1>6. /\ st.rep \in Reps
      /\ st.rep[1] = 0 => st.rep = <<0, 0, 0>>
      /\ start = "Later" => st.rep = <<0, 0, 0>>
  <2>1. CASE start = "First"
    BY <1>5, <2>1 DEF RepStartValue, Reps
  <2>2. CASE start = "Dict"
    <3>1. DictRep \in (1..Content) \X (1..Content) \X (1..Content)
      BY <2>2, BlockConstants
    <3>2. st.rep = DictRep
      BY <1>5, <2>2
    <3> QED BY <3>1, <3>2, <1>2, <2>2 DEF Reps
  <2>3. CASE start = "Later"
    BY <1>5, <2>3 DEF Reps
  <2> QED BY <1>2, <2>1, <2>2, <2>3
<1>7. ASSUME NEW t \in Tables
      PROVE  /\ st.ent[t] = Begun(start, t) /\ IsSlots(st.ent[t])
             /\ start # "Dict" => st.ent[t].mode = "None"
             /\ t = "huf" /\ st.ent[t].mode = "Valid" => LitSymbols \subseteq HeldTable(st.ent[t])
             /\ t = "of" /\ st.ent[t].mode = "Valid" =>
                  0..OffCode(Content + BlockSizeMax) \subseteq HeldTable(st.ent[t])
  <2>1. st.ent[t] = Begun(start, t)
    BY <1>5
  <2>2. t \in {"huf", "of"}
    BY SlotConstants
  <2> QED BY <1>2, <2>1, <2>2, BegunSlots
<1>8. TypeInv
  <2>1. job \in [three: BOOLEAN, cuts: Cuts]
    BY <1>1, <1>2
  <2>2. blk \in BlkSet
    BY <1>1 DEF BlkSet, NoBlock, Block, RepStartValue, Reps
  <2>3. emit \in [i: Nat, d: Reps, c: Reps, all: BOOLEAN, gain: Int]
    BY <1>1 DEF NoEmit, Emission, RepStartValue, Reps
  <2>4. input \in InputEnd
    BY <1>1 DEF InputEnd
  <2> QED BY <1>1, <1>4, <1>5, <1>6, <1>7, <2>1, <2>2, <2>3, <2>4 DEF TypeInv
<1>9. PlaceInv
  BY <1>1 DEF PlaceInv, Emitting, NoBlock, Block, NoEmit, Emission
<1>10. dec.rep = st.rep \/ st.rep = <<0, 0, 0>>
  <2>1. CASE start = "Later"
    BY <1>6, <2>1
  <2>2. CASE start # "Later"
    BY <1>1, <2>2 DEF DecoderStates
  <2> QED BY <2>1, <2>2
<1>11. RepInv
  <2>1. Agree(job.three, st.rep, dec.rep)
    BY <1>6, <1>10 DEF Agree
  <2>2. Known(job.three, st.rep)
    BY <1>6 DEF Known
  <2> QED BY <2>1, <2>2, <1>1 DEF RepInv, Emitting
<1>12. EntInv
  <2> SUFFICES ASSUME NEW t \in Tables
               PROVE st.ent[t].mode # "None" => HeldTable(st.ent[t]) = dec.tables[t]
    BY <1>1, <1>4, <1>7 DEF EntInv, Emitting
  <2>1. CASE start # "Dict"
    BY <1>7, <2>1
  <2>2. CASE start = "Dict"
    <3>1. dec = [rep |-> JobState(start).rep,
                 tables |-> [u \in Tables |-> HeldTable(JobState(start).ent[u])]]
      BY <1>1, <2>2 DEF DecoderStates
    <3>2. dec.tables = [u \in Tables |-> HeldTable(st.ent[u])]
      BY <3>1, <1>1
    <3> QED BY <3>2
  <2> QED BY <2>1, <2>2
<1>13. ReadInv
  BY <1>1 DEF ReadInv, SectionsAreDecodable, NoRead
<1> QED BY <1>8, <1>9, <1>11, <1>12, <1>13 DEF IInv

-----------------------------------------------------------------------------
(* The steps.                                                              *)

(* A call begins.                                                          *)
LEMMA CallInv == ASSUME IInv, NEW i \in Inputs, Call(i) PROVE IInv'
<1>1. TypeInv' /\ PlaceInv'
  <2>1. i \in InputEnd
    BY BlockConstants
  <2> QED BY <2>1 DEF IInv, TypeInv, PlaceInv, Call, NextStart, Emitting
<1>2. RepInv' /\ EntInv' /\ ReadInv'
  BY DEF IInv, RepInv, EntInv, ReadInv, SectionsAreDecodable, Call, NextStart, Emitting
<1> QED BY <1>1, <1>2 DEF IInv

(* And returns.                                                            *)
LEMMA ReturnInv == ASSUME IInv, Return PROVE IInv'
<1>1. jb' \in CursorSet /\ NextStart(jb') = NextStart(jb)
  <2>1. jb \in CursorSet /\ input.end \in Nat
    BY DEF IInv, TypeInv, InputEnd
  <2>2. CASE input.kind # "Chunk"
    BY <2>1, <2>2 DEF Return, InputEnded
  <2>3. CASE input.kind = "Chunk"
    <3> DEFINE e == Least(jb.firstChunkEnd, input.end - jb.jobStart)
    <3>1. jb' = [jb EXCEPT !.firstChunkEnd = e]
      BY <2>3 DEF Return, InputEnded
    <3>2. e \in Int
      BY <2>1 DEF CursorSet, Least
    <3> HIDE DEF e
    <3> QED BY <2>1, <3>1, <3>2 DEF CursorSet, NextStart
  <2> QED BY <2>2, <2>3
<1>2. TypeInv' /\ PlaceInv'
  BY <1>1 DEF IInv, TypeInv, PlaceInv, Return, Emitting
<1>3. RepInv' /\ EntInv' /\ ReadInv'
  BY <1>1 DEF IInv, RepInv, EntInv, ReadInv, SectionsAreDecodable, Return, Emitting
<1> QED BY <1>2, <1>3 DEF IInv

(* A block is cut and searched from the offsets committed.                 *)
LEMMA TakeInv ==
  ASSUME IInv, HasReady(jb, input), pc' = "derive",
         blk' \in Builds(job.three, NextStart(jb),
                         NextBlockEnd(jb, input, NextStart(jb) \in job.cuts), st.rep),
         UNCHANGED <<jb, input, emit, st, dec, read, job>>
  PROVE  IInv'
<1> DEFINE start == NextStart(jb)
           end == NextBlockEnd(jb, input, start \in job.cuts)
<1>1. /\ jb \in CursorSet /\ input \in InputEnd /\ job.three \in BOOLEAN
      /\ st.rep \in Reps /\ Known(job.three, st.rep)
  BY DEF IInv, TypeInv, RepInv
<1>2. HasReady(jb, input) /\ blk' \in Builds(job.three, start, end, st.rep)
  OBVIOUS
<1>3. start \in Nat /\ end \in Nat /\ start <= end /\ end <= start + BlockSizeMax
  BY <1>1, <1>2, BlockEndsInReach
<1> HIDE DEF start, end
<1>4. /\ blk' \in BlkSet /\ blk'.start = start /\ blk'.end = end /\ blk'.units = <<>>
      /\ IsBuilt(blk') => Finds(job.three, st.rep, end, Left(blk'.found, blk'.rep))
  BY <1>1, <1>2, <1>3, BuildsFind
<1>5. UNCHANGED <<jb, input, emit, st, dec, read, job>> /\ pc' = "derive"
  OBVIOUS
<1>7. TypeInv'
  BY <1>4, <1>5 DEF IInv, TypeInv
<1>8. PlaceInv'
  BY <1>3, <1>4, <1>5 DEF IInv, PlaceInv, start, Emitting
<1>9. RepInv'
  <2>1. IsBuilt(blk') => Finds(job'.three, st'.rep, blk'.end, Left(blk'.found, blk'.rep))
    BY <1>4, <1>5
  <2>2. Known(job'.three, st'.rep) /\ Agree(job'.three, st'.rep, dec'.rep)
    BY <1>5 DEF IInv, RepInv
  <2> QED BY <2>1, <2>2, <1>5 DEF RepInv, Emitting
<1>10. EntInv' /\ ReadInv'
  BY <1>5 DEF IInv, EntInv, ReadInv, SectionsAreDecodable, Emitting
<1> QED BY <1>7, <1>8, <1>9, <1>10 DEF IInv

(* So CutAndFind does.                                                     *)
LEMMA CutAndFindInv == ASSUME IInv, CutAndFind PROVE IInv'
BY TakeInv DEF CutAndFind

(* The units a block may be written as: none, the block, or two of it.     *)
LEMMA CuttingShapes ==
  ASSUME NEW b, b.end \in Nat, b.start \in Nat, b.built \in BOOLEAN,
         b.found \in Seq(SeqSet), NEW units \in Cuttings(b)
  PROVE  \/ ~IsBuilt(b) /\ units = <<>>
         \/ /\ IsBuilt(b)
            /\ \E u \in UnitSet : /\ units = <<u>> /\ u.seqs = b.found
                                  /\ u.len = b.end - b.start
         \/ /\ IsBuilt(b)
            /\ \E k \in 1..(Len(b.found) - 1), u1 \in UnitSet, u2 \in UnitSet :
                 /\ units = <<u1, u2>>
                 /\ u1.seqs = SubSeq(b.found, 1, k)
                 /\ u2.seqs = SubSeq(b.found, k + 1, Len(b.found))
                 /\ u1.len = (b.end - b.start) \div 2
                 /\ u2.len = (b.end - b.start) - (b.end - b.start) \div 2
<1> DEFINE len == b.end - b.start
           n   == Len(b.found)
           whole == {<<Unit(b.found, len, r, bd, l)>> :
                       r \in BOOLEAN, bd \in Bounds, l \in Literals}
           cutAt(k) == {<<Unit(SubSeq(b.found, 1, k), len \div 2, r1, b1, l1),
                          Unit(SubSeq(b.found, k + 1, n), len - len \div 2, r2, b2, l2)>> :
                          r1 \in BOOLEAN, r2 \in BOOLEAN, b1 \in Bounds, b2 \in Bounds,
                          l1 \in Literals, l2 \in Literals}
           cuts == UNION {cutAt(k) : k \in 1..(n - 1)}
<1>1. Cuttings(b) = IF ~b.built THEN {<<>>}
                    ELSE whole \cup (IF Split THEN cuts ELSE {})
  BY DEF Cuttings
<1>2. Literals \subseteq SUBSET LitSymbols /\ Bounds \subseteq Nat /\ len \in Int /\ n \in Nat
  BY BlockConstants DEF Literals
<1>3. len \div 2 \in Int /\ len - len \div 2 \in Int
  BY <1>2
<1>4. ASSUME NEW s \in Seq(SeqSet), NEW k \in Int, NEW r \in BOOLEAN, NEW bd \in Bounds,
             NEW l \in Literals
      PROVE  /\ Unit(s, k, r, bd, l) \in UnitSet
             /\ Unit(s, k, r, bd, l).seqs = s /\ Unit(s, k, r, bd, l).len = k
  BY <1>2 DEF Unit, UnitSet
<1> HIDE DEF len
<1>5. CASE ~IsBuilt(b) /\ units = <<>>
  BY <1>5
<1>6. CASE IsBuilt(b) /\ units \in whole
  <2>1. PICK r \in BOOLEAN, bd \in Bounds, l \in Literals :
          units = <<Unit(b.found, len, r, bd, l)>>
    <3> HIDE DEF n
    <3> QED BY <1>6
  <2> DEFINE u == Unit(b.found, len, r, bd, l)
  <2>2. u \in UnitSet /\ u.seqs = b.found /\ u.len = len
    BY <1>2, <1>4
  <2> HIDE DEF u
  <2>3. units = <<u>>
    BY <2>1 DEF u
  <2> QED BY <1>6, <2>2, <2>3 DEF len
<1>7. CASE IsBuilt(b) /\ units \in cuts
  <2>1. PICK k \in 1..(n - 1) : units \in cutAt(k)
    BY <1>7
  <2>2. PICK r1 \in BOOLEAN, r2 \in BOOLEAN, b1 \in Bounds, b2 \in Bounds,
             l1 \in Literals, l2 \in Literals :
          units = <<Unit(SubSeq(b.found, 1, k), len \div 2, r1, b1, l1),
                    Unit(SubSeq(b.found, k + 1, n), len - len \div 2, r2, b2, l2)>>
    BY <2>1
  <2> DEFINE s1 == SubSeq(b.found, 1, k)
             s2 == SubSeq(b.found, k + 1, n)
             h1 == len \div 2
             h2 == len - len \div 2
             u1 == Unit(s1, h1, r1, b1, l1)
             u2 == Unit(s2, h2, r2, b2, l2)
  <2>3. s1 \in Seq(SeqSet) /\ s2 \in Seq(SeqSet)
    BY <1>2
  <2>4. h1 \in Int /\ h2 \in Int
    BY <1>3
  <2>5. units = <<u1, u2>>
    BY <2>2
  <2> HIDE DEF s1, s2, h1, h2
  <2>6. u1 \in UnitSet /\ u1.seqs = s1 /\ u1.len = h1
    BY <1>4, <2>3, <2>4
  <2>7. u2 \in UnitSet /\ u2.seqs = s2 /\ u2.len = h2
    BY <1>4, <2>3, <2>4
  <2> HIDE DEF u1, u2
  <2>8. \E v1 \in UnitSet, v2 \in UnitSet :
          /\ units = <<v1, v2>> /\ v1.seqs = s1 /\ v2.seqs = s2
          /\ v1.len = h1 /\ v2.len = h2
    BY <2>5, <2>6, <2>7
  <2> QED BY <1>7, <2>8, SMTT(30) DEF s1, s2, h1, h2, len
<1> HIDE DEF whole, cuts
<1>8. (~IsBuilt(b) /\ units = <<>>) \/ (IsBuilt(b) /\ units \in whole) \/ (IsBuilt(b) /\ units \in cuts)
  <2>1. CASE b.built = TRUE
    BY <1>1, <2>1 DEF IsBuilt
  <2>2. CASE b.built = FALSE
    BY <1>1, <2>2 DEF IsBuilt
  <2> QED BY <2>1, <2>2
<1> QED BY <1>5, <1>6, <1>7, <1>8

(* Each found from where the search of the block was.                      *)
LEMMA CuttingsAre ==
  ASSUME NEW b, b.end \in Nat, b.start \in Nat, b.built \in BOOLEAN,
         b.found \in Seq(SeqSet), NEW three \in BOOLEAN, NEW rep,
         IsBuilt(b) => Finds(three, rep, b.end, Left(b.found, b.rep)),
         NEW units \in Cuttings(b)
  PROVE  /\ units \in Seq(UnitSet) /\ Len(units) <= 2
         /\ Len(units) = 1 => Finds(three, rep, b.end, Left(units[1].seqs, b.rep))
         /\ Len(units) = 2 => Parts(three, b.end, 1, rep, rep, units[1].seqs, units[2].seqs)
<1>1. CASE units = <<>>
  BY <1>1
<1>2. CASE /\ IsBuilt(b)
           /\ \E u \in UnitSet : units = <<u>> /\ u.seqs = b.found
  <2>1. PICK u \in UnitSet : units = <<u>> /\ u.seqs = b.found
    BY <1>2
  <2>2. units \in Seq(UnitSet) /\ Len(units) = 1 /\ units[1] = u
    BY <2>1
  <2> QED BY <1>2, <2>1, <2>2
<1>3. CASE /\ IsBuilt(b)
           /\ \E k \in 1..(Len(b.found) - 1), u1 \in UnitSet, u2 \in UnitSet :
                /\ units = <<u1, u2>>
                /\ u1.seqs = SubSeq(b.found, 1, k)
                /\ u2.seqs = SubSeq(b.found, k + 1, Len(b.found))
  <2>1. PICK k \in 1..(Len(b.found) - 1), u1 \in UnitSet, u2 \in UnitSet :
          /\ units = <<u1, u2>>
          /\ u1.seqs = SubSeq(b.found, 1, k)
          /\ u2.seqs = SubSeq(b.found, k + 1, Len(b.found))
    BY <1>3
  <2>2. Parts(three, b.end, 1, rep, rep, u1.seqs, u2.seqs)
    BY <1>3, <2>1, CutIsParts
  <2>3. units \in Seq(UnitSet) /\ Len(units) = 2 /\ units[1] = u1 /\ units[2] = u2
    BY <2>1
  <2> QED BY <2>2, <2>3
<1> QED BY <1>1, <1>2, <1>3, CuttingShapes

(* The block in hand is cut into the units to write.                       *)
LEMMA CutInv ==
  ASSUME IInv, pc = "derive", Emitting', NEW units \in Cuttings(blk), StartEmit(units),
         UNCHANGED <<jb, input, st, dec, read, job>>
  PROVE  IInv'
<1>2. /\ pc = "derive" /\ Emitting' /\ UNCHANGED <<jb, input, st, dec, read, job>>
      /\ blk' = [blk EXCEPT !.units = units]
      /\ emit' = [i |-> 1, d |-> st.rep, c |-> st.rep, all |-> TRUE, gain |-> 0]
  BY DEF StartEmit, Emission
<1>3. /\ units \in Seq(UnitSet) /\ Len(units) <= 2
      /\ Len(units) = 1 => Finds(job.three, st.rep, blk.end, Left(units[1].seqs, blk.rep))
      /\ Len(units) = 2 => Parts(job.three, blk.end, 1, st.rep, st.rep,
                                 units[1].seqs, units[2].seqs)
  <2>1. /\ blk.end \in Nat /\ blk.start \in Nat /\ blk.built \in BOOLEAN
        /\ blk.found \in Seq(SeqSet) /\ job.three \in BOOLEAN
        /\ IsBuilt(blk) => Finds(job.three, st.rep, blk.end, Left(blk.found, blk.rep))
    BY <1>2 DEF IInv, TypeInv, RepInv, BlkSet
  <2> QED BY <2>1, CuttingsAre
<1>4. /\ blk' \in BlkSet
      /\ blk'.start = blk.start /\ blk'.end = blk.end /\ blk'.rep = blk.rep
      /\ blk'.units = units
  BY <1>2, <1>3 DEF IInv, TypeInv, BlkSet
<1>5. /\ emit' \in [i: Nat, d: Reps, c: Reps, all: BOOLEAN, gain: Int]
      /\ emit'.i = 1 /\ emit'.c = st.rep /\ emit'.d = st.rep
  BY <1>2 DEF IInv, TypeInv
<1>6. TypeInv'
  BY <1>2, <1>4, <1>5 DEF IInv, TypeInv, Emitting
<1>7. PlaceInv'
  BY <1>2, <1>3, <1>4, <1>5 DEF IInv, PlaceInv
<1>8. RepInv'
  BY <1>2, <1>3, <1>4, <1>5 DEF IInv, RepInv, Emitting
<1>9. EntInv' /\ ReadInv'
  BY <1>2, <1>5 DEF IInv, EntInv, ReadInv, SectionsAreDecodable
<1> QED BY <1>6, <1>7, <1>8, <1>9 DEF IInv

(* So Derive does.                                                         *)
LEMMA DeriveInv == ASSUME IInv, Derive PROVE IInv'
BY CutInv DEF Derive, Emitting

(* The block is accounted.                                                 *)
LEMMA WroteInv ==
  ASSUME IInv, Emitting, Emitted, pc' \in {"cut", "joined"},
         jb' = Wrote(jb, blk.end, emit.gain), blk' = NoBlock, emit' = NoEmit, read' = NoRead,
         UNCHANGED <<input, st, dec, job>>
  PROVE  IInv'
<1>1. /\ emit.i > 1 /\ UNCHANGED <<input, st, dec, job>>
      /\ jb' = [jb EXCEPT !.done = blk.end - jb.jobStart, !.gained = @ + emit.gain]
      /\ blk' = NoBlock /\ emit' = NoEmit /\ read' = NoRead
  BY DEF Emitted, Wrote
<1>2. /\ jb \in CursorSet /\ blk.start = NextStart(jb) /\ blk.start <= blk.end
      /\ emit.gain \in Int /\ blk.end \in Nat
  BY <1>1 DEF IInv, TypeInv, PlaceInv, BlkSet
<1>3. blk.end - jb.jobStart \in Nat /\ jb.gained + emit.gain \in Int
  BY <1>2 DEF CursorSet, NextStart
<1>4. jb' \in CursorSet
  <2> DEFINE d == blk.end - jb.jobStart
             g == jb.gained + emit.gain
  <2>1. jb' = [jb EXCEPT !.done = d, !.gained = g]
    BY <1>1
  <2>2. d \in Nat /\ g \in Int
    BY <1>3
  <2> HIDE DEF d, g
  <2> QED BY <1>2, <2>1, <2>2 DEF CursorSet
<1>5. blk' \in BlkSet /\ blk'.units = <<>>
  BY <1>1 DEF BlkSet, NoBlock, Block, RepStartValue, Reps
<1>6. emit' \in [i: Nat, d: Reps, c: Reps, all: BOOLEAN, gain: Int] /\ emit'.i >= 1
  BY <1>1 DEF NoEmit, Emission, RepStartValue, Reps
<1>7. TypeInv'
  BY <1>1, <1>4, <1>5, <1>6 DEF IInv, TypeInv
<1>8. PlaceInv'
  BY <1>1, <1>5, <1>6 DEF PlaceInv, Emitting
<1>9. RepInv'
  BY <1>1 DEF IInv, RepInv, Emitting
<1>10. EntInv'
  BY <1>1 DEF IInv, EntInv
<1>11. ReadInv'
  BY <1>1 DEF ReadInv, SectionsAreDecodable, NoRead
<1> QED BY <1>7, <1>8, <1>9, <1>10, <1>11 DEF IInv

(* So BlockWritten does.                                                   *)
LEMMA BlockWrittenInv == ASSUME IInv, BlockWritten PROVE IInv'
BY WroteInv DEF BlockWritten, Emitting

(* The tables after a block.                                               *)
LEMMA EndBlockIs ==
  ASSUME NEW s, NEW kind, NEW rep, NEW coded
  PROVE  /\ EndBlock(s, kind, rep, coded).rep = IF kind = "Compressed" THEN rep ELSE s.rep
         /\ EndBlock(s, kind, rep, coded)
              = [rep |-> EndBlock(s, kind, rep, coded).rep,
                 ent |-> EndBlock(s, kind, rep, coded).ent]
         /\ DOMAIN EndBlock(s, kind, rep, coded).ent = Tables
         /\ \A t \in Tables : EndBlock(s, kind, rep, coded).ent[t]
                                = After(t, kind, s.ent[t], coded[t])
BY DEF EndBlock, After

(* A block not attempted is written RAW.                                   *)
LEMMA EmitUncompressedInv ==
  ASSUME IInv, Emitting, UNCHANGED pc, EmitUncompressed
  PROVE  IInv'
<1> DEFINE len == blk.end - blk.start
<1>1. /\ blk.units = <<>> /\ emit.i = 1
      /\ emit' = Emission(2, emit.d, emit.c, FALSE, len - Written("Raw", len, NoSize))
      /\ st' = EndBlock(st, "Raw", st.rep, <<>>)
      /\ read' = NoRead /\ UNCHANGED <<jb, input, blk, dec, job, pc>>
  BY DEF EmitUncompressed
<1>2. /\ st'.rep = st.rep /\ st' = [rep |-> st'.rep, ent |-> st'.ent]
      /\ DOMAIN st'.ent = Tables
  BY <1>1, EndBlockIs
<1>3. ASSUME NEW t \in Tables
      PROVE  /\ IsSlots(st'.ent[t]) /\ HeldTable(st'.ent[t]) = HeldTable(st.ent[t])
             /\ st'.ent[t].mode # "None" => st.ent[t].mode # "None"
             /\ st'.ent[t].mode = "Valid" => t = "huf" /\ st.ent[t].mode = "Valid"
  <2>2. st'.ent[t] = After(t, "Raw", st.ent[t], <<>>[t])
    BY <1>1, EndBlockIs
  <2>3. t \in {"huf", "of"} /\ IsSlots(st.ent[t])
    BY SlotConstants DEF IInv, TypeInv
  <2> QED BY <2>2, <2>3, RawKeepsTable
<1>4. /\ emit' \in [i: Nat, d: Reps, c: Reps, all: BOOLEAN, gain: Int]
      /\ emit'.i = 2 /\ emit'.d = emit.d
  <2>1. emit.d \in Reps /\ emit.c \in Reps /\ blk.end \in Nat /\ blk.start \in Nat
    BY DEF IInv, TypeInv, BlkSet
  <2>2. len - Written("Raw", len, NoSize) \in Int
    BY <2>1 DEF Written, BlockHeaderSize
  <2> QED BY <1>1, <2>1, <2>2 DEF Emission
<1>5. TypeInv'
  BY <1>1, <1>2, <1>3, <1>4 DEF IInv, TypeInv
<1>a. Len(blk'.units) = 0
  BY <1>1
<1>6. PlaceInv'
  <2>1. /\ blk.start = NextStart(jb) /\ blk.start <= blk.end
        /\ blk.end <= blk.start + BlockSizeMax /\ emit.d = st.rep
    BY DEF IInv, PlaceInv
  <2>2. blk' = blk /\ jb' = jb /\ Emitting'
    BY <1>1 DEF Emitting
  <2>3. Len(blk'.units) <= 2 /\ emit'.i >= 1 /\ emit'.d = st'.rep
    BY <1>2, <1>4, <1>a, <2>1
  <2> QED BY <2>1, <2>2, <2>3 DEF PlaceInv
<1>7. RepInv'
  <2>1. Known(job'.three, st'.rep) /\ Agree(job'.three, st'.rep, dec'.rep)
    BY <1>1, <1>2 DEF IInv, RepInv
  <2>2. Emitting'
    BY <1>1 DEF Emitting
  <2> QED BY <2>1, <2>2, <1>a DEF RepInv, Emitting
<1>8. EntInv'
  BY <1>1, <1>3 DEF IInv, EntInv
<1>9. ReadInv'
  BY <1>1 DEF ReadInv, SectionsAreDecodable, NoRead
<1> QED BY <1>5, <1>6, <1>7, <1>8, <1>9 DEF IInv

\* The unit emit_block is at, and what it is written from.
UnitAt == blk.units[emit.i]

Resolved == IF Len(blk.units) = 1
            THEN [d |-> blk.rep, c |-> emit.c, seqs |-> UnitAt.seqs]
            ELSE ResolveOffCodes(emit.d, emit.c, UnitAt.seqs)

Needs == [t \in Tables |-> IF t = "huf" THEN UnitAt.lits ELSE Codes(Resolved.seqs)]

(* It is at one of at most two.                                            *)
LEMMA AtUnit ==
  ASSUME IInv, Emitting, emit.i <= Len(blk.units)
  PROVE  /\ UnitAt \in UnitSet
         /\ \/ Len(blk.units) = 1 /\ emit.i = 1
            \/ Len(blk.units) = 2 /\ emit.i = 1
            \/ Len(blk.units) = 2 /\ emit.i = 2
<1>1. /\ blk.units \in Seq(UnitSet) /\ Len(blk.units) <= 2 /\ emit.i \in Nat /\ emit.i >= 1
  BY DEF IInv, TypeInv, PlaceInv, BlkSet
<1>2. Len(blk.units) \in Nat /\ emit.i \in 1..Len(blk.units)
  BY <1>1
<1>3. UnitAt \in UnitSet
  BY <1>1, <1>2 DEF UnitAt
<1> DEFINE n == Len(blk.units)
<1>4. n \in Nat /\ n <= 2 /\ emit.i \in 1..n
  BY <1>1, <1>2
<1> HIDE DEF n
<1>5. (n = 1 /\ emit.i = 1) \/ (n = 2 /\ emit.i = 1) \/ (n = 2 /\ emit.i = 2)
  BY <1>4
<1> QED BY <1>3, <1>5 DEF n

(* Whatever the unit, the decoder reads it as it was found.                *)
LEMMA UnitEmits ==
  ASSUME IInv, Emitting, emit.i <= Len(blk.units)
  PROVE  /\ Emits(job.three, dec.rep, blk.end, emit.i, UnitAt.seqs, Resolved)
         /\ Len(blk.units) = 2 =>
              \A e : Parts(job.three, blk.end, emit.i + 1, Resolved.c, e,
                           blk.units[1].seqs, blk.units[2].seqs)
<1>1. /\ job.three \in BOOLEAN /\ st.rep \in Reps /\ emit.c \in Reps /\ emit.d = st.rep
      /\ Known(job.three, st.rep) /\ Agree(job.three, st.rep, dec.rep)
  BY DEF IInv, TypeInv, PlaceInv, RepInv
<1>2. CASE Len(blk.units) = 1 /\ emit.i = 1
  <2>1. UnitAt = blk.units[1]
    BY <1>2 DEF UnitAt
  <2>2. Finds(job.three, st.rep, blk.end, Left(UnitAt.seqs, blk.rep))
    BY <1>2, <2>1 DEF IInv, RepInv
  <2>3. Resolved = [d |-> blk.rep, c |-> emit.c, seqs |-> UnitAt.seqs]
    BY <1>2 DEF Resolved
  <2>4. Emits(job.three, dec.rep, blk.end, 1, UnitAt.seqs, Resolved)
    BY <1>1, <2>2, <2>3, WholeEmits
  <2> QED BY <1>2, <2>4
<1>3. CASE Len(blk.units) = 2 /\ emit.i = 1
  <2>1. UnitAt = blk.units[1]
    BY <1>3 DEF UnitAt
  <2>2. Parts(job.three, blk.end, 1, emit.c, st.rep, blk.units[1].seqs, blk.units[2].seqs)
    BY <1>3 DEF IInv, RepInv
  <2>3. Resolved = ResolveOffCodes(st.rep, emit.c, blk.units[1].seqs)
    BY <1>1, <1>3, <2>1 DEF Resolved
  <2>4. /\ Emits(job.three, dec.rep, blk.end, 1, blk.units[1].seqs, Resolved)
        /\ \A e : Parts(job.three, blk.end, 2, Resolved.c, e,
                        blk.units[1].seqs, blk.units[2].seqs)
    BY <1>1, <2>2, <2>3, FirstPartEmits
  <2>5. emit.i + 1 = 2
    BY <1>3
  <2> QED BY <1>3, <2>1, <2>4, <2>5
<1>4. CASE Len(blk.units) = 2 /\ emit.i = 2
  <2>1. UnitAt = blk.units[2]
    BY <1>4 DEF UnitAt
  <2>2. Parts(job.three, blk.end, 2, emit.c, st.rep, blk.units[1].seqs, blk.units[2].seqs)
    BY <1>4 DEF IInv, RepInv
  <2>3. Resolved = ResolveOffCodes(st.rep, emit.c, blk.units[2].seqs)
    BY <1>1, <1>4, <2>1 DEF Resolved
  <2>4. Emits(job.three, dec.rep, blk.end, 2, blk.units[2].seqs, Resolved)
    BY <1>1, <2>2, <2>3, SecondPartEmits
  <2>5. emit.i + 1 = 3
    BY <1>4
  <2>6. \A e : Parts(job.three, blk.end, 3, Resolved.c, e,
                     blk.units[1].seqs, blk.units[2].seqs)
    BY DEF Parts
  <2> QED BY <1>4, <2>1, <2>4, <2>5, <2>6
<1> QED BY <1>2, <1>3, <1>4, AtUnit

(* A valid table codes what the unit needs.                                *)
LEMMA ValidCodesNeeds ==
  ASSUME IInv, Emitting, emit.i <= Len(blk.units),
         NEW t \in Tables, st.ent[t].mode = "Valid"
  PROVE  Needs[t] \subseteq HeldTable(st.ent[t])
<1>1. t = "huf" \/ t = "of"
  BY SlotConstants
<1>2. CASE t = "huf"
  <2>1. Needs[t] = UnitAt.lits
    BY <1>2 DEF Needs
  <2>2. UnitAt.lits \subseteq LitSymbols
    BY AtUnit DEF UnitSet
  <2>3. LitSymbols \subseteq HeldTable(st.ent[t])
    BY <1>2 DEF IInv, EntInv
  <2> QED BY <2>1, <2>2, <2>3
<1>3. CASE t = "of"
  <2>1. Needs[t] = Codes(Resolved.seqs)
    BY <1>3 DEF Needs
  <2>2. /\ 0..OffCode(Content + BlockSizeMax) \subseteq HeldTable(st.ent[t])
        /\ NextStart(jb) <= Content /\ emit.i = 1
    BY <1>3 DEF IInv, EntInv
  <2>3. \A k \in 1..Len(Resolved.seqs) : /\ Resolved.seqs[k].ob \in Nat
                                         /\ Resolved.seqs[k].ob >= 1
                                         /\ Resolved.seqs[k].ob <= blk.end
    BY <2>2, UnitEmits DEF Emits
  <2>4. blk.end <= Content + BlockSizeMax /\ Content + BlockSizeMax \in Nat /\ blk.end \in Nat
    <3>1. /\ blk.start = NextStart(jb) /\ blk.end <= blk.start + BlockSizeMax
          /\ blk.end \in Nat /\ blk.start \in Nat
      BY DEF IInv, PlaceInv, TypeInv, BlkSet
    <3>2. Content \in Nat /\ BlockSizeMax \in Nat
      BY BlockConstants
    <3> QED BY <3>1, <3>2, <2>2
  <2>5. ASSUME NEW k \in 1..Len(Resolved.seqs)
        PROVE  OffCode(Resolved.seqs[k].ob) \in 0..OffCode(Content + BlockSizeMax)
    <3> DEFINE a == Resolved.seqs[k].ob
               b == Content + BlockSizeMax
    <3>1. a \in Nat /\ b \in Nat /\ 1 <= a /\ a <= b
      BY <2>3, <2>4
    <3> HIDE DEF a, b
    <3>2. OffCode(a) \in 0..OffCode(b)
      BY <3>1, OffCodeGrows
    <3> QED BY <3>2 DEF a, b
  <2>6. Codes(Resolved.seqs) \subseteq 0..OffCode(Content + BlockSizeMax)
    BY <2>5 DEF Codes
  <2> QED BY <2>1, <2>2, <2>6
<1> QED BY <1>1, <1>2, <1>3

(* The block type.                                                         *)
LEMMA KindIs ==
  ASSUME NEW u, NEW size, NEW first
  PROVE  KindOf(u, size, first) \in {"Rle", "Compressed", "Raw"}
BY DEF KindOf

(* A block's size is an integer.                                           *)
LEMMA WrittenIs ==
  ASSUME NEW kind \in {"Rle", "Compressed", "Raw"}, NEW len \in Int, NEW size \in Int
  PROVE  Written(kind, len, size) \in Int
BY DEF Written, BlockHeaderSize

(* A unit is written, and read by the decoder.                             *)
LEMMA EmitUnitInv ==
  ASSUME IInv, Emitting, UNCHANGED pc, EmitUnit
  PROVE  IInv'
<1>1. PICK size \in SizesOf(UnitAt), coded \in AllCodings(Needs) :
        LET kind  == KindOf(UnitAt, size, blk.start = jb.jobStart)
            built == [st EXCEPT !.ent = [t \in Tables |-> Build(@[t], coded[t])]]
            dseqs == DecodeSequences(dec.rep, Resolved.seqs)
            held  == [t \in Tables |-> DecodedWith(dec.tables[t], coded[t])]
        IN  /\ st' = EndBlock(built, kind, Resolved.d, coded)
            /\ emit' = Emission(emit.i + 1, Restored(Resolved.d, kind, emit.d), Resolved.c,
                                emit.all /\ kind = "Compressed",
                                emit.gain + UnitAt.len - Written(kind, UnitAt.len, size))
            /\ dec' = IF kind = "Compressed"
                      THEN [rep |-> dseqs.hist, tables |-> held] ELSE dec
            /\ read' = [kind |-> kind,
                        raws |-> [k \in 1..Len(UnitAt.seqs) |-> UnitAt.seqs[k].raw],
                        offs |-> dseqs.offs, coded |-> coded, need |-> Needs,
                        tables |-> held]
  BY DEF EmitUnit, UnitAt, Resolved, Needs
<1> DEFINE kind  == KindOf(UnitAt, size, blk.start = jb.jobStart)
           built == [st EXCEPT !.ent = [t \in Tables |-> Build(@[t], coded[t])]]
           dseqs == DecodeSequences(dec.rep, Resolved.seqs)
           held  == [t \in Tables |-> DecodedWith(dec.tables[t], coded[t])]
<1>2. /\ emit.i <= Len(blk.units) /\ UNCHANGED <<jb, input, blk, job, pc>>
  BY DEF EmitUnit
<1>3. /\ UnitAt \in UnitSet
      /\ \/ Len(blk.units) = 1 /\ emit.i = 1
         \/ Len(blk.units) = 2 /\ emit.i = 1
         \/ Len(blk.units) = 2 /\ emit.i = 2
  BY <1>2, AtUnit
<1>4. /\ Emits(job.three, dec.rep, blk.end, emit.i, UnitAt.seqs, Resolved)
      /\ Len(blk.units) = 2 =>
           \A e : Parts(job.three, blk.end, emit.i + 1, Resolved.c, e,
                        blk.units[1].seqs, blk.units[2].seqs)
  BY <1>2, UnitEmits
<1>5. kind \in {"Rle", "Compressed", "Raw"}
  BY KindIs
<1>6. ASSUME NEW t \in Tables
      PROVE  /\ t \in {"huf", "of"} /\ IsSlots(st.ent[t])
             /\ coded[t] \in Codings(t, st.ent[t], Needs[t])
             /\ st.ent[t].mode # "None" => HeldTable(st.ent[t]) = dec.tables[t]
             /\ st.ent[t].mode = "Valid" => Needs[t] \subseteq HeldTable(st.ent[t])
             /\ built.ent[t] = Build(st.ent[t], coded[t])
  <2>1. t \in {"huf", "of"} /\ IsSlots(st.ent[t])
    BY SlotConstants DEF IInv, TypeInv
  <2>2. coded[t] \in Codings(t, st.ent[t], Needs[t])
    BY DEF AllCodings
  <2>3. st.ent[t].mode # "None" => HeldTable(st.ent[t]) = dec.tables[t]
    BY DEF IInv, EntInv
  <2>4. st.ent[t].mode = "Valid" => Needs[t] \subseteq HeldTable(st.ent[t])
    BY <1>2, ValidCodesNeeds
  <2>5. built.ent[t] = Build(st.ent[t], coded[t])
    <3>1. st = [rep |-> st.rep, ent |-> st.ent]
      BY DEF IInv, TypeInv
    <3> QED BY <3>1
  <2> QED BY <2>1, <2>2, <2>3, <2>4, <2>5
<1>7. built.rep = st.rep
  <2>1. st = [rep |-> st.rep, ent |-> st.ent]
    BY DEF IInv, TypeInv
  <2> QED BY <2>1
<1> HIDE DEF kind, built, dseqs, held
<1>8. /\ st' = EndBlock(built, kind, Resolved.d, coded)
      /\ emit' = Emission(emit.i + 1, Restored(Resolved.d, kind, emit.d), Resolved.c,
                          emit.all /\ kind = "Compressed",
                          emit.gain + UnitAt.len - Written(kind, UnitAt.len, size))
      /\ dec' = IF kind = "Compressed" THEN [rep |-> dseqs.hist, tables |-> held] ELSE dec
      /\ read' = [kind |-> kind,
                  raws |-> [k \in 1..Len(UnitAt.seqs) |-> UnitAt.seqs[k].raw],
                  offs |-> dseqs.offs, coded |-> coded, need |-> Needs, tables |-> held]
  BY <1>1 DEF kind, built, dseqs, held
<1>9. /\ st' = [rep |-> st'.rep, ent |-> st'.ent] /\ DOMAIN st'.ent = Tables
      /\ st'.rep = IF kind = "Compressed" THEN Resolved.d ELSE st.rep
      /\ \A t \in Tables : st'.ent[t] = After(t, kind, built.ent[t], coded[t])
  BY <1>7, <1>8, EndBlockIs
<1>10. ASSUME NEW t \in Tables
       PROVE  /\ IsSlots(st'.ent[t])
              /\ st'.ent[t].mode # "None" => HeldTable(st'.ent[t]) = dec'.tables[t]
              /\ st'.ent[t].mode = "Valid" => /\ t = "huf" /\ st.ent[t].mode = "Valid"
                                              /\ HeldTable(st'.ent[t]) = HeldTable(st.ent[t])
  <2>1. Holds(st.ent[t], dec.tables[t])
    BY <1>6 DEF Holds
  <2>2. /\ Holds(After(t, kind, Build(st.ent[t], coded[t]), coded[t]),
                 HeldAfter(kind, dec.tables[t], coded[t]))
        /\ ValidSince(t, st.ent[t], After(t, kind, Build(st.ent[t], coded[t]), coded[t]))
    BY <1>6, <2>1, AfterIsDecoders
  <2>3. st'.ent[t] = After(t, kind, Build(st.ent[t], coded[t]), coded[t])
    BY <1>6, <1>9
  <2>4. dec'.tables[t] = HeldAfter(kind, dec.tables[t], coded[t])
    BY <1>8 DEF held, HeldAfter
  <2> QED BY <2>2, <2>3, <2>4 DEF Holds, ValidSince
<1>11. /\ Resolved.d \in Reps /\ Known(job.three, Resolved.d) /\ Resolved.c \in Reps
       /\ dseqs.offs = [k \in 1..Len(UnitAt.seqs) |-> UnitAt.seqs[k].raw]
       /\ Agree(job.three, Resolved.d, dseqs.hist)
  BY <1>4 DEF Emits, dseqs
<1>12. /\ emit.d = st.rep /\ st.rep \in Reps /\ emit.i \in Nat /\ emit.all \in BOOLEAN
       /\ emit.gain \in Int /\ Known(job.three, st.rep) /\ Agree(job.three, st.rep, dec.rep)
  BY DEF IInv, TypeInv, PlaceInv, RepInv
<1>13. st'.rep \in Reps /\ Known(job.three, st'.rep) /\ Agree(job.three, st'.rep, dec'.rep)
  <2>1. CASE kind = "Compressed"
    BY <1>8, <1>9, <1>11, <2>1
  <2>2. CASE kind # "Compressed"
    BY <1>8, <1>9, <1>12, <2>2
  <2> QED BY <2>1, <2>2
<1>14. /\ emit' \in [i: Nat, d: Reps, c: Reps, all: BOOLEAN, gain: Int]
       /\ emit'.i = emit.i + 1 /\ emit'.c = Resolved.c /\ emit'.d = st'.rep
  <2> DEFINE d == Restored(Resolved.d, kind, emit.d)
             all == emit.all /\ kind = "Compressed"
             gain == emit.gain + UnitAt.len - Written(kind, UnitAt.len, size)
  <2>1. d = st'.rep
    BY <1>9, <1>12 DEF Restored
  <2>2. gain \in Int
    <3>1. UnitAt.len \in Int
      BY <1>3 DEF UnitSet
    <3>2. size \in Int
      <4>1. Sizes \subseteq Nat
        BY BlockConstants
      <4>2. size \in Sizes \/ size = NoSize
        BY DEF SizesOf
      <4>3. NoSize \in Int
        BY DEF NoSize
      <4>4. CASE size \in Sizes
        BY <4>1, <4>4
      <4> QED BY <4>2, <4>3, <4>4
    <3>3. Written(kind, UnitAt.len, size) \in Int
      BY <1>5, <3>1, <3>2, WrittenIs
    <3> QED BY <1>12, <3>1, <3>3
  <2>3. all \in BOOLEAN
    OBVIOUS
  <2>4. emit' = [i |-> emit.i + 1, d |-> d, c |-> Resolved.c, all |-> all, gain |-> gain]
    BY <1>8 DEF Emission
  <2>5. emit.i + 1 \in Nat
    BY <1>12
  <2> HIDE DEF d, all, gain
  <2> QED BY <1>11, <1>13, <2>1, <2>2, <2>3, <2>4, <2>5
<1>15. TypeInv'
  BY <1>2, <1>9, <1>10, <1>13, <1>14 DEF IInv, TypeInv
<1>16. PlaceInv'
  <2>1. /\ blk.start = NextStart(jb) /\ blk.start <= blk.end
        /\ blk.end <= blk.start + BlockSizeMax /\ Len(blk.units) <= 2
    BY DEF IInv, PlaceInv
  <2>2. blk' = blk /\ jb' = jb /\ Emitting'
    BY <1>2 DEF Emitting
  <2>3. emit'.i >= 1 /\ emit'.d = st'.rep
    BY <1>12, <1>14
  <2> QED BY <2>1, <2>2, <2>3 DEF PlaceInv
<1>17. RepInv'
  <2>1. blk' = blk /\ job' = job /\ Emitting' /\ pc' # "derive"
    BY <1>2 DEF Emitting
  <2>2. emit'.i # 1
    BY <1>12, <1>14, <1>3
  <2>3. Len(blk.units) = 2 =>
          Parts(job.three, blk.end, emit'.i, emit'.c, st'.rep,
                blk.units[1].seqs, blk.units[2].seqs)
    BY <1>4, <1>14
  <2> QED BY <1>13, <2>1, <2>2, <2>3 DEF RepInv
<1>18. EntInv'
  <2>1. Emitting'
    BY <1>2 DEF Emitting
  <2> QED BY <1>10, <2>1 DEF IInv, EntInv
<1>19. ReadInv'
  <2>1. read'.kind = "Compressed" => read'.offs = read'.raws
    BY <1>8, <1>11
  <2>2. /\ read'.coded = coded /\ read'.need = Needs /\ read'.tables = held
        /\ DOMAIN coded = Tables
    BY <1>8 DEF AllCodings
  <2>3. ASSUME NEW t \in Tables, coded[t].mode # "Raw"
        PROVE  Needs[t] \subseteq coded[t].table /\ held[t] = coded[t].table
    <3>1. held[t] = DecodedWith(dec.tables[t], coded[t])
      BY DEF held
    <3> QED BY <1>6, <2>3, <3>1, CodedIsDecodable
  <2>4. SectionsAreDecodable'
    BY <2>2, <2>3 DEF SectionsAreDecodable
  <2> QED BY <2>1, <2>4 DEF ReadInv
<1> QED BY <1>15, <1>16, <1>17, <1>18, <1>19 DEF IInv

(* Every step keeps the invariant.                                         *)
LEMMA NextInv == IInv /\ [SerialNext]_svars => IInv'
<1> SUFFICES ASSUME IInv, [SerialNext]_svars PROVE IInv'
  OBVIOUS
<1>1. CASE \E i \in Inputs : Call(i)
  BY <1>1, CallInv
<1>2. CASE CutAndFind
  BY <1>2, CutAndFindInv
<1>3. CASE Derive
  BY <1>3, DeriveInv
<1>4. CASE Emit
  BY <1>4, EmitUnitInv, EmitUncompressedInv DEF Emit, Emitting
<1>5. CASE BlockWritten
  BY <1>5, BlockWrittenInv
<1>6. CASE Return
  BY <1>6, ReturnInv
<1>7. CASE UNCHANGED svars
  BY <1>7 DEF svars, IInv, TypeInv, PlaceInv, RepInv, EntInv, ReadInv,
                  SectionsAreDecodable, Emitting
<1> QED BY <1>1, <1>2, <1>3, <1>4, <1>5, <1>6, <1>7 DEF SerialNext, Serially

(* The decoder copies each match from the offset the block compressor      *)
(* found it at, and keeps the repeat offsets the encoder committed, for    *)
(* blocks, partitions and histories of any size.                           *)
THEOREM OffsetsAgree == SerialSpec => []MatchesDecodeAsFound
<1>1. SerialSpec => []IInv
  BY InitInv, NextInv, PTL DEF SerialSpec
<1> QED BY <1>1, IInvImplies, PTL

(* The tables a later block may repeat are the decoder's.                  *)
THEOREM TablesAgree == SerialSpec => []CommittedTablesAreTheDecoders
<1>1. SerialSpec => []IInv
  BY InitInv, NextInv, PTL DEF SerialSpec
<1> QED BY <1>1, IInvImplies, PTL

(* A section is coded with a table that has a code for each of its symbols *)
(* and that the decoder reads it with.                                     *)
THEOREM SectionsDecode == SerialSpec => []SectionsAreDecodable
<1>1. SerialSpec => []IInv
  BY InitInv, NextInv, PTL DEF SerialSpec
<1> QED BY <1>1, IInvImplies, PTL
=============================================================================
