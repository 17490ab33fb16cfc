------------------------ MODULE BlockPipelineProofs ------------------------
(***************************************************************************)
(* The pipelined block loop writes what the plain one does.  What it       *)
(* proves of a block before it is entropy coded holds once it is written,  *)
(* for blocks of any size; so the block searched ahead is the one the      *)
(* plain loop would search, and every step is one of the plain loop's or   *)
(* none.                                                                   *)
(***************************************************************************)
EXTENDS BlockPipeline, SerialBlocksProofs

-----------------------------------------------------------------------------
(* What a COMPRESSED block gains.                                          *)

\* f is the recursive function of MinGain.
IsShr(n, len, f) == f = [k \in 0..n |-> IF k = 0 THEN len ELSE f[k - 1] \div 2]

(* It exists.                                                              *)
LEMMA ShrExists ==
  ASSUME NEW len
  PROVE  \A n \in Nat : \E f : IsShr(n, len, f)
<1> DEFINE S == {n \in Nat : \E f : IsShr(n, len, f)}
<1>1. 0 \in S
  <2>1. IsShr(0, len, [k \in 0..0 |-> len])
    BY DEF IsShr
  <2> QED BY <2>1
<1>2. ASSUME NEW n \in Nat, n \in S PROVE n + 1 \in S
  <2>1. PICK f : IsShr(n, len, f)
    BY <1>2
  <2> DEFINE g == [k \in 0..(n + 1) |-> IF k = 0 THEN len ELSE f[k - 1] \div 2]
  <2>2. \A k \in 0..n : f[k] = g[k]
    BY <2>1 DEF IsShr
  <2>3. \A k \in 0..(n + 1) : k # 0 => k - 1 \in 0..n
    OBVIOUS
  <2>4. \A k \in 0..(n + 1) : k # 0 => f[k - 1] = g[k - 1]
    BY <2>2, <2>3
  <2>5. g = [k \in 0..(n + 1) |-> IF k = 0 THEN len ELSE g[k - 1] \div 2]
    BY <2>4
  <2>6. IsShr(n + 1, len, g)
    BY <2>5 DEF IsShr
  <2> QED BY <2>6
<1>3. Nat \subseteq S
  <2> HIDE DEF S
  <2> QED BY <1>1, <1>2, SetInduction
<1> QED BY <1>3

(* It is natural.                                                          *)
LEMMA ShrIsNat ==
  ASSUME NEW n \in Nat, NEW len \in Nat, NEW f, IsShr(n, len, f)
  PROVE  f[n] \in Nat
<1> DEFINE S == {k \in Nat : k <= n => f[k] \in Nat}
<1>1. 0 \in S
  BY DEF IsShr
<1>2. ASSUME NEW k \in Nat, k \in S PROVE k + 1 \in S
  <2>1. SUFFICES ASSUME k + 1 <= n PROVE f[k + 1] \in Nat
    OBVIOUS
  <2>2. k \in 0..n /\ k + 1 \in 0..n /\ k + 1 # 0 /\ (k + 1) - 1 = k /\ f[k] \in Nat
    BY <1>2, <2>1
  <2>3. f[k + 1] = f[k] \div 2
    BY <2>2 DEF IsShr
  <2> QED BY <2>2, <2>3
<1>3. Nat \subseteq S
  <2> HIDE DEF S
  <2> QED BY <1>1, <1>2, SetInduction
<1> QED BY <1>3

(* The least a COMPRESSED block gains is positive.                         *)
LEMMA MinGainIs ==
  ASSUME NEW len \in Nat
  PROVE  MinGain(len) \in Nat /\ MinGain(len) >= 2
<1> DEFINE f == CHOOSE g : IsShr(MinLog, len, g)
<1>0. MinLog \in Nat
  BY BlockConstants
<1>1. IsShr(MinLog, len, f)
  BY <1>0, ShrExists
<1>2. MinGain(len) = f[MinLog] + 2
  BY DEF MinGain, IsShr
<1> HIDE DEF f
<1>3. f[MinLog] \in Nat
  BY <1>0, <1>1, ShrIsNat
<1> QED BY <1>2, <1>3

\* What a unit proven to be written COMPRESSED gains at least.
LeastGain(u) == MinGain(u.len) + 1 - BlockHeaderSize

\* f is the recursive function of CompressedGainBound.
IsGain(units, f) ==
    f = [i \in 0..Len(units) |->
           IF i = 0 THEN 0
           ELSE f[i - 1] + MinGain(units[i].len) + 1 - BlockHeaderSize]

(* The bound is the sum over the units.                                    *)
LEMMA GainBoundIs ==
  ASSUME NEW units, \A i \in 1..Len(units) : units[i].len \in Nat
  PROVE  /\ Len(units) = 1 => CompressedGainBound(units) = LeastGain(units[1])
         /\ Len(units) = 2 =>
              CompressedGainBound(units) = LeastGain(units[1]) + LeastGain(units[2])
<1> DEFINE f == CHOOSE g : IsGain(units, g)
<1>1. CompressedGainBound(units) = f[Len(units)]
  BY DEF CompressedGainBound, IsGain
<1>2. BlockHeaderSize = 3
  BY DEF BlockHeaderSize
<1>3. CASE Len(units) = 1
  <2> DEFINE a == MinGain(units[1].len)
             g == [i \in 0..1 |-> IF i = 0 THEN 0 ELSE a + 1 - 3]
  <2>1. a \in Nat
    BY <1>3, MinGainIs
  <2>2. g = [i \in 0..1 |-> IF i = 0 THEN 0
                            ELSE g[i - 1] + MinGain(units[i].len) + 1 - 3]
    <3>1. \A i \in 0..1 : i # 0 => i = 1
      OBVIOUS
    <3>2. g[0] + MinGain(units[1].len) + 1 - 3 = a + 1 - 3
      BY <2>1
    <3> HIDE DEF a
    <3> QED BY <3>1, <3>2
  <2>3. IsGain(units, g)
    BY <1>2, <1>3, <2>2 DEF IsGain
  <2>4. IsGain(units, f)
    BY <2>3
  <2> HIDE DEF f
  <2>5. f[0] = 0 /\ f[1] = f[0] + MinGain(units[1].len) + 1 - 3
    BY <2>4, <1>2, <1>3 DEF IsGain
  <2> QED BY <1>1, <1>2, <1>3, <2>1, <2>5 DEF LeastGain
<1>4. CASE Len(units) = 2
  <2> DEFINE a == MinGain(units[1].len)
             b == MinGain(units[2].len)
             g == [i \in 0..2 |-> IF i = 0 THEN 0 ELSE IF i = 1 THEN a + 1 - 3
                                  ELSE a + 1 - 3 + b + 1 - 3]
  <2>1. a \in Nat /\ b \in Nat
    BY <1>4, MinGainIs
  <2>2. g = [i \in 0..2 |-> IF i = 0 THEN 0
                            ELSE g[i - 1] + MinGain(units[i].len) + 1 - 3]
    <3>1. \A i \in 0..2 : i # 0 /\ i # 1 => i = 2
      OBVIOUS
    <3>2. g[0] + MinGain(units[1].len) + 1 - 3 = a + 1 - 3
      BY <2>1
    <3>3. g[1] + MinGain(units[2].len) + 1 - 3 = a + 1 - 3 + b + 1 - 3
      BY <2>1
    <3> HIDE DEF a, b
    <3> QED BY <3>1, <3>2, <3>3
  <2>3. IsGain(units, g)
    BY <1>2, <1>4, <2>2 DEF IsGain
  <2>4. IsGain(units, f)
    BY <2>3
  <2> HIDE DEF f
  <2>5. /\ f[0] = 0 /\ f[1] = f[0] + MinGain(units[1].len) + 1 - 3
        /\ f[2] = f[1] + MinGain(units[2].len) + 1 - 3
    BY <2>4, <1>2, <1>4 DEF IsGain
  <2> QED BY <1>1, <1>2, <1>4, <2>1, <2>5 DEF LeastGain
<1> QED BY <1>3, <1>4

(* A unit proven to be written COMPRESSED is, and gains what was proven.   *)
LEMMA ProvenIsCompressed ==
  ASSUME NEW u \in UnitSet, u.len \in 0..BlockSizeMax, ProvenCompressed(u),
         NEW size \in SizesOf(u), NEW first
  PROVE  /\ KindOf(u, size, first) = "Compressed"
         /\ u.len - Written("Compressed", u.len, size) >= LeastGain(u)
         /\ u.len - Written("Compressed", u.len, size) \in Int /\ LeastGain(u) \in Int
<1>1. u.len \in Nat /\ BlockSizeMax \in Nat /\ u.bound \in Nat
  BY BlockConstants DEF UnitSet
<1>2. MinGain(u.len) \in Nat
  BY <1>1, MinGainIs
<1>3. ~u.rle /\ u.bound < u.len - MinGain(u.len)
  BY DEF ProvenCompressed
<1>4. ~(u.bound > BlockSizeMax)
  BY <1>1, <1>2, <1>3
<1>5. size \in Sizes /\ size <= u.bound
  BY <1>4 DEF SizesOf
<1>6. size \in Nat
  BY <1>5, BlockConstants
<1>7. size # NoSize /\ size < u.len - MinGain(u.len)
  BY <1>1, <1>2, <1>3, <1>5, <1>6 DEF NoSize
<1>8. KindOf(u, size, first) = "Compressed"
  BY <1>3, <1>7 DEF KindOf
<1>9. Written("Compressed", u.len, size) = 3 + size
  BY DEF Written, BlockHeaderSize
<1> QED BY <1>1, <1>2, <1>6, <1>7, <1>8, <1>9 DEF LeastGain, BlockHeaderSize

-----------------------------------------------------------------------------
(* The offsets the following block starts from.                            *)

(* A partition whose two histories are one leaves one.                     *)
LEMMA ResolveSame ==
  ASSUME NEW three \in BOOLEAN, NEW seqs, NEW h, Found(three, seqs, h)
  PROVE  LET r == ResolveOffCodes(h[0], h[0], seqs)
         IN  r.c = h[Len(seqs)] /\ r.d = h[Len(seqs)]
<1> DEFINE r == ResolveOffCodes(h[0], h[0], seqs)
<1>1. h[0] \in Reps
  BY DEF Found
<1>2. /\ r.c = h[Len(seqs)] /\ r.seqs = seqs
      /\ \E g : /\ Found(three, r.seqs, g) /\ g[0] = h[0]
                /\ r.d = g[Len(r.seqs)] /\ Len(r.seqs) = Len(seqs)
                /\ \A j \in 1..Len(seqs) : r.seqs[j].raw = seqs[j].raw
  BY <1>1, ResolveFound
<1> HIDE DEF r
<1>3. PICK g : Found(three, r.seqs, g) /\ g[0] = h[0] /\ r.d = g[Len(r.seqs)]
  BY <1>2
<1>4. \A i \in 1..Len(seqs) : g[i] = UpdateRep(g[i - 1], seqs[i].ob, seqs[i].ll0)
  BY <1>2, <1>3 DEF Found
<1>5. g[Len(seqs)] = h[Len(seqs)]
  BY <1>3, <1>4, FoundAgain
<1> QED BY <1>2, <1>3, <1>5 DEF r

\* The partitions of a block split in two, at the i-th of them, lead from d
\* to rep, and are COMPRESSED so far: the two histories are one.
Leads(three, i, c, d, s1, s2, rep) ==
    /\ i = 1 => /\ c = d
                /\ \E h : /\ Found(three, s1, h) /\ h[0] = d
                          /\ \E g : /\ Found(three, s2, g) /\ g[0] = h[Len(s1)]
                                    /\ g[Len(s2)] = rep
    /\ i = 2 => c = d /\ \E g : Found(three, s2, g) /\ g[0] = d /\ g[Len(s2)] = rep
    /\ i = 3 => d = rep

(* The first of them.                                                      *)
LEMMA FirstLeads ==
  ASSUME NEW three \in BOOLEAN, NEW c, NEW d, NEW s1, NEW s2, NEW rep,
         Leads(three, 1, c, d, s1, s2, rep)
  PROVE  LET r == ResolveOffCodes(d, c, s1)
         IN  Leads(three, 2, r.c, r.d, s1, s2, rep)
<1> DEFINE r == ResolveOffCodes(d, c, s1)
<1>1. c = d
  BY DEF Leads
<1>2. PICK h : /\ Found(three, s1, h) /\ h[0] = d
               /\ \E g : /\ Found(three, s2, g) /\ g[0] = h[Len(s1)]
                         /\ g[Len(s2)] = rep
  BY DEF Leads
<1>3. r.c = h[Len(s1)] /\ r.d = h[Len(s1)]
  BY <1>1, <1>2, ResolveSame
<1> HIDE DEF r
<1>4. Leads(three, 2, r.c, r.d, s1, s2, rep)
  BY <1>2, <1>3 DEF Leads
<1> QED BY <1>4 DEF r

(* The second.                                                             *)
LEMMA SecondLeads ==
  ASSUME NEW three \in BOOLEAN, NEW c, NEW d, NEW s1, NEW s2, NEW rep,
         Leads(three, 2, c, d, s1, s2, rep)
  PROVE  LET r == ResolveOffCodes(d, c, s2)
         IN  Leads(three, 3, r.c, r.d, s1, s2, rep)
<1> DEFINE r == ResolveOffCodes(d, c, s2)
<1>1. c = d
  BY DEF Leads
<1>2. PICK h : Found(three, s2, h) /\ h[0] = d /\ h[Len(s2)] = rep
  BY DEF Leads
<1>3. r.d = rep
  BY <1>1, <1>2, ResolveSame
<1> HIDE DEF r
<1>4. Leads(three, 3, r.c, r.d, s1, s2, rep)
  BY <1>3 DEF Leads
<1> QED BY <1>4 DEF r

(* A block cut in two leads where its sequences do.                        *)
LEMMA CutLeads ==
  ASSUME NEW three \in BOOLEAN, NEW rep, NEW lim, NEW seqs, NEW after,
         Finds(three, rep, lim, Left(seqs, after)), NEW k \in 1..(Len(seqs) - 1)
  PROVE  Leads(three, 1, rep, rep, SubSeq(seqs, 1, k), SubSeq(seqs, k + 1, Len(seqs)),
               UpdateReps(rep, seqs))
<1> DEFINE s1 == SubSeq(seqs, 1, k)
           s2 == SubSeq(seqs, k + 1, Len(seqs))
<1>1. PICK h : Found(three, seqs, h) /\ h[0] = rep
  BY DEF Finds, Left
<1>2. seqs \in Seq(SeqSet) /\ Len(seqs) \in Nat /\ k \in 0..Len(seqs)
  BY <1>1 DEF Found
<1> DEFINE g == [i \in 0..(Len(seqs) - k) |-> h[k + i]]
<1>3. Found(three, s1, h) /\ Found(three, s2, g)
  BY <1>1, <1>2, FoundParts
<1>4. Len(s1) = k /\ Len(s2) = Len(seqs) - k
  BY <1>2
<1>5. g[0] = h[k] /\ g[Len(seqs) - k] = h[Len(seqs)]
  BY <1>2
<1>6. UpdateReps(rep, seqs) = h[Len(seqs)]
  BY <1>1, UpdateFound
<1> HIDE DEF s1, s2, g
<1>7. \E f : Found(three, s2, f) /\ f[0] = h[Len(s1)] /\ f[Len(s2)] = UpdateReps(rep, seqs)
  BY <1>3, <1>4, <1>5, <1>6
<1>8. Leads(three, 1, rep, rep, s1, s2, UpdateReps(rep, seqs))
  BY <1>1, <1>3, <1>7 DEF Leads
<1> QED BY <1>8 DEF s1, s2

-----------------------------------------------------------------------------
(* The following block's size.                                             *)

\* Whether the pre-splitter may cut the block that starts at start, on what
\* the blocks before it gain.
MaySplit(j, start, in) == j.sizing.split /\ UnsplitSize(j, start, in) = SplitBlockSize

\* The cursor k is at end, with a block to cut that ends where j, on least
\* gained, puts its end.
Foreseen(j, k, end, in, cuts, least) ==
    /\ NextStart(k) = end /\ HasReady(k, in)
    /\ NextBlockEnd(k, in, end \in cuts)
         = BlockEnd(j, end, in, Savings(j, end, least), end \in cuts)

(* Once a block is accounted, the following one starts where it ends; it   *)
(* ends where the least the block could gain put it, if that was enough.   *)
LEMMA EndIsKnown ==
  ASSUME NEW j \in CursorSet, NEW end \in Nat, NEW gain \in Int, NEW least \in Int,
         j.gained + gain >= least, NEW in, NEW cuts, Ready(j, end, in),
         ~(MaySplit(j, end, in) /\ Savings(j, end, least) < 3)
  PROVE  Foreseen(j, Wrote(j, end, gain), end, in, cuts, least)
<1> DEFINE k == Wrote(j, end, gain)
           d == end - j.jobStart
           g == j.gained + gain
<1>1. k = [j EXCEPT !.done = d, !.gained = g] /\ d \in Int /\ g \in Int /\ g >= least
  BY DEF Wrote, CursorSet
<1>2. /\ k.sizing = j.sizing /\ k.jobStart = j.jobStart /\ k.firstJob = j.firstJob
      /\ k.firstChunkEnd = j.firstChunkEnd /\ k.done = d /\ k.gained = g
  <2> HIDE DEF d, g, k
  <2> QED BY <1>1 DEF CursorSet
<1> HIDE DEF k
<1>3. NextStart(k) = end
  BY <1>2 DEF NextStart, CursorSet
<1>4. HasReady(k, in)
  BY <1>2, <1>3 DEF HasReady, Ready
<1>5. UnsplitSize(k, end, in) = UnsplitSize(j, end, in)
  BY <1>2 DEF UnsplitSize
<1> DEFINE u == UnsplitSize(j, end, in)
           h == IF j.firstJob /\ end - j.jobStart >= j.firstChunkEnd
                THEN j.sizing.headerLen ELSE 0
           c == end \in cuts
<1>6. Savings(k, end, g) = g - h /\ Savings(j, end, least) = least - h
  BY <1>2 DEF Savings
<1>7. h \in Nat
  <2>1. j.sizing.headerLen = HeaderLen
    BY DEF CursorSet, SizingOf
  <2>2. HeaderLen \in Nat
    BY BlockConstants
  <2> QED BY <2>1, <2>2
<1> HIDE DEF g, h, u, c
<1>8. ~(j.sizing.split /\ u = SplitBlockSize /\ least - h < 3)
  BY <1>6 DEF MaySplit, u
<1>9. NextBlockEnd(k, in, c) = end + (IF j.sizing.split /\ u = SplitBlockSize /\ g - h >= 3 /\ c
                                      THEN SplitSize ELSE u)
  BY <1>2, <1>3, <1>5, <1>6 DEF NextBlockEnd, BlockEnd, u
<1>10. BlockEnd(j, end, in, Savings(j, end, least), c)
         = end + (IF j.sizing.split /\ u = SplitBlockSize /\ least - h >= 3 /\ c
                  THEN SplitSize ELSE u)
  BY <1>6 DEF BlockEnd, u
<1>11. CASE j.sizing.split /\ u = SplitBlockSize
  <2>1. least - h >= 3 /\ g - h >= 3
    BY <1>1, <1>7, <1>8, <1>11
  <2> QED BY <1>3, <1>4, <1>9, <1>10, <2>1 DEF c, k, Foreseen
<1>12. CASE ~(j.sizing.split /\ u = SplitBlockSize)
  BY <1>3, <1>4, <1>9, <1>10, <1>12 DEF c, k, Foreseen
<1> QED BY <1>11, <1>12

-----------------------------------------------------------------------------
(* The inductive invariant: the plain loop's, what the overlap rests on    *)
(* while both sides of the join run, and what it leaves.                   *)

\* Boolean fields, as predicates.
AllCompressed(e) == e.all = TRUE
FoundAhead(a) == a.found = TRUE

\* What is left to gain, at least, of units proven COMPRESSED.
Pending(units, i) ==
    IF i = 1 THEN CompressedGainBound(units)
    ELSE IF i = 2 /\ Len(units) = 2 THEN LeastGain(units[2]) ELSE 0

\* The units to write, at the i-th of them, are proven COMPRESSED.
Proven(units, i) ==
    /\ Len(units) \in {1, 2} /\ i <= Len(units) + 1
    /\ \A k \in 1..Len(units) : /\ ProvenCompressed(units[k])
                                /\ units[k].len \in 0..BlockSizeMax

\* What is written and what is left of the block lead to the offsets and the
\* gain the following block was searched with.
OverlapInv ==
    pc = "overlap" =>
      /\ Proven(blk.units, emit.i) /\ AllCompressed(emit)
      /\ ahead.least \in Int
      /\ jb.gained + emit.gain + Pending(blk.units, emit.i) >= ahead.least
      /\ Len(blk.units) = 1 /\ emit.i = 1 => blk.rep = ahead.rep
      /\ Len(blk.units) = 1 /\ emit.i = 2 => st.rep = ahead.rep
      /\ Len(blk.units) = 2 =>
           Leads(job.three, emit.i, emit.c, st.rep, blk.units[1].seqs,
                 blk.units[2].seqs, ahead.rep)

\* The following block's size is known, and it is searched.
SearchInv ==
    pc = "overlap" =>
      /\ Ready(jb, blk.end, input)
      /\ ~(MaySplit(jb, blk.end, input) /\ Savings(jb, blk.end, ahead.least) < 3)
      /\ ahead.end = BlockEnd(jb, blk.end, input, Savings(jb, blk.end, ahead.least),
                              blk.end \in job.cuts)
      /\ FoundAhead(ahead) => ahead.blk \in Builds(job.three, blk.end, ahead.end, ahead.rep)

\* After the join, the block found is one the plain loop would find.
JoinedInv ==
    pc = "joined" =>
      /\ HasReady(jb, input)
      /\ ahead.blk \in Builds(job.three, NextStart(jb),
                              NextBlockEnd(jb, input, NextStart(jb) \in job.cuts), st.rep)

PInv == IInv /\ OverlapInv /\ SearchInv /\ JoinedInv

(* When the block is written, what was proven of it holds.                 *)
LEMMA EmittedAsProven ==
  ASSUME PInv, pc = "overlap", Emitted
  PROVE  AllCompressed(emit) /\ st.rep = ahead.rep /\ jb.gained + emit.gain >= ahead.least
<1> DEFINE n == Len(blk.units)
<1>1. n \in {1, 2} /\ emit.i <= n + 1 /\ emit.i > n /\ emit.i \in Nat
  BY DEF PInv, IInv, TypeInv, OverlapInv, Proven, Emitted
<1> HIDE DEF n
<1>2. (n = 1 /\ emit.i = 2) \/ (n = 2 /\ emit.i = 3)
  BY <1>1
<1>3. (Len(blk.units) = 1 /\ emit.i = 2) \/ (Len(blk.units) = 2 /\ emit.i = 3)
  BY <1>2 DEF n
<1>4. st.rep = ahead.rep
  BY <1>3 DEF PInv, OverlapInv, Leads
<1>5. Pending(blk.units, emit.i) = 0
  BY <1>3 DEF Pending
<1>6. jb.gained + emit.gain >= ahead.least
  <2>1. jb.gained \in Int /\ emit.gain \in Int
    BY DEF PInv, IInv, TypeInv, CursorSet
  <2> QED BY <1>5, <2>1 DEF PInv, OverlapInv
<1> QED BY <1>4, <1>6 DEF PInv, OverlapInv

(* What EmitUnit writes, in the encoder's state.                           *)
LEMMA UnitWritten ==
  ASSUME IInv, EmitUnit, NEW first, first = (blk.start = jb.jobStart)
  PROVE  \E size \in SizesOf(UnitAt) :
           LET kind == KindOf(UnitAt, size, first)
           IN  /\ st'.rep = IF kind = "Compressed" THEN Resolved.d ELSE st.rep
               /\ emit'.i = emit.i + 1 /\ emit'.c = Resolved.c
               /\ emit'.all = (emit.all /\ kind = "Compressed")
               /\ emit'.gain = emit.gain + UnitAt.len - Written(kind, UnitAt.len, size)
<1>1. PICK size \in SizesOf(UnitAt), coded \in AllCodings(Needs) :
        LET kind  == KindOf(UnitAt, size, blk.start = jb.jobStart)
            built == [st EXCEPT !.ent = [t \in Tables |-> Build(@[t], coded[t])]]
        IN  /\ st' = EndBlock(built, kind, Resolved.d, coded)
            /\ emit' = Emission(emit.i + 1, Restored(Resolved.d, kind, emit.d), Resolved.c,
                                emit.all /\ kind = "Compressed",
                                emit.gain + UnitAt.len - Written(kind, UnitAt.len, size))
  BY DEF EmitUnit, UnitAt, Resolved, Needs
<1> DEFINE kind  == KindOf(UnitAt, size, first)
           built == [st EXCEPT !.ent = [t \in Tables |-> Build(@[t], coded[t])]]
<1>2. built.rep = st.rep
  <2>1. st = [rep |-> st.rep, ent |-> st.ent]
    BY DEF IInv, TypeInv
  <2> QED BY <2>1
<1>3. kind = KindOf(UnitAt, size, blk.start = jb.jobStart)
  OBVIOUS
<1>4. /\ st' = EndBlock(built, kind, Resolved.d, coded)
      /\ emit' = Emission(emit.i + 1, Restored(Resolved.d, kind, emit.d), Resolved.c,
                          emit.all /\ kind = "Compressed",
                          emit.gain + UnitAt.len - Written(kind, UnitAt.len, size))
  <2> HIDE DEF kind
  <2> QED BY <1>1, <1>3
<1> HIDE DEF built
<1>5. st'.rep = IF kind = "Compressed" THEN Resolved.d ELSE st.rep
  <2> HIDE DEF kind
  <2> QED BY <1>2, <1>4 DEF EndBlock
<1>6. /\ emit'.i = emit.i + 1 /\ emit'.c = Resolved.c
      /\ emit'.all = (emit.all /\ kind = "Compressed")
      /\ emit'.gain = emit.gain + UnitAt.len - Written(kind, UnitAt.len, size)
  <2> HIDE DEF kind
  <2> QED BY <1>4 DEF Emission
<1> QED BY <1>5, <1>6

-----------------------------------------------------------------------------
(* The steps.                                                              *)

(* A unit is written beside the search of the following block.             *)
LEMMA EmitBesideInv == ASSUME PInv, EmitBeside PROVE PInv'
<1> DEFINE first == (blk.start = jb.jobStart)
<1>0. first = (blk.start = jb.jobStart)
  OBVIOUS
<1> HIDE DEF first
<1>1. /\ pc = "overlap" /\ Emitting /\ EmitUnit /\ emit.i <= Len(blk.units) /\ IInv
      /\ UNCHANGED <<jb, input, blk, job, pc, pipelined, ahead>>
  BY DEF EmitBeside, EmitUnit, Emitting, PInv
<1>2. IInv'
  BY <1>1, EmitUnitInv
<1>3. /\ UnitAt \in UnitSet
      /\ \/ Len(blk.units) = 1 /\ emit.i = 1
         \/ Len(blk.units) = 2 /\ emit.i = 1
         \/ Len(blk.units) = 2 /\ emit.i = 2
  BY <1>1, AtUnit
<1>4. /\ Proven(blk.units, emit.i) /\ AllCompressed(emit) /\ ahead.least \in Int
      /\ jb.gained + emit.gain + Pending(blk.units, emit.i) >= ahead.least
  BY <1>1 DEF PInv, OverlapInv
<1> DEFINE n == Len(blk.units)
<1>5. emit.i \in 1..Len(blk.units)
  <2>1. (n = 1 /\ emit.i = 1) \/ (n = 2 /\ emit.i = 1) \/ (n = 2 /\ emit.i = 2)
    BY <1>3
  <2> HIDE DEF n
  <2>2. emit.i \in 1..n
    BY <2>1
  <2> QED BY <2>2 DEF n
<1>6. ProvenCompressed(UnitAt) /\ UnitAt.len \in 0..BlockSizeMax
  BY <1>4, <1>5 DEF Proven, UnitAt
<1>7. PICK size \in SizesOf(UnitAt) :
        LET kind == KindOf(UnitAt, size, first)
        IN  /\ st'.rep = IF kind = "Compressed" THEN Resolved.d ELSE st.rep
            /\ emit'.i = emit.i + 1 /\ emit'.c = Resolved.c
            /\ emit'.all = (emit.all /\ kind = "Compressed")
            /\ emit'.gain = emit.gain + UnitAt.len - Written(kind, UnitAt.len, size)
  BY <1>0, <1>1, UnitWritten
<1> DEFINE gain == UnitAt.len - Written("Compressed", UnitAt.len, size)
<1>8. /\ KindOf(UnitAt, size, first) = "Compressed"
      /\ gain >= LeastGain(UnitAt) /\ gain \in Int /\ LeastGain(UnitAt) \in Int
  BY <1>3, <1>6, ProvenIsCompressed
<1>9. /\ st'.rep = Resolved.d /\ emit'.i = emit.i + 1 /\ emit'.c = Resolved.c
      /\ emit'.gain = emit.gain + UnitAt.len - Written("Compressed", UnitAt.len, size)
  BY <1>7, <1>8
<1>10. AllCompressed(emit')
  <2>1. emit'.all = (emit.all /\ KindOf(UnitAt, size, first) = "Compressed")
    BY <1>7, Zenon
  <2>2. emit.all = TRUE
    BY <1>4 DEF AllCompressed
  <2> QED BY <1>8, <2>1, <2>2, Zenon DEF AllCompressed
<1>11. jb.gained \in Int /\ emit.gain \in Int /\ emit.i \in Nat /\ emit.d = st.rep
  BY <1>1 DEF IInv, TypeInv, PlaceInv, CursorSet
<1>12. emit'.gain = emit.gain + gain
  <2>1. UnitAt.len \in Int /\ Written("Compressed", UnitAt.len, size) \in Int
    <3>1. UnitAt.len \in Int /\ size \in Int
      <4>1. size \in Sizes \/ size = NoSize
        BY DEF SizesOf
      <4>2. \A s \in Sizes : s \in Int
        BY BlockConstants
      <4> QED BY <1>3, <4>1, <4>2 DEF UnitSet, NoSize
    <3> QED BY <3>1, WrittenIs
  <2> QED BY <1>9, <1>11, <2>1
<1> HIDE DEF gain
<1>13. Proven(blk.units, emit.i + 1)
  <2>1. n \in {1, 2} /\ emit.i \in 1..n
    BY <1>3, <1>5
  <2> HIDE DEF n
  <2>2. emit.i + 1 <= n + 1
    BY <2>1
  <2> QED BY <1>4, <2>2 DEF Proven, n
<1>14. \A k \in 1..Len(blk.units) : blk.units[k].len \in Nat
  BY <1>4, BlockConstants DEF Proven
<1>15. ASSUME NEW k \in 1..Len(blk.units) PROVE LeastGain(blk.units[k]) \in Int
  <2>1. blk.units[k].len \in Nat
    BY <1>14
  <2>2. MinGain(blk.units[k].len) \in Nat
    BY <2>1, MinGainIs
  <2> QED BY <2>2 DEF LeastGain, BlockHeaderSize
<1>16. jb.gained + emit'.gain + Pending(blk.units, emit.i + 1) >= ahead.least
  <2>1. CASE Len(blk.units) = 1 /\ emit.i = 1
    <3>1. Pending(blk.units, emit.i) = LeastGain(UnitAt)
      BY <1>14, <2>1, GainBoundIs DEF Pending, UnitAt
    <3>2. Pending(blk.units, emit.i + 1) = 0
      BY <2>1 DEF Pending
    <3> QED BY <1>4, <1>8, <1>11, <1>12, <3>1, <3>2
  <2>2. CASE Len(blk.units) = 2 /\ emit.i = 1
    <3> DEFINE g == LeastGain(blk.units[2])
    <3>1. Pending(blk.units, emit.i) = LeastGain(UnitAt) + g
      BY <1>14, <2>2, GainBoundIs DEF Pending, UnitAt
    <3>2. Pending(blk.units, emit.i + 1) = g
      BY <2>2 DEF Pending
    <3>3. g \in Int
      BY <1>15, <2>2
    <3> HIDE DEF g
    <3> QED BY <1>4, <1>8, <1>11, <1>12, <3>1, <3>2, <3>3
  <2>3. CASE Len(blk.units) = 2 /\ emit.i = 2
    <3>1. Pending(blk.units, emit.i) = LeastGain(UnitAt)
      BY <2>3 DEF Pending, UnitAt
    <3>2. Pending(blk.units, emit.i + 1) = 0
      BY <2>3 DEF Pending
    <3> QED BY <1>4, <1>8, <1>11, <1>12, <3>1, <3>2
  <2> QED BY <1>3, <2>1, <2>2, <2>3
<1>17. Len(blk.units) = 1 /\ emit'.i = 2 => st'.rep = ahead.rep
  <2>1. SUFFICES ASSUME Len(blk.units) = 1 PROVE st'.rep = ahead.rep
    OBVIOUS
  <2>2. blk.rep = ahead.rep
    BY <1>1, <1>3, <2>1 DEF PInv, OverlapInv
  <2>3. Resolved.d = blk.rep
    BY <2>1 DEF Resolved
  <2> QED BY <1>9, <2>2, <2>3
<1>18. Len(blk.units) = 2 =>
         Leads(job.three, emit'.i, emit'.c, st'.rep, blk.units[1].seqs,
               blk.units[2].seqs, ahead.rep)
  <2>1. SUFFICES ASSUME Len(blk.units) = 2
                 PROVE  Leads(job.three, emit'.i, emit'.c, st'.rep, blk.units[1].seqs,
                              blk.units[2].seqs, ahead.rep)
    OBVIOUS
  <2>2. Leads(job.three, emit.i, emit.c, st.rep, blk.units[1].seqs, blk.units[2].seqs, ahead.rep)
    BY <1>1, <2>1 DEF PInv, OverlapInv
  <2>3. job.three \in BOOLEAN
    BY <1>1 DEF IInv, TypeInv
  <2>4. CASE emit.i = 1
    <3>1. Resolved = ResolveOffCodes(st.rep, emit.c, blk.units[1].seqs)
      BY <1>11, <2>1, <2>4 DEF Resolved, UnitAt
    <3>2. Leads(job.three, 2, Resolved.c, Resolved.d, blk.units[1].seqs,
                blk.units[2].seqs, ahead.rep)
      BY <2>2, <2>3, <2>4, <3>1, FirstLeads
    <3> QED BY <1>9, <2>4, <3>2
  <2>5. CASE emit.i = 2
    <3>1. Resolved = ResolveOffCodes(st.rep, emit.c, blk.units[2].seqs)
      BY <1>11, <2>1, <2>5 DEF Resolved, UnitAt
    <3>2. Leads(job.three, 3, Resolved.c, Resolved.d, blk.units[1].seqs,
                blk.units[2].seqs, ahead.rep)
      BY <2>2, <2>3, <2>5, <3>1, SecondLeads
    <3> QED BY <1>9, <2>5, <3>2
  <2> QED BY <1>3, <2>1, <2>4, <2>5
<1>19. OverlapInv'
  <2>1. emit'.i # 1
    BY <1>3, <1>9
  <2> QED BY <1>1, <1>4, <1>9, <1>10, <1>13, <1>16, <1>17, <1>18, <2>1 DEF OverlapInv
<1>20. SearchInv' /\ JoinedInv'
  BY <1>1 DEF PInv, SearchInv, JoinedInv
<1> QED BY <1>2, <1>19, <1>20 DEF PInv

(* The following block is searched beside.                                 *)
LEMMA FindAheadInv == ASSUME PInv, FindAhead PROVE PInv'
<1>1. PICK b \in Builds(job.three, blk.end, ahead.end, ahead.rep) :
        ahead' = Ahead(ahead.end, ahead.rep, ahead.least, TRUE, b)
  BY DEF FindAhead
<1>2. pc = "overlap" /\ UNCHANGED <<svars, pipelined>>
  BY DEF FindAhead
<1>3. /\ ahead'.end = ahead.end /\ ahead'.rep = ahead.rep /\ ahead'.least = ahead.least
      /\ ahead'.blk = b
  BY <1>1 DEF Ahead
<1>4. UNCHANGED <<jb, input, pc, blk, emit, st, dec, read, job>>
  BY <1>2 DEF svars
<1>5. IInv'
  BY <1>2, NextInv DEF PInv
<1>6. OverlapInv'
  BY <1>3, <1>4 DEF PInv, OverlapInv
<1>7. SearchInv' /\ JoinedInv'
  BY <1>1, <1>2, <1>3, <1>4 DEF PInv, SearchInv, JoinedInv
<1> QED BY <1>5, <1>6, <1>7 DEF PInv

(* The join: the block is accounted as its end and least gain foresaw.     *)
LEMMA JoinInv == ASSUME PInv, Join PROVE PInv'
<1>1. /\ pc = "overlap" /\ Emitting /\ Emitted /\ IInv /\ pc' = "joined"
      /\ jb' = Wrote(jb, blk.end, emit.gain)
      /\ UNCHANGED <<input, st, dec, job, pipelined, ahead>>
  BY DEF Join, Emitting, PInv
<1>2. IInv'
  BY <1>1, WroteInv DEF Join
<1>3. st.rep = ahead.rep /\ jb.gained + emit.gain >= ahead.least
  BY <1>1, EmittedAsProven
<1>4. /\ Ready(jb, blk.end, input) /\ ahead.least \in Int
      /\ ~(MaySplit(jb, blk.end, input) /\ Savings(jb, blk.end, ahead.least) < 3)
      /\ ahead.end = BlockEnd(jb, blk.end, input, Savings(jb, blk.end, ahead.least),
                              blk.end \in job.cuts)
  BY <1>1 DEF PInv, SearchInv, OverlapInv
<1>5. ahead.blk \in Builds(job.three, blk.end, ahead.end, ahead.rep)
  <2>1. FoundAhead(ahead)
    <3>1. ahead.found
      BY DEF Join
    <3> QED BY <3>1 DEF FoundAhead
  <2> QED BY <1>1, <2>1 DEF PInv, SearchInv
<1>6. jb \in CursorSet /\ blk.end \in Nat /\ emit.gain \in Int
  BY <1>1 DEF IInv, TypeInv, BlkSet
<1>7. /\ NextStart(jb') = blk.end /\ HasReady(jb', input)
      /\ NextBlockEnd(jb', input, blk.end \in job.cuts) = ahead.end
  <2>1. Foreseen(jb, Wrote(jb, blk.end, emit.gain), blk.end, input, job.cuts, ahead.least)
    BY <1>3, <1>4, <1>6, EndIsKnown
  <2> QED BY <1>1, <1>4, <2>1, Zenon DEF Foreseen
<1>8. JoinedInv'
  BY <1>1, <1>3, <1>5, <1>7 DEF JoinedInv
<1>9. OverlapInv' /\ SearchInv'
  BY <1>1 DEF OverlapInv, SearchInv
<1> QED BY <1>2, <1>8, <1>9 DEF PInv

(* The block found ahead is taken.                                         *)
LEMMA TakeFollowingInv == ASSUME PInv, TakeFollowing PROVE PInv'
<1>1. /\ pc = "joined" /\ pc' = "derive" /\ blk' = ahead.blk
      /\ UNCHANGED <<jb, input, emit, st, dec, read, job>>
  BY DEF TakeFollowing
<1>2. IInv'
  <2>1. /\ HasReady(jb, input)
        /\ blk' \in Builds(job.three, NextStart(jb),
                           NextBlockEnd(jb, input, NextStart(jb) \in job.cuts), st.rep)
    BY <1>1 DEF PInv, JoinedInv
  <2> QED BY <1>1, <2>1, TakeInv DEF PInv
<1>3. OverlapInv' /\ SearchInv' /\ JoinedInv'
  BY <1>1 DEF OverlapInv, SearchInv, JoinedInv
<1> QED BY <1>2, <1>3 DEF PInv

(* The plain loop's steps.                                                 *)
LEMMA PlainlyInv ==
  ASSUME PInv, Plainly \/ \E i \in Inputs : PipelinedCall(i) PROVE PInv'
<1>1. IInv'
  <2>1. SerialNext
    BY DEF Plainly, PipelinedCall, SerialNext, Serially
  <2> QED BY <2>1, NextInv DEF PInv
<1>2. pc' # "overlap" /\ pc' # "joined"
  BY DEF Plainly, PipelinedCall, CutAndFind, Derive, Emit, BlockWritten, Return, Call
<1>3. OverlapInv' /\ SearchInv' /\ JoinedInv'
  BY <1>2 DEF OverlapInv, SearchInv, JoinedInv
<1> QED BY <1>1, <1>3 DEF PInv

(* The least gain of units to write is an integer.                         *)
LEMMA GainBoundIsInt ==
  ASSUME NEW units, Proven(units, 1)
  PROVE  CompressedGainBound(units) \in Int
<1>1. \A i \in 1..Len(units) : units[i].len \in Nat
  BY BlockConstants DEF Proven
<1>2. ASSUME NEW i \in 1..Len(units) PROVE LeastGain(units[i]) \in Int
  <2>1. units[i].len \in Nat
    BY <1>1
  <2>2. MinGain(units[i].len) \in Nat
    BY <2>1, MinGainIs
  <2> QED BY <2>2 DEF LeastGain, BlockHeaderSize
<1>3. CASE Len(units) = 1
  <2>1. LeastGain(units[1]) \in Int
    BY <1>2, <1>3
  <2>2. CompressedGainBound(units) = LeastGain(units[1])
    BY <1>1, <1>3, GainBoundIs
  <2> QED BY <2>1, <2>2
<1>4. CASE Len(units) = 2
  <2>1. LeastGain(units[1]) \in Int /\ LeastGain(units[2]) \in Int
    BY <1>2, <1>4
  <2>2. CompressedGainBound(units) = LeastGain(units[1]) + LeastGain(units[2])
    BY <1>1, <1>4, GainBoundIs
  <2> QED BY <2>1, <2>2
<1> QED BY <1>3, <1>4 DEF Proven

\* What is proven of the units of a block: they are COMPRESSED, and lead to
\* the offsets next.
LeadsTo(three, b, units, rep, next) ==
    /\ Proven(units, 1)
    /\ Len(units) = 1 => b.rep = next
    /\ Len(units) = 2 => Leads(three, 1, rep, rep, units[1].seqs, units[2].seqs, next)

(* Where the offsets after a block are proven, so it is.                   *)
LEMMA ProvenLeads ==
  ASSUME NEW b \in BlkSet, b.start <= b.end, b.end <= b.start + BlockSizeMax,
         NEW three \in BOOLEAN, NEW rep,
         IsBuilt(b) => Finds(three, rep, b.end, Left(b.found, b.rep)),
         NEW units \in Cuttings(b), IsBuilt(b),
         NEW next, next = ProvenRepAfter(b, units, rep), next # NoRep
  PROVE  LeadsTo(three, b, units, rep, next)
<1>1. /\ b.end \in Nat /\ b.start \in Nat /\ b.built \in BOOLEAN /\ b.found \in Seq(SeqSet)
  BY DEF BlkSet
<1>2. \A i \in 1..Len(units) : ProvenCompressed(units[i])
  BY DEF ProvenRepAfter
<1>3. next = IF Len(units) = 1 THEN b.rep ELSE UpdateReps(rep, b.found)
  BY DEF ProvenRepAfter
<1> DEFINE len == b.end - b.start
<1>4. len \in 0..BlockSizeMax /\ BlockSizeMax \in Nat
  BY <1>1, BlockConstants
<1>5. /\ len \div 2 \in 0..BlockSizeMax
      /\ len - len \div 2 \in 0..BlockSizeMax
  <2> HIDE DEF len
  <2> QED BY <1>4
<1>6. CASE \E u \in UnitSet : units = <<u>> /\ u.seqs = b.found /\ u.len = len
  <2>1. PICK u \in UnitSet : units = <<u>> /\ u.seqs = b.found /\ u.len = len
    BY <1>6
  <2> HIDE DEF len
  <2>2. Len(units) = 1 /\ units[1] = u
    BY <2>1
  <2>3. \A i \in 1..1 : i = 1
    OBVIOUS
  <2>4. Proven(units, 1)
    BY <1>2, <1>4, <2>1, <2>2, <2>3 DEF Proven
  <2> QED BY <1>3, <2>2, <2>4 DEF LeadsTo
<1>7. CASE \E k \in 1..(Len(b.found) - 1), u1 \in UnitSet, u2 \in UnitSet :
             /\ units = <<u1, u2>>
             /\ u1.seqs = SubSeq(b.found, 1, k)
             /\ u2.seqs = SubSeq(b.found, k + 1, Len(b.found))
             /\ u1.len = len \div 2
             /\ u2.len = len - len \div 2
  <2>1. PICK k \in 1..(Len(b.found) - 1), u1 \in UnitSet, u2 \in UnitSet :
             /\ units = <<u1, u2>>
             /\ u1.seqs = SubSeq(b.found, 1, k)
             /\ u2.seqs = SubSeq(b.found, k + 1, Len(b.found))
             /\ u1.len = len \div 2
             /\ u2.len = len - len \div 2
    BY <1>7
  <2>2. u1.len \in 0..BlockSizeMax /\ u2.len \in 0..BlockSizeMax
    BY <1>5, <2>1
  <2> HIDE DEF len
  <2>3. Len(units) = 2 /\ units[1] = u1 /\ units[2] = u2
    BY <2>1
  <2>4. \A i \in 1..2 : i = 1 \/ i = 2
    OBVIOUS
  <2>5. Proven(units, 1)
    BY <1>2, <2>2, <2>3, <2>4 DEF Proven
  <2>6. Leads(three, 1, rep, rep, SubSeq(b.found, 1, k),
              SubSeq(b.found, k + 1, Len(b.found)), UpdateReps(rep, b.found))
    BY CutLeads
  <2>7. next = UpdateReps(rep, b.found)
    BY <1>3, <2>3
  <2>8. Leads(three, 1, rep, rep, units[1].seqs, units[2].seqs, next)
    BY <2>1, <2>3, <2>6, <2>7
  <2> QED BY <2>3, <2>5, <2>8 DEF LeadsTo
<1> QED BY <1>1, <1>6, <1>7, CuttingShapes

(* The loop's head, where the following block's search may overlap.        *)
LEMMA PipelinedDeriveInv == ASSUME PInv, PipelinedDerive PROVE PInv'
<1>0. /\ pc = "derive" /\ UNCHANGED <<jb, input, st, dec, read, job>> /\ IInv
  BY DEF PipelinedDerive, PInv
<1>1. PICK units \in Cuttings(blk) :
         LET least   == jb.gained + CompressedGainBound(units)
             repNext == IF blk.built THEN ProvenRepAfter(blk, units, st.rep) ELSE NoRep
             end     == IF OverlapsAt(blk.end) /\ repNext # NoRep
                        THEN NextUnwritten(blk.end, least) ELSE NoEnd
         IN  /\ StartEmit(units)
             /\ IF end # NoEnd
                THEN /\ pc' = "overlap"
                     /\ ahead' = Ahead(end, repNext, least, FALSE, NoBlock)
                ELSE pc' = "emit" /\ UNCHANGED ahead
  BY DEF PipelinedDerive
<1> DEFINE least   == jb.gained + CompressedGainBound(units)
           repNext == IF blk.built THEN ProvenRepAfter(blk, units, st.rep) ELSE NoRep
           end     == IF OverlapsAt(blk.end) /\ repNext # NoRep
                      THEN NextUnwritten(blk.end, least) ELSE NoEnd
<1>2. StartEmit(units) /\ pc' \in {"overlap", "emit"}
  BY <1>1
<1>3. IInv'
  BY <1>0, <1>2, CutInv DEF Emitting
<1>4. CASE pc' = "emit"
  BY <1>3, <1>4 DEF PInv, OverlapInv, SearchInv, JoinedInv
<1>5. CASE pc' = "overlap"
  <2>1. ahead' = Ahead(end, repNext, least, FALSE, NoBlock) /\ end # NoEnd
    BY <1>1, <1>5
  <2>2. OverlapsAt(blk.end) /\ repNext # NoRep /\ end = NextUnwritten(blk.end, least)
    BY <2>1
  <2>3. IsBuilt(blk) /\ repNext = ProvenRepAfter(blk, units, st.rep)
    <3>1. blk.built \in BOOLEAN
      BY <1>0 DEF IInv, TypeInv, BlkSet
    <3>2. CASE blk.built = TRUE
      BY <3>2 DEF IsBuilt
    <3>3. CASE blk.built = FALSE
      BY <2>2, <3>3
    <3> QED BY <3>1, <3>2, <3>3
  <2> HIDE DEF repNext, least, end
  <2>4. /\ ahead'.end = end /\ ahead'.rep = repNext /\ ahead'.least = least
        /\ ~FoundAhead(ahead')
    BY <2>1 DEF Ahead, FoundAhead
  <2>5. LeadsTo(job.three, blk, units, st.rep, repNext)
    <3>1. /\ blk \in BlkSet /\ blk.start <= blk.end /\ blk.end <= blk.start + BlockSizeMax
          /\ job.three \in BOOLEAN
          /\ IsBuilt(blk) => Finds(job.three, st.rep, blk.end, Left(blk.found, blk.rep))
      BY <1>0 DEF IInv, TypeInv, PlaceInv, RepInv
    <3> QED BY <2>2, <2>3, <3>1, ProvenLeads
  <2>6. /\ blk'.end = blk.end /\ blk'.rep = blk.rep /\ blk'.units = units
    BY <1>0, <1>2 DEF StartEmit, IInv, TypeInv, BlkSet
  <2>7. /\ emit'.i = 1 /\ emit'.c = st.rep /\ emit'.gain = 0 /\ AllCompressed(emit')
    BY <1>2 DEF StartEmit, Emission, AllCompressed
  <2>8. /\ jb.gained \in Int /\ CompressedGainBound(units) \in Int
        /\ least = jb.gained + CompressedGainBound(units)
    BY <1>0, <2>5, GainBoundIsInt DEF IInv, TypeInv, CursorSet, LeadsTo, least
  <2>9. OverlapInv'
    <3>1. Pending(units, 1) = CompressedGainBound(units)
      BY DEF Pending
    <3>2. jb.gained + 0 + Pending(units, 1) >= least /\ least \in Int
      BY <2>8, <3>1
    <3>3. Proven(units, 1)
      BY <2>5 DEF LeadsTo
    <3>4. Len(units) = 1 => blk.rep = repNext
      BY <2>5 DEF LeadsTo
    <3>5. Len(units) = 2 => Leads(job.three, 1, st.rep, st.rep, units[1].seqs,
                                  units[2].seqs, repNext)
      BY <2>5 DEF LeadsTo
    <3> QED BY <1>0, <2>4, <2>6, <2>7, <3>2, <3>3, <3>4, <3>5 DEF OverlapInv
  <2>10. SearchInv'
    <3>1. Ready(jb, blk.end, input)
      BY <2>2 DEF OverlapsAt
    <3>2. ~(MaySplit(jb, blk.end, input) /\ Savings(jb, blk.end, least) < 3)
      BY <2>1, <2>2 DEF NextUnwritten, MaySplit
    <3>3. end = BlockEnd(jb, blk.end, input, Savings(jb, blk.end, least),
                         blk.end \in job.cuts)
      BY <2>2, <3>2, Zenon DEF NextUnwritten, MaySplit
    <3>4. UNCHANGED <<jb, input, job>>
      BY <1>0
    <3> QED BY <2>4, <2>6, <3>1, <3>2, <3>3, <3>4, Zenon DEF SearchInv
  <2>11. JoinedInv'
    BY <1>5 DEF JoinedInv
  <2> QED BY <1>3, <2>9, <2>10, <2>11 DEF PInv
<1> QED BY <1>2, <1>4, <1>5

(* The invariant is inductive.                                             *)
LEMMA PipelineInitInv == PipelineInit => PInv
<1> SUFFICES ASSUME PipelineInit PROVE PInv
  OBVIOUS
<1>1. IInv
  BY InitInv DEF PipelineInit
<1>2. pc = "idle"
  BY DEF PipelineInit, Init
<1> QED BY <1>1, <1>2 DEF PInv, OverlapInv, SearchInv, JoinedInv

(* Every step keeps it.                                                    *)
LEMMA PipelineNextInv == PInv /\ [Next]_vars => PInv'
<1> SUFFICES ASSUME PInv, [Next]_vars PROVE PInv'
  OBVIOUS
<1>1. CASE Plainly \/ \E i \in Inputs : PipelinedCall(i)
  BY <1>1, PlainlyInv
<1>2. CASE PipelinedDerive
  BY <1>2, PipelinedDeriveInv
<1>3. CASE FindAhead
  BY <1>3, FindAheadInv
<1>4. CASE EmitBeside
  BY <1>4, EmitBesideInv
<1>5. CASE Join
  BY <1>5, JoinInv
<1>6. CASE TakeFollowing
  BY <1>6, TakeFollowingInv
<1>7. CASE UNCHANGED vars
  <2>1. UNCHANGED svars /\ UNCHANGED <<jb, input, pc, blk, emit, st, dec, read, job, ahead>>
    BY <1>7 DEF vars, svars
  <2>2. IInv'
    BY <2>1, NextInv DEF PInv
  <2>3. OverlapInv' /\ SearchInv' /\ JoinedInv'
    BY <2>1 DEF PInv, OverlapInv, SearchInv, JoinedInv
  <2> QED BY <2>2, <2>3 DEF PInv
<1> QED BY <1>1, <1>2, <1>3, <1>4, <1>5, <1>6, <1>7 DEF Next, Step

(* The assertions after the join of compress_blocks_pipelined hold, for    *)
(* blocks, offsets, gains and minimum overlaps of any size: the block was  *)
(* written COMPRESSED, left the offsets the following one was searched     *)
(* from, and gained no less than its size assumed.                         *)
THEOREM OverlapIsSound == Spec => []ProofsHold
<1>1. PInv => ProofsHold
  <2> SUFFICES ASSUME PInv, pc = "overlap", Emitted
               PROVE  /\ emit.all /\ st.rep = ahead.rep
                      /\ jb.gained + emit.gain >= ahead.least
    BY DEF ProofsHold
  <2>1. AllCompressed(emit) /\ st.rep = ahead.rep /\ jb.gained + emit.gain >= ahead.least
    BY EmittedAsProven
  <2> QED BY <2>1 DEF AllCompressed
<1> QED BY <1>1, PipelineInitInv, PipelineNextInv, PTL DEF Spec

-----------------------------------------------------------------------------
(* The plain loop, instantiated: its operators are this module's, which    *)
(* only its pc tells from it.                                              *)

(* Plain gives a partition resolved alike.                                 *)
LEMMA SameResolve ==
  ASSUME NEW d, NEW c, NEW s
  PROVE  Plain!ResolveOffCodes(d, c, s) = ResolveOffCodes(d, c, s)
BY DEF ResolveOffCodes, Plain!ResolveOffCodes, FoldLeft, Plain!FoldLeft,
       MapThenFoldSet, Plain!MapThenFoldSet, Max, Plain!Max, ResolveOffCode,
       Plain!ResolveOffCode, ResolveRepcode, Plain!ResolveRepcode, RepAt,
       Plain!RepAt, RepNum, Plain!RepNum, Ll0, Plain!Ll0, OffbaseIsRepcode,
       Plain!OffbaseIsRepcode, OffsetToOffbase, Plain!OffsetToOffbase, UpdateRep,
       Plain!UpdateRep

(* Plain gives a section decoded alike.                                    *)
LEMMA SameDecode ==
  ASSUME NEW h, NEW s
  PROVE  Plain!DecodeSequences(h, s) = DecodeSequences(h, s)
BY DEF DecodeSequences, Plain!DecodeSequences, FoldLeft, Plain!FoldLeft,
       MapThenFoldSet, Plain!MapThenFoldSet, Max, Plain!Max, DecodeOffset,
       Plain!DecodeOffset, DecodeSequence, Plain!DecodeSequence, RepNum,
       Plain!RepNum, Ll0, Plain!Ll0, RepAt, Plain!RepAt

(* Plain gives the codes of sequences alike.                               *)
LEMMA SameCodes ==
  ASSUME NEW s
  PROVE  Plain!Codes(s) = Codes(s)
BY DEF Codes, Plain!Codes, OffCode, Plain!OffCode

(* Plain gives the sizes of a unit alike.                                  *)
LEMMA SameSizes ==
  ASSUME NEW u
  PROVE  Plain!SizesOf(u) = SizesOf(u)
BY DEF SizesOf, Plain!SizesOf, NoSize, Plain!NoSize

(* Plain gives the codings of a unit alike.                                *)
LEMMA SameCodings ==
  ASSUME NEW need
  PROVE  Plain!AllCodings(need) = AllCodings(need)
BY DEF AllCodings, Plain!AllCodings, Codings, Plain!Codings, LiteralCodings,
       Plain!LiteralCodings, Spare, Plain!Spare, Cardinality, Plain!Cardinality,
       HeldTable, Plain!HeldTable, Coding, Plain!Coding, NoTable, Plain!NoTable,
       CodeCodings, Plain!CodeCodings

(* Plain gives the state after a block alike.                              *)
LEMMA SameEndBlock ==
  ASSUME NEW s, NEW kind, NEW rep, NEW coded
  PROVE  Plain!EndBlock(s, kind, rep, coded) = EndBlock(s, kind, rep, coded)
BY DEF EndBlock, Plain!EndBlock, Commit, Plain!Commit, Spare, Plain!Spare,
       NextOf, Plain!NextOf, DemoteValid, Plain!DemoteValid

(* Plain gives the block type alike.                                       *)
LEMMA SameKind ==
  ASSUME NEW u, NEW size, NEW first
  PROVE  Plain!KindOf(u, size, first) = KindOf(u, size, first)
BY DEF KindOf, Plain!KindOf, NoSize, Plain!NoSize,
       MinGain, Plain!MinGain

(* Plain gives a block's size alike.                                       *)
LEMMA SameWritten ==
  ASSUME NEW kind, NEW len, NEW size
  PROVE  Plain!Written(kind, len, size) = Written(kind, len, size)
BY DEF Written, Plain!Written, BlockHeaderSize, Plain!BlockHeaderSize

(* Plain gives a search alike.                                             *)
LEMMA SameSearch ==
  ASSUME NEW three, NEW rep, NEW reach, NEW moves
  PROVE  Plain!Search(three, rep, reach, moves) = Search(three, rep, reach, moves)
BY DEF Search, Plain!Search, FoldLeft, Plain!FoldLeft, MapThenFoldSet,
       Plain!MapThenFoldSet, Max, Plain!Max, ThreeStep, Plain!ThreeStep,
       ResolveRepcode, Plain!ResolveRepcode, RepAt, Plain!RepAt, RepNum,
       Plain!RepNum, Ll0, Plain!Ll0, OffsetToOffbase, Plain!OffsetToOffbase,
       UpdateRep, Plain!UpdateRep, OffbaseIsRepcode, Plain!OffbaseIsRepcode,
       RepCandidate, Plain!RepCandidate, Sequence, Plain!Sequence, TwoStep,
       Plain!TwoStep, RepTried, Plain!RepTried, LdmStep, Plain!LdmStep, TwoFinish,
       Plain!TwoFinish, TwoStart, Plain!TwoStart

(* Plain gives the cuts of a block alike.                                  *)
LEMMA SameCuttings ==
  ASSUME NEW b
  PROVE  Plain!Cuttings(b) = Cuttings(b)
BY DEF Cuttings, Plain!Cuttings, Unit, Plain!Unit, Literals, Plain!Literals

(* Plain gives a job's state alike.                                        *)
LEMMA SameStart ==
  ASSUME NEW start
  PROVE  Plain!JobState(start) = JobState(start)
BY DEF JobState, Plain!JobState, RepStartValue, Plain!RepStartValue, Load,
       Plain!Load, HeldTable, Plain!HeldTable, NoSlots, Plain!NoSlots, Slots,
       Plain!Slots, NoTable, Plain!NoTable, DictSlots, Plain!DictSlots, OffCode,
       Plain!OffCode, Clear, Plain!Clear

(* Plain gives its decoder's alike.                                        *)
LEMMA SameDecoders ==
  ASSUME NEW start
  PROVE  Plain!DecoderStates(start) = DecoderStates(start)
BY DEF DecoderStates, Plain!DecoderStates, NoTable, Plain!NoTable, JobState,
       Plain!JobState, RepStartValue, Plain!RepStartValue, Load, Plain!Load,
       HeldTable, Plain!HeldTable, NoSlots, Plain!NoSlots, Slots, Plain!Slots,
       DictSlots, Plain!DictSlots, OffCode, Plain!OffCode, Clear, Plain!Clear

(* Plain gives the moves of a search alike.                                *)
LEMMA SameMoves ==
  ASSUME NEW three
  PROVE  Plain!Moves(three) = Moves(three)
BY DEF Moves, Plain!Moves, RepNum, Plain!RepNum

(* Plain gives the blocks of a search alike.                               *)
LEMMA SameBuilds ==
  ASSUME NEW three, NEW start, NEW end, NEW rep
  PROVE  Plain!Builds(three, start, end, rep) = Builds(three, start, end, rep)
<1> DEFINE near == {m \in Moves(three) : m.off + MinMatch <= end}
           nearP == {m \in Plain!Moves(three) : m.off + Plain!MinMatch <= end}
           found == {Search(three, rep, reach, moves) :
                       reach \in Reaches, moves \in SeqOf(near, MaxSeqs)}
           foundP == {Plain!Search(three, rep, reach, moves) :
                        reach \in Reaches, moves \in Plain!SeqOf(nearP, MaxSeqs)}
<1>1. nearP = near
  BY SameMoves DEF MinMatch, Plain!MinMatch
<1>2. Plain!SeqOf(nearP, MaxSeqs) = SeqOf(near, MaxSeqs)
  <2> HIDE DEF near, nearP
  <2> QED BY <1>1 DEF SeqOf, Plain!SeqOf
<1> HIDE DEF near, nearP
<1>3. foundP = found
  BY <1>2, SameSearch
<1> HIDE DEF found, foundP
<1>4. Builds(three, start, end, rep) =
        IF AttemptsCompression(end - start)
        THEN {Block(start, end, TRUE, f.seqs, f.rep) : f \in {g \in found : g.ok}}
        ELSE {Block(start, end, FALSE, <<>>, RepStartValue)}
  BY DEF Builds, found, near
<1>5. Plain!Builds(three, start, end, rep) =
        IF Plain!AttemptsCompression(end - start)
        THEN {Plain!Block(start, end, TRUE, f.seqs, f.rep) : f \in {g \in foundP : g.ok}}
        ELSE {Plain!Block(start, end, FALSE, <<>>, Plain!RepStartValue)}
  BY DEF Plain!Builds, foundP, nearP
<1>6. Plain!AttemptsCompression(end - start) <=> AttemptsCompression(end - start)
  BY DEF AttemptsCompression, Plain!AttemptsCompression, MinCBlockSize,
         Plain!MinCBlockSize, BlockHeaderSize, Plain!BlockHeaderSize
<1>7. {Plain!Block(start, end, TRUE, f.seqs, f.rep) : f \in {g \in foundP : g.ok}}
        = {Block(start, end, TRUE, f.seqs, f.rep) : f \in {g \in found : g.ok}}
  BY <1>3 DEF Block, Plain!Block
<1>8. Plain!Block(start, end, FALSE, <<>>, Plain!RepStartValue)
        = Block(start, end, FALSE, <<>>, RepStartValue)
  BY DEF Block, Plain!Block, RepStartValue, Plain!RepStartValue
<1> QED BY <1>4, <1>5, <1>6, <1>7, <1>8

(* The cursor.                                                             *)
LEMMA SameCursor ==
  ASSUME NEW j, NEW in
  PROVE  /\ Plain!NextStart(j) = NextStart(j)
         /\ Plain!HasReady(j, in) <=> HasReady(j, in)
         /\ Plain!InputEnded(j, in) = InputEnded(j, in)
<1>1. Plain!NextStart(j) = NextStart(j)
  BY DEF NextStart, Plain!NextStart
<1>2. Plain!HasReady(j, in) <=> HasReady(j, in)
  BY DEF HasReady, Plain!HasReady, Ready, Plain!Ready, NextStart, Plain!NextStart
<1>3. Plain!InputEnded(j, in) = InputEnded(j, in)
  BY DEF InputEnded, Plain!InputEnded, Least, Plain!Least
<1> QED BY <1>1, <1>2, <1>3

(* The cursor after a block.                                               *)
LEMMA SameWrote ==
  ASSUME NEW j, NEW end, NEW gain PROVE Plain!Wrote(j, end, gain) = Wrote(j, end, gain)
BY DEF Wrote, Plain!Wrote

(* The end of the block to cut.                                            *)
LEMMA SameNextBlockEnd ==
  ASSUME NEW j, NEW in, NEW cut
  PROVE  Plain!NextBlockEnd(j, in, cut) = NextBlockEnd(j, in, cut)
BY DEF NextBlockEnd, Plain!NextBlockEnd, BlockEnd, Plain!BlockEnd, NextStart,
       Plain!NextStart, UnsplitSize, Plain!UnsplitSize, Least, Plain!Least, Savings,
       Plain!Savings

(* Where the plain loop is.                                                *)
LEMMA PcIs ==
  /\ pc = "overlap" => PlainPc = "emit"
  /\ pc = "joined" => PlainPc = "cut"
  /\ pc \notin {"overlap", "joined"} => PlainPc = pc
BY DEF PlainPc

(* And after a step.                                                       *)
LEMMA PcThen ==
  /\ pc' = "overlap" => PlainPc' = "emit"
  /\ pc' = "joined" => PlainPc' = "cut"
  /\ pc' \notin {"overlap", "joined"} => PlainPc' = pc'
BY DEF PlainPc
(* A unit is written alike.                                                *)
LEMMA SameEmitUnit == EmitUnit => Plain!EmitUnit
<1> SUFFICES ASSUME EmitUnit PROVE Plain!EmitUnit
  OBVIOUS
<1>0. emit.i <= Len(blk.units) /\ UNCHANGED <<jb, input, blk, job>>
  BY DEF EmitUnit
<1>1. PICK size \in SizesOf(UnitAt), coded \in AllCodings(Needs) :
        LET kind  == KindOf(UnitAt, size, blk.start = jb.jobStart)
            built == [st EXCEPT !.ent = [t \in Tables |-> Build(@[t], coded[t])]]
            dseqs == DecodeSequences(dec.rep, Resolved.seqs)
            held  == [t \in Tables |-> DecodedWith(dec.tables[t], coded[t])]
        IN  /\ st' = EndBlock(built, kind, Resolved.d, coded)
            /\ emit' = Emission(emit.i + 1, Restored(Resolved.d, kind, emit.d), Resolved.c,
                                emit.all /\ kind = "Compressed",
                                emit.gain + UnitAt.len - Written(kind, UnitAt.len, size))
            /\ dec' = IF kind = "Compressed"
                      THEN [rep |-> dseqs.hist, tables |-> held] ELSE dec
            /\ read' = [kind |-> kind,
                        raws |-> [k \in 1..Len(UnitAt.seqs) |-> UnitAt.seqs[k].raw],
                        offs |-> dseqs.offs, coded |-> coded, need |-> Needs,
                        tables |-> held]
  BY DEF EmitUnit, UnitAt, Resolved, Needs
<1> DEFINE r == IF Len(blk.units) = 1
                THEN [d |-> blk.rep, c |-> emit.c, seqs |-> UnitAt.seqs]
                ELSE Plain!ResolveOffCodes(emit.d, emit.c, UnitAt.seqs)
           need == [t \in Tables |-> IF t = "huf" THEN UnitAt.lits ELSE Plain!Codes(r.seqs)]
           kind  == Plain!KindOf(UnitAt, size, blk.start = jb.jobStart)
           built == [st EXCEPT !.ent = [t \in Tables |-> Plain!Build(@[t], coded[t])]]
           dseqs == Plain!DecodeSequences(dec.rep, r.seqs)
           held  == [t \in Tables |-> Plain!DecodedWith(dec.tables[t], coded[t])]
<1>2. r = Resolved
  BY SameResolve DEF Resolved
<1>3. need = Needs
  <2> HIDE DEF r
  <2> QED BY <1>2, SameCodes DEF Needs
<1>4. kind = KindOf(UnitAt, size, blk.start = jb.jobStart)
  <2> DEFINE first == (blk.start = jb.jobStart)
  <2>1. Plain!KindOf(UnitAt, size, first) = KindOf(UnitAt, size, first)
    <3> HIDE DEF first
    <3> QED BY SameKind
  <2> QED BY <2>1
<1>5. built = [st EXCEPT !.ent = [t \in Tables |-> Build(@[t], coded[t])]]
  BY DEF Build, Plain!Build, Spare, Plain!Spare
<1>6. dseqs = DecodeSequences(dec.rep, Resolved.seqs)
  <2> HIDE DEF r
  <2> QED BY <1>2, SameDecode
<1>7. held = [t \in Tables |-> DecodedWith(dec.tables[t], coded[t])]
  BY DEF DecodedWith, Plain!DecodedWith
<1> HIDE DEF r, need, kind, built, dseqs, held
<1>8. st' = Plain!EndBlock(built, kind, r.d, coded)
  <2>1. st' = EndBlock(built, kind, r.d, coded)
    BY <1>1, <1>2, <1>4, <1>5
  <2> QED BY <2>1, SameEndBlock
<1>9. emit' = Plain!Emission(emit.i + 1, Plain!Restored(r.d, kind, emit.d), r.c,
                             emit.all /\ kind = "Compressed",
                             emit.gain + UnitAt.len - Plain!Written(kind, UnitAt.len, size))
  <2>1. emit' = Emission(emit.i + 1, Restored(r.d, kind, emit.d), r.c,
                         emit.all /\ kind = "Compressed",
                         emit.gain + UnitAt.len - Written(kind, UnitAt.len, size))
    BY <1>1, <1>2, <1>4
  <2>2. Plain!Written(kind, UnitAt.len, size) = Written(kind, UnitAt.len, size)
    BY SameWritten
  <2> QED BY <2>1, <2>2 DEF Emission, Plain!Emission, Restored, Plain!Restored
<1>10. dec' = IF kind = "Compressed" THEN [rep |-> dseqs.hist, tables |-> held] ELSE dec
  BY <1>1, <1>4, <1>6, <1>7
<1>11. read' = [kind |-> kind,
                raws |-> [k \in 1..Len(UnitAt.seqs) |-> UnitAt.seqs[k].raw],
                offs |-> dseqs.offs, coded |-> coded, need |-> need, tables |-> held]
  BY <1>1, <1>3, <1>4, <1>6, <1>7
<1>12. size \in Plain!SizesOf(UnitAt) /\ coded \in Plain!AllCodings(need)
  BY <1>3, SameSizes, SameCodings
<1>13. \E z \in Plain!SizesOf(UnitAt), c \in Plain!AllCodings(need) :
        LET knd  == Plain!KindOf(UnitAt, z, blk.start = jb.jobStart)
            blt == [st EXCEPT !.ent = [t \in Tables |-> Plain!Build(@[t], c[t])]]
            ds == Plain!DecodeSequences(dec.rep, r.seqs)
            hd  == [t \in Tables |-> Plain!DecodedWith(dec.tables[t], c[t])]
        IN  /\ st' = Plain!EndBlock(blt, knd, r.d, c)
            /\ emit' = Plain!Emission(emit.i + 1, Plain!Restored(r.d, knd, emit.d), r.c,
                                emit.all /\ knd = "Compressed",
                                emit.gain + UnitAt.len - Plain!Written(knd, UnitAt.len, z))
            /\ dec' = IF knd = "Compressed"
                      THEN [rep |-> ds.hist, tables |-> hd] ELSE dec
            /\ read' = [kind |-> knd,
                        raws |-> [k \in 1..Len(UnitAt.seqs) |-> UnitAt.seqs[k].raw],
                        offs |-> ds.offs, coded |-> c, need |-> need,
                        tables |-> hd]
  BY <1>8, <1>9, <1>10, <1>11, <1>12, Zenon DEF kind, built, dseqs, held
<1> QED BY <1>0, <1>13, Zenon DEF Plain!EmitUnit, UnitAt, need, r

(* A block that is not attempted is.                                       *)
LEMMA SameEmitUncompressed == EmitUncompressed => Plain!EmitUncompressed
<1> SUFFICES ASSUME EmitUncompressed PROVE Plain!EmitUncompressed
  OBVIOUS
<1>1. st' = Plain!EndBlock(st, "Raw", st.rep, <<>>)
  BY SameEndBlock DEF EmitUncompressed
<1> QED BY <1>1 DEF EmitUncompressed, Plain!EmitUncompressed, Emission, Plain!Emission,
                    Written, Plain!Written, BlockHeaderSize, Plain!BlockHeaderSize,
                    NoSize, Plain!NoSize, NoRead, Plain!NoRead

(* So is a unit to write, where the plain loop writes.                     *)
LEMMA EmitsPlainly ==
  ASSUME PlainPc = "emit", PlainPc' = "emit", EmitUnit \/ EmitUncompressed
  PROVE  Plain!Emit
BY SameEmitUnit, SameEmitUncompressed DEF Plain!Emit

(* A call, and its return.                                                 *)
LEMMA CallsPlainly ==
  ASSUME NEW i, PlainPc = pc, PlainPc' = pc', Call(i)
  PROVE  Plain!Call(i)
BY SameCursor DEF Call, Plain!Call

(* Its return.                                                             *)
LEMMA ReturnsPlainly ==
  ASSUME PlainPc = pc, PlainPc' = pc', Return
  PROVE  Plain!Return
<1>1. Plain!InputEnded(jb, input) = InputEnded(jb, input)
  BY SameCursor
<1>2. Plain!HasReady(jb, input) <=> HasReady(jb, input)
  BY SameCursor
<1> QED BY <1>1, <1>2 DEF Return, Plain!Return

(* A block found at the cursor is taken.                                   *)
LEMMA TakesPlainly ==
  ASSUME PlainPc = "cut", PlainPc' = "derive", HasReady(jb, input),
         blk' \in Builds(job.three, NextStart(jb),
                         NextBlockEnd(jb, input, NextStart(jb) \in job.cuts), st.rep),
         UNCHANGED <<jb, input, emit, st, dec, read, job>>
  PROVE  Plain!CutAndFind
<1> DEFINE start == NextStart(jb)
           cut == start \in job.cuts
           end == NextBlockEnd(jb, input, cut)
<1>1. Plain!NextStart(jb) = start /\ (Plain!HasReady(jb, input) <=> HasReady(jb, input))
  BY SameCursor
<1>2. Plain!NextBlockEnd(jb, input, cut) = end
  <2> HIDE DEF cut
  <2> QED BY SameNextBlockEnd
<1>3. blk' \in Plain!Builds(job.three, start, end, st.rep)
  <2>1. blk' \in Builds(job.three, start, end, st.rep)
    OBVIOUS
  <2> HIDE DEF start, end
  <2> QED BY <2>1, SameBuilds
<1> HIDE DEF end
<1>4. blk' \in Plain!Builds(job.three, start,
                            Plain!NextBlockEnd(jb, input, start \in job.cuts), st.rep)
  BY <1>2, <1>3
<1> HIDE DEF start
<1>5. blk' \in Plain!Builds(job.three, Plain!NextStart(jb),
                            Plain!NextBlockEnd(jb, input, Plain!NextStart(jb) \in job.cuts),
                            st.rep)
  BY <1>1, <1>4
<1> QED BY <1>1, <1>5 DEF Plain!CutAndFind

(* It is cut into the units to write.                                      *)
LEMMA DerivesPlainly ==
  ASSUME PlainPc = "derive", PlainPc' = "emit", NEW units \in Cuttings(blk), StartEmit(units),
         UNCHANGED <<jb, input, st, dec, read, job>>
  PROVE  Plain!Derive
<1>1. units \in Plain!Cuttings(blk)
  BY SameCuttings
<1>2. Plain!StartEmit(units)
  BY DEF StartEmit, Plain!StartEmit, Emission, Plain!Emission
<1> QED BY <1>1, <1>2 DEF Plain!Derive

(* And accounted.                                                          *)
LEMMA AccountsPlainly ==
  ASSUME PlainPc = "emit", PlainPc' = "cut", Emitted, jb' = Wrote(jb, blk.end, emit.gain),
         blk' = NoBlock, emit' = NoEmit, read' = NoRead, UNCHANGED <<input, st, dec, job>>
  PROVE  Plain!BlockWritten
<1>1. jb' = Plain!Wrote(jb, blk.end, emit.gain)
  BY SameWrote
<1>2. blk' = Plain!NoBlock /\ emit' = Plain!NoEmit /\ read' = Plain!NoRead
  BY DEF NoBlock, Plain!NoBlock, Block, Plain!Block, NoEmit, Plain!NoEmit, Emission,
         Plain!Emission, NoRead, Plain!NoRead, RepStartValue, Plain!RepStartValue
<1> QED BY <1>1, <1>2 DEF Plain!BlockWritten, Emitted, Plain!Emitted

(* It starts where the plain loop does.                                    *)
LEMMA StartsPlainly == PipelineInit => Plain!Init
<1> SUFFICES ASSUME PipelineInit PROVE Plain!Init
  OBVIOUS
<1>1. PICK start \in JobStarts :
        /\ jb = NewJobBlocks([blockSizeMax |-> BlockSizeMax, split |-> PreSplit,
                              chunkSize |-> ChunkSize, headerLen |-> HeaderLen],
                             IF start = "First" THEN 0 ELSE Content,
                             start # "Later", TRUE)
        /\ st = JobState(start) /\ dec \in DecoderStates(start)
        /\ input = [kind |-> "Chunk", end |-> 0]
        /\ pc = "idle" /\ blk = NoBlock /\ emit = NoEmit /\ read = NoRead
        /\ job \in [three : Threes, cuts : Cuts]
  BY DEF PipelineInit, Init
<1>2. PlainPc = "idle"
  BY <1>1, PcIs
<1>3. blk = Plain!NoBlock /\ emit = Plain!NoEmit /\ read = Plain!NoRead
  BY <1>1 DEF NoBlock, Plain!NoBlock, Block, Plain!Block, NoEmit, Plain!NoEmit, Emission,
              Plain!Emission, NoRead, Plain!NoRead, RepStartValue, Plain!RepStartValue
<1>4. jb = Plain!NewJobBlocks([blockSizeMax |-> BlockSizeMax, split |-> PreSplit,
                               chunkSize |-> ChunkSize, headerLen |-> HeaderLen],
                              IF start = "First" THEN 0 ELSE Content,
                              start # "Later", TRUE)
  BY <1>1, Zenon DEF NewJobBlocks, Plain!NewJobBlocks
<1>5. st = Plain!JobState(start) /\ dec \in Plain!DecoderStates(start)
  BY <1>1, SameStart, SameDecoders
<1> QED BY <1>1, <1>2, <1>3, <1>4, <1>5, Zenon DEF Plain!Init

(* A step of the pipelined loop is one of the plain loop's, or none.       *)
LEMMA StepsPlainly ==
  ASSUME PInv, [Next]_vars
  PROVE  [Plain!SerialNext]_(Plain!svars)
<1>0. /\ pc \in {"idle", "cut", "joined", "derive", "emit", "overlap"}
  BY DEF PInv, IInv, TypeInv
<1>1. CASE \E i \in Inputs : PipelinedCall(i)
  <2>1. PICK i \in Inputs : PipelinedCall(i)
    BY <1>1
  <2>2. Call(i) /\ pc = "idle" /\ pc' = "cut"
    BY <2>1 DEF PipelinedCall, Call
  <2>3. PlainPc = pc /\ PlainPc' = pc'
    BY <2>2, PcIs, PcThen
  <2>4. Plain!Call(i)
    BY <2>2, <2>3, CallsPlainly
  <2> QED BY <2>4 DEF Plain!SerialNext
<1>2. CASE CutAndFind
  <2>1. PlainPc = "cut" /\ PlainPc' = "derive"
    BY <1>2, PcIs, PcThen DEF CutAndFind
  <2>2. Plain!CutAndFind
    BY <1>2, <2>1, TakesPlainly DEF CutAndFind
  <2> QED BY <2>2 DEF Plain!SerialNext, Plain!Serially
<1>3. CASE Derive \/ PipelinedDerive
  <2>1. PICK units \in Cuttings(blk) : StartEmit(units)
    BY <1>3 DEF Derive, PipelinedDerive
  <2>2. /\ pc = "derive" /\ pc' \in {"emit", "overlap"}
        /\ UNCHANGED <<jb, input, st, dec, read, job>>
    BY <1>3 DEF Derive, PipelinedDerive
  <2>3. PlainPc = "derive" /\ PlainPc' = "emit"
    BY <2>2, PcIs, PcThen
  <2>4. Plain!Derive
    BY <2>1, <2>2, <2>3, DerivesPlainly
  <2> QED BY <2>4 DEF Plain!SerialNext, Plain!Serially
<1>4. CASE Emit \/ EmitBeside
  <2>1. pc \in {"emit", "overlap"} /\ pc' = pc /\ (EmitUnit \/ EmitUncompressed)
    BY <1>4 DEF Emit, EmitBeside
  <2>2. PlainPc = "emit" /\ PlainPc' = "emit"
    BY <2>1, PcIs, PcThen
  <2>3. Plain!Emit
    BY <2>1, <2>2, EmitsPlainly
  <2> QED BY <2>3 DEF Plain!SerialNext, Plain!Serially
<1>5. CASE BlockWritten \/ Join
  <2>1. /\ pc \in {"emit", "overlap"} /\ pc' \in {"cut", "joined"} /\ Emitted
        /\ jb' = Wrote(jb, blk.end, emit.gain)
        /\ blk' = NoBlock /\ emit' = NoEmit /\ read' = NoRead
        /\ UNCHANGED <<input, st, dec, job>>
    BY <1>5 DEF BlockWritten, Join
  <2>2. PlainPc = "emit" /\ PlainPc' = "cut"
    BY <2>1, PcIs, PcThen
  <2>3. Plain!BlockWritten
    BY <2>1, <2>2, AccountsPlainly
  <2> QED BY <2>3 DEF Plain!SerialNext, Plain!Serially
<1>6. CASE Return
  <2>1. PlainPc = pc /\ PlainPc' = pc'
    BY <1>6, PcIs, PcThen DEF Return
  <2>2. Plain!Return
    BY <1>6, <2>1, ReturnsPlainly
  <2> QED BY <2>2 DEF Plain!SerialNext, Plain!Serially
<1>7. CASE TakeFollowing
  <2>1. PlainPc = "cut" /\ PlainPc' = "derive"
    BY <1>7, PcIs, PcThen DEF TakeFollowing
  <2>2. /\ HasReady(jb, input)
        /\ blk' \in Builds(job.three, NextStart(jb),
                           NextBlockEnd(jb, input, NextStart(jb) \in job.cuts), st.rep)
        /\ UNCHANGED <<jb, input, emit, st, dec, read, job>>
    BY <1>7 DEF TakeFollowing, PInv, JoinedInv
  <2>3. Plain!CutAndFind
    BY <2>1, <2>2, TakesPlainly
  <2> QED BY <2>3 DEF Plain!SerialNext, Plain!Serially
<1>8. CASE FindAhead \/ UNCHANGED vars
  <2>1. UNCHANGED svars
    BY <1>8 DEF FindAhead, vars
  <2> QED BY <2>1 DEF svars, Plain!svars, PlainPc
<1> QED BY <1>1, <1>2, <1>3, <1>4, <1>5, <1>6, <1>7, <1>8 DEF Next, Step, Plainly

(* "Output is identical either way" (the comment of compress_blocks): the  *)
(* pipelined loop implements the plain one, blocks, offsets, tables and    *)
(* what is written included, for inputs and parameters of any size.        *)
THEOREM PipelineImplementsSerial == Spec => PipelineIsSerial
<1>1. PipelineInit => Plain!Init
  BY StartsPlainly
<1>2. PInv /\ [Next]_vars => [Plain!SerialNext]_(Plain!svars)
  BY StepsPlainly
<1> QED BY <1>1, <1>2, PipelineInitInv, PipelineNextInv, PTL
        DEF Spec, PipelineIsSerial, Plain!SerialSpec
=============================================================================
