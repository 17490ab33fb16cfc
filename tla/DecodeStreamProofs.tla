------------------------- MODULE DecodeStreamProofs -------------------------
(***************************************************************************)
(* The streaming decompressor delivers what its stream holds, for every    *)
(* stream, however its input is cut, whatever room its calls have and      *)
(* wherever the round buffer wraps.                                        *)
(***************************************************************************)
EXTENDS DecodeStream, RepCodesProofs

-----------------------------------------------------------------------------
(* The inductive invariant.                                                *)

Stages == {"header", "skip", "block", "content", "checksum"}
UnitStages == {"header", "block", "content", "checksum"}
Places == {"idle", "top", "unit", "write", "next"} \union UnitStages

RingSet == [len: Nat, window: Nat, full: Nat, end: Nat, ext_end: Nat, flushed: Nat]
StageSet == [k: Stages, left: Nat, decoded: Nat, whole: BOOLEAN]
BlkSet == [j: Nat, ext: [k: {"none", "dict", "ring"}, len: Nat]]

TypeInv ==
    /\ stream \in Streams /\ upos \in 1 .. Len(CurUnits) + 1
    /\ left \in Nat /\ given \in Nat /\ room \in Nat /\ unit \in Nat /\ todo \in Nat
    /\ zeros \in Nat /\ out \in Seq(Int)
    /\ dict \in BOOLEAN /\ frame_ended \in BOOLEAN /\ failed \in BOOLEAN
    /\ stage \in StageSet
    /\ ring \in RingSet
    /\ mem \in [0 .. ring.len - 1 -> Int]
    /\ blk \in BlkSet
    /\ result \in [k: {"none", "hint", "zero", "err"}, n: Int]
    /\ pc \in Places

\* The unit the decoder is at is the one its stage is for.
AtUnit == upos <= Len(CurUnits)

PlaceInv ==
    /\ failed => pc = "idle"
    /\ ~failed => IF AtUnit THEN IF pc = "write" THEN Cur.k = "content" /\ stage.k = "block"
                                 ELSE Cur.k = stage.k
                  ELSE stage.k = "header" /\ unit = 0 /\ pc \in {"idle", "top", "unit"}
    /\ pc \in UnitStages => stage.k = pc /\ unit = Cur.len
    /\ pc = "next" => stage.k = "block"
    /\ pc = "unit" => stage.k # "skip"
    /\ pc \in {"write", "next"} => unit = 0
    /\ pc \notin {"write", "next"} => todo = 0
    /\ frame_ended => stage.k = "header" /\ unit = 0 /\ pc \in {"idle", "top"}
    /\ ~failed /\ stage.k = "skip" => unit = 0 /\ stage.left <= Cur.len
    /\ pc # "idle" => result.k = "none"

\* What is left of a unit: nothing of it is gathered, or not all of it, and
\* not all whenever a call has returned.
RestInv ==
    ~failed /\ AtUnit /\ pc \in {"idle", "top", "unit"} =>
        IF stage.k = "skip" THEN pc = "idle" => stage.left > 0
        ELSE unit < Cur.len \/ (unit = 0 /\ pc # "idle")

\* The bytes of the stream read.
LensOf(U) == Sums([i \in DOMAIN U |-> U[i].len])
LensTo == LensOf(CurUnits)

BytesInv ==
    /\ given <= StreamLen[stream]
    /\ ~failed => given - left =
          IF pc = "write" THEN LensTo[upos]
          ELSE LensTo[upos - 1] + unit + (IF stage.k = "skip" THEN Cur.len - stage.left ELSE 0)

\* The blocks left of a batch are in the input, with sizes in bounds.
BatchInv ==
    /\ pc = "write" =>
          /\ todo >= 1 /\ Cur.i + todo <= Len(CurFrame.blocks) + 1
          /\ left >= LensTo[upos + 2 * (todo - 1)] - LensTo[upos]
          /\ \A i \in Cur.i + 1 .. Cur.i + todo - 1 : ~HeaderFails(CurFrame.blocks[i])
    /\ pc = "next" =>
          /\ todo >= 1 /\ Cur.i + todo <= Len(CurFrame.blocks) + 1
          /\ left >= LensTo[upos + 2 * todo - 1] - LensTo[upos - 1]
          /\ \A i \in Cur.i .. Cur.i + todo - 1 : ~HeaderFails(CurFrame.blocks[i])

\* What a frame's blocks decode to before each.
Outs(fr) == Sums([i \in DOMAIN fr.blocks |-> fr.blocks[i].out])

InBlocks == ~failed /\ stage.k \in {"block", "content"}

Written == IF pc = "write" THEN blk.j ELSE 0

\* After n bytes of frame f position at of the buffer r, holding m, is next,
\* and the bytes a window before it are in the segment or, past its start,
\* at the end of the one before.
HistoryOf(r, m, f, n, at) ==
    \A d \in 1 .. Least(n, r.window) :
        m[IF d <= at THEN at - d ELSE r.ext_end - (d - at)] = Token(f, n - d + 1)

\* The buffer r is set up for frame fr, n bytes of which are decoded.
RingFor(r, fr, n) ==
    /\ r.window = fr.window /\ r.full = FullLen(fr)
    /\ fr.fcs # NoSize => n <= fr.fcs
    /\ r.end <= n /\ r.end <= r.len
    /\ r.ext_end = 0 => r.end = n
    /\ r.ext_end > 0 => /\ r.ext_end > r.window + Overlength
                        /\ r.ext_end <= n /\ r.ext_end <= r.len

RingInv ==
    /\ ring.flushed <= ring.end /\ ring.end <= ring.len
    /\ InBlocks =>
          /\ stage.decoded = Outs(CurFrame)[Cur.i - 1]
          /\ RingFor(ring, CurFrame, stage.decoded)
          /\ HistoryOf(ring, mem, Cur.f, stage.decoded + Written, ring.end + Written)
    /\ pc = "write" => /\ ring.end + BlockRoom <= ring.len
                       /\ blk.ext = ExtOf(ring)
                       /\ CurBlock.fault = "none" => blk.j <= CurBlock.out

\* The sizes of the frames before each.
SizesOf(s) == Sums([f \in DOMAIN s |-> Size(s[f])])

\* Where in the content of s its u-th unit stands, U being its units.
ContentPos(s, U, u) ==
    IF u > Len(U) THEN SizesOf(s)[Len(s)]
    ELSE IF U[u].k \in {"block", "content"}
         THEN SizesOf(s)[U[u].f - 1] + Outs(s[U[u].f])[U[u].i - 1]
    ELSE IF U[u].k = "checksum" THEN SizesOf(s)[U[u].f]
    ELSE SizesOf(s)[U[u].f - 1]

ContentAt == ContentPos(stream, CurUnits, upos)

DeliverInv ==
    /\ Len(out) <= Len(Content[stream])
    /\ \A p \in 1 .. Len(out) : out[p] = Content[stream][p]
    /\ ~failed => /\ Len(out) + Pending = ContentAt
                  /\ \A p \in 1 .. Pending :
                        mem[ring.flushed + p - 1] = Content[stream][Len(out) + p]
    /\ ~failed /\ (\/ stage.k \in {"content", "skip"}
                   \/ pc \in {"unit", "write"} \union UnitStages
                   \/ stage.k = "header" /\ ~frame_ended) => Pending = 0

ReportInv ==
    /\ zeros + (IF frame_ended THEN 1 ELSE 0) = FramesBehind
    /\ result.k = "zero" => ~failed /\ stage.k = "header" /\ ~frame_ended
    /\ result.k = "hint" =>
          /\ result.n >= 1 /\ ~failed
          /\ ~frame_ended => result.n <= IF ~AtUnit THEN PrefixLen
                                         ELSE IF stage.k = "skip" THEN stage.left
                                         ELSE Cur.len - unit

VerdictInv ==
    /\ failed => \/ upos \in BadUnits[stream]
                 \/ upos > 1 /\ CurUnits[upos - 1].k = "header" /\ CurFrame.window > WindowMax
    /\ \A i \in BadUnits[stream] : upos <= i

IInv ==
    /\ TypeInv /\ PlaceInv /\ RestInv /\ BytesInv /\ BatchInv /\ RingInv /\ DeliverInv
    /\ ReportInv /\ VerdictInv

-----------------------------------------------------------------------------
(* Sums, and flattened sequences.                                          *)

\* f is the recursive function of Sums, on 0..n.
IsSums(ns, n, f) == f = [i \in 0 .. n |-> IF i = 0 THEN 0 ELSE f[i - 1] + ns[i]]

(* It exists.                                                              *)
LEMMA SumsExist ==
  ASSUME NEW ns, NEW n \in Nat
  PROVE  \E f : IsSums(ns, n, f)
<1> DEFINE S == {m \in Nat : \E f : IsSums(ns, m, f)}
<1>1. 0 \in S
  <2>1. IsSums(ns, 0, [i \in 0 .. 0 |-> 0])
    BY DEF IsSums
  <2> QED BY <2>1
<1>2. ASSUME NEW m \in Nat, m \in S PROVE m + 1 \in S
  <2>1. PICK f : IsSums(ns, m, f)
    BY <1>2
  <2> DEFINE g == [i \in 0 .. (m + 1) |-> IF i = 0 THEN 0 ELSE f[i - 1] + ns[i]]
  <2>2. \A i \in 0 .. m : f[i] = g[i]
    BY <2>1 DEF IsSums
  <2>3. \A i \in 0 .. (m + 1) : i # 0 => i - 1 \in 0 .. m
    OBVIOUS
  <2>4. \A i \in 0 .. (m + 1) : i # 0 => f[i - 1] = g[i - 1]
    BY <2>2, <2>3
  <2>5. g = [i \in 0 .. (m + 1) |-> IF i = 0 THEN 0 ELSE g[i - 1] + ns[i]]
    BY <2>4
  <2>6. IsSums(ns, m + 1, g)
    BY <2>5 DEF IsSums
  <2> QED BY <2>6
<1>3. Nat \subseteq S
  <2> HIDE DEF S
  <2> QED BY <1>1, <1>2, SetInduction
<1> QED BY <1>3

(* The sums of a sequence, and that they grow.                             *)
LEMMA SumsIs ==
  ASSUME NEW ns \in Seq(Nat)
  PROVE  /\ Sums(ns)[0] = 0
         /\ \A n \in 1 .. Len(ns) : Sums(ns)[n] = Sums(ns)[n - 1] + ns[n]
         /\ \A n \in 0 .. Len(ns) : Sums(ns)[n] \in Nat
<1> DEFINE f == Sums(ns)
<1>1. IsSums(ns, Len(ns), f)
  <2>1. Len(ns) \in Nat
    OBVIOUS
  <2> QED BY <2>1, SumsExist DEF Sums, IsSums
<1> HIDE DEF f
<1>2. f[0] = 0 /\ \A n \in 1 .. Len(ns) : f[n] = f[n - 1] + ns[n]
  BY <1>1 DEF IsSums
<1> DEFINE S == {n \in Nat : n <= Len(ns) => f[n] \in Nat}
<1>3. 0 \in S
  BY <1>2
<1>4. ASSUME NEW n \in Nat, n \in S PROVE n + 1 \in S
  <2> SUFFICES ASSUME n + 1 <= Len(ns) PROVE f[n + 1] \in Nat
    OBVIOUS
  <2>1. n + 1 \in 1 .. Len(ns) /\ ns[n + 1] \in Nat /\ f[n] \in Nat
    BY <1>4
  <2>2. f[n + 1] = f[n] + ns[n + 1]
    BY <1>2, <2>1
  <2> QED BY <2>1, <2>2
<1>5. Nat \subseteq S
  <2> HIDE DEF S
  <2> QED BY <1>3, <1>4, SetInduction
<1> QED BY <1>2, <1>5 DEF f

(* Later sums are no less.                                                 *)
LEMMA SumsGrow ==
  ASSUME NEW ns \in Seq(Nat), NEW a \in 0 .. Len(ns), NEW b \in a .. Len(ns)
  PROVE  Sums(ns)[a] <= Sums(ns)[b]
<1> DEFINE f == Sums(ns)
<1>1. /\ \A n \in 1 .. Len(ns) : f[n] = f[n - 1] + ns[n]
      /\ \A n \in 0 .. Len(ns) : f[n] \in Nat
  BY SumsIs
<1> HIDE DEF f
<1> DEFINE S == {n \in Nat : a + n <= Len(ns) => f[a] <= f[a + n]}
<1>2. 0 \in S
  BY <1>1
<1>3. ASSUME NEW n \in Nat, n \in S PROVE n + 1 \in S
  <2> SUFFICES ASSUME a + (n + 1) <= Len(ns) PROVE f[a] <= f[a + (n + 1)]
    OBVIOUS
  <2> DEFINE c == a + (n + 1)
  <2>1. c \in 1 .. Len(ns) /\ c - 1 = a + n /\ ns[c] \in Nat /\ a + n \in 0 .. Len(ns)
    OBVIOUS
  <2>2. f[c] = f[c - 1] + ns[c]
    BY <1>1, <2>1
  <2>3. f[a] <= f[a + n] /\ f[a + n] \in Nat /\ f[a] \in Nat
    BY <1>1, <1>3, <2>1
  <2> HIDE DEF c
  <2>4. f[a] <= f[c]
    BY <2>1, <2>2, <2>3
  <2> QED BY <2>4 DEF c
<1>4. Nat \subseteq S
  <2> HIDE DEF S
  <2> QED BY <1>2, <1>3, SetInduction
<1>5. b - a \in Nat /\ a + (b - a) = b
  OBVIOUS
<1>6. b - a \in S
  <2> HIDE DEF S
  <2> QED BY <1>4, <1>5
<1> QED BY <1>5, <1>6 DEF f

(* Sums of what agrees so far agree so far.                                *)
LEMMA SumsAgree ==
  ASSUME NEW ns \in Seq(Nat), NEW ms \in Seq(Nat), NEW n \in Nat,
         n <= Len(ns), n <= Len(ms), \A i \in 1 .. n : ns[i] = ms[i]
  PROVE  Sums(ns)[n] = Sums(ms)[n]
<1> DEFINE f == Sums(ns)
           g == Sums(ms)
<1>1. /\ f[0] = 0 /\ g[0] = 0
      /\ \A i \in 1 .. Len(ns) : f[i] = f[i - 1] + ns[i]
      /\ \A i \in 1 .. Len(ms) : g[i] = g[i - 1] + ms[i]
  BY SumsIs
<1> HIDE DEF f, g
<1> DEFINE S == {i \in Nat : i <= n => f[i] = g[i]}
<1>2. 0 \in S
  BY <1>1
<1>3. ASSUME NEW i \in Nat, i \in S PROVE i + 1 \in S
  <2> SUFFICES ASSUME i + 1 <= n PROVE f[i + 1] = g[i + 1]
    OBVIOUS
  <2>1. i + 1 \in 1 .. Len(ns) /\ i + 1 \in 1 .. Len(ms) /\ (i + 1) - 1 = i
    OBVIOUS
  <2>2. f[i + 1] = f[i] + ns[i + 1] /\ g[i + 1] = g[i] + ms[i + 1]
    BY <1>1, <2>1
  <2> QED BY <1>3, <2>2
<1>4. Nat \subseteq S
  <2> HIDE DEF S
  <2> QED BY <1>2, <1>3, SetInduction
<1> QED BY <1>4 DEF f, g

\* The lengths of sequences before each.
Starts(ss) == Sums([k \in 1 .. Len(ss) |-> Len(ss[k])])

(* Where each sequence of ss starts.                                       *)
LEMMA StartsAre ==
  ASSUME NEW X, NEW ss \in Seq(Seq(X))
  PROVE  /\ Starts(ss)[0] = 0
         /\ \A k \in 1 .. Len(ss) : Starts(ss)[k] = Starts(ss)[k - 1] + Len(ss[k])
         /\ \A k \in 0 .. Len(ss) : Starts(ss)[k] \in Nat
<1> DEFINE ns == [k \in 1 .. Len(ss) |-> Len(ss[k])]
<1>1. ns \in Seq(Nat) /\ Len(ns) = Len(ss) /\ \A k \in 1 .. Len(ss) : ns[k] = Len(ss[k])
  OBVIOUS
<1> HIDE DEF ns
<1>2. /\ Sums(ns)[0] = 0
      /\ \A k \in 1 .. Len(ns) : Sums(ns)[k] = Sums(ns)[k - 1] + ns[k]
      /\ \A k \in 0 .. Len(ns) : Sums(ns)[k] \in Nat
  BY <1>1, SumsIs
<1> QED BY <1>1, <1>2 DEF Starts, ns

\* f is the recursive function of FlattenSeq, on 1..n.
FlatAt(ss, f, i) == IF i = 1 THEN ss[i] ELSE f[i - 1] \o ss[i]
IsFlat(ss, n, f) == f = [i \in 1 .. n |-> FlatAt(ss, f, i)]

(* It is what its definition says.                                         *)
LEMMA FlatStep ==
  ASSUME NEW ss, NEW n, NEW f, IsFlat(ss, n, f), NEW i \in 1 .. n
  PROVE  f[i] = FlatAt(ss, f, i)
<1> DEFINE g == [j \in 1 .. n |-> FlatAt(ss, f, j)]
<1>1. f = g
  BY DEF IsFlat
<1>2. g[i] = FlatAt(ss, f, i)
  OBVIOUS
<1> HIDE DEF g
<1> QED BY <1>1, <1>2

(* It exists.                                                              *)
LEMMA FlatExists ==
  ASSUME NEW ss, NEW n \in Nat
  PROVE  \E f : IsFlat(ss, n, f)
<1> DEFINE S == {m \in Nat : \E f : IsFlat(ss, m, f)}
<1>1. 0 \in S
  <2>1. IsFlat(ss, 0, [i \in 1 .. 0 |-> <<>>])
    BY DEF IsFlat
  <2> QED BY <2>1
<1>2. ASSUME NEW m \in Nat, m \in S PROVE m + 1 \in S
  <2>1. PICK f : IsFlat(ss, m, f)
    BY <1>2
  <2> DEFINE g == [i \in 1 .. (m + 1) |-> FlatAt(ss, f, i)]
  <2>2. \A i \in 1 .. m : f[i] = FlatAt(ss, f, i)
    BY <2>1, FlatStep, Zenon
  <2>3. \A i \in 1 .. (m + 1) : g[i] = FlatAt(ss, f, i)
    OBVIOUS
  <2>4. \A i \in 1 .. m : f[i] = g[i]
    <3>1. \A i \in 1 .. m : i \in 1 .. (m + 1)
      OBVIOUS
    <3> QED BY <2>2, <2>3, <3>1, Zenon
  <2>7. g = [i \in 1 .. (m + 1) |-> FlatAt(ss, f, i)]
    OBVIOUS
  <2> HIDE DEF g
  <2>8. \A i \in 1 .. (m + 1) : FlatAt(ss, f, i) = FlatAt(ss, g, i)
    <3> SUFFICES ASSUME NEW i \in 1 .. (m + 1) PROVE FlatAt(ss, f, i) = FlatAt(ss, g, i)
      OBVIOUS
    <3>1. CASE i = 1
      BY <3>1 DEF FlatAt
    <3>2. CASE i # 1
      <4>1. i - 1 \in 1 .. m
        BY <3>2
      <4>2. f[i - 1] = g[i - 1]
        BY <2>4, <4>1
      <4> QED BY <3>2, <4>2 DEF FlatAt
    <3> QED BY <3>1, <3>2
  <2>5. g = [i \in 1 .. (m + 1) |-> FlatAt(ss, g, i)]
    BY <2>7, <2>8
  <2>6. IsFlat(ss, m + 1, g)
    BY <2>5 DEF IsFlat
  <2> QED BY <2>6
<1>3. Nat \subseteq S
  <2> HIDE DEF S
  <2> QED BY <1>1, <1>2, SetInduction
<1> QED BY <1>3

\* t holds the first n of ss, one after the other.
Joins(ss, n, t) ==
    /\ Len(t) = Starts(ss)[n]
    /\ \A k \in 1 .. n : \A j \in 1 .. Len(ss[k]) : t[Starts(ss)[k - 1] + j] = ss[k][j]

(* One more.                                                               *)
LEMMA JoinsNext ==
  ASSUME NEW X, NEW ss \in Seq(Seq(X)), NEW n \in Nat, n + 1 <= Len(ss),
         NEW t \in Seq(X), Joins(ss, n, t)
  PROVE  t \o ss[n + 1] \in Seq(X) /\ Joins(ss, n + 1, t \o ss[n + 1])
<1> DEFINE f == Starts(ss)
           m == n + 1
           v == ss[m]
           w == t \o v
<1>1. /\ \A k \in 1 .. Len(ss) : f[k] = f[k - 1] + Len(ss[k])
      /\ \A k \in 0 .. Len(ss) : f[k] \in Nat
  BY StartsAre, Zenon
<1>2. m \in 1 .. Len(ss) /\ m - 1 = n /\ v \in Seq(X) /\ n \in 0 .. Len(ss)
  OBVIOUS
<1>3. /\ w \in Seq(X) /\ Len(w) = Len(t) + Len(v)
      /\ \A i \in 1 .. Len(t) : w[i] = t[i]
      /\ \A i \in 1 .. Len(v) : w[Len(t) + i] = v[i]
  BY <1>2
<1>4. Len(t) = f[n] /\ \A k \in 1 .. n : \A j \in 1 .. Len(ss[k]) : t[f[k - 1] + j] = ss[k][j]
  BY DEF Joins
<1>5. Len(w) = f[m]
  BY <1>1, <1>2, <1>3, <1>4
<1>6. \A k \in 1 .. n : f[k] <= f[n]
  <2> SUFFICES ASSUME NEW k \in 1 .. n PROVE f[k] <= f[n]
    OBVIOUS
  <2> DEFINE ns == [i \in 1 .. Len(ss) |-> Len(ss[i])]
  <2>1. ns \in Seq(Nat) /\ Len(ns) = Len(ss)
    OBVIOUS
  <2>2. k \in 0 .. Len(ns) /\ n \in k .. Len(ns)
    BY <1>2, <2>1
  <2> HIDE DEF ns
  <2>3. Sums(ns)[k] <= Sums(ns)[n]
    BY <2>1, <2>2, SumsGrow
  <2> QED BY <2>3 DEF Starts, ns
<1> HIDE DEF f, w, v, m
<1>7. ASSUME NEW k \in 1 .. m, NEW j \in 1 .. Len(ss[k]) PROVE w[f[k - 1] + j] = ss[k][j]
  <2>1. CASE k = m
    <3>1. ss[k] = v /\ f[k - 1] = Len(t)
      BY <2>1, <1>2, <1>4 DEF v
    <3> QED BY <3>1, <1>3, <1>7
  <2>2. CASE k # m
    <3>1. k \in 1 .. n /\ k \in 1 .. Len(ss) /\ k - 1 \in 0 .. Len(ss) /\ ss[k] \in Seq(X)
      BY <2>2, <1>2 DEF m
    <3>2. f[k] = f[k - 1] + Len(ss[k]) /\ f[k] <= Len(t) /\ f[k - 1] \in Nat /\ f[k] \in Nat
      BY <3>1, <1>1, <1>4, <1>6
    <3>3. Len(ss[k]) \in Nat /\ Len(t) \in Nat
      BY <3>1
    <3>4. f[k - 1] + j \in 1 .. Len(t)
      BY <3>2, <3>3, <1>7, SMTT(30)
    <3>5. w[f[k - 1] + j] = t[f[k - 1] + j]
      BY <3>4, <1>3
    <3> QED BY <3>1, <3>5, <1>4
  <2> QED BY <2>1, <2>2
<1>8. Joins(ss, m, w)
  BY <1>5, <1>7 DEF Joins, f
<1> QED BY <1>3, <1>8 DEF w, v, m

(* FlattenSeq joins them all.                                              *)
LEMMA FlattenJoins ==
  ASSUME NEW X, NEW ss \in Seq(Seq(X))
  PROVE  FlattenSeq(ss) \in Seq(X) /\ Joins(ss, Len(ss), FlattenSeq(ss))
<1>1. CASE Len(ss) = 0
  <2>1. ss = <<>> /\ FlattenSeq(ss) = ss
    BY <1>1 DEF FlattenSeq
  <2>2. Starts(ss)[0] = 0
    BY StartsAre, Zenon
  <2>3. FlattenSeq(ss) = <<>> /\ <<>> \in Seq(X) /\ Len(<<>>) = 0
    BY <2>1
  <2>4. Joins(ss, 0, <<>>)
    BY <2>2, <2>3 DEF Joins
  <2> QED BY <2>3, <2>4, <1>1
<1>2. CASE Len(ss) # 0
  <2> DEFINE N == Len(ss)
  <2>1. N \in Nat /\ N >= 1
    BY <1>2
  <2> DEFINE f == CHOOSE f : IsFlat(ss, N, f)
  <2>2. IsFlat(ss, N, f)
    BY <2>1, FlatExists
  <2>3. FlattenSeq(ss) = f[N]
    BY <1>2 DEF FlattenSeq, IsFlat, FlatAt
  <2> HIDE DEF f, N
  <2>4. /\ f[1] = ss[1]
        /\ \A i \in 2 .. N : f[i] = f[i - 1] \o ss[i]
    <3>1. 1 \in 1 .. N /\ \A i \in 2 .. N : i \in 1 .. N /\ i # 1
      BY <2>1
    <3>2. f[1] = FlatAt(ss, f, 1) /\ \A i \in 2 .. N : f[i] = FlatAt(ss, f, i)
      BY <2>2, <3>1, FlatStep, ZenonT(30)
    <3> QED BY <3>1, <3>2, Zenon DEF FlatAt
  <2> DEFINE S == {n \in Nat : n + 1 <= N => f[n + 1] \in Seq(X) /\ Joins(ss, n + 1, f[n + 1])}
  <2>5. 0 \in S
    <3>1. Joins(ss, 0, <<>>) /\ <<>> \in Seq(X)
      <4>1. Starts(ss)[0] = 0
        BY StartsAre, Zenon
      <4> QED BY <4>1 DEF Joins
    <3>2. 0 + 1 <= Len(ss) /\ 0 \in Nat
      BY <2>1 DEF N
    <3>3. <<>> \o ss[0 + 1] \in Seq(X) /\ Joins(ss, 0 + 1, <<>> \o ss[0 + 1])
      BY <3>1, <3>2, JoinsNext, Zenon
    <3>4. <<>> \o ss[0 + 1] = ss[1] /\ 0 + 1 = 1
      BY <3>2
    <3>5. f[0 + 1] = f[1]
      OBVIOUS
    <3>6. f[0 + 1] \in Seq(X) /\ Joins(ss, 0 + 1, f[0 + 1])
      BY <3>3, <3>4, <3>5, <2>4, Zenon
    <3> QED BY <3>6
  <2>6. ASSUME NEW n \in Nat, n \in S PROVE n + 1 \in S
    <3> DEFINE m == n + 1
    <3>1. m \in Nat
      OBVIOUS
    <3>2. ASSUME m + 1 <= N PROVE f[m + 1] \in Seq(X) /\ Joins(ss, m + 1, f[m + 1])
      <4>1. f[m] \in Seq(X) /\ Joins(ss, m, f[m])
        BY <2>6, <3>2, <2>1
      <4>2. m + 1 \in 2 .. N /\ (m + 1) - 1 = m /\ m + 1 <= Len(ss)
        BY <3>1, <3>2, <2>1 DEF N
      <4>3. f[m + 1] = f[m] \o ss[m + 1]
        BY <2>4, <4>2
      <4> HIDE DEF m
      <4>4. f[m] \o ss[m + 1] \in Seq(X) /\ Joins(ss, m + 1, f[m] \o ss[m + 1])
        BY <4>1, <4>2, <3>1, JoinsNext, Zenon
      <4> QED BY <4>3, <4>4
    <3> QED BY <3>1, <3>2
  <2>7. Nat \subseteq S
    <3> HIDE DEF S
    <3> QED BY <2>5, <2>6, SetInduction
  <2>8. N - 1 \in S /\ (N - 1) + 1 = N
    <3>1. N - 1 \in Nat /\ (N - 1) + 1 = N
      BY <2>1
    <3> HIDE DEF S
    <3> QED BY <2>7, <3>1
  <2>9. f[N] \in Seq(X) /\ Joins(ss, N, f[N])
    BY <2>8, <2>1
  <2> QED BY <2>3, <2>9 DEF N
<1> QED BY <1>1, <1>2

(* Every position is in one of the sequences joined.                       *)
LEMMA JoinedAt ==
  ASSUME NEW X, NEW ss \in Seq(Seq(X)), NEW u \in Nat, u >= 1, u <= Starts(ss)[Len(ss)]
  PROVE  \E k \in 1 .. Len(ss) : \E j \in 1 .. Len(ss[k]) : u = Starts(ss)[k - 1] + j
<1> DEFINE f == Starts(ss)
<1>1. /\ f[0] = 0
      /\ \A k \in 1 .. Len(ss) : f[k] = f[k - 1] + Len(ss[k])
      /\ \A k \in 0 .. Len(ss) : f[k] \in Nat
  BY StartsAre, Zenon
<1> DEFINE S == {n \in Nat : (n <= Len(ss) /\ u <= f[n]) =>
                    \E k \in 1 .. Len(ss) : \E j \in 1 .. Len(ss[k]) : u = f[k - 1] + j}
<1> HIDE DEF f
<1>2. 0 \in S
  BY <1>1
<1>3. ASSUME NEW n \in Nat, n \in S PROVE n + 1 \in S
  <2> DEFINE m == n + 1
  <2> SUFFICES ASSUME m <= Len(ss), u <= f[m]
               PROVE  \E k \in 1 .. Len(ss) : \E j \in 1 .. Len(ss[k]) : u = f[k - 1] + j
    OBVIOUS
  <2>1. m \in 1 .. Len(ss) /\ m - 1 = n /\ ss[m] \in Seq(X) /\ n \in 0 .. Len(ss)
    OBVIOUS
  <2>2. CASE u <= f[n]
    BY <2>1, <2>2, <1>3
  <2>3. CASE ~(u <= f[n])
    <3> HIDE DEF m
    <3>1. f[m] = f[n] + Len(ss[m]) /\ f[n] \in Nat /\ Len(ss[m]) \in Nat
      BY <2>1, <1>1
    <3>2. u - f[n] \in 1 .. Len(ss[m]) /\ u = f[m - 1] + (u - f[n])
      BY <2>1, <2>3, <3>1
    <3> QED BY <2>1, <3>2
  <2> QED BY <2>2, <2>3
<1>4. Nat \subseteq S
  <2> HIDE DEF S
  <2> QED BY <1>2, <1>3, SetInduction
<1>5. Len(ss) \in S
  <2> HIDE DEF S
  <2> QED BY <1>4
<1>6. u <= f[Len(ss)]
  BY DEF f
<1> QED BY <1>5, <1>6 DEF f

-----------------------------------------------------------------------------
(* The units of a stream.                                                  *)

UnitSet == [k: Stages, len: Nat, f: Nat, i: Nat]

\* The units of block i of frame f.
BlockUnits(fr, f, i) ==
    <<Unit("block", BlockHeaderLen, f, i), Unit("content", fr.blocks[i].clen, f, i)>>

(* A unit is one.                                                          *)
LEMMA UnitIs ==
  ASSUME NEW k \in Stages, NEW len \in Nat, NEW f \in Nat, NEW i \in Nat
  PROVE  /\ Unit(k, len, f, i) \in UnitSet
         /\ Unit(k, len, f, i).k = k /\ Unit(k, len, f, i).len = len
         /\ Unit(k, len, f, i).f = f /\ Unit(k, len, f, i).i = i
BY DEF Unit, UnitSet

(* What a frame's fields are.                                              *)
LEMMA FrameIs ==
  ASSUME NEW fr \in FrameSet
  PROVE  /\ fr.hlen \in Nat /\ fr.left \in Nat /\ fr.window \in Nat
         /\ fr.fcs \in Nat \union {NoSize} /\ fr.blocks \in Seq(BlockSet)
         /\ DOMAIN fr.blocks = 1 .. Len(fr.blocks) /\ Len(fr.blocks) \in Nat
         /\ \A i \in 1 .. Len(fr.blocks) : /\ fr.blocks[i] \in BlockSet
                                           /\ fr.blocks[i].clen \in Nat
                                           /\ fr.blocks[i].out \in Nat
<1>1. /\ fr.hlen \in Nat /\ fr.left \in Nat /\ fr.window \in Nat
      /\ fr.fcs \in Nat \union {NoSize} /\ fr.blocks \in Seq(BlockSet)
  BY DEF FrameSet
<1> DEFINE b == fr.blocks
<1>2. b \in Seq(BlockSet)
  BY <1>1
<1> HIDE DEF b
<1>3. DOMAIN b = 1 .. Len(b) /\ Len(b) \in Nat /\ \A i \in 1 .. Len(b) : b[i] \in BlockSet
  BY <1>2
<1>4. \A x \in BlockSet : x.clen \in Nat /\ x.out \in Nat
  BY DEF BlockSet
<1>5. \A i \in 1 .. Len(b) : b[i].clen \in Nat /\ b[i].out \in Nat
  BY <1>3, <1>4
<1> QED BY <1>1, <1>3, <1>5 DEF b

\* The units of the blocks of frame f.
Pairs(fr, f) == [i \in DOMAIN fr.blocks |-> BlockUnits(fr, f, i)]

(* Where the units of its blocks are.                                      *)
LEMMA PairsAre ==
  ASSUME NEW fr \in FrameSet, NEW f \in Nat
  PROVE  /\ FlattenSeq(Pairs(fr, f)) \in Seq(UnitSet)
         /\ Len(FlattenSeq(Pairs(fr, f))) = 2 * Len(fr.blocks)
         /\ \A i \in 1 .. Len(fr.blocks) :
               /\ FlattenSeq(Pairs(fr, f))[2 * i - 1] = Unit("block", BlockHeaderLen, f, i)
               /\ FlattenSeq(Pairs(fr, f))[2 * i] = Unit("content", fr.blocks[i].clen, f, i)
<1> DEFINE ss == Pairs(fr, f)
           N == Len(fr.blocks)
           g == Starts(ss)
           t == FlattenSeq(ss)
<1>1. N \in Nat /\ DOMAIN fr.blocks = 1 .. N /\ \A i \in 1 .. N : fr.blocks[i].clen \in Nat
  BY FrameIs
<1> HIDE DEF N
<1>2. ASSUME NEW i \in 1 .. N
      PROVE  /\ BlockUnits(fr, f, i) \in Seq(UnitSet) /\ Len(BlockUnits(fr, f, i)) = 2
             /\ BlockUnits(fr, f, i)[1] = Unit("block", BlockHeaderLen, f, i)
             /\ BlockUnits(fr, f, i)[2] = Unit("content", fr.blocks[i].clen, f, i)
  <2>1. i \in Nat /\ BlockHeaderLen \in Nat /\ fr.blocks[i].clen \in Nat
    BY <1>1 DEF BlockHeaderLen
  <2>2. "block" \in Stages /\ "content" \in Stages
    BY DEF Stages
  <2>3. /\ Unit("block", BlockHeaderLen, f, i) \in UnitSet
        /\ Unit("content", fr.blocks[i].clen, f, i) \in UnitSet
    BY <2>1, <2>2, UnitIs, Zenon
  <2> QED BY <2>3 DEF BlockUnits
<1>3. ss = [i \in 1 .. N |-> BlockUnits(fr, f, i)]
  BY <1>1 DEF Pairs
<1>4. /\ ss \in Seq(Seq(UnitSet)) /\ Len(ss) = N
      /\ \A i \in 1 .. N : ss[i] = BlockUnits(fr, f, i)
  BY <1>1, <1>2, <1>3
<1> HIDE DEF ss
<1>5. /\ g[0] = 0
      /\ \A k \in 1 .. N : g[k] = g[k - 1] + 2
  <2>1. /\ g[0] = 0
        /\ \A k \in 1 .. Len(ss) : g[k] = g[k - 1] + Len(ss[k])
    BY <1>4, StartsAre, Zenon
  <2> QED BY <2>1, <1>4, <1>2
<1>6. t \in Seq(UnitSet) /\ Joins(ss, N, t)
  BY <1>4, FlattenJoins, Zenon
<1>7. /\ Len(t) = g[N]
      /\ \A k \in 1 .. N : \A j \in 1 .. Len(ss[k]) : t[g[k - 1] + j] = ss[k][j]
  BY <1>6 DEF Joins
<1> HIDE DEF g, t
<1> DEFINE S == {k \in Nat : k <= N => g[k] = 2 * k}
<1>8. 0 \in S
  BY <1>5
<1>9. ASSUME NEW k \in Nat, k \in S PROVE k + 1 \in S
  <2> SUFFICES ASSUME k + 1 <= N PROVE g[k + 1] = 2 * (k + 1)
    OBVIOUS
  <2>1. k + 1 \in 1 .. N /\ (k + 1) - 1 = k
    BY <1>1
  <2>2. g[k + 1] = g[k] + 2 /\ g[k] = 2 * k
    BY <1>5, <1>9, <2>1, <1>1
  <2> QED BY <2>2
<1>10. Nat \subseteq S
  <2> HIDE DEF S
  <2> QED BY <1>8, <1>9, SetInduction
<1>11. \A k \in 0 .. N : g[k] = 2 * k
  BY <1>10, <1>1
<1>12. Len(t) = 2 * N
  BY <1>7, <1>11, <1>1
<1>13. ASSUME NEW i \in 1 .. N
       PROVE  /\ t[2 * i - 1] = Unit("block", BlockHeaderLen, f, i)
              /\ t[2 * i] = Unit("content", fr.blocks[i].clen, f, i)
  <2>1. i - 1 \in 0 .. N /\ 2 * (i - 1) + 1 = 2 * i - 1 /\ 2 * (i - 1) + 2 = 2 * i
    BY <1>1
  <2>2. g[i - 1] = 2 * (i - 1) /\ Len(ss[i]) = 2
    <3>1. g[i - 1] = 2 * (i - 1)
      BY <2>1, <1>11
    <3>2. Len(ss[i]) = 2
      BY <1>4, <1>2
    <3> QED BY <3>1, <3>2
  <2>3. t[g[i - 1] + 1] = ss[i][1] /\ t[g[i - 1] + 2] = ss[i][2]
    BY <2>2, <1>7
  <2>4. t[2 * i - 1] = ss[i][1] /\ t[2 * i] = ss[i][2]
    BY <2>1, <2>2, <2>3
  <2> QED BY <2>4, <1>4, <1>2
<1> QED BY <1>6, <1>12, <1>13 DEF t, ss, N

\* us are the units of frame f, fr.
FrameLaidOut(fr, f, us) ==
    /\ us \in Seq(UnitSet)
    /\ us[1] = Unit("header", fr.hlen, f, 0)
    /\ fr.skip => Len(us) = 2 /\ us[2] = Unit("skip", fr.left, f, 0)
    /\ ~fr.skip => /\ Len(us) = 2 * Len(fr.blocks) + (IF fr.checksum THEN 2 ELSE 1)
                   /\ \A i \in 1 .. Len(fr.blocks) :
                         /\ us[2 * i] = Unit("block", BlockHeaderLen, f, i)
                         /\ us[2 * i + 1] = Unit("content", fr.blocks[i].clen, f, i)
                   /\ fr.checksum => us[Len(us)] = Unit("checksum", ChecksumLen, f, 0)

(* A sequence put before another.                                          *)
LEMMA PutBefore ==
  ASSUME NEW X, NEW s \in Seq(X), NEW t \in Seq(X)
  PROVE  /\ s \o t \in Seq(X) /\ Len(s \o t) = Len(s) + Len(t)
         /\ \A i \in 1 .. Len(s) : (s \o t)[i] = s[i]
         /\ \A i \in 1 .. Len(t) : (s \o t)[Len(s) + i] = t[i]
OBVIOUS

(* What the units of a frame are.                                          *)
LEMMA FrameUnitsAre ==
  ASSUME NEW fr \in FrameSet, NEW f \in Nat
  PROVE  FrameLaidOut(fr, f, FrameUnits(fr, f))
<1> DEFINE h == <<Unit("header", fr.hlen, f, 0)>>
           p == FlattenSeq(Pairs(fr, f))
           c == IF fr.checksum THEN <<Unit("checksum", ChecksumLen, f, 0)>> ELSE <<>>
           N == Len(fr.blocks)
           us == FrameUnits(fr, f)
<1>1. fr.hlen \in Nat /\ fr.left \in Nat /\ N \in Nat
  BY FrameIs
<1>2. /\ Unit("header", fr.hlen, f, 0) \in UnitSet
      /\ Unit("skip", fr.left, f, 0) \in UnitSet
      /\ Unit("checksum", ChecksumLen, f, 0) \in UnitSet
  BY <1>1, UnitIs DEF Stages, ChecksumLen
<1>3. h \in Seq(UnitSet) /\ Len(h) = 1 /\ h[1] = Unit("header", fr.hlen, f, 0)
  BY <1>2
<1>4. CASE fr.skip
  <2> DEFINE k == <<Unit("skip", fr.left, f, 0)>>
  <2>1. us = h \o k
    BY <1>4 DEF FrameUnits
  <2>2. k \in Seq(UnitSet) /\ Len(k) = 1 /\ k[1] = Unit("skip", fr.left, f, 0)
    BY <1>2
  <2> HIDE DEF h, k, us
  <2>3. us \in Seq(UnitSet) /\ Len(us) = 2 /\ us[1] = h[1] /\ us[2] = k[1]
    <3>1. /\ us \in Seq(UnitSet) /\ Len(us) = Len(h) + Len(k)
          /\ \A i \in 1 .. Len(h) : us[i] = h[i]
          /\ \A i \in 1 .. Len(k) : us[Len(h) + i] = k[i]
      <4>3. h \in Seq(UnitSet) /\ k \in Seq(UnitSet)
        BY <1>3, <2>2
      <4>2. /\ h \o k \in Seq(UnitSet) /\ Len(h \o k) = Len(h) + Len(k)
            /\ \A i \in 1 .. Len(h) : (h \o k)[i] = h[i]
            /\ \A i \in 1 .. Len(k) : (h \o k)[Len(h) + i] = k[i]
        BY <4>3, PutBefore
      <4> QED BY <2>1, <4>2
    <3>2. 1 \in 1 .. Len(h) /\ 1 \in 1 .. Len(k) /\ Len(h) + 1 = 2
      BY <1>3, <2>2
    <3>3. us[Len(h) + 1] = k[1] /\ us[1] = h[1]
      BY <3>1, <3>2, Zenon
    <3> QED BY <1>3, <2>2, <3>1, <3>2, <3>3
  <2> QED BY <2>3, <2>2, <1>3, <1>4 DEF FrameLaidOut, us
<1>5. CASE ~fr.skip
  <2>1. us = h \o (p \o c)
    BY <1>5 DEF FrameUnits, Pairs, BlockUnits
  <2>2. /\ p \in Seq(UnitSet) /\ Len(p) = 2 * N
        /\ \A i \in 1 .. N : /\ p[2 * i - 1] = Unit("block", BlockHeaderLen, f, i)
                             /\ p[2 * i] = Unit("content", fr.blocks[i].clen, f, i)
    BY PairsAre
  <2>3. /\ c \in Seq(UnitSet)
        /\ fr.checksum => Len(c) = 1 /\ c[1] = Unit("checksum", ChecksumLen, f, 0)
        /\ ~fr.checksum => Len(c) = 0
    BY <1>2
  <2> DEFINE pc1 == p \o c
  <2> HIDE DEF h, p, c, us, N
  <2>4. /\ pc1 \in Seq(UnitSet) /\ Len(pc1) = 2 * N + Len(c)
        /\ \A i \in 1 .. 2 * N : pc1[i] = p[i]
        /\ \A i \in 1 .. Len(c) : pc1[2 * N + i] = c[i]
    BY <2>2, <2>3, PutBefore, SMTT(30)
  <2> HIDE DEF pc1
  <2>5. /\ us \in Seq(UnitSet) /\ Len(us) = 1 + Len(pc1)
        /\ us[1] = h[1]
        /\ \A i \in 1 .. Len(pc1) : us[1 + i] = pc1[i]
    <3>1. /\ us \in Seq(UnitSet) /\ Len(us) = Len(h) + Len(pc1)
          /\ \A i \in 1 .. Len(h) : us[i] = h[i]
          /\ \A i \in 1 .. Len(pc1) : us[Len(h) + i] = pc1[i]
      <4>1. us = h \o pc1
        BY <2>1 DEF pc1
      <4>3. h \in Seq(UnitSet) /\ pc1 \in Seq(UnitSet)
        BY <1>3, <2>4
      <4>2. /\ h \o pc1 \in Seq(UnitSet) /\ Len(h \o pc1) = Len(h) + Len(pc1)
            /\ \A i \in 1 .. Len(h) : (h \o pc1)[i] = h[i]
            /\ \A i \in 1 .. Len(pc1) : (h \o pc1)[Len(h) + i] = pc1[i]
        BY <4>3, PutBefore
      <4> QED BY <4>1, <4>2
    <3>2. 1 \in 1 .. Len(h)
      BY <1>3
    <3> QED BY <1>3, <3>1, <3>2
  <2>6. Len(us) = 2 * N + (IF fr.checksum THEN 2 ELSE 1)
    <3>1. Len(us) = 1 + (2 * N + Len(c))
      BY <2>4, <2>5
    <3>2. CASE fr.checksum
      <4>1. Len(c) = 1
        BY <3>2, <2>3, Zenon
      <4>2. Len(us) = 2 * N + 2
        BY <3>1, <4>1, <1>1
      <4> QED BY <3>2, <4>2
    <3>3. CASE ~fr.checksum
      <4>1. Len(c) = 0
        BY <3>3, <2>3, Zenon
      <4>2. Len(us) = 2 * N + 1
        BY <3>1, <4>1, <1>1
      <4> QED BY <3>3, <4>2
    <3> QED BY <3>2, <3>3
  <2>7. ASSUME NEW i \in 1 .. N
        PROVE  /\ us[2 * i] = Unit("block", BlockHeaderLen, f, i)
               /\ us[2 * i + 1] = Unit("content", fr.blocks[i].clen, f, i)
    <3>1. 2 * i - 1 \in 1 .. 2 * N /\ 2 * i \in 1 .. 2 * N /\ 1 + (2 * i - 1) = 2 * i
          /\ 1 + 2 * i = 2 * i + 1 /\ Len(c) \in Nat
      BY <1>1, <2>3
    <3>2. 2 * i - 1 \in 1 .. Len(pc1) /\ 2 * i \in 1 .. Len(pc1)
      BY <3>1, <2>4, <1>1
    <3>3. us[1 + (2 * i - 1)] = pc1[2 * i - 1] /\ us[1 + 2 * i] = pc1[2 * i]
      BY <3>2, <2>5
    <3>4. pc1[2 * i - 1] = p[2 * i - 1] /\ pc1[2 * i] = p[2 * i]
      BY <3>1, <2>4
    <3> QED BY <3>1, <3>3, <3>4, <2>2
  <2>8. ASSUME fr.checksum PROVE us[Len(us)] = Unit("checksum", ChecksumLen, f, 0)
    <3>1. Len(c) = 1 /\ Len(us) = 1 + (2 * N + 1) /\ 2 * N + 1 = Len(pc1) /\ Len(pc1) \in Nat
          /\ 1 \in 1 .. Len(c) /\ 2 * N + 1 \in 1 .. Len(pc1)
      <4>1. Len(c) = 1
        BY <2>8, <2>3, Zenon
      <4>2. Len(pc1) = 2 * N + 1 /\ Len(us) = 1 + Len(pc1)
        BY <4>1, <2>4, <2>5
      <4> QED BY <4>1, <4>2, <1>1
    <3>2. us[1 + (2 * N + 1)] = pc1[2 * N + 1]
      BY <3>1, <2>5
    <3>3. pc1[2 * N + 1] = c[1]
      BY <3>1, <2>4
    <3> QED BY <3>1, <3>2, <3>3, <2>3, <2>8
  <2>9. us[1] = Unit("header", fr.hlen, f, 0)
    BY <2>5, <1>3
  <2> QED BY <2>5, <2>6, <2>7, <2>8, <2>9, <1>5 DEF FrameLaidOut, us, N
<1> QED BY <1>4, <1>5

\* The u-th of t is the j-th of the k-th of ss, and so is what follows it.
Follows(ss, t, k, j, u) ==
    /\ u \in 1 .. Len(t) /\ t[u] = ss[k][j]
    /\ j < Len(ss[k]) => u < Len(t) /\ t[u + 1] = ss[k][j + 1]
    /\ j = Len(ss[k]) /\ k = Len(ss) => u = Len(t)
    /\ j = Len(ss[k]) /\ k < Len(ss) /\ Len(ss[k + 1]) >= 1 =>
          u < Len(t) /\ t[u + 1] = ss[k + 1][1]

(* What follows a position of joined sequences.                            *)
LEMMA JoinsFollow ==
  ASSUME NEW X, NEW ss \in Seq(Seq(X)), NEW t \in Seq(X), Joins(ss, Len(ss), t),
         NEW k \in 1 .. Len(ss), NEW j \in 1 .. Len(ss[k]), NEW u, u = Starts(ss)[k - 1] + j
  PROVE  Follows(ss, t, k, j, u)
<1> DEFINE g == Starts(ss)
           N == Len(ss)
           L == Len(ss[k])
<1>1. /\ \A i \in 1 .. N : g[i] = g[i - 1] + Len(ss[i])
      /\ \A i \in 0 .. N : g[i] \in Nat
  BY StartsAre, Zenon
<1>2. /\ Len(t) = g[N]
      /\ \A a \in 1 .. N : \A b \in 1 .. Len(ss[a]) : t[g[a - 1] + b] = ss[a][b]
  BY DEF Joins
<1>3. N \in Nat /\ \A a \in 1 .. N : ss[a] \in Seq(X) /\ Len(ss[a]) \in Nat
  OBVIOUS
<1>4. g[k] <= g[N] /\ (k < N => g[k + 1] <= g[N])
  <2> DEFINE ns == [i \in 1 .. Len(ss) |-> Len(ss[i])]
  <2>1. ns \in Seq(Nat) /\ Len(ns) = Len(ss)
    OBVIOUS
  <2> HIDE DEF ns
  <2>2. k \in 0 .. Len(ns) /\ N \in k .. Len(ns)
    BY <1>3, <2>1
  <2>3. Sums(ns)[k] <= Sums(ns)[N]
    BY <2>1, <2>2, SumsGrow
  <2>4. ASSUME k < N PROVE Sums(ns)[k + 1] <= Sums(ns)[N]
    <3>1. k + 1 \in 0 .. Len(ns) /\ N \in (k + 1) .. Len(ns)
      BY <1>3, <2>1, <2>4
    <3> QED BY <2>1, <3>1, SumsGrow
  <2> QED BY <2>3, <2>4 DEF Starts, ns
<1>5. u = g[k - 1] + j /\ L \in Nat
  BY <1>3
<1> HIDE DEF g, N, L
<1>6. k \in 1 .. N /\ k - 1 \in 0 .. N /\ k \in 0 .. N /\ j \in 1 .. L
  BY <1>3 DEF N, L
<1>7. g[k] = g[k - 1] + L /\ g[k - 1] \in Nat /\ g[k] \in Nat /\ g[N] \in Nat
  BY <1>1, <1>3, <1>6 DEF L
<1> DEFINE a == g[k - 1]
<1>a. /\ u = a + j /\ a \in Nat /\ L \in Nat /\ j \in 1 .. L /\ u \in Nat
      /\ a + L <= Len(t) /\ Len(t) \in Nat /\ g[k] = a + L
  BY <1>2, <1>4, <1>5, <1>6, <1>7
<1>b. \A b \in 1 .. Len(ss[k]) : t[a + b] = ss[k][b]
  BY <1>2, <1>6
<1> HIDE DEF a
<1>8. u \in 1 .. Len(t) /\ t[u] = ss[k][j]
  BY <1>a, <1>b, SMTT(30)
<1>9. ASSUME j < L PROVE u < Len(t) /\ t[u + 1] = ss[k][j + 1]
  <2>1. j + 1 \in 1 .. L /\ u + 1 = a + (j + 1)
    BY <1>9, <1>a
  <2>2. t[a + (j + 1)] = ss[k][j + 1]
    BY <2>1, <1>b DEF L
  <2>3. u < Len(t)
    BY <1>9, <1>a
  <2> QED BY <2>1, <2>2, <2>3
<1>10. ASSUME j = L, k = N PROVE u = Len(t)
  BY <1>10, <1>2, <1>a
<1>11. ASSUME j = L, k < N, Len(ss[k + 1]) >= 1 PROVE u < Len(t) /\ t[u + 1] = ss[k + 1][1]
  <2> DEFINE m == k + 1
  <2>1. m \in 1 .. N /\ m - 1 = k /\ u = g[k] /\ m \in 0 .. N
    BY <1>11, <1>6, <1>a, <1>3
  <2>2. 1 \in 1 .. Len(ss[m])
    BY <1>11, <2>1, <1>3
  <2>3. g[m] = g[m - 1] + Len(ss[m]) /\ Len(ss[m]) \in Nat /\ g[m] \in Nat /\ g[m] <= g[N]
    BY <2>1, <1>1, <1>3, <1>4, <1>11
  <2>4. t[g[m - 1] + 1] = ss[m][1]
    BY <2>1, <2>2, <1>2
  <2>5. u + 1 = g[m - 1] + 1
    BY <2>1
  <2>6. u < Len(t)
    <3> DEFINE l == Len(ss[m])
               e == g[N]
    <3> HIDE DEF m
    <3>1. g[m] = u + l /\ l >= 1 /\ l \in Nat /\ g[m] <= e /\ e = Len(t)
      BY <2>1, <2>2, <2>3, <1>2
    <3> HIDE DEF l, e
    <3> QED BY <3>1, <1>a
  <2> QED BY <2>4, <2>5, <2>6
<1> QED BY <1>8, <1>9, <1>10, <1>11 DEF N, L, Follows

\* The u-th unit of U ends its frame of s.
EndsFrame(s, U, u) ==
    IF U[u].f = Len(s) THEN u = Len(U)
    ELSE u < Len(U) /\ U[u + 1] = Unit("header", s[U[u].f + 1].hlen, U[u].f + 1, 0)

\* The u-th unit of U, the units of s, and what follows it.
LinkedAt(s, U, u) ==
    LET c == U[u]
        fr == s[c.f]
    IN /\ c \in UnitSet /\ c.f \in 1 .. Len(s)
       /\ c.k = "header" =>
             /\ c.len = fr.hlen /\ c.i = 0 /\ u < Len(U)
             /\ fr.skip => U[u + 1] = Unit("skip", fr.left, c.f, 0)
             /\ ~fr.skip => U[u + 1] = Unit("block", BlockHeaderLen, c.f, 1)
       /\ c.k = "skip" => fr.skip /\ c.len = fr.left /\ EndsFrame(s, U, u)
       /\ c.k = "block" =>
             /\ ~fr.skip /\ c.i \in 1 .. Len(fr.blocks) /\ c.len = BlockHeaderLen
             /\ u < Len(U) /\ U[u + 1] = Unit("content", fr.blocks[c.i].clen, c.f, c.i)
       /\ c.k = "content" =>
             /\ ~fr.skip /\ c.i \in 1 .. Len(fr.blocks) /\ c.len = fr.blocks[c.i].clen
             /\ c.i < Len(fr.blocks) =>
                   u < Len(U) /\ U[u + 1] = Unit("block", BlockHeaderLen, c.f, c.i + 1)
             /\ c.i = Len(fr.blocks) /\ fr.checksum =>
                   u < Len(U) /\ U[u + 1] = Unit("checksum", ChecksumLen, c.f, 0)
             /\ c.i = Len(fr.blocks) /\ ~fr.checksum => EndsFrame(s, U, u)
       /\ c.k = "checksum" =>
             ~fr.skip /\ fr.checksum /\ c.len = ChecksumLen /\ EndsFrame(s, U, u)

(* The j-th unit of a frame, given those of the next.                      *)
LEMMA FrameLinked ==
  ASSUME NEW s, NEW U, NEW u, NEW f \in 1 .. Len(s), NEW fr, fr = s[f], NEW us,
         fr \in FrameSet, FrameOk(fr), FrameLaidOut(fr, f, us), Len(s) \in Nat,
         NEW j \in 1 .. Len(us), U[u] = us[j],
         j < Len(us) => u < Len(U) /\ U[u + 1] = us[j + 1],
         j = Len(us) => IF f = Len(s) THEN u = Len(U)
                        ELSE u < Len(U) /\ U[u + 1] = Unit("header", s[f + 1].hlen, f + 1, 0)
  PROVE  LinkedAt(s, U, u)
<1> DEFINE N == Len(fr.blocks)
<1>1. /\ fr.hlen \in Nat /\ fr.left \in Nat /\ N \in Nat /\ fr.blocks \in Seq(BlockSet)
      /\ \A i \in 1 .. N : fr.blocks[i].clen \in Nat
  BY FrameIs
<1>2. us \in Seq(UnitSet) /\ us[j] \in UnitSet /\ f \in Nat
  BY DEF FrameLaidOut
<1>3. "header" \in Stages /\ "skip" \in Stages /\ "block" \in Stages /\ "content" \in Stages
      /\ "checksum" \in Stages /\ 0 \in Nat /\ BlockHeaderLen \in Nat /\ ChecksumLen \in Nat
  BY DEF Stages, BlockHeaderLen, ChecksumLen
<1>4. ASSUME U[u].f = f, j = Len(us) PROVE EndsFrame(s, U, u)
  BY <1>4 DEF EndsFrame
<1> HIDE DEF N
<1>5. CASE fr.skip
  <2>1. Len(us) = 2 /\ us[1] = Unit("header", fr.hlen, f, 0) /\ us[2] = Unit("skip", fr.left, f, 0)
    BY <1>5 DEF FrameLaidOut
  <2>2. CASE j = 1
    <3>1. u < Len(U) /\ U[u + 1] = us[2] /\ U[u] = us[1]
      BY <2>1, <2>2
    <3> DEFINE c == U[u]
    <3>2. c.k = "header" /\ c.len = fr.hlen /\ c.f = f /\ c.i = 0 /\ c \in UnitSet
      <4>1. c = Unit("header", fr.hlen, f, 0) /\ c \in UnitSet
        BY <3>1, <2>1, <2>2, <1>2
      <4> QED BY <4>1 DEF Unit
    <3> QED BY <3>1, <3>2, <2>1, <1>5 DEF LinkedAt
  <2>3. CASE j = 2
    <3> DEFINE c == U[u]
    <3>1. c = us[2]
      BY <2>3
    <3>2. c.k = "skip" /\ c.len = fr.left /\ c.f = f /\ c \in UnitSet
      <4>1. c = Unit("skip", fr.left, f, 0) /\ c \in UnitSet
        BY <3>1, <2>1, <2>3, <1>2
      <4> QED BY <4>1 DEF Unit
    <3>3. EndsFrame(s, U, u)
      BY <1>4, <3>2, <2>1, <2>3
    <3> QED BY <3>2, <3>3, <1>5 DEF LinkedAt
  <2> QED BY <2>1, <2>2, <2>3
<1>6. CASE ~fr.skip
  <2>1. /\ us[1] = Unit("header", fr.hlen, f, 0)
        /\ \A i \in 1 .. N : /\ us[2 * i] = Unit("block", BlockHeaderLen, f, i)
                             /\ us[2 * i + 1] = Unit("content", fr.blocks[i].clen, f, i)
        /\ fr.checksum => us[Len(us)] = Unit("checksum", ChecksumLen, f, 0)
    BY <1>6 DEF FrameLaidOut, N
  <2>2. Len(us) = 2 * N + (IF fr.checksum THEN 2 ELSE 1)
    BY <1>6 DEF FrameLaidOut, N
  <2>3. N >= 1
    <3>1. fr.blocks # <<>>
      BY <1>6 DEF FrameOk
    <3> QED BY <3>1, <1>1 DEF N
  <2> DEFINE c == U[u]
  <2>4. c = us[j] /\ c \in UnitSet
    BY <1>2
  <2> HIDE DEF c
  <2>5. CASE j = 1
    <3>1. 1 \in 1 .. N /\ us[2 * 1] = Unit("block", BlockHeaderLen, f, 1) /\ j < Len(us)
          /\ j + 1 = 2 * 1
      BY <2>1, <2>2, <2>3, <2>5, <1>1
    <3>2. u < Len(U) /\ U[u + 1] = Unit("block", BlockHeaderLen, f, 1)
      BY <3>1
    <3>3. c.k = "header" /\ c.len = fr.hlen /\ c.f = f /\ c.i = 0
      <4>1. c = Unit("header", fr.hlen, f, 0)
        BY <2>1, <2>4, <2>5
      <4> QED BY <4>1 DEF Unit
    <3> QED BY <3>2, <3>3, <2>4, <1>6 DEF LinkedAt, c
  <2>6. ASSUME NEW i \in 1 .. N, j = 2 * i PROVE LinkedAt(s, U, u)
    <3>1. j < Len(us) /\ j + 1 = 2 * i + 1
      BY <2>2, <2>6, <1>1
    <3>2. u < Len(U) /\ U[u + 1] = Unit("content", fr.blocks[i].clen, f, i)
      BY <3>1, <2>1
    <3>3. c.k = "block" /\ c.len = BlockHeaderLen /\ c.f = f /\ c.i = i
      <4>1. c = Unit("block", BlockHeaderLen, f, i)
        BY <2>1, <2>4, <2>6
      <4> QED BY <4>1 DEF Unit
    <3> QED BY <3>2, <3>3, <2>4, <1>6 DEF LinkedAt, c, N
  <2>7. ASSUME NEW i \in 1 .. N, j = 2 * i + 1 PROVE LinkedAt(s, U, u)
    <3>1. c.k = "content" /\ c.len = fr.blocks[i].clen /\ c.f = f /\ c.i = i
      <4>1. c = Unit("content", fr.blocks[i].clen, f, i)
        BY <2>1, <2>4, <2>7
      <4> QED BY <4>1 DEF Unit
    <3>2. ASSUME i < N
          PROVE  u < Len(U) /\ U[u + 1] = Unit("block", BlockHeaderLen, f, i + 1)
      <4>1. i + 1 \in 1 .. N /\ j < Len(us) /\ j + 1 = 2 * (i + 1)
        BY <3>2, <2>2, <2>7, <1>1
      <4> QED BY <4>1, <2>1
    <3>3. ASSUME i = N, fr.checksum
          PROVE  u < Len(U) /\ U[u + 1] = Unit("checksum", ChecksumLen, f, 0)
      <4>1. Len(us) = 2 * N + 2
        BY <3>3, <2>2
      <4>2. j < Len(us) /\ j + 1 = Len(us)
        BY <4>1, <3>3, <2>7, <1>1
      <4> QED BY <4>2, <3>3, <2>1
    <3>4. ASSUME i = N, ~fr.checksum PROVE EndsFrame(s, U, u)
      <4>1. Len(us) = 2 * N + 1
        BY <3>4, <2>2
      <4>2. j = Len(us)
        BY <4>1, <3>4, <2>7, <1>1
      <4> QED BY <4>2, <3>1, <1>4 DEF c
    <3> QED BY <3>1, <3>2, <3>3, <3>4, <2>4, <1>6 DEF LinkedAt, c, N
  <2>8. CASE fr.checksum /\ j = Len(us)
    <3>1. c.k = "checksum" /\ c.len = ChecksumLen /\ c.f = f
      <4>1. c = Unit("checksum", ChecksumLen, f, 0)
        BY <2>1, <2>4, <2>8
      <4> QED BY <4>1 DEF Unit
    <3>2. EndsFrame(s, U, u)
      BY <2>8, <3>1, <1>4 DEF c
    <3> QED BY <3>1, <3>2, <2>4, <2>8, <1>6 DEF LinkedAt, c
  <2>9. \/ j = 1 \/ (fr.checksum /\ j = Len(us))
        \/ \E i \in 1 .. N : j = 2 * i \/ j = 2 * i + 1
    <3>1. j \in Nat /\ j >= 1
      OBVIOUS
    <3>2. ASSUME j # 1, j <= 2 * N + 1 PROVE \E i \in 1 .. N : j = 2 * i \/ j = 2 * i + 1
      <4> DEFINE i == j \div 2
      <4>1. i \in 1 .. N /\ (j = 2 * i \/ j = 2 * i + 1)
        BY <3>1, <3>2, <1>1
      <4> QED BY <4>1
    <3>3. CASE fr.checksum
      <4>1. Len(us) = 2 * N + 2
        BY <3>3, <2>2
      <4>2. j = Len(us) \/ j <= 2 * N + 1
        BY <4>1, <1>1
      <4> QED BY <4>2, <3>2, <3>3
    <3>4. CASE ~fr.checksum
      <4>1. Len(us) = 2 * N + 1
        BY <3>4, <2>2
      <4> QED BY <4>1, <3>2
    <3> QED BY <3>3, <3>4
  <2> QED BY <2>5, <2>6, <2>7, <2>8, <2>9
<1> QED BY <1>5, <1>6

\* U are the units of s.
Linked(s, U) ==
    /\ U \in Seq(UnitSet) /\ Len(U) >= 1
    /\ U[1] = Unit("header", s[1].hlen, 1, 0)
    /\ \A u \in 1 .. Len(U) : LinkedAt(s, U, u)

(* What the frames of a stream are.                                        *)
LEMMA StreamIs ==
  ASSUME NEW s \in Streams
  PROVE  /\ s \in Seq(FrameSet) /\ Len(s) \in Nat /\ Len(s) >= 1 /\ DOMAIN s = 1 .. Len(s)
         /\ \A f \in 1 .. Len(s) : s[f] \in FrameSet /\ FrameOk(s[f])
<1>1. s \in Seq(FrameSet) /\ s # <<>> /\ \A f \in DOMAIN s : FrameOk(s[f])
  BY StreamsAssumption
<1>2. Len(s) \in Nat /\ Len(s) >= 1 /\ DOMAIN s = 1 .. Len(s) /\ \A f \in 1 .. Len(s) : s[f] \in FrameSet
  BY <1>1
<1> QED BY <1>1, <1>2

(* The units of a stream are linked.                                       *)
LEMMA UnitsAre ==
  ASSUME NEW s \in Streams
  PROVE  Linked(s, Units[s])
<1> DEFINE N == Len(s)
           ss == [f \in 1 .. N |-> FrameUnits(s[f], f)]
           U == FlattenSeq(ss)
<1>1. /\ N \in Nat /\ N >= 1 /\ DOMAIN s = 1 .. N
      /\ \A f \in 1 .. N : s[f] \in FrameSet /\ FrameOk(s[f])
  BY StreamIs
<1>2. Units[s] = U
  <2>1. Units[s] = FlattenSeq([f \in DOMAIN s |-> FrameUnits(s[f], f)])
    BY DEF Units
  <2> QED BY <2>1, <1>1
<1> HIDE DEF N
<1>3. \A f \in 1 .. N : FrameLaidOut(s[f], f, FrameUnits(s[f], f))
  <2> SUFFICES ASSUME NEW f \in 1 .. N PROVE FrameLaidOut(s[f], f, FrameUnits(s[f], f))
    OBVIOUS
  <2>1. f \in Nat /\ s[f] \in FrameSet
    BY <1>1
  <2> QED BY <2>1, FrameUnitsAre
<1>4. \A f \in 1 .. N : FrameUnits(s[f], f) \in Seq(UnitSet)
  BY <1>3 DEF FrameLaidOut
<1>5. ss \in Seq(Seq(UnitSet)) /\ Len(ss) = N /\ \A f \in 1 .. N : ss[f] = FrameUnits(s[f], f)
  BY <1>4, <1>1
<1> HIDE DEF ss
<1>6. \A f \in 1 .. N : FrameLaidOut(s[f], f, ss[f])
  BY <1>3, <1>5
<1>7. U \in Seq(UnitSet) /\ Joins(ss, Len(ss), U)
  BY <1>5, FlattenJoins, Zenon
<1>8. \A f \in 1 .. N : Len(ss[f]) >= 2 /\ ss[f][1] = Unit("header", s[f].hlen, f, 0)
  <2> SUFFICES ASSUME NEW f \in 1 .. N
               PROVE  Len(ss[f]) >= 2 /\ ss[f][1] = Unit("header", s[f].hlen, f, 0)
    OBVIOUS
  <2>1. FrameLaidOut(s[f], f, ss[f]) /\ s[f] \in FrameSet /\ FrameOk(s[f])
    BY <1>1, <1>6
  <2>2. Len(s[f].blocks) \in Nat /\ s[f].blocks \in Seq(BlockSet)
    BY <2>1, FrameIs
  <2>3. CASE s[f].skip
    BY <2>1, <2>3 DEF FrameLaidOut
  <2>4. CASE ~s[f].skip
    <3>1. s[f].blocks # <<>>
      BY <2>1, <2>4 DEF FrameOk
    <3>2. Len(s[f].blocks) >= 1
      BY <3>1, <2>2
    <3>3. /\ Len(ss[f]) = 2 * Len(s[f].blocks) + (IF s[f].checksum THEN 2 ELSE 1)
          /\ ss[f][1] = Unit("header", s[f].hlen, f, 0)
      BY <2>1, <2>4 DEF FrameLaidOut
    <3>4. Len(ss[f]) = 2 * Len(s[f].blocks) + 2 \/ Len(ss[f]) = 2 * Len(s[f].blocks) + 1
      BY <3>3, Zenon
    <3>5. Len(ss[f]) >= 2
      BY <2>2, <3>2, <3>4
    <3> QED BY <3>3, <3>5
  <2> QED BY <2>3, <2>4
<1> HIDE DEF U
<1>9. ASSUME NEW k \in 1 .. Len(ss), NEW j \in 1 .. Len(ss[k]), NEW u, u = Starts(ss)[k - 1] + j
      PROVE  Follows(ss, U, k, j, u)
  BY <1>5, <1>7, <1>9, JoinsFollow
<1>10. ASSUME NEW u \in 1 .. Len(U) PROVE LinkedAt(s, U, u)
  <2>1. u \in Nat /\ u >= 1 /\ u <= Starts(ss)[Len(ss)]
    BY <1>7 DEF Joins
  <2>2. PICK k \in 1 .. Len(ss) : \E j \in 1 .. Len(ss[k]) : u = Starts(ss)[k - 1] + j
    BY <2>1, <1>5, JoinedAt, Zenon
  <2>3. PICK j \in 1 .. Len(ss[k]) : u = Starts(ss)[k - 1] + j
    BY <2>2
  <2>4. Follows(ss, U, k, j, u)
    BY <2>3, <1>9
  <2>5. k \in 1 .. Len(s) /\ s[k] \in FrameSet /\ FrameOk(s[k]) /\ FrameLaidOut(s[k], k, ss[k])
        /\ Len(s) \in Nat
    BY <1>1, <1>5, <1>6 DEF N
  <2>6. j < Len(ss[k]) => u < Len(U) /\ U[u + 1] = ss[k][j + 1]
    BY <2>4 DEF Follows
  <2>7. ASSUME j = Len(ss[k])
        PROVE  IF k = Len(s) THEN u = Len(U)
               ELSE u < Len(U) /\ U[u + 1] = Unit("header", s[k + 1].hlen, k + 1, 0)
    <3>1. CASE k = Len(s)
      BY <3>1, <2>4, <2>7, <1>5 DEF N, Follows
    <3>2. CASE k # Len(s)
      <4>1. k < Len(ss) /\ k + 1 \in 1 .. N
        BY <3>2, <2>5, <1>5 DEF N
      <4>2. Len(ss[k + 1]) >= 1 /\ ss[k + 1][1] = Unit("header", s[k + 1].hlen, k + 1, 0)
        <5>1. Len(ss[k + 1]) >= 2 /\ ss[k + 1][1] = Unit("header", s[k + 1].hlen, k + 1, 0)
          BY <4>1, <1>8
        <5>2. Len(ss[k + 1]) \in Nat
          BY <4>1, <1>5
        <5> QED BY <5>1, <5>2
      <4>3. u < Len(U) /\ U[u + 1] = ss[k + 1][1]
        BY <4>1, <4>2, <2>4, <2>7 DEF Follows
      <4> QED BY <4>2, <4>3, <3>2
    <3> QED BY <3>1, <3>2
  <2>8. U[u] = ss[k][j]
    BY <2>4 DEF Follows
  <2> QED BY <2>5, <2>6, <2>7, <2>8, FrameLinked, Zenon
<1>11. Len(U) >= 1 /\ U[1] = Unit("header", s[1].hlen, 1, 0)
  <2>1. 1 \in 1 .. Len(ss) /\ 1 \in 1 .. Len(ss[1]) /\ 1 = Starts(ss)[1 - 1] + 1
    <3>1. Starts(ss)[0] = 0
      BY <1>5, StartsAre, Zenon
    <3>2. 1 \in 1 .. N
      BY <1>1
    <3>3. Len(ss[1]) >= 2 /\ Len(ss[1]) \in Nat
      BY <1>8, <1>5, <3>2
    <3> QED BY <3>1, <3>2, <3>3, <1>5
  <2>2. Follows(ss, U, 1, 1, 1)
    BY <2>1, <1>9
  <2>3. 1 \in 1 .. Len(U) /\ U[1] = ss[1][1]
    BY <2>2 DEF Follows
  <2>4. 1 \in 1 .. N
    BY <1>1
  <2> QED BY <2>3, <2>4, <1>7, <1>8
<1>12. Linked(s, U)
  BY <1>7, <1>10, <1>11 DEF Linked
<1> QED BY <1>2, <1>12

-----------------------------------------------------------------------------
(* The content of a stream.                                                *)

(* What a frame's blocks decode to before each.                            *)
LEMMA OutsAre ==
  ASSUME NEW fr \in FrameSet
  PROVE  /\ Outs(fr)[0] = 0 /\ Size(fr) = Outs(fr)[Len(fr.blocks)]
         /\ \A i \in 1 .. Len(fr.blocks) : Outs(fr)[i] = Outs(fr)[i - 1] + fr.blocks[i].out
         /\ \A i \in 0 .. Len(fr.blocks) : Outs(fr)[i] \in Nat
         /\ \A i \in 0 .. Len(fr.blocks) : Outs(fr)[i] <= Size(fr)
<1> DEFINE N == Len(fr.blocks)
           ns == [i \in 1 .. N |-> fr.blocks[i].out]
<1>1. N \in Nat /\ DOMAIN fr.blocks = 1 .. N /\ \A i \in 1 .. N : fr.blocks[i].out \in Nat
  BY FrameIs
<1> HIDE DEF N
<1>2. ns \in Seq(Nat) /\ Len(ns) = N /\ \A i \in 1 .. N : ns[i] = fr.blocks[i].out
  BY <1>1
<1>3. Outs(fr) = Sums(ns)
  BY <1>1 DEF Outs
<1>4. Size(fr) = Sums(ns)[Len(ns)]
  BY <1>1 DEF Size, Total
<1> HIDE DEF ns
<1>5. /\ Sums(ns)[0] = 0
      /\ \A n \in 1 .. Len(ns) : Sums(ns)[n] = Sums(ns)[n - 1] + ns[n]
      /\ \A n \in 0 .. Len(ns) : Sums(ns)[n] \in Nat
  BY <1>2, SumsIs
<1>6. ASSUME NEW i \in 0 .. Len(ns) PROVE Sums(ns)[i] <= Sums(ns)[Len(ns)]
  <2>1. Len(ns) \in i .. Len(ns)
    BY <1>2
  <2> QED BY <1>2, <2>1, SumsGrow
<1> QED BY <1>2, <1>3, <1>4, <1>5, <1>6 DEF N

(* The sizes of the frames before each.                                    *)
LEMMA SizesAre ==
  ASSUME NEW s \in Streams
  PROVE  /\ SizesOf(s)[0] = 0
         /\ \A f \in 1 .. Len(s) : Size(s[f]) \in Nat
         /\ \A f \in 1 .. Len(s) : SizesOf(s)[f] = SizesOf(s)[f - 1] + Size(s[f])
         /\ \A f \in 0 .. Len(s) : SizesOf(s)[f] \in Nat
         /\ \A f \in 0 .. Len(s) : SizesOf(s)[f] <= SizesOf(s)[Len(s)]
         /\ \A n \in 0 .. Len(s) : Total([f \in 1 .. n |-> Size(s[f])]) = SizesOf(s)[n]
<1> DEFINE N == Len(s)
           ns == [f \in 1 .. N |-> Size(s[f])]
<1>1. N \in Nat /\ DOMAIN s = 1 .. N /\ \A f \in 1 .. N : s[f] \in FrameSet
  BY StreamIs
<1> HIDE DEF N
<1>2. \A f \in 1 .. N : Size(s[f]) \in Nat
  <2> SUFFICES ASSUME NEW f \in 1 .. N PROVE Size(s[f]) \in Nat
    OBVIOUS
  <2>1. s[f] \in FrameSet
    BY <1>1
  <2>2. Len(s[f].blocks) \in Nat
    BY <2>1, FrameIs
  <2> QED BY <2>1, <2>2, OutsAre
<1>3. ns \in Seq(Nat) /\ Len(ns) = N /\ \A f \in 1 .. N : ns[f] = Size(s[f])
  BY <1>1, <1>2
<1>4. SizesOf(s) = Sums(ns)
  BY <1>1 DEF SizesOf
<1> HIDE DEF ns
<1>5. /\ Sums(ns)[0] = 0
      /\ \A n \in 1 .. Len(ns) : Sums(ns)[n] = Sums(ns)[n - 1] + ns[n]
      /\ \A n \in 0 .. Len(ns) : Sums(ns)[n] \in Nat
  BY <1>3, SumsIs
<1>6. ASSUME NEW i \in 0 .. Len(ns) PROVE Sums(ns)[i] <= Sums(ns)[Len(ns)]
  <2>1. Len(ns) \in i .. Len(ns)
    BY <1>3
  <2> QED BY <1>3, <2>1, SumsGrow
<1>7. ASSUME NEW n \in 0 .. N PROVE Total([f \in 1 .. n |-> Size(s[f])]) = Sums(ns)[n]
  <2> DEFINE ms == [f \in 1 .. n |-> Size(s[f])]
  <2>1. ms \in Seq(Nat) /\ Len(ms) = n /\ \A f \in 1 .. n : ms[f] = ns[f]
    BY <1>1, <1>2, <1>3
  <2>2. Total(ms) = Sums(ms)[n]
    BY <2>1 DEF Total
  <2> HIDE DEF ms
  <2>3. n \in Nat /\ n <= Len(ms) /\ n <= Len(ns)
    BY <1>1, <1>3, <2>1
  <2>4. Sums(ms)[n] = Sums(ns)[n]
    BY <1>3, <2>1, <2>3, SumsAgree
  <2> QED BY <2>2, <2>4 DEF ms
<1> QED BY <1>2, <1>3, <1>4, <1>5, <1>6, <1>7 DEF N

(* The content of a stream, byte by byte.                                  *)
LEMMA ContentOf ==
  ASSUME NEW s \in Streams
  PROVE  /\ Content[s] \in Seq(Int) /\ Len(Content[s]) = SizesOf(s)[Len(s)]
         /\ \A f \in 1 .. Len(s) : \A k \in 1 .. Size(s[f]) :
               Content[s][SizesOf(s)[f - 1] + k] = Token(f, k)
<1> DEFINE N == Len(s)
           ss == [f \in 1 .. N |-> FrameContent(s, f)]
<1>1. N \in Nat /\ DOMAIN s = 1 .. N
  BY StreamIs
<1>2. \A f \in 1 .. N : Size(s[f]) \in Nat
  BY SizesAre
<1>3. Content[s] = FlattenSeq(ss)
  BY <1>1 DEF Content
<1> HIDE DEF N
<1>4. \A f \in 1 .. N : /\ FrameContent(s, f) \in Seq(Int)
                        /\ Len(FrameContent(s, f)) = Size(s[f])
                        /\ \A k \in 1 .. Size(s[f]) : FrameContent(s, f)[k] = Token(f, k)
  BY <1>2 DEF FrameContent, Token
<1>5. ss \in Seq(Seq(Int)) /\ Len(ss) = N /\ \A f \in 1 .. N : ss[f] = FrameContent(s, f)
  BY <1>1, <1>4
<1> HIDE DEF ss
<1>6. FlattenSeq(ss) \in Seq(Int) /\ Joins(ss, Len(ss), FlattenSeq(ss))
  BY <1>5, FlattenJoins, Zenon
<1>7. Starts(ss) = SizesOf(s)
  <2>1. \A f \in 1 .. N : Len(ss[f]) = Size(s[f])
    BY <1>4, <1>5
  <2>2. [f \in 1 .. Len(ss) |-> Len(ss[f])] = [f \in DOMAIN s |-> Size(s[f])]
    BY <1>1, <1>5, <2>1
  <2> QED BY <2>2 DEF Starts, SizesOf
<1>8. ASSUME NEW f \in 1 .. N, NEW k \in 1 .. Size(s[f])
      PROVE  FlattenSeq(ss)[SizesOf(s)[f - 1] + k] = Token(f, k)
  <2>1. k \in 1 .. Len(ss[f]) /\ ss[f][k] = Token(f, k)
    BY <1>4, <1>5
  <2> QED BY <2>1, <1>5, <1>6, <1>7 DEF Joins
<1> QED BY <1>3, <1>5, <1>6, <1>7, <1>8 DEF Joins, N

\* The frames behind the u-th unit.
Behind(s, U, u) == IF u > Len(U) THEN Len(s) ELSE U[u].f - 1

(* A unit's fields.                                                        *)
LEMMA UnitFields ==
  ASSUME NEW c \in UnitSet
  PROVE  c.k \in Stages /\ c.len \in Nat /\ c.f \in Nat /\ c.i \in Nat
BY DEF UnitSet

(* Past the end of a frame.                                                *)
LEMMA EndsAt ==
  ASSUME NEW s \in Streams, NEW U, Linked(s, U), NEW u \in 1 .. Len(U), EndsFrame(s, U, u)
  PROVE  /\ ContentPos(s, U, u + 1) = SizesOf(s)[U[u].f]
         /\ Behind(s, U, u + 1) = U[u].f
         /\ u + 1 <= Len(U) => U[u + 1].k = "header" /\ U[u + 1].len = s[U[u + 1].f].hlen
<1> DEFINE f == U[u].f
<1>1. f \in 1 .. Len(s) /\ Len(U) \in Nat /\ Len(s) \in Nat
  BY StreamIs DEF Linked, LinkedAt
<1>2. CASE f = Len(s)
  <2>1. u = Len(U)
    BY <1>2 DEF EndsFrame
  <2>2. u + 1 > Len(U)
    BY <2>1, <1>1
  <2> QED BY <2>2, <1>1, <1>2 DEF ContentPos, Behind
<1>3. CASE f # Len(s)
  <2>1. u < Len(U) /\ U[u + 1] = Unit("header", s[f + 1].hlen, f + 1, 0)
    BY <1>3 DEF EndsFrame
  <2> HIDE DEF f
  <2> DEFINE c == U[u + 1]
  <2>2. c.k = "header" /\ c.f = f + 1 /\ c.len = s[f + 1].hlen
    BY <2>1 DEF Unit
  <2>3. ~(u + 1 > Len(U)) /\ (f + 1) - 1 = f
    BY <2>1, <1>1
  <2>4. ContentPos(s, U, u + 1) = SizesOf(s)[f]
    BY <2>2, <2>3 DEF ContentPos
  <2>5. Behind(s, U, u + 1) = f
    BY <2>2, <2>3 DEF Behind
  <2> QED BY <2>2, <2>4, <2>5 DEF f
<1> QED BY <1>2, <1>3

\* The units of s, U, from the u-th on, c, to the next, d.
NextIs(s, U, u, k, i) ==
    /\ u + 1 \in 1 .. Len(U)
    /\ U[u + 1].k = k /\ U[u + 1].f = U[u].f /\ U[u + 1].i = i
    /\ Behind(s, U, u + 1) = Behind(s, U, u)

(* After a header.                                                         *)
LEMMA AfterHeader ==
  ASSUME NEW s \in Streams, NEW U, Linked(s, U), NEW u \in 1 .. Len(U), U[u].k = "header"
  PROVE  /\ U[u].len = s[U[u].f].hlen
         /\ ContentPos(s, U, u + 1) = ContentPos(s, U, u)
         /\ s[U[u].f].skip => NextIs(s, U, u, "skip", 0) /\ U[u + 1].len = s[U[u].f].left
         /\ ~s[U[u].f].skip => NextIs(s, U, u, "block", 1) /\ U[u + 1].len = BlockHeaderLen
<1> DEFINE f == U[u].f
           fr == s[f]
<1>1. /\ f \in 1 .. Len(s) /\ Len(U) \in Nat /\ U[u].len = fr.hlen /\ u < Len(U)
      /\ fr.skip => U[u + 1] = Unit("skip", fr.left, f, 0)
      /\ ~fr.skip => U[u + 1] = Unit("block", BlockHeaderLen, f, 1)
  BY DEF Linked, LinkedAt
<1>2. fr \in FrameSet /\ f - 1 \in 0 .. Len(s)
  BY <1>1, StreamIs
<1>3. SizesOf(s)[f - 1] \in Nat /\ Outs(fr)[0] = 0
  BY <1>2, SizesAre, OutsAre
<1>4. ContentPos(s, U, u) = SizesOf(s)[f - 1]
  BY DEF ContentPos
<1>5. CASE fr.skip
  <2>1. NextIs(s, U, u, "skip", 0) /\ U[u + 1].len = fr.left
    <3>1. Len(U) \in Nat /\ u < Len(U) /\ U[u + 1] = Unit("skip", fr.left, f, 0)
      BY <1>1, <1>5
    <3> QED BY <3>1 DEF NextIs, Behind, Unit
  <2>2. ContentPos(s, U, u + 1) = SizesOf(s)[f - 1]
    BY <2>1 DEF ContentPos, NextIs
  <2> QED BY <1>1, <1>4, <1>5, <2>1, <2>2
<1>6. CASE ~fr.skip
  <2>1. NextIs(s, U, u, "block", 1) /\ U[u + 1].len = BlockHeaderLen
    <3>1. Len(U) \in Nat /\ u < Len(U) /\ U[u + 1] = Unit("block", BlockHeaderLen, f, 1)
      BY <1>1, <1>6
    <3> QED BY <3>1 DEF NextIs, Behind, Unit
  <2>2. ContentPos(s, U, u + 1) = SizesOf(s)[f - 1] + Outs(fr)[1 - 1]
    BY <2>1 DEF ContentPos, NextIs
  <2> QED BY <1>1, <1>3, <1>4, <1>6, <2>1, <2>2
<1> QED BY <1>5, <1>6

(* After a block's header.                                                 *)
LEMMA AfterBlock ==
  ASSUME NEW s \in Streams, NEW U, Linked(s, U), NEW u \in 1 .. Len(U), U[u].k = "block"
  PROVE  /\ U[u].f \in 1 .. Len(s) /\ U[u].i \in 1 .. Len(s[U[u].f].blocks)
         /\ ~s[U[u].f].skip /\ U[u].len = BlockHeaderLen
         /\ NextIs(s, U, u, "content", U[u].i)
         /\ U[u + 1].len = s[U[u].f].blocks[U[u].i].clen
         /\ ContentPos(s, U, u + 1) = ContentPos(s, U, u)
<1> DEFINE f == U[u].f
           fr == s[f]
           i == U[u].i
<1>1. /\ f \in 1 .. Len(s) /\ Len(U) \in Nat /\ ~fr.skip /\ i \in 1 .. Len(fr.blocks)
      /\ U[u].len = BlockHeaderLen /\ u < Len(U)
      /\ U[u + 1] = Unit("content", fr.blocks[i].clen, f, i)
  BY SMTT(30) DEF Linked, LinkedAt
<1>2. NextIs(s, U, u, "content", i) /\ U[u + 1].len = fr.blocks[i].clen
  <2>1. Len(U) \in Nat /\ u < Len(U) /\ U[u + 1] = Unit("content", fr.blocks[i].clen, f, i)
    BY <1>1
  <2> QED BY <2>1 DEF NextIs, Behind, Unit
<1>3. ContentPos(s, U, u) = SizesOf(s)[f - 1] + Outs(fr)[i - 1]
  BY DEF ContentPos
<1>4. ContentPos(s, U, u + 1) = SizesOf(s)[f - 1] + Outs(fr)[i - 1]
  BY <1>2 DEF ContentPos, NextIs
<1> QED BY <1>1, <1>2, <1>3, <1>4

(* At a block's content: where in the stream's content it goes.            *)
LEMMA AtContent ==
  ASSUME NEW s \in Streams, NEW U, Linked(s, U), NEW u \in 1 .. Len(U),
         U[u].k \in {"block", "content"}
  PROVE  /\ U[u].f \in 1 .. Len(s) /\ U[u].i \in 1 .. Len(s[U[u].f].blocks)
         /\ s[U[u].f] \in FrameSet /\ FrameOk(s[U[u].f]) /\ ~s[U[u].f].skip
         /\ Outs(s[U[u].f])[U[u].i - 1] \in Nat /\ SizesOf(s)[U[u].f - 1] \in Nat
         /\ s[U[u].f].blocks[U[u].i].out \in Nat /\ s[U[u].f].blocks[U[u].i].clen \in Nat
         /\ ContentPos(s, U, u) = SizesOf(s)[U[u].f - 1] + Outs(s[U[u].f])[U[u].i - 1]
         /\ ContentPos(s, U, u) + s[U[u].f].blocks[U[u].i].out <= Len(Content[s])
         /\ \A k \in 1 .. s[U[u].f].blocks[U[u].i].out :
               Content[s][ContentPos(s, U, u) + k]
                   = Token(U[u].f, Outs(s[U[u].f])[U[u].i - 1] + k)
<1> DEFINE f == U[u].f
           fr == s[f]
           i == U[u].i
           n == fr.blocks[i].out
           a == SizesOf(s)[f - 1]
           b == Outs(fr)[i - 1]
           z == Size(fr)
<1>1. f \in 1 .. Len(s) /\ Len(U) \in Nat /\ ~fr.skip /\ i \in 1 .. Len(fr.blocks)
  BY DEF Linked, LinkedAt
<1>2. fr \in FrameSet /\ FrameOk(fr) /\ f - 1 \in 0 .. Len(s)
  BY <1>1, StreamIs
<1>3. n \in Nat /\ fr.blocks[i].clen \in Nat /\ Len(fr.blocks) \in Nat
  BY <1>1, <1>2, FrameIs
<1>4. i - 1 \in 0 .. Len(fr.blocks) /\ i \in 0 .. Len(fr.blocks)
  BY <1>1, <1>3
<1>5. b \in Nat /\ b + n <= z /\ z \in Nat
  <2>1. Outs(fr)[i] = b + n /\ b \in Nat /\ Outs(fr)[i] <= z
    BY <1>1, <1>2, <1>4, OutsAre
  <2>2. z \in Nat
    BY <1>1, SizesAre
  <2> QED BY <2>1, <2>2
<1>6. a \in Nat /\ SizesOf(s)[f] = a + z /\ SizesOf(s)[f] <= Len(Content[s])
  <2>1. a \in Nat /\ SizesOf(s)[f] = a + z
    BY <1>1, <1>2, SizesAre
  <2>2. f \in 0 .. Len(s)
    BY <1>1, StreamIs
  <2>3. SizesOf(s)[f] <= SizesOf(s)[Len(s)]
    BY <2>2, SizesAre
  <2> QED BY <2>1, <2>3, ContentOf
<1>7. ContentPos(s, U, u) = a + b
  BY DEF ContentPos
<1>8. Len(Content[s]) \in Nat
  BY ContentOf
<1>9. ASSUME NEW k \in 1 .. n PROVE Content[s][(a + b) + k] = Token(f, b + k)
  <2>0. \A h \in 1 .. Size(s[f]) : Content[s][SizesOf(s)[f - 1] + h] = Token(f, h)
    BY <1>1, ContentOf
  <2>1. \A h \in 1 .. z : Content[s][a + h] = Token(f, h)
    BY <2>0
  <2> HIDE DEF a, b, z, n, f
  <2>2. b + k \in 1 .. z /\ (a + b) + k = a + (b + k)
    BY <1>3, <1>5, <1>6, <1>9
  <2>3. Content[s][a + (b + k)] = Token(f, b + k)
    BY <2>1, <2>2
  <2> QED BY <2>2, <2>3
<1>10. (a + b) + n <= Len(Content[s])
  <2> DEFINE e == SizesOf(s)[f]
             L == Len(Content[s])
  <2>1. e = a + z /\ e <= L /\ L \in Nat
    BY <1>6, <1>8
  <2> HIDE DEF a, b, z, n, e, L
  <2>2. (a + b) + n <= L
    BY <2>1, <1>3, <1>5, <1>6
  <2> QED BY <2>2 DEF L
<1> QED BY <1>1, <1>2, <1>3, <1>5, <1>6, <1>7, <1>9, <1>10

(* After a block's content.                                                *)
LEMMA AfterContent ==
  ASSUME NEW s \in Streams, NEW U, Linked(s, U), NEW u \in 1 .. Len(U), U[u].k = "content"
  PROVE  /\ U[u].len = s[U[u].f].blocks[U[u].i].clen
         /\ ContentPos(s, U, u + 1) = ContentPos(s, U, u) + s[U[u].f].blocks[U[u].i].out
         /\ U[u].i < Len(s[U[u].f].blocks) =>
               NextIs(s, U, u, "block", U[u].i + 1) /\ U[u + 1].len = BlockHeaderLen
         /\ U[u].i = Len(s[U[u].f].blocks) /\ s[U[u].f].checksum =>
               NextIs(s, U, u, "checksum", 0) /\ U[u + 1].len = ChecksumLen
         /\ U[u].i = Len(s[U[u].f].blocks) /\ ~s[U[u].f].checksum => EndsFrame(s, U, u)
<1> DEFINE f == U[u].f
           fr == s[f]
           i == U[u].i
           n == fr.blocks[i].out
           a == SizesOf(s)[f - 1]
           b == Outs(fr)[i - 1]
<1>1. /\ f \in 1 .. Len(s) /\ Len(U) \in Nat /\ i \in 1 .. Len(fr.blocks)
      /\ U[u].len = fr.blocks[i].clen
      /\ i < Len(fr.blocks) =>
            u < Len(U) /\ U[u + 1] = Unit("block", BlockHeaderLen, f, i + 1)
      /\ i = Len(fr.blocks) /\ fr.checksum =>
            u < Len(U) /\ U[u + 1] = Unit("checksum", ChecksumLen, f, 0)
      /\ i = Len(fr.blocks) /\ ~fr.checksum => EndsFrame(s, U, u)
  BY DEF Linked, LinkedAt
<1>2. a \in Nat /\ b \in Nat /\ n \in Nat /\ ContentPos(s, U, u) = a + b /\ fr \in FrameSet
  BY AtContent
<1>3. Outs(fr)[i] = b + n /\ Len(fr.blocks) \in Nat
  BY <1>1, <1>2, OutsAre, FrameIs
<1>4. CASE i < Len(fr.blocks)
  <2>1. NextIs(s, U, u, "block", i + 1) /\ U[u + 1].len = BlockHeaderLen
    <3>1. Len(U) \in Nat /\ u < Len(U) /\ U[u + 1] = Unit("block", BlockHeaderLen, f, i + 1)
      BY <1>1, <1>4
    <3> QED BY <3>1 DEF NextIs, Behind, Unit
  <2>2. ContentPos(s, U, u + 1) = a + Outs(fr)[(i + 1) - 1]
    BY <2>1 DEF ContentPos, NextIs
  <2>3. (i + 1) - 1 = i
    BY <1>1
  <2>4. ContentPos(s, U, u + 1) = (a + b) + n
    <3>1. ContentPos(s, U, u + 1) = a + (b + n)
      BY <2>2, <2>3, <1>3
    <3> HIDE DEF a, b, n
    <3> QED BY <3>1, <1>2
  <2>5. i # Len(fr.blocks)
    BY <1>4, <1>3
  <2> QED BY <1>1, <1>2, <2>1, <2>4, <2>5
<1>5. CASE i = Len(fr.blocks)
  <2>0. ~(i < Len(fr.blocks))
    BY <1>5, <1>3
  <2>1. SizesOf(s)[f] = a + (b + n)
    <3>1. SizesOf(s)[f] = a + Size(fr) /\ Size(fr) = Outs(fr)[i]
      BY <1>1, <1>2, <1>5, SizesAre, OutsAre
    <3> QED BY <3>1, <1>3
  <2>2. SizesOf(s)[f] = (a + b) + n
    <3> HIDE DEF a, b, n
    <3> QED BY <2>1, <1>2
  <2>3. CASE fr.checksum
    <3>1. NextIs(s, U, u, "checksum", 0) /\ U[u + 1].len = ChecksumLen
      <4>1. Len(U) \in Nat /\ u < Len(U) /\ U[u + 1] = Unit("checksum", ChecksumLen, f, 0)
        BY <1>1, <1>5, <2>3
      <4> QED BY <4>1 DEF NextIs, Behind, Unit
    <3>2. ContentPos(s, U, u + 1) = SizesOf(s)[f]
      BY <3>1 DEF ContentPos, NextIs
    <3>3. ContentPos(s, U, u + 1) = ContentPos(s, U, u) + n
      <4> HIDE DEF a, b, n
      <4> QED BY <3>2, <2>2, <1>2
    <3> HIDE DEF a, b
    <3> QED BY <3>1, <3>3, <2>3, <2>0, <1>1
  <2>4. CASE ~fr.checksum
    <3>1. EndsFrame(s, U, u)
      BY <1>1, <1>5, <2>4
    <3>2. ContentPos(s, U, u + 1) = SizesOf(s)[f]
      BY <3>1, EndsAt
    <3>3. ContentPos(s, U, u + 1) = ContentPos(s, U, u) + n
      <4> HIDE DEF a, b, n
      <4> QED BY <3>2, <2>2, <1>2
    <3> HIDE DEF a, b
    <3> QED BY <3>1, <3>3, <2>4, <2>0, <1>1
  <2> QED BY <2>3, <2>4
<1> QED BY <1>1, <1>3, <1>4, <1>5

(* After a skippable frame's bytes, or a checksum.                         *)
LEMMA AfterEnd ==
  ASSUME NEW s \in Streams, NEW U, Linked(s, U), NEW u \in 1 .. Len(U),
         U[u].k \in {"skip", "checksum"}
  PROVE  /\ EndsFrame(s, U, u)
         /\ ContentPos(s, U, u + 1) = ContentPos(s, U, u)
         /\ U[u].k = "skip" => U[u].len = s[U[u].f].left
         /\ U[u].k = "checksum" => U[u].len = ChecksumLen
<1> DEFINE f == U[u].f
           fr == s[f]
<1>1. /\ f \in 1 .. Len(s) /\ EndsFrame(s, U, u)
      /\ U[u].k = "skip" => fr.skip /\ U[u].len = fr.left
      /\ U[u].k = "checksum" => U[u].len = ChecksumLen
  BY DEF Linked, LinkedAt
<1>2. ContentPos(s, U, u + 1) = SizesOf(s)[f]
  BY <1>1, EndsAt
<1>3. CASE U[u].k = "checksum"
  <2>1. ContentPos(s, U, u) = SizesOf(s)[f]
    BY <1>3 DEF ContentPos
  <2> QED BY <1>1, <1>2, <2>1
<1>4. CASE U[u].k = "skip"
  <2>1. ContentPos(s, U, u) = SizesOf(s)[f - 1]
    BY <1>4 DEF ContentPos
  <2>2. fr \in FrameSet /\ FrameOk(fr) /\ fr.blocks \in Seq(BlockSet)
    BY <1>1, StreamIs, FrameIs
  <2>3. fr.blocks = <<>>
    BY <1>1, <1>4, <2>2 DEF FrameOk
  <2>4. Len(fr.blocks) = 0
    BY <2>3
  <2>5. Size(fr) = 0
    BY <2>2, <2>4, OutsAre
  <2>6. f - 1 \in 0 .. Len(s) /\ SizesOf(s)[f - 1] \in Nat
    BY <1>1, StreamIs, SizesAre
  <2>7. SizesOf(s)[f] = SizesOf(s)[f - 1] + Size(fr)
    BY <1>1, SizesAre
  <2> QED BY <1>1, <1>2, <2>1, <2>5, <2>6, <2>7
<1> QED BY <1>3, <1>4

-----------------------------------------------------------------------------
(* The bytes of a stream.                                                  *)

(* The lengths of the units before each.                                   *)
LEMMA LensAre ==
  ASSUME NEW U \in Seq(UnitSet)
  PROVE  /\ LensOf(U)[0] = 0 /\ Lens(U) = LensOf(U)[Len(U)]
         /\ \A u \in 1 .. Len(U) : U[u].len \in Nat /\ LensOf(U)[u] = LensOf(U)[u - 1] + U[u].len
         /\ \A u \in 0 .. Len(U) : LensOf(U)[u] \in Nat
         /\ \A a \in 0 .. Len(U) : \A b \in a .. Len(U) : LensOf(U)[a] <= LensOf(U)[b]
<1> DEFINE N == Len(U)
           ns == [u \in 1 .. N |-> U[u].len]
<1>1. N \in Nat /\ DOMAIN U = 1 .. N /\ \A u \in 1 .. N : U[u] \in UnitSet
  OBVIOUS
<1> HIDE DEF N
<1>2. \A u \in 1 .. N : U[u].len \in Nat
  BY <1>1, UnitFields
<1>3. ns \in Seq(Nat) /\ Len(ns) = N /\ \A u \in 1 .. N : ns[u] = U[u].len
  BY <1>1, <1>2
<1>4. LensOf(U) = Sums(ns)
  BY <1>1 DEF LensOf
<1>5. Lens(U) = Sums(ns)[Len(ns)]
  BY <1>1 DEF Lens, Total
<1> HIDE DEF ns
<1>6. /\ Sums(ns)[0] = 0
      /\ \A n \in 1 .. Len(ns) : Sums(ns)[n] = Sums(ns)[n - 1] + ns[n]
      /\ \A n \in 0 .. Len(ns) : Sums(ns)[n] \in Nat
  BY <1>3, SumsIs
<1>7. \A a \in 0 .. Len(ns) : \A b \in a .. Len(ns) : Sums(ns)[a] <= Sums(ns)[b]
  BY <1>3, SumsGrow
<1> QED BY <1>2, <1>3, <1>4, <1>5, <1>6, <1>7 DEF N

(* The length of a stream.                                                 *)
LEMMA StreamLenIs ==
  ASSUME NEW s \in Streams
  PROVE  /\ s[Len(s)].cut => StreamLen[s] = LensOf(Units[s])[Len(Units[s])] - 1
         /\ ~s[Len(s)].cut => StreamLen[s] = LensOf(Units[s])[Len(Units[s])]
<1>1. StreamLen[s] = Lens(Units[s]) - (IF s[Len(s)].cut THEN 1 ELSE 0)
  BY DEF StreamLen
<1>2. Units[s] \in Seq(UnitSet)
  BY UnitsAre DEF Linked
<1>3. Lens(Units[s]) = LensOf(Units[s])[Len(Units[s])] /\ Len(Units[s]) \in 0 .. Len(Units[s])
  BY <1>2, LensAre
<1>4. Lens(Units[s]) \in Nat
  BY <1>2, <1>3, LensAre
<1> QED BY <1>1, <1>3, <1>4

(* A unit is part of what is left of its frame.                            *)
LEMMA LensFromAtLeast ==
  ASSUME CurUnits \in Seq(UnitSet), NEW u \in 1 .. Len(CurUnits)
  PROVE  LensFrom(u, CurUnits[u].f) \in Nat /\ LensFrom(u, CurUnits[u].f) >= CurUnits[u].len
<1> DEFINE U == CurUnits
           N == Len(U)
           f == U[u].f
           ns == [i \in 1 .. N |-> IF i >= u /\ U[i].f = f THEN U[i].len ELSE 0]
<1>1. N \in Nat /\ DOMAIN U = 1 .. N /\ \A i \in 1 .. N : U[i] \in UnitSet
  OBVIOUS
<1>2. LensFrom(u, f) = Total(ns)
  BY <1>1 DEF LensFrom
<1> HIDE DEF N, U
<1>3. \A i \in 1 .. N : U[i].len \in Nat
  BY <1>1, UnitFields
<1>4. u \in 1 .. N /\ u >= u
  BY <1>1 DEF N, U
<1>5. ns \in Seq(Nat) /\ Len(ns) = N /\ ns[u] = U[u].len
  BY <1>1, <1>3, <1>4
<1> HIDE DEF ns
<1>6. Total(ns) = Sums(ns)[N]
  BY <1>5 DEF Total
<1>7. Sums(ns)[u] = Sums(ns)[u - 1] + ns[u] /\ Sums(ns)[u - 1] \in Nat /\ Sums(ns)[N] \in Nat
  <2>1. u \in 1 .. Len(ns) /\ u - 1 \in 0 .. Len(ns) /\ N \in 0 .. Len(ns)
    BY <1>1, <1>4, <1>5
  <2> QED BY <2>1, <1>5, SumsIs
<1>8. Sums(ns)[u] <= Sums(ns)[N]
  <2>1. u \in 0 .. Len(ns) /\ N \in u .. Len(ns)
    BY <1>1, <1>4, <1>5
  <2> QED BY <2>1, <1>5, SumsGrow
<1>9. U[u].len \in Nat
  BY <1>3, <1>4
<1>10. Sums(ns)[N] >= U[u].len
  <2> DEFINE x == Sums(ns)[u - 1]
             y == Sums(ns)[u]
             z == Sums(ns)[N]
             l == U[u].len
  <2>1. y = x + l /\ x \in Nat /\ z \in Nat /\ y <= z /\ l \in Nat
    BY <1>5, <1>7, <1>8, <1>9
  <2> HIDE DEF x, y, z, l
  <2>2. z >= l
    BY <2>1
  <2> QED BY <2>2 DEF z, l
<1> QED BY <1>2, <1>6, <1>7, <1>10 DEF U

(* The largest of a set of numbers up to n.                                *)
LEMMA LargestIs ==
  ASSUME NEW n \in Nat, NEW t \in SUBSET (0 .. n), 0 \in t
  PROVE  Max(t) \in t
<1> DEFINE r == t \ {0}
<1>1. r \in SUBSET (1 .. n)
  OBVIOUS
<1>2. \E x \in t : \A y \in t : x >= y
  <2>1. CASE r = {}
    BY <2>1
  <2>2. CASE r # {}
    <3> HIDE DEF r
    <3>1. Max(r) \in r /\ \A y \in r : y <= Max(r)
      BY <1>1, <2>2, MaxIsLargest
    <3>2. PICK x \in r : x = Max(r)
      BY <3>1
    <3>3. x \in t /\ x \in Nat /\ \A y \in r : y <= x
      BY <3>1, <3>2, <1>1 DEF r
    <3>4. \A y \in t : x >= y
      BY <3>3, <1>1 DEF r
    <3> QED BY <3>3, <3>4
  <2> QED BY <2>1, <2>2
<1> QED BY <1>2 DEF Max

\* The bytes of fr's blocks from block i on, before each.
BlockBytes(fr, i) ==
    Sums([j \in 1 .. Len(fr.blocks) + 1 - i |-> BlockHeaderLen + fr.blocks[i + j - 1].clen])

(* What located finds.                                                     *)
LEMMA LocatedIs ==
  ASSUME NEW fr \in FrameSet, NEW i \in 1 .. Len(fr.blocks), NEW n \in Nat, NEW r,
         NEW k, k = LocatedFrom(fr, i, n, r)
  PROVE  /\ k \in 0 .. Len(fr.blocks) + 1 - i
         /\ BlockBytes(fr, i)[k] <= n
         /\ \A j \in 1 .. k : ~HeaderFails(fr.blocks[i + j - 1])
<1> DEFINE most == Len(fr.blocks) + 1 - i
           bound == Sums([j \in 1 .. most |-> BlockBound(fr, fr.blocks[i + j - 1])])
           Held(m) == /\ BlockBytes(fr, i)[m] <= n
                      /\ \A j \in 1 .. m : ~HeaderFails(fr.blocks[i + j - 1])
                      /\ m > 1 => bound[m - 1] <= r
           t == {m \in 0 .. most : Held(m)}
<1>1. k = Max(t)
  BY DEF LocatedFrom, BlockBytes
<1>2. most \in Nat
  BY FrameIs
<1>3. BlockBytes(fr, i)[0] = 0
  <2> DEFINE ns == [j \in 1 .. most |-> BlockHeaderLen + fr.blocks[i + j - 1].clen]
  <2>1. \A j \in 1 .. most : i + j - 1 \in 1 .. Len(fr.blocks)
    BY FrameIs
  <2>2. \A j \in 1 .. most : BlockHeaderLen + fr.blocks[i + j - 1].clen \in Nat
    BY <2>1, FrameIs DEF BlockHeaderLen
  <2>3. ns \in Seq(Nat)
    BY <2>2, <1>2
  <2> HIDE DEF ns
  <2>4. Sums(ns)[0] = 0
    BY <2>3, SumsIs
  <2> QED BY <2>4 DEF ns, BlockBytes
<1>4. Held(0)
  BY <1>3
<1>5. t \in SUBSET (0 .. most) /\ 0 \in t
  BY <1>2, <1>4
<1>6. Max(t) \in t
  <2> HIDE DEF t
  <2> QED BY <1>2, <1>5, LargestIs
<1> QED BY <1>1, <1>6

\* The units of block i + m of frame f are 2 * m after those of block i.
AheadIs(U, u, m) ==
    /\ u + 2 * m \in 1 .. Len(U)
    /\ U[u + 2 * m].k = "block" /\ U[u + 2 * m].f = U[u].f /\ U[u + 2 * m].i = U[u].i + m

(* The block after a block.                                                *)
LEMMA BlockAfter ==
  ASSUME NEW s \in Streams, NEW U, Linked(s, U), NEW v \in 1 .. Len(U), U[v].k = "block",
         U[v].i < Len(s[U[v].f].blocks)
  PROVE  v + 2 \in 1 .. Len(U) /\ U[v + 2].k = "block" /\ U[v + 2].f = U[v].f
         /\ U[v + 2].i = U[v].i + 1
<1> DEFINE w == v + 1
<1>1. NextIs(s, U, v, "content", U[v].i)
  BY AfterBlock
<1>2. w \in 1 .. Len(U) /\ U[w].k = "content" /\ U[w].f = U[v].f /\ U[w].i = U[v].i
  BY <1>1 DEF NextIs
<1> HIDE DEF w
<1>3. NextIs(s, U, w, "block", U[w].i + 1)
  BY <1>2, AfterContent
<1>4. w + 1 \in 1 .. Len(U) /\ U[w + 1].k = "block" /\ U[w + 1].f = U[w].f /\ U[w + 1].i = U[w].i + 1
  BY <1>3 DEF NextIs
<1>5. w + 1 = v + 2
  BY DEF w
<1> QED BY <1>2, <1>4, <1>5

(* Where the blocks of a frame are.                                        *)
LEMMA BlocksAhead ==
  ASSUME NEW s \in Streams, NEW U, Linked(s, U), NEW u \in 1 .. Len(U), U[u].k = "block",
         NEW m \in Nat, U[u].i + m <= Len(s[U[u].f].blocks)
  PROVE  AheadIs(U, u, m)
<1> DEFINE f == U[u].f
           N == Len(s[f].blocks)
           i == U[u].i
<1>1. N \in Nat /\ i \in 1 .. N /\ f \in 1 .. Len(s)
  <2>1. f \in 1 .. Len(s) /\ i \in 1 .. N /\ s[f] \in FrameSet
    BY AtContent
  <2> QED BY <2>1, FrameIs
<1>a. Len(U) \in Nat
  BY DEF Linked
<1>b. i + m <= N
  OBVIOUS
<1> HIDE DEF i, N
<1> DEFINE S == {n \in Nat : i + n <= N => AheadIs(U, u, n)}
<1>2. 0 \in S
  <2>1. u + 2 * 0 = u /\ i + 0 = i
    BY <1>1
  <2> QED BY <2>1 DEF AheadIs, i
<1>3. ASSUME NEW n \in Nat, n \in S PROVE n + 1 \in S
  <2> SUFFICES ASSUME i + (n + 1) <= N PROVE AheadIs(U, u, n + 1)
    OBVIOUS
  <2> DEFINE v == u + 2 * n
  <2>1. AheadIs(U, u, n)
    BY <1>1, <1>3
  <2>2. v \in 1 .. Len(U) /\ U[v].k = "block" /\ U[v].f = f /\ U[v].i = i + n
    BY <2>1 DEF AheadIs, i
  <2>3. U[v].i < Len(s[U[v].f].blocks)
    <3>1. i + n < N
      BY <1>1
    <3> QED BY <3>1, <2>2 DEF N
  <2> HIDE DEF v
  <2>4. v + 2 \in 1 .. Len(U) /\ U[v + 2].k = "block" /\ U[v + 2].f = U[v].f
        /\ U[v + 2].i = U[v].i + 1
    BY <2>2, <2>3, BlockAfter
  <2>5. v + 2 = u + 2 * (n + 1) /\ (i + n) + 1 = i + (n + 1)
    BY <1>1 DEF v
  <2> QED BY <2>2, <2>4, <2>5 DEF AheadIs, i
<1>4. Nat \subseteq S
  <2> HIDE DEF S
  <2> QED BY <1>2, <1>3, SetInduction
<1> QED BY <1>4, <1>b

(* The bytes of a block and of those after it.                             *)
LEMMA BlockBytesAre ==
  ASSUME NEW s \in Streams, NEW U, Linked(s, U), NEW u \in 1 .. Len(U), U[u].k = "block",
         NEW k \in Nat, U[u].i + k <= Len(s[U[u].f].blocks) + 1
  PROVE  /\ u + 2 * k - 1 \in 0 .. Len(U)
         /\ BlockBytes(s[U[u].f], U[u].i)[k] = LensOf(U)[u + 2 * k - 1] - LensOf(U)[u - 1]
<1> DEFINE f == U[u].f
           fr == s[f]
           N == Len(fr.blocks)
           i == U[u].i
           M == Len(U)
           L == LensOf(U)
           most == N + 1 - i
           ns == [j \in 1 .. most |-> BlockHeaderLen + fr.blocks[i + j - 1].clen]
<1>1. N \in Nat /\ i \in 1 .. N /\ f \in 1 .. Len(s) /\ fr \in FrameSet
  <2>1. f \in 1 .. Len(s) /\ i \in 1 .. N /\ fr \in FrameSet
    BY AtContent
  <2> QED BY <2>1, FrameIs
<1>2. U \in Seq(UnitSet) /\ M \in Nat
  BY DEF Linked
<1>3. /\ \A v \in 1 .. M : U[v].len \in Nat /\ L[v] = L[v - 1] + U[v].len
      /\ \A v \in 0 .. M : L[v] \in Nat
  BY <1>2, LensAre
<1>b. i + k <= N + 1
  OBVIOUS
<1>c. \A j \in 1 .. N : fr.blocks[j].clen \in Nat
  BY <1>1, FrameIs
<1> HIDE DEF i, N
<1>4. ns \in Seq(Nat) /\ Len(ns) = most /\ most \in Nat
  <2>1. \A j \in 1 .. most : i + j - 1 \in 1 .. N
    BY <1>1
  <2>2. \A j \in 1 .. most : BlockHeaderLen + fr.blocks[i + j - 1].clen \in Nat
    BY <2>1, <1>c DEF BlockHeaderLen
  <2> QED BY <2>2, <1>1
<1>5. \A j \in 1 .. most : ns[j] = BlockHeaderLen + fr.blocks[i + j - 1].clen
  OBVIOUS
<1>6. BlockBytes(fr, i) = Sums(ns)
  BY DEF BlockBytes, N
<1> HIDE DEF ns, L, M
<1>7. /\ Sums(ns)[0] = 0
      /\ \A n \in 1 .. most : Sums(ns)[n] = Sums(ns)[n - 1] + ns[n]
  BY <1>4, SumsIs
<1> DEFINE S == {n \in Nat : n <= most => /\ u + 2 * n - 1 \in 0 .. M
                                          /\ Sums(ns)[n] = L[u + 2 * n - 1] - L[u - 1]}
<1>8. 0 \in S
  <2>1. u + 2 * 0 - 1 = u - 1 /\ u - 1 \in 0 .. M
    BY <1>2 DEF M
  <2>2. L[u - 1] \in Nat
    BY <2>1, <1>3
  <2> QED BY <2>1, <2>2, <1>7
<1>9. ASSUME NEW n \in Nat, n \in S PROVE n + 1 \in S
  <2> SUFFICES ASSUME n + 1 <= most
               PROVE  /\ u + 2 * (n + 1) - 1 \in 0 .. M
                      /\ Sums(ns)[n + 1] = L[u + 2 * (n + 1) - 1] - L[u - 1]
    OBVIOUS
  <2> DEFINE v == u + 2 * n
             c == fr.blocks[i + n].clen
  <2>1. n \in Nat /\ i + n <= N /\ i + n \in 1 .. N
    BY <1>1, <1>4
  <2>2. AheadIs(U, u, n)
    BY <2>1, BlocksAhead DEF i, N
  <2>3. v \in 1 .. M /\ U[v].k = "block" /\ U[v].f = f /\ U[v].i = i + n
    BY <2>2 DEF AheadIs, M, i
  <2>4. v \in Nat
    BY <2>3, <1>2
  <2> HIDE DEF v
  <2>5. U[v].len = BlockHeaderLen /\ v + 1 \in 1 .. M /\ U[v + 1].len = c
    <3>1. U[v].len = BlockHeaderLen /\ NextIs(s, U, v, "content", U[v].i)
          /\ U[v + 1].len = s[U[v].f].blocks[U[v].i].clen
      BY <2>3, AfterBlock, ZenonT(30) DEF M
    <3> QED BY <3>1, <2>3 DEF NextIs, M
  <2>6. L[v] = L[v - 1] + BlockHeaderLen /\ L[v + 1] = L[(v + 1) - 1] + c /\ c \in Nat
    BY <2>3, <2>5, <1>3
  <2>7. Sums(ns)[n + 1] = Sums(ns)[n] + (BlockHeaderLen + c)
    <3>1. n + 1 \in 1 .. most /\ (n + 1) - 1 = n /\ i + (n + 1) - 1 = i + n
      <4>1. n + 1 \in 1 .. most
        BY <1>1
      <4>2. i \in Nat
        BY <1>1
      <4> QED BY <4>1, <4>2
    <3> QED BY <3>1, <1>5, <1>7
  <2>8. Sums(ns)[n] = L[v - 1] - L[u - 1]
    BY <1>9, <1>4 DEF v
  <2>9. v - 1 \in 0 .. M /\ u - 1 \in 0 .. M /\ (v + 1) - 1 = v /\ v + 1 = u + 2 * (n + 1) - 1
    BY <2>3, <2>4, <1>2 DEF v, M
  <2>10. L[v - 1] \in Nat /\ L[u - 1] \in Nat
    BY <2>9, <1>3
  <2>11. Sums(ns)[n + 1] = L[v + 1] - L[u - 1]
    <3> DEFINE x == L[v - 1]
               y == L[u - 1]
               z == L[v + 1]
    <3>1. z = (x + BlockHeaderLen) + c
      BY <2>6, <2>9
    <3>2. Sums(ns)[n + 1] = (x - y) + (BlockHeaderLen + c) /\ x \in Nat /\ y \in Nat
      BY <2>7, <2>8, <2>10
    <3> HIDE DEF x, y, z
    <3>3. Sums(ns)[n + 1] = z - y
      <4>1. c \in Nat /\ BlockHeaderLen \in Nat
        BY <2>6 DEF BlockHeaderLen
      <4> HIDE DEF c
      <4> QED BY <3>1, <3>2, <4>1
    <3> QED BY <3>3 DEF z, y
  <2>12. v + 1 \in 0 .. M
    BY <2>5, <1>2
  <2> QED BY <2>9, <2>11, <2>12
<1>10. Nat \subseteq S
  <2> HIDE DEF S
  <2> QED BY <1>8, <1>9, SetInduction
<1>11. k <= most
  BY <1>1, <1>b
<1>12. u + 2 * k - 1 \in 0 .. M /\ Sums(ns)[k] = L[u + 2 * k - 1] - L[u - 1]
  BY <1>10, <1>11
<1> QED BY <1>6, <1>12 DEF L, M, i

-----------------------------------------------------------------------------
(* The round buffer.                                                       *)

(* Products of naturals are natural.                                       *)
LEMMA ProductNat == ASSUME NEW a \in Nat, NEW b \in Nat PROVE a * b \in Nat
OBVIOUS

(* The length a frame's buffer grows to.                                   *)
LEMMA FullLenIs ==
  ASSUME NEW fr \in FrameSet
  PROVE  /\ FullLen(fr) \in Nat
         /\ fr.fcs # NoSize /\ fr.fcs <= fr.window => FullLen(fr) >= fr.fcs + BlockRoom
         /\ fr.fcs = NoSize \/ fr.fcs > fr.window =>
               FullLen(fr) >= fr.window + Overlength + BlockRoom
<1> DEFINE w == fr.window
           c == fr.fcs
           B == BlockRoom
           M == MarginBlocks * Least(w, MaxBlock)
<1>1. w \in Nat /\ (c \in Nat \/ c = NoSize) /\ B \in Nat /\ Overlength \in Nat /\ MaxBlock \in Nat
  BY FrameIs, SizesAssumption DEF BlockRoom
<1>2. M \in Nat
  <2>1. Least(w, MaxBlock) \in Nat /\ MarginBlocks \in Nat
    BY <1>1, SizesAssumption DEF Least
  <2> QED BY <2>1, ProductNat
<1>3. FullLen(fr) = (IF c # NoSize THEN Least(c, w) ELSE w) + Overlength + B
                    + (IF c # NoSize /\ c <= w THEN 0 ELSE M)
  BY DEF FullLen
<1> HIDE DEF w, c, B, M
<1>4. CASE c = NoSize
  <2>1. FullLen(fr) = w + Overlength + B + M
    BY <1>3, <1>4
  <2> QED BY <2>1, <1>1, <1>2, <1>4 DEF w, c, B
<1>5. CASE c # NoSize /\ c <= w
  <2>1. Least(c, w) = c
    BY <1>1, <1>5 DEF Least
  <2>2. FullLen(fr) = c + Overlength + B + 0
    BY <1>3, <1>5, <2>1
  <2>3. c \in Nat
    BY <1>1, <1>5
  <2>4. FullLen(fr) \in Nat /\ FullLen(fr) >= c + B /\ ~(c > w)
    BY <2>2, <2>3, <1>1, <1>5
  <2> QED BY <2>4, <1>5 DEF w, c, B
<1>6. CASE c # NoSize /\ ~(c <= w)
  <2>1. Least(c, w) = w
    BY <1>1, <1>6 DEF Least
  <2>2. FullLen(fr) = w + Overlength + B + M
    BY <1>3, <1>6, <2>1
  <2>3. FullLen(fr) \in Nat /\ FullLen(fr) >= w + Overlength + B
    BY <2>2, <1>1, <1>2
  <2> QED BY <2>3, <1>6 DEF w, c, B
<1> QED BY <1>4, <1>5, <1>6

(* Growing.                                                                *)
LEMMA GrownIs ==
  ASSUME NEW r \in RingSet
  PROVE  /\ Grown(r) \in RingSet
         /\ Grown(r).window = r.window /\ Grown(r).full = r.full /\ Grown(r).end = r.end
         /\ Grown(r).ext_end = r.ext_end /\ Grown(r).flushed = r.flushed
         /\ Grown(r).len >= r.len
         /\ Grown(r).end + BlockRoom > Grown(r).len => Grown(r).len >= r.full
<1> DEFINE B == BlockRoom
           n == Least(Most(2 * r.len, r.end + B), r.full)
<1>1. r.len \in Nat /\ r.end \in Nat /\ r.full \in Nat /\ B \in Nat
  BY SizesAssumption DEF RingSet, BlockRoom
<1>2. CASE r.end + B > r.len /\ r.len < r.full
  <2>1. Grown(r) = [r EXCEPT !.len = n]
    BY <1>2 DEF Grown
  <2>2. n \in Nat /\ n >= r.len /\ (r.end + B > n => n >= r.full)
    BY <1>1, <1>2 DEF Least, Most
  <2> HIDE DEF n
  <2>3. /\ Grown(r) \in RingSet /\ Grown(r).len = n
        /\ Grown(r).window = r.window /\ Grown(r).full = r.full /\ Grown(r).end = r.end
        /\ Grown(r).ext_end = r.ext_end /\ Grown(r).flushed = r.flushed
    BY <2>1, <2>2 DEF RingSet
  <2> QED BY <2>2, <2>3
<1>3. CASE ~(r.end + B > r.len /\ r.len < r.full)
  <2>1. Grown(r) = r
    BY <1>3 DEF Grown
  <2> QED BY <2>1, <1>1, <1>3
<1> QED BY <1>2, <1>3

(* Wrapping.                                                               *)
LEMMA WrappedIs ==
  ASSUME NEW r \in RingSet
  PROVE  /\ Wrapped(r) \in RingSet
         /\ Wrapped(r).window = r.window /\ Wrapped(r).full = r.full /\ Wrapped(r).len = r.len
         /\ r.end + BlockRoom > r.len => /\ Wrapped(r).ext_end = r.end /\ Wrapped(r).end = 0
                                         /\ Wrapped(r).flushed = 0
         /\ ~(r.end + BlockRoom > r.len) => Wrapped(r) = r
<1>1. CASE r.end + BlockRoom > r.len
  <2>1. Wrapped(r) = [r EXCEPT !.ext_end = r.end, !.end = 0, !.flushed = 0]
    BY <1>1 DEF Wrapped
  <2>2. r.end \in Nat /\ 0 \in Nat
    BY DEF RingSet
  <2>3. /\ Wrapped(r) \in RingSet
        /\ Wrapped(r).window = r.window /\ Wrapped(r).full = r.full /\ Wrapped(r).len = r.len
        /\ Wrapped(r).ext_end = r.end /\ Wrapped(r).end = 0 /\ Wrapped(r).flushed = 0
    BY <2>1, <2>2 DEF RingSet
  <2> QED BY <1>1, <2>3
<1>2. CASE ~(r.end + BlockRoom > r.len)
  <2>1. Wrapped(r) = r
    BY <1>2 DEF Wrapped
  <2> QED BY <1>2, <2>1
<1> QED BY <1>1, <1>2

\* The buffer as block_dst leaves it, and what its bytes hold.
Dst(r) == Wrapped(Grown(r))
DstMem(r, m) == [p \in 0 .. Grown(r).len - 1 |-> IF p < r.len THEN m[p] ELSE Junk]

(* A buffer's fields.                                                      *)
LEMMA RingFields ==
  ASSUME NEW r \in RingSet
  PROVE  /\ r.len \in Nat /\ r.window \in Nat /\ r.full \in Nat /\ r.end \in Nat
         /\ r.ext_end \in Nat /\ r.flushed \in Nat
BY DEF RingSet

(* Where a byte of the history is.                                         *)
LEMMA HistoryAt ==
  ASSUME NEW r \in RingSet, NEW fr \in FrameSet, NEW n \in Nat, RingFor(r, fr, n),
         NEW j \in Nat, NEW d \in 1 .. Least(n + j, r.window), d > r.end + j
  PROVE  /\ r.ext_end > r.window + Overlength /\ r.ext_end <= r.len
         /\ r.ext_end - (d - (r.end + j)) \in 0 .. r.ext_end - 1
<1> DEFINE e == r.ext_end
           w == r.window
           a == r.end
           l == r.len
<1>1. e \in Nat /\ w \in Nat /\ a \in Nat /\ l \in Nat
  BY RingFields
<1>2. e = 0 => a = n
  BY DEF RingFor
<1>3. e > 0 => e > w + Overlength /\ e <= l
  BY DEF RingFor
<1>4. d \in Nat /\ d <= n + j /\ d <= w /\ Overlength \in Nat /\ d > a + j
  BY <1>1, SizesAssumption DEF Least
<1> HIDE DEF e, w, a, l
<1>5. e > w + Overlength /\ e <= l /\ e - (d - (a + j)) \in 0 .. e - 1
  BY <1>1, <1>2, <1>3, <1>4
<1> QED BY <1>5 DEF e, w, a, l

(* A byte of the history is in the buffer.                                 *)
LEMMA DstMemIs ==
  ASSUME NEW r \in RingSet, NEW m \in [0 .. r.len - 1 -> Int]
  PROVE  /\ DstMem(r, m) \in [0 .. Grown(r).len - 1 -> Int]
         /\ \A p \in 0 .. r.len - 1 : DstMem(r, m)[p] = m[p]
<1> DEFINE l == r.len
           g == Grown(r).len
<1>1. l \in Nat /\ g \in Nat /\ g >= l
  BY GrownIs, RingFields
<1>2. DstMem(r, m) = [p \in 0 .. g - 1 |-> IF p < l THEN m[p] ELSE Junk]
  BY DEF DstMem
<1>3. m \in [0 .. l - 1 -> Int]
  OBVIOUS
<1> HIDE DEF l, g
<1>4. DstMem(r, m) \in [0 .. g - 1 -> Int] /\ \A p \in 0 .. l - 1 : DstMem(r, m)[p] = m[p]
  <2> DEFINE x(p) == IF p < l THEN m[p] ELSE Junk
  <2>1. \A p \in 0 .. g - 1 : x(p) \in Int
    <3>1. \A p \in 0 .. g - 1 : p < l => p \in 0 .. l - 1
      BY <1>1
    <3>2. \A p \in 0 .. l - 1 : m[p] \in Int
      BY <1>3
    <3> QED BY <3>1, <3>2 DEF Junk
  <2>2. \A p \in 0 .. l - 1 : p \in 0 .. g - 1 /\ x(p) = m[p]
    BY <1>1
  <2> HIDE DEF x
  <2>3. DstMem(r, m) = [p \in 0 .. g - 1 |-> x(p)]
    BY <1>2 DEF x
  <2> QED BY <2>1, <2>2, <2>3
<1> QED BY <1>4 DEF l, g

(* Where it wraps, all of the window is behind.                            *)
LEMMA WrapsLate ==
  ASSUME NEW r \in RingSet, NEW fr \in FrameSet, NEW n \in Nat, RingFor(r, fr, n),
         Grown(r).end + BlockRoom > Grown(r).len
  PROVE  r.end > r.window + Overlength
<1> DEFINE a == r.end
           w == r.window
           g == Grown(r).len
           F == FullLen(fr)
           c == fr.fcs
           B == BlockRoom
<1>1. a \in Nat /\ w \in Nat /\ g \in Nat /\ F \in Nat /\ B \in Nat /\ Overlength \in Nat
  BY GrownIs, RingFields, FullLenIs, SizesAssumption DEF BlockRoom
<1>2. a + B > g /\ g >= F
  <2>1. Grown(r).end = r.end /\ (Grown(r).end + BlockRoom > Grown(r).len => Grown(r).len >= r.full)
    BY GrownIs
  <2>2. r.full = F
    BY DEF RingFor
  <2> QED BY <2>1, <2>2
<1>3. w = fr.window /\ a <= n /\ (c # NoSize => n <= c) /\ (c \in Nat \/ c = NoSize)
  BY FrameIs DEF RingFor
<1>4. /\ c # NoSize /\ c <= w => F >= c + B
      /\ c = NoSize \/ c > w => F >= w + Overlength + B
  BY <1>3, FullLenIs
<1> HIDE DEF a, w, g, F, c, B
<1>5. a > w + Overlength
  <2>1. CASE c # NoSize /\ c <= w
    BY <2>1, <1>1, <1>2, <1>3, <1>4
  <2>2. CASE c = NoSize \/ c > w
    BY <2>2, <1>1, <1>2, <1>4
  <2>3. c # NoSize => c \in Nat
    BY <1>3
  <2> QED BY <2>1, <2>2, <2>3, <1>1
<1> QED BY <1>5 DEF a, w

(* block_dst leaves room for a block, and the history in reach.            *)
LEMMA DstIs ==
  ASSUME NEW r \in RingSet, NEW fr \in FrameSet, NEW n \in Nat, RingFor(r, fr, n),
         NEW m \in [0 .. r.len - 1 -> Int], NEW f, HistoryOf(r, m, f, n, r.end),
         r.flushed = r.end
  PROVE  /\ Dst(r) \in RingSet /\ DstMem(r, m) \in [0 .. Dst(r).len - 1 -> Int]
         /\ RingFor(Dst(r), fr, n) /\ HistoryOf(Dst(r), DstMem(r, m), f, n, Dst(r).end)
         /\ Dst(r).end + BlockRoom <= Dst(r).len /\ Dst(r).flushed = Dst(r).end
<1> DEFINE g == Grown(r)
           w == Dst(r)
           q == DstMem(r, m)
<1>1. /\ g \in RingSet /\ g.window = r.window /\ g.full = r.full /\ g.end = r.end
      /\ g.ext_end = r.ext_end /\ g.flushed = r.flushed /\ g.len >= r.len
  BY GrownIs
<1>2. q \in [0 .. g.len - 1 -> Int] /\ \A p \in 0 .. r.len - 1 : q[p] = m[p]
  BY DstMemIs
<1>3. /\ r.len \in Nat /\ r.window \in Nat /\ r.end \in Nat /\ r.ext_end \in Nat
      /\ g.len \in Nat /\ BlockRoom \in Nat /\ Overlength \in Nat
  BY <1>1, RingFields, SizesAssumption DEF BlockRoom
<1>4. \A d \in 1 .. Least(n, r.window) :
         m[IF d <= r.end THEN r.end - d ELSE r.ext_end - (d - r.end)] = Token(f, n - d + 1)
  BY DEF HistoryOf
<1>5. /\ r.window = fr.window /\ r.full = FullLen(fr) /\ (fr.fcs # NoSize => n <= fr.fcs)
      /\ r.end <= n /\ r.end <= r.len
      /\ r.ext_end = 0 => r.end = n
      /\ r.ext_end > 0 => r.ext_end > r.window + Overlength /\ r.ext_end <= n /\ r.ext_end <= r.len
  BY DEF RingFor
<1>6. CASE ~(g.end + BlockRoom > g.len)
  <2>1. w = g
    BY <1>1, <1>6, WrappedIs DEF Dst
  <2>2. RingFor(w, fr, n)
    BY <2>1, <1>1, <1>3, <1>5 DEF RingFor
  <2>3. ASSUME NEW d \in 1 .. Least(n, w.window)
        PROVE  q[IF d <= w.end THEN w.end - d ELSE w.ext_end - (d - w.end)] = Token(f, n - d + 1)
    <3>1. d \in 1 .. Least(n, r.window) /\ d \in Nat /\ d >= 1
      BY <2>1, <1>1
    <3>2. CASE d <= r.end
      <4>1. r.end - d \in 0 .. r.len - 1
        BY <3>1, <3>2, <1>3, <1>5
      <4>2. m[r.end - d] = Token(f, n - d + 1)
        BY <3>1, <3>2, <1>4
      <4> QED BY <4>1, <4>2, <3>2, <1>1, <1>2, <2>1
    <3>3. CASE ~(d <= r.end)
      <4>1. 0 \in Nat /\ d \in 1 .. Least(n + 0, r.window) /\ d > r.end + 0 /\ r.end + 0 = r.end
        BY <3>1, <3>3, <1>3
      <4>2. /\ r.ext_end <= r.len
            /\ r.ext_end - (d - (r.end + 0)) \in 0 .. r.ext_end - 1
        BY <4>1, HistoryAt
      <4>3. r.ext_end - (d - r.end) \in 0 .. r.len - 1
        BY <4>1, <4>2, <1>3
      <4>4. m[r.ext_end - (d - r.end)] = Token(f, n - d + 1)
        BY <3>1, <3>3, <1>4
      <4> QED BY <4>3, <4>4, <3>3, <1>1, <1>2, <2>1
    <3> QED BY <3>2, <3>3
  <2>4. HistoryOf(w, q, f, n, w.end)
    BY <2>3 DEF HistoryOf
  <2>5. w.end + BlockRoom <= w.len
    BY <2>1, <1>1, <1>3, <1>6
  <2> QED BY <2>1, <2>2, <2>4, <2>5, <1>1, <1>2
<1>7. CASE g.end + BlockRoom > g.len
  <2>1. /\ w \in RingSet /\ w.window = g.window /\ w.full = g.full /\ w.len = g.len
        /\ w.ext_end = g.end /\ w.end = 0 /\ w.flushed = 0
    BY <1>1, <1>7, WrappedIs DEF Dst
  <2>2. r.end > r.window + Overlength
    BY <1>7, WrapsLate
  <2>3. RingFor(w, fr, n)
    <3>1. /\ w.window = fr.window /\ w.full = FullLen(fr) /\ (fr.fcs # NoSize => n <= fr.fcs)
          /\ w.end <= n /\ w.end <= w.len
      BY <2>1, <1>1, <1>3, <1>5
    <3>2. /\ w.ext_end # 0 /\ w.ext_end > w.window + Overlength
          /\ w.ext_end <= n /\ w.ext_end <= w.len
      BY <2>1, <2>2, <1>1, <1>3, <1>5
    <3> QED BY <3>1, <3>2 DEF RingFor
  <2>4. ASSUME NEW d \in 1 .. Least(n, w.window)
        PROVE  q[IF d <= w.end THEN w.end - d ELSE w.ext_end - (d - w.end)] = Token(f, n - d + 1)
    <3>1. d \in 1 .. Least(n, r.window) /\ d \in Nat /\ d >= 1 /\ d <= r.window
      BY <2>1, <1>1, <1>3 DEF Least
    <3>2. d <= r.end /\ r.end - d \in 0 .. r.len - 1
      BY <3>1, <2>2, <1>3, <1>5
    <3>3. m[r.end - d] = Token(f, n - d + 1)
      BY <3>1, <3>2, <1>4
    <3>4. ~(d <= w.end) /\ w.ext_end - (d - w.end) = r.end - d
      BY <3>1, <2>1, <1>1, <1>3
    <3> QED BY <3>2, <3>3, <3>4, <1>2
  <2>5. HistoryOf(w, q, f, n, w.end)
    BY <2>4 DEF HistoryOf
  <2>6. w.end + BlockRoom <= w.len
    <3>1. FullLen(fr) >= BlockRoom /\ FullLen(fr) \in Nat
      <4>1. fr.fcs \in Nat \/ fr.fcs = NoSize
        BY FrameIs
      <4>2. fr.window \in Nat
        BY FrameIs
      <4>3. /\ FullLen(fr) \in Nat
            /\ fr.fcs # NoSize /\ fr.fcs <= fr.window => FullLen(fr) >= fr.fcs + BlockRoom
            /\ fr.fcs = NoSize \/ fr.fcs > fr.window =>
                  FullLen(fr) >= fr.window + Overlength + BlockRoom
        BY FullLenIs
      <4>4. CASE fr.fcs # NoSize /\ fr.fcs <= fr.window
        BY <4>1, <4>2, <4>3, <4>4, <1>3
      <4>5. CASE fr.fcs = NoSize \/ fr.fcs > fr.window
        BY <4>2, <4>3, <4>5, <1>3
      <4> QED BY <4>1, <4>2, <4>4, <4>5
    <3>2. g.len >= FullLen(fr)
      BY <1>5, <1>7, GrownIs
    <3> QED BY <3>1, <3>2, <2>1, <1>3
  <2> QED BY <2>1, <2>3, <2>5, <2>6, <1>2
<1> QED BY <1>6, <1>7

\* What the buffer holds when byte t is written at position at.
PutMem(m, at, t) ==
    [p \in DOMAIN m |->
        IF p = at THEN t ELSE IF p \in at + 1 .. at + Overlength THEN Junk ELSE m[p]]

(* Writing a byte, and its overshoot, leaves the history in reach.         *)
LEMMA WriteHistory ==
  ASSUME NEW r \in RingSet, NEW fr \in FrameSet, NEW n \in Nat, RingFor(r, fr, n),
         NEW m \in [0 .. r.len - 1 -> Int], NEW f \in Nat, NEW j \in Nat, j < MaxBlock,
         r.end + BlockRoom <= r.len, HistoryOf(r, m, f, n + j, r.end + j)
  PROVE  /\ PutMem(m, r.end + j, Token(f, n + j + 1)) \in [0 .. r.len - 1 -> Int]
         /\ HistoryOf(r, PutMem(m, r.end + j, Token(f, n + j + 1)), f, n + (j + 1),
                      r.end + (j + 1))
<1> DEFINE at == r.end + j
           N == n + j
           t == Token(f, n + j + 1)
           q == PutMem(m, at, t)
           l == r.len
           w == r.window
           e == r.ext_end
<1>1. /\ at \in Nat /\ N \in Nat /\ l \in Nat /\ w \in Nat /\ e \in Nat /\ Overlength \in Nat
      /\ at < l /\ t \in Int
  <2>1. r.end \in Nat /\ r.len \in Nat /\ r.window \in Nat /\ r.ext_end \in Nat
    BY RingFields
  <2>2. Overlength \in Nat /\ MaxBlock \in Nat
    BY SizesAssumption
  <2> QED BY <2>1, <2>2 DEF BlockRoom, Token
<1>2. DOMAIN m = 0 .. l - 1 /\ \A p \in 0 .. l - 1 : m[p] \in Int
  OBVIOUS
<1>3. /\ q \in [0 .. l - 1 -> Int] /\ q[at] = t
      /\ \A p \in 0 .. l - 1 : p < at \/ p > at + Overlength => q[p] = m[p]
  <2> HIDE DEF at, t, l
  <2> DEFINE x(p) == IF p = at THEN t ELSE IF p \in at + 1 .. at + Overlength THEN Junk ELSE m[p]
  <2>1. \A p \in 0 .. l - 1 : x(p) \in Int
    BY <1>1, <1>2 DEF Junk
  <2>2. x(at) = t /\ at \in 0 .. l - 1
    BY <1>1
  <2>3. \A p \in 0 .. l - 1 : p < at \/ p > at + Overlength => x(p) = m[p]
    <3>1. \A p \in 0 .. l - 1 : p < at \/ p > at + Overlength => p # at /\ p \notin at + 1 .. at + Overlength
      BY <1>1
    <3> QED BY <3>1
  <2>4. q = [p \in 0 .. l - 1 |-> x(p)]
    BY <1>2 DEF PutMem
  <2> HIDE DEF q, x
  <2> QED BY <2>1, <2>2, <2>3, <2>4
<1>4. \A d \in 1 .. Least(N, w) :
         m[IF d <= at THEN at - d ELSE e - (d - at)] = Token(f, N - d + 1)
  BY DEF HistoryOf
<1>5. ASSUME NEW d \in 1 .. Least(N + 1, w)
      PROVE  q[IF d <= at + 1 THEN (at + 1) - d ELSE e - (d - (at + 1))] = Token(f, (N + 1) - d + 1)
  <2>1. d \in Nat /\ d >= 1 /\ d <= N + 1 /\ d <= w
    BY <1>1 DEF Least
  <2>2. CASE d = 1
    <3>1. d <= at + 1 /\ (at + 1) - d = at /\ (N + 1) - d + 1 = N + 1
      BY <2>2, <1>1
    <3> QED BY <3>1, <1>3
  <2>3. CASE d # 1
    <3> DEFINE c == d - 1
    <3>1. c \in 1 .. Least(N, w) /\ N - c + 1 = (N + 1) - d + 1 /\ c \in Nat
      BY <2>1, <2>3, <1>1 DEF Least
    <3>2. m[IF c <= at THEN at - c ELSE e - (c - at)] = Token(f, N - c + 1)
      <4> HIDE DEF c
      <4> QED BY <3>1, <1>4
    <3>3. CASE c <= at
      <4>1. d <= at + 1 /\ (at + 1) - d = at - c /\ at - c \in 0 .. l - 1 /\ at - c < at
        BY <3>1, <3>3, <2>1, <1>1, SMTT(30)
      <4>2. q[at - c] = m[at - c]
        BY <4>1, <1>3
      <4>3. m[at - c] = Token(f, N - c + 1)
        BY <3>2, <3>3
      <4> QED BY <4>1, <4>2, <4>3, <3>1
    <3>4. CASE ~(c <= at)
      <4> DEFINE p == e - (c - at)
      <4>1. ~(d <= at + 1) /\ e - (d - (at + 1)) = p
        BY <3>4, <2>1, <1>1
      <4>2. e > w + Overlength /\ e <= l /\ p \in 0 .. e - 1
        <5>1. c \in 1 .. Least(n + j, r.window) /\ c > r.end + j
          BY <3>1, <3>4, <1>1
        <5> HIDE DEF c
        <5> QED BY <5>1, HistoryAt
      <4>3. p \in 0 .. l - 1 /\ p > at + Overlength
        <5>1. c <= w /\ c \in Nat
          BY <2>1, <1>1
        <5>2. p = e - (c - at)
          OBVIOUS
        <5> HIDE DEF at, w, e, l, c, p
        <5> QED BY <4>2, <5>1, <5>2, <1>1
      <4>4. q[p] = m[p]
        BY <4>3, <1>3
      <4>5. m[p] = Token(f, N - c + 1)
        BY <3>2, <3>4
      <4> QED BY <4>1, <4>4, <4>5, <3>1
    <3> QED BY <3>3, <3>4
  <2> QED BY <2>2, <2>3
<1>6. n + (j + 1) = N + 1 /\ r.end + (j + 1) = at + 1
  <2>1. r.end \in Nat
    BY RingFields
  <2> QED BY <2>1
<1>7. HistoryOf(r, q, f, N + 1, at + 1)
  <2> HIDE DEF q, at, N
  <2> QED BY <1>5 DEF HistoryOf
<1> QED BY <1>3, <1>6, <1>7

-----------------------------------------------------------------------------
(* What the invariant says of the unit the decoder is at.                  *)

\* The u-th unit of s and the bytes before it.
UnitAt(s, U, u) ==
    /\ U[u] \in UnitSet /\ U[u].k \in Stages /\ U[u].len \in Nat /\ U[u].f \in 1 .. Len(s)
    /\ s[U[u].f] \in FrameSet /\ FrameOk(s[U[u].f])
    /\ LensOf(U)[u - 1] \in Nat /\ LensOf(U)[u] \in Nat
    /\ LensOf(U)[u] = LensOf(U)[u - 1] + U[u].len
    /\ LensOf(U)[u] <= LensOf(U)[Len(U)]
    /\ U[u].k \in {"header", "block", "checksum"} => U[u].len >= 1
    /\ U[u].k = "header" => U[u].len = s[U[u].f].hlen /\ U[u].len >= PrefixLen

(* Each unit of a stream is one.                                           *)
LEMMA UnitAtIs ==
  ASSUME NEW s \in Streams, NEW U, Linked(s, U), NEW u \in 1 .. Len(U)
  PROVE  UnitAt(s, U, u)
<1> DEFINE c == U[u]
           fr == s[c.f]
<1>1. U \in Seq(UnitSet) /\ Len(U) \in Nat /\ LinkedAt(s, U, u)
  BY DEF Linked
<1>2. c \in UnitSet /\ c.f \in 1 .. Len(s)
  BY <1>1 DEF LinkedAt
<1>3. c.k \in Stages /\ c.len \in Nat
  BY <1>2, UnitFields
<1>4. fr \in FrameSet /\ FrameOk(fr)
  BY <1>2, StreamIs
<1>5. /\ LensOf(U)[u - 1] \in Nat /\ LensOf(U)[u] \in Nat
      /\ LensOf(U)[u] = LensOf(U)[u - 1] + c.len /\ LensOf(U)[u] <= LensOf(U)[Len(U)]
  <2>1. u - 1 \in 0 .. Len(U) /\ u \in 0 .. Len(U) /\ Len(U) \in u .. Len(U)
    BY <1>1
  <2> QED BY <2>1, <1>1, LensAre
<1>6. c.k = "header" => c.len = fr.hlen /\ c.len >= PrefixLen /\ c.len >= 1
  <2> SUFFICES ASSUME c.k = "header"
               PROVE  c.len = fr.hlen /\ c.len >= PrefixLen /\ c.len >= 1
    OBVIOUS
  <2>1. c.len = fr.hlen
    BY <1>1 DEF LinkedAt
  <2>2. fr.hlen >= PrefixLen
    BY <1>4 DEF FrameOk
  <2> QED BY <2>1, <2>2, <1>3, SizesAssumption
<1>7. c.k \in {"block", "checksum"} => c.len = 1
  BY <1>1 DEF LinkedAt, BlockHeaderLen, ChecksumLen
<1>8. c.k \in {"header", "block", "checksum"} => c.len >= 1
  BY <1>3, <1>6, <1>7
<1> QED BY <1>2, <1>3, <1>4, <1>5, <1>6, <1>8 DEF UnitAt

\* What every state's invariant says of its stream.
Here ==
    /\ stream \in Streams /\ Linked(stream, CurUnits) /\ CurUnits \in Seq(UnitSet)
    /\ Len(CurUnits) \in Nat /\ upos \in Nat /\ upos >= 1 /\ upos <= Len(CurUnits) + 1
    /\ LensTo[upos - 1] \in Nat /\ LensTo[Len(CurUnits)] \in Nat
    /\ StreamLen[stream] \in Int /\ StreamLen[stream] <= LensTo[Len(CurUnits)]
    /\ AtUnit => UnitAt(stream, CurUnits, upos) /\ upos \in 1 .. Len(CurUnits)

(* It holds.                                                               *)
LEMMA HereIs == ASSUME TypeInv PROVE Here
<1> DEFINE U == CurUnits
           N == Len(U)
<1>1. stream \in Streams /\ upos \in 1 .. N + 1
  BY DEF TypeInv
<1>2. Linked(stream, U)
  BY <1>1, UnitsAre DEF CurUnits
<1>3. U \in Seq(UnitSet) /\ N \in Nat
  BY <1>2 DEF Linked
<1>4. upos - 1 \in 0 .. N /\ N \in 0 .. N
  BY <1>1, <1>3
<1>5. LensOf(U)[upos - 1] \in Nat /\ LensOf(U)[N] \in Nat
  BY <1>3, <1>4, LensAre
<1>6. StreamLen[stream] \in Int /\ StreamLen[stream] <= LensOf(U)[N]
  <2>1. /\ stream[Len(stream)].cut => StreamLen[stream] = LensOf(U)[N] - 1
        /\ ~stream[Len(stream)].cut => StreamLen[stream] = LensOf(U)[N]
    BY <1>1, StreamLenIs DEF CurUnits
  <2> HIDE DEF U, N
  <2> QED BY <2>1, <1>5
<1>7. AtUnit => UnitAt(stream, U, upos) /\ upos \in 1 .. N
  <2> SUFFICES ASSUME AtUnit PROVE UnitAt(stream, U, upos) /\ upos \in 1 .. N
    OBVIOUS
  <2>1. upos \in 1 .. N
    BY <1>1, <1>3 DEF AtUnit
  <2> QED BY <2>1, <1>1, <1>2, UnitAtIs
<1> QED BY <1>1, <1>2, <1>3, <1>5, <1>6, <1>7 DEF Here, LensTo

(* The next unit stands in the stream's content.                           *)
LEMMA ContentPosMost ==
  ASSUME NEW s \in Streams, NEW U, Linked(s, U), NEW u \in 1 .. Len(U) + 1
  PROVE  ContentPos(s, U, u) \in Nat /\ ContentPos(s, U, u) <= Len(Content[s])
<1>1. Len(s) \in Nat /\ Len(U) \in Nat /\ Len(Content[s]) = SizesOf(s)[Len(s)]
  BY StreamIs, ContentOf DEF Linked
<1>2. \A f \in 0 .. Len(s) : SizesOf(s)[f] \in Nat /\ SizesOf(s)[f] <= Len(Content[s])
  BY <1>1, SizesAre
<1>3. CASE u > Len(U)
  <2>1. ContentPos(s, U, u) = SizesOf(s)[Len(s)] /\ Len(s) \in 0 .. Len(s)
    BY <1>1, <1>3 DEF ContentPos
  <2> QED BY <2>1, <1>2
<1>4. CASE ~(u > Len(U))
  <2>1. u \in 1 .. Len(U)
    BY <1>1, <1>4
  <2>2. U[u].f \in 1 .. Len(s)
    BY <2>1, UnitAtIs DEF UnitAt
  <2>3. U[u].f \in 0 .. Len(s) /\ U[u].f - 1 \in 0 .. Len(s)
    BY <2>2, <1>1
  <2>4. CASE U[u].k \in {"block", "content"}
    <3> DEFINE x == ContentPos(s, U, u)
               o == s[U[u].f].blocks[U[u].i].out
    <3>1. x = SizesOf(s)[U[u].f - 1] + Outs(s[U[u].f])[U[u].i - 1]
          /\ Outs(s[U[u].f])[U[u].i - 1] \in Nat /\ SizesOf(s)[U[u].f - 1] \in Nat
          /\ o \in Nat /\ x + o <= Len(Content[s])
      BY <2>1, <2>4, AtContent
    <3>2. x \in Nat
      BY <3>1
    <3>3. Len(Content[s]) \in Nat
      BY ContentOf
    <3> HIDE DEF x, o
    <3>4. x <= Len(Content[s])
      BY <3>1, <3>2, <3>3
    <3> QED BY <3>2, <3>4 DEF x
  <2>5. CASE U[u].k \notin {"block", "content"}
    <3>1. ContentPos(s, U, u) = SizesOf(s)[U[u].f] \/ ContentPos(s, U, u) = SizesOf(s)[U[u].f - 1]
      BY <1>4, <2>5 DEF ContentPos
    <3> QED BY <3>1, <2>3, <1>2
  <2> QED BY <2>4, <2>5
<1> QED BY <1>3, <1>4

(* Writing out n bytes of the buffer.                                      *)
LEMMA FlushIs ==
  ASSUME TypeInv, RingInv, DeliverInv, ~failed, NEW n \in Nat, n <= Pending, Flush(n)
  PROVE  /\ out' \in Seq(Int) /\ Len(out') = Len(out) + n
         /\ Len(out') <= Len(Content[stream])
         /\ \A p \in 1 .. Len(out') : out'[p] = Content[stream][p]
         /\ Len(out') + (Pending - n) = ContentAt
         /\ \A p \in 1 .. Pending - n :
               mem[(ring.flushed + n) + p - 1] = Content[stream][Len(out') + p]
<1> DEFINE C == Content[stream]
           a == ring.flushed
           P == Pending
           L == Len(out)
           x == [i \in 1 .. n |-> mem[ring.flushed + i - 1]]
<1>1. /\ L \in Nat /\ out \in Seq(Int) /\ L <= Len(C)
      /\ \A p \in 1 .. L : out[p] = C[p]
      /\ L + P = ContentAt /\ \A p \in 1 .. P : mem[a + p - 1] = C[L + p]
  BY DEF TypeInv, DeliverInv
<1>2. a \in Nat /\ P \in Nat /\ C \in Seq(Int) /\ Len(C) \in Nat /\ ContentAt <= Len(C)
  <2>1. ring \in RingSet /\ stream \in Streams /\ ring.flushed <= ring.end
        /\ upos \in 1 .. Len(CurUnits) + 1
    BY DEF TypeInv, RingInv
  <2>2. a \in Nat /\ P \in Nat
    BY <2>1, RingFields DEF Pending
  <2>3. C \in Seq(Int) /\ Len(C) \in Nat
    BY <2>1, ContentOf
  <2>4. Linked(stream, CurUnits)
    BY HereIs DEF Here
  <2> QED BY <2>1, <2>2, <2>3, <2>4, ContentPosMost DEF ContentAt
<1>3. out' = out \o x /\ n <= P
  BY DEF Flush
<1> HIDE DEF C, a, P, L
<1>4. \A p \in 1 .. n : x[p] = C[L + p] /\ C[L + p] \in Int
  <2> SUFFICES ASSUME NEW p \in 1 .. n PROVE x[p] = C[L + p] /\ C[L + p] \in Int
    OBVIOUS
  <2>1. p \in 1 .. P /\ L + p \in 1 .. Len(C)
    BY <1>1, <1>2, <1>3
  <2> QED BY <2>1, <1>1, <1>2 DEF a
<1>5. x \in Seq(Int) /\ Len(x) = n
  <2>1. \A p \in 1 .. n : mem[ring.flushed + p - 1] \in Int
    BY <1>4
  <2> QED BY <2>1
<1> HIDE DEF x
<1>6. /\ out' \in Seq(Int) /\ Len(out') = L + n
      /\ \A p \in 1 .. L : out'[p] = out[p]
      /\ \A p \in 1 .. n : out'[L + p] = x[p]
  <2>1. /\ out \o x \in Seq(Int) /\ Len(out \o x) = Len(out) + Len(x)
        /\ \A p \in 1 .. Len(out) : (out \o x)[p] = out[p]
        /\ \A p \in 1 .. Len(x) : (out \o x)[Len(out) + p] = x[p]
    <3> DEFINE Z == Int
    <3>1. out \in Seq(Z) /\ x \in Seq(Z)
      BY <1>1, <1>5
    <3> HIDE DEF Z
    <3>2. /\ out \o x \in Seq(Z) /\ Len(out \o x) = Len(out) + Len(x)
          /\ \A p \in 1 .. Len(out) : (out \o x)[p] = out[p]
          /\ \A p \in 1 .. Len(x) : (out \o x)[Len(out) + p] = x[p]
      BY <3>1, PutBefore
    <3> QED BY <3>2 DEF Z
  <2> QED BY <2>1, <1>3, <1>5 DEF L
<1>7. \A p \in 1 .. L + n : out'[p] = C[p]
  <2> SUFFICES ASSUME NEW p \in 1 .. L + n PROVE out'[p] = C[p]
    OBVIOUS
  <2>1. CASE p <= L
    BY <2>1, <1>1, <1>6
  <2>2. CASE p > L
    <3>1. p - L \in 1 .. n /\ L + (p - L) = p
      BY <2>2, <1>1
    <3> QED BY <3>1, <1>4, <1>6
  <2> QED BY <2>1, <2>2, <1>1
<1>8. ASSUME NEW p \in 1 .. P - n PROVE mem[(a + n) + p - 1] = C[(L + n) + p]
  <2>1. n + p \in 1 .. P /\ a + (n + p) - 1 = (a + n) + p - 1 /\ L + (n + p) = (L + n) + p
    BY <1>1, <1>2, <1>3
  <2> QED BY <2>1, <1>1
<1>9. L + n <= Len(C) /\ (L + n) + (P - n) = ContentAt
  BY <1>1, <1>2, <1>3
<1> QED BY <1>6, <1>7, <1>8, <1>9 DEF C, a, P, L

(* A failing step keeps the invariant, given what it reports.              *)
LEMMA FailKeeps ==
  ASSUME IInv, Fail, UNCHANGED <<input, left, room, out>>, TypeInv', ~frame_ended, ~frame_ended',
         ring'.flushed <= ring'.end, ring'.end <= ring'.len,
         FramesBehind' = FramesBehind, VerdictInv'
  PROVE  IInv'
<1>1. /\ failed' = TRUE /\ todo' = 0 /\ pc' = "idle" /\ result' = Err /\ zeros' = zeros
      /\ stream' = stream /\ given' = given /\ out' = out
  BY DEF Fail, Return, Err, input
<1>2. result'.k = "err"
  BY <1>1 DEF Err
<1>3. PlaceInv'
  BY <1>1, <1>2 DEF PlaceInv, UnitStages
<1>4. RestInv'
  BY <1>1 DEF RestInv
<1>5. BytesInv'
  BY <1>1 DEF IInv, BytesInv
<1>6. BatchInv'
  BY <1>1 DEF BatchInv
<1>7. RingInv'
  BY <1>1 DEF RingInv, InBlocks
<1>8. DeliverInv'
  BY <1>1 DEF IInv, DeliverInv
<1>9. ReportInv'
  BY <1>1, <1>2 DEF IInv, ReportInv
<1> QED BY <1>3, <1>4, <1>5, <1>6, <1>7, <1>8, <1>9 DEF IInv

-----------------------------------------------------------------------------
(* The steps that stay at their unit.                                      *)

(* Nothing about the unit changes.                                         *)
LEMMA Stays ==
  ASSUME stream' = stream, upos' = upos
  PROVE  /\ CurUnits' = CurUnits /\ Cur' = Cur /\ CurFrame' = CurFrame /\ CurBlock' = CurBlock
         /\ LensTo' = LensTo /\ AtUnit' = AtUnit /\ ContentAt' = ContentAt
         /\ FramesBehind' = FramesBehind /\ (VerdictInv /\ failed' = failed => VerdictInv')
<1>1. CurUnits' = CurUnits
  BY DEF CurUnits
<1>2. Cur' = Cur /\ LensTo' = LensTo /\ AtUnit' = AtUnit /\ ContentAt' = ContentAt
  BY <1>1 DEF Cur, LensTo, AtUnit, ContentAt
<1>3. CurFrame' = CurFrame
  BY <1>2 DEF CurFrame
<1>4. CurBlock' = CurBlock
  BY <1>2, <1>3 DEF CurBlock
<1>5. FramesBehind' = FramesBehind
  BY <1>1, <1>2 DEF FramesBehind
<1>6. VerdictInv /\ failed' = failed => VerdictInv'
  BY <1>1, <1>3 DEF VerdictInv
<1> QED BY <1>1, <1>2, <1>3, <1>4, <1>5, <1>6

(* The buffer is left alone, or only written out.                          *)
LEMMA RingStays ==
  ASSUME RingInv, stream' = stream, upos' = upos, failed' = failed, mem' = mem,
         stage'.k = stage.k, stage'.decoded = stage.decoded,
         ring'.len = ring.len, ring'.window = ring.window, ring'.full = ring.full,
         ring'.end = ring.end, ring'.ext_end = ring.ext_end, ring'.flushed <= ring.end,
         pc # "write", pc' # "write"
  PROVE  RingInv'
<1>1. Cur' = Cur /\ CurFrame' = CurFrame
  BY Stays
<1>2. Written' = 0 /\ Written = 0
  BY DEF Written
<1>3. ring'.flushed <= ring'.end /\ ring'.end <= ring'.len
  BY DEF RingInv
<1>4. InBlocks' = InBlocks
  BY DEF InBlocks
<1>5. ASSUME InBlocks'
      PROVE  /\ stage'.decoded = Outs(CurFrame')[Cur'.i - 1]
             /\ RingFor(ring', CurFrame', stage'.decoded)
             /\ HistoryOf(ring', mem', Cur'.f, stage'.decoded + 0, ring'.end + 0)
  <2>1. /\ stage.decoded = Outs(CurFrame)[Cur.i - 1]
        /\ RingFor(ring, CurFrame, stage.decoded)
        /\ HistoryOf(ring, mem, Cur.f, stage.decoded + 0, ring.end + 0)
    BY <1>2, <1>4, <1>5 DEF RingInv
  <2>2. RingFor(ring', CurFrame', stage'.decoded)
    BY <1>1, <2>1 DEF RingFor
  <2>3. HistoryOf(ring', mem', Cur'.f, stage'.decoded + 0, ring'.end + 0)
    BY <1>1, <2>1 DEF HistoryOf
  <2> QED BY <1>1, <2>1, <2>2, <2>3
<1> QED BY <1>2, <1>3, <1>5 DEF RingInv

(* A call begins.                                                          *)
LEMMA CallKeeps ==
  ASSUME IInv, NEW g \in Gives, NEW r \in Rooms, Call(g, r)
  PROVE  IInv'
<1> DEFINE n == Least(g, StreamLen[stream] - given)
<1>1. /\ pc = "idle" /\ ~failed /\ given' = given + n /\ left' = left + n /\ room' = r
      /\ pc' = "top" /\ result' = [k |-> "none", n |-> 0]
  BY DEF Call
<1>2. /\ stream' = stream /\ upos' = upos /\ out' = out /\ dict' = dict /\ batches' = batches
      /\ stage' = stage /\ unit' = unit /\ ring' = ring /\ mem' = mem
      /\ frame_ended' = frame_ended /\ failed' = failed /\ todo' = todo /\ blk' = blk
      /\ zeros' = zeros
  BY DEF Call
<1>3. n \in Nat /\ n <= StreamLen[stream] - given /\ r \in Nat
  <2>1. given \in Nat /\ StreamLen[stream] \in Int /\ given <= StreamLen[stream]
    BY HereIs DEF IInv, TypeInv, BytesInv, Here
  <2>2. g \in Nat /\ r \in Nat
    BY SizesAssumption
  <2> QED BY <2>1, <2>2 DEF Least
<1> HIDE DEF n
<1>4. /\ CurUnits' = CurUnits /\ Cur' = Cur /\ CurFrame' = CurFrame
      /\ LensTo' = LensTo /\ AtUnit' = AtUnit /\ ContentAt' = ContentAt
      /\ FramesBehind' = FramesBehind
  BY <1>2, Stays
<1>5. result'.k = "none" /\ result' \in [k: {"none", "hint", "zero", "err"}, n: Int]
  BY <1>1
<1>6. TypeInv'
  <2>1. left' \in Nat /\ given' \in Nat
    BY <1>1, <1>3 DEF IInv, TypeInv
  <2> QED BY <2>1, <1>1, <1>2, <1>3, <1>4, <1>5 DEF IInv, TypeInv, Places
<1>7. PlaceInv'
  BY <1>1, <1>2, <1>4, <1>5 DEF IInv, PlaceInv, UnitStages
<1>8. RestInv'
  BY <1>1, <1>2, <1>4 DEF IInv, RestInv
<1>9. BytesInv'
  <2> DEFINE e == LensTo[upos - 1] + unit + (IF stage.k = "skip" THEN Cur.len - stage.left ELSE 0)
  <2>1. given <= StreamLen[stream] /\ given - left = e
    BY <1>1 DEF IInv, BytesInv
  <2>2. given \in Nat /\ left \in Nat /\ StreamLen[stream] \in Int
    BY HereIs DEF IInv, TypeInv, Here
  <2>3. given' - left' = e /\ given' <= StreamLen[stream]
    <3> HIDE DEF e
    <3> QED BY <2>1, <2>2, <1>1, <1>3
  <2> QED BY <2>3, <1>1, <1>2, <1>4 DEF BytesInv
<1>10. BatchInv'
  BY <1>1 DEF BatchInv
<1>11. RingInv'
  <2>1. ring.flushed <= ring.end
    BY DEF IInv, RingInv
  <2> QED BY <2>1, <1>1, <1>2, RingStays DEF IInv
<1>12. DeliverInv'
  <2>1. Pending' = Pending
    BY <1>2 DEF Pending
  <2> QED BY <2>1, <1>1, <1>2, <1>4 DEF IInv, DeliverInv, UnitStages
<1>13. ReportInv'
  BY <1>2, <1>4, <1>5 DEF IInv, ReportInv
<1>14. VerdictInv'
  BY <1>2, Stays DEF IInv
<1> QED BY <1>6, <1>7, <1>8, <1>9, <1>10, <1>11, <1>12, <1>13, <1>14 DEF IInv

(* A call after an error.                                                  *)
LEMMA CallFailedKeeps ==
  ASSUME IInv, CallFailed
  PROVE  IInv'
<1>1. /\ pc = "idle" /\ failed /\ result' = Err /\ pc' = pc
      /\ stream' = stream /\ upos' = upos /\ out' = out /\ dict' = dict /\ batches' = batches
      /\ stage' = stage /\ unit' = unit /\ ring' = ring /\ mem' = mem /\ left' = left
      /\ frame_ended' = frame_ended /\ failed' = failed /\ todo' = todo /\ blk' = blk
      /\ zeros' = zeros /\ given' = given /\ room' = room
  BY DEF CallFailed
<1>2. /\ CurUnits' = CurUnits /\ Cur' = Cur /\ CurFrame' = CurFrame
      /\ LensTo' = LensTo /\ AtUnit' = AtUnit /\ ContentAt' = ContentAt
      /\ FramesBehind' = FramesBehind /\ VerdictInv'
  BY <1>1, Stays DEF IInv
<1>3. result'.k = "err" /\ result' \in [k: {"none", "hint", "zero", "err"}, n: Int]
  BY <1>1 DEF Err
<1>4. TypeInv'
  BY <1>1, <1>2, <1>3 DEF IInv, TypeInv
<1>5. PlaceInv' /\ RestInv' /\ BatchInv'
  BY <1>1, <1>2, <1>3 DEF IInv, PlaceInv, RestInv, BatchInv
<1>6. BytesInv'
  BY <1>1, <1>2 DEF IInv, BytesInv
<1>7. RingInv'
  <2>1. ring.flushed <= ring.end
    BY DEF IInv, RingInv
  <2> QED BY <2>1, <1>1, RingStays DEF IInv
<1>8. DeliverInv'
  BY <1>1, <1>2 DEF IInv, DeliverInv
<1>9. ReportInv'
  BY <1>1, <1>2, <1>3 DEF IInv, ReportInv
<1> QED BY <1>2, <1>4, <1>5, <1>6, <1>7, <1>8, <1>9 DEF IInv

(* The stage before a header.                                              *)
LEMMA AtHeaderIs ==
  /\ AtHeader \in StageSet /\ AtHeader.k = "header" /\ AtHeader.left = 0 /\ AtHeader.decoded = 0
BY DEF AtHeader, StageSet, Stages

(* The start of a stream.                                                  *)
LEMMA FirstUnit ==
  ASSUME NEW s \in Streams
  PROVE  /\ Len(Units[s]) \in Nat /\ Len(Units[s]) >= 1 /\ Units[s][1].k = "header"
         /\ Units[s][1].len >= 1 /\ Units[s][1].len \in Nat /\ ContentPos(s, Units[s], 1) = 0 /\ Units[s][1].f = 1
         /\ LensOf(Units[s])[1 - 1] = 0 /\ StreamLen[s] >= 0
         /\ \A i \in BadUnits[s] : 1 <= i
<1> DEFINE U == Units[s]
<1>1. Linked(s, U)
  BY UnitsAre
<1>2. U \in Seq(UnitSet) /\ Len(U) \in Nat /\ Len(U) >= 1 /\ U[1] = Unit("header", s[1].hlen, 1, 0)
  BY <1>1 DEF Linked
<1>3. U[1].k = "header" /\ U[1].f = 1
  BY <1>2 DEF Unit
<1>4. 1 \in 1 .. Len(U) /\ 1 - 1 = 0 /\ ~(1 > Len(U))
  BY <1>2
<1>5. UnitAt(s, U, 1)
  BY <1>1, <1>4, UnitAtIs
<1>6. LensOf(U)[0] = 0
  BY <1>2, LensAre
<1>7. StreamLen[s] >= 0
  <2> DEFINE x == LensOf(U)[1]
             y == LensOf(U)[Len(U)]
  <2>1. x = LensOf(U)[1 - 1] + U[1].len /\ x <= y /\ U[1].len >= 1 /\ U[1].len \in Nat
    BY <1>3, <1>5 DEF UnitAt
  <2>2. x >= 1 /\ x \in Nat
    BY <2>1, <1>4, <1>6
  <2>3. y \in Nat
    <3>1. Len(U) \in 0 .. Len(U)
      BY <1>2
    <3> QED BY <3>1, <1>2, LensAre
  <2>4. StreamLen[s] = y \/ StreamLen[s] = y - 1
    BY StreamLenIs
  <2> HIDE DEF x, y
  <2> QED BY <2>1, <2>2, <2>3, <2>4
<1>8. ContentPos(s, U, 1) = SizesOf(s)[1 - 1]
  BY <1>3, <1>4 DEF ContentPos
<1>9. SizesOf(s)[0] = 0
  BY SizesAre
<1>10. \A i \in BadUnits[s] : 1 <= i
  <2>1. DOMAIN U = 1 .. Len(U)
    BY <1>2
  <2>2. BadUnits[s] \subseteq DOMAIN U
    BY DEF BadUnits
  <2> QED BY <2>1, <2>2, <1>2
<1> QED BY <1>2, <1>3, <1>4, <1>5, <1>6, <1>7, <1>8, <1>9, <1>10 DEF UnitAt

(* A reset starts over with a stream.                                      *)
LEMMA ResetKeeps ==
  ASSUME IInv, NEW s \in Streams, NEW d \in BOOLEAN, Reset(s, d)
  PROVE  IInv'
<1> DEFINE U == Units[s]
<1>1. /\ pc = "idle" /\ stage' = AtHeader /\ unit' = 0 /\ ring' = Dropped(ring)
      /\ frame_ended' = FALSE /\ failed' = FALSE /\ stream' = s /\ dict' = d
      /\ upos' = 1 /\ left' = 0 /\ given' = 0 /\ out' = <<>> /\ zeros' = 0
      /\ result' = [k |-> "none", n |-> 0]
      /\ room' = room /\ mem' = mem /\ todo' = todo /\ blk' = blk /\ pc' = pc
  BY DEF Reset
<1>2. /\ Len(U) \in Nat /\ Len(U) >= 1 /\ U[1].k = "header"
      /\ U[1].len >= 1 /\ U[1].len \in Nat /\ ContentPos(s, U, 1) = 0 /\ U[1].f = 1
      /\ LensOf(U)[1 - 1] = 0 /\ StreamLen[s] >= 0
      /\ \A i \in BadUnits[s] : 1 <= i
  BY FirstUnit
<1>3. CurUnits' = U
  BY <1>1 DEF CurUnits
<1> HIDE DEF U
<1>4. Cur' = U[1] /\ AtUnit' /\ LensTo' = LensOf(U) /\ ContentAt' = 0 /\ FramesBehind' = 0
  <2>1. Cur' = U[1] /\ LensTo' = LensOf(U)
    BY <1>1, <1>3 DEF Cur, LensTo
  <2>2. AtUnit'
    BY <1>1, <1>2, <1>3 DEF AtUnit
  <2>3. ContentAt' = 0
    BY <1>1, <1>2, <1>3 DEF ContentAt
  <2>4. FramesBehind' = 0
    BY <1>1, <1>2, <1>3, <2>1 DEF FramesBehind
  <2> QED BY <2>1, <2>2, <2>3, <2>4
<1>5. stage' \in StageSet /\ stage'.k = "header"
  BY <1>1, AtHeaderIs
<1>6. result'.k = "none" /\ result' \in [k: {"none", "hint", "zero", "err"}, n: Int]
  BY <1>1
<1>7. ring' \in RingSet /\ ring'.len = ring.len /\ ring'.end = ring.end /\ ring'.flushed = ring.end
      /\ ring.end \in Nat /\ ring.len \in Nat
  <2>1. ring \in RingSet
    BY DEF IInv, TypeInv
  <2>2. ring' = [ring EXCEPT !.flushed = ring.end]
    BY <1>1 DEF Dropped
  <2>3. ring.end \in Nat /\ ring.len \in Nat
    BY <2>1, RingFields
  <2> QED BY <2>1, <2>2, <2>3 DEF RingSet
<1>8. TypeInv'
  <2>1. mem' \in [0 .. ring'.len - 1 -> Int] /\ blk' \in BlkSet /\ pc' \in Places
        /\ room' \in Nat /\ todo' \in Nat
    BY <1>1, <1>7 DEF IInv, TypeInv
  <2>2. upos' \in 1 .. Len(CurUnits') + 1
    BY <1>1, <1>2, <1>3
  <2>3. out' \in Seq(Int) /\ left' \in Nat /\ given' \in Nat /\ unit' \in Nat /\ zeros' \in Nat
    BY <1>1
  <2>4. dict' \in BOOLEAN /\ frame_ended' \in BOOLEAN /\ failed' \in BOOLEAN /\ stream' \in Streams
    BY <1>1
  <2> QED BY <2>1, <2>2, <2>3, <2>4, <1>5, <1>6, <1>7 DEF TypeInv
<1>9. todo' = 0
  BY <1>1 DEF IInv, PlaceInv
<1>10. PlaceInv'
  BY <1>1, <1>2, <1>4, <1>5, <1>9 DEF PlaceInv, UnitStages
<1>11. RestInv'
  BY <1>1, <1>2, <1>4, <1>5 DEF RestInv
<1>12. BytesInv'
  BY <1>1, <1>2, <1>4, <1>5 DEF BytesInv
<1>13. BatchInv'
  BY <1>1 DEF BatchInv
<1>14. RingInv'
  <2>1. ring'.flushed <= ring'.end /\ ring'.end <= ring'.len
    BY <1>7 DEF IInv, RingInv
  <2>2. ~InBlocks' /\ pc' # "write"
    BY <1>1, <1>5 DEF InBlocks
  <2> QED BY <2>1, <2>2 DEF RingInv
<1>15. DeliverInv'
  <2>1. Pending' = 0
    BY <1>7 DEF Pending
  <2>2. Len(out') = 0 /\ Len(Content[stream']) \in Nat
    BY <1>1, ContentOf
  <2> QED BY <2>1, <2>2, <1>4 DEF DeliverInv
<1>16. ReportInv'
  BY <1>1, <1>4, <1>6 DEF ReportInv
<1>17. VerdictInv'
  BY <1>1, <1>2 DEF VerdictInv
<1> QED BY <1>8, <1>10, <1>11, <1>12, <1>13, <1>14, <1>15, <1>16, <1>17 DEF IInv

(* The invariant holds at the start.                                       *)
LEMMA InitIInv == ASSUME Init PROVE IInv
<1> DEFINE s == stream
           U == Units[s]
<1>1. /\ stage = AtHeader /\ unit = 0
      /\ ring = [len |-> 0, window |-> 0, full |-> 0, end |-> 0, ext_end |-> 0, flushed |-> 0]
      /\ frame_ended = FALSE /\ failed = FALSE /\ stream \in Streams /\ dict \in BOOLEAN
      /\ upos = 1 /\ left = 0 /\ given = 0 /\ out = <<>> /\ zeros = 0
      /\ result = [k |-> "none", n |-> 0]
      /\ room = 0 /\ mem = [p \in {} |-> Junk] /\ todo = 0 /\ blk = NoBlk /\ pc = "idle"
  BY DEF Init
<1>2. /\ Len(U) \in Nat /\ Len(U) >= 1 /\ U[1].k = "header"
      /\ U[1].len >= 1 /\ U[1].len \in Nat /\ ContentPos(s, U, 1) = 0 /\ U[1].f = 1
      /\ LensOf(U)[1 - 1] = 0 /\ StreamLen[s] >= 0
      /\ \A i \in BadUnits[s] : 1 <= i
  BY <1>1, FirstUnit
<1>3. CurUnits = U
  BY DEF CurUnits
<1> HIDE DEF U
<1>4. Cur = U[1] /\ AtUnit /\ LensTo = LensOf(U) /\ ContentAt = 0 /\ FramesBehind = 0
  <2>1. Cur = U[1] /\ LensTo = LensOf(U)
    BY <1>1, <1>3 DEF Cur, LensTo
  <2>2. AtUnit
    BY <1>1, <1>2, <1>3 DEF AtUnit
  <2>3. ContentAt = 0
    BY <1>1, <1>2, <1>3 DEF ContentAt
  <2>4. FramesBehind = 0
    BY <1>1, <1>2, <1>3, <2>1 DEF FramesBehind
  <2> QED BY <2>1, <2>2, <2>3, <2>4
<1>5. stage \in StageSet /\ stage.k = "header"
  BY <1>1, AtHeaderIs
<1>6. result.k = "none" /\ result \in [k: {"none", "hint", "zero", "err"}, n: Int]
  BY <1>1
<1>7. ring \in RingSet /\ ring.len = 0 /\ ring.end = 0 /\ ring.flushed = 0
  BY <1>1 DEF RingSet
<1>8. TypeInv
  <2>1. mem \in [0 .. ring.len - 1 -> Int]
    <3>1. 0 .. ring.len - 1 = {}
      BY <1>7
    <3> QED BY <3>1, <1>1
  <2>2. blk \in BlkSet
    BY <1>1 DEF NoBlk, BlkSet
  <2>3. upos \in 1 .. Len(CurUnits) + 1
    BY <1>1, <1>2, <1>3
  <2>4. out \in Seq(Int) /\ left \in Nat /\ given \in Nat /\ unit \in Nat /\ zeros \in Nat
        /\ room \in Nat /\ todo \in Nat
    BY <1>1
  <2>5. dict \in BOOLEAN /\ frame_ended \in BOOLEAN /\ failed \in BOOLEAN /\ stream \in Streams
        /\ pc \in Places
    BY <1>1 DEF Places
  <2> QED BY <2>1, <2>2, <2>3, <2>4, <2>5, <1>5, <1>6, <1>7 DEF TypeInv
<1>9. PlaceInv
  BY <1>1, <1>2, <1>4, <1>5 DEF PlaceInv, UnitStages
<1>10. RestInv
  BY <1>1, <1>2, <1>4, <1>5 DEF RestInv
<1>11. BytesInv
  BY <1>1, <1>2, <1>4, <1>5 DEF BytesInv
<1>12. BatchInv
  BY <1>1 DEF BatchInv
<1>13. RingInv
  <2>1. ~InBlocks /\ pc # "write"
    BY <1>1, <1>5 DEF InBlocks
  <2> QED BY <2>1, <1>7 DEF RingInv
<1>14. DeliverInv
  <2>1. Pending = 0
    BY <1>7 DEF Pending
  <2>2. Len(out) = 0 /\ Len(Content[stream]) \in Nat
    BY <1>1, ContentOf
  <2> QED BY <2>1, <2>2, <1>4 DEF DeliverInv
<1>15. ReportInv
  BY <1>1, <1>4, <1>6 DEF ReportInv
<1>16. VerdictInv
  BY <1>1, <1>2 DEF VerdictInv
<1> QED BY <1>8, <1>9, <1>10, <1>11, <1>12, <1>13, <1>14, <1>15, <1>16 DEF IInv

\* o and then what buffer r, holding m, has left to write out are the
\* content of s up to position at.
Holds(s, o, r, m, at) ==
    /\ o \in Seq(Int) /\ Len(o) <= Len(Content[s])
    /\ \A p \in 1 .. Len(o) : o[p] = Content[s][p]
    /\ Len(o) + (r.end - r.flushed) = at
    /\ \A p \in 1 .. r.end - r.flushed : m[r.flushed + p - 1] = Content[s][Len(o) + p]

\* r is buffer q with bytes of it written out.
WrittenOut(r, q) ==
    /\ r \in RingSet /\ r.len = q.len /\ r.window = q.window /\ r.full = q.full
    /\ r.end = q.end /\ r.ext_end = q.ext_end /\ r.flushed <= q.end

(* The buffer written out.                                                 *)
LEMMA Flushed ==
  ASSUME TypeInv, RingInv, DeliverInv, ~failed, NEW n, n = FlushLen, Flush(n),
         NEW r, r = [ring EXCEPT !.flushed = @ + n]
  PROVE  /\ n \in Nat /\ n <= Pending /\ Pending \in Nat /\ room' \in Nat
         /\ WrittenOut(r, ring) /\ r.end - r.flushed = Pending - n
         /\ Holds(stream, out', r, mem, ContentAt)
<1>1. ring \in RingSet /\ room \in Nat /\ ring.flushed <= ring.end
  BY DEF TypeInv, RingInv
<1>2. ring.end \in Nat /\ ring.flushed \in Nat /\ Pending \in Nat
  BY <1>1, RingFields DEF Pending
<1>3. n \in Nat /\ n <= Pending /\ n <= room
  BY <1>1, <1>2 DEF FlushLen, Least
<1>4. room' \in Nat
  BY <1>1, <1>3 DEF Flush
<1>5. /\ r \in RingSet /\ r.len = ring.len /\ r.window = ring.window /\ r.full = ring.full
      /\ r.end = ring.end /\ r.ext_end = ring.ext_end /\ r.flushed = ring.flushed + n
  <2>1. ring.flushed + n \in Nat
    BY <1>2, <1>3
  <2> QED BY <2>1, <1>1 DEF RingSet
<1>6. r.flushed <= ring.end /\ r.end - r.flushed = Pending - n
  BY <1>2, <1>3, <1>5 DEF Pending
<1>7. /\ out' \in Seq(Int) /\ Len(out') <= Len(Content[stream])
      /\ \A p \in 1 .. Len(out') : out'[p] = Content[stream][p]
      /\ Len(out') + (Pending - n) = ContentAt
      /\ \A p \in 1 .. Pending - n :
            mem[(ring.flushed + n) + p - 1] = Content[stream][Len(out') + p]
  BY <1>3, FlushIs
<1>8. Holds(stream, out', r, mem, ContentAt)
  BY <1>5, <1>6, <1>7 DEF Holds
<1> QED BY <1>2, <1>3, <1>4, <1>5, <1>6, <1>8 DEF WrittenOut

(* What is written out and in the buffer is the content.                   *)
LEMMA HoldsDelivers ==
  ASSUME Holds(stream, out, ring, mem, ContentAt)', 
         (~failed /\ (\/ stage.k \in {"content", "skip"}
                      \/ pc \in {"unit", "write"} \union UnitStages
                      \/ stage.k = "header" /\ ~frame_ended) => Pending = 0)'
  PROVE  DeliverInv'
BY DEF Holds, DeliverInv, Pending

(* The top of the loop returns what it could not write out.                *)
LEMMA TopFull ==
  ASSUME IInv, pc = "top", NEW n, n = FlushLen, Flush(n), n < Pending,
         ring' = [ring EXCEPT !.flushed = @ + n],
         Return(Hinted(IF frame_ended THEN 1 ELSE Hint)),
         UNCHANGED <<upos, left, stage, frame_ended>>,
         UNCHANGED <<input, unit, mem, failed, todo, blk>>
  PROVE  IInv'
<1> DEFINE h == IF frame_ended THEN 1 ELSE Hint
<1>1. /\ pc' = "idle" /\ result' = Hinted(h) /\ zeros' = zeros
      /\ stream' = stream /\ given' = given /\ dict' = dict /\ upos' = upos /\ left' = left
      /\ stage' = stage /\ frame_ended' = frame_ended /\ unit' = unit /\ mem' = mem
      /\ failed' = failed /\ todo' = todo /\ blk' = blk
  BY DEF Return, Hinted, input
<1>2. ~failed
  BY DEF IInv, PlaceInv
<1>3. /\ n \in Nat /\ Pending \in Nat /\ room' \in Nat /\ WrittenOut(ring', ring)
      /\ Holds(stream, out', ring', mem, ContentAt)
  BY <1>2, Flushed DEF IInv
<1>4. /\ CurUnits' = CurUnits /\ Cur' = Cur /\ CurFrame' = CurFrame
      /\ LensTo' = LensTo /\ AtUnit' = AtUnit /\ ContentAt' = ContentAt
      /\ FramesBehind' = FramesBehind
  BY <1>1, Stays
<1>5. stage.k # "skip" /\ stage.k # "content" /\ (stage.k = "header" => frame_ended)
  <2>1. Pending # 0
    BY <1>3
  <2> QED BY <2>1, <1>2 DEF IInv, DeliverInv
<1>6. ~frame_ended => AtUnit
  BY <1>2, <1>5 DEF IInv, PlaceInv
<1>7. AtUnit => Cur.k = stage.k /\ Cur.len \in Nat /\ Cur.len >= 1 /\ unit < Cur.len
  <2> SUFFICES ASSUME AtUnit
               PROVE  Cur.k = stage.k /\ Cur.len \in Nat /\ Cur.len >= 1 /\ unit < Cur.len
    OBVIOUS
  <2>1. Cur.k = stage.k
    BY <1>2 DEF IInv, PlaceInv
  <2>2. UnitAt(stream, CurUnits, upos)
    BY HereIs DEF Here, IInv
  <2>3. Cur.k \in Stages /\ Cur.len \in Nat /\ (Cur.k \in {"header", "block", "checksum"} => Cur.len >= 1)
    BY <2>2 DEF UnitAt, Cur
  <2>4. Cur.len >= 1
    BY <2>1, <2>3, <1>5 DEF Stages
  <2>5. unit < Cur.len
    BY <1>2, <1>5, <2>3, <2>4 DEF IInv, RestInv
  <2> QED BY <2>1, <2>3, <2>4, <2>5
<1>8. ASSUME ~frame_ended PROVE h \in Nat /\ h >= 1 /\ h <= Cur.len - unit
  <2>1. h = Most(UnitLen(unit) - unit, 1)
    BY <1>8 DEF Hint
  <2>2. Cur.len \in Nat /\ unit \in Nat /\ unit < Cur.len
    BY <1>6, <1>7, <1>8 DEF IInv, TypeInv
  <2>3. UnitLen(unit) = Cur.len
    BY <1>5, <1>8 DEF UnitLen
  <2> QED BY <2>1, <2>2, <2>3 DEF Most
<1>9. h \in Int /\ h >= 1
  BY <1>8
<1> HIDE DEF h
<1>10. /\ result'.k = "hint" /\ result'.n = h
       /\ result' \in [k: {"none", "hint", "zero", "err"}, n: Int]
  BY <1>1, <1>9 DEF Hinted
<1>11. TypeInv'
  <2>1. ring' \in RingSet /\ ring'.len = ring.len /\ out' \in Seq(Int)
    BY <1>3 DEF WrittenOut, Holds
  <2> QED BY <2>1, <1>1, <1>3, <1>4, <1>10 DEF IInv, TypeInv, Places
<1>12. PlaceInv'
  BY <1>1, <1>2, <1>4 DEF IInv, PlaceInv, UnitStages
<1>13. RestInv'
  BY <1>1, <1>4, <1>5, <1>7 DEF IInv, RestInv
<1>14. BytesInv'
  BY <1>1, <1>4 DEF IInv, BytesInv
<1>15. BatchInv'
  BY <1>1 DEF BatchInv
<1>16. RingInv'
  BY <1>1, <1>3, RingStays DEF IInv, WrittenOut
<1>17. DeliverInv'
  <2>1. Holds(stream, out, ring, mem, ContentAt)'
    BY <1>1, <1>3, <1>4
  <2>2. ~(\/ stage.k \in {"content", "skip"}
          \/ pc \in {"unit", "write"} \union UnitStages
          \/ stage.k = "header" /\ ~frame_ended)'
    BY <1>1, <1>5 DEF UnitStages
  <2> QED BY <2>1, <2>2, HoldsDelivers
<1>18. ReportInv'
  BY <1>1, <1>2, <1>4, <1>5, <1>6, <1>8, <1>9, <1>10 DEF IInv, ReportInv
<1>19. VerdictInv'
  BY <1>1, Stays DEF IInv
<1> QED BY <1>11, <1>12, <1>13, <1>14, <1>15, <1>16, <1>17, <1>18, <1>19 DEF IInv

(* It reports a frame's end.                                               *)
LEMMA TopEnd ==
  ASSUME IInv, pc = "top", NEW n, n = FlushLen, Flush(n), n = Pending, frame_ended,
         ring' = [ring EXCEPT !.flushed = @ + n], frame_ended' = FALSE, Return(Zero),
         UNCHANGED <<upos, left, stage>>,
         UNCHANGED <<input, unit, mem, failed, todo, blk>>
  PROVE  IInv'
<1>1. /\ pc' = "idle" /\ result' = Zero /\ zeros' = zeros + 1
      /\ stream' = stream /\ given' = given /\ dict' = dict /\ upos' = upos /\ left' = left
      /\ stage' = stage /\ unit' = unit /\ mem' = mem
      /\ failed' = failed /\ todo' = todo /\ blk' = blk
  BY DEF Return, Zero, input
<1>2. ~failed /\ stage.k = "header" /\ unit = 0
  BY DEF IInv, PlaceInv
<1>3. /\ n \in Nat /\ Pending \in Nat /\ room' \in Nat /\ WrittenOut(ring', ring)
      /\ Holds(stream, out', ring', mem, ContentAt) /\ ring'.end - ring'.flushed = Pending - n
  BY <1>2, Flushed DEF IInv
<1>4. /\ CurUnits' = CurUnits /\ Cur' = Cur /\ CurFrame' = CurFrame
      /\ LensTo' = LensTo /\ AtUnit' = AtUnit /\ ContentAt' = ContentAt
      /\ FramesBehind' = FramesBehind
  BY <1>1, Stays
<1>5. /\ result'.k = "zero" /\ result' \in [k: {"none", "hint", "zero", "err"}, n: Int]
  BY <1>1 DEF Zero
<1>6. AtUnit => Cur.len \in Nat /\ Cur.len >= 1
  <2> SUFFICES ASSUME AtUnit PROVE Cur.len \in Nat /\ Cur.len >= 1
    OBVIOUS
  <2>1. UnitAt(stream, CurUnits, upos) /\ Cur.k = "header"
    BY <1>2, HereIs DEF Here, IInv, PlaceInv
  <2> QED BY <2>1 DEF UnitAt, Cur
<1>7. TypeInv'
  <2>1. ring' \in RingSet /\ ring'.len = ring.len /\ out' \in Seq(Int)
    BY <1>3 DEF WrittenOut, Holds
  <2>2. zeros' \in Nat
    BY <1>1 DEF IInv, TypeInv
  <2> QED BY <2>1, <2>2, <1>1, <1>3, <1>4, <1>5 DEF IInv, TypeInv, Places
<1>8. PlaceInv'
  BY <1>1, <1>2, <1>4 DEF IInv, PlaceInv, UnitStages
<1>9. RestInv'
  BY <1>1, <1>2, <1>4, <1>6 DEF IInv, RestInv
<1>10. BytesInv'
  BY <1>1, <1>4 DEF IInv, BytesInv
<1>11. BatchInv'
  BY <1>1 DEF BatchInv
<1>12. RingInv'
  BY <1>1, <1>3, RingStays DEF IInv, WrittenOut
<1>13. DeliverInv'
  <2>1. Holds(stream, out, ring, mem, ContentAt)'
    BY <1>1, <1>3, <1>4
  <2>2. Pending' = 0
    BY <1>3 DEF Pending
  <2> QED BY <2>1, <2>2, HoldsDelivers
<1>14. ReportInv'
  <2>1. zeros + 1 = FramesBehind /\ zeros \in Nat
    BY DEF IInv, ReportInv, TypeInv
  <2> QED BY <2>1, <1>1, <1>2, <1>4, <1>5 DEF ReportInv
<1>15. VerdictInv'
  BY <1>1, Stays DEF IInv
<1> QED BY <1>7, <1>8, <1>9, <1>10, <1>11, <1>12, <1>13, <1>14, <1>15 DEF IInv

(* It goes on to the next unit.                                            *)
LEMMA TopOn ==
  ASSUME IInv, pc = "top", NEW n, n = FlushLen, Flush(n), n = Pending, ~frame_ended,
         stage.k # "skip", ring' = [ring EXCEPT !.flushed = @ + n], pc' = "unit",
         UNCHANGED <<upos, left, stage, frame_ended, result, zeros>>,
         UNCHANGED <<input, unit, mem, failed, todo, blk>>
  PROVE  IInv'
<1>1. /\ zeros' = zeros /\ result' = result
      /\ stream' = stream /\ given' = given /\ dict' = dict /\ upos' = upos /\ left' = left
      /\ stage' = stage /\ unit' = unit /\ mem' = mem /\ frame_ended' = frame_ended
      /\ failed' = failed /\ todo' = todo /\ blk' = blk
  BY DEF input
<1>2. ~failed
  BY DEF IInv, PlaceInv
<1>3. /\ n \in Nat /\ Pending \in Nat /\ room' \in Nat /\ WrittenOut(ring', ring)
      /\ Holds(stream, out', ring', mem, ContentAt) /\ ring'.end - ring'.flushed = Pending - n
  BY <1>2, Flushed DEF IInv
<1>4. /\ CurUnits' = CurUnits /\ Cur' = Cur /\ CurFrame' = CurFrame
      /\ LensTo' = LensTo /\ AtUnit' = AtUnit /\ ContentAt' = ContentAt
      /\ FramesBehind' = FramesBehind
  BY <1>1, Stays
<1>5. TypeInv'
  <2>1. ring' \in RingSet /\ ring'.len = ring.len /\ out' \in Seq(Int)
    BY <1>3 DEF WrittenOut, Holds
  <2> QED BY <2>1, <1>1, <1>3, <1>4 DEF IInv, TypeInv, Places
<1>6. PlaceInv'
  BY <1>1, <1>2, <1>4 DEF IInv, PlaceInv, UnitStages
<1>7. RestInv'
  BY <1>1, <1>2, <1>4 DEF IInv, RestInv
<1>8. BytesInv'
  BY <1>1, <1>4 DEF IInv, BytesInv
<1>9. BatchInv'
  BY DEF BatchInv
<1>10. RingInv'
  BY <1>1, <1>3, RingStays DEF IInv, WrittenOut
<1>11. DeliverInv'
  <2>1. Holds(stream, out, ring, mem, ContentAt)'
    BY <1>1, <1>3, <1>4
  <2>2. Pending' = 0
    BY <1>3 DEF Pending
  <2> QED BY <2>1, <2>2, HoldsDelivers
<1>12. ReportInv'
  BY <1>1, <1>2, <1>4 DEF IInv, ReportInv
<1>13. VerdictInv'
  BY <1>1, Stays DEF IInv
<1> QED BY <1>5, <1>6, <1>7, <1>8, <1>9, <1>10, <1>11, <1>12, <1>13 DEF IInv

(* It skips what the input has of a skippable frame.                       *)
LEMMA TopSkips ==
  ASSUME IInv, pc = "top", NEW n, n = FlushLen, Flush(n), n = Pending, ~frame_ended,
         stage.k = "skip", ring' = [ring EXCEPT !.flushed = @ + n],
         NEW t, t = Least(stage.left, left), t # stage.left, left' = left - t,
         stage' = [stage EXCEPT !.left = @ - t], Return(Hinted(stage.left - t)),
         UNCHANGED <<upos, frame_ended>>, UNCHANGED <<input, unit, mem, failed, todo, blk>>
  PROVE  IInv'
<1> DEFINE h == stage.left - t
<1>1. /\ zeros' = zeros /\ result' = Hinted(h) /\ pc' = "idle"
      /\ stream' = stream /\ given' = given /\ dict' = dict /\ upos' = upos
      /\ unit' = unit /\ mem' = mem /\ frame_ended' = frame_ended
      /\ failed' = failed /\ todo' = todo /\ blk' = blk
  BY DEF Return, Hinted, input
<1>2. ~failed /\ unit = 0 /\ AtUnit /\ Cur.k = "skip" /\ stage.left <= Cur.len
  BY DEF IInv, PlaceInv
<1>3. /\ n \in Nat /\ Pending \in Nat /\ room' \in Nat /\ WrittenOut(ring', ring)
      /\ Holds(stream, out', ring', mem, ContentAt) /\ ring'.end - ring'.flushed = Pending - n
  BY <1>2, Flushed DEF IInv
<1>4. /\ CurUnits' = CurUnits /\ Cur' = Cur /\ CurFrame' = CurFrame
      /\ LensTo' = LensTo /\ AtUnit' = AtUnit /\ ContentAt' = ContentAt
      /\ FramesBehind' = FramesBehind
  BY <1>1, Stays
<1>5. stage.left \in Nat /\ left \in Nat /\ stage \in StageSet /\ Cur.len \in Nat
      /\ LensTo[upos - 1] \in Nat /\ given \in Nat
  <2>1. stage \in StageSet /\ left \in Nat /\ given \in Nat
    BY DEF IInv, TypeInv
  <2>2. UnitAt(stream, CurUnits, upos) /\ LensTo[upos - 1] \in Nat
    BY <1>2, HereIs DEF Here, IInv
  <2> QED BY <2>1, <2>2 DEF StageSet, UnitAt, Cur
<1>6. t \in Nat /\ t <= left /\ h \in Nat /\ h >= 1 /\ left - t \in Nat
  BY <1>5 DEF Least
<1>7. stage' \in StageSet /\ stage'.k = "skip" /\ stage'.left = h
      /\ stage'.decoded = stage.decoded
  BY <1>5, <1>6 DEF StageSet
<1>8. /\ result'.k = "hint" /\ result'.n = h
      /\ result' \in [k: {"none", "hint", "zero", "err"}, n: Int]
  BY <1>1, <1>6 DEF Hinted
<1>9. TypeInv'
  <2>1. ring' \in RingSet /\ ring'.len = ring.len /\ out' \in Seq(Int)
    BY <1>3 DEF WrittenOut, Holds
  <2> QED BY <2>1, <1>1, <1>3, <1>4, <1>6, <1>7, <1>8 DEF IInv, TypeInv, Places
<1>10. PlaceInv'
  <2>1. h <= Cur.len
    BY <1>2, <1>5, <1>6
  <2> QED BY <2>1, <1>1, <1>2, <1>4, <1>7 DEF IInv, PlaceInv, UnitStages
<1>11. RestInv'
  BY <1>1, <1>2, <1>4, <1>6, <1>7 DEF RestInv
<1>12. BytesInv'
  <2>1. given - left = LensTo[upos - 1] + 0 + (Cur.len - stage.left) /\ given <= StreamLen[stream]
    BY <1>2 DEF IInv, BytesInv
  <2>2. given - (left - t) = LensTo[upos - 1] + 0 + (Cur.len - h)
    <3> DEFINE L == LensTo[upos - 1]
               c == Cur.len
    <3> HIDE DEF L, c
    <3>1. given - left = L + 0 + (c - stage.left) /\ L \in Nat /\ c \in Nat
      BY <2>1, <1>5 DEF L, c
    <3>2. given - (left - t) = L + 0 + (c - h)
      BY <3>1, <1>5, <1>6
    <3> QED BY <3>2 DEF L, c
  <2> QED BY <2>1, <2>2, <1>1, <1>2, <1>4, <1>7 DEF BytesInv
<1>13. BatchInv'
  BY <1>1 DEF BatchInv
<1>14. RingInv'
  BY <1>1, <1>3, <1>7, RingStays DEF IInv, WrittenOut
<1>15. DeliverInv'
  <2>1. Holds(stream, out, ring, mem, ContentAt)'
    BY <1>1, <1>3, <1>4
  <2>2. Pending' = 0
    BY <1>3 DEF Pending
  <2> QED BY <2>1, <2>2, HoldsDelivers
<1>16. ReportInv'
  BY <1>1, <1>2, <1>4, <1>6, <1>7, <1>8 DEF IInv, ReportInv
<1>17. VerdictInv'
  BY <1>1, Stays DEF IInv
<1> QED BY <1>9, <1>10, <1>11, <1>12, <1>13, <1>14, <1>15, <1>16, <1>17 DEF IInv

\* The length gather reads a unit to.
KnownLen == IF stage.k = "header" /\ unit < PrefixLen /\ unit + left >= PrefixLen
         THEN UnitLen(PrefixLen) ELSE UnitLen(unit)

(* Past the last unit there is no input.                                   *)
LEMMA NoneLeft ==
  ASSUME IInv, ~failed, ~AtUnit
  PROVE  left = 0 /\ stage.k = "header" /\ unit = 0
<1>1. stage.k = "header" /\ unit = 0 /\ pc # "write"
  BY DEF IInv, PlaceInv
<1>2. given - left = LensTo[upos - 1] + 0 + 0 /\ given <= StreamLen[stream]
  BY <1>1 DEF IInv, BytesInv
<1>3. /\ Len(CurUnits) \in Nat /\ upos \in Nat /\ upos <= Len(CurUnits) + 1 /\ upos > Len(CurUnits)
      /\ LensTo[Len(CurUnits)] \in Nat
      /\ StreamLen[stream] \in Int /\ StreamLen[stream] <= LensTo[Len(CurUnits)]
  <2>1. ~(upos <= Len(CurUnits))
    BY DEF AtUnit
  <2> QED BY <2>1, HereIs DEF Here, IInv
<1>4. upos - 1 = Len(CurUnits)
  BY <1>3
<1>5. left \in Nat /\ given \in Nat
  BY DEF IInv, TypeInv
<1> DEFINE L == LensTo[Len(CurUnits)]
<1>6. given - left = L + 0 + 0 /\ given <= StreamLen[stream] /\ StreamLen[stream] <= L /\ L \in Nat
  BY <1>2, <1>3, <1>4
<1> HIDE DEF L
<1>7. left = 0
  BY <1>3, <1>5, <1>6
<1> QED BY <1>1, <1>7

(* How much of a unit is gathered.                                         *)
LEMMA KnownIs ==
  ASSUME IInv, pc = "unit", NEW t, t = Least(Need(KnownLen), left)
  PROVE  /\ t \in Nat /\ t <= left /\ KnownLen \in Nat
         /\ ~AtUnit => t = 0 /\ unit + t # KnownLen /\ Need(KnownLen) - t = PrefixLen
         /\ AtUnit /\ unit + t = KnownLen => unit + t = Cur.len
         /\ AtUnit /\ unit + t # KnownLen => /\ unit + t < Cur.len
                                          /\ Need(KnownLen) - t >= 1
                                          /\ Need(KnownLen) - t <= Cur.len - (unit + t)
<1>1. ~failed /\ stage.k # "skip"
  BY DEF IInv, PlaceInv
<1>2. unit \in Nat /\ left \in Nat /\ PrefixLen \in Nat /\ PrefixLen > 1
  BY SizesAssumption DEF IInv, TypeInv
<1>3. CASE ~AtUnit
  <2>1. left = 0 /\ stage.k = "header" /\ unit = 0 /\ upos > Len(CurUnits)
    <3>1. upos \in Nat /\ Len(CurUnits) \in Nat
      BY HereIs DEF Here, IInv
    <3> QED BY <3>1, <1>1, <1>3, NoneLeft DEF AtUnit
  <2>2. KnownLen = PrefixLen
    BY <2>1, <1>2 DEF KnownLen, UnitLen
  <2> QED BY <2>1, <2>2, <1>2, <1>3 DEF Need, Least
<1>4. CASE AtUnit
  <2>1. ~(upos > Len(CurUnits)) /\ UnitAt(stream, CurUnits, upos)
    <3>1. upos \in Nat /\ Len(CurUnits) \in Nat /\ UnitAt(stream, CurUnits, upos)
      BY <1>4, HereIs DEF Here, IInv
    <3> QED BY <3>1, <1>4 DEF AtUnit
  <2>2. Cur.len \in Nat /\ Cur.k = stage.k /\ (Cur.k = "header" => Cur.len >= PrefixLen)
    BY <2>1, <1>1, <1>4 DEF UnitAt, Cur, IInv, PlaceInv
  <2>3. unit < Cur.len \/ unit = 0
    BY <1>1, <1>4 DEF IInv, RestInv
  <2> DEFINE c == Cur.len
             k == KnownLen
  <2>4. CASE stage.k # "header"
    <3>1. k = c
      BY <2>4, <1>1 DEF KnownLen, UnitLen
    <3> HIDE DEF c, k
    <3>2. c \in Nat /\ (unit < c \/ unit = 0)
      BY <2>2, <2>3 DEF c
    <3>3. /\ t \in Nat /\ t <= left /\ k \in Nat
          /\ unit + t = k => unit + t = c
          /\ unit + t # k => unit + t < c /\ k - unit - t >= 1 /\ k - unit - t <= c - (unit + t)
      BY <3>1, <3>2, <1>2 DEF Need, Least, k
    <3> QED BY <3>3, <1>4 DEF c, k, Need
  <2>5. CASE stage.k = "header"
    <3>1. \/ k = c /\ (unit >= PrefixLen \/ unit + left >= PrefixLen)
          \/ k = PrefixLen /\ unit + left < PrefixLen
      BY <2>5, <2>1, <1>2 DEF KnownLen, UnitLen
    <3>2. c \in Nat /\ (unit < c \/ unit = 0) /\ c >= PrefixLen
      BY <2>2, <2>3, <2>5
    <3> HIDE DEF c, k
    <3>3. /\ t \in Nat /\ t <= left /\ k \in Nat
          /\ unit + t = k => unit + t = c
          /\ unit + t # k => unit + t < c /\ k - unit - t >= 1 /\ k - unit - t <= c - (unit + t)
      <4>1. t = Least(k - unit, left)
        BY DEF Need, k
      <4> QED BY <4>1, <3>1, <3>2, <1>2 DEF Least
    <3> QED BY <3>3, <1>4 DEF c, k, Need
  <2> QED BY <2>4, <2>5
<1> QED BY <1>3, <1>4

(* A unit, or what there is of it, is gathered.                            *)
LEMMA GatherKeeps ==
  ASSUME IInv, Gather
  PROVE  IInv'
<1> DEFINE t == Least(Need(KnownLen), left)
           h == Need(KnownLen) - t
<1>1. /\ pc = "unit" /\ left' = left - t /\ unit' = unit + t
      /\ stage' = [stage EXCEPT !.whole = unit = 0 /\ t = KnownLen]
      /\ IF unit + t = KnownLen THEN pc' = stage.k /\ UNCHANGED <<result, zeros>>
         ELSE Return(Hinted(h))
  BY DEF Gather, KnownLen
<1>2. /\ stream' = stream /\ given' = given /\ dict' = dict /\ upos' = upos
      /\ room' = room /\ out' = out /\ ring' = ring /\ mem' = mem
      /\ frame_ended' = frame_ended /\ failed' = failed /\ todo' = todo /\ blk' = blk
  BY DEF Gather, input
<1>3. /\ ~failed /\ ~frame_ended /\ stage.k # "skip" /\ todo = 0 /\ result.k = "none"
      /\ AtUnit => Cur.k = stage.k
      /\ ~AtUnit => stage.k = "header" /\ unit = 0
  BY <1>1 DEF IInv, PlaceInv
<1>4. /\ t \in Nat /\ t <= left /\ KnownLen \in Nat
      /\ ~AtUnit => t = 0 /\ unit + t # KnownLen /\ h = PrefixLen
      /\ AtUnit /\ unit + t = KnownLen => unit + t = Cur.len
      /\ AtUnit /\ unit + t # KnownLen => unit + t < Cur.len /\ h >= 1 /\ h <= Cur.len - (unit + t)
  BY <1>1, KnownIs
<1>5. h \in Int
  BY <1>4 DEF Need, IInv, TypeInv
<1> HIDE DEF t, h
<1>6. stage' \in StageSet /\ stage'.k = stage.k /\ stage'.left = stage.left
      /\ stage'.decoded = stage.decoded /\ stage.k \in Stages
  <2> DEFINE b == unit = 0 /\ t = KnownLen
  <2>1. b \in BOOLEAN
    OBVIOUS
  <2>2. stage' = [stage EXCEPT !.whole = b]
    BY <1>1
  <2> HIDE DEF b
  <2>3. stage \in StageSet
    BY DEF IInv, TypeInv
  <2> QED BY <2>1, <2>2, <2>3 DEF StageSet
<1>7. /\ CurUnits' = CurUnits /\ Cur' = Cur /\ CurFrame' = CurFrame
      /\ LensTo' = LensTo /\ AtUnit' = AtUnit /\ ContentAt' = ContentAt
      /\ FramesBehind' = FramesBehind
  BY <1>2, Stays
<1>8. unit \in Nat /\ left \in Nat /\ given \in Nat /\ unit' \in Nat /\ left' \in Nat
  <2>1. unit \in Nat /\ left \in Nat /\ given \in Nat
    BY DEF IInv, TypeInv
  <2> QED BY <2>1, <1>1, <1>4
<1>9. zeros' = zeros
  BY <1>1 DEF Return, Hinted
<1>10. \/ /\ pc' = stage.k /\ result' = result /\ AtUnit /\ unit' = Cur.len
       \/ /\ pc' = "idle" /\ result'.k = "hint" /\ result'.n = h /\ h >= 1
          /\ result' \in [k: {"none", "hint", "zero", "err"}, n: Int]
          /\ AtUnit => unit' < Cur.len /\ h <= Cur.len - unit'
          /\ ~AtUnit => h = PrefixLen /\ unit' = 0
  <2>1. CASE unit + t = KnownLen
    BY <2>1, <1>1, <1>4
  <2>2. CASE unit + t # KnownLen
    <3>1. pc' = "idle" /\ result' = Hinted(h)
      BY <2>2, <1>1 DEF Return
    <3>2. result'.k = "hint" /\ result'.n = h /\ result' \in [k: {"none", "hint", "zero", "err"}, n: Int]
      BY <3>1, <1>5 DEF Hinted
    <3>3. h >= 1
      BY <2>2, <1>4, SizesAssumption
    <3>4. ~AtUnit => h = PrefixLen /\ unit' = 0
      BY <1>1, <1>3, <1>4
    <3> QED BY <3>1, <3>2, <3>3, <3>4, <2>2, <1>1, <1>4
  <2> QED BY <2>1, <2>2
<1>11. TypeInv'
  <2>1. pc' \in Places /\ result' \in [k: {"none", "hint", "zero", "err"}, n: Int]
    BY <1>3, <1>6, <1>10 DEF Places, Stages, UnitStages, IInv, TypeInv
  <2> QED BY <2>1, <1>2, <1>6, <1>7, <1>8, <1>9 DEF IInv, TypeInv
<1>12. PlaceInv'
  BY <1>2, <1>3, <1>6, <1>7, <1>10 DEF PlaceInv, UnitStages, Stages
<1>13. RestInv'
  BY <1>2, <1>3, <1>6, <1>7, <1>10 DEF RestInv, Stages
<1>14. BytesInv'
  <2>1. given - left = LensTo[upos - 1] + unit + 0 /\ given <= StreamLen[stream]
    BY <1>1, <1>3 DEF IInv, BytesInv
  <2>2. LensTo[upos - 1] \in Nat
    BY HereIs DEF IInv, Here
  <2>3. given' - left' = LensTo[upos - 1] + unit' + 0
    <3> DEFINE L == LensTo[upos - 1]
    <3>1. given - left = L + unit + 0 /\ L \in Nat
      BY <2>1, <2>2
    <3> HIDE DEF L
    <3>2. given' - left' = L + unit' + 0
      BY <3>1, <1>1, <1>2, <1>4, <1>8
    <3> QED BY <3>2 DEF L
  <2>4. pc' # "write"
    BY <1>6, <1>10 DEF Stages
  <2> QED BY <2>1, <2>3, <2>4, <1>2, <1>3, <1>6, <1>7 DEF BytesInv
<1>15. BatchInv'
  BY <1>6, <1>10 DEF BatchInv, Stages
<1>16. RingInv'
  <2>1. ring.flushed <= ring.end /\ pc' # "write"
    BY <1>6, <1>10 DEF IInv, RingInv, Stages
  <2> QED BY <2>1, <1>1, <1>2, <1>6, RingStays DEF IInv
<1>17. DeliverInv'
  <2>1. Pending' = Pending /\ Pending = 0
    BY <1>1, <1>2, <1>3 DEF Pending, IInv, DeliverInv
  <2> QED BY <2>1, <1>2, <1>3, <1>7 DEF IInv, DeliverInv
<1>18. ReportInv'
  BY <1>2, <1>3, <1>6, <1>7, <1>9, <1>10 DEF IInv, ReportInv
<1>19. VerdictInv'
  BY <1>2, Stays DEF IInv
<1> QED BY <1>11, <1>12, <1>13, <1>14, <1>15, <1>16, <1>17, <1>18, <1>19 DEF IInv

-----------------------------------------------------------------------------
(* The steps to the next unit.                                             *)

(* The next unit.                                                          *)
LEMMA Moves ==
  ASSUME stream' = stream, upos' = upos + 1, upos \in Nat
  PROVE  /\ CurUnits' = CurUnits /\ LensTo' = LensTo /\ Cur' = CurUnits[upos + 1]
         /\ CurFrame' = stream[CurUnits[upos + 1].f]
         /\ AtUnit' <=> upos + 1 <= Len(CurUnits)
         /\ ContentAt' = ContentPos(stream, CurUnits, upos + 1)
         /\ FramesBehind' = Behind(stream, CurUnits, upos + 1)
         /\ ContentAt = ContentPos(stream, CurUnits, upos)
         /\ FramesBehind = Behind(stream, CurUnits, upos)
         /\ LensTo'[upos' - 1] = LensTo[upos]
<1>1. CurUnits' = CurUnits
  BY DEF CurUnits
<1>2. LensTo' = LensTo /\ Cur' = CurUnits[upos + 1]
  BY <1>1 DEF LensTo, Cur
<1>3. CurFrame' = stream[CurUnits[upos + 1].f]
  BY <1>2 DEF CurFrame
<1>4. AtUnit' <=> upos + 1 <= Len(CurUnits)
  BY <1>1 DEF AtUnit
<1>5. ContentAt' = ContentPos(stream, CurUnits, upos + 1)
      /\ ContentAt = ContentPos(stream, CurUnits, upos)
  BY <1>1 DEF ContentAt
<1>6. FramesBehind' = Behind(stream, CurUnits, upos + 1)
  BY <1>1, <1>2 DEF FramesBehind, Behind
<1>7. FramesBehind = Behind(stream, CurUnits, upos)
  BY DEF FramesBehind, Behind, Cur
<1>8. (upos + 1) - 1 = upos
  OBVIOUS
<1> QED BY <1>1, <1>2, <1>3, <1>4, <1>5, <1>6, <1>7, <1>8

(* What a frame's first blocks decode to.                                  *)
LEMMA OutsTotal ==
  ASSUME NEW fr \in FrameSet, NEW i \in 0 .. Len(fr.blocks)
  PROVE  Total([j \in 1 .. i |-> fr.blocks[j].out]) = Outs(fr)[i]
<1> DEFINE N == Len(fr.blocks)
           ns == [j \in 1 .. N |-> fr.blocks[j].out]
           ms == [j \in 1 .. i |-> fr.blocks[j].out]
<1>1. N \in Nat /\ DOMAIN fr.blocks = 1 .. N /\ \A j \in 1 .. N : fr.blocks[j].out \in Nat
  BY FrameIs
<1>2. i \in Nat /\ i <= N
  BY <1>1
<1> HIDE DEF N
<1>3. ns \in Seq(Nat) /\ Len(ns) = N /\ \A j \in 1 .. N : ns[j] = fr.blocks[j].out
  BY <1>1
<1>4. \A j \in 1 .. i : fr.blocks[j].out \in Nat
  BY <1>1, <1>2
<1>5. ms \in Seq(Nat) /\ Len(ms) = i /\ \A j \in 1 .. i : ms[j] = fr.blocks[j].out
  BY <1>2, <1>4
<1>6. Outs(fr) = Sums(ns)
  BY <1>1 DEF Outs
<1> HIDE DEF ns, ms
<1>7. \A j \in 1 .. i : ms[j] = ns[j]
  BY <1>2, <1>1, <1>3, <1>5
<1>8. Sums(ms)[i] = Sums(ns)[i]
  BY <1>2, <1>3, <1>5, <1>7, SumsAgree
<1> QED BY <1>5, <1>6, <1>8 DEF Total, ms

(* The units that fail.                                                    *)
LEMMA BadIs ==
  ASSUME NEW s \in Streams, NEW u \in 1 .. Len(Units[s]), NEW c, c = Units[s][u]
  PROVE  /\ c.k = "header" => (u \in BadUnits[s] <=> s[c.f].bad)
         /\ c.k = "skip" => u \notin BadUnits[s]
         /\ c.k = "block" => (u \in BadUnits[s] <=> HeaderFails(s[c.f].blocks[c.i]))
         /\ c.k = "content" =>
               (u \in BadUnits[s] <=>
                   \/ s[c.f].blocks[c.i].fault = "content"
                   \/ /\ s[c.f].fcs # NoSize
                      /\ \/ Outs(s[c.f])[c.i] > s[c.f].fcs
                         \/ c.i = Len(s[c.f].blocks) /\ Outs(s[c.f])[c.i] # s[c.f].fcs)
         /\ c.k = "checksum" => (u \in BadUnits[s] <=> ~s[c.f].sum_ok)
<1> DEFINE U == Units[s]
<1>1. Linked(s, U)
  BY UnitsAre
<1>2. DOMAIN U = 1 .. Len(U)
  BY <1>1 DEF Linked
<1>3. u \in BadUnits[s] <=> UnitFails(s, c)
  BY <1>2 DEF BadUnits
<1>4. c.k = "content" => Total([j \in 1 .. c.i |-> s[c.f].blocks[j].out]) = Outs(s[c.f])[c.i]
  <2> SUFFICES ASSUME c.k = "content"
               PROVE  Total([j \in 1 .. c.i |-> s[c.f].blocks[j].out]) = Outs(s[c.f])[c.i]
    OBVIOUS
  <2>1. s[c.f] \in FrameSet /\ c.i \in 1 .. Len(s[c.f].blocks)
    BY <1>1, AtContent
  <2>2. c.i \in 0 .. Len(s[c.f].blocks)
    BY <2>1, FrameIs
  <2> QED BY <2>1, <2>2, OutsTotal
<1>5. c.k = "header" => (UnitFails(s, c) <=> s[c.f].bad)
  BY DEF UnitFails
<1>6. c.k = "skip" => ~UnitFails(s, c)
  BY DEF UnitFails
<1>7. c.k = "block" => (UnitFails(s, c) <=> HeaderFails(s[c.f].blocks[c.i]))
  BY DEF UnitFails, HeaderFails
<1>8. c.k = "checksum" => (UnitFails(s, c) <=> ~s[c.f].sum_ok)
  BY DEF UnitFails
<1>9. c.k = "content" =>
         (UnitFails(s, c) <=>
             \/ s[c.f].blocks[c.i].fault = "content"
             \/ /\ s[c.f].fcs # NoSize
                /\ \/ Outs(s[c.f])[c.i] > s[c.f].fcs
                   \/ c.i = Len(s[c.f].blocks) /\ Outs(s[c.f])[c.i] # s[c.f].fcs)
  BY <1>4 DEF UnitFails
<1> QED BY <1>3, <1>5, <1>6, <1>7, <1>8, <1>9

(* Past a unit that does not fail.                                         *)
LEMMA PastGood ==
  ASSUME IInv, ~failed', stream' = stream, upos' = upos + 1, upos \notin BadUnits[stream]
  PROVE  VerdictInv'
<1>1. stream \in Streams /\ upos \in Nat
  BY HereIs DEF IInv, Here
<1>2. BadUnits[stream] \subseteq Nat
  <2>1. Linked(stream, Units[stream])
    BY <1>1, UnitsAre
  <2>2. DOMAIN Units[stream] \subseteq Nat
    BY <2>1 DEF Linked
  <2> QED BY <1>1, <2>2 DEF BadUnits
<1>3. \A i \in BadUnits[stream] : upos <= i
  BY DEF IInv, VerdictInv
<1>4. \A i \in BadUnits[stream] : upos + 1 <= i
  BY <1>1, <1>2, <1>3
<1> QED BY <1>4 DEF VerdictInv

(* A step to the next unit keeps the invariant, given what it does to the  *)
(* buffer and the batch.                                                   *)
LEMMA MoveKeeps ==
  ASSUME IInv, ~failed, ~failed', AtUnit, ~frame_ended, upos \notin BadUnits[stream], TypeInv',
         stream' = stream, given' = given, upos' = upos + 1, unit' = 0, zeros' = zeros,
         result'.k = "none", pc' \in {"top", "next"},
         pc' = "next" => AtUnit' /\ stage'.k = "block", pc' = "top" => todo' = 0,
         AtUnit' => stage'.k = Cur'.k, ~AtUnit' => stage'.k = "header" /\ pc' = "top",
         stage'.k = "skip" => stage'.left = Cur'.len,
         frame_ended' => stage'.k = "header" /\ pc' = "top" /\ FramesBehind' = FramesBehind + 1,
         ~frame_ended' => stage'.k # "header" /\ FramesBehind' = FramesBehind,
         given - left' = LensTo[upos], BatchInv', RingInv',
         Holds(stream, out, ring, mem, ContentAt)',
         stage'.k \in {"content", "skip"} => Pending' = 0
  PROVE  IInv'
<1>1. upos \in Nat /\ upos >= 1 /\ UnitAt(stream, CurUnits, upos)
  BY HereIs DEF IInv, Here
<1>2. LensTo'[upos' - 1] = LensTo[upos]
  BY <1>1, Moves
<1>3. LensTo[upos] \in Nat
  BY <1>1 DEF UnitAt, LensTo
<1>4. AtUnit' => Cur'.len \in Nat
  <2> SUFFICES ASSUME AtUnit' PROVE Cur'.len \in Nat
    OBVIOUS
  <2>1. CurUnits' = CurUnits /\ Cur' = CurUnits[upos + 1] /\ upos + 1 <= Len(CurUnits)
    BY <1>1, Moves
  <2>2. upos + 1 \in 1 .. Len(CurUnits) /\ Linked(stream, CurUnits) /\ stream \in Streams
    BY <2>1, <1>1, HereIs DEF IInv, Here
  <2>3. UnitAt(stream, CurUnits, upos + 1)
    BY <2>2, UnitAtIs
  <2> QED BY <2>1, <2>3 DEF UnitAt
<1>5. PlaceInv'
  <2>1. stage'.k = "skip" => AtUnit'
    OBVIOUS
  <2>2. stage'.k = "skip" => stage'.left <= Cur'.len
    BY <2>1, <1>4
  <2>3. frame_ended' \in BOOLEAN
    BY DEF TypeInv
  <2> QED BY <2>2, <2>3 DEF PlaceInv, UnitStages
<1>6. RestInv'
  BY DEF RestInv
<1>7. BytesInv'
  <2>1. given <= StreamLen[stream]
    BY DEF IInv, BytesInv
  <2>2. given' - left' = LensTo'[upos' - 1] + 0 + 0
    BY <1>2, <1>3
  <2>3. stage'.k = "skip" => Cur'.len - stage'.left = 0
    BY <1>4
  <2> QED BY <2>1, <2>2, <2>3 DEF BytesInv
<1>8. DeliverInv'
  <2>1. (~failed /\ (\/ stage.k \in {"content", "skip"}
                     \/ pc \in {"unit", "write"} \union UnitStages
                     \/ stage.k = "header" /\ ~frame_ended) => Pending = 0)'
    BY DEF UnitStages
  <2> QED BY <2>1, HoldsDelivers
<1>9. ReportInv'
  <2>1. zeros = FramesBehind /\ zeros \in Nat
    BY DEF IInv, ReportInv, TypeInv
  <2>2. frame_ended' \in BOOLEAN
    BY DEF TypeInv
  <2>3. zeros' + (IF frame_ended' THEN 1 ELSE 0) = FramesBehind'
    <3>1. CASE frame_ended'
      BY <3>1, <2>1
    <3>2. CASE ~frame_ended'
      BY <3>2, <2>1
    <3> QED BY <3>1, <3>2
  <2> QED BY <2>3 DEF ReportInv
<1>10. VerdictInv'
  BY PastGood
<1> QED BY <1>5, <1>6, <1>7, <1>8, <1>9, <1>10 DEF IInv

(* The end of a frame, with no more to it than its last unit.              *)
LEMMA EndKeeps ==
  ASSUME IInv, ~failed, failed' = failed, AtUnit, ~frame_ended, upos \notin BadUnits[stream],
         EndsFrame(stream, CurUnits, upos), stage' = AtHeader, frame_ended' = TRUE, pc' = "top",
         stream' = stream, given' = given, upos' = upos + 1, unit' = 0, zeros' = zeros,
         result' = result, result.k = "none", todo' = 0, dict' = dict, blk' \in BlkSet,
         left' \in Nat, room' \in Nat, given - left' = LensTo[upos],
         ring' \in RingSet, mem' \in [0 .. ring'.len - 1 -> Int],
         ring'.flushed <= ring'.end, ring'.end <= ring'.len,
         Holds(stream, out', ring', mem', ContentPos(stream, CurUnits, upos + 1))
  PROVE  IInv'
<1>1. /\ upos \in 1 .. Len(CurUnits) /\ upos \in Nat /\ stream \in Streams
      /\ Linked(stream, CurUnits) /\ Len(CurUnits) \in Nat /\ UnitAt(stream, CurUnits, upos)
  BY HereIs DEF IInv, Here
<1>2. /\ CurUnits' = CurUnits /\ Cur' = CurUnits[upos + 1]
      /\ AtUnit' <=> upos + 1 <= Len(CurUnits)
      /\ ContentAt' = ContentPos(stream, CurUnits, upos + 1)
      /\ FramesBehind' = Behind(stream, CurUnits, upos + 1)
      /\ FramesBehind = Behind(stream, CurUnits, upos)
  BY <1>1, Moves
<1>3. /\ Behind(stream, CurUnits, upos + 1) = Cur.f
      /\ upos + 1 <= Len(CurUnits) => CurUnits[upos + 1].k = "header"
  BY <1>1, EndsAt DEF Cur
<1>4. FramesBehind' = FramesBehind + 1
  <2>1. ~(upos > Len(CurUnits)) /\ Cur.f \in Nat
    <3>1. Cur.f \in 1 .. Len(stream) /\ Len(stream) \in Nat
      BY <1>1, StreamIs DEF UnitAt, Cur
    <3> QED BY <3>1, <1>1
  <2>2. FramesBehind = Cur.f - 1
    BY <2>1 DEF FramesBehind
  <2> QED BY <2>1, <2>2, <1>2, <1>3
<1>5. stage' \in StageSet /\ stage'.k = "header"
  BY AtHeaderIs
<1>6. TypeInv'
  <2>1. upos' \in 1 .. Len(CurUnits') + 1
    BY <1>1, <1>2
  <2>2. out' \in Seq(Int)
    BY DEF Holds
  <2>3. frame_ended' \in BOOLEAN /\ failed' \in BOOLEAN
    BY DEF IInv, TypeInv
  <2> QED BY <2>1, <2>2, <2>3, <1>5 DEF IInv, TypeInv, Places
<1>7. RingInv'
  <2>1. ~InBlocks' /\ pc' # "write"
    BY <1>5 DEF InBlocks
  <2> QED BY <2>1 DEF RingInv
<1>8. BatchInv'
  BY DEF BatchInv
<1>9. Holds(stream, out, ring, mem, ContentAt)'
  BY <1>2
<1> QED BY <1>2, <1>3, <1>4, <1>5, <1>6, <1>7, <1>8, <1>9, MoveKeeps

(* A skippable frame ends.                                                 *)
LEMMA TopSkipped ==
  ASSUME IInv, pc = "top", NEW n, n = FlushLen, Flush(n), n = Pending, ~frame_ended,
         stage.k = "skip", ring' = [ring EXCEPT !.flushed = @ + n],
         NEW t, t = Least(stage.left, left), t = stage.left, left' = left - t,
         stage' = AtHeader, upos' = upos + 1, frame_ended' = TRUE,
         UNCHANGED <<pc, result, zeros>>, UNCHANGED <<input, unit, mem, failed, todo, blk>>
  PROVE  IInv'
<1>1. /\ zeros' = zeros /\ result' = result /\ pc' = "top"
      /\ stream' = stream /\ given' = given /\ dict' = dict
      /\ unit' = unit /\ mem' = mem /\ failed' = failed /\ todo' = todo /\ blk' = blk
  BY DEF input
<1>2. /\ ~failed /\ unit = 0 /\ AtUnit /\ Cur.k = "skip" /\ stage.left <= Cur.len /\ todo = 0
      /\ result.k = "none"
  BY DEF IInv, PlaceInv
<1>3. /\ n \in Nat /\ Pending \in Nat /\ room' \in Nat /\ WrittenOut(ring', ring)
      /\ Holds(stream, out', ring', mem, ContentAt)
  BY <1>2, Flushed DEF IInv
<1>4. /\ upos \in 1 .. Len(CurUnits) /\ upos \in Nat /\ stream \in Streams
      /\ Linked(stream, CurUnits) /\ UnitAt(stream, CurUnits, upos)
  BY <1>2, HereIs DEF IInv, Here
<1>5. EndsFrame(stream, CurUnits, upos)
      /\ ContentPos(stream, CurUnits, upos + 1) = ContentAt
  BY <1>2, <1>4, AfterEnd DEF Cur, ContentAt
<1>6. upos \notin BadUnits[stream]
  BY <1>2, <1>4, BadIs DEF Cur, CurUnits
<1>7. left' \in Nat /\ given - left' = LensTo[upos]
  <2> DEFINE L == LensTo[upos - 1]
             M == LensTo[upos]
             c == Cur.len
  <2>1. given - left = L + 0 + (c - stage.left)
    BY <1>2 DEF IInv, BytesInv
  <2>2. L \in Nat /\ M = L + c /\ c \in Nat
    BY <1>4 DEF UnitAt, Cur, LensTo
  <2>3. stage.left \in Nat /\ left \in Nat /\ given \in Nat
    BY DEF IInv, TypeInv, StageSet
  <2>4. t \in Nat /\ t <= left
    BY <2>3 DEF Least
  <2> HIDE DEF L, M, c
  <2>5. left' \in Nat /\ given - left' = M
    BY <2>1, <2>2, <2>3, <2>4
  <2> QED BY <2>5 DEF M
<1>8. /\ ring' \in RingSet /\ mem' \in [0 .. ring'.len - 1 -> Int]
      /\ ring'.flushed <= ring'.end /\ ring'.end <= ring'.len
  BY <1>1, <1>3 DEF WrittenOut, IInv, TypeInv, RingInv
<1>9. Holds(stream, out', ring', mem', ContentPos(stream, CurUnits, upos + 1))
  BY <1>1, <1>3, <1>5
<1>10. blk' \in BlkSet /\ todo' = 0 /\ unit' = 0
  BY <1>1, <1>2 DEF IInv, TypeInv
<1> QED BY <1>1, <1>2, <1>3, <1>5, <1>6, <1>7, <1>8, <1>9, <1>10, EndKeeps

(* The top of the loop.                                                    *)
LEMMA TopKeeps ==
  ASSUME IInv, Top
  PROVE  IInv'
<1> DEFINE n == FlushLen
           t == Least(stage.left, left)
<1>1. /\ pc = "top" /\ Flush(n) /\ ring' = [ring EXCEPT !.flushed = @ + n]
      /\ UNCHANGED <<input, unit, mem, failed, todo, blk>>
  BY DEF Top
<1>2. \/ /\ n < Pending
         /\ Return(Hinted(IF frame_ended THEN 1 ELSE Hint))
         /\ UNCHANGED <<upos, left, stage, frame_ended>>
      \/ /\ n = Pending /\ frame_ended
         /\ frame_ended' = FALSE
         /\ Return(Zero)
         /\ UNCHANGED <<upos, left, stage>>
      \/ /\ n = Pending /\ ~frame_ended /\ stage.k = "skip"
         /\ left' = left - t
         /\ IF t = stage.left
            THEN /\ stage' = AtHeader
                 /\ upos' = upos + 1
                 /\ frame_ended' = TRUE
                 /\ UNCHANGED <<pc, result, zeros>>
            ELSE /\ stage' = [stage EXCEPT !.left = @ - t]
                 /\ Return(Hinted(stage.left - t))
                 /\ UNCHANGED <<upos, frame_ended>>
      \/ /\ n = Pending /\ ~frame_ended /\ stage.k # "skip"
         /\ pc' = "unit"
         /\ UNCHANGED <<upos, left, stage, frame_ended, result, zeros>>
  BY Zenon DEF Top
<1> HIDE DEF n, t
<1>5. CASE /\ n < Pending
           /\ Return(Hinted(IF frame_ended THEN 1 ELSE Hint))
           /\ UNCHANGED <<upos, left, stage, frame_ended>>
  BY <1>1, <1>5, TopFull DEF n
<1>6. CASE /\ n = Pending /\ frame_ended
           /\ frame_ended' = FALSE
           /\ Return(Zero)
           /\ UNCHANGED <<upos, left, stage>>
  BY <1>1, <1>6, TopEnd DEF n
<1>7. CASE /\ n = Pending /\ ~frame_ended /\ stage.k = "skip"
           /\ left' = left - t /\ t = stage.left
           /\ stage' = AtHeader
           /\ upos' = upos + 1
           /\ frame_ended' = TRUE
           /\ UNCHANGED <<pc, result, zeros>>
  BY <1>1, <1>7, TopSkipped DEF n, t
<1>8. CASE /\ n = Pending /\ ~frame_ended /\ stage.k = "skip"
           /\ left' = left - t /\ t # stage.left
           /\ stage' = [stage EXCEPT !.left = @ - t]
           /\ Return(Hinted(stage.left - t))
           /\ UNCHANGED <<upos, frame_ended>>
  BY <1>1, <1>8, TopSkips DEF n, t
<1>9. CASE /\ n = Pending /\ ~frame_ended /\ stage.k # "skip"
           /\ pc' = "unit"
           /\ UNCHANGED <<upos, left, stage, frame_ended, result, zeros>>
  BY <1>1, <1>9, TopOn DEF n
<1> QED BY <1>2, <1>5, <1>6, <1>7, <1>8, <1>9, Zenon

\* What holds where a whole unit is gathered.
AtWhole ==
    /\ ~failed /\ AtUnit /\ Cur.k = stage.k /\ ~frame_ended /\ result.k = "none" /\ todo = 0
    /\ upos \in 1 .. Len(CurUnits) /\ upos \in Nat /\ stream \in Streams /\ Len(CurUnits) \in Nat
    /\ Linked(stream, CurUnits) /\ UnitAt(stream, CurUnits, upos)
    /\ given - left = LensTo[upos]
    /\ ring.flushed = ring.end /\ Holds(stream, out, ring, mem, ContentAt)

(* It holds there.                                                         *)
LEMMA AtWholeIs ==
  ASSUME IInv, pc \in UnitStages
  PROVE  AtWhole
<1>1. pc \notin {"idle", "top", "unit", "write", "next"}
  BY DEF UnitStages
<1>2. ~failed /\ AtUnit /\ ~frame_ended /\ result.k = "none" /\ todo = 0 /\ stage.k = pc
      /\ unit = Cur.len /\ Cur.k = stage.k
  BY <1>1 DEF IInv, PlaceInv
<1>3. /\ upos \in 1 .. Len(CurUnits) /\ upos \in Nat /\ stream \in Streams
      /\ Len(CurUnits) \in Nat /\ Linked(stream, CurUnits) /\ UnitAt(stream, CurUnits, upos)
  BY <1>2, HereIs DEF IInv, Here
<1>4. given - left = LensTo[upos]
  <2>1. given - left = LensTo[upos - 1] + unit + 0
    BY <1>1, <1>2 DEF IInv, BytesInv, UnitStages
  <2>2. LensTo[upos - 1] \in Nat /\ Cur.len \in Nat /\ LensTo[upos] = LensTo[upos - 1] + Cur.len
    BY <1>3 DEF UnitAt, LensTo, Cur
  <2> QED BY <2>1, <2>2, <1>2
<1>5. Pending = 0
  BY <1>2 DEF IInv, DeliverInv
<1>6. ring.flushed = ring.end
  <2>1. ring \in RingSet
    BY DEF IInv, TypeInv
  <2> QED BY <2>1, <1>5, RingFields DEF Pending
<1>7. Holds(stream, out, ring, mem, ContentAt)
  BY <1>2 DEF IInv, TypeInv, DeliverInv, Holds, Pending
<1> QED BY <1>2, <1>3, <1>4, <1>6, <1>7 DEF AtWhole

(* Where nothing is in the buffer, another empty one holds as much.        *)
LEMMA HoldsEmpty ==
  ASSUME NEW s, NEW o, NEW r \in RingSet, NEW m, NEW at, r.flushed = r.end, Holds(s, o, r, m, at),
         NEW q \in RingSet, NEW l, q.flushed = q.end
  PROVE  Holds(s, o, q, l, at)
<1>1. r.end - r.flushed = 0 /\ q.end - q.flushed = 0
  BY RingFields
<1> QED BY <1>1 DEF Holds

(* A step to the next unit of the same frame, the buffer empty or as it    *)
(* was.                                                                    *)
LEMMA InFrame ==
  ASSUME IInv, AtWhole, upos \notin BadUnits[stream], failed' = failed, UNCHANGED <<input, left, room, out, mem>>,
         frame_ended' = frame_ended, UNCHANGED <<todo, blk, result, zeros>>,
         pc' = "top", unit' = 0, upos' = upos + 1,
         NEW k, NEW i, NextIs(stream, CurUnits, upos, k, i), k \in {"skip", "block", "content"},
         ContentPos(stream, CurUnits, upos + 1) = ContentPos(stream, CurUnits, upos),
         stage' \in StageSet, stage'.k = k, k = "skip" => stage'.left = CurUnits[upos + 1].len,
         ring' \in RingSet, ring'.len = ring.len, ring'.flushed = ring'.end, RingInv'
  PROVE  IInv'
<1>0. /\ ~failed /\ AtUnit /\ ~frame_ended /\ result.k = "none" /\ todo = 0
      /\ upos \in 1 .. Len(CurUnits) /\ upos \in Nat /\ stream \in Streams
      /\ Len(CurUnits) \in Nat
      /\ given - left = LensTo[upos] /\ ring.flushed = ring.end
      /\ Holds(stream, out, ring, mem, ContentAt)
  BY DEF AtWhole
<1>1. stream' = stream /\ given' = given /\ dict' = dict /\ left' = left /\ room' = room
      /\ out' = out /\ mem' = mem /\ todo' = todo /\ blk' = blk /\ result' = result /\ zeros' = zeros
  BY DEF input
<1>2. /\ CurUnits' = CurUnits /\ Cur' = CurUnits[upos + 1]
      /\ AtUnit' <=> upos + 1 <= Len(CurUnits)
      /\ ContentAt' = ContentPos(stream, CurUnits, upos + 1)
      /\ FramesBehind' = Behind(stream, CurUnits, upos + 1)
      /\ ContentAt = ContentPos(stream, CurUnits, upos)
      /\ FramesBehind = Behind(stream, CurUnits, upos)
  BY <1>0, <1>1, Moves
<1>3. AtUnit' /\ Cur'.k = k /\ FramesBehind' = FramesBehind /\ upos + 1 \in 1 .. Len(CurUnits)
  BY <1>0, <1>2 DEF NextIs
<1>4. TypeInv'
  <2>1. upos' \in 1 .. Len(CurUnits') + 1
    BY <1>0, <1>2, <1>3
  <2>2. unit' \in Nat /\ pc' \in Places
    BY DEF Places
  <2> QED BY <2>1, <2>2, <1>1 DEF IInv, TypeInv
<1>5. Pending' = 0
  BY RingFields DEF Pending
<1>6. Holds(stream, out, ring, mem, ContentAt)'
  <2>1. ring \in RingSet
    BY DEF IInv, TypeInv
  <2>2. Holds(stream, out, ring', mem, ContentAt)
    BY <2>1, <1>0, HoldsEmpty
  <2> QED BY <2>2, <1>1, <1>2
<1>7. BatchInv'
  BY DEF BatchInv
<1> QED BY <1>0, <1>1, <1>2, <1>3, <1>4, <1>5, <1>6, <1>7, MoveKeeps

(* The types of a failing step.                                            *)
LEMMA FailTypes ==
  ASSUME TypeInv, Fail, UNCHANGED <<input, left, room, out>>, frame_ended' = frame_ended,
         unit' \in Nat, stage' \in StageSet, ring' \in RingSet,
         mem' \in [0 .. ring'.len - 1 -> Int], upos' \in 1 .. Len(CurUnits) + 1
  PROVE  TypeInv'
<1>1. /\ failed' = TRUE /\ todo' = 0 /\ blk' = NoBlk /\ pc' = "idle" /\ result' = Err
      /\ zeros' = zeros /\ stream' = stream /\ given' = given /\ dict' = dict
      /\ left' = left /\ room' = room /\ out' = out
  BY DEF Fail, Return, Err, input
<1>2. blk' \in BlkSet
  BY <1>1 DEF NoBlk, BlkSet
<1>3. result' \in [k: {"none", "hint", "zero", "err"}, n: Int]
  BY <1>1 DEF Err
<1>4. CurUnits' = CurUnits
  BY <1>1 DEF CurUnits
<1>5. failed' \in BOOLEAN /\ pc' \in Places /\ todo' \in Nat
  BY <1>1 DEF Places
<1> QED BY <1>1, <1>2, <1>3, <1>4, <1>5 DEF TypeInv

(* A step that fails at its unit.                                          *)
LEMMA FailsHere ==
  ASSUME IInv, Fail, UNCHANGED <<input, left, room, out>>, frame_ended' = frame_ended,
         ~frame_ended, upos' = upos, upos \in BadUnits[stream],
         unit' \in Nat, stage' \in StageSet, ring' \in RingSet,
         mem' \in [0 .. ring'.len - 1 -> Int],
         ring'.flushed <= ring'.end, ring'.end <= ring'.len
  PROVE  IInv'
<1>1. stream' = stream
  BY DEF input
<1>2. FramesBehind' = FramesBehind
  BY <1>1, Stays
<1>3. TypeInv'
  <2>1. TypeInv /\ upos' \in 1 .. Len(CurUnits) + 1
    BY DEF IInv, TypeInv
  <2> QED BY <2>1, FailTypes
<1>4. VerdictInv'
  BY <1>1 DEF IInv, VerdictInv
<1> QED BY <1>2, <1>3, <1>4, FailKeeps

(* The buffer is set up for a frame.                                       *)
LEMMA StartRingIs ==
  ASSUME NEW fr \in FrameSet, ring \in RingSet, NEW r, r = StartRing(fr)
  PROVE  /\ r \in RingSet /\ r.len = ring.len /\ r.end = 0 /\ r.flushed = 0
         /\ RingFor(r, fr, 0)
         /\ \A m, f : HistoryOf(r, m, f, 0 + 0, r.end + 0)
<1>1. FullLen(fr) \in Nat /\ fr.window \in Nat /\ ring.len \in Nat /\ fr.fcs \in Nat \union {NoSize}
  BY FullLenIs, FrameIs, RingFields
<1>2. r = [ring EXCEPT !.window = fr.window, !.full = FullLen(fr),
                       !.end = 0, !.ext_end = 0, !.flushed = 0]
  BY DEF StartRing
<1>3. /\ r \in RingSet /\ r.len = ring.len /\ r.end = 0 /\ r.flushed = 0 /\ r.ext_end = 0
      /\ r.window = fr.window /\ r.full = FullLen(fr)
  <2> DEFINE w == fr.window
             l == FullLen(fr)
  <2>1. w \in Nat /\ l \in Nat /\ 0 \in Nat
    BY <1>1
  <2> HIDE DEF w, l
  <2>2. r = [ring EXCEPT !.window = w, !.full = l, !.end = 0, !.ext_end = 0, !.flushed = 0]
    BY <1>2 DEF w, l
  <2>3. /\ r \in RingSet /\ r.len = ring.len /\ r.end = 0 /\ r.flushed = 0 /\ r.ext_end = 0
        /\ r.window = w /\ r.full = l
    BY <2>1, <2>2 DEF RingSet
  <2> QED BY <2>3 DEF w, l
<1>4. RingFor(r, fr, 0)
  BY <1>1, <1>3 DEF RingFor
<1>5. \A m, f : HistoryOf(r, m, f, 0 + 0, r.end + 0)
  <2>1. 1 .. Least(0 + 0, r.window) = {}
    BY <1>1, <1>3 DEF Least
  <2> QED BY <2>1 DEF HistoryOf
<1> QED BY <1>3, <1>4, <1>5

(* A frame's header is read.                                               *)
LEMMA HeaderKeeps ==
  ASSUME IInv, Header
  PROVE  IInv'
<1> DEFINE f == Cur.f
           fr == CurFrame
<1>1. pc = "header" /\ unit' = 0 /\ UNCHANGED <<input, left, room, out, mem, frame_ended>>
  BY DEF Header
<1>2. AtWhole
  BY <1>1, AtWholeIs DEF UnitStages
<1>3. /\ ~failed /\ Cur.k = "header" /\ ~frame_ended /\ stream \in Streams
      /\ upos \in 1 .. Len(CurUnits) /\ upos \in Nat /\ Len(CurUnits) \in Nat
      /\ Linked(stream, CurUnits) /\ ring.flushed = ring.end /\ fr \in FrameSet
  BY <1>1, <1>2 DEF AtWhole, UnitAt, Cur, CurFrame, IInv, PlaceInv, UnitStages
<1>4. /\ ContentPos(stream, CurUnits, upos + 1) = ContentPos(stream, CurUnits, upos)
      /\ fr.skip => NextIs(stream, CurUnits, upos, "skip", 0) /\ CurUnits[upos + 1].len = fr.left
      /\ ~fr.skip => NextIs(stream, CurUnits, upos, "block", 1)
  BY <1>3, AfterHeader DEF Cur, CurFrame
<1>5. upos \in BadUnits[stream] <=> fr.bad
  BY <1>3, BadIs DEF Cur, CurFrame, CurUnits
<1>6. ring \in RingSet /\ mem \in [0 .. ring.len - 1 -> Int] /\ ring.end <= ring.len
      /\ stage \in StageSet /\ ring.len \in Nat
  <2>1. ring \in RingSet /\ mem \in [0 .. ring.len - 1 -> Int] /\ ring.end <= ring.len
        /\ stage \in StageSet
    BY DEF IInv, TypeInv, RingInv
  <2> QED BY <2>1, RingFields
<1>7. CASE fr.bad
  <2>1. Fail /\ UNCHANGED <<upos, stage, ring>>
    BY <1>7 DEF Header
  <2>2. ring'.flushed <= ring'.end /\ ring'.end <= ring'.len
    BY <2>1 DEF IInv, RingInv
  <2> QED BY <2>1, <2>2, <1>1, <1>3, <1>5, <1>6, <1>7, FailsHere
<1>8. CASE ~fr.bad /\ fr.skip
  <2>1. /\ stage' = [AtHeader EXCEPT !.k = "skip", !.left = fr.left] /\ upos' = upos + 1 /\ pc' = "top"
        /\ UNCHANGED <<ring, failed, todo, blk, result, zeros>>
    BY <1>8 DEF Header
  <2>2. fr.left \in Nat
    BY <1>3, FrameIs
  <2>3. stage' \in StageSet /\ stage'.k = "skip" /\ stage'.left = fr.left
    <3> DEFINE l == fr.left
    <3>1. l \in Nat /\ stage' = [AtHeader EXCEPT !.k = "skip", !.left = l]
      BY <2>1, <2>2
    <3> HIDE DEF l
    <3>2. stage' \in StageSet /\ stage'.k = "skip" /\ stage'.left = l
      BY <3>1, AtHeaderIs DEF StageSet, Stages
    <3> QED BY <3>2 DEF l
  <2>4. RingInv'
    <3>1. ~InBlocks' /\ pc' # "write"
      BY <2>1, <2>3 DEF InBlocks
    <3> QED BY <3>1, <2>1 DEF IInv, RingInv
  <2> QED BY <2>1, <2>3, <2>4, <1>1, <1>2, <1>3, <1>4, <1>5, <1>6, <1>8, InFrame
<1>9. CASE ~fr.bad /\ ~fr.skip
  <2>1. /\ ring' = StartRing(fr) /\ stage' = [AtHeader EXCEPT !.k = "block"] /\ upos' = upos + 1
        /\ IF Admitted(fr) THEN pc' = "top" /\ UNCHANGED <<failed, todo, blk, result, zeros>>
           ELSE Fail
    BY <1>9 DEF Header
  <2>2. stage' \in StageSet /\ stage'.k = "block" /\ stage'.decoded = 0
    BY <2>1, AtHeaderIs DEF StageSet, Stages
  <2>3. /\ ring' \in RingSet /\ ring'.len = ring.len /\ ring'.end = 0 /\ ring'.flushed = 0
        /\ RingFor(ring', fr, 0) /\ \A m, g : HistoryOf(ring', m, g, 0 + 0, ring'.end + 0)
    BY <2>1, <1>3, <1>6, StartRingIs
  <2>4. stream' = stream
    BY <1>1 DEF input
  <2>5. /\ CurUnits' = CurUnits /\ Cur' = CurUnits[upos + 1]
        /\ CurFrame' = stream[CurUnits[upos + 1].f]
        /\ FramesBehind' = Behind(stream, CurUnits, upos + 1)
        /\ FramesBehind = Behind(stream, CurUnits, upos)
    BY <2>1, <2>4, <1>3, Moves
  <2>6. /\ Cur'.k = "block" /\ Cur'.f = f /\ Cur'.i = 1 /\ CurFrame' = fr
        /\ FramesBehind' = FramesBehind /\ upos + 1 \in 1 .. Len(CurUnits)
    BY <2>5, <1>4, <1>9 DEF NextIs, Cur, CurFrame
  <2>7. CASE Admitted(fr)
    <3>1. pc' = "top" /\ UNCHANGED <<failed, todo, blk, result, zeros>>
      BY <2>1, <2>7
    <3>2. RingInv'
      <4>1. Written' = 0 /\ pc' # "write"
        BY <3>1 DEF Written
      <4>2. Outs(fr)[1 - 1] = 0
        BY <1>3, OutsAre
      <4>3. ring'.flushed <= ring'.end /\ ring'.end <= ring'.len
        BY <2>3, <1>6
      <4>4. stage'.decoded = Outs(CurFrame')[Cur'.i - 1]
        BY <4>2, <2>2, <2>6
      <4>5. RingFor(ring', CurFrame', stage'.decoded)
        BY <2>2, <2>3, <2>6
      <4>6. HistoryOf(ring', mem', Cur'.f, stage'.decoded + Written', ring'.end + Written')
        BY <4>1, <2>2, <2>3
      <4> QED BY <4>1, <4>3, <4>4, <4>5, <4>6 DEF RingInv
    <3> QED BY <3>1, <3>2, <2>1, <2>2, <2>3, <1>1, <1>2, <1>3, <1>4, <1>5, <1>9, InFrame
  <2>8. CASE ~Admitted(fr)
    <3>1. Fail
      BY <2>1, <2>8
    <3>2. TypeInv'
      <4>1. TypeInv /\ unit' \in Nat /\ upos' \in 1 .. Len(CurUnits) + 1
        BY <2>1, <1>1, <1>3 DEF IInv
      <4>2. mem' \in [0 .. ring'.len - 1 -> Int]
        BY <2>3, <1>1, <1>6
      <4> QED BY <4>1, <4>2, <3>1, <2>2, <2>3, <1>1, FailTypes
    <3>3. VerdictInv'
      <4>1. upos' > 1 /\ CurUnits'[upos' - 1].k = "header" /\ CurFrame'.window > WindowMax
        <5>1. (upos + 1) - 1 = upos /\ upos + 1 > 1
          BY <1>3
        <5>2. fr.window \in Nat /\ WindowMax \in Nat /\ ~(fr.window <= WindowMax)
          BY <2>8, <1>3, FrameIs, SizesAssumption DEF Admitted
        <5> QED BY <5>1, <5>2, <2>1, <2>5, <2>6, <1>3 DEF Cur
      <4>2. \A i \in BadUnits[stream] : upos + 1 <= i
        <5>1. \A i \in BadUnits[stream] : upos <= i
          BY DEF IInv, VerdictInv
        <5>2. BadUnits[stream] \subseteq Nat
          <6>1. DOMAIN Units[stream] \subseteq Nat
            BY <1>3 DEF Linked, CurUnits
          <6> QED BY <6>1, <1>3 DEF BadUnits
        <5> QED BY <5>1, <5>2, <1>3, <1>5, <1>9
      <4> QED BY <4>1, <4>2, <2>1, <2>4 DEF VerdictInv
    <3> QED BY <3>1, <3>2, <3>3, <2>3, <2>6, <1>1, <1>3, <1>6, FailKeeps
  <2> QED BY <2>7, <2>8
<1> QED BY <1>7, <1>8, <1>9

(* The history stays with the blocks of a frame.                           *)
LEMMA RingOn ==
  ASSUME RingInv, InBlocks, pc # "write", pc' # "write", ring' = ring, mem' = mem,
         stage'.decoded = stage.decoded, Cur'.f = Cur.f, Cur'.i = Cur.i, CurFrame' = CurFrame
  PROVE  RingInv'
<1>1. Written' = 0 /\ Written = 0
  BY DEF Written
<1>2. /\ stage.decoded = Outs(CurFrame)[Cur.i - 1]
      /\ RingFor(ring, CurFrame, stage.decoded)
      /\ HistoryOf(ring, mem, Cur.f, stage.decoded + 0, ring.end + 0)
      /\ ring.flushed <= ring.end /\ ring.end <= ring.len
  BY <1>1 DEF RingInv
<1> QED BY <1>1, <1>2 DEF RingInv

(* A block's header is read.                                               *)
LEMMA BlockHeaderKeeps ==
  ASSUME IInv, BlockHeader
  PROVE  IInv'
<1>1. pc = "block" /\ unit' = 0 /\ UNCHANGED <<input, left, room, out, ring, mem, frame_ended>>
  BY DEF BlockHeader
<1>2. AtWhole
  BY <1>1, AtWholeIs DEF UnitStages
<1>3. /\ ~failed /\ Cur.k = "block" /\ ~frame_ended /\ stream \in Streams /\ stage.k = "block"
      /\ upos \in 1 .. Len(CurUnits) /\ upos \in Nat /\ Len(CurUnits) \in Nat
      /\ Linked(stream, CurUnits) /\ ring.flushed = ring.end
  BY <1>1, <1>2 DEF AtWhole, IInv, PlaceInv, UnitStages
<1>4. /\ ContentPos(stream, CurUnits, upos + 1) = ContentPos(stream, CurUnits, upos)
      /\ NextIs(stream, CurUnits, upos, "content", Cur.i)
  BY <1>3, AfterBlock DEF Cur
<1>5. upos \in BadUnits[stream] <=> HeaderFails(CurBlock)
  BY <1>3, BadIs DEF Cur, CurFrame, CurUnits, CurBlock
<1>6. ring \in RingSet /\ mem \in [0 .. ring.len - 1 -> Int] /\ ring.end <= ring.len
      /\ ring.flushed <= ring.end /\ stage \in StageSet
  BY DEF IInv, TypeInv, RingInv
<1>7. CASE HeaderFails(CurBlock)
  <2>1. Fail /\ UNCHANGED <<upos, stage>>
    BY <1>7 DEF BlockHeader
  <2>2. ring' = ring /\ mem' = mem /\ stage' = stage /\ upos' = upos /\ unit' \in Nat
        /\ frame_ended' = frame_ended
    BY <2>1, <1>1
  <2> QED BY <2>1, <2>2, <1>1, <1>3, <1>5, <1>6, <1>7, FailsHere
<1>8. CASE ~HeaderFails(CurBlock)
  <2>1. /\ stage' = [stage EXCEPT !.k = "content"] /\ upos' = upos + 1 /\ pc' = "top"
        /\ UNCHANGED <<failed, todo, blk, result, zeros>>
    BY <1>8 DEF BlockHeader
  <2>2. stage' \in StageSet /\ stage'.k = "content" /\ stage'.decoded = stage.decoded
    BY <2>1, <1>6 DEF StageSet, Stages
  <2>3. Cur' = CurUnits[upos + 1] /\ CurFrame' = stream[CurUnits[upos + 1].f]
    <3>1. stream' = stream
      BY <1>1 DEF input
    <3> QED BY <3>1, <2>1, <1>3, Moves
  <2>4. Cur'.f = Cur.f /\ Cur'.i = Cur.i /\ CurFrame' = CurFrame
    BY <2>3, <1>4 DEF NextIs, Cur, CurFrame
  <2>5. RingInv'
    BY <2>1, <2>2, <2>4, <1>1, <1>3, RingOn DEF IInv, InBlocks
  <2> QED BY <2>1, <2>2, <2>5, <1>1, <1>2, <1>3, <1>4, <1>5, <1>6, <1>8, InFrame
<1> QED BY <1>7, <1>8

(* A frame's checksum is read.                                             *)
LEMMA ChecksumKeeps ==
  ASSUME IInv, Checksum
  PROVE  IInv'
<1>1. pc = "checksum" /\ unit' = 0 /\ UNCHANGED <<input, left, room, out, ring, mem>>
  BY DEF Checksum
<1>2. AtWhole
  BY <1>1, AtWholeIs DEF UnitStages
<1>3. /\ ~failed /\ Cur.k = "checksum" /\ ~frame_ended /\ stream \in Streams /\ AtUnit
      /\ upos \in 1 .. Len(CurUnits) /\ upos \in Nat /\ Len(CurUnits) \in Nat
      /\ Linked(stream, CurUnits) /\ result.k = "none" /\ todo = 0
      /\ given - left = LensTo[upos] /\ Holds(stream, out, ring, mem, ContentAt)
  BY <1>1, <1>2 DEF AtWhole, IInv, PlaceInv, UnitStages
<1>4. /\ ContentPos(stream, CurUnits, upos + 1) = ContentAt
      /\ EndsFrame(stream, CurUnits, upos)
  BY <1>3, AfterEnd DEF Cur, ContentAt
<1>5. upos \in BadUnits[stream] <=> ~CurFrame.sum_ok
  BY <1>3, BadIs DEF Cur, CurFrame, CurUnits
<1>6. ring \in RingSet /\ mem \in [0 .. ring.len - 1 -> Int] /\ ring.end <= ring.len
      /\ ring.flushed <= ring.end /\ stage \in StageSet /\ blk \in BlkSet /\ left \in Nat
      /\ room \in Nat
  BY DEF IInv, TypeInv, RingInv
<1>7. CASE ~CurFrame.sum_ok
  <2>1. Fail /\ UNCHANGED <<upos, stage, frame_ended>>
    BY <1>7 DEF Checksum
  <2>2. ring' = ring /\ mem' = mem /\ stage' = stage /\ upos' = upos /\ unit' \in Nat
        /\ frame_ended' = frame_ended
    BY <2>1, <1>1
  <2> QED BY <2>1, <2>2, <1>1, <1>3, <1>5, <1>6, <1>7, FailsHere
<1>8. CASE CurFrame.sum_ok
  <2>1. /\ stage' = AtHeader /\ upos' = upos + 1 /\ pc' = "top" /\ frame_ended' = TRUE
        /\ UNCHANGED <<failed, todo, blk, result, zeros>>
    BY <1>8 DEF Checksum
  <2>2. stream' = stream /\ given' = given /\ dict' = dict /\ left' = left /\ room' = room
        /\ out' = out /\ ring' = ring /\ mem' = mem
    BY <1>1 DEF input
  <2>3. Holds(stream, out', ring', mem', ContentPos(stream, CurUnits, upos + 1))
    BY <2>2, <1>3, <1>4
  <2> QED BY <2>1, <2>2, <2>3, <1>1, <1>3, <1>4, <1>5, <1>6, <1>8, EndKeeps
<1> QED BY <1>7, <1>8

-----------------------------------------------------------------------------
(* Blocks.                                                                 *)

(* A block's history is one of the kinds.                                  *)
LEMMA ExtIs ==
  ASSUME NEW r \in RingSet
  PROVE  ExtOf(r) \in [k: {"none", "dict", "ring"}, len: Nat]
<1>1. r.end \in Nat /\ r.window \in Nat /\ r.ext_end \in Nat
  BY RingFields
<1>2. CASE r.end > r.window
  <2>1. ~(r.end <= r.window)
    BY <1>1, <1>2
  <2>2. ExtOf(r) = [k |-> "none", len |-> 0]
    BY <1>2, <2>1 DEF ExtOf
  <2> QED BY <2>2
<1>3. CASE r.end <= r.window /\ r.ext_end = 0
  <2> DEFINE l == IF dict THEN DictLen ELSE 0
  <2>1. l \in Nat
    BY SizesAssumption
  <2>2. ~(r.end > r.window)
    BY <1>1, <1>3
  <2>3. ExtOf(r) = [k |-> "dict", len |-> l]
    BY <1>3, <2>2 DEF ExtOf
  <2> HIDE DEF l
  <2> QED BY <2>1, <2>3
<1>4. CASE r.end <= r.window /\ r.ext_end # 0
  <2> DEFINE e == r.ext_end
  <2>1. ~(r.end > r.window)
    BY <1>1, <1>4
  <2>2. ExtOf(r) = [k |-> "ring", len |-> e]
    BY <1>4, <2>1 DEF ExtOf
  <2>3. e \in Nat
    BY <1>1
  <2> HIDE DEF e
  <2> QED BY <2>2, <2>3
<1> QED BY <1>1, <1>2, <1>3, <1>4

(* A block's destination.                                                  *)
LEMMA WriteStarts ==
  ASSUME IInv, InBlocks, AtUnit, pc # "write", NEW r, WrittenOut(r, ring), r.flushed = r.end,
         ring' = Dst(r), mem' = DstMem(r, mem), blk' = [j |-> 0, ext |-> ExtOf(Dst(r))],
         pc' = "write", stage'.decoded = stage.decoded, dict' = dict,
         Cur'.f = Cur.f, Cur'.i = Cur.i, CurFrame' = CurFrame
  PROVE  /\ RingInv' /\ ring' \in RingSet /\ mem' \in [0 .. ring'.len - 1 -> Int]
         /\ blk' \in BlkSet /\ ring'.flushed = ring'.end
<1> DEFINE n == stage.decoded
           f == Cur.f
           fr == CurFrame
<1>1. Written = 0
  BY DEF Written
<1>2. /\ n = Outs(fr)[Cur.i - 1] /\ RingFor(ring, fr, n)
      /\ HistoryOf(ring, mem, f, n + 0, ring.end + 0)
      /\ ring.flushed <= ring.end /\ ring.end <= ring.len
  BY <1>1 DEF IInv, RingInv
<1>3. ring \in RingSet /\ mem \in [0 .. ring.len - 1 -> Int] /\ n \in Nat /\ ring.end \in Nat
  <2>1. ring \in RingSet /\ mem \in [0 .. ring.len - 1 -> Int] /\ stage \in StageSet
    BY DEF IInv, TypeInv
  <2> QED BY <2>1, RingFields DEF StageSet
<1>4. fr \in FrameSet /\ CurBlock.out \in Nat
  <2>1. upos \in 1 .. Len(CurUnits) /\ stream \in Streams /\ Linked(stream, CurUnits)
    BY HereIs DEF IInv, Here
  <2>2. Cur.k \in {"block", "content"}
    BY DEF IInv, PlaceInv, InBlocks
  <2> QED BY <2>1, <2>2, AtContent DEF Cur, CurFrame, CurBlock
<1>5. r \in RingSet /\ r.len = ring.len
  BY DEF WrittenOut
<1>6. RingFor(r, fr, n)
  BY <1>2 DEF RingFor, WrittenOut
<1>7. HistoryOf(r, mem, f, n, r.end)
  <2>1. n + 0 = n /\ ring.end + 0 = ring.end
    BY <1>3
  <2>2. HistoryOf(ring, mem, f, n, ring.end)
    BY <2>1, <1>2
  <2> QED BY <2>2 DEF HistoryOf, WrittenOut
<1>8. mem \in [0 .. r.len - 1 -> Int]
  BY <1>3, <1>5
<1> HIDE DEF n, f, fr
<1>9. /\ Dst(r) \in RingSet /\ DstMem(r, mem) \in [0 .. Dst(r).len - 1 -> Int]
      /\ RingFor(Dst(r), fr, n) /\ HistoryOf(Dst(r), DstMem(r, mem), f, n, Dst(r).end)
      /\ Dst(r).end + BlockRoom <= Dst(r).len /\ Dst(r).flushed = Dst(r).end
  BY <1>3, <1>4, <1>5, <1>6, <1>7, <1>8, DstIs
<1>10. blk' \in BlkSet /\ blk'.j = 0 /\ blk'.ext = ExtOf(ring')
  <2> DEFINE e == ExtOf(Dst(r))
  <2>1. e \in [k: {"none", "dict", "ring"}, len: Nat]
    BY <1>9, ExtIs
  <2> HIDE DEF e
  <2>2. blk' = [j |-> 0, ext |-> e]
    BY DEF e
  <2>3. blk' \in BlkSet /\ blk'.j = 0 /\ blk'.ext = e
    BY <2>1, <2>2 DEF BlkSet
  <2> QED BY <2>3 DEF e
<1>11. ring'.end \in Nat /\ ring'.len \in Nat /\ BlockRoom \in Nat
  BY <1>9, RingFields, SizesAssumption DEF BlockRoom
<1>12. RingInv'
  <2>1. ring'.flushed <= ring'.end /\ ring'.end <= ring'.len
    BY <1>9, <1>11
  <2>2. Written' = 0
    BY <1>10 DEF Written
  <2>3. stage'.decoded = Outs(CurFrame')[Cur'.i - 1] /\ RingFor(ring', CurFrame', stage'.decoded)
    BY <1>2, <1>9 DEF n, fr
  <2>4. HistoryOf(ring', mem', Cur'.f, stage'.decoded + Written', ring'.end + Written')
    <3>1. stage'.decoded + Written' = n /\ ring'.end + Written' = ring'.end
      BY <2>2, <1>3, <1>11 DEF n
    <3> QED BY <3>1, <1>9 DEF f
  <2>5. blk'.ext = ExtOf(ring)'
    BY <1>10 DEF ExtOf
  <2>6. CurBlock' = CurBlock
    BY DEF CurBlock
  <2>7. blk'.j <= CurBlock'.out
    BY <2>6, <1>4, <1>10
  <2>8. ring'.end + BlockRoom <= ring'.len
    BY <1>9
  <2> QED BY <2>1, <2>3, <2>4, <2>5, <2>7, <2>8 DEF RingInv
<1> QED BY <1>9, <1>10, <1>12

(* A block begins to be written.                                           *)
LEMMA WriteKeeps ==
  ASSUME IInv, ~failed, failed' = failed, AtUnit, InBlocks, ~frame_ended, result.k = "none",
         pc # "write", pc' = "write", stream' = stream, given' = given, dict' = dict,
         NEW r, WrittenOut(r, ring), r.flushed = r.end, Holds(stream, out', r, mem, ContentAt),
         ring' = Dst(r), mem' = DstMem(r, mem), blk' = [j |-> 0, ext |-> ExtOf(Dst(r))],
         stage' \in StageSet, stage'.k = "block", stage'.decoded = stage.decoded,
         upos' \in 1 .. Len(CurUnits), Cur'.k = "content", Cur'.f = Cur.f, Cur'.i = Cur.i,
         CurFrame' = CurFrame, ContentAt' = ContentAt, FramesBehind' = FramesBehind,
         unit' = 0, todo' \in Nat, left' \in Nat, room' \in Nat, zeros' = zeros,
         result' = result, frame_ended' = frame_ended, given - left' = LensTo[upos'],
         BatchInv', VerdictInv'
  PROVE  IInv'
<1>1. CurUnits' = CurUnits /\ LensTo' = LensTo
  BY DEF CurUnits, LensTo
<1>2. AtUnit' /\ upos' \in 1 .. Len(CurUnits') + 1
  <2>1. Len(CurUnits) \in Nat
    BY HereIs DEF IInv, Here
  <2> QED BY <2>1, <1>1 DEF AtUnit
<1>3. /\ RingInv' /\ ring' \in RingSet /\ mem' \in [0 .. ring'.len - 1 -> Int]
      /\ blk' \in BlkSet /\ ring'.flushed = ring'.end
  BY WriteStarts
<1>4. out' \in Seq(Int)
  BY DEF Holds
<1>5. TypeInv'
  BY <1>1, <1>2, <1>3, <1>4 DEF IInv, TypeInv, Places
<1>6. PlaceInv'
  BY <1>1, <1>2 DEF PlaceInv, UnitStages
<1>7. RestInv'
  BY DEF RestInv
<1>8. BytesInv'
  <2>1. given <= StreamLen[stream]
    BY DEF IInv, BytesInv
  <2> QED BY <2>1, <1>1 DEF BytesInv
<1>9. DeliverInv'
  <2>1. Pending' = 0
    BY <1>3, RingFields DEF Pending
  <2>2. r \in RingSet
    BY DEF WrittenOut
  <2>3. Holds(stream, out', ring', mem', ContentAt)
    BY <2>2, <1>3, HoldsEmpty
  <2>4. Holds(stream, out, ring, mem, ContentAt)'
    BY <2>3
  <2> QED BY <2>1, <2>4, HoldsDelivers
<1>10. ReportInv'
  BY DEF IInv, ReportInv
<1> QED BY <1>3, <1>5, <1>6, <1>7, <1>8, <1>9, <1>10 DEF IInv

(* A block's content came as a unit of its own.                            *)
LEMMA BlockContentKeeps ==
  ASSUME IInv, BlockContent
  PROVE  IInv'
<1>1. /\ pc = "content" /\ unit' = 0 /\ stage' = [stage EXCEPT !.k = "block"] /\ todo' = 1
      /\ BlockDst /\ pc' = "write"
      /\ UNCHANGED <<input, upos, left, room, out, frame_ended, failed, result, zeros>>
  BY DEF BlockContent
<1>2. AtWhole
  BY <1>1, AtWholeIs DEF UnitStages
<1>3. /\ ~failed /\ Cur.k = "content" /\ ~frame_ended /\ stream \in Streams /\ stage.k = "content"
      /\ upos \in 1 .. Len(CurUnits) /\ upos \in Nat /\ Len(CurUnits) \in Nat /\ AtUnit
      /\ Linked(stream, CurUnits) /\ ring.flushed = ring.end /\ result.k = "none"
      /\ given - left = LensTo[upos] /\ Holds(stream, out, ring, mem, ContentAt)
      /\ UnitAt(stream, CurUnits, upos)
  BY <1>1, <1>2 DEF AtWhole, IInv, PlaceInv, UnitStages
<1>4. /\ stream' = stream /\ given' = given /\ dict' = dict /\ upos' = upos /\ left' = left
      /\ room' = room /\ out' = out /\ frame_ended' = frame_ended /\ failed' = failed
      /\ result' = result /\ zeros' = zeros
  BY <1>1 DEF input
<1>5. /\ CurUnits' = CurUnits /\ Cur' = Cur /\ CurFrame' = CurFrame /\ LensTo' = LensTo
      /\ ContentAt' = ContentAt /\ FramesBehind' = FramesBehind /\ VerdictInv'
  BY <1>4, Stays DEF IInv
<1>6. ring \in RingSet /\ stage \in StageSet /\ left \in Nat /\ room \in Nat
      /\ ring.flushed <= ring.end
  BY DEF IInv, TypeInv, RingInv
<1>7. WrittenOut(ring, ring)
  BY <1>6 DEF WrittenOut
<1>8. ring' = Dst(ring) /\ mem' = DstMem(ring, mem) /\ blk' = [j |-> 0, ext |-> ExtOf(Dst(ring))]
  BY <1>1 DEF BlockDst, Dst, DstMem
<1>9. stage' \in StageSet /\ stage'.k = "block" /\ stage'.decoded = stage.decoded
  BY <1>1, <1>6 DEF StageSet, Stages
<1>10. BatchInv'
  <2>1. Cur.i \in 1 .. Len(CurFrame.blocks) /\ CurFrame \in FrameSet
    BY <1>3, AtContent DEF Cur, CurFrame
  <2>2. Len(CurFrame.blocks) \in Nat
    BY <2>1, FrameIs
  <2>3. upos + 2 * (1 - 1) = upos /\ LensTo[upos] \in Nat
    BY <1>3 DEF UnitAt, LensTo
  <2>4. Cur.i + 1 <= Len(CurFrame.blocks) + 1 /\ Cur.i + 1 .. Cur.i + 1 - 1 = {}
    BY <2>1, <2>2
  <2>5. LensTo[upos + 2 * (1 - 1)] - LensTo[upos] = 0
    BY <2>3
  <2> QED BY <2>4, <2>5, <1>1, <1>4, <1>5, <1>6 DEF BatchInv
<1>11. InBlocks
  BY <1>3 DEF InBlocks
<1>12. Holds(stream, out', ring, mem, ContentAt)
  BY <1>3, <1>4
<1>13. given - left' = LensTo[upos'] /\ todo' \in Nat
  BY <1>1, <1>3, <1>4
<1> QED BY <1>1, <1>3, <1>4, <1>5, <1>6, <1>7, <1>8, <1>9, <1>10, <1>11, <1>12, <1>13, WriteKeeps

(* A whole block is read from the input.                                   *)
LEMMA ReadsBlock ==
  ASSUME IInv, ~failed, failed' = failed, AtUnit, Cur.k = "block", stage.k = "block", unit = 0,
         pc # "write", pc' = "write", stream' = stream, upos' = upos + 1,
         NEW k \in Nat, k >= 1, todo' = k, Cur.i + k <= Len(CurFrame.blocks) + 1,
         left >= LensTo[upos + 2 * k - 1] - LensTo[upos - 1],
         \A i \in Cur.i .. Cur.i + k - 1 : ~HeaderFails(CurFrame.blocks[i]),
         left' = left - Cur.len - CurUnits[upos + 1].len
  PROVE  /\ left' \in Nat /\ given - left' = LensTo[upos'] /\ BatchInv' /\ VerdictInv'
         /\ upos' \in 1 .. Len(CurUnits) /\ Cur'.k = "content" /\ Cur'.f = Cur.f
         /\ Cur'.i = Cur.i /\ CurFrame' = CurFrame /\ ContentAt' = ContentAt
         /\ FramesBehind' = FramesBehind
<1>1. /\ upos \in 1 .. Len(CurUnits) /\ upos \in Nat /\ stream \in Streams
      /\ Len(CurUnits) \in Nat /\ CurUnits \in Seq(UnitSet)
      /\ Linked(stream, CurUnits) /\ UnitAt(stream, CurUnits, upos)
  BY HereIs DEF IInv, Here
<1>2. /\ NextIs(stream, CurUnits, upos, "content", Cur.i)
      /\ ContentPos(stream, CurUnits, upos + 1) = ContentPos(stream, CurUnits, upos)
      /\ Cur.i \in 1 .. Len(CurFrame.blocks)
  BY <1>1, AfterBlock DEF Cur, CurFrame
<1>3. /\ CurUnits' = CurUnits /\ LensTo' = LensTo /\ Cur' = CurUnits[upos + 1]
      /\ CurFrame' = stream[CurUnits[upos + 1].f]
      /\ ContentAt' = ContentPos(stream, CurUnits, upos + 1)
      /\ FramesBehind' = Behind(stream, CurUnits, upos + 1)
      /\ ContentAt = ContentPos(stream, CurUnits, upos)
      /\ FramesBehind = Behind(stream, CurUnits, upos)
  BY <1>1, Moves
<1>4. /\ upos + 1 \in 1 .. Len(CurUnits) /\ Cur'.k = "content" /\ Cur'.f = Cur.f
      /\ Cur'.i = Cur.i /\ CurFrame' = CurFrame /\ ContentAt' = ContentAt
      /\ FramesBehind' = FramesBehind
  BY <1>2, <1>3 DEF NextIs, Cur, CurFrame
<1> DEFINE v == upos + 2 * k - 1
           A == LensTo[upos - 1]
           B == LensTo[upos]
           C == LensTo[upos + 1]
           D == LensTo[v]
           a == Cur.len
           b == CurUnits[upos + 1].len
<1>5. v \in 0 .. Len(CurUnits)
  BY <1>1, BlockBytesAre DEF Cur, CurFrame
<1>6. A \in Nat /\ a \in Nat /\ b \in Nat /\ B = A + a /\ C = B + b /\ D \in Nat /\ C <= D
  <2>1. UnitAt(stream, CurUnits, upos + 1) /\ (upos + 1) - 1 = upos
    BY <1>1, <1>4, UnitAtIs
  <2>2. A \in Nat /\ a \in Nat /\ B = A + a
    BY <1>1 DEF UnitAt, LensTo, Cur
  <2>3. b \in Nat /\ C = B + b
    <3>1. LensOf(CurUnits)[upos + 1] = LensOf(CurUnits)[(upos + 1) - 1] + CurUnits[upos + 1].len
          /\ CurUnits[upos + 1].len \in Nat
      BY <2>1 DEF UnitAt
    <3> QED BY <3>1, <2>1 DEF LensTo
  <2>4. D \in Nat
    BY <1>1, <1>5, LensAre DEF LensTo
  <2>5. C <= D
    <3>1. upos + 1 \in 0 .. Len(CurUnits) /\ v \in upos + 1 .. Len(CurUnits)
      BY <1>1, <1>4, <1>5
    <3> HIDE DEF v
    <3> QED BY <3>1, <1>1, LensAre DEF LensTo
  <2> QED BY <2>2, <2>3, <2>4, <2>5
<1>7. given - left = A + 0 + 0 /\ left \in Nat /\ given \in Nat /\ left >= D - A
  BY DEF IInv, BytesInv, TypeInv
<1>8. left' \in Nat /\ given - left' = C /\ left' >= D - C
  <2>1. left' = left - a - b
    OBVIOUS
  <2> HIDE DEF A, B, C, D, a, b
  <2> QED BY <2>1, <1>6, <1>7
<1>9. Len(CurFrame.blocks) \in Nat /\ Cur.i \in Nat
  <2>1. CurFrame \in FrameSet
    BY <1>1, AtContent DEF Cur, CurFrame
  <2> QED BY <2>1, <1>2, FrameIs
<1>10. BatchInv'
  <2>1. upos' + 2 * (todo' - 1) = v
    BY <1>1
  <2>2. left' >= LensTo'[upos' + 2 * (todo' - 1)] - LensTo'[upos']
    BY <2>1, <1>3, <1>8
  <2>3. \A i \in Cur.i + 1 .. Cur.i + k - 1 : i \in Cur.i .. Cur.i + k - 1
    BY <1>9
  <2>4. \A i \in Cur'.i + 1 .. Cur'.i + todo' - 1 : ~HeaderFails(CurFrame'.blocks[i])
    BY <2>3, <1>4
  <2>5. todo' >= 1 /\ Cur'.i + todo' <= Len(CurFrame'.blocks) + 1
    BY <1>4
  <2>6. pc' # "next"
    OBVIOUS
  <2> QED BY <2>2, <2>4, <2>5, <2>6 DEF BatchInv
<1>11. upos \notin BadUnits[stream]
  <2>1. Cur.i \in Cur.i .. Cur.i + k - 1
    BY <1>9
  <2>2. ~HeaderFails(stream[Cur.f].blocks[Cur.i])
    BY <2>1 DEF CurFrame
  <2> QED BY <2>2, <1>1, BadIs DEF Cur, CurUnits
<1>12. VerdictInv'
  BY <1>11, PastGood
<1> QED BY <1>4, <1>8, <1>10, <1>12

(* A batch of whole blocks begins.                                         *)
LEMMA BatchKeeps ==
  ASSUME IInv, Batch
  PROVE  IInv'
<1> DEFINE k == LocatedFrom(CurFrame, Cur.i, left, BatchRoom)
<1>1. /\ pc = "unit" /\ todo' = k /\ k > 0 /\ unit = 0 /\ stage.k = "block"
      /\ left' = left - Cur.len - CurUnits[upos + 1].len /\ upos' = upos + 1
      /\ BlockDst /\ pc' = "write"
      /\ UNCHANGED <<input, room, out, stage, unit, frame_ended, failed, result, zeros>>
  BY DEF Batch, Batchable, ReadWhole
<1>2. /\ stream' = stream /\ given' = given /\ dict' = dict
      /\ room' = room /\ out' = out /\ frame_ended' = frame_ended /\ failed' = failed
      /\ result' = result /\ zeros' = zeros /\ stage' = stage /\ unit' = unit
  BY <1>1 DEF input
<1>3. /\ ~failed /\ AtUnit /\ Cur.k = "block" /\ ~frame_ended /\ result.k = "none" /\ Pending = 0
  BY <1>1 DEF IInv, PlaceInv, DeliverInv
<1>4. /\ upos \in 1 .. Len(CurUnits) /\ stream \in Streams /\ Linked(stream, CurUnits)
  BY <1>3, HereIs DEF IInv, Here
<1>5. /\ CurFrame \in FrameSet /\ Cur.i \in 1 .. Len(CurFrame.blocks)
  BY <1>3, <1>4, AtContent DEF Cur, CurFrame
<1>6. ring \in RingSet /\ stage \in StageSet /\ left \in Nat /\ room \in Nat
      /\ ring.flushed <= ring.end
  BY DEF IInv, TypeInv, RingInv
<1>7. /\ k \in 0 .. Len(CurFrame.blocks) + 1 - Cur.i
      /\ BlockBytes(CurFrame, Cur.i)[k] <= left
      /\ \A j \in 1 .. k : ~HeaderFails(CurFrame.blocks[Cur.i + j - 1])
  BY <1>5, <1>6, LocatedIs
<1> HIDE DEF k
<1>8. Len(CurFrame.blocks) \in Nat /\ Cur.i \in Nat
  BY <1>5, FrameIs
<1>9. k \in Nat /\ k >= 1 /\ Cur.i + k <= Len(CurFrame.blocks) + 1
  BY <1>1, <1>7, <1>8
<1>10. left >= LensTo[upos + 2 * k - 1] - LensTo[upos - 1]
  <2>1. /\ upos + 2 * k - 1 \in 0 .. Len(CurUnits)
        /\ BlockBytes(CurFrame, Cur.i)[k] = LensTo[upos + 2 * k - 1] - LensTo[upos - 1]
    BY <1>3, <1>4, <1>9, BlockBytesAre DEF Cur, CurFrame, LensTo
  <2>2. LensTo[upos + 2 * k - 1] \in Nat /\ LensTo[upos - 1] \in Nat
    <3>1. CurUnits \in Seq(UnitSet) /\ LensTo[upos - 1] \in Nat
      BY HereIs DEF IInv, Here
    <3> QED BY <3>1, <2>1, LensAre DEF LensTo
  <2> DEFINE x == LensTo[upos + 2 * k - 1] - LensTo[upos - 1]
  <2>3. x \in Int /\ x <= left
    BY <2>1, <2>2, <1>7
  <2> HIDE DEF x
  <2>4. left >= x
    BY <2>3, <1>6
  <2> QED BY <2>4 DEF x
<1>11. \A i \in Cur.i .. Cur.i + k - 1 : ~HeaderFails(CurFrame.blocks[i])
  <2> SUFFICES ASSUME NEW i \in Cur.i .. Cur.i + k - 1 PROVE ~HeaderFails(CurFrame.blocks[i])
    OBVIOUS
  <2>1. (i - Cur.i) + 1 \in 1 .. k /\ Cur.i + ((i - Cur.i) + 1) - 1 = i
    BY <1>8, <1>9
  <2> QED BY <2>1, <1>7
<1>12. /\ left' \in Nat /\ given - left' = LensTo[upos'] /\ BatchInv' /\ VerdictInv'
       /\ upos' \in 1 .. Len(CurUnits) /\ Cur'.k = "content" /\ Cur'.f = Cur.f
       /\ Cur'.i = Cur.i /\ CurFrame' = CurFrame /\ ContentAt' = ContentAt
       /\ FramesBehind' = FramesBehind
  BY <1>1, <1>2, <1>3, <1>9, <1>10, <1>11, ReadsBlock
<1>13. WrittenOut(ring, ring) /\ ring.flushed = ring.end
  BY <1>3, <1>6, RingFields DEF WrittenOut, Pending
<1>14. ring' = Dst(ring) /\ mem' = DstMem(ring, mem) /\ blk' = [j |-> 0, ext |-> ExtOf(Dst(ring))]
  BY <1>1 DEF BlockDst, Dst, DstMem
<1>15. Holds(stream, out', ring, mem, ContentAt)
  BY <1>2, <1>3 DEF IInv, TypeInv, DeliverInv, Holds, Pending
<1>16. InBlocks /\ unit' = 0 /\ todo' \in Nat
  BY <1>1, <1>2, <1>3, <1>9 DEF InBlocks
<1> QED BY <1>1, <1>2, <1>3, <1>6, <1>12, <1>13, <1>14, <1>15, <1>16, WriteKeeps

(* The next block of a batch.                                              *)
LEMMA NextOfBatchKeeps ==
  ASSUME IInv, NextOfBatch
  PROVE  IInv'
<1> DEFINE n == FlushLen
           r == [ring EXCEPT !.flushed = @ + n]
<1>1. /\ pc = "next" /\ Flush(n)
      /\ UNCHANGED <<input, stage, unit, frame_ended, failed, result, zeros>>
  BY DEF NextOfBatch
<1>2. IF n < Pending
      THEN todo' = 0 /\ pc' = "top" /\ ring' = r /\ UNCHANGED <<left, upos, mem, blk>>
      ELSE /\ left' = left - Cur.len - CurUnits[upos + 1].len
           /\ upos' = upos + 1
           /\ ring' = Wrapped(Grown(r))
           /\ mem' = [p \in 0 .. Grown(r).len - 1 |-> IF p < ring.len THEN mem[p] ELSE Junk]
           /\ blk' = [j |-> 0, ext |-> ExtOf(Wrapped(Grown(r)))]
           /\ pc' = "write"
           /\ UNCHANGED todo
  BY Zenon DEF NextOfBatch, StopsBatch
<1>3. /\ stream' = stream /\ given' = given /\ dict' = dict
      /\ frame_ended' = frame_ended /\ failed' = failed
      /\ result' = result /\ zeros' = zeros /\ stage' = stage /\ unit' = unit
  BY <1>1 DEF input
<1>4. /\ ~failed /\ AtUnit /\ Cur.k = "block" /\ ~frame_ended /\ result.k = "none" /\ unit = 0
      /\ stage.k = "block"
  BY <1>1 DEF IInv, PlaceInv
<1>5. InBlocks
  BY <1>4 DEF InBlocks
<1>7. /\ n \in Nat /\ n <= Pending /\ Pending \in Nat /\ room' \in Nat
      /\ WrittenOut(r, ring) /\ r.end - r.flushed = Pending - n
      /\ Holds(stream, out', r, mem, ContentAt)
  BY <1>1, <1>4, Flushed DEF IInv
<1> HIDE DEF r, n
<1>8. CASE n < Pending
  <2>1. /\ todo' = 0 /\ pc' = "top" /\ ring' = r /\ left' = left /\ upos' = upos /\ mem' = mem
        /\ blk' = blk
    BY <1>2, <1>8
  <2>2. /\ CurUnits' = CurUnits /\ Cur' = Cur /\ CurFrame' = CurFrame
        /\ LensTo' = LensTo /\ AtUnit' = AtUnit /\ ContentAt' = ContentAt
        /\ FramesBehind' = FramesBehind
    BY <2>1, <1>3, Stays
  <2>3. TypeInv'
    <3>1. ring' \in RingSet /\ ring'.len = ring.len /\ out' \in Seq(Int)
      BY <2>1, <1>7 DEF WrittenOut, Holds
    <3>2. todo' \in Nat /\ pc' \in Places
      BY <2>1 DEF Places
    <3> QED BY <3>1, <3>2, <2>1, <2>2, <1>3, <1>7 DEF IInv, TypeInv
  <2>4. PlaceInv'
    BY <2>1, <2>2, <1>3, <1>4 DEF PlaceInv, UnitStages
  <2>5. RestInv'
    BY <2>1, <2>2, <1>3, <1>4 DEF RestInv
  <2>6. BytesInv'
    BY <2>1, <2>2, <1>1, <1>3 DEF IInv, BytesInv
  <2>7. BatchInv'
    BY <2>1 DEF BatchInv
  <2>8. RingInv'
    BY <2>1, <1>1, <1>3, <1>7, RingStays DEF IInv, WrittenOut
  <2>9. DeliverInv'
    <3>1. Holds(stream, out, ring, mem, ContentAt)'
      BY <2>1, <2>2, <1>3, <1>7
    <3>2. ~(\/ stage.k \in {"content", "skip"}
            \/ pc \in {"unit", "write"} \union UnitStages
            \/ stage.k = "header" /\ ~frame_ended)'
      BY <2>1, <1>3, <1>4 DEF UnitStages
    <3> QED BY <3>1, <3>2, HoldsDelivers
  <2>10. ReportInv'
    BY <2>1, <2>2, <1>3, <1>4 DEF IInv, ReportInv
  <2>11. VerdictInv'
    BY <2>1, <1>3, Stays DEF IInv
  <2> QED BY <2>3, <2>4, <2>5, <2>6, <2>7, <2>8, <2>9, <2>10, <2>11 DEF IInv
<1>9. CASE ~(n < Pending)
  <2>1. /\ left' = left - Cur.len - CurUnits[upos + 1].len /\ upos' = upos + 1
        /\ ring' = Dst(r) /\ blk' = [j |-> 0, ext |-> ExtOf(Dst(r))] /\ pc' = "write"
        /\ todo' = todo
        /\ mem' = [p \in 0 .. Grown(r).len - 1 |-> IF p < ring.len THEN mem[p] ELSE Junk]
    BY <1>2, <1>9 DEF Dst
  <2>2. mem' = DstMem(r, mem)
    BY <2>1, <1>7 DEF DstMem, WrittenOut
  <2>3. r.flushed = r.end
    <3>1. r \in RingSet /\ r.end - r.flushed = 0
      BY <1>7, <1>9 DEF WrittenOut
    <3> QED BY <3>1, RingFields
  <2>4. /\ todo >= 1 /\ Cur.i + todo <= Len(CurFrame.blocks) + 1
        /\ left >= LensTo[upos + 2 * todo - 1] - LensTo[upos - 1]
        /\ \A i \in Cur.i .. Cur.i + todo - 1 : ~HeaderFails(CurFrame.blocks[i])
        /\ todo \in Nat /\ stage \in StageSet
    BY <1>1 DEF IInv, BatchInv, TypeInv
  <2>5. /\ left' \in Nat /\ given - left' = LensTo[upos'] /\ BatchInv' /\ VerdictInv'
        /\ upos' \in 1 .. Len(CurUnits) /\ Cur'.k = "content" /\ Cur'.f = Cur.f
        /\ Cur'.i = Cur.i /\ CurFrame' = CurFrame /\ ContentAt' = ContentAt
        /\ FramesBehind' = FramesBehind
    BY <2>1, <2>4, <1>1, <1>3, <1>4, ReadsBlock
  <2>6. stage' \in StageSet /\ unit' = 0 /\ todo' \in Nat
    BY <2>1, <2>4, <1>3, <1>4
  <2> QED BY <2>1, <2>2, <2>3, <2>5, <2>6, <1>1, <1>3, <1>4, <1>5, <1>7, WriteKeeps
<1> QED BY <1>8, <1>9

\* What the invariant says while a block is written.
AtWrite ==
    /\ ~failed /\ AtUnit /\ Cur.k = "content" /\ stage.k = "block" /\ ~frame_ended
    /\ result.k = "none" /\ unit = 0 /\ InBlocks
    /\ upos \in 1 .. Len(CurUnits) /\ upos \in Nat /\ stream \in Streams /\ Len(CurUnits) \in Nat
    /\ Linked(stream, CurUnits) /\ UnitAt(stream, CurUnits, upos)
    /\ given - left = LensTo[upos]
    /\ ring \in RingSet /\ mem \in [0 .. ring.len - 1 -> Int] /\ stage \in StageSet
    /\ blk \in BlkSet /\ blk.j \in Nat /\ stage.decoded \in Nat /\ todo \in Nat
    /\ left \in Nat /\ room \in Nat
    /\ ring.flushed = ring.end /\ Holds(stream, out, ring, mem, ContentAt)
    /\ CurFrame \in FrameSet /\ FrameOk(CurFrame) /\ Cur.f \in Nat
    /\ Cur.i \in 1 .. Len(CurFrame.blocks) /\ Len(CurFrame.blocks) \in Nat
    /\ CurBlock.out \in Nat
    /\ stage.decoded = Outs(CurFrame)[Cur.i - 1]
    /\ RingFor(ring, CurFrame, stage.decoded)
    /\ HistoryOf(ring, mem, Cur.f, stage.decoded + blk.j, ring.end + blk.j)
    /\ ring.end + BlockRoom <= ring.len

(* It holds there.                                                         *)
LEMMA AtWriteIs ==
  ASSUME IInv, pc = "write"
  PROVE  AtWrite
<1>1. /\ ~failed /\ AtUnit /\ Cur.k = "content" /\ stage.k = "block" /\ ~frame_ended
      /\ result.k = "none" /\ unit = 0 /\ InBlocks
  BY DEF IInv, PlaceInv, InBlocks
<1>2. /\ upos \in 1 .. Len(CurUnits) /\ upos \in Nat /\ stream \in Streams
      /\ Len(CurUnits) \in Nat /\ Linked(stream, CurUnits) /\ UnitAt(stream, CurUnits, upos)
  BY <1>1, HereIs DEF IInv, Here
<1>3. given - left = LensTo[upos]
  BY <1>1 DEF IInv, BytesInv
<1>4. /\ ring \in RingSet /\ mem \in [0 .. ring.len - 1 -> Int] /\ stage \in StageSet
      /\ blk \in BlkSet /\ todo \in Nat /\ left \in Nat /\ room \in Nat
  BY DEF IInv, TypeInv
<1>5. blk.j \in Nat /\ stage.decoded \in Nat
  BY <1>4 DEF BlkSet, StageSet
<1>6. Pending = 0
  BY <1>1 DEF IInv, DeliverInv
<1>7. ring.flushed = ring.end
  BY <1>4, <1>6, RingFields DEF Pending
<1>8. Holds(stream, out, ring, mem, ContentAt)
  BY <1>1 DEF IInv, TypeInv, DeliverInv, Holds, Pending
<1>9. /\ CurFrame \in FrameSet /\ FrameOk(CurFrame) /\ Cur.f \in 1 .. Len(stream)
      /\ Cur.i \in 1 .. Len(CurFrame.blocks) /\ CurBlock.out \in Nat
  BY <1>1, <1>2, AtContent DEF Cur, CurFrame, CurBlock
<1>10. Len(CurFrame.blocks) \in Nat /\ Cur.f \in Nat
  <2>1. Len(stream) \in Nat
    BY <1>2, StreamIs
  <2> QED BY <2>1, <1>9, FrameIs
<1>11. Written = blk.j
  BY DEF Written
<1>12. /\ stage.decoded = Outs(CurFrame)[Cur.i - 1] /\ RingFor(ring, CurFrame, stage.decoded)
       /\ HistoryOf(ring, mem, Cur.f, stage.decoded + blk.j, ring.end + blk.j)
       /\ ring.end + BlockRoom <= ring.len
  BY <1>1, <1>11 DEF IInv, RingInv
<1> QED BY <1>1, <1>2, <1>3, <1>4, <1>5, <1>7, <1>8, <1>9, <1>10, <1>12 DEF AtWrite

(* A block that decodes is no larger than the window and a block.          *)
LEMMA OutMost ==
  ASSUME AtWrite, CurBlock.fault = "none"
  PROVE  CurBlock.out <= CurFrame.window /\ CurBlock.out <= MaxBlock
<1>1. CurFrame.window \in Nat /\ MaxBlock \in Nat /\ CurBlock.out \in Nat
  BY SizesAssumption DEF AtWrite, FrameSet
<1>2. Cur.i \in DOMAIN CurFrame.blocks
  BY FrameIs DEF AtWrite
<1>3. CurBlock.out <= BlockSizeMax(CurFrame)
  BY <1>2 DEF AtWrite, FrameOk, CurBlock
<1> QED BY <1>1, <1>3 DEF BlockSizeMax, Least

(* A byte of a block is written.                                           *)
LEMMA WriteByteKeeps ==
  ASSUME IInv, WriteByte
  PROVE  IInv'
<1> DEFINE j == blk.j
           n == stage.decoded
           f == Cur.f
           fr == CurFrame
           m == PutMem(mem, ring.end + j, Token(f, n + j + 1))
<1>1. /\ pc = "write" /\ CurBlock.fault = "none" /\ j < CurBlock.out
      /\ blk' = [blk EXCEPT !.j = @ + 1]
      /\ UNCHANGED <<input, upos, left, room, out, stage, unit, ring, frame_ended, failed, todo,
                     result, zeros, pc>>
  BY DEF WriteByte
<1>2. mem' = m
  BY DEF WriteByte, PutMem
<1>3. AtWrite
  BY <1>1, AtWriteIs
<1>4. /\ stream' = stream /\ given' = given /\ dict' = dict /\ upos' = upos /\ left' = left
      /\ room' = room /\ out' = out /\ stage' = stage /\ unit' = unit /\ ring' = ring
      /\ frame_ended' = frame_ended /\ failed' = failed /\ todo' = todo /\ result' = result
      /\ zeros' = zeros /\ pc' = pc
  BY <1>1 DEF input
<1>5. /\ CurUnits' = CurUnits /\ Cur' = Cur /\ CurFrame' = CurFrame /\ CurBlock' = CurBlock
      /\ LensTo' = LensTo /\ AtUnit' = AtUnit /\ ContentAt' = ContentAt
      /\ FramesBehind' = FramesBehind /\ VerdictInv'
  BY <1>4, Stays DEF IInv
<1>6. CurBlock.out <= MaxBlock /\ CurBlock.out \in Nat /\ MaxBlock \in Nat /\ j \in Nat
  BY <1>1, <1>3, OutMost, SizesAssumption DEF AtWrite
<1>7. j < MaxBlock /\ j + 1 <= CurBlock.out
  BY <1>1, <1>6
<1>8. /\ m \in [0 .. ring.len - 1 -> Int]
      /\ HistoryOf(ring, m, f, n + (j + 1), ring.end + (j + 1))
  <2>1. /\ ring \in RingSet /\ fr \in FrameSet /\ n \in Nat /\ RingFor(ring, fr, n)
        /\ mem \in [0 .. ring.len - 1 -> Int] /\ f \in Nat
        /\ ring.end + BlockRoom <= ring.len /\ HistoryOf(ring, mem, f, n + j, ring.end + j)
    BY <1>3 DEF AtWrite
  <2> HIDE DEF j, n, f, fr
  <2> QED BY <2>1, <1>6, <1>7, WriteHistory
<1>9. blk' \in BlkSet /\ blk'.j = j + 1 /\ blk'.ext = blk.ext
  <2>1. blk \in BlkSet /\ j + 1 \in Nat
    BY <1>3, <1>6 DEF AtWrite
  <2> QED BY <2>1, <1>1 DEF BlkSet
<1> HIDE DEF m
<1>10. TypeInv'
  BY <1>2, <1>4, <1>5, <1>8, <1>9 DEF IInv, TypeInv
<1>11. PlaceInv'
  BY <1>4, <1>5 DEF IInv, PlaceInv
<1>12. RestInv'
  BY <1>1, <1>4 DEF RestInv
<1>13. BytesInv'
  BY <1>4, <1>5 DEF IInv, BytesInv
<1>14. BatchInv'
  BY <1>4, <1>5 DEF IInv, BatchInv
<1>15. RingInv'
  <2>1. Written' = j + 1
    BY <1>1, <1>4, <1>9 DEF Written
  <2>2. InBlocks'
    BY <1>3, <1>4 DEF AtWrite, InBlocks
  <2>3. ExtOf(ring)' = ExtOf(ring)
    BY <1>4 DEF ExtOf
  <2>4. blk.ext = ExtOf(ring) /\ ring.flushed <= ring.end /\ ring.end <= ring.len
    BY <1>1 DEF IInv, RingInv
  <2>5. HistoryOf(ring', mem', Cur'.f, stage'.decoded + Written', ring'.end + Written')
    BY <2>1, <1>2, <1>4, <1>5, <1>8
  <2>6. stage'.decoded = Outs(CurFrame')[Cur'.i - 1] /\ RingFor(ring', CurFrame', stage'.decoded)
        /\ ring'.end + BlockRoom <= ring'.len
    BY <1>3, <1>4, <1>5 DEF AtWrite
  <2>7. blk'.ext = ExtOf(ring)' /\ blk'.j <= CurBlock'.out
    BY <2>3, <2>4, <1>5, <1>7, <1>9
  <2> QED BY <2>4, <2>5, <2>6, <2>7, <1>4 DEF RingInv
<1>16. DeliverInv'
  <2>1. ring \in RingSet /\ ring.flushed = ring.end /\ Holds(stream, out, ring, mem, ContentAt)
    BY <1>3 DEF AtWrite
  <2>2. Holds(stream, out, ring, mem', ContentAt)
    BY <2>1, HoldsEmpty
  <2>3. Holds(stream, out, ring, mem, ContentAt)'
    BY <2>2, <1>4, <1>5
  <2>4. Pending' = 0
    BY <2>1, <1>4, RingFields DEF Pending
  <2> QED BY <2>3, <2>4, HoldsDelivers
<1>17. ReportInv'
  BY <1>4, <1>5 DEF IInv, ReportInv
<1> QED BY <1>5, <1>10, <1>11, <1>12, <1>13, <1>14, <1>15, <1>16, <1>17 DEF IInv

(* A block does not decode.                                                *)
LEMMA BlockFailsKeeps ==
  ASSUME IInv, BlockFails
  PROVE  IInv'
<1>1. /\ pc = "write" /\ CurBlock.fault = "content" /\ Fail
      /\ UNCHANGED <<input, upos, left, room, out, stage, unit, ring, mem, frame_ended>>
  BY DEF BlockFails
<1>2. AtWrite
  BY <1>1, AtWriteIs
<1>3. /\ ~frame_ended /\ Cur.k = "content" /\ stream \in Streams /\ upos \in 1 .. Len(CurUnits)
      /\ ring \in RingSet /\ mem \in [0 .. ring.len - 1 -> Int] /\ stage \in StageSet
      /\ unit = 0
  BY <1>2 DEF AtWrite
<1>4. upos \in BadUnits[stream]
  BY <1>1, <1>3, BadIs DEF Cur, CurFrame, CurUnits, CurBlock
<1>5. ring.flushed <= ring.end /\ ring.end <= ring.len
  BY DEF IInv, RingInv
<1>6. /\ upos' = upos /\ stage' = stage /\ unit' \in Nat /\ ring' = ring /\ mem' = mem
      /\ frame_ended' = frame_ended /\ UNCHANGED <<input, left, room, out>>
  BY <1>1, <1>3
<1> QED BY <1>1, <1>3, <1>4, <1>5, <1>6, FailsHere

(* The content a block decodes to.                                         *)
LEMMA ContentHere ==
  ASSUME AtWrite
  PROVE  /\ ContentAt + CurBlock.out <= Len(Content[stream])
         /\ \A p \in 1 .. CurBlock.out :
               Content[stream][ContentAt + p] = Token(Cur.f, Outs(CurFrame)[Cur.i - 1] + p)
<1> DEFINE U == CurUnits
           u == upos
           s == stream
<1>1. s \in Streams /\ Linked(s, U) /\ u \in 1 .. Len(U) /\ U[u].k \in {"block", "content"}
  BY DEF AtWrite, Cur
<1> HIDE DEF U, u, s
<1>2. /\ ContentPos(s, U, u) + s[U[u].f].blocks[U[u].i].out <= Len(Content[s])
      /\ \A k \in 1 .. s[U[u].f].blocks[U[u].i].out :
            Content[s][ContentPos(s, U, u) + k] = Token(U[u].f, Outs(s[U[u].f])[U[u].i - 1] + k)
  BY <1>1, AtContent
<1> QED BY <1>2 DEF U, u, s, Cur, CurFrame, CurBlock, ContentAt

(* The buffer with a block written, which is the content after it.         *)
LEMMA BlockHolds ==
  ASSUME AtWrite, CurBlock.fault = "none", blk.j = CurBlock.out,
         NEW r, r = [ring EXCEPT !.end = @ + blk.j]
  PROVE  /\ r \in RingSet /\ r.len = ring.len /\ r.window = ring.window /\ r.full = ring.full
         /\ r.ext_end = ring.ext_end /\ r.flushed = ring.flushed /\ r.end = ring.end + blk.j
         /\ r.flushed <= r.end /\ r.end <= r.len
         /\ Holds(stream, out, r, mem, ContentPos(stream, CurUnits, upos + 1))
<1> DEFINE j == blk.j
           n == stage.decoded
           f == Cur.f
           e == ring.end
           w == ring.window
           a == ContentPos(stream, CurUnits, upos)
<1>1. /\ j \in Nat /\ n \in Nat /\ e \in Nat /\ w \in Nat /\ ring.len \in Nat
      /\ MaxBlock \in Nat /\ Overlength \in Nat
  BY RingFields, SizesAssumption DEF AtWrite
<1>2. j <= w /\ j <= MaxBlock
  <2>1. w = CurFrame.window
    BY DEF AtWrite, RingFor
  <2> QED BY <2>1, OutMost
<1>3. /\ r \in RingSet /\ r.len = ring.len /\ r.window = w /\ r.full = ring.full
      /\ r.ext_end = ring.ext_end /\ r.flushed = ring.flushed /\ r.end = e + j
  <2>1. ring \in RingSet /\ e + j \in Nat
    BY <1>1, SMTT(30) DEF AtWrite
  <2> QED BY <2>1 DEF RingSet
<1>4. r.flushed = e /\ r.flushed <= r.end /\ r.end <= r.len
  <2>1. e + (MaxBlock + Overlength) <= ring.len /\ ring.flushed = e
    BY DEF AtWrite, BlockRoom
  <2> HIDE DEF e, j
  <2> QED BY <2>1, <1>1, <1>2, <1>3
<1>5. /\ a \in Nat /\ a = ContentAt /\ ContentPos(stream, CurUnits, upos + 1) = a + j
      /\ a + j <= Len(Content[stream])
      /\ \A p \in 1 .. j : Content[stream][a + p] = Token(f, n + p)
  <2>1. stream \in Streams /\ Linked(stream, CurUnits) /\ upos \in 1 .. Len(CurUnits)
        /\ CurUnits[upos].k = "content" /\ n = Outs(CurFrame)[Cur.i - 1]
    BY DEF AtWrite, Cur
  <2>2. upos \in 1 .. Len(CurUnits) + 1
    BY <2>1 DEF AtWrite
  <2>3. /\ a = ContentAt /\ a \in Nat
        /\ ContentPos(stream, CurUnits, upos + 1) = a + CurBlock.out
    BY <2>1, <2>2, AfterContent, ContentPosMost DEF Cur, CurFrame, CurBlock, ContentAt
  <2>4. /\ a + CurBlock.out <= Len(Content[stream])
        /\ \A p \in 1 .. CurBlock.out :
              Content[stream][a + p] = Token(Cur.f, Outs(CurFrame)[Cur.i - 1] + p)
    BY <2>3, ContentHere
  <2> HIDE DEF a
  <2> QED BY <2>1, <2>3, <2>4
<1>6. /\ out \in Seq(Int) /\ Len(out) <= Len(Content[stream])
      /\ \A p \in 1 .. Len(out) : out[p] = Content[stream][p] /\ Len(out) = a
  <2>1. Holds(stream, out, ring, mem, a) /\ ring.flushed = e
    BY <1>5 DEF AtWrite
  <2>2. /\ out \in Seq(Int) /\ Len(out) <= Len(Content[stream])
        /\ \A p \in 1 .. Len(out) : out[p] = Content[stream][p]
        /\ Len(out) + (e - ring.flushed) = a
    BY <2>1 DEF Holds
  <2>3. Len(out) \in Nat
    BY <2>2
  <2>4. Len(out) = a
    BY <2>1, <2>2, <2>3, <1>1, <1>5
  <2> QED BY <2>2, <2>4
<1>7. Len(out) = a
  <2>1. Holds(stream, out, ring, mem, a) /\ ring.flushed = e
    BY <1>5 DEF AtWrite
  <2>2. Len(out) + (e - ring.flushed) = a
    BY <2>1 DEF Holds
  <2>3. Len(out) \in Nat
    BY <1>6
  <2> QED BY <2>1, <2>2, <2>3, <1>1, <1>5
<1>8. ASSUME NEW p \in 1 .. j PROVE mem[e + p - 1] = Content[stream][a + p]
  <2> DEFINE d == j - p + 1
  <2>1. /\ d \in 1 .. Least(n + j, w) /\ d <= e + j /\ (e + j) - d = e + p - 1
        /\ (n + j) - d + 1 = n + p
    <3> HIDE DEF e, n, j, w
    <3> QED BY <1>1, <1>2 DEF Least
  <2>2. \A c \in 1 .. Least(n + j, w) :
           mem[IF c <= e + j THEN (e + j) - c ELSE ring.ext_end - (c - (e + j))]
              = Token(f, (n + j) - c + 1)
    BY DEF AtWrite, HistoryOf
  <2> HIDE DEF d, e, n, j, w, f, a
  <2>3. mem[(e + j) - d] = Token(f, (n + j) - d + 1)
    BY <2>1, <2>2
  <2> QED BY <2>1, <2>3, <1>5
<1>9. r.end - r.flushed = j
  BY <1>1, <1>3, <1>4
<1>10. Holds(stream, out, r, mem, a + j)
  <2> HIDE DEF a, e, j
  <2>1. \A p \in 1 .. r.end - r.flushed :
            mem[r.flushed + p - 1] = Content[stream][Len(out) + p]
    BY <1>4, <1>7, <1>8, <1>9
  <2> QED BY <2>1, <1>6, <1>7, <1>9 DEF Holds
<1> QED BY <1>3, <1>4, <1>5, <1>10

(* A block but the last is done.                                           *)
LEMMA BlockOnKeeps ==
  ASSUME IInv, AtWrite, pc = "write", CurBlock.fault = "none", blk.j = CurBlock.out,
         NEW n, n = stage.decoded + blk.j, ring' = [ring EXCEPT !.end = @ + blk.j],
         ~Oversized(n), Cur.i # Len(CurFrame.blocks), upos \notin BadUnits[stream],
         UNCHANGED <<input, left, room, out, unit, mem>>, upos' = upos + 1, blk' = NoBlk,
         todo' = todo - 1, stage' = [stage EXCEPT !.decoded = n], frame_ended' = FALSE,
         pc' = IF todo > 1 THEN "next" ELSE "top", UNCHANGED <<failed, result, zeros>>
  PROVE  IInv'
<1>1. /\ ring' \in RingSet /\ ring'.len = ring.len /\ ring'.window = ring.window
      /\ ring'.full = ring.full
      /\ ring'.ext_end = ring.ext_end /\ ring'.flushed = ring.flushed
      /\ ring'.end = ring.end + blk.j /\ ring'.flushed <= ring'.end /\ ring'.end <= ring'.len
      /\ Holds(stream, out, ring', mem, ContentPos(stream, CurUnits, upos + 1))
  BY BlockHolds
<1>2. /\ stream' = stream /\ given' = given /\ dict' = dict /\ left' = left /\ room' = room
      /\ out' = out /\ unit' = unit /\ mem' = mem /\ failed' = failed /\ result' = result
      /\ zeros' = zeros
  BY DEF input
<1>3. /\ stream \in Streams /\ Linked(stream, CurUnits) /\ upos \in 1 .. Len(CurUnits)
      /\ CurUnits[upos].k = "content" /\ upos \in Nat /\ Len(CurUnits) \in Nat
      /\ Cur.i \in 1 .. Len(CurFrame.blocks) /\ Len(CurFrame.blocks) \in Nat
      /\ CurFrame \in FrameSet /\ AtUnit /\ ~failed /\ ~frame_ended /\ unit = 0
      /\ result.k = "none" /\ stage \in StageSet /\ stage.k = "block"
      /\ stage.decoded = Outs(CurFrame)[Cur.i - 1]
      /\ given - left = LensTo[upos] /\ todo \in Nat /\ stage.decoded \in Nat /\ blk.j \in Nat
  BY DEF AtWrite, Cur
<1>4. Cur.i < Len(CurFrame.blocks)
  BY <1>3
<1>5. NextIs(stream, CurUnits, upos, "block", Cur.i + 1)
  BY <1>3, <1>4, AfterContent DEF Cur, CurFrame
<1>6. /\ CurUnits' = CurUnits /\ LensTo' = LensTo /\ Cur' = CurUnits[upos + 1]
      /\ CurFrame' = stream[CurUnits[upos + 1].f] /\ (AtUnit' <=> upos + 1 <= Len(CurUnits))
      /\ ContentAt' = ContentPos(stream, CurUnits, upos + 1)
      /\ FramesBehind' = Behind(stream, CurUnits, upos + 1)
      /\ FramesBehind = Behind(stream, CurUnits, upos)
  BY <1>2, <1>3, Moves
<1>7. /\ AtUnit' /\ Cur'.k = "block" /\ Cur'.f = Cur.f /\ Cur'.i = Cur.i + 1
      /\ CurFrame' = CurFrame /\ FramesBehind' = FramesBehind
  BY <1>5, <1>6, <1>3 DEF NextIs, Cur, CurFrame
<1>8. n \in Nat /\ n = Outs(CurFrame)[Cur.i]
  <2>1. Outs(CurFrame)[Cur.i] = Outs(CurFrame)[Cur.i - 1] + CurBlock.out
    BY <1>3, OutsAre DEF CurBlock
  <2> QED BY <2>1, <1>3
<1>9. stage' \in StageSet /\ stage'.k = "block" /\ stage'.decoded = n
  BY <1>3, <1>8 DEF StageSet
<1>10. /\ todo >= 1 /\ Cur.i + todo <= Len(CurFrame.blocks) + 1
       /\ left >= LensTo[upos + 2 * (todo - 1)] - LensTo[upos]
       /\ \A i \in Cur.i + 1 .. Cur.i + todo - 1 : ~HeaderFails(CurFrame.blocks[i])
  BY DEF IInv, BatchInv
<1>11. todo' \in Nat /\ (pc' = "next" \/ (pc' = "top" /\ todo' = 0))
  <2>1. CASE todo > 1
    BY <2>1, <1>3
  <2>2. CASE ~(todo > 1)
    <3>1. todo = 1
      BY <2>2, <1>3, <1>10
    <3> QED BY <3>1, <2>2
  <2> QED BY <2>1, <2>2
<1>12. pc' = "next" => todo > 1
  OBVIOUS
<1>13. BatchInv'
  <2> SUFFICES ASSUME pc' = "next"
               PROVE  /\ todo' >= 1 /\ Cur'.i + todo' <= Len(CurFrame'.blocks) + 1
                      /\ left' >= LensTo'[upos' + 2 * todo' - 1] - LensTo'[upos' - 1]
                      /\ \A i \in Cur'.i .. Cur'.i + todo' - 1 :
                            ~HeaderFails(CurFrame'.blocks[i])
    BY <1>11 DEF BatchInv
  <2>1. todo > 1 /\ Cur.i \in Nat
    BY <1>3, <1>12
  <2>2. /\ todo' >= 1 /\ Cur'.i + todo' <= Len(CurFrame.blocks) + 1
        /\ upos' + 2 * todo' - 1 = upos + 2 * (todo - 1) /\ upos' - 1 = upos
        /\ Cur'.i .. Cur'.i + todo' - 1 = Cur.i + 1 .. Cur.i + todo - 1
    <3> DEFINE i == Cur.i
               t == todo
               N == Len(CurFrame.blocks)
    <3>1. i \in Nat /\ t \in Nat /\ N \in Nat /\ t > 1 /\ i + t <= N + 1 /\ upos \in Nat
      BY <2>1, <1>3, <1>10
    <3>2. Cur'.i = i + 1 /\ todo' = t - 1 /\ upos' = upos + 1
      BY <1>7
    <3> HIDE DEF i, t, N
    <3>3. t - 1 >= 1 /\ (i + 1) + (t - 1) <= N + 1 /\ (i + 1) + (t - 1) - 1 = i + t - 1
      BY <3>1
    <3>4. (upos + 1) + 2 * (t - 1) - 1 = upos + 2 * (t - 1) /\ (upos + 1) - 1 = upos
      <4> DEFINE v == t - 1
      <4>1. v \in Nat
        BY <3>1
      <4> HIDE DEF v
      <4>2. (upos + 1) + 2 * v - 1 = upos + 2 * v /\ (upos + 1) - 1 = upos
        BY <4>1, <3>1
      <4> QED BY <4>2 DEF v
    <3> QED BY <3>2, <3>3, <3>4 DEF i, t, N
  <2> QED BY <2>2, <1>2, <1>6, <1>7, <1>10
<1>14. RingInv'
  <2>1. Written' = 0
    BY <1>11 DEF Written
  <2>2. stage'.decoded = Outs(CurFrame')[Cur'.i - 1]
    <3>1. Cur'.i - 1 = Cur.i
      BY <1>3, <1>7
    <3> QED BY <3>1, <1>7, <1>8, <1>9
  <2>3. RingFor(ring', CurFrame', stage'.decoded)
    <3> DEFINE e == ring.end
               d == stage.decoded
               j == blk.j
               x == ring.ext_end
    <3>1. /\ ring.window = CurFrame.window /\ ring.full = FullLen(CurFrame)
          /\ e <= d /\ (x = 0 => e = d)
          /\ x > 0 => x > ring.window + Overlength /\ x <= d /\ x <= ring.len
      BY DEF AtWrite, RingFor
    <3>2. e \in Nat /\ x \in Nat /\ d \in Nat /\ j \in Nat /\ n = d + j
      BY <1>3, RingFields DEF AtWrite
    <3>3. CurFrame.fcs # NoSize => n <= CurFrame.fcs
      <4>1. CurFrame.fcs # NoSize => CurFrame.fcs \in Nat
        BY <1>3 DEF FrameSet
      <4> QED BY <4>1, <1>8 DEF Oversized
    <3>4. ring'.end = e + j /\ ring'.ext_end = x
      BY <1>1
    <3> HIDE DEF e, d, j, x
    <3>5. e + j <= n /\ (x = 0 => e + j = n) /\ (x > 0 => x <= n)
      BY <3>1, <3>2
    <3> QED BY <3>1, <3>3, <3>4, <3>5, <1>1, <1>7, <1>9 DEF RingFor
  <2>4. HistoryOf(ring', mem', Cur'.f, stage'.decoded + Written', ring'.end + Written')
    <3>1. stage'.decoded + Written' = stage.decoded + blk.j
      BY <2>1, <1>3, <1>9
    <3>2. ring'.end + Written' = ring.end + blk.j
      <4>1. ring.end \in Nat
        BY RingFields DEF AtWrite
      <4> QED BY <4>1, <2>1, <1>1, <1>3
    <3>3. HistoryOf(ring, mem, Cur.f, stage.decoded + blk.j, ring.end + blk.j)
      BY DEF AtWrite
    <3>4. HistoryOf(ring', mem, Cur.f, stage.decoded + blk.j, ring.end + blk.j)
      BY <3>3, <1>1 DEF HistoryOf
    <3> QED BY <3>1, <3>2, <3>4, <1>2, <1>7
  <2> QED BY <2>2, <2>3, <2>4, <1>1, <1>11 DEF RingInv
<1>15. blk' \in BlkSet
  BY DEF NoBlk, BlkSet
<1>16. TypeInv'
  <2>1. upos' \in 1 .. Len(CurUnits') + 1
    BY <1>3, <1>6
  <2>2. mem' \in [0 .. ring'.len - 1 -> Int]
    BY <1>1, <1>2 DEF AtWrite
  <2>3. pc' \in Places /\ frame_ended' \in BOOLEAN
    BY <1>11 DEF Places
  <2> QED BY <2>1, <2>2, <2>3, <1>1, <1>2, <1>9, <1>11, <1>15 DEF IInv, TypeInv
<1>17. Holds(stream, out, ring, mem, ContentAt)'
  BY <1>1, <1>2, <1>6
<1>18. pc' \in {"top", "next"} /\ unit' = 0 /\ result'.k = "none" /\ given - left' = LensTo[upos]
       /\ ~failed' /\ (pc' = "top" => todo' = 0)
  BY <1>2, <1>3, <1>11
<1> QED BY <1>2, <1>3, <1>7, <1>9, <1>13, <1>14, <1>16, <1>17, <1>18, MoveKeeps

(* The last block of a frame with a checksum is done.                      *)
LEMMA BlocksEndKeeps ==
  ASSUME IInv, AtWrite, pc = "write", CurBlock.fault = "none", blk.j = CurBlock.out,
         ring' = [ring EXCEPT !.end = @ + blk.j],
         Cur.i = Len(CurFrame.blocks), CurFrame.checksum, upos \notin BadUnits[stream],
         UNCHANGED <<input, left, room, out, unit, mem>>, upos' = upos + 1, blk' = NoBlk,
         todo' = 0, stage' = [AtHeader EXCEPT !.k = "checksum"], frame_ended' = FALSE,
         pc' = "top", UNCHANGED <<failed, result, zeros>>
  PROVE  IInv'
<1>1. /\ ring' \in RingSet /\ ring'.len = ring.len
      /\ ring'.flushed <= ring'.end /\ ring'.end <= ring'.len
      /\ Holds(stream, out, ring', mem, ContentPos(stream, CurUnits, upos + 1))
  BY BlockHolds
<1>2. /\ stream' = stream /\ given' = given /\ dict' = dict /\ left' = left /\ room' = room
      /\ out' = out /\ unit' = unit /\ mem' = mem /\ failed' = failed /\ result' = result
      /\ zeros' = zeros
  BY DEF input
<1>3. /\ stream \in Streams /\ Linked(stream, CurUnits) /\ upos \in 1 .. Len(CurUnits)
      /\ CurUnits[upos].k = "content" /\ upos \in Nat /\ Len(CurUnits) \in Nat
      /\ AtUnit /\ ~failed /\ ~frame_ended /\ unit = 0 /\ result.k = "none"
      /\ given - left = LensTo[upos]
  BY DEF AtWrite, Cur
<1>4. NextIs(stream, CurUnits, upos, "checksum", 0)
  BY <1>3, AfterContent DEF Cur, CurFrame
<1>5. /\ CurUnits' = CurUnits /\ LensTo' = LensTo /\ Cur' = CurUnits[upos + 1]
      /\ (AtUnit' <=> upos + 1 <= Len(CurUnits))
      /\ ContentAt' = ContentPos(stream, CurUnits, upos + 1)
      /\ FramesBehind' = Behind(stream, CurUnits, upos + 1)
      /\ FramesBehind = Behind(stream, CurUnits, upos)
  BY <1>2, <1>3, Moves
<1>6. AtUnit' /\ Cur'.k = "checksum" /\ FramesBehind' = FramesBehind
  BY <1>4, <1>5, <1>3 DEF NextIs
<1>7. stage' \in StageSet /\ stage'.k = "checksum"
  <2>1. AtHeader \in StageSet
    BY AtHeaderIs
  <2> QED BY <2>1 DEF StageSet, Stages
<1>8. blk' \in BlkSet
  BY DEF NoBlk, BlkSet
<1>9. TypeInv'
  <2>1. upos' \in 1 .. Len(CurUnits') + 1
    BY <1>3, <1>5
  <2>2. mem' \in [0 .. ring'.len - 1 -> Int]
    BY <1>1, <1>2 DEF AtWrite
  <2>3. pc' \in Places /\ frame_ended' \in BOOLEAN /\ todo' \in Nat
    BY DEF Places
  <2> QED BY <2>1, <2>2, <2>3, <1>1, <1>2, <1>7, <1>8 DEF IInv, TypeInv
<1>10. BatchInv'
  BY DEF BatchInv
<1>11. RingInv'
  <2>1. ~InBlocks'
    BY <1>7 DEF InBlocks
  <2> QED BY <2>1, <1>1 DEF RingInv
<1>12. Holds(stream, out, ring, mem, ContentAt)'
  BY <1>1, <1>2, <1>5
<1>13. pc' \in {"top", "next"} /\ unit' = 0 /\ result'.k = "none" /\ given - left' = LensTo[upos]
       /\ ~failed'
  BY <1>2, <1>3
<1> QED BY <1>2, <1>3, <1>6, <1>7, <1>9, <1>10, <1>11, <1>12, <1>13, MoveKeeps

(* A block is done.                                                        *)
LEMMA BlockDoneKeeps ==
  ASSUME IInv, BlockDone
  PROVE  IInv'
<1> DEFINE n == stage.decoded + blk.j
           last == Cur.i = Len(CurFrame.blocks)
<1>1. /\ pc = "write" /\ CurBlock.fault = "none" /\ blk.j = CurBlock.out
      /\ ring' = [ring EXCEPT !.end = @ + blk.j]
      /\ UNCHANGED <<input, left, room, out, unit, mem>>
  BY DEF BlockDone
<1>2. AtWrite
  BY <1>1, AtWriteIs
<1>3. /\ stream \in Streams /\ Linked(stream, CurUnits) /\ upos \in 1 .. Len(CurUnits)
      /\ CurUnits[upos].k = "content" /\ Cur.k = "content"
      /\ Cur.i \in 1 .. Len(CurFrame.blocks) /\ Len(CurFrame.blocks) \in Nat
      /\ CurFrame \in FrameSet /\ AtUnit /\ ~failed /\ ~frame_ended /\ unit = 0
      /\ result.k = "none" /\ stage \in StageSet /\ given - left = LensTo[upos] /\ todo \in Nat
      /\ left \in Nat /\ room \in Nat /\ stage.decoded = Outs(CurFrame)[Cur.i - 1]
      /\ stage.decoded \in Nat /\ blk.j \in Nat /\ mem \in [0 .. ring.len - 1 -> Int]
  BY <1>2 DEF AtWrite, Cur
<1>4. n \in Nat /\ n = Outs(CurFrame)[Cur.i]
  <2>1. Outs(CurFrame)[Cur.i] = Outs(CurFrame)[Cur.i - 1] + CurBlock.out
    BY <1>3, OutsAre DEF CurBlock
  <2> QED BY <2>1, <1>1, <1>3
<1>5. upos \in BadUnits[stream] <=> Oversized(n) \/ (last /\ SizeWrong(n))
  <2>1. upos \in BadUnits[stream] <=>
            \/ CurBlock.fault = "content"
            \/ /\ CurFrame.fcs # NoSize
               /\ \/ Outs(CurFrame)[Cur.i] > CurFrame.fcs
                  \/ Cur.i = Len(CurFrame.blocks) /\ Outs(CurFrame)[Cur.i] # CurFrame.fcs
    BY <1>3, BadIs DEF Cur, CurFrame, CurUnits, CurBlock
  <2> HIDE DEF n
  <2> QED BY <2>1, <1>1, <1>4 DEF Oversized, SizeWrong
<1>6. /\ ring' \in RingSet /\ ring'.len = ring.len
      /\ ring'.flushed <= ring'.end /\ ring'.end <= ring'.len
      /\ Holds(stream, out, ring', mem, ContentPos(stream, CurUnits, upos + 1))
  BY <1>1, <1>2, BlockHolds
<1>7. mem' = mem /\ mem' \in [0 .. ring'.len - 1 -> Int] /\ unit' = 0 /\ unit' \in Nat
      /\ UNCHANGED <<input, left, room, out>>
  BY <1>1, <1>3, <1>6
<1>8. /\ stream' = stream /\ given' = given /\ dict' = dict /\ left' = left /\ room' = room
      /\ out' = out
  BY <1>7 DEF input
<1>9. CASE Oversized(n)
  <2>1. Fail /\ UNCHANGED <<stage, frame_ended, upos>>
    BY <1>9 DEF BlockDone
  <2>2. stage' \in StageSet /\ frame_ended' = frame_ended /\ upos' = upos
    BY <2>1, <1>3
  <2> QED BY <2>1, <2>2, <1>3, <1>5, <1>6, <1>7, <1>9, FailsHere
<1>10. CASE ~Oversized(n) /\ last /\ SizeWrong(n)
  <2>1. Fail /\ stage' = AtHeader /\ UNCHANGED <<frame_ended, upos>>
    BY <1>10 DEF BlockDone
  <2>2. stage' \in StageSet /\ frame_ended' = frame_ended /\ upos' = upos
    BY <2>1, AtHeaderIs
  <2> QED BY <2>1, <2>2, <1>3, <1>5, <1>6, <1>7, <1>10, FailsHere
<1>11. CASE ~Oversized(n) /\ ~(last /\ SizeWrong(n))
  <2>1. /\ upos' = upos + 1 /\ blk' = NoBlk /\ todo' = todo - 1
        /\ stage' = IF ~last THEN [stage EXCEPT !.decoded = n]
                    ELSE IF CurFrame.checksum THEN [AtHeader EXCEPT !.k = "checksum"]
                    ELSE AtHeader
        /\ frame_ended' = (last /\ ~CurFrame.checksum)
        /\ pc' = IF todo > 1 THEN "next" ELSE "top"
        /\ UNCHANGED <<failed, result, zeros>>
    BY <1>11 DEF BlockDone
  <2>2. upos \notin BadUnits[stream]
    BY <1>5, <1>11
  <2>3. CASE ~last
    <3>1. stage' = [stage EXCEPT !.decoded = n] /\ frame_ended' = FALSE
          /\ Cur.i # Len(CurFrame.blocks)
      BY <2>1, <2>3
    <3> HIDE DEF last
    <3> QED BY <3>1, <2>1, <2>2, <1>1, <1>2, <1>11, BlockOnKeeps
  <2>4. todo >= 1 /\ Cur.i + todo <= Len(CurFrame.blocks) + 1
    BY <1>1 DEF IInv, BatchInv
  <2>5. CASE last
    <3>1. todo = 1
      BY <2>4, <2>5, <1>3
    <3>2. todo' = 0 /\ pc' = "top"
      BY <3>1, <2>1
    <3>3. CASE CurFrame.checksum
      <4>1. stage' = [AtHeader EXCEPT !.k = "checksum"] /\ frame_ended' = FALSE
            /\ Cur.i = Len(CurFrame.blocks)
        BY <2>1, <2>5, <3>3
      <4> QED BY <4>1, <3>2, <3>3, <2>1, <2>2, <1>1, <1>2, BlocksEndKeeps
    <3>4. CASE ~CurFrame.checksum
      <4>1. stage' = AtHeader /\ frame_ended' = TRUE /\ Cur.i = Len(CurFrame.blocks)
        BY <2>1, <2>5, <3>4
      <4>2. EndsFrame(stream, CurUnits, upos)
        BY <4>1, <3>4, <1>3, AfterContent DEF Cur, CurFrame
      <4>3. blk' \in BlkSet
        BY <2>1 DEF NoBlk, BlkSet
      <4>4. failed' = failed /\ result' = result /\ zeros' = zeros
        BY <2>1
      <4>5. Holds(stream, out', ring', mem', ContentPos(stream, CurUnits, upos + 1))
        BY <1>6, <1>7, <1>8
      <4> QED BY <4>1, <4>2, <4>3, <4>4, <4>5, <3>2, <2>1, <2>2, <1>3, <1>6, <1>7, <1>8, EndKeeps
    <3> QED BY <3>3, <3>4
  <2> QED BY <2>3, <2>5
<1> QED BY <1>9, <1>10, <1>11

-----------------------------------------------------------------------------
(* The invariant holds.                                                    *)

(* A step that changes nothing keeps it.                                   *)
LEMMA StutterKeeps ==
  ASSUME IInv, UNCHANGED vars
  PROVE  IInv'
<1>1. /\ stream' = stream /\ upos' = upos /\ left' = left /\ given' = given /\ room' = room
      /\ out' = out /\ dict' = dict /\ batches' = batches /\ stage' = stage /\ unit' = unit
      /\ ring' = ring /\ mem' = mem /\ frame_ended' = frame_ended /\ failed' = failed
      /\ todo' = todo /\ blk' = blk /\ result' = result /\ zeros' = zeros
      /\ resets' = resets /\ pc' = pc
  BY DEF vars
<1>2. /\ CurUnits' = CurUnits /\ Cur' = Cur /\ CurFrame' = CurFrame /\ CurBlock' = CurBlock
      /\ LensTo' = LensTo /\ AtUnit' = AtUnit /\ ContentAt' = ContentAt
      /\ FramesBehind' = FramesBehind /\ VerdictInv'
  BY <1>1, Stays DEF IInv
<1>3. InBlocks' = InBlocks /\ Written' = Written /\ Pending' = Pending /\ ExtOf(ring)' = ExtOf(ring)
  BY <1>1 DEF InBlocks, Written, Pending, ExtOf
<1>4. TypeInv'
  BY <1>1, <1>2 DEF IInv, TypeInv
<1>5. PlaceInv'
  BY <1>1, <1>2 DEF IInv, PlaceInv
<1>6. RestInv'
  BY <1>1, <1>2 DEF IInv, RestInv
<1>7. BytesInv'
  BY <1>1, <1>2 DEF IInv, BytesInv
<1>8. BatchInv'
  BY <1>1, <1>2 DEF IInv, BatchInv
<1>9. RingInv'
  BY <1>1, <1>2, <1>3 DEF IInv, RingInv
<1>10. DeliverInv'
  BY <1>1, <1>2, <1>3 DEF IInv, DeliverInv
<1>11. ReportInv'
  BY <1>1, <1>2 DEF IInv, ReportInv
<1> QED BY <1>2, <1>4, <1>5, <1>6, <1>7, <1>8, <1>9, <1>10, <1>11 DEF IInv

(* Every step keeps it.                                                    *)
LEMMA NextKeeps ==
  ASSUME IInv, [Next]_vars
  PROVE  IInv'
<1>1. CASE \E g \in Gives, r \in Rooms : Call(g, r)
  BY <1>1, CallKeeps
<1>2. CASE CallFailed
  BY <1>2, CallFailedKeeps
<1>3. CASE \E s \in Streams, d \in BOOLEAN : Reset(s, d)
  BY <1>3, ResetKeeps
<1>4. CASE Top
  BY <1>4, TopKeeps
<1>5. CASE Batch
  BY <1>5, BatchKeeps
<1>6. CASE NextOfBatch
  BY <1>6, NextOfBatchKeeps
<1>7. CASE Gather
  BY <1>7, GatherKeeps
<1>8. CASE Header
  BY <1>8, HeaderKeeps
<1>9. CASE BlockHeader
  BY <1>9, BlockHeaderKeeps
<1>10. CASE BlockContent
  BY <1>10, BlockContentKeeps
<1>11. CASE WriteByte
  BY <1>11, WriteByteKeeps
<1>12. CASE BlockFails
  BY <1>12, BlockFailsKeeps
<1>13. CASE BlockDone
  BY <1>13, BlockDoneKeeps
<1>14. CASE Checksum
  BY <1>14, ChecksumKeeps
<1>15. CASE UNCHANGED vars
  BY <1>15, StutterKeeps
<1> QED BY <1>1, <1>2, <1>3, <1>4, <1>5, <1>6, <1>7, <1>8, <1>9, <1>10, <1>11, <1>12, <1>13,
           <1>14, <1>15 DEF Next, Step

(* The invariant of the decompressor: its stage is the one of its unit,    *)
(* its bytes are accounted for, and its buffer holds the window before the *)
(* next byte and the content not written out yet.                          *)
THEOREM StreamInvariant == Spec => []IInv
<1>1. Init => IInv
  BY InitIInv
<1>2. IInv /\ [Next]_vars => IInv'
  BY NextKeeps
<1> QED BY <1>1, <1>2, PTL DEF Spec

-----------------------------------------------------------------------------
(* What it implies.                                                        *)

(* Its prefix of the content.                                              *)
LEMMA InvDelivered ==
  ASSUME IInv
  PROVE  Delivered
<1> DEFINE c == Content[stream]
           n == Len(out)
<1>1. /\ out \in Seq(Int) /\ c \in Seq(Int) /\ n <= Len(c) /\ n \in Nat /\ Len(c) \in Nat
      /\ \A p \in 1 .. n : out[p] = c[p]
  BY ContentOf DEF IInv, TypeInv, DeliverInv
<1>2. SubSeq(out, 1, n) = SubSeq(c, 1, n)
  <2>1. SubSeq(out, 1, n) = [p \in 1 .. n |-> out[p]]
    BY <1>1
  <2>2. SubSeq(c, 1, n) = [p \in 1 .. n |-> c[p]]
    <3> HIDE DEF c, n
    <3> QED BY <1>1
  <2> HIDE DEF c, n
  <2> QED BY <1>1, <2>1, <2>2
<1> QED BY <1>1, <1>2 DEF Delivered, IsPrefix

(* The frames reported.                                                    *)
LEMMA InvFramesReported ==
  ASSUME IInv
  PROVE  FramesReported
<1>1. /\ stream \in Streams /\ Linked(stream, CurUnits) /\ CurUnits \in Seq(UnitSet)
      /\ Len(CurUnits) \in Nat /\ upos \in Nat /\ Len(stream) \in Nat
      /\ AtUnit => UnitAt(stream, CurUnits, upos) /\ upos \in 1 .. Len(CurUnits)
  BY HereIs, StreamIs DEF IInv, Here
<1>2. ASSUME result.k = "zero"
      PROVE  Len(out) = Total([f \in 1 .. FramesBehind |-> Size(stream[f])])
  <2>1. ~failed /\ stage.k = "header" /\ ~frame_ended /\ pc = "idle"
    BY <1>2 DEF IInv, ReportInv, PlaceInv
  <2>2. Pending = 0 /\ Len(out) + Pending = ContentAt /\ out \in Seq(Int)
    BY <2>1 DEF IInv, DeliverInv, TypeInv
  <2>3. Len(out) = ContentAt
    BY <2>2
  <2>4. FramesBehind \in 0 .. Len(stream) /\ ContentAt = SizesOf(stream)[FramesBehind]
    <3>1. CASE AtUnit
      <4>1. Cur.k = "header" /\ Cur.f \in 1 .. Len(stream) /\ upos <= Len(CurUnits)
        BY <3>1, <2>1, <1>1 DEF IInv, PlaceInv, UnitAt, Cur, AtUnit
      <4>2. FramesBehind = Cur.f - 1 /\ ContentAt = SizesOf(stream)[Cur.f - 1]
        BY <4>1, <1>1 DEF FramesBehind, ContentAt, ContentPos, Cur
      <4> QED BY <4>1, <4>2, <1>1
    <3>2. CASE ~AtUnit
      <4>1. upos > Len(CurUnits)
        BY <3>2, <1>1 DEF AtUnit
      <4>2. FramesBehind = Len(stream) /\ ContentAt = SizesOf(stream)[Len(stream)]
        BY <4>1 DEF FramesBehind, ContentAt, ContentPos
      <4> QED BY <4>2, <1>1
    <3> QED BY <3>1, <3>2
  <2> QED BY <2>3, <2>4, <1>1, SizesAre
<1>3. ASSUME result.k = "hint", ~frame_ended
      PROVE  result.n <= FrameRest
  <2>1. ~failed /\ pc = "idle"
    BY <1>3 DEF IInv, ReportInv, PlaceInv
  <2>2. result.n <= IF ~AtUnit THEN PrefixLen
                    ELSE IF stage.k = "skip" THEN stage.left ELSE Cur.len - unit
    BY <1>3 DEF IInv, ReportInv
  <2>3. CASE ~AtUnit
    <3>1. upos > Len(CurUnits)
      BY <2>3, <1>1 DEF AtUnit
    <3> QED BY <3>1, <2>2, <2>3 DEF FrameRest
  <2>4. CASE AtUnit
    <3> DEFINE L == LensFrom(upos, Cur.f)
    <3>1. ~(upos > Len(CurUnits)) /\ Cur.len \in Nat
      BY <2>4, <1>1 DEF UnitAt, Cur
    <3>2. L \in Nat /\ L >= Cur.len
      BY <2>4, <1>1, LensFromAtLeast DEF Cur
    <3>3. unit \in Nat /\ stage.left \in Nat /\ result.n \in Int
      BY DEF IInv, TypeInv, StageSet
    <3>4. stage.k = "skip" => unit = 0
      BY <2>1 DEF IInv, PlaceInv
    <3>5. FrameRest = L - unit - (IF stage.k = "skip" THEN Cur.len - stage.left ELSE 0)
      BY <3>1 DEF FrameRest
    <3> HIDE DEF L
    <3>6. CASE stage.k = "skip"
      BY <3>1, <3>2, <3>3, <3>4, <3>5, <3>6, <2>2, <2>4
    <3>7. CASE stage.k # "skip"
      BY <3>1, <3>2, <3>3, <3>5, <3>7, <2>2, <2>4
    <3> QED BY <3>6, <3>7
  <2> QED BY <2>3, <2>4
<1>4. /\ zeros + (IF frame_ended THEN 1 ELSE 0) = FramesBehind
      /\ result.k = "hint" => result.n >= 1
  BY DEF IInv, ReportInv
<1> QED BY <1>2, <1>3, <1>4 DEF FramesReported

(* The verdict.                                                            *)
LEMMA InvVerdict ==
  ASSUME IInv
  PROVE  VerdictIsOneShot
<1> DEFINE N == Len(CurUnits)
           L == LensTo[N]
           cut == stream[Len(stream)].cut
<1>1. /\ stream \in Streams /\ Linked(stream, CurUnits) /\ N \in Nat /\ upos \in Nat
      /\ upos >= 1 /\ upos <= N + 1 /\ LensTo[upos - 1] \in Nat /\ L \in Nat
      /\ AtUnit => UnitAt(stream, CurUnits, upos) /\ upos \in 1 .. N
  BY HereIs DEF IInv, Here
<1>2. ASSUME pc = "idle", ~failed, given = StreamLen[stream], left = 0, Pending = 0
      PROVE  Finish <=> OneShotOk(stream)
  <2> DEFINE a == LensTo[upos - 1]
             l == Cur.len
             x == stage.left
  <2>1. Finish <=> stage.k = "header" /\ unit = 0
    BY <1>2 DEF Finish
  <2>2. (cut => given = L - 1) /\ (~cut => given = L)
    BY <1>1, <1>2, StreamLenIs DEF CurUnits, LensTo
  <2>3. given - left = a + unit + (IF stage.k = "skip" THEN l - x ELSE 0)
    BY <1>2 DEF IInv, BytesInv
  <2>4. given \in Nat /\ left \in Nat /\ unit \in Nat /\ x \in Nat
    BY DEF IInv, TypeInv, StageSet
  <2>5. CASE AtUnit
    <3>1. l \in Nat /\ a + l <= L /\ Cur.k = stage.k /\ (Cur.k = "header" => l >= PrefixLen)
      <4>1. Cur.k = stage.k
        BY <2>5, <1>2 DEF IInv, PlaceInv
      <4> QED BY <4>1, <2>5, <1>1 DEF UnitAt, LensTo, Cur
    <3>2. PrefixLen \in Nat /\ PrefixLen > 1
      BY SizesAssumption
    <3>3. ~Finish
      <4> SUFFICES ASSUME stage.k = "header", unit = 0 PROVE FALSE
        BY <2>1
      <4>1. given - left = a + 0 + 0
        BY <2>3
      <4>2. a + l <= L /\ l >= PrefixLen /\ given >= L - 1
        BY <3>1, <2>2, <2>4, <1>1
      <4> HIDE DEF a, l, L, N, cut
      <4> QED BY <4>1, <4>2, <3>1, <3>2, <2>4, <1>1, <1>2 DEF a, N
    <3>4. ~OneShotOk(stream)
      <4> SUFFICES ASSUME ~cut PROVE FALSE
        BY DEF OneShotOk
      <4>1. given = L /\ left = 0
        BY <2>2, <1>2
      <4>2. IF stage.k = "skip" THEN x > 0 ELSE unit < l
        BY <2>5, <1>2 DEF IInv, RestInv
      <4>3. stage.k = "skip" => unit = 0
        BY <1>2 DEF IInv, PlaceInv
      <4>4. a \in Nat /\ L \in Nat
        BY <1>1
      <4> HIDE DEF a, l, L, N, cut, x
      <4>5. CASE stage.k = "skip"
        BY <4>1, <4>2, <4>3, <4>4, <4>5, <3>1, <2>3, <2>4
      <4>6. CASE stage.k # "skip"
        BY <4>1, <4>2, <4>4, <4>6, <3>1, <2>3, <2>4
      <4> QED BY <4>5, <4>6
    <3> QED BY <3>3, <3>4
  <2>6. CASE ~AtUnit
    <3>1. upos = N + 1
      BY <2>6, <1>1 DEF AtUnit
    <3>2. stage.k = "header" /\ unit = 0
      BY <2>6, <1>2 DEF IInv, PlaceInv
    <3>3. Finish
      BY <3>2, <2>1
    <3>4. given = L
      <4>1. upos - 1 = N
        BY <3>1, <1>1
      <4>2. given - left = L + 0 + 0
        BY <4>1, <3>2, <2>3
      <4> HIDE DEF L, N
      <4> QED BY <4>2, <2>4, <1>1, <1>2
    <3>5. ~cut
      <4> SUFFICES ASSUME cut PROVE FALSE
        OBVIOUS
      <4>1. given = L - 1
        BY <2>2
      <4> HIDE DEF L, N, cut
      <4> QED BY <4>1, <3>4, <1>1
    <3>6. BadUnits[stream] = {}
      <4>1. BadUnits[stream] \subseteq 1 .. N
        BY <1>1 DEF BadUnits, Linked, CurUnits
      <4>2. \A i \in BadUnits[stream] : N + 1 <= i
        BY <3>1 DEF IInv, VerdictInv
      <4> HIDE DEF N
      <4> QED BY <4>1, <4>2, <1>1
    <3> QED BY <3>3, <3>5, <3>6 DEF OneShotOk
  <2> QED BY <2>5, <2>6
<1> QED BY <1>2 DEF IInv, VerdictInv, VerdictIsOneShot

(* Every byte of the window is found, and none but it and the dictionary.  *)
LEMMA LooksUp ==
  ASSUME NEW r \in RingSet, NEW m, NEW b \in BlkSet, NEW fr, NEW f, NEW n \in Nat, NEW D \in Nat,
         NEW L, L = D \/ L = 0,
         RingFor(r, fr, n), HistoryOf(r, m, f, n + b.j, r.end + b.j),
         r.end > r.window => b.ext.k = "none" /\ b.ext.len = 0,
         r.end <= r.window /\ r.ext_end = 0 => b.ext.k = "dict" /\ b.ext.len = L,
         r.end <= r.window /\ r.ext_end # 0 => b.ext.k = "ring" /\ b.ext.len = r.ext_end,
         ring = r, mem = m, blk = b
  PROVE  /\ \A d \in 1 .. Least(n + b.j, fr.window) :
               Lookup(d) = <<Token(f, (n + b.j) - d + 1)>>
         /\ n + b.j <= fr.window => \A e \in 1 .. L : Lookup((n + b.j) + e) = <<DictToken(e)>>
         /\ \A d \in Least(n + b.j, fr.window) + 1 .. n + b.j + D + 1 :
               Lookup(d) # <<>> => n + b.j <= fr.window /\ d \in n + b.j + 1 .. n + b.j + L
<1> DEFINE w == r.window
           x == r.ext_end
           e0 == r.end
           j == b.j
           a == e0 + j
           k == n + j
           l == b.ext.len
           t == b.ext.k
<1>1. /\ w \in Nat /\ x \in Nat /\ e0 \in Nat /\ j \in Nat /\ a \in Nat /\ k \in Nat /\ l \in Nat
      /\ L \in Nat /\ Overlength \in Nat
  BY RingFields, SizesAssumption DEF BlkSet
<1>2. /\ w = fr.window /\ e0 <= n /\ (x = 0 => e0 = n) /\ (x > 0 => x > w + Overlength /\ x <= n)
  BY DEF RingFor
<1>3. ASSUME NEW d \in Nat
      PROVE  Lookup(d) = IF (d > w /\ (t # "dict" \/ a > w)) \/ d - a > l THEN <<>>
                         ELSE IF d <= a THEN <<m[a - d]>>
                         ELSE IF t = "dict" THEN <<DictToken(d - a)>>
                         ELSE <<m[x - (d - a)]>>
  BY DEF Lookup
<1>4. \A d \in 1 .. Least(k, w) : m[IF d <= a THEN a - d ELSE x - (d - a)] = Token(f, k - d + 1)
  BY DEF HistoryOf
<1>5. /\ e0 > w => t = "none" /\ l = 0
      /\ e0 <= w /\ x = 0 => t = "dict" /\ l = L
      /\ e0 <= w /\ x # 0 => t = "ring" /\ l = x
  OBVIOUS
<1> HIDE DEF w, x, e0, j, l, t
<1>6. k <= w => x = 0 /\ e0 = n /\ a = k /\ t = "dict" /\ l = L
  <2> SUFFICES ASSUME k <= w PROVE x = 0 /\ e0 = n /\ a = k /\ t = "dict" /\ l = L
    OBVIOUS
  <2>1. x = 0
    BY <1>1, <1>2
  <2>2. e0 = n /\ e0 <= w
    BY <2>1, <1>1, <1>2
  <2> QED BY <2>1, <2>2, <1>5
<1>7. k > w => t # "dict" \/ a > w
  <2> SUFFICES ASSUME k > w, t = "dict" PROVE a > w
    OBVIOUS
  <2>1. ~(e0 > w) /\ ~(e0 <= w /\ x # 0)
    BY <1>5
  <2>2. x = 0
    BY <2>1, <1>1
  <2> QED BY <2>2, <1>1, <1>2
<1> HIDE DEF a, k
<1>8. ASSUME NEW d \in 1 .. Least(k, w) PROVE Lookup(d) = <<Token(f, k - d + 1)>>
  <2>1. d \in Nat /\ d <= k /\ d <= w /\ ~(d > w)
    BY <1>1 DEF Least
  <2>2. CASE d <= a
    <3>1. ~(d - a > l)
      BY <2>1, <2>2, <1>1
    <3>2. Lookup(d) = <<m[a - d]>>
      BY <3>1, <2>1, <2>2, <1>3
    <3>3. m[a - d] = Token(f, k - d + 1)
      BY <2>2, <1>4
    <3> QED BY <3>2, <3>3
  <2>3. CASE ~(d <= a)
    <3>1. k > w
      BY <2>1, <2>3, <1>1, <1>6
    <3>2. e0 <= w /\ x # 0
      <4>1. e0 <= w
        BY <2>1, <2>3, <1>1 DEF a
      <4>2. x # 0
        <5> SUFFICES ASSUME x = 0 PROVE FALSE
          OBVIOUS
        <5>1. a = k
          BY <1>2 DEF a, k
        <5> QED BY <5>1, <2>1, <2>3
      <4> QED BY <4>1, <4>2
    <3>3. t = "ring" /\ l = x /\ x > w
      BY <3>2, <1>1, <1>2, <1>5
    <3>4. ~(d - a > l) /\ t # "dict"
      BY <3>3, <2>1, <1>1
    <3>5. Lookup(d) = <<m[x - (d - a)]>>
      BY <3>4, <2>1, <2>3, <1>3
    <3>6. m[x - (d - a)] = Token(f, k - d + 1)
      BY <2>3, <1>4
    <3> QED BY <3>5, <3>6
  <2> QED BY <2>2, <2>3
<1>9. ASSUME k <= w, NEW e \in 1 .. L PROVE Lookup(k + e) = <<DictToken(e)>>
  <2> DEFINE d == k + e
  <2>1. /\ d \in Nat /\ d - a = e /\ ~(d <= a) /\ ~(d - a > l) /\ t = "dict" /\ ~(a > w)
    BY <1>1, <1>6, <1>9
  <2> HIDE DEF d
  <2>2. Lookup(d) = <<DictToken(d - a)>>
    BY <2>1, <1>3
  <2> QED BY <2>1, <2>2 DEF d
<1>10. ASSUME NEW d \in Least(k, w) + 1 .. k + D + 1, Lookup(d) # <<>>
       PROVE  k <= w /\ d \in k + 1 .. k + L
  <2>1. d \in Nat /\ (k <= w => d > k) /\ (k > w => d > w)
    BY <1>1 DEF Least
  <2>2. ~((d > w /\ (t # "dict" \/ a > w)) \/ d - a > l)
    BY <2>1, <1>3, <1>10
  <2>3. k <= w
    BY <2>1, <2>2, <1>1, <1>7
  <2>4. a = k /\ l = L /\ d > k /\ ~(d - a > l)
    BY <2>1, <2>2, <2>3, <1>6
  <2> QED BY <2>1, <2>3, <2>4, <1>1
<1>11. w = fr.window /\ k = n + b.j
  BY <1>2 DEF k, j
<1>12. n + b.j + D + 1 = k + D + 1 /\ n + b.j + 1 = k + 1 /\ n + b.j + L = k + L
  BY <1>11
<1> QED BY <1>8, <1>9, <1>10, <1>11, <1>12

(* The history of the next byte.                                           *)
LEMMA InvHistory ==
  ASSUME IInv
  PROVE  HistoryIntact
<1> DEFINE n == stage.decoded
           j == blk.j
           w == CurFrame.window
           L == IF dict THEN DictLen ELSE 0
<1> SUFFICES ASSUME pc = "write", CurBlock.fault = "none", blk.j < CurBlock.out
             PROVE  /\ ring.end + BlockRoom <= ring.len
                    /\ \A d \in 1 .. Least(n + j, w) : Lookup(d) = <<Token(Cur.f, (n + j) - d + 1)>>
                    /\ dict /\ n + j <= w =>
                          \A e \in 1 .. DictLen : Lookup(n + j + e) = <<DictToken(e)>>
                    /\ \A d \in Least(n + j, w) + 1 .. n + j + DictLen + 1 :
                          Lookup(d) # <<>> =>
                              dict /\ n + j <= w /\ d \in n + j + 1 .. n + j + DictLen
  BY DEF HistoryIntact
<1>1. AtWrite
  BY AtWriteIs
<1>2. /\ ring \in RingSet /\ blk \in BlkSet /\ n \in Nat /\ j \in Nat
      /\ RingFor(ring, CurFrame, n) /\ HistoryOf(ring, mem, Cur.f, n + j, ring.end + j)
      /\ ring.end + BlockRoom <= ring.len /\ w \in Nat /\ DictLen \in Nat
  BY <1>1, SizesAssumption DEF AtWrite, FrameSet
<1>3. blk.ext = ExtOf(ring)
  BY DEF IInv, RingInv
<1>4. ring.end \in Nat /\ ring.window \in Nat /\ ring.ext_end \in Nat
  BY <1>2, RingFields
<1>5. L = DictLen \/ L = 0
  OBVIOUS
<1>6. ring.end > ring.window => blk.ext.k = "none" /\ blk.ext.len = 0
  <2> SUFFICES ASSUME ring.end > ring.window PROVE blk.ext.k = "none" /\ blk.ext.len = 0
    OBVIOUS
  <2>1. ~(ring.end <= ring.window)
    BY <1>4
  <2>2. blk.ext = [k |-> "none", len |-> 0]
    BY <1>3, <2>1 DEF ExtOf
  <2> QED BY <2>2
<1>7. ring.end <= ring.window /\ ring.ext_end = 0 => blk.ext.k = "dict" /\ blk.ext.len = L
  <2> SUFFICES ASSUME ring.end <= ring.window, ring.ext_end = 0
               PROVE  blk.ext.k = "dict" /\ blk.ext.len = L
    OBVIOUS
  <2>1. ~(ring.end > ring.window)
    BY <1>4
  <2>2. blk.ext = [k |-> "dict", len |-> L]
    BY <1>3, <2>1 DEF ExtOf
  <2> HIDE DEF L
  <2> QED BY <2>2
<1>8. ring.end <= ring.window /\ ring.ext_end # 0 =>
         blk.ext.k = "ring" /\ blk.ext.len = ring.ext_end
  <2> SUFFICES ASSUME ring.end <= ring.window, ring.ext_end # 0
               PROVE  blk.ext.k = "ring" /\ blk.ext.len = ring.ext_end
    OBVIOUS
  <2>1. ~(ring.end > ring.window)
    BY <1>4
  <2>2. blk.ext = [k |-> "ring", len |-> ring.ext_end]
    BY <1>3, <2>1 DEF ExtOf
  <2> QED BY <2>2
<1> HIDE DEF L
<1>9. /\ \A d \in 1 .. Least(n + j, w) : Lookup(d) = <<Token(Cur.f, (n + j) - d + 1)>>
      /\ n + j <= w => \A e \in 1 .. L : Lookup((n + j) + e) = <<DictToken(e)>>
      /\ \A d \in Least(n + j, w) + 1 .. n + j + DictLen + 1 :
            Lookup(d) # <<>> => n + j <= w /\ d \in n + j + 1 .. n + j + L
  BY <1>2, <1>5, <1>6, <1>7, <1>8, LooksUp
<1> HIDE DEF n, j, w
<1>10. CASE dict
  <2>1. L = DictLen
    BY <1>10 DEF L
  <2> QED BY <2>1, <1>2, <1>9, <1>10
<1>11. CASE ~dict
  <2>1. L = 0 /\ n + j + 1 .. n + j + L = {}
    BY <1>2, <1>11 DEF L
  <2> QED BY <2>1, <1>2, <1>9, <1>11
<1> QED BY <1>10, <1>11

-----------------------------------------------------------------------------
(* What is written out is the content of the stream, from its start: no    *)
(* cut of the input, room of a call or wrap of the round buffer (Ring,     *)
(* decode/stream.rs) loses, repeats or misplaces a byte.                   *)
THEOREM DeliversContent == Spec => []Delivered
BY StreamInvariant, InvDelivered, PTL

(* At every byte of a block, the window before it is in reach through the  *)
(* segment and its history, and no copy's overshoot has written over it    *)
(* (block_dst, Ring::grow, exec_sequence).                                 *)
THEOREM KeepsHistory == Spec => []HistoryIntact
BY StreamInvariant, InvHistory, PTL

(* Every frame's end is reported once, its content written out, and no     *)
(* hint asks for more than the rest of the frame (Decompressor::run).      *)
THEOREM ReportsFrames == Spec => []FramesReported
BY StreamInvariant, InvFramesReported, PTL

(* Streaming fails where one-shot decoding does, or above its window       *)
(* limit, and finish accepts what one-shot decoding accepts.               *)
THEOREM TakesOneShotVerdict == Spec => []VerdictIsOneShot
BY StreamInvariant, InvVerdict, PTL
=============================================================================
