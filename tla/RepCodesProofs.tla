--------------------------- MODULE RepCodesProofs ---------------------------
(***************************************************************************)
(* What the folds of RepCodes compute, for sequences of every length.      *)
(*                                                                         *)
(* A fold is a recursive function over the subsets of a domain, so that it *)
(* exists, and takes the steps it should, has to be shown: by induction on *)
(* naturals in the form the provers can use, about a set (SetInduction),   *)
(* once for all folds (FoldStep).  The facts at the end are what the block *)
(* loop needs: what a block compressor found is found again by any history *)
(* that agrees with its own, a split block's sequences after resolving     *)
(* too, and the decoder copies from the offsets found.                     *)
(***************************************************************************)
EXTENDS RepCodes, WellFoundedInduction, TLAPS

-----------------------------------------------------------------------------
(* Induction, and the largest of a set of naturals.                        *)

(* A set that holds 0 and the successor of what it holds is all of Nat.    *)
LEMMA SetInduction ==
  ASSUME NEW S, 0 \in S, \A n \in Nat : n \in S => n + 1 \in S
  PROVE  Nat \subseteq S
<1>1. SUFFICES ASSUME Nat \ S # {} PROVE FALSE
  OBVIOUS
<1>2. IsWellFoundedOn(OpToRel(<,Nat), Nat)
  BY NatLessThanWellFounded
<1>3. PICK x \in Nat \ S : \A y \in Nat \ S : ~ (<<y, x>> \in OpToRel(<, Nat))
  BY <1>1, <1>2, WFMin, Zenon
<1>4. \A y \in Nat : y < x => <<y, x>> \in OpToRel(<, Nat)
  BY DEF OpToRel
<1>5. \A y \in Nat : y < x => y \in S
  BY <1>3, <1>4, Zenon
<1>6. x - 1 \in S
  BY <1>5
<1>7. x \in S
  BY <1>6
<1> QED BY <1>7

(* A non-empty set of positions up to n has a largest.                     *)
LEMMA MaxIsLargest ==
  ASSUME NEW n \in Nat, NEW t \in SUBSET (1..n), t # {}
  PROVE  Max(t) \in t /\ \A y \in t : y <= Max(t)
<1> DEFINE S == {m \in Nat : \A u \in SUBSET (1..m) :
                               u # {} => \E x \in u : \A y \in u : x >= y}
<1>1. 0 \in S
  <2> 1..0 = {}
    OBVIOUS
  <2> QED OBVIOUS
<1>2. ASSUME NEW m \in Nat, m \in S PROVE m + 1 \in S
  <2> SUFFICES ASSUME NEW u \in SUBSET (1..(m + 1)), u # {}
               PROVE  \E x \in u : \A y \in u : x >= y
    OBVIOUS
  <2>1. CASE m + 1 \in u
    BY <2>1
  <2>2. CASE m + 1 \notin u
    <3> u \in SUBSET (1..m)
      BY <2>2
    <3> QED BY <1>2
  <2> QED BY <2>1, <2>2
<1>3. Nat \subseteq S
  <2> HIDE DEF S
  <2> QED BY <1>1, <1>2, SetInduction
<1>4. PICK x \in t : \A y \in t : x >= y
  BY <1>3
<1>5. Max(t) \in t /\ \A y \in t : Max(t) >= y
  BY <1>4 DEF Max
<1> QED BY <1>5

(* The largest of the first i positions, and the positions before it.      *)
LEMMA MaxOfPrefix ==
  ASSUME NEW i \in Nat, i >= 1
  PROVE  Max(1..i) = i /\ (1..i) \ {i} = 1..(i - 1)
<1>1. Max(1..i) \in 1..i /\ \A y \in 1..i : y <= Max(1..i)
  <2> DEFINE t == 1..i
  <2>1. t \in SUBSET (1..i) /\ t # {}
    OBVIOUS
  <2> HIDE DEF t
  <2>2. Max(t) \in t /\ \A y \in t : y <= Max(t)
    BY <2>1, MaxIsLargest
  <2> QED BY <2>2 DEF t
<1> QED BY <1>1

-----------------------------------------------------------------------------
(* The folds.                                                              *)

\* The step of each fold of RepCodes; reach is a parameter of one of them.
FoldStep(fold, reach, a, x) ==
    CASE fold = "update"  -> UpdateRep(a, x.ob, x.ll0)
      [] fold = "resolve" -> ResolveOffCode(a, x)
      [] fold = "decode"  -> DecodeOffset(a, x)
      [] fold = "two"     -> TwoStep(a, x)
      [] fold = "three"   -> ThreeStep(a, x, reach)

\* F is the recursive function of a fold from b over the first n of s.
Folds(fold, reach, b, s, n, F) ==
    F = [t \in SUBSET (1..n) |->
           IF t = {} THEN b
           ELSE FoldStep(fold, reach, F[t \ {Max(t)}], s[Max(t)])]

\* What the fold comes to.
Folded(fold, reach, b, s, n) == (CHOOSE F : Folds(fold, reach, b, s, n, F))[1..n]

\* h is what a fold from b over the first n of s has come to after each.
Path(fold, reach, b, s, n, h) ==
    /\ h[0] = b
    /\ \A i \in 1..n : h[i] = FoldStep(fold, reach, h[i - 1], s[i])

(* The recursive function exists.                                          *)
LEMMA FoldsExist ==
  ASSUME NEW fold, NEW reach, NEW b, NEW s, NEW n \in Nat
  PROVE  \E F : Folds(fold, reach, b, s, n, F)
<1> DEFINE S == {m \in Nat : \E F : Folds(fold, reach, b, s, m, F)}
<1>1. 0 \in S
  <2> DEFINE F == [t \in SUBSET (1..0) |-> b]
  <2>1. \A t \in SUBSET (1..0) : t = {}
    OBVIOUS
  <2>2. Folds(fold, reach, b, s, 0, F)
    BY <2>1 DEF Folds
  <2> QED BY <2>2
<1>2. ASSUME NEW m \in Nat, m \in S PROVE m + 1 \in S
  <2>1. PICK F : Folds(fold, reach, b, s, m, F)
    BY <1>2
  <2> DEFINE G == [t \in SUBSET (1..(m + 1)) |->
                     IF t = {} THEN b
                     ELSE FoldStep(fold, reach, F[t \ {Max(t)}], s[Max(t)])]
  <2>2. ASSUME NEW t \in SUBSET (1..(m + 1)), t # {}
        PROVE  t \ {Max(t)} \in SUBSET (1..m)
    <3>1. m + 1 \in Nat
      OBVIOUS
    <3>2. Max(t) \in t /\ \A y \in t : y <= Max(t)
      BY <2>2, <3>1, MaxIsLargest
    <3>3. PICK x \in t : x = Max(t)
      BY <3>2
    <3>4. \A y \in t : y <= x
      BY <3>2, <3>3
    <3>5. t \ {x} \in SUBSET (1..m)
      BY <3>4
    <3> QED BY <3>3, <3>5
  <2>3. ASSUME NEW u \in SUBSET (1..m) PROVE G[u] = F[u]
    <3>1. u \in SUBSET (1..(m + 1))
      OBVIOUS
    <3>2. F[u] = IF u = {} THEN b ELSE FoldStep(fold, reach, F[u \ {Max(u)}], s[Max(u)])
      BY <2>1 DEF Folds
    <3> QED BY <3>1, <3>2
  <2>4. \A t \in SUBSET (1..(m + 1)) : t # {} => G[t \ {Max(t)}] = F[t \ {Max(t)}]
    BY <2>2, <2>3
  <2>5. G = [t \in SUBSET (1..(m + 1)) |->
               IF t = {} THEN b
               ELSE FoldStep(fold, reach, G[t \ {Max(t)}], s[Max(t)])]
    <3>1. \A t \in SUBSET (1..(m + 1)) :
            G[t] = IF t = {} THEN b ELSE FoldStep(fold, reach, F[t \ {Max(t)}], s[Max(t)])
      OBVIOUS
    <3>2. DOMAIN G = SUBSET (1..(m + 1))
      OBVIOUS
    <3> HIDE DEF G
    <3>3. \A t \in SUBSET (1..(m + 1)) :
            G[t] = IF t = {} THEN b ELSE FoldStep(fold, reach, G[t \ {Max(t)}], s[Max(t)])
      BY <3>1, <2>4
    <3>4. G = [t \in SUBSET (1..(m + 1)) |-> G[t]]
      BY <3>2 DEF G
    <3> QED BY <3>3, <3>4
  <2>6. Folds(fold, reach, b, s, m + 1, G)
    <3> HIDE DEF G
    <3> QED BY <2>5 DEF Folds
  <2> QED BY <2>6
<1>3. Nat \subseteq S
  <2> HIDE DEF S
  <2> QED BY <1>1, <1>2, SetInduction
<1> QED BY <1>3

(* It passes through a path, and ends where the path does.                 *)
LEMMA FoldsTakeSteps ==
  ASSUME NEW fold, NEW reach, NEW b, NEW s, NEW n \in Nat, NEW F,
         Folds(fold, reach, b, s, n, F)
  PROVE  \E h : Path(fold, reach, b, s, n, h) /\ F[1..n] = h[n]
<1> DEFINE h == [i \in 0..n |-> F[1..i]]
<1>1. h[0] = b
  <2>1. 1..0 = {} /\ {} \in SUBSET (1..n)
    OBVIOUS
  <2>2. F[{}] = b
    BY <2>1 DEF Folds
  <2> QED BY <2>1, <2>2
<1>2. ASSUME NEW i \in 1..n PROVE h[i] = FoldStep(fold, reach, h[i - 1], s[i])
  <2>1. Max(1..i) = i /\ (1..i) \ {i} = 1..(i - 1)
    BY MaxOfPrefix
  <2>2. 1..i \in SUBSET (1..n) /\ 1..i # {}
    OBVIOUS
  <2>3. F[1..i] = FoldStep(fold, reach, F[(1..i) \ {Max(1..i)}], s[Max(1..i)])
    BY <2>2 DEF Folds
  <2>4. F[1..i] = FoldStep(fold, reach, F[1..(i - 1)], s[i])
    BY <2>1, <2>3
  <2> QED BY <2>4
<1>3. h[n] = F[1..n]
  OBVIOUS
<1> HIDE DEF h
<1> QED BY <1>1, <1>2, <1>3 DEF Path

(* So what the fold comes to ends a path.                                  *)
LEMMA FoldPath ==
  ASSUME NEW fold, NEW reach, NEW b, NEW s, NEW n \in Nat
  PROVE  \E h : /\ Path(fold, reach, b, s, n, h)
                /\ Folded(fold, reach, b, s, n) = h[n]
<1> DEFINE F == CHOOSE G : Folds(fold, reach, b, s, n, G)
<1>1. Folds(fold, reach, b, s, n, F)
  BY FoldsExist
<1> HIDE DEF F
<1>2. \E h : Path(fold, reach, b, s, n, h) /\ F[1..n] = h[n]
  BY <1>1, FoldsTakeSteps
<1> QED BY <1>2 DEF F, Folded

(* UpdateReps ends a path of UpdateRep.                                    *)
LEMMA UpdatePath ==
  ASSUME NEW b, NEW s, NEW n \in Nat, DOMAIN s = 1..n
  PROVE  \E h : Path("update", 0, b, s, n, h) /\ UpdateReps(b, s) = h[n]
<1>1. UpdateReps(b, s) = Folded("update", 0, b, s, n)
  BY DEF UpdateReps, FoldLeft, MapThenFoldSet, Folded, Folds, FoldStep
<1> QED BY <1>1, FoldPath

(* ResolveOffCodes one of ResolveOffCode.                                  *)
LEMMA ResolvePath ==
  ASSUME NEW d, NEW c, NEW s, NEW n \in Nat, DOMAIN s = 1..n
  PROVE  \E h : /\ Path("resolve", 0, [d |-> d, c |-> c, seqs |-> <<>>], s, n, h)
                /\ ResolveOffCodes(d, c, s) = h[n]
<1> DEFINE b == [d |-> d, c |-> c, seqs |-> <<>>]
<1>1. ResolveOffCodes(d, c, s) = Folded("resolve", 0, b, s, n)
  BY DEF ResolveOffCodes, FoldLeft, MapThenFoldSet, Folded, Folds, FoldStep
<1> QED BY <1>1, FoldPath

(* DecodeSequences one of DecodeOffset.                                    *)
LEMMA DecodePath ==
  ASSUME NEW hist, NEW s, NEW n \in Nat, DOMAIN s = 1..n
  PROVE  \E h : /\ Path("decode", 0, [hist |-> hist, offs |-> <<>>], s, n, h)
                /\ DecodeSequences(hist, s) = h[n]
<1> DEFINE b == [hist |-> hist, offs |-> <<>>]
<1>1. DecodeSequences(hist, s) = Folded("decode", 0, b, s, n)
  BY DEF DecodeSequences, FoldLeft, MapThenFoldSet, Folded, Folds, FoldStep
<1> QED BY <1>1, FoldPath

\* Whether a block compressor keeps three offsets, and whether a search has
\* made only moves it can make; the provers take them as they are.
KeepsThree(three) == three = TRUE
KeepsTwo(three) == three = FALSE
Possible(f) == f.ok = TRUE

(* Search with three offsets one of ThreeStep.                             *)
LEMMA ThreePath ==
  ASSUME NEW three \in BOOLEAN, KeepsThree(three), NEW rep, NEW reach,
         NEW moves, NEW n \in Nat, DOMAIN moves = 1..n
  PROVE  \E h : /\ Path("three", reach, [rep |-> rep, ok |-> TRUE, seqs |-> <<>>],
                        moves, n, h)
                /\ Search(three, rep, reach, moves) = h[n]
<1> DEFINE b == [rep |-> rep, ok |-> TRUE, seqs |-> <<>>]
<1>1. Search(three, rep, reach, moves) = Folded("three", reach, b, moves, n)
  BY DEF KeepsThree, Search, FoldLeft, MapThenFoldSet, Folded, Folds, FoldStep
<1> HIDE DEF b
<1>2. \E h : /\ Path("three", reach, b, moves, n, h)
             /\ Folded("three", reach, b, moves, n) = h[n]
  BY FoldPath
<1> QED BY <1>1, <1>2 DEF b

(* Search with two ends one of TwoStep, and gives the offsets back.        *)
LEMMA TwoPath ==
  ASSUME NEW three \in BOOLEAN, KeepsTwo(three), NEW rep, NEW reach,
         NEW moves, NEW n \in Nat, DOMAIN moves = 1..n
  PROVE  \E h : /\ Path("two", 0, TwoStart(rep, reach, <<>>), moves, n, h)
                /\ Search(three, rep, reach, moves)
                     = [rep |-> TwoFinish(h[n]), ok |-> h[n].ok, seqs |-> h[n].seqs]
<1> DEFINE b == TwoStart(rep, reach, <<>>)
<1> HIDE DEF b
<1>1. Search(three, rep, reach, moves)
        = LET f == Folded("two", 0, b, moves, n)
          IN  [rep |-> TwoFinish(f), ok |-> f.ok, seqs |-> f.seqs]
  BY DEF KeepsTwo, Search, FoldLeft, MapThenFoldSet, Folded, Folds, FoldStep, b
<1>2. PICK h : Path("two", 0, b, moves, n, h) /\ Folded("two", 0, b, moves, n) = h[n]
  BY FoldPath
<1> QED BY <1>1, <1>2 DEF b

-----------------------------------------------------------------------------
(* Histories.                                                              *)

\* The offsets an encoder's history holds, 0 for one it does not know.
Reps == Nat \X Nat \X Nat

\* A sequence of a block compressor: the offset it was found at is positive,
\* and one that keeps two offsets writes repcode 1 only.
IsSeq(three, s) ==
    /\ s \in [ob : Nat, ll0 : BOOLEAN, raw : Nat]
    /\ s.ob >= 1 /\ s.raw >= 1
    /\ OffbaseIsRepcode(s.ob) => three \/ s.ob = 1

\* What the first history knows, the second one holds.
Agree(three, rep, hist) ==
    /\ rep[1] # 0 => rep[1] = hist[1]
    /\ rep[2] # 0 => rep[2] = hist[2]
    /\ three /\ rep[3] # 0 => rep[3] = hist[3]

\* An encoder that keeps two offsets knows the second only with the first.
Known(three, rep) == ~three /\ rep[1] = 0 => rep[2] = 0

(* An encoder's history after a sequence whose offset its history names.   *)
LEMMA UpdateRepType ==
  ASSUME NEW three \in BOOLEAN, NEW rep \in Reps, NEW s, IsSeq(three, s),
         UpdateRep(rep, s.ob, s.ll0)[1] = s.raw
  PROVE  /\ UpdateRep(rep, s.ob, s.ll0) \in Reps
         /\ Known(three, UpdateRep(rep, s.ob, s.ll0))
  BY DEF Reps, IsSeq, UpdateRep, OffbaseIsRepcode, RepNum, Ll0, RepAt, Known

(* A decoder whose history holds what the encoder's knows copies a match   *)
(* from the offset it was found at, and holds what the encoder then knows. *)
LEMMA DecodeAgrees ==
  ASSUME NEW three \in BOOLEAN, NEW rep \in Reps, NEW hist, NEW s,
         IsSeq(three, s), Agree(three, rep, hist),
         UpdateRep(rep, s.ob, s.ll0)[1] = s.raw
  PROVE  /\ DecodeSequence(hist, s.ob, s.ll0)[1] = s.raw
         /\ Agree(three, UpdateRep(rep, s.ob, s.ll0), DecodeSequence(hist, s.ob, s.ll0))
  BY DEF Reps, IsSeq, Agree, UpdateRep, OffbaseIsRepcode, RepNum, Ll0, RepAt, DecodeSequence

-----------------------------------------------------------------------------
(* Sequences found from a history.                                         *)

SeqSet == [ob : Nat, ll0 : BOOLEAN, raw : Nat]

\* h is the history after each sequence, which names the offset it was found
\* at.
Found(three, seqs, h) ==
    /\ seqs \in Seq(SeqSet)
    /\ h[0] \in Reps
    /\ \A i \in 1..Len(seqs) :
         /\ IsSeq(three, seqs[i])
         /\ h[i] = UpdateRep(h[i - 1], seqs[i].ob, seqs[i].ll0)
         /\ h[i] \in Reps /\ h[i][1] = seqs[i].raw

(* Nothing is found from any history.                                      *)
LEMMA FoundNothing ==
  ASSUME NEW three, NEW rep \in Reps
  PROVE  Found(three, <<>>, [i \in 0..0 |-> rep])
  BY DEF Found

(* The history after all of them.                                          *)
LEMMA FoundReps ==
  ASSUME NEW three, NEW seqs, NEW h, Found(three, seqs, h)
  PROVE  h[Len(seqs)] \in Reps
<1>1. Len(seqs) \in Nat
  BY DEF Found
<1> QED BY <1>1 DEF Found

(* A history after sequences depends on nothing else.                      *)
LEMMA FoundAgain ==
  ASSUME NEW three, NEW seqs, NEW h, Found(three, seqs, h), NEW g, g[0] = h[0],
         \A i \in 1..Len(seqs) : g[i] = UpdateRep(g[i - 1], seqs[i].ob, seqs[i].ll0)
  PROVE  g[Len(seqs)] = h[Len(seqs)]
<1> DEFINE S == {i \in Nat : i <= Len(seqs) => g[i] = h[i]}
<1>0. Len(seqs) \in Nat
  BY DEF Found
<1>1. 0 \in S
  OBVIOUS
<1>2. ASSUME NEW i \in Nat, i \in S PROVE i + 1 \in S
  <2>1. SUFFICES ASSUME i + 1 <= Len(seqs) PROVE g[i + 1] = h[i + 1]
    OBVIOUS
  <2>2. i + 1 \in 1..Len(seqs) /\ (i + 1) - 1 = i /\ g[i] = h[i]
    BY <1>0, <1>2, <2>1
  <2>3. h[i + 1] = UpdateRep(h[i], seqs[i + 1].ob, seqs[i + 1].ll0)
    BY <2>2 DEF Found
  <2>4. g[i + 1] = UpdateRep(g[i], seqs[i + 1].ob, seqs[i + 1].ll0)
    BY <2>2
  <2> QED BY <2>2, <2>3, <2>4
<1>3. Nat \subseteq S
  <2> HIDE DEF S
  <2> QED BY <1>1, <1>2, SetInduction
<1> QED BY <1>0, <1>3

(* UpdateReps comes to it.                                                 *)
LEMMA UpdateFound ==
  ASSUME NEW three, NEW seqs, NEW h, Found(three, seqs, h)
  PROVE  UpdateReps(h[0], seqs) = h[Len(seqs)]
<1>1. Len(seqs) \in Nat /\ DOMAIN seqs = 1..Len(seqs)
  BY DEF Found
<1>2. PICK g : /\ Path("update", 0, h[0], seqs, Len(seqs), g)
               /\ UpdateReps(h[0], seqs) = g[Len(seqs)]
  BY <1>1, UpdatePath
<1>3. /\ g[0] = h[0]
      /\ \A i \in 1..Len(seqs) : g[i] = UpdateRep(g[i - 1], seqs[i].ob, seqs[i].ll0)
  BY <1>2 DEF Path, FoldStep
<1>4. g[Len(seqs)] = h[Len(seqs)]
  BY <1>3, FoundAgain
<1> QED BY <1>2, <1>4

(* One more sequence.                                                      *)
LEMMA FoundAppend ==
  ASSUME NEW three \in BOOLEAN, NEW seqs, NEW h, Found(three, seqs, h),
         NEW s, IsSeq(three, s),
         UpdateRep(h[Len(seqs)], s.ob, s.ll0)[1] = s.raw
  PROVE  \E g : /\ Found(three, Append(seqs, s), g)
                /\ g[0] = h[0]
                /\ g[Len(Append(seqs, s))] = UpdateRep(h[Len(seqs)], s.ob, s.ll0)
<1> DEFINE n == Len(seqs)
           new == UpdateRep(h[n], s.ob, s.ll0)
           g == [i \in 0..(n + 1) |-> IF i <= n THEN h[i] ELSE new]
           t == Append(seqs, s)
<1>1. n \in Nat /\ seqs \in Seq(SeqSet) /\ s \in SeqSet
  BY DEF Found, IsSeq, SeqSet
<1>2. h[n] \in Reps
  BY <1>1 DEF Found
<1>3. new \in Reps
  BY <1>2, UpdateRepType
<1>4. t \in Seq(SeqSet) /\ Len(t) = n + 1 /\ t[n + 1] = s /\ \A i \in 1..n : t[i] = seqs[i]
  BY <1>1
<1>5. g[n + 1] = new /\ \A i \in 0..n : g[i] = h[i]
  BY <1>1
<1> HIDE DEF g, t, new
<1>6. ASSUME NEW i \in 1..(n + 1)
      PROVE  /\ IsSeq(three, t[i])
             /\ g[i] = UpdateRep(g[i - 1], t[i].ob, t[i].ll0)
             /\ g[i] \in Reps /\ g[i][1] = t[i].raw
  <2>1. CASE i = n + 1
    BY <2>1, <1>1, <1>3, <1>4, <1>5 DEF new
  <2>2. CASE i # n + 1
    <3>1. i \in 1..n /\ i - 1 \in 0..n /\ i \in 0..n
      BY <2>2, <1>1
    <3>2. t[i] = seqs[i] /\ g[i] = h[i] /\ g[i - 1] = h[i - 1]
      BY <3>1, <1>4, <1>5
    <3> QED BY <3>1, <3>2 DEF Found
  <2> QED BY <2>1, <2>2
<1>7. g[0] = h[0] /\ g[0] \in Reps
  BY <1>1, <1>5 DEF Found
<1>8. Found(three, t, g)
  BY <1>4, <1>6, <1>7 DEF Found
<1> QED BY <1>4, <1>5, <1>7, <1>8 DEF t, new

(* The first k of what was found, and the rest from where they leave off.  *)
LEMMA FoundParts ==
  ASSUME NEW three \in BOOLEAN, NEW seqs, NEW h, Found(three, seqs, h),
         NEW k \in 0..Len(seqs)
  PROVE  /\ Found(three, SubSeq(seqs, 1, k), h)
         /\ Found(three, SubSeq(seqs, k + 1, Len(seqs)),
                  [i \in 0..(Len(seqs) - k) |-> h[k + i]])
<1> DEFINE n == Len(seqs)
           a == SubSeq(seqs, 1, k)
           b == SubSeq(seqs, k + 1, n)
           g == [i \in 0..(n - k) |-> h[k + i]]
<1>1. n \in Nat /\ seqs \in Seq(SeqSet) /\ k \in Nat /\ k <= n
  BY DEF Found
<1>2. /\ a \in Seq(SeqSet) /\ Len(a) = k /\ \A i \in 1..k : a[i] = seqs[i]
      /\ b \in Seq(SeqSet) /\ Len(b) = n - k /\ \A i \in 1..(n - k) : b[i] = seqs[k + i]
  <2>1. Len(a) = k /\ \A i \in 1..k : a[i] = seqs[i]
    BY <1>1
  <2>2. Len(b) = n - k /\ \A i \in 1..(n - k) : b[i] = seqs[k + i]
    BY <1>1
  <2>3. a \in Seq(SeqSet) /\ b \in Seq(SeqSet)
    BY <1>1
  <2> QED BY <2>1, <2>2, <2>3
<1>3. \A i \in 0..(n - k) : g[i] = h[k + i]
  OBVIOUS
<1> HIDE DEF a, b, g
<1>4. Found(three, a, h)
  BY <1>1, <1>2 DEF Found
<1>5. g[0] \in Reps
  BY <1>1, <1>3 DEF Found
<1>6. ASSUME NEW i \in 1..(n - k)
      PROVE  /\ IsSeq(three, b[i])
             /\ g[i] = UpdateRep(g[i - 1], b[i].ob, b[i].ll0)
             /\ g[i] \in Reps /\ g[i][1] = b[i].raw
  <2>1. /\ k + i \in 1..n /\ i \in 0..(n - k) /\ i - 1 \in 0..(n - k)
        /\ (k + i) - 1 = k + (i - 1)
    BY <1>1
  <2>2. b[i] = seqs[k + i] /\ g[i] = h[k + i] /\ g[i - 1] = h[(k + i) - 1]
    BY <2>1, <1>2, <1>3
  <2> QED BY <2>1, <2>2 DEF Found
<1>7. Found(three, b, g)
  BY <1>2, <1>5, <1>6 DEF Found
<1> QED BY <1>4, <1>7 DEF a, b, g

(* A decoder that agrees with the history the sequences were found from    *)
(* copies every match from the offset it was found at, and agrees with     *)
(* the history after them.                                                 *)
LEMMA DecodeFound ==
  ASSUME NEW three \in BOOLEAN, NEW seqs, NEW h, Found(three, seqs, h),
         NEW hist, Agree(three, h[0], hist)
  PROVE  /\ DecodeSequences(hist, seqs).offs = [k \in 1..Len(seqs) |-> seqs[k].raw]
         /\ Agree(three, h[Len(seqs)], DecodeSequences(hist, seqs).hist)
<1> DEFINE n == Len(seqs)
           Raws(k) == [j \in 1..k |-> seqs[j].raw]
<1>1. n \in Nat /\ DOMAIN seqs = 1..n /\ seqs \in Seq(SeqSet)
  BY DEF Found
<1>2. PICK g : /\ Path("decode", 0, [hist |-> hist, offs |-> <<>>], seqs, n, g)
               /\ DecodeSequences(hist, seqs) = g[n]
  BY <1>1, DecodePath
<1> DEFINE S == {i \in Nat : i <= n => /\ g[i].offs = Raws(i)
                                       /\ Agree(three, h[i], g[i].hist)}
<1>3. 0 \in S
  <2>1. g[0] = [hist |-> hist, offs |-> <<>>]
    BY <1>2 DEF Path
  <2>2. Raws(0) = <<>>
    OBVIOUS
  <2> HIDE DEF Raws
  <2> QED BY <2>1, <2>2
<1>4. ASSUME NEW i \in Nat, i \in S PROVE i + 1 \in S
  <2> SUFFICES ASSUME i + 1 <= n
               PROVE  /\ g[i + 1].offs = Raws(i + 1)
                      /\ Agree(three, h[i + 1], g[i + 1].hist)
    OBVIOUS
  <2> DEFINE s == seqs[i + 1]
             new == DecodeSequence(g[i].hist, s.ob, s.ll0)
  <2>1. i + 1 \in 1..n /\ (i + 1) - 1 = i /\ i <= n
    BY <1>1
  <2>2. g[i + 1] = [hist |-> new, offs |-> Append(g[i].offs, new[1])]
    BY <1>2, <2>1 DEF Path, FoldStep, DecodeOffset
  <2>3. g[i].offs = Raws(i) /\ Agree(three, h[i], g[i].hist)
    BY <1>4, <2>1
  <2>4. /\ IsSeq(three, s) /\ h[i + 1] = UpdateRep(h[i], s.ob, s.ll0)
        /\ h[i + 1][1] = s.raw
    BY <2>1 DEF Found
  <2>5. h[i] \in Reps
    <3>1. CASE i = 0
      BY <3>1 DEF Found
    <3>2. CASE i # 0
      <4> i \in 1..n
        BY <3>2, <2>1, <1>1
      <4> QED BY DEF Found
    <3> QED BY <3>1, <3>2
  <2>6. new[1] = s.raw /\ Agree(three, h[i + 1], new)
    BY <2>3, <2>4, <2>5, DecodeAgrees
  <2>7. Append(Raws(i), s.raw) = Raws(i + 1)
    <3>0. \A j \in 1..n : seqs[j].raw \in Nat
      BY DEF Found, IsSeq
    <3>1. Raws(i) \in Seq(Nat) /\ Len(Raws(i)) = i /\ s.raw \in Nat
      <4> Raws(i) \in [1..i -> Nat]
        BY <3>0, <2>1
      <4> HIDE DEF Raws
      <4> QED BY <3>0, <2>1
    <3>2. Raws(i + 1) \in Seq(Nat) /\ Len(Raws(i + 1)) = i + 1
      <4> Raws(i + 1) \in [1..(i + 1) -> Nat]
        BY <3>0, <2>1
      <4> HIDE DEF Raws
      <4> QED OBVIOUS
    <3>3. \A j \in 1..(i + 1) : Raws(i + 1)[j] = IF j <= i THEN Raws(i)[j] ELSE s.raw
      OBVIOUS
    <3> HIDE DEF Raws
    <3>4. Append(Raws(i), s.raw) \in Seq(Nat) /\ Len(Append(Raws(i), s.raw)) = i + 1
      BY <3>1
    <3>5. \A j \in 1..(i + 1) : Append(Raws(i), s.raw)[j] = Raws(i + 1)[j]
      BY <3>1, <3>3
    <3> QED BY <3>2, <3>4, <3>5
  <2> HIDE DEF Raws, s, new
  <2>8. g[i + 1].offs = Append(Raws(i), s.raw)
    BY <2>2, <2>3, <2>6
  <2>9. g[i + 1].hist = new
    BY <2>2
  <2> QED BY <2>6, <2>7, <2>8, <2>9
<1>5. n \in S
  <2> HIDE DEF S
  <2> QED BY <1>1, <1>3, <1>4, SetInduction
<1>6. g[n].offs = Raws(n) /\ Agree(three, h[n], g[n].hist)
  BY <1>1, <1>5
<1> QED BY <1>2, <1>6

(* A partition resolved: its sequences, as they are written, are found     *)
(* from the history the encoder believes the decoder to hold, at the       *)
(* offsets the block compressor found them at, and stay as they were where *)
(* that history is the block compressor's.                                 *)
LEMMA ResolveFound ==
  ASSUME NEW three \in BOOLEAN, NEW seqs, NEW h, Found(three, seqs, h), NEW d \in Reps
  PROVE  LET r == ResolveOffCodes(d, h[0], seqs)
         IN  /\ r.c = h[Len(seqs)]
             /\ d = h[0] => r.seqs = seqs
             /\ \E g : /\ Found(three, r.seqs, g) /\ g[0] = d
                       /\ r.d = g[Len(r.seqs)] /\ Len(r.seqs) = Len(seqs)
                       /\ \A j \in 1..Len(seqs) : r.seqs[j].raw = seqs[j].raw
<1> DEFINE n == Len(seqs)
<1>1. n \in Nat /\ DOMAIN seqs = 1..n /\ seqs \in Seq(SeqSet)
  BY DEF Found
<1>2. PICK p : /\ Path("resolve", 0, [d |-> d, c |-> h[0], seqs |-> <<>>], seqs, n, p)
               /\ ResolveOffCodes(d, h[0], seqs) = p[n]
  BY <1>1, ResolvePath
<1> DEFINE Done(i) == /\ p[i].c = h[i]
                      /\ d = h[0] => p[i].d = h[i] /\ p[i].seqs = SubSeq(seqs, 1, i)
                      /\ \E g : /\ Found(three, p[i].seqs, g) /\ g[0] = d
                                /\ p[i].d = g[Len(p[i].seqs)] /\ Len(p[i].seqs) = i
                                /\ \A j \in 1..i : p[i].seqs[j].raw = seqs[j].raw
           S == {i \in Nat : i <= n => Done(i)}
<1>3. 0 \in S
  <2>1. p[0].c = h[0] /\ p[0].d = d /\ p[0].seqs = <<>>
    BY <1>2 DEF Path
  <2>2. SubSeq(seqs, 1, 0) = <<>>
    BY <1>1
  <2>3. Found(three, <<>>, [i \in 0..0 |-> d])
    BY FoundNothing
  <2>4. \E g : Found(three, <<>>, g) /\ g[0] = d
    BY <2>3
  <2>5. Done(0)
    BY <2>1, <2>2, <2>4
  <2> HIDE DEF Done
  <2> QED BY <2>5
<1>4. ASSUME NEW i \in Nat, i \in S PROVE i + 1 \in S
  <2> SUFFICES ASSUME i + 1 <= n PROVE Done(i + 1)
    <3> HIDE DEF Done
    <3> QED OBVIOUS
  <2>1. i + 1 \in 1..n /\ (i + 1) - 1 = i /\ i <= n
    BY <1>1
  <2>2. Done(i)
    <3> HIDE DEF Done
    <3> QED BY <1>4, <2>1
  <2>3. PICK g : /\ Found(three, p[i].seqs, g) /\ g[0] = d
                 /\ p[i].d = g[Len(p[i].seqs)] /\ Len(p[i].seqs) = i
                 /\ \A j \in 1..i : p[i].seqs[j].raw = seqs[j].raw
    BY <2>2
  <2> DEFINE s == seqs[i + 1]
             raw == ResolveRepcode(h[i], s.ob, s.ll0)
             new == OffbaseIsRepcode(s.ob) /\ ResolveRepcode(p[i].d, s.ob, s.ll0) # raw
             w == IF new THEN [s EXCEPT !.ob = OffsetToOffbase(raw)] ELSE s
  <2>4. p[i + 1] = [d |-> UpdateRep(p[i].d, w.ob, s.ll0), c |-> UpdateRep(h[i], s.ob, s.ll0),
                    seqs |-> Append(p[i].seqs, w)]
    <3>1. p[i + 1] = FoldStep("resolve", 0, p[i], s)
      BY <1>2, <2>1 DEF Path
    <3>2. p[i + 1] = ResolveOffCode(p[i], s)
      BY <3>1 DEF FoldStep
    <3> QED BY <2>2, <3>2 DEF ResolveOffCode
  <2>5. /\ IsSeq(three, s) /\ h[i + 1] = UpdateRep(h[i], s.ob, s.ll0)
        /\ h[i + 1][1] = s.raw
    BY <2>1 DEF Found
  <2>6. p[i].d \in Reps
    <3>1. CASE i = 0
      BY <3>1, <2>3
    <3>2. CASE i # 0
      <4> i \in 1..Len(p[i].seqs)
        BY <3>2, <2>3
      <4> QED BY <2>3 DEF Found
    <3> QED BY <3>1, <3>2
  <2>7. /\ IsSeq(three, w) /\ w.raw = s.raw /\ w.ll0 = s.ll0
        /\ UpdateRep(p[i].d, w.ob, s.ll0)[1] = s.raw
    <3>1. CASE ~OffbaseIsRepcode(s.ob)
      <4>1. w = s
        BY <3>1
      <4> HIDE DEF w
      <4> QED BY <4>1, <3>1, <2>5 DEF UpdateRep
    <3>2. CASE OffbaseIsRepcode(s.ob)
      <4>1. s.raw = raw
        BY <3>2, <2>5 DEF IsSeq, UpdateRep, ResolveRepcode, OffbaseIsRepcode, RepNum,
                          Ll0, RepAt
      <4>2. CASE new
        <5>1. w = [s EXCEPT !.ob = s.raw + 3]
          BY <4>1, <4>2 DEF OffsetToOffbase, RepNum
        <5> HIDE DEF w, new, raw
        <5>2. /\ w \in [ob : Nat, ll0 : BOOLEAN, raw : Nat] /\ w.ob = s.raw + 3
              /\ w.raw = s.raw /\ w.ll0 = s.ll0
          BY <5>1, <2>5 DEF IsSeq
        <5>3. s.raw \in Nat /\ s.raw >= 1
          BY <2>5 DEF IsSeq
        <5>4. ~OffbaseIsRepcode(w.ob)
          BY <5>2, <5>3 DEF OffbaseIsRepcode, RepNum
        <5>5. UpdateRep(p[i].d, w.ob, s.ll0)[1] = s.raw
          BY <5>2, <5>3, <5>4 DEF UpdateRep, RepNum
        <5> QED BY <5>2, <5>3, <5>4, <5>5 DEF IsSeq
      <4>3. CASE ~new
        <5>1. w = s /\ ResolveRepcode(p[i].d, s.ob, s.ll0) = s.raw
          BY <3>2, <4>1, <4>3
        <5> HIDE DEF w, new, raw
        <5> QED BY <3>2, <5>1, <2>5, <2>6 DEF IsSeq, UpdateRep, ResolveRepcode,
                        OffbaseIsRepcode, RepNum, Ll0, RepAt, Reps
      <4> QED BY <4>2, <4>3
    <3> QED BY <3>1, <3>2
  <2>8. \E f : /\ Found(three, Append(p[i].seqs, w), f) /\ f[0] = d
               /\ f[Len(Append(p[i].seqs, w))] = UpdateRep(p[i].d, w.ob, s.ll0)
    <3> HIDE DEF w, s
    <3>1. UpdateRep(g[Len(p[i].seqs)], w.ob, w.ll0)[1] = w.raw
      BY <2>3, <2>7
    <3>2. PICK f : /\ Found(three, Append(p[i].seqs, w), f) /\ f[0] = g[0]
                   /\ f[Len(Append(p[i].seqs, w))] = UpdateRep(g[Len(p[i].seqs)], w.ob, w.ll0)
      BY <2>3, <2>7, <3>1, FoundAppend
    <3> QED BY <2>3, <2>7, <3>2
  <2>9. /\ Len(Append(p[i].seqs, w)) = i + 1
        /\ \A j \in 1..(i + 1) : Append(p[i].seqs, w)[j].raw = seqs[j].raw
    <3>1. p[i].seqs \in Seq(SeqSet) /\ Len(p[i].seqs) = i
      BY <2>3 DEF Found
    <3>2. \A j \in 1..(i + 1) :
            Append(p[i].seqs, w)[j] = IF j <= i THEN p[i].seqs[j] ELSE w
      <4> HIDE DEF w
      <4> QED BY <3>1
    <3>3. Len(Append(p[i].seqs, w)) = i + 1
      BY <3>1
    <3>4. w.raw = seqs[i + 1].raw
      BY <2>7
    <3> HIDE DEF w
    <3> QED BY <3>2, <3>3, <3>4, <2>3
  <2>10. ASSUME d = h[0]
         PROVE  w = s /\ Append(p[i].seqs, w) = SubSeq(seqs, 1, i + 1)
    <3>1. p[i].d = h[i] /\ p[i].seqs = SubSeq(seqs, 1, i)
      BY <2>2, <2>10
    <3>2. w = s
      BY <3>1
    <3>3. Append(SubSeq(seqs, 1, i), seqs[i + 1]) = SubSeq(seqs, 1, i + 1)
      BY <1>1, <2>1
    <3> HIDE DEF w
    <3> QED BY <3>1, <3>2, <3>3
  <2> HIDE DEF w, s
  <2>11. p[i + 1].c = h[i + 1] /\ p[i + 1].seqs = Append(p[i].seqs, w)
         /\ p[i + 1].d = UpdateRep(p[i].d, w.ob, s.ll0)
    BY <2>4, <2>5
  <2>12. d = h[0] => p[i + 1].d = h[i + 1] /\ p[i + 1].seqs = SubSeq(seqs, 1, i + 1)
    BY <2>2, <2>5, <2>10, <2>11
  <2> QED BY <2>8, <2>9, <2>11, <2>12
<1>5. n \in S
  <2> HIDE DEF S
  <2> QED BY <1>1, <1>3, <1>4, SetInduction
<1>6. Done(n)
  <2> HIDE DEF Done
  <2> QED BY <1>1, <1>5
<1>7. SubSeq(seqs, 1, n) = seqs
  BY <1>1
<1> QED BY <1>2, <1>6, <1>7

-----------------------------------------------------------------------------
(* What the block compressors find.                                        *)

IsMove(three, m) ==
    /\ m.ll0 \in BOOLEAN
    /\ \/ m.what = "offset" /\ m.off \in Nat /\ m.off >= 1
       \/ three /\ m.what = "rep" /\ m.code \in 1..RepNum
       \/ ~three /\ m.what = "rep" /\ ~m.ll0
       \/ ~three /\ m.what = "again" /\ m.ll0
       \/ ~three /\ m.what = "ldm" /\ m.off \in Nat /\ m.off >= 1 /\ m.reach \in Nat

\* The offset codes are those of offBases up to lim.
Below(lim, seqs) == \A i \in 1..Len(seqs) : seqs[i].ob <= lim

(* One more sequence below the limit.                                      *)
LEMMA BelowAppend ==
  ASSUME NEW lim \in Nat, NEW seqs \in Seq(SeqSet), Below(lim, seqs),
         NEW s \in SeqSet, s.ob <= lim
  PROVE  Below(lim, Append(seqs, s))
<1> DEFINE n == Len(seqs)
           t == Append(seqs, s)
<1>1. n \in Nat /\ Len(t) = n + 1
  OBVIOUS
<1>2. ASSUME NEW i \in 1..(n + 1) PROVE t[i].ob <= lim
  <2>1. t[i] = IF i <= n THEN seqs[i] ELSE s
    OBVIOUS
  <2> HIDE DEF t
  <2> QED BY <2>1, <1>1 DEF Below
<1> HIDE DEF t
<1> QED BY <1>1, <1>2 DEF Below, t

(* A search goes on only from moves it can make.                           *)
LEMMA ThreeStepOk ==
  ASSUME NEW f, NEW m, NEW reach, Possible(ThreeStep(f, m, reach))
  PROVE  Possible(f)
  BY DEF ThreeStep, Possible

(* With three offsets: a sequence is written, and the history the parser   *)
(* keeps names its offset.                                                 *)
LEMMA ThreeStepFinds ==
  ASSUME NEW three \in BOOLEAN, KeepsThree(three), NEW f, f.rep \in Reps,
         NEW m, IsMove(three, m), NEW reach \in Nat,
         NEW lim \in Nat, lim >= 3, m.off + 3 <= lim,
         Possible(ThreeStep(f, m, reach))
  PROVE  \E s : /\ IsSeq(three, s) /\ s.ob <= lim
                /\ ThreeStep(f, m, reach).seqs = Append(f.seqs, s)
                /\ ThreeStep(f, m, reach).rep = UpdateRep(f.rep, s.ob, s.ll0)
                /\ UpdateRep(f.rep, s.ob, s.ll0)[1] = s.raw
<1> DEFINE isrep == m.what = "rep"
           raw == IF isrep THEN ResolveRepcode(f.rep, m.code, m.ll0) ELSE m.off
           ob  == IF isrep THEN m.code ELSE OffsetToOffbase(m.off)
           s == Sequence(ob, m.ll0, raw)
<1>1. /\ ThreeStep(f, m, reach).seqs = Append(f.seqs, s)
      /\ ThreeStep(f, m, reach).rep = UpdateRep(f.rep, ob, m.ll0)
      /\ ThreeStep(f, m, reach).ok = (f.ok /\ (isrep => RepCandidate(raw, reach)))
  BY DEF ThreeStep
<1>2. isrep => RepCandidate(raw, reach)
  BY <1>1 DEF Possible
<1>3. s.ob = ob /\ s.ll0 = m.ll0 /\ s.raw = raw /\ s = [ob |-> ob, ll0 |-> m.ll0, raw |-> raw]
  BY DEF Sequence
<1>4. CASE isrep
  <2>1. ob = m.code /\ ob \in 1..3 /\ raw \in 1..reach
        /\ raw = ResolveRepcode(f.rep, ob, m.ll0) /\ m.ll0 \in BOOLEAN
    BY <1>2, <1>4 DEF RepCandidate, IsMove, RepNum, KeepsThree
  <2> HIDE DEF ob, raw, s, isrep
  <2>2. UpdateRep(f.rep, ob, m.ll0)[1] = raw
    BY <2>1 DEF Reps, UpdateRep, ResolveRepcode, OffbaseIsRepcode, RepNum, Ll0, RepAt
  <2>3. IsSeq(three, s) /\ s.ob <= lim
    BY <2>1, <1>3 DEF IsSeq, KeepsThree
  <2> QED BY <1>1, <1>2, <1>3, <2>2, <2>3
<1>5. CASE ~isrep
  <2>1. ob = raw + 3 /\ raw = m.off /\ raw \in Nat /\ raw >= 1 /\ m.ll0 \in BOOLEAN
    BY <1>5 DEF IsMove, OffsetToOffbase, RepNum, KeepsThree
  <2> HIDE DEF ob, raw, s, isrep
  <2>2. UpdateRep(f.rep, ob, m.ll0)[1] = raw
    BY <2>1 DEF UpdateRep, OffbaseIsRepcode, RepNum
  <2>3. IsSeq(three, s) /\ s.ob <= lim
    BY <2>1, <1>3 DEF IsSeq, KeepsThree
  <2> QED BY <1>1, <1>2, <1>3, <2>2, <2>3
<1> QED BY <1>4, <1>5

\* The state of a search that keeps two offsets, beside a history that holds
\* what it would give back.
TwoSet == [o1 : Nat, o2 : Nat, s1 : Nat, s2 : Nat, r3 : Nat,
           first : BOOLEAN, ok : BOOLEAN, seqs : Seq(SeqSet)]

TwoFinds(f, hist) ==
    /\ Agree(FALSE, TwoFinish(f), hist)
    /\ f.o1 = 0 /\ f.s1 = 0 => f.o2 = 0 /\ f.s2 = 0
    /\ ~f.first => f.o1 # 0

(* The search starts from a history, whatever of it is in reach.           *)
LEMMA TwoStartFinds ==
  ASSUME NEW rep \in Reps, Known(FALSE, rep), NEW reach \in Nat, NEW hist,
         Agree(FALSE, rep, hist), NEW seqs \in Seq(SeqSet)
  PROVE  /\ TwoStart(rep, reach, seqs) \in TwoSet
         /\ TwoStart(rep, reach, seqs).ok /\ TwoStart(rep, reach, seqs).seqs = seqs
         /\ TwoFinds(TwoStart(rep, reach, seqs), hist)
<1> DEFINE f == TwoStart(rep, reach, seqs)
<1>1. rep[1] \in Nat /\ rep[2] \in Nat /\ rep[3] \in Nat
  BY DEF Reps
<1>2. /\ f.o1 = IF rep[1] > reach THEN 0 ELSE rep[1]
      /\ f.o2 = IF rep[2] > reach THEN 0 ELSE rep[2]
      /\ f.s1 = IF rep[1] > reach THEN rep[1] ELSE 0
      /\ f.s2 = IF rep[2] > reach THEN rep[2] ELSE 0
      /\ f.r3 = rep[3] /\ f.first = TRUE /\ f.ok = TRUE /\ f.seqs = seqs
  BY DEF TwoStart
<1>3. f \in TwoSet
  BY <1>1 DEF TwoSet, TwoStart
<1> HIDE DEF f
<1>4. TwoFinish(f)[1] = rep[1] /\ TwoFinish(f)[2] = rep[2]
  BY <1>1, <1>2 DEF TwoFinish
<1>5. TwoFinds(f, hist)
  BY <1>1, <1>2, <1>4 DEF TwoFinds, Agree, Known
<1> QED BY <1>2, <1>3, <1>5 DEF f

(* A step of the search stays a search.                                    *)
LEMMA TwoStepType ==
  ASSUME NEW three \in BOOLEAN, KeepsTwo(three), NEW f \in TwoSet, NEW m, IsMove(three, m)
  PROVE  TwoStep(f, m) \in TwoSet /\ (Possible(TwoStep(f, m)) => Possible(f))
<1> DEFINE g == TwoStep(f, m)
<1>1. CASE m.what = "offset"
  <2>1. Append(f.seqs, Sequence(OffsetToOffbase(m.off), m.ll0, m.off)) \in Seq(SeqSet)
    BY <1>1 DEF TwoSet, SeqSet, IsMove, Sequence, OffsetToOffbase, RepNum
  <2>2. g = [f EXCEPT !.o2 = f.o1, !.o1 = m.off, !.first = FALSE,
                      !.seqs = Append(f.seqs, Sequence(OffsetToOffbase(m.off), m.ll0, m.off))]
    BY <1>1 DEF TwoStep
  <2>3. m.off \in Nat
    BY <1>1 DEF IsMove
  <2> QED BY <2>1, <2>2, <2>3 DEF TwoSet, Possible
<1>2. CASE m.what = "rep"
  <2>1. Append(f.seqs, Sequence(1, m.ll0, f.o1)) \in Seq(SeqSet)
    BY <1>2 DEF TwoSet, SeqSet, IsMove, Sequence
  <2>2. g = [f EXCEPT !.ok = @ /\ RepTried(f.o1), !.first = FALSE,
                      !.seqs = Append(f.seqs, Sequence(1, m.ll0, f.o1))]
    BY <1>2 DEF TwoStep
  <2>3. RepTried(f.o1) \in BOOLEAN
    BY DEF RepTried
  <2> QED BY <2>1, <2>2, <2>3 DEF TwoSet, Possible
<1>3. CASE m.what = "again"
  <2>1. Append(f.seqs, Sequence(1, m.ll0, f.o2)) \in Seq(SeqSet)
    BY <1>3 DEF TwoSet, SeqSet, IsMove, Sequence
  <2>2. g = [f EXCEPT !.ok = @ /\ ~f.first /\ RepTried(f.o2), !.o1 = f.o2, !.o2 = f.o1,
                      !.seqs = Append(f.seqs, Sequence(1, m.ll0, f.o2))]
    BY <1>3 DEF TwoStep
  <2>3. RepTried(f.o2) \in BOOLEAN
    BY DEF RepTried
  <2> QED BY <2>1, <2>2, <2>3 DEF TwoSet, Possible
<1>4. CASE m.what = "ldm"
  <2> DEFINE rep == <<m.off, TwoFinish(f)[1], TwoFinish(f)[2]>>
             t == Append(f.seqs, Sequence(OffsetToOffbase(m.off), m.ll0, m.off))
  <2>1. t \in Seq(SeqSet)
    BY <1>4 DEF TwoSet, SeqSet, IsMove, Sequence, OffsetToOffbase, RepNum
  <2>2. g = [TwoStart(rep, m.reach, t) EXCEPT !.ok = f.ok]
    BY <1>4 DEF TwoStep, LdmStep
  <2>3. rep \in Reps /\ m.reach \in Nat
    BY <1>4 DEF Reps, TwoSet, TwoFinish, IsMove
  <2>4. TwoStart(rep, m.reach, t) \in TwoSet
    BY <2>1, <2>3 DEF TwoSet, TwoStart, Reps
  <2>5. f.ok \in BOOLEAN
    BY DEF TwoSet
  <2> HIDE DEF g, t, rep
  <2> QED BY <2>2, <2>4, <2>5 DEF TwoSet, g, Possible
<1> QED BY <1>1, <1>2, <1>3, <1>4 DEF IsMove

(* With two offsets: a sequence is written, any history that holds what    *)
(* the search would give back names its offset, and then holds what the    *)
(* search would give back after it.                                        *)
LEMMA TwoStepFinds ==
  ASSUME NEW three \in BOOLEAN, KeepsTwo(three), NEW f \in TwoSet,
         NEW hist \in Reps, TwoFinds(f, hist), NEW m, IsMove(three, m),
         NEW lim \in Nat, lim >= 3, m.off + 3 <= lim, Possible(TwoStep(f, m))
  PROVE  \E s : /\ IsSeq(three, s) /\ s.ob <= lim
                /\ TwoStep(f, m).seqs = Append(f.seqs, s)
                /\ UpdateRep(hist, s.ob, s.ll0)[1] = s.raw
                /\ TwoFinds(TwoStep(f, m), UpdateRep(hist, s.ob, s.ll0))
<1> DEFINE g == TwoStep(f, m)
<1>1. CASE m.what = "offset"
  <2> DEFINE s == Sequence(OffsetToOffbase(m.off), m.ll0, m.off)
             new == UpdateRep(hist, s.ob, s.ll0)
  <2>1. g = [f EXCEPT !.o2 = f.o1, !.o1 = m.off, !.first = FALSE, !.seqs = Append(f.seqs, s)]
    BY <1>1 DEF TwoStep
  <2>2. /\ s.ob = m.off + 3 /\ s.ll0 = m.ll0 /\ s.raw = m.off
        /\ s = [ob |-> m.off + 3, ll0 |-> m.ll0, raw |-> m.off]
    BY DEF Sequence, OffsetToOffbase, RepNum
  <2>3. m.off \in Nat /\ m.off >= 1 /\ m.ll0 \in BOOLEAN
    BY <1>1 DEF IsMove
  <2> HIDE DEF s
  <2>4. IsSeq(three, s)
    BY <2>2, <2>3 DEF IsSeq, OffbaseIsRepcode, RepNum
  <2>5. new = <<m.off, hist[1], hist[2]>>
    BY <2>2, <2>3 DEF UpdateRep, OffbaseIsRepcode, RepNum
  <2>6. /\ g.o1 = m.off /\ g.o2 = f.o1 /\ g.s1 = f.s1 /\ g.s2 = f.s2
        /\ g.first = FALSE /\ g.seqs = Append(f.seqs, s) /\ g.r3 = f.r3
    BY <2>1 DEF TwoSet
  <2> HIDE DEF g, new
  <2>7. TwoFinds(g, new)
    BY <2>3, <2>5, <2>6 DEF TwoFinds, Agree, TwoFinish, TwoSet
  <2>8. s.ob <= lim /\ new[1] = s.raw
    BY <2>2, <2>3, <2>5
  <2> QED BY <2>4, <2>6, <2>7, <2>8 DEF g, new
<1>2. CASE m.what = "rep"
  <2> DEFINE s == Sequence(1, m.ll0, f.o1)
             new == UpdateRep(hist, s.ob, s.ll0)
  <2>1. g = [f EXCEPT !.ok = @ /\ RepTried(f.o1), !.first = FALSE, !.seqs = Append(f.seqs, s)]
    BY <1>2 DEF TwoStep
  <2>2. /\ s.ob = 1 /\ s.ll0 = FALSE /\ s.raw = f.o1
        /\ s = [ob |-> 1, ll0 |-> FALSE, raw |-> f.o1]
    <3>1. m.ll0 = FALSE
      BY <1>2, Zenon DEF IsMove, KeepsTwo
    <3> QED BY <3>1 DEF Sequence
  <2> HIDE DEF s
  <2>3. /\ g.o1 = f.o1 /\ g.o2 = f.o2 /\ g.s1 = f.s1 /\ g.s2 = f.s2
        /\ g.first = FALSE /\ g.seqs = Append(f.seqs, s) /\ g.r3 = f.r3
        /\ g.ok = (f.ok /\ RepTried(f.o1))
    BY <2>1 DEF TwoSet
  <2>4. f.o1 \in Nat /\ f.o1 >= 1
    <3>1. RepTried(f.o1)
      BY <2>3, Zenon DEF Possible
    <3> QED BY <3>1 DEF RepTried, TwoSet
  <2>5. IsSeq(three, s)
    BY <2>2, <2>4 DEF IsSeq
  <2>6. new = hist
    BY <2>2 DEF UpdateRep, OffbaseIsRepcode, RepNum, Ll0
  <2>7. hist[1] = f.o1
    BY <2>4 DEF TwoFinds, Agree, TwoFinish
  <2> HIDE DEF g, new
  <2>8. TwoFinds(g, new)
    BY <2>3, <2>4, <2>6 DEF TwoFinds, Agree, TwoFinish
  <2>9. s.ob <= lim /\ new[1] = s.raw
    BY <2>2, <2>6, <2>7
  <2> QED BY <2>3, <2>5, <2>8, <2>9 DEF g, new
<1>3. CASE m.what = "again"
  <2> DEFINE s == Sequence(1, m.ll0, f.o2)
             new == UpdateRep(hist, s.ob, s.ll0)
  <2>1. g = [f EXCEPT !.ok = @ /\ ~f.first /\ RepTried(f.o2), !.o1 = f.o2, !.o2 = f.o1,
                      !.seqs = Append(f.seqs, s)]
    BY <1>3 DEF TwoStep
  <2>2. /\ s.ob = 1 /\ s.ll0 = TRUE /\ s.raw = f.o2
        /\ s = [ob |-> 1, ll0 |-> TRUE, raw |-> f.o2]
    <3>1. m.ll0 = TRUE
      BY <1>3, Zenon DEF IsMove, KeepsTwo
    <3> QED BY <3>1 DEF Sequence
  <2> HIDE DEF s
  <2>3. /\ g.o1 = f.o2 /\ g.o2 = f.o1 /\ g.s1 = f.s1 /\ g.s2 = f.s2
        /\ g.first = f.first /\ g.seqs = Append(f.seqs, s) /\ g.r3 = f.r3
        /\ g.ok = (f.ok /\ ~f.first /\ RepTried(f.o2))
    BY <2>1 DEF TwoSet
  <2>4. f.o2 \in Nat /\ f.o2 >= 1 /\ f.o1 \in Nat /\ ~f.first /\ f.o1 # 0
    <3>1. RepTried(f.o2) /\ ~f.first
      BY <2>3, Zenon DEF Possible
    <3> QED BY <3>1 DEF RepTried, TwoSet, TwoFinds
  <2>5. IsSeq(three, s)
    BY <2>2, <2>4 DEF IsSeq
  <2>6. new = <<hist[2], hist[1], hist[3]>>
    BY <2>2 DEF UpdateRep, OffbaseIsRepcode, RepNum, Ll0, RepAt
  <2>7. hist[2] = f.o2 /\ hist[1] = f.o1
    BY <2>4 DEF TwoFinds, Agree, TwoFinish
  <2> HIDE DEF g, new
  <2>8. TwoFinds(g, new)
    BY <2>3, <2>4, <2>6, <2>7 DEF TwoFinds, Agree, TwoFinish
  <2>9. s.ob <= lim /\ new[1] = s.raw
    BY <2>2, <2>6, <2>7
  <2> QED BY <2>3, <2>5, <2>8, <2>9 DEF g, new
<1>4. CASE m.what = "ldm"
  <2> DEFINE s == Sequence(OffsetToOffbase(m.off), m.ll0, m.off)
             new == UpdateRep(hist, s.ob, s.ll0)
             rep == <<m.off, TwoFinish(f)[1], TwoFinish(f)[2]>>
             b == TwoStart(rep, m.reach, Append(f.seqs, s))
  <2>1. g = [b EXCEPT !.ok = f.ok]
    BY <1>4 DEF TwoStep, LdmStep
  <2>2. /\ s.ob = m.off + 3 /\ s.ll0 = m.ll0 /\ s.raw = m.off
        /\ s = [ob |-> m.off + 3, ll0 |-> m.ll0, raw |-> m.off]
    BY DEF Sequence, OffsetToOffbase, RepNum
  <2>3. m.off \in Nat /\ m.off >= 1 /\ m.ll0 \in BOOLEAN /\ m.reach \in Nat
    BY <1>4 DEF IsMove
  <2> HIDE DEF s
  <2>4. IsSeq(three, s)
    BY <2>2, <2>3 DEF IsSeq, OffbaseIsRepcode, RepNum
  <2>5. new = <<m.off, hist[1], hist[2]>>
    BY <2>2, <2>3 DEF UpdateRep, OffbaseIsRepcode, RepNum
  <2>6. rep \in Reps /\ Known(FALSE, rep)
    BY <2>3 DEF Reps, TwoSet, TwoFinish, Known
  <2>7. Agree(FALSE, rep, new)
    BY <2>5 DEF TwoFinds, Agree
  <2>8. Append(f.seqs, s) \in Seq(SeqSet)
    BY <2>4 DEF TwoSet, IsSeq, SeqSet
  <2> HIDE DEF new, rep
  <2>9. b \in TwoSet /\ b.seqs = Append(f.seqs, s) /\ TwoFinds(b, new)
    BY <2>3, <2>6, <2>7, <2>8, TwoStartFinds
  <2> HIDE DEF g, b
  <2>10. /\ g.o1 = b.o1 /\ g.o2 = b.o2 /\ g.s1 = b.s1 /\ g.s2 = b.s2 /\ g.r3 = b.r3
         /\ g.first = b.first /\ g.seqs = b.seqs
    BY <2>1, <2>9 DEF TwoSet
  <2>11. TwoFinds(g, new)
    BY <2>9, <2>10 DEF TwoFinds, TwoFinish
  <2>12. s.ob <= lim /\ new[1] = s.raw
    BY <2>2, <2>3, <2>5
  <2>13. g.seqs = Append(f.seqs, s)
    BY <2>9, <2>10
  <2> QED BY <2>4, <2>11, <2>12, <2>13 DEF g, new
<1> QED BY <1>1, <1>2, <1>3, <1>4 DEF IsMove

\* The moves of a search, their offsets below lim.
AreMoves(three, lim, n, moves) ==
    /\ DOMAIN moves = 1..n
    /\ \A i \in 1..n : IsMove(three, moves[i]) /\ moves[i].off + 3 <= lim

\* What a search that comes to r leaves: sequences found from the history it
\* started with, and a history that knows nothing but what that one holds
\* after them.
Finds(three, rep, lim, r) ==
    /\ r.rep \in Reps /\ Known(three, r.rep) /\ Below(lim, r.seqs)
    /\ \E h : /\ Found(three, r.seqs, h) /\ h[0] = rep
              /\ Agree(three, r.rep, h[Len(r.seqs)])

(* Nothing is found below any limit.                                       *)
LEMMA NothingFound ==
  ASSUME NEW three, NEW rep \in Reps, NEW lim
  PROVE  /\ Below(lim, <<>>)
         /\ \E h : Found(three, <<>>, h) /\ h[0] = rep /\ h[Len(<<>>)] = rep
<1> DEFINE h == [i \in 0..0 |-> rep]
<1>1. Found(three, <<>>, h)
  BY FoundNothing
<1>2. h[0] = rep /\ Len(<<>>) = 0
  OBVIOUS
<1> HIDE DEF h
<1> QED BY <1>1, <1>2 DEF Below

(* The optimal parsers' search.                                            *)
LEMMA ThreeSearchFinds ==
  ASSUME NEW three \in BOOLEAN, KeepsThree(three), NEW rep \in Reps, NEW reach \in Nat,
         NEW n \in Nat, NEW moves, NEW lim \in Nat, lim >= 3,
         AreMoves(three, lim, n, moves),
         Possible(Search(three, rep, reach, moves))
  PROVE  Finds(three, rep, lim, Search(three, rep, reach, moves))
<1>1. PICK p : /\ Path("three", reach, [rep |-> rep, ok |-> TRUE, seqs |-> <<>>],
                       moves, n, p)
               /\ Search(three, rep, reach, moves) = p[n]
  BY ThreePath DEF AreMoves
<1> DEFINE Done(i) == /\ p[i].rep \in Reps /\ Below(lim, p[i].seqs)
                      /\ \E h : /\ Found(three, p[i].seqs, h) /\ h[0] = rep
                                /\ h[Len(p[i].seqs)] = p[i].rep
           S == {i \in Nat : i <= n => (Possible(p[i]) => Done(i))}
<1>2. 0 \in S
  <2>1. p[0].rep = rep /\ p[0].seqs = <<>>
    BY <1>1 DEF Path
  <2>2. Done(0)
    BY <2>1, NothingFound, ZenonT(30)
  <2> HIDE DEF Done
  <2> QED BY <2>2
<1>3. ASSUME NEW i \in Nat, i \in S PROVE i + 1 \in S
  <2> SUFFICES ASSUME i + 1 <= n, Possible(p[i + 1]) PROVE Done(i + 1)
    <3> HIDE DEF Done
    <3> QED OBVIOUS
  <2>1. i + 1 \in 1..n /\ (i + 1) - 1 = i /\ i <= n
    OBVIOUS
  <2> DEFINE m == moves[i + 1]
  <2>2. p[i + 1] = ThreeStep(p[i], m, reach)
    <3>1. p[i + 1] = FoldStep("three", reach, p[i], m)
      BY <1>1, <2>1 DEF Path
    <3> QED BY <3>1 DEF FoldStep
  <2>3. Possible(p[i])
    BY <2>2, ThreeStepOk
  <2>4. Done(i)
    <3> HIDE DEF Done
    <3> QED BY <1>3, <2>1, <2>3
  <2>5. PICK h : /\ Found(three, p[i].seqs, h) /\ h[0] = rep
                 /\ h[Len(p[i].seqs)] = p[i].rep
    BY <2>4
  <2>6. p[i].rep \in Reps /\ Below(lim, p[i].seqs)
    BY <2>4
  <2>7. IsMove(three, m) /\ m.off + 3 <= lim
    BY <2>1 DEF AreMoves
  <2> HIDE DEF m
  <2>8. PICK s : /\ IsSeq(three, s) /\ s.ob <= lim
                 /\ p[i + 1].seqs = Append(p[i].seqs, s)
                 /\ p[i + 1].rep = UpdateRep(p[i].rep, s.ob, s.ll0)
                 /\ UpdateRep(p[i].rep, s.ob, s.ll0)[1] = s.raw
    BY <2>2, <2>6, <2>7, ThreeStepFinds, SMTT(30)
  <2>9. PICK g : /\ Found(three, Append(p[i].seqs, s), g) /\ g[0] = h[0]
                 /\ g[Len(Append(p[i].seqs, s))] = UpdateRep(h[Len(p[i].seqs)], s.ob, s.ll0)
    BY <2>5, <2>8, FoundAppend, SMTT(30)
  <2>10. Below(lim, Append(p[i].seqs, s))
    BY <2>5, <2>6, <2>8, BelowAppend DEF Found, IsSeq, SeqSet
  <2>11. p[i + 1].rep \in Reps
    BY <2>6, <2>8, UpdateRepType
  <2> QED BY <2>5, <2>8, <2>9, <2>10, <2>11
<1>4. n \in S
  <2> HIDE DEF S
  <2> QED BY <1>2, <1>3, SetInduction
<1>5. Done(n)
  <2> HIDE DEF Done
  <2> QED BY <1>1, <1>4
<1>6. \A r \in Reps : Agree(three, r, r) /\ Known(three, r)
  BY DEF Agree, Known, KeepsThree
<1>7. Finds(three, rep, lim, p[n])
  BY <1>5, <1>6 DEF Finds
<1> QED BY <1>1, <1>7

(* The search of the others.                                               *)
LEMMA TwoSearchFinds ==
  ASSUME NEW three \in BOOLEAN, KeepsTwo(three), NEW rep \in Reps, Known(three, rep),
         NEW reach \in Nat, NEW n \in Nat, NEW moves,
         NEW lim \in Nat, lim >= 3,
         AreMoves(three, lim, n, moves),
         Possible(Search(three, rep, reach, moves))
  PROVE  Finds(three, rep, lim, Search(three, rep, reach, moves))
<1>1. PICK p : /\ Path("two", 0, TwoStart(rep, reach, <<>>), moves, n, p)
               /\ Search(three, rep, reach, moves)
                    = [rep |-> TwoFinish(p[n]), ok |-> p[n].ok, seqs |-> p[n].seqs]
  BY TwoPath DEF AreMoves
<1> DEFINE Done(i) == /\ Below(lim, p[i].seqs)
                      /\ \E h : /\ Found(three, p[i].seqs, h) /\ h[0] = rep
                                /\ TwoFinds(p[i], h[Len(p[i].seqs)])
           S == {i \in Nat : i <= n => p[i] \in TwoSet /\ (Possible(p[i]) => Done(i))}
<1>2. 0 \in S
  <2>1. p[0] = TwoStart(rep, reach, <<>>)
    BY <1>1 DEF Path
  <2>2. Agree(FALSE, rep, rep) /\ Known(FALSE, rep) /\ <<>> \in Seq(SeqSet)
    BY DEF Agree, Known, KeepsTwo
  <2>3. p[0] \in TwoSet /\ p[0].seqs = <<>> /\ TwoFinds(p[0], rep)
    BY <2>1, <2>2, TwoStartFinds, ZenonT(30)
  <2>4. Done(0)
    BY <2>3, NothingFound
  <2> HIDE DEF Done
  <2> QED BY <2>3, <2>4
<1>3. ASSUME NEW i \in Nat, i \in S PROVE i + 1 \in S
  <2> SUFFICES ASSUME i + 1 <= n
               PROVE  p[i + 1] \in TwoSet /\ (Possible(p[i + 1]) => Done(i + 1))
    <3> HIDE DEF Done
    <3> QED OBVIOUS
  <2>1. i + 1 \in 1..n /\ (i + 1) - 1 = i /\ i <= n
    OBVIOUS
  <2> DEFINE m == moves[i + 1]
  <2>2. p[i + 1] = TwoStep(p[i], m)
    <3>1. p[i + 1] = FoldStep("two", 0, p[i], m)
      BY <1>1, <2>1 DEF Path
    <3> QED BY <3>1 DEF FoldStep
  <2>3. p[i] \in TwoSet /\ (Possible(p[i]) => Done(i))
    <3> HIDE DEF Done
    <3> QED BY <1>3, <2>1
  <2>4. IsMove(three, m) /\ m.off + 3 <= lim
    BY <2>1 DEF AreMoves
  <2> HIDE DEF m
  <2>5. p[i + 1] \in TwoSet /\ (Possible(p[i + 1]) => Possible(p[i]))
    BY <2>2, <2>3, <2>4, TwoStepType
  <2>6. ASSUME Possible(p[i + 1]) PROVE Done(i + 1)
    <3>1. Done(i)
      <4> HIDE DEF Done
      <4> QED BY <2>3, <2>5, <2>6
    <3>2. PICK h : /\ Found(three, p[i].seqs, h) /\ h[0] = rep
                   /\ TwoFinds(p[i], h[Len(p[i].seqs)])
      BY <3>1
    <3>3. Below(lim, p[i].seqs)
      BY <3>1
    <3>4. PICK hist \in Reps : hist = h[Len(p[i].seqs)]
      BY <3>2, FoundReps
    <3>5. PICK s : /\ IsSeq(three, s) /\ s.ob <= lim
                   /\ p[i + 1].seqs = Append(p[i].seqs, s)
                   /\ UpdateRep(hist, s.ob, s.ll0)[1] = s.raw
                   /\ TwoFinds(p[i + 1], UpdateRep(hist, s.ob, s.ll0))
      <4>1. TwoFinds(p[i], hist)
        BY <3>2, <3>4
      <4> HIDE DEF Done
      <4> QED BY <2>2, <2>3, <2>4, <2>6, <4>1, TwoStepFinds
    <3>6. PICK g : /\ Found(three, Append(p[i].seqs, s), g) /\ g[0] = h[0]
                   /\ g[Len(Append(p[i].seqs, s))]
                        = UpdateRep(h[Len(p[i].seqs)], s.ob, s.ll0)
      BY <3>2, <3>4, <3>5, FoundAppend
    <3>7. Below(lim, Append(p[i].seqs, s))
      BY <3>2, <3>3, <3>5, BelowAppend DEF Found, IsSeq, SeqSet
    <3> QED BY <3>2, <3>4, <3>5, <3>6, <3>7
  <2> HIDE DEF Done
  <2> QED BY <2>5, <2>6
<1>4. n \in S
  <2> HIDE DEF S
  <2> QED BY <1>2, <1>3, SetInduction
<1> DEFINE r == [rep |-> TwoFinish(p[n]), ok |-> p[n].ok, seqs |-> p[n].seqs]
<1>5. r.rep = TwoFinish(p[n]) /\ r.ok = p[n].ok /\ r.seqs = p[n].seqs
  OBVIOUS
<1>6. p[n] \in TwoSet /\ Done(n)
  <2>1. Possible(p[n])
    BY <1>1, <1>5 DEF Possible
  <2> HIDE DEF Done, r
  <2> QED BY <1>4, <2>1
<1>7. TwoFinish(p[n]) \in Reps
  BY <1>6 DEF TwoSet, TwoFinish, Reps
<1>8. ASSUME NEW h, TwoFinds(p[n], h)
      PROVE  Agree(three, TwoFinish(p[n]), h) /\ Known(three, TwoFinish(p[n]))
  BY <1>6, <1>8 DEF TwoFinds, TwoFinish, Known, TwoSet, Agree, KeepsTwo
<1> HIDE DEF r
<1>9. Finds(three, rep, lim, r)
  BY <1>5, <1>6, <1>7, <1>8 DEF Finds
<1> QED BY <1>1, <1>9 DEF r

(* Either search.                                                          *)
LEMMA SearchFinds ==
  ASSUME NEW three \in BOOLEAN, NEW rep \in Reps, Known(three, rep), NEW reach \in Nat,
         NEW n \in Nat, NEW moves, NEW lim \in Nat, lim >= 3,
         AreMoves(three, lim, n, moves),
         Possible(Search(three, rep, reach, moves))
  PROVE  Finds(three, rep, lim, Search(three, rep, reach, moves))
<1>1. CASE KeepsThree(three)
  BY <1>1, ThreeSearchFinds
<1>2. CASE KeepsTwo(three)
  BY <1>2, TwoSearchFinds
<1> QED BY <1>1, <1>2 DEF KeepsThree, KeepsTwo
=============================================================================
