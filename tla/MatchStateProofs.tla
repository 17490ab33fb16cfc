-------------------------- MODULE MatchStateProofs --------------------------
(***************************************************************************)
(* Proofs about MatchState, for every choice of parameters with room for   *)
(* a correction (CorrectionRoom of MatchState).                            *)
(*                                                                         *)
(* First what each operation of a window keeps (the Shape lemmas) and that *)
(* a correction is exact (CorrectionExact), then the inductive invariant   *)
(* IndInv, one lemma per action, and the theorems.                         *)
(***************************************************************************)
EXTENDS MatchState, TLAPS

(* The remainder is one: a value below the divisor.                        *)
LEMMA ModRange ==
    \A a \in Int, n \in Nat \ {0} : a % n \in 0..(n - 1)
BY SMT

(* u32 arithmetic that does not leave u32 is exact.                        *)
LEMMA ModSmall ==
    \A n \in Nat \ {0} : \A a \in 0..(n - 1) : a % n = a
BY SMT

(* What a window always satisfies: its bounds are ordered, and its lowest  *)
(* index names a position of the input.                                    *)
Shape(w) ==
    /\ w \in Window
    /\ WindowStart <= w.low /\ w.low <= w.dictLimit /\ w.dictLimit <= WindowEnd(w)
    /\ Pos(w, w.low) >= 0

(* The fields of a window with Shape, as numbers.                          *)
LEMMA ShapeFacts ==
    ASSUME NEW w, Shape(w)
    PROVE  /\ w \in Window /\ w.base \in Int /\ w.low \in Nat /\ w.dictLimit \in Nat
           /\ w.nextSrc \in Nat /\ w.loadedDictEnd \in Nat
           /\ WindowEnd(w) \in Nat /\ WindowEnd(w) = w.nextSrc - w.base
           /\ 2 <= w.low /\ w.low <= w.dictLimit /\ w.dictLimit <= WindowEnd(w)
           /\ w.low + w.base >= 0
BY DEF Shape, Window, WindowEnd, Index, WindowStart, Pos

(* WindowNew starts in Shape, its end at WindowStart.                      *)
LEMMA ShapeNew ==
    ASSUME NEW origin \in Nat, NEW f \in BOOLEAN
    PROVE  /\ Shape(WindowNew(origin, f))
           /\ WindowEnd(WindowNew(origin, f)) = 2
           /\ WindowNew(origin, f).low = 2
           /\ WindowNew(origin, f).nextSrc = origin
BY DEF Shape, WindowNew, Window, WindowStart, WindowEnd, Index, Pos

(* continue_at keeps the end of the index space and empties the window.    *)
LEMMA ShapeContinue ==
    ASSUME NEW w, Shape(w), NEW origin \in Nat
    PROVE  /\ Shape(ContinueAt(w, origin))
           /\ WindowEnd(ContinueAt(w, origin)) = WindowEnd(w)
           /\ ContinueAt(w, origin).low = WindowEnd(w)
           /\ ContinueAt(w, origin).nextSrc = origin
<1> DEFINE v == ContinueAt(w, origin)
<1>1. WindowEnd(w) \in Nat /\ w \in Window /\ origin - WindowEnd(w) \in Int /\ WindowEnd(w) >= 2
  BY ShapeFacts
<1>2. v.base = origin - WindowEnd(w) /\ v.low = WindowEnd(w) /\ v.dictLimit = WindowEnd(w)
      /\ v.nextSrc = origin /\ v \in Window
  BY <1>1 DEF ContinueAt, Window
<1>3. WindowEnd(v) = WindowEnd(w)
  BY <1>1, <1>2 DEF WindowEnd, Index
<1> HIDE DEF v
<1> QED
  BY <1>1, <1>2, <1>3 DEF Shape, WindowStart, Pos, v

(* set_correct_frequently changes nothing Shape is about.                  *)
LEMMA ShapeFrequently ==
    ASSUME NEW w, Shape(w), NEW f \in BOOLEAN
    PROVE  LET v == [w EXCEPT !.frequently = f]
           IN  /\ Shape(v) /\ WindowEnd(v) = WindowEnd(w) /\ v.low = w.low
               /\ v.base = w.base /\ v.nextSrc = w.nextSrc
BY DEF Shape, Window, WindowStart, WindowEnd, Index, Pos

(* extend_to moves the end alone.                                          *)
LEMMA ShapeExtend ==
    ASSUME NEW w, Shape(w), NEW end \in Nat, end >= w.nextSrc
    PROVE  /\ Shape(ExtendTo(w, end))
           /\ WindowEnd(ExtendTo(w, end)) = WindowEnd(w) + (end - w.nextSrc)
           /\ ExtendTo(w, end).base = w.base /\ ExtendTo(w, end).low = w.low
           /\ ExtendTo(w, end).nextSrc = end
BY DEF Shape, ExtendTo, Window, WindowStart, WindowEnd, Index, Pos

(* load_dict may raise low and moves nothing.                              *)
LEMMA ShapeLoadDict ==
    ASSUME NEW w, Shape(w)
    PROVE  /\ Shape(LoadDict(w))
           /\ WindowEnd(LoadDict(w)) = WindowEnd(w)
           /\ LoadDict(w).base = w.base /\ LoadDict(w).low >= w.low
           /\ LoadDict(w).nextSrc = w.nextSrc
<1> DEFINE v == LoadDict(w)
<1>1. w \in Window /\ WindowEnd(w) \in Nat
  BY ShapeFacts
<1>2. /\ v \in Window /\ v.base = w.base /\ v.nextSrc = w.nextSrc
      /\ v.dictLimit = WindowEnd(w) /\ v.low \in {w.low, WindowEnd(w)}
  BY <1>1 DEF LoadDict, Window
<1>3. WindowEnd(v) = WindowEnd(w)
  BY <1>2 DEF WindowEnd, Index
<1> HIDE DEF v
<1>4. Shape(v) /\ v.low >= w.low
  BY <1>1, <1>2, <1>3, ShapeFacts DEF Shape, WindowStart, Pos
<1> QED
  BY <1>2, <1>3, <1>4 DEF v

(* attach_dict lifts an empty window above the dictionary's indices.       *)
LEMMA ShapeAttach ==
    ASSUME NEW w, Shape(w), CanAttach(w), NEW end \in Nat
    PROVE  /\ Shape(AttachDict(w, end))
           /\ WindowEnd(AttachDict(w, end)) = Larger(WindowEnd(w), end)
           /\ AttachDict(w, end).low = Larger(WindowEnd(w), end)
<1> DEFINE v == AttachDict(w, end)
           s == Larger(w.dictLimit, end)
<1>1. w \in Window /\ s \in Nat /\ s >= 2 /\ w.nextSrc - s \in Int /\ w.dictLimit = WindowEnd(w)
  BY ShapeFacts DEF Larger, CanAttach
<1>2. v.base = w.nextSrc - s /\ v.low = s /\ v.dictLimit = s /\ v.nextSrc = w.nextSrc
      /\ v \in Window
  BY <1>1 DEF AttachDict, Window
<1>3. WindowEnd(v) = s
  BY <1>1, <1>2 DEF WindowEnd, Index, Window
<1> HIDE DEF v, s
<1>4. Shape(v)
  BY <1>1, <1>2, <1>3 DEF Shape, WindowStart, Pos, Window
<1> QED
  BY <1>1, <1>2, <1>3, <1>4 DEF s, v

(* check_dict_validity only forgets the dictionary.                        *)
LEMMA ShapeCheckDict ==
    ASSUME NEW w, Shape(w), NEW end \in Nat, NEW maxDist \in Nat
    PROVE  LET v == CheckDictValidity(w, end, maxDist)
           IN  /\ Shape(v) /\ WindowEnd(v) = WindowEnd(w)
               /\ v.base = w.base /\ v.low = w.low /\ v.nextSrc = w.nextSrc
<1> DEFINE v == CheckDictValidity(w, end, maxDist)
<1>1. w \in Window
  BY ShapeFacts
<1>2. /\ v \in Window /\ v.base = w.base /\ v.low = w.low
      /\ v.nextSrc = w.nextSrc /\ v.dictLimit = w.dictLimit
  BY <1>1 DEF CheckDictValidity, Window
<1> HIDE DEF v
<1>3. WindowEnd(v) = WindowEnd(w) /\ Shape(v)
  BY <1>2 DEF Shape, WindowEnd, Index, Pos
<1> QED
  BY <1>2, <1>3 DEF v

(* enforce_max_dist may raise low, never past the end.                     *)
LEMMA ShapeEnforce ==
    ASSUME NEW w, Shape(w), NEW p \in Nat, p <= w.nextSrc, NEW maxDist \in Nat
    PROVE  LET v == EnforceMaxDist(w, p, maxDist)
           IN  /\ Shape(v) /\ WindowEnd(v) = WindowEnd(w)
               /\ v.base = w.base /\ v.low >= w.low /\ v.nextSrc = w.nextSrc
<1> DEFINE v == EnforceMaxDist(w, p, maxDist)
           low == Larger(w.low, Index(w, p) - maxDist)
           lim == Larger(w.dictLimit, low)
<1>1. /\ w \in Window /\ low \in Nat /\ low >= w.low /\ low <= WindowEnd(w)
      /\ lim \in Nat /\ lim >= low /\ lim <= WindowEnd(w)
  BY ShapeFacts DEF Larger, Index
<1>2. /\ v \in Window /\ v.base = w.base /\ v.nextSrc = w.nextSrc
      /\ \/ v.low = w.low /\ v.dictLimit = w.dictLimit
         \/ v.low = low /\ v.dictLimit = lim
  <2> HIDE DEF low, lim
  <2>1. v = [w EXCEPT !.low = low, !.dictLimit = lim, !.loadedDictEnd = 0] \/ v = w
    BY <1>1 DEF EnforceMaxDist, low, lim
  <2> HIDE DEF v
  <2>2. CASE v = w
    BY <2>2, <1>1 DEF Window
  <2>3. CASE v = [w EXCEPT !.low = low, !.dictLimit = lim, !.loadedDictEnd = 0]
    BY <2>3, <1>1 DEF Window
  <2> QED
    BY <2>1, <2>2, <2>3
<1>3. WindowEnd(v) = WindowEnd(w)
  BY <1>2 DEF WindowEnd, Index
<1> HIDE DEF v, low, lim
<1>4. Shape(v) /\ v.low >= w.low
  BY <1>1, <1>2, <1>3, ShapeFacts DEF Shape, WindowStart, Pos
<1> QED
  BY <1>2, <1>3, <1>4 DEF v

(* rebase lowers positions, keeps indices and drops what left the buffer.  *)
LEMMA ShapeRebase ==
    ASSUME NEW w, Shape(w), NEW shift \in Nat, shift <= w.nextSrc
    PROVE  LET v == Rebase(w, shift)
           IN  /\ Shape(v) /\ WindowEnd(v) = WindowEnd(w)
               /\ v.base = w.base - shift /\ v.low >= w.low
               /\ v.nextSrc = w.nextSrc - shift
               /\ v.low + w.base >= shift
<1> DEFINE v == Rebase(w, shift)
           low == Larger(w.low, Index(w, shift))
           lim == Larger(w.dictLimit, low)
<1>1. /\ w \in Window /\ low \in Nat /\ low >= w.low /\ low <= WindowEnd(w)
      /\ lim \in Nat /\ lim >= low /\ lim <= WindowEnd(w)
      /\ low + w.base >= shift
      /\ w.base - shift \in Int /\ w.nextSrc - shift \in Nat
  BY ShapeFacts DEF Larger, Index
<1>2. /\ v \in Window /\ v.base = w.base - shift /\ v.nextSrc = w.nextSrc - shift
      /\ v.low = low /\ v.dictLimit = lim
  BY <1>1 DEF Rebase, Window
<1>3. WindowEnd(v) = WindowEnd(w)
  BY <1>2, ShapeFacts DEF WindowEnd, Index
<1> HIDE DEF v, low, lim
<1>4. Shape(v) /\ v.low >= w.low
  BY <1>1, <1>2, <1>3, ShapeFacts DEF Shape, WindowStart, Pos
<1> QED
  BY <1>1, <1>2, <1>3, <1>4 DEF v

(* skip lifts a window that holds one block above it.                      *)
LEMMA ShapeSkip ==
    ASSUME NEW w, Shape(w), NEW len \in Nat, w.low = w.dictLimit
    PROVE  LET v == Skip(w, len)
           IN  /\ Shape(v) /\ WindowEnd(v) = WindowEnd(w) + len
               /\ v.low = w.low + len /\ v.nextSrc = w.nextSrc
<1> DEFINE v == Skip(w, len)
<1>1. /\ w \in Window /\ w.base - len \in Int /\ w.low + len \in Nat
  BY ShapeFacts
<1>2. /\ v \in Window /\ v.base = w.base - len /\ v.nextSrc = w.nextSrc
      /\ v.low = w.low + len /\ v.dictLimit = w.low + len
  BY <1>1 DEF Skip, Window
<1>3. WindowEnd(v) = WindowEnd(w) + len
  BY <1>2, ShapeFacts DEF WindowEnd, Index
<1> HIDE DEF v
<1>4. Shape(v)
  BY <1>1, <1>2, <1>3, ShapeFacts DEF Shape, WindowStart, Pos
<1> QED
  BY <1>2, <1>3, <1>4 DEF v

-----------------------------------------------------------------------------
(* Corrections *)

(* The parameters of a reset, as numbers.                                  *)
LEMMA CParamsFacts ==
    ASSUME NEW c \in CParams
    PROVE  /\ c.cycle \in Nat /\ c.cycle >= 1 /\ c.window \in Nat /\ c.window >= 1
           /\ c.dictMax \in Nat /\ c.need \in Nat
           /\ Larger(c.window, c.cycle) \in Nat
           /\ Larger(MaxLen, c.dictMax) \in Nat
           /\ MaxLen <= Larger(MaxLen, c.dictMax)
           /\ c.dictMax <= Larger(MaxLen, c.dictMax)
BY MatchStateConstants DEF CParamsType, Larger

(* The constants of the index space, as numbers.                           *)
LEMMA IndexConstants ==
    /\ CurrentMax \in Nat /\ OverflowMargin \in Nat /\ U32 \in Nat \ {0}
    /\ MaxLen \in Nat /\ MaxContent \in Nat /\ HashReadSize \in Nat
    /\ 2 <= CurrentMax - OverflowMargin /\ CurrentMax < U32
BY WindowConstants, MatchStateConstants DEF WindowStart

(* correct_overflow's new_current lies a window, and less than a cycle     *)
(* more, above WindowStart.                                                *)
LEMMA NewCurrentBounds ==
    ASSUME NEW w, Shape(w), NEW c \in CParams, NEW p \in Nat
    PROVE  LET new == NewCurrent(w, c.cycle, c.window, p)
           IN  /\ new \in Nat
               /\ Larger(c.window, c.cycle) + 2 <= new
               /\ new <= c.cycle + 1 + Larger(c.window, c.cycle)
<1> DEFINE i == Index(w, p) % U32
           k == i % c.cycle
<1>1. i \in Nat
  <2>1. Index(w, p) \in Int
    BY ShapeFacts DEF Index
  <2> QED
    BY <2>1, ModRange, IndexConstants
<1> HIDE DEF i
<1>2. k \in 0..(c.cycle - 1)
  <2>1. c.cycle \in Nat \ {0} /\ i \in Int
    BY <1>1, CParamsFacts
  <2> QED
    BY <2>1, ModRange
<1>3. NewCurrent(w, c.cycle, c.window, p)
        = k + (IF k < 2 THEN Larger(c.cycle, 2) ELSE 0) + Larger(c.window, c.cycle)
  BY DEF NewCurrent, WindowStart, i
<1> HIDE DEF k
<1> QED
  BY <1>2, <1>3, CParamsFacts DEF Larger

(* A correction of a range that needs one is the exact distance, leaves    *)
(* the range's start where new_current says, at least a window above       *)
(* WindowStart, and its end no higher than CurrentMax.                     *)
LEMMA CorrectionExact ==
    ASSUME CorrectionRoom,
           NEW w, Shape(w), NEW c \in CParams, NEW start \in Nat, NEW end \in Nat,
           start <= end, end - start <= Larger(MaxLen, c.dictMax),
           Index(w, start) \in 0..(U32 - 1),
           NeedOverflowCorrection(w, c.cycle, c.window, start, end)
    PROVE  LET corr == Correction(w, c.cycle, c.window, start)
           IN  /\ corr \in Nat
               /\ Index(w, start) - corr >= 2
               /\ Index(w, end) - corr <= CurrentMax
               /\ corr = Index(w, start) - NewCurrent(w, c.cycle, c.window, start)
<1> DEFINE new == NewCurrent(w, c.cycle, c.window, start)
           i == Index(w, start)
           L == Larger(c.window, c.cycle)
           S == Larger(MaxLen, c.dictMax)
<1>1. new \in Nat /\ L + 2 <= new /\ new <= c.cycle + 1 + L
  BY NewCurrentBounds
<1>2. c.cycle + 1 + L + S <= CurrentMax
  BY DEF CorrectionRoom
<1>3. i % U32 = i
  BY ModSmall, IndexConstants
<1>4. Index(w, end) = i + (end - start) /\ i \in Int
  BY ShapeFacts DEF Index
<1>5. L \in Nat /\ S \in Nat /\ c.cycle \in Nat /\ c.window \in Nat
  BY CParamsFacts
<1> HIDE DEF new, L, S
<1>6. i > new
  <2>1. CASE CanOverflowCorrect(w, c.cycle, c.window, start)
    <3> DEFINE m == c.cycle + L + 2
               x == (m * (w.nbCorrections + 1)) % U32
    <3>1. m \in Nat /\ w.nbCorrections \in Nat
      BY <1>5, ShapeFacts DEF Window
    <3>2. m * (w.nbCorrections + 1) \in Int
      BY <3>1
    <3>3. x \in Int
      BY <3>2, ModRange, IndexConstants
    <3>4. i > Larger(x, m)
      BY <2>1, <1>3 DEF CanOverflowCorrect, WindowStart, L
    <3> HIDE DEF x
    <3> QED
      BY <3>1, <3>3, <3>4, <1>1, <1>4, <1>5 DEF Larger
  <2>2. CASE Index(w, end) > CurrentMax
    BY <2>2, <1>1, <1>2, <1>4, <1>5, IndexConstants DEF S
  <2> QED
    BY <2>1, <2>2 DEF NeedOverflowCorrection
<1>7. Correction(w, c.cycle, c.window, start) = (i - new) % U32
  BY <1>3 DEF Correction, new
<1>8. i - new \in 0..(U32 - 1)
  BY <1>1, <1>6, IndexConstants
<1>9. (i - new) % U32 = i - new
  BY <1>8, ModSmall, IndexConstants
<1> QED
  BY <1>1, <1>2, <1>4, <1>5, <1>7, <1>8, <1>9, IndexConstants DEF S, new

(* correct_overflow moves the whole window down, squashing bounds to       *)
(* WindowStart.                                                            *)
LEMMA ShapeCorrect ==
    ASSUME NEW w, Shape(w), NEW corr \in Nat, WindowEnd(w) - corr >= 2
    PROVE  LET v == CorrectOverflow(w, corr)
           IN  /\ Shape(v) /\ WindowEnd(v) = WindowEnd(w) - corr
               /\ v.base = w.base + corr /\ v.nextSrc = w.nextSrc
               /\ v.low = Reduced(w.low, corr)
<1> DEFINE v == CorrectOverflow(w, corr)
           low == Reduced(w.low, corr)
           lim == Reduced(w.dictLimit, corr)
           n == (w.nbCorrections + 1) % U32
<1>1. /\ w \in Window /\ w.base + corr \in Int /\ low \in Nat /\ lim \in Nat
      /\ 2 <= low /\ low <= lim /\ lim <= WindowEnd(w) - corr
      /\ low + w.base + corr >= 0
  BY ShapeFacts DEF Reduced, WindowStart
<1>2. n \in Nat
  <2>1. w.nbCorrections + 1 \in Int
    BY <1>1 DEF Window
  <2> QED
    BY <2>1, ModRange, IndexConstants
<1> HIDE DEF low, lim, n
<1>3. v = [w EXCEPT !.base = w.base + corr, !.low = low, !.dictLimit = lim,
                    !.loadedDictEnd = 0, !.nbCorrections = n]
  BY DEF CorrectOverflow, low, lim, n
<1> HIDE DEF v
<1>4. /\ v \in Window /\ v.base = w.base + corr /\ v.nextSrc = w.nextSrc
      /\ v.low = low /\ v.dictLimit = lim
  BY <1>1, <1>2, <1>3 DEF Window
<1>5. WindowEnd(v) = WindowEnd(w) - corr
  BY <1>1, <1>4, ShapeFacts DEF WindowEnd, Index
<1>6. Shape(v)
  BY <1>1, <1>4, <1>5, ShapeFacts DEF Shape, WindowStart, Pos
<1> QED
  BY <1>4, <1>5, <1>6 DEF v, low

-----------------------------------------------------------------------------
(* The inductive invariant *)

(* How high indices get: content and one skipped block may pass            *)
(* CurrentMax, an entered block may not.                                   *)
IndexBound ==
    /\ WindowEnd(win) <= CurrentMax + MaxContent + MaxLen
    /\ phase \in {"new", "reset", "entered", "find"} => WindowEnd(win) <= CurrentMax
    /\ phase \in {"entered", "find"} =>
          block.end = win.nextSrc /\ block.end - block.start \in 0..MaxLen

(* The workspace vouches at least for the index tables of the layout, for  *)
(* no word of a tag table, and the padding between them is zero.           *)
TablesVouched ==
    phase # "new" =>
        /\ cp.layout.indexEnd <= valid
        /\ cp.layout.tags # {} => valid = cp.layout.indexEnd
        /\ \A i \in 0..(cp.layout.indexEnd - 1) : i \notin Cells(cp.layout) => words[i].idx = 0

IndInv ==
    /\ TypeOK
    /\ Shape(win)
    /\ IndexBound
    /\ TablesVouched
    /\ VouchedBelowEnd
    /\ NoStaleHit

(* The layout of a reset's parameters.                                     *)
LEMMA LayoutFacts ==
    ASSUME NEW c \in CParams
    PROVE  /\ c.layout.indexEnd \in 0..NWords /\ c.layout.words \in 1..NWords
           /\ c.layout.indexEnd <= c.layout.words
           /\ Cells(c.layout) \subseteq 0..(c.layout.indexEnd - 1)
           /\ Cells(c.layout) \subseteq 0..(NWords - 1)
           /\ \A i \in c.layout.tags : i >= c.layout.indexEnd
           /\ NWords \in Nat
           /\ c.layout.hash \subseteq Cells(c.layout)
           /\ c.layout.chain \subseteq Cells(c.layout)
           /\ c.layout.hash3 \subseteq Cells(c.layout)
           /\ Cells(c.layout) = c.layout.hash \cup c.layout.chain \cup c.layout.hash3
<1>1. c.layout \in Layouts /\ NWords \in Nat \ {0}
  BY MatchStateConstants DEF CParamsType
<1>2. c.layout.indexEnd \in 0..NWords /\ c.layout.words \in 1..NWords
  BY <1>1 DEF Layouts
<1>3. /\ c.layout.indexEnd <= c.layout.words
      /\ Cells(c.layout) \subseteq 0..(c.layout.indexEnd - 1)
      /\ c.layout.tags \subseteq c.layout.indexEnd..(c.layout.words - 1)
  BY MatchStateConstants
<1> QED
  BY <1>1, <1>2, <1>3 DEF Cells

(* Init establishes the invariant.                                         *)
LEMMA InitInv == Init => IndInv
<1> SUFFICES ASSUME Init PROVE IndInv
  OBVIOUS
<1>1. Shape(win) /\ WindowEnd(win) = 2
  BY ShapeNew DEF Init
<1>2. TypeOK
  <2>1. win \in Window /\ cp \in CParams
    BY <1>1 DEF Shape, Init
  <2>2. words \in [0..NWords-1 -> Word]
    BY DEF Init, Word, Empty, Gone
  <2>3. /\ ntu = 0 /\ pages = 0 /\ valid = 0 /\ phase = "new" /\ first = 0
        /\ ws = [size |-> 0, used |-> 0, duration |-> 0]
        /\ block = [start |-> 0, end |-> 0]
    BY DEF Init
  <2>4. 0 \in 0..NWords
    BY MatchStateConstants
  <2> QED
    BY <2>1, <2>2, <2>3, <2>4 DEF TypeOK, Phases
<1>3. IndexBound
  <2>1. phase = "new"
    BY DEF Init
  <2> QED
    BY <2>1, <1>1, IndexConstants DEF IndexBound
<1>4. TablesVouched
  BY DEF Init, TablesVouched
<1>5. VouchedBelowEnd
  BY DEF Init, VouchedBelowEnd
<1>6. NoStaleHit
  <2>1. \A i \in Cells(cp.layout) : words[i].idx = 0
    BY LayoutFacts DEF Init, Empty
  <2> QED
    BY <2>1, <1>1, ShapeFacts DEF NoStaleHit
<1> QED
  BY <1>1, <1>2, <1>3, <1>4, <1>5, <1>6 DEF IndInv

(* Workspace::reset types what it leaves behind.                           *)
LEMMA WorkspaceResetType ==
    ASSUME TypeOK, NEW c \in CParams, NEW r \in BOOLEAN, WorkspaceReset(c, r)
    PROVE  /\ words' \in [0..NWords-1 -> Word]
           /\ pages' \in 0..NWords /\ valid' \in 0..NWords
           /\ Vouched(c, r) \in 0..NWords
<1>1. Empty \in Word /\ \A u \in Word : Aged(u) \in Word
  BY DEF Empty, Word, Aged, Gone
<1>2. Vouched(c, r) \in 0..NWords
  BY LayoutFacts DEF Vouched, TypeOK
<1>3. words' \in [0..NWords-1 -> Word]
  BY <1>1 DEF WorkspaceReset, TypeOK
<1>4. pages' \in 0..NWords
  BY LayoutFacts DEF WorkspaceReset, TypeOK
<1>5. valid' \in 0..NWords
  BY <1>2, LayoutFacts DEF WorkspaceReset, Larger
<1> QED
  BY <1>2, <1>3, <1>4, <1>5

(* Workspace::reset leaves every word it vouches for zero, or as it was    *)
(* and vouched for before, and then only when indices continue.            *)
LEMMA WorkspaceResetVouches ==
    ASSUME TypeOK, NEW c \in CParams, NEW r \in BOOLEAN, WorkspaceReset(c, r),
           Resized(c.need) => r
    PROVE  /\ c.layout.indexEnd <= valid'
           /\ c.layout.tags # {} => valid' = c.layout.indexEnd
           /\ \A i \in 0..(valid' - 1) :
                 words'[i].idx = 0 \/ (~r /\ i < valid /\ words'[i].idx = words[i].idx)
           /\ \A i \in 0..(c.layout.indexEnd - 1) :
                 i \notin Cells(c.layout) => words'[i].idx = 0
<1> DEFINE fresh == (IF Resized(c.need) THEN 0 ELSE pages) < c.layout.words
           kept == Vouched(c, r)
<1>1. /\ kept \in 0..NWords /\ valid' \in 0..NWords /\ NWords \in Nat
      /\ c.layout.indexEnd \in 0..NWords /\ valid \in 0..NWords
  BY WorkspaceResetType, LayoutFacts DEF TypeOK
<1>2. c.layout.indexEnd <= valid' /\ (c.layout.tags # {} => valid' = c.layout.indexEnd)
  BY <1>1 DEF WorkspaceReset, Larger
<1>3. ASSUME NEW i \in 0..NWords-1, fresh \/ i \in Zeroed(c, kept)
      PROVE  words'[i].idx = 0
  BY <1>3 DEF WorkspaceReset, Empty
<1>4. ASSUME NEW i \in 0..NWords-1, ~fresh, i \notin Zeroed(c, kept)
      PROVE  words'[i].idx = words[i].idx
  <2>1. words'[i] = Aged(words[i]) /\ words[i] \in Word
    BY <1>4 DEF WorkspaceReset, TypeOK
  <2> QED
    BY <2>1 DEF Aged, Word
<1>5. ~fresh => kept = IF r THEN 0 ELSE valid
  BY DEF Vouched
<1>6. valid' <= Larger(kept, c.layout.indexEnd)
  BY <1>1 DEF WorkspaceReset, Larger
<1>7. ASSUME NEW i \in 0..(valid' - 1)
      PROVE  words'[i].idx = 0 \/ (~r /\ i < valid /\ words'[i].idx = words[i].idx)
  <2>1. i \in 0..NWords-1
    BY <1>1
  <2>2. CASE fresh \/ i \in Zeroed(c, kept)
    BY <2>1, <2>2, <1>3
  <2>3. CASE ~fresh /\ i \notin Zeroed(c, kept)
    <3>1. i < kept
      BY <2>3, <1>1, <1>6, <2>1 DEF Zeroed, Larger
    <3>2. ~r /\ kept = valid
      BY <3>1, <2>3, <1>5, <2>1, <1>1
    <3> QED
      BY <3>1, <3>2, <2>1, <2>3, <1>4
  <2> QED
    BY <2>2, <2>3
<1>8. ASSUME NEW i \in 0..(c.layout.indexEnd - 1), i \notin Cells(c.layout)
      PROVE  words'[i].idx = 0
  <2>1. i \in 0..NWords-1 /\ i \in Zeroed(c, kept)
    BY <1>1, <1>8 DEF Zeroed
  <2> QED
    BY <2>1, <1>3
<1> QED
  BY <1>2, <1>7, <1>8

(* A reset keeps the invariant: what it keeps lies below the new window.   *)
LEMMA ResetInv ==
    ASSUME IndInv, NEW c \in CParams, NEW o \in Origins, NEW f \in BOOLEAN,
           Reset(c, o, f)
    PROVE  IndInv'
<1> DEFINE r == Resized(c.need) \/ TooCloseToMax(win)
           w == IF r THEN WindowNew(o, f) ELSE ContinueAt(win, o)
<1>1. o \in Nat /\ TypeOK /\ Shape(win)
  BY MatchStateConstants DEF IndInv
<1>2. /\ Shape(w) /\ w.nextSrc = o
      /\ WindowEnd(w) = w.low
      /\ WindowEnd(w) <= CurrentMax
      /\ ~r => WindowEnd(w) = WindowEnd(win)
  <2>1. CASE r
    BY <2>1, <1>1, ShapeNew, IndexConstants
  <2>2. CASE ~r
    <3>1. WindowEnd(win) <= CurrentMax
      BY <2>2, <1>1, ShapeFacts, IndexConstants DEF TooCloseToMax
    <3> QED
      BY <3>1, <2>2, <1>1, ShapeContinue
  <2> QED
    BY <2>1, <2>2
<1>3. WorkspaceReset(c, r) /\ win' = [w EXCEPT !.frequently = f] /\ ntu' = w.low
      /\ cp' = c /\ phase' = "reset" /\ first' = o /\ block' = [start |-> o, end |-> o]
  BY DEF Reset
<1>4. r \in BOOLEAN /\ (Resized(c.need) => r)
  BY DEF Resized, TooCloseToMax
<1> HIDE DEF w, r
<1>5. Shape(win') /\ WindowEnd(win') = WindowEnd(w) /\ win'.low = w.low
  BY <1>2, <1>3, ShapeFrequently
<1>6. TypeOK'
  <2>1. /\ words' \in [0..NWords-1 -> Word]
        /\ pages' \in 0..NWords /\ valid' \in 0..NWords
    BY <1>1, <1>3, <1>4, WorkspaceResetType
  <2>2. ws' \in [size: Nat, used: Nat, duration: Nat]
    BY <1>1, CParamsFacts DEF Reset, Reserve, TypeOK
  <2>3. win' \in Window /\ ntu' \in Nat
    BY <1>2, <1>3, <1>5, ShapeFacts
  <2> QED
    BY <2>1, <2>2, <2>3, <1>1, <1>3 DEF TypeOK, Phases
<1>7. IndexBound'
  BY <1>2, <1>3, <1>5, ShapeFacts, IndexConstants DEF IndexBound
<1>8. TablesVouched' /\ VouchedBelowEnd'
  <2>1. \A i \in 0..(valid' - 1) : words'[i].idx < WindowEnd(win')
    <3> SUFFICES ASSUME NEW i \in 0..(valid' - 1) PROVE words'[i].idx < WindowEnd(win')
      OBVIOUS
    <3>1. CASE words'[i].idx = 0
      BY <3>1, <1>5, ShapeFacts
    <3>2. CASE ~r /\ i < valid /\ words'[i].idx = words[i].idx
      BY <3>2, <1>1, <1>2, <1>5 DEF IndInv, VouchedBelowEnd, TypeOK
    <3> QED
      BY <3>1, <3>2, <1>1, <1>3, <1>4, WorkspaceResetVouches
  <2> QED
    BY <2>1, <1>1, <1>3, <1>4, WorkspaceResetVouches DEF TablesVouched, VouchedBelowEnd
<1>9. NoStaleHit'
  <2>1. \A i \in Cells(cp'.layout) : i \in 0..(valid' - 1)
    BY <1>1, <1>3, <1>4, WorkspaceResetVouches, WorkspaceResetType, LayoutFacts, SMTT(30)
  <2>2. \A i \in Cells(cp'.layout) : words'[i] \in Word
    BY <1>3, <1>6, LayoutFacts DEF TypeOK
  <2> QED
    BY <2>1, <2>2, <1>2, <1>5, <1>8, ShapeFacts DEF NoStaleHit, VouchedBelowEnd, Word
<1> QED
  BY <1>5, <1>6, <1>7, <1>8, <1>9 DEF IndInv

-----------------------------------------------------------------------------
(* Tables that fit a window *)

(* What the invariant says of the tables, as a relation between words W,   *)
(* vouched for below V and laid out as lay, and a window v.                *)
Fit(W, V, lay, v) ==
    /\ W \in [0..NWords-1 -> Word] /\ V \in 0..NWords /\ lay.indexEnd <= V
    /\ lay.tags # {} => V = lay.indexEnd
    /\ \A i \in 0..(lay.indexEnd - 1) : i \notin Cells(lay) => W[i].idx = 0
    /\ \A i \in 0..(V - 1) : W[i].idx < WindowEnd(v)
    /\ \A i \in Cells(lay) : W[i].idx >= v.low => W[i].at = Pos(v, W[i].idx)

(* The invariant gives tables that fit.                                    *)
LEMMA FitOfInv ==
    ASSUME IndInv, phase # "new"
    PROVE  Fit(words, valid, cp.layout, win)
BY DEF IndInv, TypeOK, TablesVouched, VouchedBelowEnd, NoStaleHit, Fit

(* Tables that fit after a step give the invariant's part about them.      *)
LEMMA InvOfFit ==
    ASSUME Fit(words', valid', cp'.layout, win')
    PROVE  /\ TablesVouched' /\ VouchedBelowEnd' /\ NoStaleHit'
           /\ words' \in [0..NWords-1 -> Word] /\ valid' \in 0..NWords
BY DEF TablesVouched, VouchedBelowEnd, NoStaleHit, Fit

(* Raising the window's bounds keeps tables fitting.                       *)
LEMMA FitRaise ==
    ASSUME NEW W, NEW V, NEW c \in CParams, NEW w, NEW v,
           Fit(W, V, c.layout, w), Shape(w), Shape(v),
           v.base = w.base, v.low >= w.low, WindowEnd(v) >= WindowEnd(w)
    PROVE  Fit(W, V, c.layout, v)
<1>1. \A i \in 0..(NWords - 1) : W[i] \in Word /\ W[i].idx \in Nat
  BY DEF Fit, Word
<1>2. \A i \in 0..(V - 1) : i \in 0..(NWords - 1)
  BY MatchStateConstants DEF Fit
<1>3. \A i \in 0..(V - 1) : W[i].idx < WindowEnd(v)
  BY <1>1, <1>2, ShapeFacts DEF Fit
<1>4. ASSUME NEW i \in Cells(c.layout), W[i].idx >= v.low
      PROVE  W[i].at = Pos(v, W[i].idx)
  <2>1. W[i].idx >= w.low
    BY <1>1, <1>4, LayoutFacts, ShapeFacts
  <2> QED
    BY <2>1 DEF Fit, Pos
<1> QED
  BY <1>3, <1>4 DEF Fit

(* reduce_table keeps a word's byte, or empties the word.                  *)
LEMMA ReduceWordFacts ==
    ASSUME NEW u \in Word, NEW corr \in Nat, NEW keep \in BOOLEAN
    PROVE  LET r == ReduceWord(u, corr, keep)
           IN  /\ r \in Word
               /\ r.idx < 2 \/ (r.idx = u.idx - corr /\ r.at = u.at /\ u.idx >= corr + 2)
<1> DEFINE r == ReduceWord(u, corr, keep)
<1>1. CASE keep /\ u.idx = 1
  BY <1>1 DEF ReduceWord, UnsortedMark, Word
<1>2. CASE ~(keep /\ u.idx = 1) /\ u.idx < corr + 2
  BY <1>2 DEF ReduceWord, UnsortedMark, WindowStart, Empty, Word, Gone
<1>3. CASE ~(keep /\ u.idx = 1) /\ ~(u.idx < corr + 2)
  <2>1. r = [u EXCEPT !.idx = u.idx - corr] /\ u.idx \in Nat /\ u.idx - corr \in Nat /\ u.idx >= corr + 2
    BY <1>3 DEF ReduceWord, UnsortedMark, WindowStart, Word
  <2> QED
    BY <2>1 DEF Word
<1> QED
  BY <1>1, <1>2, <1>3

(* Reducing the tables with the window keeps them fitting.                 *)
LEMMA FitCorrect ==
    ASSUME TypeOK, NEW w, Shape(w), Fit(words, valid, cp.layout, w),
           NEW corr \in Nat, WindowEnd(w) - corr >= 2, Reduce(corr)
    PROVE  Fit(words', valid', cp.layout, CorrectOverflow(w, corr))
<1> DEFINE v == CorrectOverflow(w, corr)
           lay == cp.layout
<1>1. /\ Shape(v) /\ WindowEnd(v) = WindowEnd(w) - corr
      /\ v.base = w.base + corr /\ v.low = Reduced(w.low, corr)
  BY ShapeCorrect
<1>2. cp \in CParams /\ valid' = lay.indexEnd
  BY DEF TypeOK, Reduce
<1>3. /\ lay.indexEnd \in 0..NWords /\ NWords \in Nat
      /\ Cells(lay) \subseteq 0..(lay.indexEnd - 1)
  BY <1>2, LayoutFacts
<1> HIDE DEF v
<1>4. ASSUME NEW i \in 0..NWords-1
      PROVE  /\ words[i] \in Word /\ words'[i] \in Word
             /\ i \notin Cells(lay) => words'[i] = words[i]
             /\ i \in Cells(lay) => words'[i].idx < 2
                   \/ (/\ words'[i].idx = words[i].idx - corr /\ words'[i].at = words[i].at
                       /\ words[i].idx >= corr + 2)
  <2>1. words[i] \in Word
    BY DEF TypeOK
  <2>2. words'[i] = IF i \in Cells(lay) THEN ReduceWord(words[i], corr, PreservesMark(i)) ELSE words[i]
    BY DEF Reduce
  <2>3. PreservesMark(i) \in BOOLEAN
    BY <1>2, MatchStateConstants DEF PreservesMark, CParamsType
  <2> QED
    BY <2>1, <2>2, <2>3, ReduceWordFacts
<1>5. words' \in [0..NWords-1 -> Word]
  BY <1>4 DEF Reduce
<1>6. \A i \in 0..(lay.indexEnd - 1) : i \in 0..NWords-1 /\ i \in 0..(valid - 1)
  BY <1>3, SMTT(30) DEF Fit, TypeOK
<1>7. ASSUME NEW i \in 0..(lay.indexEnd - 1)
      PROVE  /\ i \notin Cells(lay) => words'[i].idx = 0
             /\ words'[i].idx < WindowEnd(v)
  <2>1. i \in 0..NWords-1 /\ words[i].idx < WindowEnd(w)
    BY <1>6 DEF Fit
  <2>2. CASE i \notin Cells(lay)
    BY <2>1, <2>2, <1>1, <1>4, ShapeFacts DEF Fit
  <2>3. CASE i \in Cells(lay)
    <3>1. words[i].idx \in Nat /\ words'[i].idx \in Nat
      BY <2>1, <1>4 DEF Word
    <3> QED
      BY <3>1, <2>1, <2>3, <1>1, <1>4, ShapeFacts
  <2> QED
    BY <2>2, <2>3
<1>8. ASSUME NEW i \in Cells(lay), words'[i].idx >= v.low
      PROVE  words'[i].at = Pos(v, words'[i].idx)
  <2>1. i \in 0..NWords-1 /\ words[i].idx \in Nat /\ words'[i].idx \in Nat
    BY <1>3, <1>4, <1>6 DEF Word
  <2>2. /\ words'[i].idx = words[i].idx - corr /\ words'[i].at = words[i].at
        /\ words[i].idx >= corr + 2
    BY <2>1, <1>1, <1>4, <1>8, ShapeFacts
  <2>3. words[i].idx >= w.low
    BY <2>1, <2>2, <1>1, <1>8, ShapeFacts DEF Reduced, WindowStart
  <2>4. words[i].at = words[i].idx + w.base
    BY <2>3 DEF Fit, Pos
  <2> QED
    BY <2>1, <2>2, <2>4, <1>1, ShapeFacts DEF Pos
<1> QED
  BY <1>2, <1>3, <1>5, <1>7, <1>8 DEF Fit, v

(* correct_overflow_if_needed over start..end - 1, for a window that       *)
(* reaches end: the window is in Shape again, its end is at most           *)
(* CurrentMax unless nothing was corrected, and the tables fit it.         *)
LEMMA CorrectIfNeeded ==
    ASSUME CorrectionRoom, TypeOK, NEW w, Shape(w), Fit(words, valid, cp.layout, w),
           NEW start \in Nat, NEW end \in Nat, start <= end, w.nextSrc = end,
           end - start <= Larger(MaxLen, cp.dictMax),
           Index(w, start) \in 0..(U32 - 1),
           TablesCorrected(w, start, end)
    PROVE  LET v == Corrected(w, start, end)
           IN  /\ Shape(v) /\ v.nextSrc = end
               /\ Fit(words', valid', cp.layout, v) /\ pages' = pages
               /\ Index(v, start) \in Nat
               /\ WindowEnd(v) <= CurrentMax
               /\ NtuCorrected(w, start, end) \in Nat
<1> DEFINE corr == CorrectionAt(w, start)
<1>1. cp \in CParams /\ ntu \in Nat
  BY DEF TypeOK
<1>2. CASE NeedsCorrection(w, start, end)
  <2>1. /\ corr \in Nat /\ Index(w, start) - corr >= 2
        /\ Index(w, end) - corr <= CurrentMax
    BY <1>1, <1>2, CorrectionExact DEF NeedsCorrection, CorrectionAt
  <2>2. Index(w, end) = WindowEnd(w) /\ WindowEnd(w) - corr >= 2
    BY <2>1, ShapeFacts DEF WindowEnd, Index
  <2>3. Corrected(w, start, end) = CorrectOverflow(w, corr) /\ Reduce(corr)
    BY <1>2 DEF Corrected, TablesCorrected
  <2> HIDE DEF corr
  <2>4. LET v == CorrectOverflow(w, corr)
        IN  /\ Shape(v) /\ WindowEnd(v) = WindowEnd(w) - corr
            /\ v.nextSrc = w.nextSrc /\ v.base = w.base + corr
    BY <2>1, <2>2, ShapeCorrect
  <2>5. Fit(words', valid', cp.layout, CorrectOverflow(w, corr)) /\ pages' = pages
    BY <2>1, <2>2, <2>3, FitCorrect DEF Reduce
  <2>6. Index(CorrectOverflow(w, corr), start) = Index(w, start) - corr
    BY <2>1, <2>4, ShapeFacts DEF Index
  <2>7. NtuCorrected(w, start, end) \in Nat
    BY <1>1, <1>2, <2>1 DEF NtuCorrected, Monus, corr
  <2>8. Index(CorrectOverflow(w, corr), start) \in Nat
        /\ WindowEnd(CorrectOverflow(w, corr)) <= CurrentMax
    BY <2>1, <2>2, <2>4, <2>6, ShapeFacts
  <2> QED
    BY <2>3, <2>4, <2>5, <2>7, <2>8
<1>3. CASE ~NeedsCorrection(w, start, end)
  <2>1. /\ Corrected(w, start, end) = w /\ UNCHANGED tables
        /\ NtuCorrected(w, start, end) = ntu
    BY <1>3 DEF Corrected, TablesCorrected, NtuCorrected
  <2>2. WindowEnd(w) <= CurrentMax
    BY <1>3, ShapeFacts, IndexConstants DEF NeedsCorrection, NeedOverflowCorrection, WindowEnd, Index
  <2> QED
    BY <2>1, <2>2, <1>1 DEF tables
<1> QED
  BY <1>2, <1>3

-----------------------------------------------------------------------------
(* One lemma per action *)

(* The indices of a reset window: a prefix or dictionary of MaxContent     *)
(* bytes still has u32 indices.                                            *)
LEMMA RoomFacts ==
    ASSUME CorrectionRoom
    PROVE  CurrentMax + MaxContent + MaxLen < U32
BY DEF CorrectionRoom

(* A prefix or dictionary keeps the invariant, whether or not it is long   *)
(* enough to be indexed.                                                   *)
LEMMA EnterContentInv ==
    ASSUME CorrectionRoom, IndInv, NEW len \in 0..MaxContent, NEW dict \in BOOLEAN,
           EnterContent(len, dict)
    PROVE  IndInv'
<1> DEFINE start == win.nextSrc
           end == start + len
           from == IndexedFrom(start, end)
           long == end - from > HashReadSize
           x == ExtendTo(win, end)
           w == IF dict THEN LoadDict(x) ELSE x
<1>1. /\ TypeOK /\ Shape(win) /\ cp \in CParams /\ start \in Nat /\ len \in Nat
      /\ end \in Nat /\ end >= start /\ phase = "reset"
      /\ WindowEnd(win) <= CurrentMax
  BY ShapeFacts, IndexConstants DEF IndInv, TypeOK, IndexBound, EnterContent
<1>2. /\ Shape(x) /\ x.base = win.base /\ x.low >= win.low /\ x.nextSrc = end
      /\ WindowEnd(x) = WindowEnd(win) + len
  BY <1>1, ShapeExtend, ShapeFacts
<1>3. from \in Nat /\ from >= start /\ from <= end /\ end - from <= cp.dictMax
  BY <1>1, CParamsFacts DEF IndexedFrom, Larger, Monus
<1>4. /\ win' = IF long THEN Corrected(w, from, end) ELSE w
      /\ IF long THEN TablesCorrected(w, from, end) ELSE UNCHANGED tables
      /\ ntu' = Index(win', from) /\ phase' \in {"fill", "ready"} /\ cp' = cp /\ ws' = ws
      /\ block' = [start |-> end, end |-> end]
      /\ first' \in {end, first}
  BY DEF EnterContent
<1> HIDE DEF x
<1>5. /\ Shape(w) /\ w.base = win.base /\ w.low >= win.low /\ w.nextSrc = end
      /\ WindowEnd(w) = WindowEnd(win) + len
  <2>1. CASE dict
    BY <2>1, <1>1, <1>2, ShapeLoadDict, ShapeFacts
  <2>2. CASE ~dict
    BY <2>2, <1>2
  <2> QED
    BY <2>1, <2>2
<1> HIDE DEF w, start, end, from, long
<1>6. Fit(words, valid, cp.layout, w)
  <2>1. Fit(words, valid, cp.layout, win)
    BY <1>1, FitOfInv
  <2>2. WindowEnd(w) >= WindowEnd(win)
    BY <1>1, <1>5, ShapeFacts
  <2> QED
    BY <2>1, <2>2, <1>1, <1>5, FitRaise
<1>7. Index(w, from) \in 0..(U32 - 1)
  <2>1. Index(w, from) = from - w.base /\ WindowEnd(w) = end - w.base
        /\ w.base \in Int /\ w.base <= win.nextSrc
    BY <1>1, <1>5, ShapeFacts DEF Index
  <2>2. start - w.base >= 0
    BY <2>1, <1>1, <1>5, ShapeFacts DEF start
  <2>3. WindowEnd(win) \in Nat /\ len <= MaxContent /\ WindowEnd(w) = WindowEnd(win) + len
    BY <1>1, <1>5, ShapeFacts, IndexConstants
  <2>4. from - w.base >= 0 /\ from - w.base <= WindowEnd(win) + len
    BY <2>1, <2>2, <2>3, <1>1, <1>3
  <2> QED
    BY <2>1, <2>3, <2>4, <1>1, <1>3, RoomFacts, IndexConstants
<1>8. /\ Shape(win') /\ win'.nextSrc = end /\ Fit(words', valid', cp.layout, win')
      /\ pages' = pages /\ ntu' \in Nat
      /\ WindowEnd(win') <= CurrentMax + MaxContent + MaxLen
  <2>1. CASE long
    <3>1. /\ win' = Corrected(w, from, end) /\ TablesCorrected(w, from, end)
          /\ end - from <= Larger(MaxLen, cp.dictMax)
      BY <2>1, <1>1, <1>3, <1>4, CParamsFacts
    <3>2. /\ Shape(win') /\ win'.nextSrc = end /\ Fit(words', valid', cp.layout, win')
          /\ pages' = pages /\ Index(win', from) \in Nat /\ WindowEnd(win') <= CurrentMax
      BY <3>1, <1>1, <1>3, <1>5, <1>6, <1>7, CorrectIfNeeded
    <3> QED
      BY <3>2, <1>4, ShapeFacts, IndexConstants
  <2>2. CASE ~long
    <3>1. win' = w /\ words' = words /\ valid' = valid /\ pages' = pages
      BY <2>2, <1>4 DEF tables
    <3>2. WindowEnd(w) <= CurrentMax + MaxContent + MaxLen
      BY <1>1, <1>5, ShapeFacts, IndexConstants
    <3> QED
      BY <3>1, <3>2, <1>4, <1>5, <1>6, <1>7, IndexConstants
  <2> QED
    BY <2>1, <2>2
<1>9. TypeOK'
  <2>1. words' \in [0..NWords-1 -> Word] /\ valid' \in 0..NWords /\ win' \in Window
    BY <1>8, ShapeFacts DEF Fit
  <2> QED
    BY <2>1, <1>1, <1>4, <1>8 DEF TypeOK, Phases
<1>10. IndexBound'
  BY <1>4, <1>8 DEF IndexBound
<1> QED
  BY <1>4, <1>8, <1>9, <1>10, InvOfFit DEF IndInv

(* A block keeps the invariant: its indices end at CurrentMax at most.     *)
LEMMA EnterBlockInv ==
    ASSUME CorrectionRoom, IndInv, NEW len \in 0..MaxLen, EnterBlock(len)
    PROVE  IndInv'
<1> DEFINE start == win.nextSrc
           end == start + len
           w == ExtendTo(win, end)
           x == Corrected(w, start, end)
           y == CheckDictValidity(x, end, cp.window)
<1>1. /\ TypeOK /\ Shape(win) /\ cp \in CParams /\ start \in Nat /\ len \in Nat
      /\ end \in Nat /\ end >= start /\ phase # "new" /\ len <= MaxLen
      /\ WindowEnd(win) <= CurrentMax + MaxContent + MaxLen
  BY ShapeFacts, IndexConstants DEF IndInv, TypeOK, IndexBound, EnterBlock
<1>2. /\ Shape(w) /\ w.base = win.base /\ w.low = win.low /\ w.nextSrc = end
      /\ WindowEnd(w) = WindowEnd(win) + len
  BY <1>1, ShapeExtend, ShapeFacts
<1>3. /\ win' = EnforceMaxDist(y, start, cp.window)
      /\ TablesCorrected(w, start, end)
      /\ ntu' = Larger(NtuCorrected(w, start, end), win'.low)
      /\ block' = [start |-> start, end |-> end]
      /\ phase' = "entered" /\ cp' = cp /\ ws' = ws /\ first' = first
  BY DEF EnterBlock
<1> HIDE DEF w
<1>4. Fit(words, valid, cp.layout, w)
  <2>1. Fit(words, valid, cp.layout, win)
    BY <1>1, FitOfInv
  <2>2. WindowEnd(w) >= WindowEnd(win) /\ w.low >= win.low
    BY <1>1, <1>2, ShapeFacts
  <2> QED
    BY <2>1, <2>2, <1>1, <1>2, FitRaise
<1>5. Index(w, start) \in 0..(U32 - 1)
  <2>1. Index(w, start) = WindowEnd(win)
    BY <1>2, ShapeFacts DEF Index, WindowEnd
  <2> QED
    BY <2>1, <1>1, ShapeFacts, RoomFacts, IndexConstants
<1>6. end - start <= Larger(MaxLen, cp.dictMax) /\ end - start = len
  <2>1. MaxLen <= Larger(MaxLen, cp.dictMax) /\ Larger(MaxLen, cp.dictMax) \in Nat
    BY <1>1, CParamsFacts
  <2> QED
    BY <2>1, <1>1, IndexConstants
<1> HIDE DEF start, end
<1>7. /\ Shape(x) /\ x.nextSrc = end /\ Fit(words', valid', cp.layout, x)
      /\ pages' = pages /\ WindowEnd(x) <= CurrentMax
      /\ NtuCorrected(w, start, end) \in Nat
  BY <1>1, <1>2, <1>3, <1>4, <1>5, <1>6, CorrectIfNeeded
<1> HIDE DEF x
<1>8. Shape(y) /\ WindowEnd(y) = WindowEnd(x) /\ y.base = x.base /\ y.low = x.low
      /\ y.nextSrc = end
  <2>1. cp.window \in Nat
    BY <1>1, CParamsFacts
  <2> QED
    BY <2>1, <1>1, <1>7, ShapeCheckDict, ZenonT(30)
<1> HIDE DEF y
<1>9. /\ Shape(win') /\ WindowEnd(win') = WindowEnd(x) /\ win'.base = x.base
      /\ win'.low >= x.low /\ win'.nextSrc = end
  <2>1. cp.window \in Nat /\ start <= y.nextSrc
    BY <1>1, <1>8, CParamsFacts
  <2> QED
    BY <2>1, <1>1, <1>3, <1>8, ShapeEnforce
<1>10. Fit(words', valid', cp.layout, win')
  <2>1. WindowEnd(win') >= WindowEnd(x)
    BY <1>9, ShapeFacts
  <2> QED
    BY <2>1, <1>1, <1>7, <1>9, FitRaise
<1>11. TypeOK'
  <2>1. words' \in [0..NWords-1 -> Word] /\ valid' \in 0..NWords /\ win' \in Window
    BY <1>9, <1>10, ShapeFacts DEF Fit
  <2>2. ntu' \in Nat
    BY <1>3, <1>7, <1>9, ShapeFacts DEF Larger
  <2> QED
    BY <2>1, <2>2, <1>1, <1>3, <1>7 DEF TypeOK, Phases
<1>12. IndexBound'
  <2>1. WindowEnd(win') <= CurrentMax /\ WindowEnd(win') <= CurrentMax + MaxContent + MaxLen
    BY <1>7, <1>9, ShapeFacts, IndexConstants
  <2>2. block'.end = win'.nextSrc /\ block'.end - block'.start \in 0..MaxLen
    BY <1>1, <1>3, <1>6, <1>9, IndexConstants
  <2> QED
    BY <2>1, <2>2, <1>3 DEF IndexBound
<1> QED
  BY <1>3, <1>9, <1>10, <1>11, <1>12, InvOfFit DEF IndInv

(* The window of a dictionary's own state: in Shape, its indices in u32.   *)
LEMMA DictWindowFacts ==
    ASSUME CorrectionRoom, TypeOK, NEW len \in 0..MaxContent
    PROVE  /\ Shape(DictWindow(len)) /\ DictWindow(len).nextSrc = len
           /\ WindowEnd(DictWindow(len)) <= CurrentMax + MaxContent
           /\ IndexedFrom(0, len) \in 0..len
           /\ Index(DictWindow(len), IndexedFrom(0, len)) \in Nat
<1> DEFINE n == WindowNew(0, win.frequently)
           x == ExtendTo(n, len)
           w == LoadDict(x)
           from == IndexedFrom(0, len)
<1>1. len \in Nat /\ len <= MaxContent /\ cp \in CParams /\ win.frequently \in BOOLEAN
      /\ cp.dictMax \in Nat
  BY IndexConstants, CParamsFacts DEF TypeOK, Window
<1>2. from \in 0..len /\ len - from <= cp.dictMax
  BY <1>1 DEF IndexedFrom, Larger, Monus
<1>3. Shape(n) /\ WindowEnd(n) = 2 /\ n.nextSrc = 0
  BY <1>1, ShapeNew
<1> HIDE DEF n
<1>4. Shape(x) /\ WindowEnd(x) = 2 + len /\ x.nextSrc = len
  BY <1>1, <1>3, ShapeExtend
<1> HIDE DEF x
<1>5. Shape(w) /\ WindowEnd(w) = 2 + len /\ w.nextSrc = len
  BY <1>4, ShapeLoadDict
<1> HIDE DEF w
<1>6. w.base = -2
  BY <1>1, <1>5, ShapeFacts
<1> HIDE DEF from
<1>7. Index(w, from) \in 0..(U32 - 1) /\ Index(w, from) = from + 2
  BY <1>1, <1>2, <1>6, RoomFacts, IndexConstants DEF Index
<1>8. CASE len - from > HashReadSize /\ NeedsCorrection(w, from, len)
  <2> DEFINE corr == Correction(w, cp.cycle, cp.window, from)
  <2>1. DictWindow(len) = CorrectOverflow(w, corr)
    BY <1>8 DEF DictWindow, Corrected, CorrectionAt, w, x, n, from
  <2>2. len - from <= Larger(MaxLen, cp.dictMax)
    BY <1>1, <1>2, CParamsFacts
  <2>3. NeedOverflowCorrection(w, cp.cycle, cp.window, from, len) /\ from \in Nat /\ from <= len
    BY <1>1, <1>2, <1>8 DEF NeedsCorrection
  <2>4. corr \in Nat /\ Index(w, from) - corr >= 2 /\ Index(w, len) - corr <= CurrentMax
    BY <2>2, <2>3, <1>1, <1>5, <1>7, CorrectionExact
  <2> HIDE DEF corr
  <2>5. Index(w, len) = WindowEnd(w) /\ WindowEnd(w) - corr >= 2
    BY <2>4, <1>1, <1>2, <1>5, <1>6, <1>7 DEF Index
  <2>6. LET v == CorrectOverflow(w, corr)
        IN  /\ Shape(v) /\ WindowEnd(v) = WindowEnd(w) - corr
            /\ v.nextSrc = w.nextSrc /\ v.base = w.base + corr
    BY <2>4, <2>5, <1>5, ShapeCorrect
  <2>7. Index(CorrectOverflow(w, corr), from) \in Nat
    BY <2>3, <2>4, <2>6, <1>6, <1>7 DEF Index
  <2>8. WindowEnd(CorrectOverflow(w, corr)) <= CurrentMax + MaxContent
    BY <2>4, <2>5, <2>6, <1>1, <1>5, IndexConstants
  <2> QED
    BY <2>1, <2>6, <2>7, <2>8, <1>2, <1>5 DEF from
<1>9. CASE ~(len - from > HashReadSize /\ NeedsCorrection(w, from, len))
  <2>1. DictWindow(len) = w
    BY <1>9 DEF DictWindow, Corrected, w, x, n, from
  <2>2. WindowEnd(w) <= CurrentMax + MaxContent
    BY <1>1, <1>5, IndexConstants
  <2>3. Index(w, from) \in Nat
    BY <1>2, <1>7
  <2> QED
    BY <2>1, <2>2, <2>3, <1>2, <1>5 DEF from
<1> QED
  BY <1>8, <1>9

(* Copying a dictionary's tables keeps the invariant.                      *)
LEMMA CopyDictInv ==
    ASSUME CorrectionRoom, IndInv, NEW len \in 0..MaxContent, CopyDict(len)
    PROVE  IndInv'
<1> DEFINE w == DictWindow(len)
           lay == cp.layout
           copied == lay.hash \cup lay.chain
<1>1. /\ TypeOK /\ cp \in CParams /\ len \in Nat /\ phase = "reset"
      /\ lay.indexEnd <= valid
      /\ \A i \in 0..(lay.indexEnd - 1) : i \notin Cells(lay) => words[i].idx = 0
  BY IndexConstants DEF IndInv, TypeOK, TablesVouched, CopyDict
<1>2. /\ Shape(w) /\ w.nextSrc = len /\ WindowEnd(w) <= CurrentMax + MaxContent
      /\ Index(w, IndexedFrom(0, len)) \in Nat
  BY <1>1, DictWindowFacts
<1>3. PICK t \in [copied -> DictWords(len)] :
              words' = [i \in 0..NWords-1 |->
                          IF i \in copied THEN t[i]
                          ELSE IF i \in lay.hash3 THEN Empty ELSE words[i]]
  BY DEF CopyDict
<1>4. /\ win' = w /\ valid' = lay.indexEnd /\ phase' = "ready" /\ cp' = cp /\ ws' = ws
      /\ pages' = pages /\ block' = [start |-> len, end |-> len]
      /\ first' \in {len, 0}
      /\ ntu' \in {Index(w, IndexedFrom(0, len)), WindowEnd(w)}
  BY DEF CopyDict
<1>5. \A u \in DictWords(len) :
          /\ u \in Word /\ u.idx < WindowEnd(w)
          /\ u.idx >= w.low => u.at = Pos(w, u.idx)
  <2> SUFFICES ASSUME NEW u \in DictWords(len)
               PROVE  /\ u \in Word /\ u.idx < WindowEnd(w)
                      /\ u.idx >= w.low => u.at = Pos(w, u.idx)
    OBVIOUS
  <2>1. CASE u = Empty
    BY <2>1, <1>2, ShapeFacts DEF Empty, Word, Gone
  <2>2. CASE u # Empty
    <3> DEFINE lo == Larger(w.low, Index(w, IndexedFrom(0, len)))
    <3>1. PICK i \in lo..(WindowEnd(w) - 1) : u = Entry(w, i)
      BY <2>2 DEF DictWords
    <3>2. lo \in Nat /\ lo >= w.low
      BY <1>2, ShapeFacts DEF Larger
    <3> HIDE DEF w, lo
    <3>3. i \in Nat /\ i < WindowEnd(w) /\ i + w.base \in Nat
      BY <3>1, <3>2, <1>2, ShapeFacts
    <3>4. u = [idx |-> i, at |-> i + w.base]
      BY <3>1 DEF Entry, Pos
    <3> QED
      BY <3>3, <3>4 DEF Word, Pos
  <2> QED
    BY <2>1, <2>2
<1> HIDE DEF w
<1>6. /\ lay.indexEnd \in 0..NWords /\ NWords \in Nat
      /\ Cells(lay) \subseteq 0..(lay.indexEnd - 1)
      /\ Cells(lay) \subseteq 0..(NWords - 1)
      /\ Cells(lay) = copied \cup lay.hash3
  BY <1>1, LayoutFacts
<1>7. ASSUME NEW i \in 0..NWords-1
      PROVE  /\ words'[i] \in Word
             /\ i \in Cells(lay) => /\ words'[i].idx < WindowEnd(w)
                                    /\ words'[i].idx >= w.low => words'[i].at = Pos(w, words'[i].idx)
             /\ i \notin Cells(lay) => words'[i] = words[i]
  <2>1. CASE i \in copied
    BY <2>1, <1>3, <1>5, <1>6
  <2>2. CASE i \notin copied /\ i \in lay.hash3
    <3>1. words'[i] = Empty
      BY <2>2, <1>3
    <3> QED
      BY <3>1, <2>2, <1>2, <1>6, ShapeFacts DEF Empty, Word, Gone
  <2>3. CASE i \notin copied /\ i \notin lay.hash3
    BY <2>3, <1>1, <1>3, <1>6 DEF TypeOK
  <2> QED
    BY <2>1, <2>2, <2>3
<1>8. Fit(words', valid', lay, w)
  <2>1. words' \in [0..NWords-1 -> Word]
    BY <1>3, <1>7
  <2>2. \A i \in 0..(lay.indexEnd - 1) : i \in 0..NWords-1
    BY <1>6
  <2>3. \A i \in 0..(lay.indexEnd - 1) : i \notin Cells(lay) => words'[i].idx = 0
    BY <2>2, <1>1, <1>7
  <2>4. \A i \in 0..(lay.indexEnd - 1) : words'[i].idx < WindowEnd(w)
    BY <2>2, <2>3, <1>2, <1>7, ShapeFacts
  <2>5. \A i \in Cells(lay) : words'[i].idx >= w.low => words'[i].at = Pos(w, words'[i].idx)
    BY <1>6, <1>7
  <2> QED
    BY <2>1, <2>3, <2>4, <2>5, <1>4, <1>6 DEF Fit
<1>9. TypeOK'
  <2>1. words' \in [0..NWords-1 -> Word] /\ valid' \in 0..NWords /\ win' \in Window
        /\ ntu' \in Nat
    BY <1>2, <1>4, <1>8, ShapeFacts DEF Fit
  <2> QED
    BY <2>1, <1>1, <1>4 DEF TypeOK, Phases
<1>10. IndexBound'
  <2>1. WindowEnd(win') <= CurrentMax + MaxContent + MaxLen
    BY <1>2, <1>4, ShapeFacts, IndexConstants
  <2> QED
    BY <2>1, <1>4 DEF IndexBound
<1> QED
  BY <1>2, <1>4, <1>8, <1>9, <1>10, InvOfFit DEF IndInv

(* Tables whose words all lie below a window's low fit it.                 *)
LEMMA FitBelow ==
    ASSUME NEW W, NEW V, NEW c \in CParams, NEW w, NEW v,
           Fit(W, V, c.layout, w), Shape(w), Shape(v), v.low >= WindowEnd(w)
    PROVE  Fit(W, V, c.layout, v)
<1>1. \A i \in 0..(NWords - 1) : W[i] \in Word /\ W[i].idx \in Nat
  BY DEF Fit, Word
<1>2. \A i \in 0..(V - 1) : i \in 0..(NWords - 1)
  BY MatchStateConstants DEF Fit
<1>3. ASSUME NEW i \in 0..(V - 1) PROVE W[i].idx < v.low /\ W[i].idx < WindowEnd(v)
  <2>1. W[i].idx \in Nat /\ W[i].idx < WindowEnd(w)
    BY <1>1, <1>2 DEF Fit
  <2>2. WindowEnd(w) \in Nat /\ v.low \in Nat /\ WindowEnd(v) \in Nat /\ v.low <= WindowEnd(v)
    BY ShapeFacts
  <2> QED
    BY <2>1, <2>2
<1>4. Cells(c.layout) \subseteq 0..(V - 1)
  BY LayoutFacts DEF Fit
<1>5. ASSUME NEW i \in Cells(c.layout) PROVE ~(W[i].idx >= v.low)
  BY <1>1, <1>2, <1>3, <1>4, ShapeFacts
<1> QED
  BY <1>3, <1>5 DEF Fit

(* Attaching a dictionary keeps the invariant.                             *)
LEMMA AttachInv ==
    ASSUME CorrectionRoom, IndInv, NEW len \in 0..MaxContent, Attach(len)
    PROVE  IndInv'
<1> DEFINE end == WindowEnd(DictWindow(len))
<1>1. /\ TypeOK /\ cp \in CParams /\ Shape(win) /\ WindowEnd(win) <= CurrentMax
      /\ phase = "reset" /\ CanAttach(win)
  BY DEF IndInv, TypeOK, IndexBound, Attach
<1>2. end \in Nat /\ end <= CurrentMax + MaxContent
  BY <1>1, DictWindowFacts, ShapeFacts
<1>3. /\ win' = AttachDict(win, end) /\ ntu' = win'.low /\ phase' = "ready"
      /\ cp' = cp /\ words' = words /\ pages' = pages /\ valid' = valid
      /\ ws' = ws /\ block' = block /\ first' = first
  BY DEF Attach
<1> HIDE DEF end
<1>4. /\ Shape(win') /\ WindowEnd(win') = Larger(WindowEnd(win), end)
      /\ win'.low = Larger(WindowEnd(win), end)
  BY <1>1, <1>2, <1>3, ShapeAttach
<1>5. win'.low >= WindowEnd(win) /\ WindowEnd(win') <= CurrentMax + MaxContent + MaxLen
  BY <1>1, <1>2, <1>4, ShapeFacts, IndexConstants DEF Larger
<1>6. Fit(words', valid', cp.layout, win')
  BY <1>1, <1>3, <1>4, <1>5, FitOfInv, FitBelow
<1>7. TypeOK'
  <2>1. win' \in Window /\ ntu' \in Nat
    BY <1>3, <1>4, ShapeFacts
  <2> QED
    BY <2>1, <1>1, <1>3 DEF TypeOK, Phases
<1>8. IndexBound'
  BY <1>3, <1>5 DEF IndexBound
<1> QED
  BY <1>3, <1>4, <1>6, <1>7, <1>8, InvOfFit DEF IndInv

(* start_block moves next_to_update alone.                                 *)
LEMMA StartBlockInv ==
    ASSUME IndInv, StartBlock
    PROVE  IndInv'
<1> DEFINE start == Index(win, block.start)
<1>1. TypeOK /\ Shape(win) /\ ntu \in Nat /\ phase = "entered"
  BY DEF IndInv, TypeOK, StartBlock
<1>2. /\ phase' = "find" /\ win' = win /\ cp' = cp /\ words' = words /\ pages' = pages
      /\ valid' = valid /\ ws' = ws /\ block' = block /\ first' = first
  BY DEF StartBlock
<1>3. ntu' \in Nat
  <2>1. start \in Int /\ UpdateLag \in Nat /\ UpdateKeep \in Nat
    BY <1>1, ShapeFacts, MatchStateConstants DEF TypeOK, Index
  <2>2. LET lag == start - ntu - UpdateLag
        IN  ntu' = IF lag > 0 THEN start - (IF lag < UpdateKeep THEN lag ELSE UpdateKeep)
                   ELSE ntu
    BY DEF StartBlock
  <2> HIDE DEF start
  <2> QED
    BY <2>1, <2>2, <1>1
<1>4. TypeOK'
  BY <1>1, <1>2, <1>3 DEF TypeOK, Phases
<1>5. IndexBound'
  BY <1>1, <1>2 DEF IndInv, IndexBound, WindowEnd, Index
<1>6. Shape(win')
  BY <1>1, <1>2
<1>7. TablesVouched' /\ VouchedBelowEnd' /\ NoStaleHit'
  BY <1>1, <1>2, FitOfInv, InvOfFit
<1> QED
  BY <1>4, <1>5, <1>6, <1>7 DEF IndInv

(* What the finders leave alone: a step that changes words and             *)
(* next_to_update, keeping the words in Fit, keeps the invariant.          *)
LEMMA TableStepInv ==
    ASSUME IndInv, Finding, ntu' \in Nat,
           UNCHANGED <<win, cp, pages, valid, ws, block, phase, first>>,
           Fit(words', valid, cp.layout, win)
    PROVE  IndInv'
<1>1. /\ phase' = phase /\ win' = win /\ cp' = cp /\ pages' = pages
      /\ valid' = valid /\ ws' = ws /\ block' = block /\ first' = first
  OBVIOUS
<1>2. TypeOK'
  <2>1. words' \in [0..NWords-1 -> Word]
    BY DEF Fit
  <2> QED
    BY <2>1, <1>1 DEF IndInv, TypeOK
<1>3. IndexBound' /\ Shape(win')
  BY <1>1 DEF IndInv, IndexBound, WindowEnd, Index
<1>4. Fit(words', valid', cp'.layout, win')
  BY <1>1
<1> QED
  BY <1>2, <1>3, <1>4, InvOfFit DEF IndInv

(* Replacing one word of the index tables by one that belongs to the       *)
(* window, or lies below it, keeps them fitting.                           *)
LEMMA FitReplace ==
    ASSUME NEW W, NEW V, NEW c \in CParams, NEW w, Fit(W, V, c.layout, w), Shape(w),
           NEW cell \in Cells(c.layout), NEW u \in Word, u.idx < WindowEnd(w),
           u.idx >= w.low => u.at = Pos(w, u.idx)
    PROVE  Fit([W EXCEPT ![cell] = u], V, c.layout, w)
<1> DEFINE X == [W EXCEPT ![cell] = u]
<1>1. W \in [0..NWords-1 -> Word] /\ cell \in 0..NWords-1 /\ V \in 0..NWords /\ NWords \in Nat
  BY LayoutFacts DEF Fit
<1>2. X \in [0..NWords-1 -> Word]
  BY <1>1
<1>3. \A i \in 0..NWords-1 : X[i] = IF i = cell THEN u ELSE W[i]
  BY <1>1
<1> HIDE DEF X
<1>4. \A i \in 0..(V - 1) : i \in 0..NWords-1
  BY <1>1
<1>5. \A i \in 0..(c.layout.indexEnd - 1) : i \in 0..NWords-1
  BY LayoutFacts
<1>6. \A i \in Cells(c.layout) : i \in 0..NWords-1
  BY LayoutFacts
<1> QED
  BY <1>2, <1>3, <1>4, <1>5, <1>6 DEF Fit, X

(* A finder's insertion keeps the invariant.                               *)
LEMMA InsertInv ==
    ASSUME IndInv, NEW cell \in 0..NWords-1, NEW i \in win.low..(WindowEnd(win)-1),
           Insert(cell, i)
    PROVE  IndInv'
<1>1. Shape(win) /\ cp \in CParams /\ cell \in Cells(cp.layout) /\ Finding /\ phase # "new"
      /\ ntu \in Nat
  BY DEF IndInv, TypeOK, Insert, Finding
<1>2. i \in Nat /\ i < WindowEnd(win) /\ i + win.base \in Nat
  BY <1>1, ShapeFacts
<1>3. /\ Entry(win, i) \in Word /\ Entry(win, i).idx = i
      /\ Entry(win, i).at = Pos(win, Entry(win, i).idx)
  BY <1>2 DEF Entry, Word, Pos
<1>4. Fit([words EXCEPT ![cell] = Entry(win, i)], valid, cp.layout, win)
  BY <1>1, <1>2, <1>3, FitOfInv, FitReplace
<1>5. ntu' \in Nat
  BY <1>1, <1>2 DEF Insert, Larger
<1> QED
  BY <1>1, <1>4, <1>5, TableStepInv DEF Insert

(* An unsorted mark lies below every window.                               *)
LEMMA InsertMarkInv ==
    ASSUME IndInv, NEW cell \in 0..NWords-1, InsertMark(cell)
    PROVE  IndInv'
<1>1. Shape(win) /\ cp \in CParams /\ cell \in Cells(cp.layout) /\ Finding /\ phase # "new"
      /\ ntu \in Nat
  BY DEF IndInv, TypeOK, InsertMark, Finding
<1>2. UnsortedMark \in Word /\ UnsortedMark.idx = 1
  BY DEF UnsortedMark, Word, Gone
<1>3. 1 < WindowEnd(win) /\ ~(1 >= win.low)
  BY <1>1, ShapeFacts
<1>4. Fit([words EXCEPT ![cell] = UnsortedMark], valid, cp.layout, win)
  BY <1>1, <1>2, <1>3, FitOfInv, FitReplace
<1>5. ntu' \in Nat
  BY <1>1 DEF InsertMark
<1> QED
  BY <1>1, <1>4, <1>5, TableStepInv DEF InsertMark

(* Tags lie above every word the workspace vouches for.                    *)
LEMMA StoreTagsInv ==
    ASSUME IndInv, StoreTags
    PROVE  IndInv'
<1> DEFINE lay == cp.layout
<1>1. cp \in CParams /\ Finding /\ phase # "new" /\ ntu \in Nat /\ lay.tags # {}
  BY DEF IndInv, TypeOK, StoreTags, Finding
<1>2. Fit(words, valid, lay, win)
  BY <1>1, FitOfInv
<1>3. /\ valid = lay.indexEnd /\ lay.indexEnd \in 0..NWords /\ NWords \in Nat
      /\ \A i \in lay.tags : i >= lay.indexEnd
      /\ Cells(lay) \subseteq 0..(lay.indexEnd - 1)
  BY <1>1, <1>2, LayoutFacts DEF Fit
<1>4. TagWord \in Word
  <2>1. U32 - 1 \in Nat
    BY IndexConstants
  <2> QED
    BY <2>1 DEF TagWord, Word, Gone
<1>5. words' = [i \in 0..NWords-1 |-> IF i \in lay.tags THEN TagWord ELSE words[i]]
  BY DEF StoreTags
<1>6. words' \in [0..NWords-1 -> Word]
  BY <1>2, <1>4, <1>5 DEF Fit
<1>7. \A i \in 0..(lay.indexEnd - 1) : words'[i] = words[i]
  BY <1>3, <1>5
<1>8. Fit(words', valid, lay, win)
  BY <1>2, <1>3, <1>6, <1>7 DEF Fit
<1>9. ntu' \in Nat
  BY <1>1 DEF StoreTags
<1> QED
  BY <1>1, <1>8, <1>9, TableStepInv DEF StoreTags

(* skip_window puts the first pass below the window.                       *)
LEMMA SkipWindowInv ==
    ASSUME IndInv, SkipWindow
    PROVE  IndInv'
<1> DEFINE len == block.end - block.start
<1>1. /\ TypeOK /\ Shape(win) /\ cp \in CParams /\ phase = "find"
      /\ WindowEnd(win) <= CurrentMax /\ block.end = win.nextSrc
      /\ len \in 0..MaxLen /\ block.start \in Nat
  BY DEF IndInv, TypeOK, IndexBound, SkipWindow
<1>2. /\ Index(win, block.start) = win.low /\ win.low = win.dictLimit
      /\ win' = Skip(win, len) /\ ntu' = win'.low /\ phase' = "refind"
      /\ cp' = cp /\ words' = words /\ pages' = pages /\ valid' = valid
      /\ ws' = ws /\ block' = block /\ first' = first
  BY DEF SkipWindow
<1>3. len \in Nat /\ len <= MaxLen /\ WindowEnd(win) = win.low + len
  BY <1>1, <1>2, ShapeFacts, IndexConstants DEF Index
<1> HIDE DEF len
<1>4. Shape(win') /\ WindowEnd(win') = WindowEnd(win) + len /\ win'.low = win.low + len
  BY <1>1, <1>2, <1>3, ShapeSkip
<1>5. win'.low >= WindowEnd(win) /\ WindowEnd(win') <= CurrentMax + MaxContent + MaxLen
  BY <1>1, <1>3, <1>4, ShapeFacts, IndexConstants
<1>6. Fit(words', valid', cp'.layout, win')
  BY <1>1, <1>2, <1>4, <1>5, FitOfInv, FitBelow
<1>7. TypeOK'
  <2>1. win' \in Window /\ ntu' \in Nat
    BY <1>2, <1>4, ShapeFacts
  <2> QED
    BY <2>1, <1>1, <1>2 DEF TypeOK, Phases
<1>8. IndexBound'
  BY <1>2, <1>5 DEF IndexBound
<1> QED
  BY <1>4, <1>6, <1>7, <1>8, InvOfFit DEF IndInv

(* Moving the streaming buffer down moves positions and window together.   *)
LEMMA MoveBufferInv ==
    ASSUME IndInv, MoveBuffer
    PROVE  IndInv'
<1> DEFINE shift == win.nextSrc - cp.window
           lay == cp.layout
<1>1. /\ TypeOK /\ Shape(win) /\ cp \in CParams /\ phase # "new" /\ first \in Nat
      /\ WindowEnd(win) <= CurrentMax + MaxContent + MaxLen
  BY DEF IndInv, TypeOK, IndexBound, MoveBuffer
<1>2. /\ shift > 0 /\ win' = Rebase(win, shift)
      /\ words' = [i \in 0..NWords-1 |-> Shifted(words[i], shift)]
      /\ block' = [start |-> win'.nextSrc, end |-> win'.nextSrc]
      /\ phase' = "ready" /\ first' = Monus(first, shift)
      /\ ntu' = ntu /\ cp' = cp /\ pages' = pages /\ valid' = valid /\ ws' = ws
  BY DEF MoveBuffer
<1>3. shift \in Nat /\ shift <= win.nextSrc
  BY <1>1, <1>2, ShapeFacts, CParamsFacts
<1> HIDE DEF shift
<1>4. /\ Shape(win') /\ WindowEnd(win') = WindowEnd(win) /\ win'.low >= win.low
      /\ win'.base = win.base - shift /\ win'.low + win.base >= shift
  BY <1>1, <1>2, <1>3, ShapeRebase
<1>5. Fit(words, valid, lay, win)
  BY <1>1, FitOfInv
<1>6. ASSUME NEW u \in Word
      PROVE  /\ Shifted(u, shift) \in Word /\ Shifted(u, shift).idx = u.idx
             /\ u.at >= shift => Shifted(u, shift).at = u.at - shift
  <2>1. u.at \in Int /\ (u.at >= shift => u.at - shift \in Nat)
    BY <1>3 DEF Word, Gone
  <2> QED
    BY <2>1 DEF Shifted, Word
<1>7. ASSUME NEW i \in 0..NWords-1
      PROVE  /\ words[i] \in Word /\ words'[i] \in Word /\ words'[i].idx = words[i].idx
             /\ words[i].at >= shift => words'[i].at = words[i].at - shift
  BY <1>1, <1>2, <1>6 DEF TypeOK
<1>8. words' \in [0..NWords-1 -> Word]
  BY <1>2, <1>7
<1>9. /\ \A i \in 0..(valid - 1) : i \in 0..NWords-1
      /\ \A i \in 0..(lay.indexEnd - 1) : i \in 0..NWords-1
      /\ \A i \in Cells(lay) : i \in 0..NWords-1
  BY <1>1, LayoutFacts DEF TypeOK
<1>10. ASSUME NEW i \in Cells(lay), words'[i].idx >= win'.low
       PROVE  words'[i].at = Pos(win', words'[i].idx)
  <2>1. words'[i].idx = words[i].idx /\ words[i].idx \in Nat
    BY <1>7, <1>9 DEF Word
  <2>2. words[i].idx >= win.low
    BY <2>1, <1>1, <1>4, <1>10, ShapeFacts
  <2>3. words[i].at = words[i].idx + win.base
    BY <2>2, <1>5 DEF Fit, Pos
  <2>4. words[i].at >= shift
    BY <2>1, <2>3, <1>1, <1>3, <1>4, <1>10, ShapeFacts
  <2>5. words'[i].at = words[i].at - shift
    BY <2>4, <1>7, <1>9
  <2> QED
    BY <2>1, <2>3, <2>5, <1>1, <1>3, <1>4, ShapeFacts DEF Pos
<1>11. Fit(words', valid', cp'.layout, win')
  BY <1>2, <1>4, <1>5, <1>7, <1>8, <1>9, <1>10 DEF Fit
<1>12. TypeOK'
  <2>1. win' \in Window /\ first' \in Nat /\ block' \in [start: Nat, end: Nat]
    BY <1>1, <1>2, <1>3, <1>4, ShapeFacts DEF Monus
  <2> QED
    BY <2>1, <1>1, <1>2, <1>8 DEF TypeOK, Phases
<1>13. IndexBound'
  BY <1>1, <1>2, <1>4 DEF IndexBound
<1> QED
  BY <1>4, <1>11, <1>12, <1>13, InvOfFit DEF IndInv

-----------------------------------------------------------------------------
(* The theorems *)

(* Every step keeps the invariant.                                         *)
LEMMA NextInv ==
    ASSUME CorrectionRoom, IndInv, [Next]_vars
    PROVE  IndInv'
<1>1. ASSUME NEW c \in CParams, NEW o \in Origins, NEW f \in BOOLEAN, Reset(c, o, f)
      PROVE  IndInv'
  BY <1>1, ResetInv
<1>2. ASSUME NEW len \in 0..MaxContent, EnterPrefix(len)
      PROVE  IndInv'
  BY <1>2, EnterContentInv DEF EnterPrefix
<1>3. ASSUME NEW len \in 0..MaxContent, EnterDict(len)
      PROVE  IndInv'
  BY <1>3, EnterContentInv DEF EnterDict
<1>4. ASSUME NEW len \in 0..MaxContent, CopyDict(len)
      PROVE  IndInv'
  BY <1>4, CopyDictInv
<1>5. ASSUME NEW len \in 0..MaxContent, Attach(len)
      PROVE  IndInv'
  BY <1>5, AttachInv
<1>6. ASSUME NEW len \in 0..MaxLen, EnterBlock(len)
      PROVE  IndInv'
  BY <1>6, EnterBlockInv
<1>7. CASE StartBlock
  BY <1>7, StartBlockInv
<1>8. ASSUME NEW cell \in 0..NWords-1, InsertMark(cell)
      PROVE  IndInv'
  BY <1>8, InsertMarkInv
<1>9. ASSUME NEW cell \in 0..NWords-1, NEW i \in win.low..(WindowEnd(win)-1), Insert(cell, i)
      PROVE  IndInv'
  BY <1>9, InsertInv
<1>10. CASE StoreTags
  BY <1>10, StoreTagsInv
<1>11. CASE SkipWindow
  BY <1>11, SkipWindowInv
<1>12. CASE MoveBuffer
  BY <1>12, MoveBufferInv
<1>13. CASE UNCHANGED vars
  BY <1>13 DEF vars, IndInv, TypeOK, Shape, IndexBound, TablesVouched, VouchedBelowEnd,
               NoStaleHit, WindowEnd, Index, Pos
<1> QED
  BY <1>1, <1>2, <1>3, <1>4, <1>5, <1>6, <1>7, <1>8, <1>9, <1>10, <1>11, <1>12, <1>13
  DEF Next

(* The inductive invariant holds of every reachable state.                 *)
LEMMA InvHolds ==
    ASSUME CorrectionRoom
    PROVE  Spec => []IndInv
<1>1. Init => IndInv
  BY InitInv
<1>2. IndInv /\ [Next]_vars => IndInv'
  BY NextInv
<1> QED
  BY <1>1, <1>2, PTL DEF Spec

(* Type correctness of a MatchState over any number of inputs, blocks,     *)
(* corrections and buffer moves: in particular no subtraction the code     *)
(* does on the bounds of a window, its positions or next_to_update goes    *)
(* below zero.                                                             *)
THEOREM TypeCorrect ==
    ASSUME CorrectionRoom
    PROVE  Spec => []TypeOK
<1>1. IndInv => TypeOK
  BY DEF IndInv
<1> QED
  BY <1>1, InvHolds, PTL

(* However long an input is, its indices stay in u32 as long as a          *)
(* correction has room: the assertions of start_block and skip_window      *)
(* never fire.                                                             *)
THEOREM IndicesFit ==
    ASSUME CorrectionRoom
    PROVE  Spec => []IndexFits
<1>1. IndInv => IndexFits
  BY RoomFacts, ShapeFacts, IndexConstants DEF IndInv, IndexBound, IndexFits
<1> QED
  BY <1>1, InvHolds, PTL

(* The words a Workspace vouches for never reach the window's end, so the  *)
(* tables of the next input may be laid over them without zeroing.         *)
THEOREM VouchedWords ==
    ASSUME CorrectionRoom
    PROVE  Spec => []VouchedBelowEnd
<1>1. IndInv => VouchedBelowEnd
  BY DEF IndInv
<1> QED
  BY <1>1, InvHolds, PTL

(* No entry an earlier input, a correction, a moved buffer or a forgotten  *)
(* pass left in a table is ever taken for a match candidate.               *)
THEOREM StaleFree ==
    ASSUME CorrectionRoom
    PROVE  Spec => []NoStaleHit
<1>1. IndInv => NoStaleHit
  BY DEF IndInv
<1> QED
  BY <1>1, InvHolds, PTL

-----------------------------------------------------------------------------
(***************************************************************************)
(* What a match state's window reaches: it loses no byte a block may       *)
(* reference, insertion resumes inside it, a dictionary is referenced only *)
(* as far as the format allows, and a correction leaves the tables' chains *)
(* and marks as they were.  The inductive invariant ReachInv stands on     *)
(* IndInv.                                                                 *)
(***************************************************************************)

(* The lowest index names the first byte of the input or a byte a window   *)
(* before what was entered last, never one that was dropped.               *)
LowReach ==
    phase # "new" =>
        /\ first <= Pos(win, win.low)
        /\ Pos(win, win.low) <= Larger(first, win.nextSrc - cp.window)
        /\ phase = "reset" => win.low = WindowEnd(win) /\ win.nextSrc = first
        /\ phase \in {"entered", "find", "refind"} =>
              Pos(win, win.low) <= Larger(first, block.start - cp.window)

(* next_to_update lies in the window; after a buffer move or attached      *)
(* content it may lie below it until the next block is entered.            *)
UpdateReach ==
    phase # "new" => ntu <= WindowEnd(win) /\ (phase # "ready" => ntu >= win.low)

(* A dictionary that is referenced ends where the window's prefix begins,  *)
(* unless a moved buffer is about to drop it.                              *)
DictReach ==
    win.loadedDictEnd # 0 =>
        /\ phase \notin {"new", "reset", "refind"}
        /\ \/ win.loadedDictEnd = win.dictLimit
           \/ phase = "ready" /\ WindowEnd(win) > win.loadedDictEnd + cp.window
        /\ phase \in {"entered", "find", "refind"} =>
              WindowEnd(win) <= win.loadedDictEnd + cp.window

ReachInv == LowReach /\ UpdateReach /\ DictReach

-----------------------------------------------------------------------------
(* Arithmetic of a correction *)

(* Division with remainder.                                                *)
LEMMA DivMod ==
    ASSUME NEW a \in Int, NEW n \in Nat \ {0}
    PROVE  a = n * (a \div n) + (a % n) /\ a \div n \in Int /\ a % n \in 0..(n - 1)
BY SMT

(* A multiple of the cycle leaves no remainder.                            *)
LEMMA MultMod ==
    ASSUME NEW q \in Int, NEW n \in Nat \ {0}
    PROVE  (n * q) % n = 0
<1> DEFINE x == n * q
           d == x \div n
           r == x % n
<1>1. x \in Int
  OBVIOUS
<1>2. x = n * d + r /\ d \in Int /\ r \in 0..(n - 1)
  BY <1>1, DivMod
<1> HIDE DEF d, r
<1>3. r = n * (q - d)
  BY <1>2
<1>4. q - d <= 0
  <2> SUFFICES ASSUME q - d >= 1 PROVE FALSE
    BY <1>2
  <2>1. n * (q - d) >= n
    BY <1>2
  <2> QED
    BY <2>1, <1>2, <1>3
<1>5. q - d >= 0
  <2> SUFFICES ASSUME q - d <= -1 PROVE FALSE
    BY <1>2
  <2>1. n * (q - d) <= -n
    BY <1>2
  <2> QED
    BY <2>1, <1>2, <1>3
<1> QED
  BY <1>2, <1>3, <1>4, <1>5 DEF r

(* A number without its remainder is a multiple.                           *)
LEMMA WholeCycles ==
    ASSUME NEW i \in Int, NEW n \in Nat \ {0}
    PROVE  (i - (i % n)) % n = 0
<1>1. i - (i % n) = n * (i \div n) /\ i \div n \in Int
  BY DivMod
<1> QED
  BY <1>1, MultMod

(* The difference of multiples is one.                                     *)
LEMMA CyclesSubtract ==
    ASSUME NEW a \in Int, NEW b \in Int, NEW n \in Nat \ {0}, a % n = 0, b % n = 0
    PROVE  (a - b) % n = 0
<1>1. a = n * (a \div n) /\ a \div n \in Int /\ b = n * (b \div n) /\ b \div n \in Int
  BY DivMod
<1>2. a - b = n * ((a \div n) - (b \div n))
  BY <1>1
<1> QED
  BY <1>1, <1>2, MultMod

(* correct_overflow moves indices by whole cycles: new_current has the     *)
(* low bits of the index it replaces.                                      *)
LEMMA CorrectionWholeCycles ==
    ASSUME NEW w, Shape(w), NEW c \in CParams, NEW p \in Nat, Index(w, p) \in 0..(U32 - 1)
    PROVE  (Index(w, p) - NewCurrent(w, c.cycle, c.window, p)) % c.cycle = 0
<1> DEFINE n == c.cycle
           i == Index(w, p)
           k == i % n
           L == Larger(c.window, n)
           e == IF k < 2 THEN Larger(n, 2) ELSE 0
<1>1. n \in Nat \ {0} /\ L \in Nat /\ i \in Int /\ k \in Int
  <2>1. n \in Nat \ {0} /\ L \in Nat
    BY CParamsFacts
  <2>2. i \in Int
    BY ShapeFacts DEF Index
  <2> HIDE DEF n, i
  <2> QED
    BY <2>1, <2>2, DivMod
<1>2. NewCurrent(w, n, c.window, p) = k + e + L
  <2>1. i % U32 = i
    BY ModSmall, IndexConstants
  <2> QED
    BY <2>1 DEF NewCurrent, WindowStart
<1>3. L % n = 0
  BY MatchStateConstants
<1>4. 0 % n = 0 /\ n % n = 0
  <2>1. (n * 0) % n = 0 /\ (n * 1) % n = 0
    BY <1>1, MultMod
  <2> HIDE DEF n
  <2> QED
    BY <2>1, <1>1
<1>5. e \in Int /\ e % n = 0
  <2>1. CASE k < 2 /\ n >= 2
    BY <2>1, <1>1, <1>4 DEF Larger
  <2>2. CASE k < 2 /\ ~(n >= 2)
    <3>1. n = 1 /\ e = 2
      BY <2>2, <1>1 DEF Larger
    <3>2. (1 * 2) % 1 = 0
      BY MultMod
    <3> QED
      BY <3>1, <3>2
  <2>3. CASE ~(k < 2)
    BY <2>3, <1>4
  <2> QED
    BY <2>1, <2>2, <2>3
<1>6. (i - k) % n = 0
  BY <1>1, WholeCycles
<1> HIDE DEF n, i, k, L, e
<1> DEFINE x == i - k
           y == x - e
<1>7. x \in Int /\ x % n = 0
  BY <1>1, <1>6
<1> HIDE DEF x
<1>8. y \in Int /\ y % n = 0
  <2>1. (x - e) % n = 0
    BY <1>1, <1>5, <1>7, CyclesSubtract
  <2> QED
    BY <2>1, <1>5, <1>7
<1> HIDE DEF y
<1>9. (y - L) % n = 0
  BY <1>1, <1>3, <1>8, CyclesSubtract
<1>10. i - (k + e + L) = y - L
  BY <1>1, <1>5 DEF x, y
<1> QED
  BY <1>2, <1>9, <1>10 DEF n, i

(* The limits of a dictionary that an operation on a window leaves.        *)
LEMMA DictLimits ==
    ASSUME NEW w, Shape(w), NEW n \in Nat
    PROVE  /\ ExtendTo(w, n).loadedDictEnd = w.loadedDictEnd
           /\ ExtendTo(w, n).dictLimit = w.dictLimit
           /\ LoadDict(w).loadedDictEnd = WindowEnd(w) /\ LoadDict(w).dictLimit = WindowEnd(w)
           /\ LoadDict(w).low = IF WindowEnd(w) - w.low < HashReadSize
                                THEN WindowEnd(w) ELSE w.low
           /\ CorrectOverflow(w, n).loadedDictEnd = 0
           /\ Rebase(w, n).loadedDictEnd = w.loadedDictEnd
           /\ Rebase(w, n).low = Larger(w.low, Index(w, n))
           /\ Skip(w, n).loadedDictEnd = w.loadedDictEnd
           /\ AttachDict(w, n).loadedDictEnd = AttachDict(w, n).dictLimit
           /\ AttachDict(w, n).base = w.nextSrc - AttachDict(w, n).low
           /\ ContinueAt(w, n).loadedDictEnd = 0
<1>1. w \in Window
  BY ShapeFacts
<1> QED
  BY <1>1 DEF ExtendTo, LoadDict, CorrectOverflow, Rebase, Skip, AttachDict, ContinueAt, Window

(* correct_overflow_if_needed costs the range it is called for no byte of  *)
(* its window, moves indices by whole cycles and next_to_update with them. *)
LEMMA CorrectedReach ==
    ASSUME CorrectionRoom, cp \in CParams, NEW w, Shape(w),
           NEW start \in Nat, NEW end \in Nat, start <= end, w.nextSrc = end,
           end - start <= Larger(MaxLen, cp.dictMax),
           Index(w, start) \in 0..(U32 - 1)
    PROVE  LET v == Corrected(w, start, end)
           IN  /\ Shape(v) /\ v.nextSrc = end
               /\ Pos(w, w.low) <= Pos(v, v.low)
               /\ Pos(v, v.low) <= Larger(Pos(w, w.low), start - cp.window)
               /\ v = w \/ v.loadedDictEnd = 0
               /\ (v.base - w.base) % cp.cycle = 0
               /\ ntu \in Nat /\ ntu <= WindowEnd(w) =>
                     NtuCorrected(w, start, end) \in Nat /\ NtuCorrected(w, start, end) <= WindowEnd(v)
<1> DEFINE corr == CorrectionAt(w, start)
           v == Corrected(w, start, end)
           new == NewCurrent(w, cp.cycle, cp.window, start)
<1>1. CASE NeedsCorrection(w, start, end)
  <2>1. /\ corr \in Nat /\ Index(w, start) - corr >= 2
        /\ corr = Index(w, start) - new
    BY <1>1, CorrectionExact DEF NeedsCorrection, CorrectionAt
  <2>2. new \in Nat /\ Larger(cp.window, cp.cycle) + 2 <= new
    BY NewCurrentBounds
  <2>3. corr % cp.cycle = 0
    BY <2>1, CorrectionWholeCycles
  <2>4. v = CorrectOverflow(w, corr) /\ NtuCorrected(w, start, end) = Monus(ntu, corr)
    BY <1>1 DEF Corrected, NtuCorrected
  <2> HIDE DEF corr, v, new
  <2>5. WindowEnd(w) - corr >= 2
    BY <2>1, ShapeFacts DEF Index
  <2>6. /\ Shape(v) /\ v.nextSrc = w.nextSrc /\ v.base = w.base + corr
        /\ v.low = Reduced(w.low, corr) /\ WindowEnd(v) = WindowEnd(w) - corr
        /\ v.loadedDictEnd = 0
    BY <2>1, <2>4, <2>5, ShapeCorrect, DictLimits
  <2>7. cp.window \in Nat /\ Larger(cp.window, cp.cycle) >= cp.window
    BY CParamsFacts DEF Larger
  <2>8. Pos(w, w.low) <= Pos(v, v.low)
    BY <2>1, <2>6, ShapeFacts DEF Pos, Reduced, WindowStart
  <2>9. Pos(v, v.low) <= Larger(Pos(w, w.low), start - cp.window)
    <3>1. start - w.base - corr = new
      BY <2>1, <2>2, ShapeFacts DEF Index
    <3>2. CASE w.low < corr + 2
      <4>1. v.low + v.base = 2 + w.base + corr
        BY <3>2, <2>1, <2>6, ShapeFacts DEF Reduced, WindowStart
      <4>2. 2 + w.base + corr <= start - cp.window
        <5>1. cp.window + 2 <= new
          BY <2>2, <2>7, CParamsFacts
        <5> QED
          BY <5>1, <3>1, <2>1, <2>2, <2>7, ShapeFacts
      <4> QED
        BY <4>1, <4>2, <2>1, <2>7, ShapeFacts DEF Pos, Larger
    <3>3. CASE ~(w.low < corr + 2)
      <4>1. v.low + v.base = w.low + w.base
        BY <3>3, <2>1, <2>6, ShapeFacts DEF Reduced, WindowStart
      <4> QED
        BY <4>1, <2>7, ShapeFacts DEF Pos, Larger
    <3> QED
      BY <3>2, <3>3
  <2>10. (v.base - w.base) % cp.cycle = 0
    <3>1. v.base - w.base = corr
      BY <2>1, <2>6, ShapeFacts
    <3> QED
      BY <3>1, <2>3
  <2>11. ntu \in Nat /\ ntu <= WindowEnd(w) =>
            Monus(ntu, corr) \in Nat /\ Monus(ntu, corr) <= WindowEnd(v)
    BY <2>1, <2>5, <2>6, ShapeFacts DEF Monus
  <2> QED
    BY <2>4, <2>6, <2>8, <2>9, <2>10, <2>11 DEF v
<1>2. CASE ~NeedsCorrection(w, start, end)
  <2>1. v = w /\ NtuCorrected(w, start, end) = ntu
    BY <1>2 DEF Corrected, NtuCorrected
  <2>2. w.base - w.base = 0 /\ 0 % cp.cycle = 0
    <3>1. cp.cycle \in Nat \ {0} /\ cp.cycle * 0 = 0
      BY CParamsFacts
    <3>2. (cp.cycle * 0) % cp.cycle = 0
      BY <3>1, MultMod
    <3> QED
      BY <3>1, <3>2, ShapeFacts
  <2>3. Pos(w, w.low) <= Larger(Pos(w, w.low), start - cp.window)
    BY ShapeFacts, CParamsFacts DEF Pos, Larger
  <2>4. Pos(w, w.low) \in Int
    BY ShapeFacts DEF Pos
  <2> HIDE DEF v
  <2> QED
    BY <2>1, <2>2, <2>3, <2>4 DEF v
<1> QED
  BY <1>1, <1>2

-----------------------------------------------------------------------------
(* One lemma per action *)

(* A reset leaves an empty window at the input's first byte.               *)
LEMMA ResetReach ==
    ASSUME IndInv, NEW c \in CParams, NEW o \in Origins, NEW f \in BOOLEAN, Reset(c, o, f)
    PROVE  ReachInv'
<1> DEFINE r == Resized(c.need) \/ TooCloseToMax(win)
           w == IF r THEN WindowNew(o, f) ELSE ContinueAt(win, o)
<1>1. o \in Nat /\ Shape(win) /\ c.window \in Nat
  BY MatchStateConstants, CParamsFacts DEF IndInv
<1>2. /\ Shape(w) /\ w.nextSrc = o /\ WindowEnd(w) = w.low /\ w.loadedDictEnd = 0
  <2>1. CASE r
    <3>1. WindowNew(o, f).loadedDictEnd = 0
      BY DEF WindowNew
    <3> QED
      BY <2>1, <3>1, <1>1, ShapeNew
  <2>2. CASE ~r
    <3>1. w = ContinueAt(win, o)
      BY <2>2
    <3> HIDE DEF w, r
    <3>2. ContinueAt(win, o).loadedDictEnd = 0
      BY <1>1, DictLimits
    <3> QED
      BY <3>1, <3>2, <1>1, ShapeContinue
  <2> QED
    BY <2>1, <2>2
<1>3. win' = [w EXCEPT !.frequently = f] /\ ntu' = w.low /\ cp' = c /\ phase' = "reset" /\ first' = o
  BY DEF Reset
<1> HIDE DEF w, r
<1>4. /\ Shape(win') /\ WindowEnd(win') = WindowEnd(w) /\ win'.low = w.low
      /\ win'.base = w.base /\ win'.nextSrc = o /\ win'.loadedDictEnd = 0
  <2>1. w \in Window
    BY <1>2, ShapeFacts
  <2>2. win'.loadedDictEnd = w.loadedDictEnd
    BY <2>1, <1>3 DEF Window
  <2> QED
    BY <2>2, <1>2, <1>3, ShapeFrequently
<1>5. Pos(win', win'.low) = o
  BY <1>1, <1>2, <1>4, ShapeFacts DEF Pos
<1> QED
  BY <1>1, <1>2, <1>3, <1>4, <1>5, ShapeFacts
  DEF ReachInv, LowReach, UpdateReach, DictReach, Larger

(* Loaded content is reached from its first byte, or, when a dictionary is *)
(* too short to be indexed, not at all.                                    *)
LEMMA EnterContentReach ==
    ASSUME CorrectionRoom, IndInv, ReachInv, NEW len \in 0..MaxContent, NEW dict \in BOOLEAN,
           EnterContent(len, dict)
    PROVE  ReachInv' /\ (win'.base - win.base) % cp.cycle = 0
<1> DEFINE start == win.nextSrc
           end == start + len
           from == IndexedFrom(start, end)
           long == end - from > HashReadSize
           x == ExtendTo(win, end)
           w == IF dict THEN LoadDict(x) ELSE x
           short == dict /\ len < HashReadSize
<1>1. /\ TypeOK /\ Shape(win) /\ cp \in CParams /\ start \in Nat /\ len \in Nat /\ len <= MaxContent
      /\ end \in Nat /\ end >= start /\ phase = "reset" /\ first \in Nat
      /\ WindowEnd(win) <= CurrentMax
  BY ShapeFacts, IndexConstants DEF IndInv, TypeOK, IndexBound, EnterContent
<1>2. /\ win.low = WindowEnd(win) /\ win.nextSrc = first /\ win.loadedDictEnd = 0
  BY <1>1 DEF ReachInv, LowReach, DictReach
<1>3. /\ Shape(x) /\ x.base = win.base /\ x.low = win.low /\ x.nextSrc = end
      /\ WindowEnd(x) = WindowEnd(win) + len /\ x.loadedDictEnd = 0
  <2>1. WindowEnd(win) + (end - start) = WindowEnd(win) + len
    BY <1>1, ShapeFacts
  <2> HIDE DEF end
  <2> QED
    BY <2>1, <1>1, <1>2, ShapeExtend, DictLimits
<1>4. from \in Nat /\ from >= start /\ from <= end /\ end - from <= cp.dictMax
  BY <1>1, CParamsFacts DEF IndexedFrom, Larger, Monus
<1>5. /\ win' = IF long THEN Corrected(w, from, end) ELSE w
      /\ ntu' = Index(win', from) /\ cp' = cp
      /\ phase' = IF long THEN "fill" ELSE "ready"
      /\ block' = [start |-> end, end |-> end]
      /\ first' = IF short THEN end ELSE first
  BY DEF EnterContent
<1> HIDE DEF x
<1>6. /\ Shape(w) /\ w.base = win.base /\ w.nextSrc = end /\ WindowEnd(w) = WindowEnd(win) + len
      /\ w.low = IF short THEN WindowEnd(w) ELSE win.low
      /\ w.loadedDictEnd # 0 => w.loadedDictEnd = w.dictLimit
  <2>1. CASE dict
    <3>1. WindowEnd(x) - x.low = len
      BY <1>1, <1>2, <1>3, ShapeFacts
    <3> QED
      BY <2>1, <3>1, <1>1, <1>3, ShapeLoadDict, DictLimits
  <2>2. CASE ~dict
    BY <2>2, <1>3
  <2> QED
    BY <2>1, <2>2
<1>7. long => ~short
  BY <1>1, <1>4, IndexConstants
<1>8. Pos(w, w.low) = IF short THEN end ELSE start
  BY <1>1, <1>2, <1>6, ShapeFacts DEF Pos
<1> HIDE DEF w, start, from, long
<1>9. Index(w, from) \in 0..(U32 - 1)
  <2>1. Index(w, from) = from - win.base /\ WindowEnd(win) = start - win.base /\ win.base \in Int
    BY <1>1, <1>6, ShapeFacts DEF Index, start
  <2>2. from - win.base >= 0 /\ from - win.base <= WindowEnd(win) + len /\ WindowEnd(win) \in Nat
    BY <2>1, <1>1, <1>4, ShapeFacts
  <2> QED
    BY <2>1, <2>2, <1>1, <1>4, RoomFacts, IndexConstants
<1> HIDE DEF end
<1>10. cp.window \in Nat /\ cp.cycle \in Nat \ {0}
  BY <1>1, CParamsFacts
<1>11. CASE long
  <2>1. win' = Corrected(w, from, end) /\ phase' = "fill" /\ first' = first /\ ~short
    BY <1>11, <1>5, <1>7
  <2>2. end - from <= Larger(MaxLen, cp.dictMax)
    BY <1>1, <1>4, CParamsFacts
  <2>3. /\ Shape(win') /\ win'.nextSrc = end
        /\ Pos(w, w.low) <= Pos(win', win'.low)
        /\ Pos(win', win'.low) <= Larger(Pos(w, w.low), from - cp.window)
        /\ win' = w \/ win'.loadedDictEnd = 0
        /\ (win'.base - w.base) % cp.cycle = 0
    BY <2>1, <2>2, <1>1, <1>4, <1>6, <1>9, CorrectedReach
  <2>4. Pos(w, w.low) = start /\ start = first
    BY <2>1, <1>2, <1>8 DEF start
  <2>5. Pos(win', win'.low) \in Int /\ Pos(win', win'.low) <= from
    BY <2>3, <2>4, <1>1, <1>4, <1>10, ShapeFacts DEF Larger, Pos
  <2>6. LowReach'
    <3>1. Pos(win', win'.low) <= Larger(first, end - cp.window)
      BY <2>3, <2>4, <2>5, <1>1, <1>4, <1>10 DEF Larger
    <3> QED
      BY <3>1, <2>1, <2>3, <2>4, <1>5 DEF LowReach
  <2>7. UpdateReach'
    <3>1. ntu' = from - win'.base /\ win'.base \in Int /\ WindowEnd(win') = end - win'.base
      BY <2>3, <1>5, ShapeFacts DEF Index
    <3>2. win'.low + win'.base <= from
      BY <2>5 DEF Pos
    <3> QED
      BY <3>1, <3>2, <2>3, <1>1, <1>4, ShapeFacts DEF UpdateReach
  <2>8. DictReach'
    BY <2>1, <2>3, <1>6 DEF DictReach
  <2> QED
    BY <2>3, <2>6, <2>7, <2>8, <1>6 DEF ReachInv
<1>12. CASE ~long
  <2>1. win' = w /\ phase' = "ready"
    BY <1>12, <1>5
  <2>2. LowReach'
    BY <2>1, <1>1, <1>2, <1>5, <1>6, <1>8, <1>10, ShapeFacts DEF LowReach, Larger, start
  <2>3. UpdateReach'
    BY <2>1, <1>1, <1>4, <1>5, <1>6, ShapeFacts DEF UpdateReach, Index
  <2>4. DictReach'
    BY <2>1, <1>6 DEF DictReach
  <2>5. (win'.base - win.base) % cp.cycle = 0
    <3>1. win'.base - win.base = 0 /\ cp.cycle * 0 = 0
      BY <2>1, <1>1, <1>6, <1>10, ShapeFacts
    <3>2. (cp.cycle * 0) % cp.cycle = 0
      BY <1>10, MultMod
    <3> QED
      BY <3>1, <3>2
  <2> QED
    BY <2>2, <2>3, <2>4, <2>5 DEF ReachInv
<1> QED
  BY <1>11, <1>12

(* check_dict_validity drops a dictionary once the block ends more than a  *)
(* window past it, and nothing else.                                       *)
LEMMA CheckDictReach ==
    ASSUME NEW w, Shape(w), NEW maxDist \in Nat
    PROVE  LET v == CheckDictValidity(w, w.nextSrc, maxDist)
           IN  /\ v.dictLimit = w.dictLimit
               /\ v.loadedDictEnd # 0 =>
                     v.loadedDictEnd = w.loadedDictEnd /\ WindowEnd(w) <= w.loadedDictEnd + maxDist
<1> DEFINE v == CheckDictValidity(w, w.nextSrc, maxDist)
<1>1. w \in Window /\ WindowEnd(w) \in Nat /\ w.loadedDictEnd \in Nat
  BY ShapeFacts
<1>2. CASE WindowEnd(w) > w.loadedDictEnd + maxDist
  <2>1. v = [w EXCEPT !.loadedDictEnd = 0]
    BY <1>2 DEF CheckDictValidity, WindowEnd
  <2> QED
    BY <2>1, <1>1 DEF Window
<1>3. CASE ~(WindowEnd(w) > w.loadedDictEnd + maxDist)
  <2>1. v = w
    BY <1>3 DEF CheckDictValidity, WindowEnd
  <2> QED
    BY <2>1, <1>1, <1>3
<1> QED
  BY <1>2, <1>3

(* enforce_max_dist raises low to a window before p at most, and keeps a   *)
(* dictionary only with the whole window.                                  *)
LEMMA EnforceReach ==
    ASSUME NEW w, Shape(w), NEW p \in Nat, p <= w.nextSrc, NEW maxDist \in Nat
    PROVE  LET v == EnforceMaxDist(w, p, maxDist)
           IN  /\ Pos(v, v.low) <= Larger(Pos(w, w.low), p - maxDist)
               /\ v.loadedDictEnd # 0 => v = w
               /\ v.loadedDictEnd \in {0, w.loadedDictEnd}
<1> DEFINE v == EnforceMaxDist(w, p, maxDist)
           low == Larger(w.low, Index(w, p) - maxDist)
           lim == Larger(w.dictLimit, low)
<1>1. /\ w \in Window /\ low \in Nat /\ lim \in Nat /\ w.base \in Int /\ w.low \in Nat
      /\ low + w.base <= Larger(w.low + w.base, p - maxDist)
      /\ w.low + w.base <= Larger(w.low + w.base, p - maxDist)
  BY ShapeFacts DEF Larger, Index
<1> HIDE DEF low, lim
<1>2. v = [w EXCEPT !.low = low, !.dictLimit = lim, !.loadedDictEnd = 0] \/ v = w
  BY DEF EnforceMaxDist, low, lim
<1> HIDE DEF v
<1>3. CASE v = w
  BY <1>1, <1>3 DEF Pos, v
<1>4. CASE v = [w EXCEPT !.low = low, !.dictLimit = lim, !.loadedDictEnd = 0]
  <2>1. v.base = w.base /\ v.low = low /\ v.loadedDictEnd = 0
    BY <1>1, <1>4 DEF Window
  <2> QED
    BY <2>1, <1>1 DEF Pos, v
<1> QED
  BY <1>2, <1>3, <1>4

(* A block entered keeps a whole window before it, and a dictionary only   *)
(* if the block ends within a window of it.                                *)
LEMMA EnterBlockReach ==
    ASSUME CorrectionRoom, IndInv, ReachInv, NEW len \in 0..MaxLen, EnterBlock(len)
    PROVE  ReachInv' /\ (win'.base - win.base) % cp.cycle = 0
<1> DEFINE start == win.nextSrc
           end == start + len
           w == ExtendTo(win, end)
           x == Corrected(w, start, end)
           y == CheckDictValidity(x, end, cp.window)
<1>1. /\ TypeOK /\ Shape(win) /\ cp \in CParams /\ start \in Nat /\ len \in Nat
      /\ end \in Nat /\ end >= start /\ phase # "new" /\ len <= MaxLen
      /\ WindowEnd(win) <= CurrentMax + MaxContent + MaxLen
      /\ ntu \in Nat /\ first \in Nat
  BY ShapeFacts, IndexConstants DEF IndInv, TypeOK, IndexBound, EnterBlock
<1>2. /\ Shape(w) /\ w.base = win.base /\ w.low = win.low /\ w.nextSrc = end
      /\ WindowEnd(w) = WindowEnd(win) + len
      /\ w.loadedDictEnd = win.loadedDictEnd /\ w.dictLimit = win.dictLimit
  BY <1>1, ShapeExtend, ShapeFacts, DictLimits
<1>3. /\ win' = EnforceMaxDist(y, start, cp.window)
      /\ ntu' = Larger(NtuCorrected(w, start, end), win'.low)
      /\ block' = [start |-> start, end |-> end]
      /\ phase' = "entered" /\ cp' = cp /\ first' = first
  BY DEF EnterBlock
<1>4. /\ first <= Pos(win, win.low) /\ Pos(win, win.low) <= Larger(first, start - cp.window)
      /\ ntu <= WindowEnd(win)
  BY <1>1 DEF ReachInv, LowReach, UpdateReach
<1> HIDE DEF w
<1>5. Index(w, start) \in 0..(U32 - 1)
  <2>1. Index(w, start) = WindowEnd(win)
    BY <1>2, ShapeFacts DEF Index, WindowEnd
  <2> QED
    BY <2>1, <1>1, ShapeFacts, RoomFacts, IndexConstants
<1>6. end - start <= Larger(MaxLen, cp.dictMax)
  <2>1. MaxLen <= Larger(MaxLen, cp.dictMax) /\ Larger(MaxLen, cp.dictMax) \in Nat
    BY <1>1, CParamsFacts
  <2> QED
    BY <2>1, <1>1, IndexConstants
<1> HIDE DEF start, end
<1>7. cp.window \in Nat /\ Pos(w, w.low) = Pos(win, win.low) /\ Pos(w, w.low) \in Int
      /\ ntu <= WindowEnd(w)
  <2>1. ntu <= WindowEnd(w)
    BY <1>1, <1>2, <1>4, ShapeFacts
  <2> QED
    BY <2>1, <1>1, <1>2, CParamsFacts, ShapeFacts DEF Pos
<1>8. /\ Shape(x) /\ x.nextSrc = end
      /\ Pos(w, w.low) <= Pos(x, x.low)
      /\ Pos(x, x.low) <= Larger(Pos(w, w.low), start - cp.window)
      /\ x = w \/ x.loadedDictEnd = 0
      /\ (x.base - w.base) % cp.cycle = 0
      /\ NtuCorrected(w, start, end) \in Nat /\ NtuCorrected(w, start, end) <= WindowEnd(x)
  BY <1>1, <1>2, <1>5, <1>6, <1>7, CorrectedReach
<1> HIDE DEF x
<1>9. /\ Shape(y) /\ WindowEnd(y) = WindowEnd(x) /\ y.base = x.base /\ y.low = x.low
      /\ y.nextSrc = end /\ y.dictLimit = x.dictLimit
      /\ y.loadedDictEnd # 0 =>
            y.loadedDictEnd = x.loadedDictEnd /\ WindowEnd(x) <= x.loadedDictEnd + cp.window
  <2>1. y = CheckDictValidity(x, x.nextSrc, cp.window)
    BY <1>8
  <2> HIDE DEF y
  <2> QED
    BY <2>1, <1>1, <1>7, <1>8, ShapeCheckDict, CheckDictReach, ZenonT(30)
<1> HIDE DEF y
<1>10. /\ Shape(win') /\ WindowEnd(win') = WindowEnd(y) /\ win'.base = y.base
       /\ win'.low >= y.low /\ win'.nextSrc = end
       /\ Pos(win', win'.low) <= Larger(Pos(y, y.low), start - cp.window)
       /\ win'.loadedDictEnd # 0 => win' = y
  <2>1. start <= y.nextSrc
    BY <1>1, <1>9
  <2> QED
    BY <2>1, <1>1, <1>3, <1>7, <1>9, ShapeEnforce, EnforceReach
<1>11. LowReach'
  <2>1. Pos(y, y.low) = Pos(x, x.low) /\ Pos(x, x.low) \in Int /\ Pos(win', win'.low) \in Int
        /\ Pos(win', win'.low) >= Pos(x, x.low)
    BY <1>8, <1>9, <1>10, ShapeFacts DEF Pos
  <2>2. Pos(win', win'.low) <= Larger(first, start - cp.window)
    BY <2>1, <1>1, <1>4, <1>7, <1>8, <1>10 DEF Larger
  <2>3. Larger(first, start - cp.window) <= Larger(first, end - cp.window)
        /\ Larger(first, start - cp.window) \in Int /\ Larger(first, end - cp.window) \in Int
    BY <1>1, <1>7 DEF Larger
  <2>4. Pos(win', win'.low) <= Larger(first, end - cp.window)
    BY <2>1, <2>2, <2>3
  <2>5. first <= Pos(win', win'.low)
    BY <2>1, <1>1, <1>4, <1>7, <1>8
  <2>6. block'.start = start
    BY <1>3
  <2> QED
    BY <2>2, <2>4, <2>5, <2>6, <1>3, <1>10 DEF LowReach
<1>12. UpdateReach'
  BY <1>3, <1>8, <1>9, <1>10, ShapeFacts DEF UpdateReach, Larger
<1>13. DictReach'
  <2> SUFFICES ASSUME win'.loadedDictEnd # 0 PROVE DictReach'
    BY DEF DictReach
  <2>1. win' = y /\ y.loadedDictEnd # 0
    BY <1>10
  <2>2. /\ y.loadedDictEnd = x.loadedDictEnd /\ x = w
        /\ WindowEnd(w) <= w.loadedDictEnd + cp.window
    BY <2>1, <1>8, <1>9
  <2>3. WindowEnd(win) <= win.loadedDictEnd + cp.window
    BY <2>2, <1>1, <1>2, <1>7, ShapeFacts
  <2>4. win.loadedDictEnd = win.dictLimit
    BY <2>1, <2>2, <2>3, <1>1, <1>2, <1>7, ShapeFacts DEF ReachInv, DictReach
  <2> QED
    BY <2>1, <2>2, <2>4, <1>2, <1>3, <1>9, <1>10 DEF DictReach
<1>14. (win'.base - win.base) % cp.cycle = 0
  BY <1>2, <1>8, <1>9, <1>10
<1> QED
  BY <1>11, <1>12, <1>13, <1>14 DEF ReachInv

(* start_block raises next_to_update to the block's start at most.         *)
LEMMA StartBlockReach ==
    ASSUME IndInv, ReachInv, StartBlock
    PROVE  ReachInv'
<1> DEFINE start == Index(win, block.start)
<1>1. /\ Shape(win) /\ ntu \in Nat /\ phase = "entered" /\ block.start \in Nat
      /\ block.end = win.nextSrc /\ block.end - block.start \in 0..MaxLen /\ block.end \in Nat
  BY DEF IndInv, TypeOK, IndexBound, StartBlock
<1>2. /\ phase' = "find" /\ win' = win /\ cp' = cp /\ block' = block /\ first' = first
  BY DEF StartBlock
<1>3. start \in Int /\ start <= WindowEnd(win) /\ UpdateLag \in Nat /\ UpdateKeep \in Nat
      /\ win.low <= ntu /\ ntu <= WindowEnd(win)
  BY <1>1, ShapeFacts, MatchStateConstants, IndexConstants DEF Index, ReachInv, UpdateReach
<1>4. win.low <= ntu' /\ ntu' <= WindowEnd(win)
  <2>1. LET lag == start - ntu - UpdateLag
        IN  ntu' = IF lag > 0 THEN start - (IF lag < UpdateKeep THEN lag ELSE UpdateKeep)
                   ELSE ntu
    BY DEF StartBlock
  <2> HIDE DEF start
  <2> QED
    BY <2>1, <1>1, <1>3, ShapeFacts
<1> QED
  BY <1>1, <1>2, <1>4 DEF ReachInv, LowReach, UpdateReach, DictReach, WindowEnd, Index, Pos

(* A finder's step moves next_to_update within the window.                 *)
LEMMA TableStepReach ==
    ASSUME IndInv, ReachInv, ntu' \in Nat, ntu' >= ntu, ntu' <= WindowEnd(win),
           UNCHANGED <<win, cp, block, phase, first>>
    PROVE  ReachInv'
<1>1. Shape(win) /\ ntu \in Nat
  BY DEF IndInv, TypeOK
<1>2. win' = win /\ cp' = cp /\ block' = block /\ phase' = phase /\ first' = first
  OBVIOUS
<1>3. UpdateReach'
  BY <1>1, <1>2, ShapeFacts DEF ReachInv, UpdateReach, WindowEnd, Index
<1> QED
  BY <1>2, <1>3 DEF ReachInv, LowReach, DictReach, WindowEnd, Index, Pos

(* skip_window moves the indices and leaves the positions.                 *)
LEMMA SkipWindowReach ==
    ASSUME IndInv, ReachInv, SkipWindow
    PROVE  ReachInv'
<1> DEFINE len == block.end - block.start
<1>1. /\ Shape(win) /\ phase = "find" /\ len \in Nat /\ win.loadedDictEnd = 0
      /\ win.low = win.dictLimit
  BY IndexConstants DEF IndInv, TypeOK, IndexBound, SkipWindow
<1>2. /\ win' = Skip(win, len) /\ ntu' = win'.low /\ phase' = "refind"
      /\ cp' = cp /\ block' = block /\ first' = first
  BY DEF SkipWindow
<1> HIDE DEF len
<1>3. /\ Shape(win') /\ WindowEnd(win') = WindowEnd(win) + len /\ win'.low = win.low + len
      /\ win'.nextSrc = win.nextSrc /\ win'.loadedDictEnd = 0
  BY <1>1, <1>2, ShapeSkip, DictLimits
<1>4. Pos(win', win'.low) = Pos(win, win.low)
  BY <1>1, <1>3, ShapeFacts DEF Pos
<1> QED
  BY <1>1, <1>2, <1>3, <1>4, ShapeFacts DEF ReachInv, LowReach, UpdateReach, DictReach

(* A moved buffer starts at the window it keeps, or at the input's first   *)
(* byte.                                                                   *)
LEMMA MoveBufferReach ==
    ASSUME IndInv, ReachInv, MoveBuffer
    PROVE  ReachInv'
<1> DEFINE shift == win.nextSrc - cp.window
<1>1. /\ Shape(win) /\ cp \in CParams /\ phase # "new" /\ phase # "reset" /\ first \in Nat
      /\ ntu \in Nat
  BY DEF IndInv, TypeOK, MoveBuffer
<1>2. /\ shift > 0 /\ win' = Rebase(win, shift) /\ phase' = "ready"
      /\ first' = Monus(first, shift) /\ ntu' = ntu /\ cp' = cp
      /\ WindowEnd(win) > cp.window + win.loadedDictEnd
  BY DEF MoveBuffer
<1>3. shift \in Nat /\ shift <= win.nextSrc /\ cp.window \in Nat /\ win.nextSrc - cp.window = shift
  BY <1>1, <1>2, ShapeFacts, CParamsFacts
<1> HIDE DEF shift
<1>4. /\ Shape(win') /\ WindowEnd(win') = WindowEnd(win) /\ win'.nextSrc = win.nextSrc - shift
      /\ win'.base = win.base - shift /\ win'.low = Larger(win.low, Index(win, shift))
      /\ win'.loadedDictEnd = win.loadedDictEnd
  BY <1>1, <1>2, <1>3, ShapeRebase, DictLimits
<1>5. /\ first <= win.low + win.base /\ ntu <= WindowEnd(win)
      /\ win.low + win.base <= Larger(first, shift)
  BY <1>1, <1>3 DEF ReachInv, LowReach, UpdateReach, Pos
<1>6. LowReach'
  <2>1. Pos(win', win'.low) = Larger(win.low + win.base, shift) - shift
    BY <1>1, <1>3, <1>4, ShapeFacts DEF Pos, Larger, Index
  <2>2. win'.nextSrc - cp'.window \in Int /\ win.low + win.base \in Int
    BY <1>1, <1>2, <1>3, <1>4, ShapeFacts
  <2>3. first' <= Pos(win', win'.low) /\ Pos(win', win'.low) <= first'
    BY <2>1, <2>2, <1>1, <1>2, <1>3, <1>5 DEF Larger, Monus
  <2>4. first' \in Int /\ Pos(win', win'.low) \in Int
    BY <2>1, <2>2, <1>1, <1>2, <1>3 DEF Larger, Monus
  <2>5. Pos(win', win'.low) <= Larger(first', win'.nextSrc - cp'.window)
    BY <2>2, <2>3, <2>4 DEF Larger
  <2> QED
    BY <2>3, <2>5, <1>2 DEF LowReach
<1>7. UpdateReach'
  BY <1>2, <1>4, <1>5 DEF UpdateReach
<1>8. DictReach'
  BY <1>1, <1>2, <1>3, <1>4, ShapeFacts DEF DictReach
<1> QED
  BY <1>6, <1>7, <1>8 DEF ReachInv

(* A copied dictionary is reached from its first byte, or, when it is too  *)
(* short to be indexed, not at all.                                        *)
LEMMA CopyDictReach ==
    ASSUME CorrectionRoom, IndInv, ReachInv, NEW len \in 0..MaxContent, CopyDict(len)
    PROVE  ReachInv'
<1> DEFINE n == WindowNew(0, win.frequently)
           x == ExtendTo(n, len)
           w == LoadDict(x)
           from == IndexedFrom(0, len)
           short == len < HashReadSize
<1>1. len \in Nat /\ len <= MaxContent /\ cp \in CParams /\ win.frequently \in BOOLEAN
      /\ cp.dictMax \in Nat /\ cp.window \in Nat /\ HashReadSize \in Nat
  BY IndexConstants, CParamsFacts DEF IndInv, TypeOK, Window
<1>2. from \in 0..len /\ len - from <= cp.dictMax /\ len - from <= Larger(MaxLen, cp.dictMax)
  <2>1. from \in 0..len /\ len - from <= cp.dictMax
    BY <1>1 DEF IndexedFrom, Larger, Monus
  <2> HIDE DEF from
  <2> QED
    BY <2>1, <1>1, CParamsFacts
<1>3. Shape(n) /\ WindowEnd(n) = 2 /\ n.nextSrc = 0 /\ n.low = 2
  BY <1>1, ShapeNew
<1>4. DictWindow(len) = IF len - from > HashReadSize THEN Corrected(w, from, len) ELSE w
  BY DEF DictWindow
<1> HIDE DEF n
<1>5. Shape(x) /\ WindowEnd(x) = 2 + len /\ x.nextSrc = len /\ x.low = 2
  BY <1>1, <1>3, ShapeExtend
<1> HIDE DEF x
<1>6. Shape(w) /\ WindowEnd(w) = 2 + len /\ w.nextSrc = len
      /\ w.loadedDictEnd = w.dictLimit /\ w.low = IF short THEN 2 + len ELSE 2
  BY <1>1, <1>5, ShapeLoadDict, DictLimits
<1> HIDE DEF w, from
<1>7. w.base = -2
  BY <1>1, <1>6, ShapeFacts
<1>8. Index(w, from) \in 0..(U32 - 1)
  BY <1>1, <1>2, <1>7, RoomFacts, IndexConstants DEF Index
<1>9. /\ win' = DictWindow(len) /\ ntu' \in {Index(win', from), WindowEnd(win')}
      /\ phase' = "ready" /\ cp' = cp /\ first' = IF short THEN len ELSE 0
  BY DEF CopyDict, from
<1>10. Pos(w, w.low) = first'
  BY <1>1, <1>6, <1>7, <1>9 DEF Pos
<1>11. /\ Shape(win') /\ win'.nextSrc = len
       /\ first' <= Pos(win', win'.low)
       /\ Pos(win', win'.low) <= Larger(first', from - cp.window)
       /\ win' = w \/ win'.loadedDictEnd = 0
  <2>1. CASE len - from > HashReadSize
    BY <2>1, <1>1, <1>2, <1>4, <1>6, <1>8, <1>9, <1>10, CorrectedReach
  <2>2. CASE ~(len - from > HashReadSize)
    BY <2>2, <1>1, <1>2, <1>4, <1>6, <1>9, <1>10 DEF Larger
  <2> QED
    BY <2>1, <2>2
<1>12. LowReach'
  <2>1. Pos(win', win'.low) \in Int /\ first' \in Int
    BY <1>1, <1>9, <1>11, ShapeFacts DEF Pos
  <2>2. Pos(win', win'.low) <= Larger(first', win'.nextSrc - cp'.window)
    BY <2>1, <1>1, <1>2, <1>9, <1>11 DEF Larger
  <2> QED
    BY <2>2, <1>9, <1>11 DEF LowReach
<1>13. UpdateReach'
  BY <1>1, <1>2, <1>9, <1>11, ShapeFacts DEF UpdateReach, Index
<1>14. DictReach'
  BY <1>6, <1>9, <1>11 DEF DictReach
<1> QED
  BY <1>12, <1>13, <1>14 DEF ReachInv

(* An attached dictionary ends where the empty window begins.              *)
LEMMA AttachReach ==
    ASSUME CorrectionRoom, IndInv, ReachInv, NEW len \in 0..MaxContent, Attach(len)
    PROVE  ReachInv'
<1> DEFINE end == WindowEnd(DictWindow(len))
<1>1. /\ TypeOK /\ cp \in CParams /\ Shape(win) /\ phase = "reset" /\ CanAttach(win)
      /\ first \in Nat
  BY DEF IndInv, TypeOK, Attach
<1>2. end \in Nat
  BY <1>1, DictWindowFacts, ShapeFacts
<1>3. /\ win' = AttachDict(win, end) /\ ntu' = win'.low /\ phase' = "ready"
      /\ cp' = cp /\ first' = first
  BY DEF Attach
<1> HIDE DEF end
<1>4. /\ Shape(win') /\ WindowEnd(win') = win'.low /\ win'.loadedDictEnd = win'.dictLimit
      /\ win'.base = win.nextSrc - win'.low
  BY <1>1, <1>2, <1>3, ShapeAttach, DictLimits
<1>5. win'.nextSrc = win.nextSrc /\ win.nextSrc = first
  BY <1>1, <1>4, ShapeFacts DEF ReachInv, LowReach
<1>6. Pos(win', win'.low) = first
  BY <1>1, <1>4, <1>5, ShapeFacts DEF Pos
<1>7. LowReach'
  BY <1>1, <1>3, <1>5, <1>6, CParamsFacts DEF LowReach, Larger
<1>8. UpdateReach'
  BY <1>3, <1>4, ShapeFacts DEF UpdateReach
<1>9. DictReach'
  BY <1>3, <1>4 DEF DictReach
<1> QED
  BY <1>7, <1>8, <1>9 DEF ReachInv

-----------------------------------------------------------------------------
(* The theorems *)

(* Every step keeps the invariant.                                         *)
LEMMA NextReach ==
    ASSUME CorrectionRoom, IndInv, ReachInv, [Next]_vars
    PROVE  ReachInv'
<1> USE DEF ReachInv
<1>1. ASSUME NEW c \in CParams, NEW o \in Origins, NEW f \in BOOLEAN, Reset(c, o, f)
      PROVE  ReachInv'
  BY <1>1, ResetReach
<1>2. ASSUME NEW len \in 0..MaxContent, EnterPrefix(len)
      PROVE  ReachInv'
  BY <1>2, EnterContentReach DEF EnterPrefix
<1>3. ASSUME NEW len \in 0..MaxContent, EnterDict(len)
      PROVE  ReachInv'
  BY <1>3, EnterContentReach DEF EnterDict
<1>4. ASSUME NEW len \in 0..MaxContent, CopyDict(len)
      PROVE  ReachInv'
  BY <1>4, CopyDictReach
<1>5. ASSUME NEW len \in 0..MaxContent, Attach(len)
      PROVE  ReachInv'
  BY <1>5, AttachReach
<1>6. ASSUME NEW len \in 0..MaxLen, EnterBlock(len)
      PROVE  ReachInv'
  BY <1>6, EnterBlockReach
<1>7. CASE StartBlock
  BY <1>7, StartBlockReach
<1>8. ASSUME NEW cell \in 0..NWords-1, InsertMark(cell)
      PROVE  ReachInv'
  <2>1. /\ ntu' = ntu /\ ntu \in Nat /\ phase # "new"
        /\ UNCHANGED <<win, cp, block, phase, first>>
    BY <1>8 DEF InsertMark, Finding, IndInv, TypeOK
  <2>2. ntu <= WindowEnd(win)
    BY <2>1 DEF UpdateReach
  <2> QED
    BY <2>1, <2>2, TableStepReach
<1>9. ASSUME NEW cell \in 0..NWords-1, NEW i \in win.low..(WindowEnd(win)-1), Insert(cell, i)
      PROVE  ReachInv'
  <2>1. /\ ntu' \in {ntu, Larger(ntu, i + 1)} /\ ntu \in Nat /\ phase # "new" /\ Shape(win)
        /\ UNCHANGED <<win, cp, block, phase, first>>
    BY <1>9 DEF Insert, Finding, IndInv, TypeOK
  <2>2. ntu <= WindowEnd(win) /\ i \in Nat /\ i + 1 <= WindowEnd(win)
    BY <2>1, ShapeFacts DEF UpdateReach
  <2>3. ntu' \in Nat /\ ntu' >= ntu /\ ntu' <= WindowEnd(win)
    BY <2>1, <2>2, ShapeFacts DEF Larger
  <2> QED
    BY <2>1, <2>3, TableStepReach
<1>10. CASE StoreTags
  <2>1. /\ ntu' = ntu /\ ntu \in Nat /\ phase # "new"
        /\ UNCHANGED <<win, cp, block, phase, first>>
    BY <1>10 DEF StoreTags, Finding, IndInv, TypeOK
  <2>2. ntu <= WindowEnd(win)
    BY <2>1 DEF UpdateReach
  <2> QED
    BY <2>1, <2>2, TableStepReach
<1>11. CASE SkipWindow
  BY <1>11, SkipWindowReach
<1>12. CASE MoveBuffer
  BY <1>12, MoveBufferReach
<1>13. CASE UNCHANGED vars
  BY <1>13 DEF vars, LowReach, UpdateReach, DictReach, WindowEnd, Index, Pos
<1> QED
  BY <1>1, <1>2, <1>3, <1>4, <1>5, <1>6, <1>7, <1>8, <1>9, <1>10, <1>11, <1>12, <1>13
  DEF Next

(* The invariant holds of every reachable state.                           *)
LEMMA ReachHolds ==
    ASSUME CorrectionRoom
    PROVE  Spec => [](IndInv /\ ReachInv)
<1>1. Init => ReachInv
  BY DEF Init, ReachInv, LowReach, UpdateReach, DictReach, WindowNew
<1>2. IndInv /\ ReachInv /\ [Next]_vars => ReachInv'
  BY NextReach
<1> QED
  BY <1>1, <1>2, InvHolds, PTL DEF Spec

(* A correction, a moved buffer, a dictionary or a reset costs a block no  *)
(* match: its window reaches back to the first byte of the input or a      *)
(* window before the block, never over a dropped byte, and insertion       *)
(* resumes inside it.                                                      *)
THEOREM WindowKept ==
    ASSUME CorrectionRoom
    PROVE  Spec => []WindowIntact
<1>1. IndInv /\ ReachInv => WindowIntact
  <2> SUFFICES ASSUME IndInv, ReachInv PROVE WindowIntact
    OBVIOUS
  <2>1. phase # "new" => Pos(win, win.low) \in Int /\ first \in Int
    BY ShapeFacts DEF IndInv, TypeOK, Pos
  <2> QED
    BY <2>1 DEF ReachInv, LowReach, UpdateReach, WindowIntact
<1> QED
  BY <1>1, ReachHolds, PTL

(* A block references a dictionary only while it ends within a window of   *)
(* it, and a referenced dictionary always ends where the prefix begins.    *)
THEOREM DictWithinWindow ==
    ASSUME CorrectionRoom
    PROVE  Spec => []DictOnlyWithinWindow
<1>1. IndInv /\ ReachInv => DictOnlyWithinWindow
  <2> SUFFICES ASSUME IndInv, ReachInv, phase \in {"entered", "find", "refind"},
                      win.loadedDictEnd # 0
               PROVE  /\ Index(win, block.end) - win.loadedDictEnd <= cp.window
                      /\ win.loadedDictEnd = win.dictLimit
    BY DEF DictOnlyWithinWindow
  <2>1. /\ phase \in {"entered", "find"} /\ win.loadedDictEnd = win.dictLimit
        /\ WindowEnd(win) <= win.loadedDictEnd + cp.window
    BY DEF ReachInv, DictReach
  <2>2. block.end = win.nextSrc /\ Shape(win) /\ cp \in CParams
    BY <2>1 DEF IndInv, IndexBound, TypeOK
  <2> QED
    BY <2>1, <2>2, ShapeFacts, CParamsFacts DEF WindowEnd
<1> QED
  BY <1>1, ReachHolds, PTL

-----------------------------------------------------------------------------
(* What a correction does to the tables *)

(* Reducing a word keeps a mark where marks are kept, and makes none.      *)
LEMMA ReduceWordMarks ==
    ASSUME NEW u \in Word, NEW corr \in Nat, NEW keep \in BOOLEAN
    PROVE  /\ keep /\ u.idx = 1 => ReduceWord(u, corr, keep).idx = 1
           /\ ReduceWord(u, corr, keep).idx = 1 => u.idx = 1
<1> DEFINE r == ReduceWord(u, corr, keep)
<1>1. CASE keep /\ u.idx = 1
  BY <1>1 DEF ReduceWord, UnsortedMark, Word
<1>2. CASE ~(keep /\ u.idx = 1) /\ u.idx < corr + 2
  BY <1>2 DEF ReduceWord, UnsortedMark, WindowStart, Empty, Word, Gone
<1>3. CASE ~(keep /\ u.idx = 1) /\ ~(u.idx < corr + 2)
  <2>1. r = [u EXCEPT !.idx = u.idx - corr] /\ u.idx \in Nat /\ u.idx - corr >= 2
    BY <1>3 DEF ReduceWord, UnsortedMark, WindowStart, Word
  <2>2. r.idx = u.idx - corr
    BY <2>1 DEF Word
  <2> HIDE DEF r
  <2> QED
    BY <2>1, <2>2, <1>3 DEF r
<1> QED
  BY <1>1, <1>2, <1>3

(* A block entered keeps the marks of btlazy2's tree and makes none.       *)
LEMMA EnterBlockMarks ==
    ASSUME CorrectionRoom, IndInv, NEW len \in 0..MaxLen, EnterBlock(len),
           NEW i \in Cells(cp.layout)
    PROVE  /\ PreservesMark(i) /\ words[i].idx = 1 => words'[i].idx = 1
           /\ words'[i].idx = 1 => words[i].idx = 1
<1> DEFINE start == win.nextSrc
           end == start + len
           w == ExtendTo(win, end)
           corr == CorrectionAt(w, start)
<1>1. /\ TypeOK /\ Shape(win) /\ cp \in CParams /\ start \in Nat /\ len \in Nat
      /\ end \in Nat /\ end >= start /\ len <= MaxLen
      /\ WindowEnd(win) <= CurrentMax + MaxContent + MaxLen
  BY ShapeFacts, IndexConstants DEF IndInv, TypeOK, IndexBound
<1>2. Shape(w) /\ w.base = win.base
  BY <1>1, ShapeExtend, ShapeFacts
<1>3. TablesCorrected(w, start, end)
  BY DEF EnterBlock
<1> HIDE DEF w
<1>4. Index(w, start) \in 0..(U32 - 1)
  <2>1. Index(w, start) = WindowEnd(win)
    BY <1>2, ShapeFacts DEF Index, WindowEnd
  <2> QED
    BY <2>1, <1>1, ShapeFacts, RoomFacts, IndexConstants
<1>5. end - start <= Larger(MaxLen, cp.dictMax)
  <2>1. MaxLen <= Larger(MaxLen, cp.dictMax) /\ Larger(MaxLen, cp.dictMax) \in Nat
    BY <1>1, CParamsFacts
  <2> QED
    BY <2>1, <1>1, IndexConstants
<1> HIDE DEF start, end
<1>6. i \in 0..NWords-1 /\ words[i] \in Word
  BY <1>1, LayoutFacts DEF TypeOK
<1>7. CASE NeedsCorrection(w, start, end)
  <2>1. corr \in Nat
    BY <1>1, <1>2, <1>4, <1>5, <1>7, CorrectionExact DEF NeedsCorrection, CorrectionAt
  <2>2. Reduce(corr)
    BY <1>3, <1>7 DEF TablesCorrected
  <2> HIDE DEF corr
  <2>3. words'[i] = ReduceWord(words[i], corr, PreservesMark(i))
    BY <2>2, <1>6 DEF Reduce
  <2>4. PreservesMark(i) \in BOOLEAN
    BY <1>1, MatchStateConstants DEF PreservesMark, CParamsType
  <2> QED
    BY <2>1, <2>3, <2>4, <1>6, ReduceWordMarks
<1>8. CASE ~NeedsCorrection(w, start, end)
  BY <1>3, <1>8 DEF TablesCorrected, tables
<1> QED
  BY <1>7, <1>8

(* A step that corrects indices keeps them congruent modulo the cycle,     *)
(* every unsorted mark, and turns no index into a mark.                    *)
LEMMA NextKeepsTables ==
    ASSUME CorrectionRoom, IndInv, ReachInv, Next
    PROVE  KeepsTables
<1>1. CASE \E len \in 0..MaxContent : EnterPrefix(len) \/ EnterDict(len)
  <2>1. PICK len \in 0..MaxContent : EnterContent(len, TRUE) \/ EnterContent(len, FALSE)
    BY <1>1 DEF EnterPrefix, EnterDict
  <2>2. (win'.base - win.base) % cp.cycle = 0
    BY <2>1, EnterContentReach
  <2>3. phase' # "entered"
    BY <2>1 DEF EnterContent
  <2> QED
    BY <2>2, <2>3 DEF KeepsTables
<1>2. CASE \E len \in 0..MaxLen : EnterBlock(len)
  <2>1. PICK len \in 0..MaxLen : EnterBlock(len)
    BY <1>2
  <2>2. (win'.base - win.base) % cp.cycle = 0
    BY <2>1, EnterBlockReach
  <2> QED
    BY <2>1, <2>2, EnterBlockMarks DEF KeepsTables
<1>3. CASE win' = win /\ phase' = phase /\ Finding
  <2>1. win.base - win.base = 0 /\ cp.cycle * 0 = 0 /\ cp.cycle \in Nat \ {0}
    BY CParamsFacts, ShapeFacts DEF IndInv, TypeOK
  <2>2. (cp.cycle * 0) % cp.cycle = 0
    BY <2>1, MultMod
  <2> QED
    BY <2>1, <2>2, <1>3 DEF KeepsTables, Finding
<1>4. CASE phase' \notin {"fill", "entered"}
  BY <1>4 DEF KeepsTables
<1> QED
  BY <1>1, <1>2, <1>3, <1>4
  DEF Next, Reset, CopyDict, Attach, StartBlock, InsertMark, Insert, StoreTags, SkipWindow, MoveBuffer

(* However many corrections an input needs, none breaks a chain or a tree: *)
(* every correction is a multiple of the cycle, and unsorted marks survive *)
(* it and are never made by it.                                            *)
THEOREM TablesSurviveCorrection ==
    ASSUME CorrectionRoom
    PROVE  Spec => CorrectionKeepsTables
<1>1. IndInv /\ ReachInv /\ [Next]_vars => [KeepsTables]_vars
  BY NextKeepsTables
<1> QED
  BY <1>1, ReachHolds, PTL DEF Spec, CorrectionKeepsTables
=============================================================================
