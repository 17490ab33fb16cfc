---------------------------- MODULE MatchWindow ----------------------------
(***************************************************************************)
(* The index space of a match finder: struct Window of                     *)
(* src/src/compress/matchstate.rs, owned by a MatchState and by the long   *)
(* distance matcher.  A window maps positions of the input slice to table  *)
(* indices (index = position - base), knows the lowest valid index and how *)
(* far the input has been indexed.  One operator per method; each takes    *)
(* the window as a record and returns the next one, so that every owner of *)
(* a window composes the same operators.                                   *)
(*                                                                         *)
(* base is a wrapping usize in the code and an integer here.  The          *)
(* arithmetic the code does in u32 is done modulo U32.                     *)
(***************************************************************************)
EXTENDS Integers

CONSTANTS
    CurrentMax,     \* ZSTD_CURRENT_MAX: highest index a block may end at
    OverflowMargin, \* ZSTD_INDEXOVERFLOW_MARGIN
    HashReadSize,   \* HASH_READ_SIZE: content below this is not indexed
    U32             \* number of values of the code's u32

\* ZSTD_WINDOW_START_INDEX: 0 means "empty" and 1 is the unsorted mark
WindowStart == 2

ASSUME WindowConstants ==
    /\ CurrentMax \in Nat /\ OverflowMargin \in Nat
    /\ HashReadSize \in Nat /\ U32 \in Nat
    /\ WindowStart <= CurrentMax - OverflowMargin
    /\ CurrentMax < U32

Larger(a, b) == IF a >= b THEN a ELSE b

Monus(a, b) == IF a >= b THEN a - b ELSE 0

Window == [base: Int, low: Nat, dictLimit: Nat, nextSrc: Nat,
           loadedDictEnd: Nat, nbCorrections: Nat, frequently: BOOLEAN]

Index(w, p) == p - w.base

Pos(w, i) == i + w.base

WindowEnd(w) == Index(w, w.nextSrc)

----------------------------------------------------------------------------

WindowNew(origin, frequently) ==
    [base |-> origin - WindowStart, low |-> WindowStart,
     dictLimit |-> WindowStart, nextSrc |-> origin, loadedDictEnd |-> 0,
     nbCorrections |-> 0, frequently |-> frequently]

\* Mutant of ContinueAt: the window keeps its old low.
ContinueAtKeepingLow(w, origin) ==
    [w EXCEPT !.base = origin - WindowEnd(w), !.dictLimit = WindowEnd(w),
              !.nextSrc = origin, !.loadedDictEnd = 0]

ContinueAt(w, origin) ==
    LET end == WindowEnd(w)
    IN  [w EXCEPT !.base = origin - end, !.low = end, !.dictLimit = end,
                  !.nextSrc = origin, !.loadedDictEnd = 0]

LoadDict(w) ==
    LET end == WindowEnd(w)
    IN  [w EXCEPT !.loadedDictEnd = end, !.dictLimit = end,
                  !.low = IF end - @ < HashReadSize THEN end ELSE @]

\* The code asserts that no input has been entered (CanAttach).
CanAttach(w) == WindowEnd(w) = w.dictLimit /\ w.low = w.dictLimit

AttachDict(w, dictEnd) ==
    LET start == Larger(w.dictLimit, dictEnd)
    IN  [w EXCEPT !.base = w.nextSrc - start, !.low = start,
                  !.dictLimit = start, !.loadedDictEnd = start]

CheckDictValidity(w, blockEnd, maxDist) ==
    IF Index(w, blockEnd) > w.loadedDictEnd + maxDist
    THEN [w EXCEPT !.loadedDictEnd = 0] ELSE w

\* Mutant of Rebase: low stays below the bytes that were dropped.
RebaseKeepingLow(w, shift) ==
    [w EXCEPT !.base = @ - shift, !.nextSrc = @ - shift]

\* The code asserts shift <= nextSrc.
Rebase(w, shift) ==
    LET low == Larger(w.low, Index(w, shift))
    IN  [w EXCEPT !.low = low, !.dictLimit = Larger(@, low),
                  !.base = @ - shift, !.nextSrc = @ - shift]

ExtendTo(w, end) == [w EXCEPT !.nextSrc = end]

TooCloseToMax(w) == WindowEnd(w) > CurrentMax - OverflowMargin

----------------------------------------------------------------------------
(* Overflow correction *)

CanOverflowCorrect(w, cycle, maxDist, src) ==
    LET curr     == Index(w, src) % U32
        minIndex == cycle + Larger(maxDist, cycle) + WindowStart
        adjusted == Larger((minIndex * (w.nbCorrections + 1)) % U32, minIndex)
    IN  curr > adjusted /\ curr > maxDist + w.loadedDictEnd

\* Mutant of NeedOverflowCorrection: only the test hook corrects.
NeedOverflowCorrectionIfFrequent(w, cycle, maxDist, src, srcEnd) ==
    w.frequently /\ CanOverflowCorrect(w, cycle, maxDist, src)

NeedOverflowCorrection(w, cycle, maxDist, src, srcEnd) ==
    \/ w.frequently /\ CanOverflowCorrect(w, cycle, maxDist, src)
    \/ Index(w, srcEnd) > CurrentMax

\* The index that position src gets: its low cycle bits above a whole window.
NewCurrent(w, cycle, maxDist, src) ==
    LET c == (Index(w, src) % U32) % cycle
    IN  c + (IF c < WindowStart THEN Larger(cycle, WindowStart) ELSE 0)
          + Larger(maxDist, cycle)

\* A u32 subtraction: the index is truncated first, the difference wraps.
Correction(w, cycle, maxDist, src) ==
    ((Index(w, src) % U32) - NewCurrent(w, cycle, maxDist, src)) % U32

\* An index bound after a correction: those that would fall below
\* WindowStart are squashed to it.
Reduced(i, correction) ==
    IF i < correction + WindowStart THEN WindowStart ELSE i - correction

\* Mutant of CorrectOverflow: the dictionary stays valid.
CorrectOverflowKeepingDict(w, correction) ==
    [w EXCEPT !.base = @ + correction,
              !.low = Reduced(@, correction),
              !.dictLimit = Reduced(@, correction),
              !.nbCorrections = (@ + 1) % U32]

CorrectOverflow(w, correction) ==
    [w EXCEPT !.base = @ + correction,
              !.low = Reduced(@, correction),
              !.dictLimit = Reduced(@, correction),
              !.loadedDictEnd = 0,
              !.nbCorrections = (@ + 1) % U32]

----------------------------------------------------------------------------

EnforceMaxDist(w, p, maxDist) ==
    LET i   == Index(w, p)
        low == Larger(w.low, i - maxDist)
    IN  IF i > maxDist + w.loadedDictEnd
        THEN [w EXCEPT !.low = low, !.dictLimit = Larger(@, low),
                       !.loadedDictEnd = 0]
        ELSE w

LowestMatchIndex(w, cur, windowSize) ==
    IF w.loadedDictEnd # 0 THEN w.low
    ELSE Larger(w.low, Monus(cur + 1, windowSize))

\* ZSTD_initStats_ultra forgets its first pass over len bytes.
Skip(w, len) ==
    [w EXCEPT !.base = @ - len, !.low = @ + len, !.dictLimit = w.low + len]

=============================================================================
