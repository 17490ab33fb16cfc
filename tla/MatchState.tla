----------------------------- MODULE MatchState -----------------------------
(***************************************************************************)
(* The persistent state of a match finder: MatchState and its Workspace    *)
(* (src/src/compress/matchstate.rs) over the life of a compression         *)
(* context, as Context, load_prefix, FrameDict::preload, compress_blocks,  *)
(* the optimal parser and the streaming buffer drive it.                   *)
(*                                                                         *)
(* A context is reset once per frame or job.  Indices normally continue    *)
(* from one input to the next, so the tables keep what earlier inputs      *)
(* stored; the design rests on all of it lying below the new window.  The  *)
(* model therefore keeps every table word together with the position its   *)
(* byte has in the current input (at), or Gone once that byte belongs to   *)
(* an earlier input or was dropped from a streaming buffer.  "at" is       *)
(* history only: no action reads it.                                       *)
(*                                                                         *)
(* The finders are abstracted to what they do to the tables: between the   *)
(* calls modelled here they write indices of bytes of the window.          *)
(***************************************************************************)
EXTENDS MatchWindow

CONSTANTS
    CParams,        \* the parameters a reset may be given (CParamsType)
    NWords,         \* words of the largest table layout
    Origins,        \* positions where the window of an input may start
    MaxLen,         \* longest block
    MaxContent,     \* longest prefix or dictionary content
    MaxPos,         \* bound on positions of an input
    MaxCorrections, \* bound on overflow corrections of a window
    TooLargeDuration,  \* WORKSPACE_TOO_LARGE_MAX_DURATION
    UpdateLag, UpdateKeep \* 384 and 192 of start_block

TooLargeFactor == 3

Gone == -1

\* Where the tables lie (struct Layout), as sets of word numbers.
Layouts == [hash: SUBSET (0..NWords-1), chain: SUBSET (0..NWords-1),
            hash3: SUBSET (0..NWords-1), tags: SUBSET (0..NWords-1),
            indexEnd: 0..NWords, words: 1..NWords]

Cells(layout) == layout.hash \cup layout.chain \cup layout.hash3

(* window: 1 << window_log; cycle: 1 << cycle_log; dictMax: the longest    *)
(* suffix of loaded content that is indexed; need: needed_space; bt: the   *)
(* strategy is BtLazy2; ultra: the strategy is BtUltra2.                   *)
CParamsType == [window: Nat \ {0}, cycle: Nat \ {0}, dictMax: Nat,
                layout: Layouts, need: Nat \ {0},
                bt: BOOLEAN, ultra: BOOLEAN]

ASSUME MatchStateConstants ==
    /\ CParams \subseteq CParamsType
    /\ NWords \in Nat \ {0} /\ Origins \subseteq Nat
    /\ MaxLen \in Nat /\ MaxContent \in Nat /\ MaxPos \in Nat /\ MaxCorrections \in Nat
    /\ TooLargeDuration \in Nat /\ UpdateLag \in Nat /\ UpdateKeep \in Nat
    /\ \A c \in CParams :
          /\ Cells(c.layout) \subseteq 0..(c.layout.indexEnd - 1)
          /\ c.layout.tags \subseteq c.layout.indexEnd..(c.layout.words - 1)
          /\ c.layout.indexEnd <= c.layout.words
          /\ Larger(c.window, c.cycle) % c.cycle = 0

(* Room for a correction: below CurrentMax there fit a cycle, the window   *)
(* and what is indexed at once, and above it the content and the block     *)
(* that are entered between corrections.  With the parameters any level    *)
(* gives this holds for content up to several hundred MiB; nothing in the  *)
(* code checks it.                                                         *)
CorrectionRoom ==
    /\ CurrentMax + MaxContent + MaxLen < U32
    /\ \A c \in CParams :
          c.cycle + 1 + Larger(c.window, c.cycle) + Larger(MaxLen, c.dictMax) <= CurrentMax

VARIABLES
    win,       \* window
    ntu,       \* next_to_update
    cp,        \* cparams
    words,     \* the allocation as table entries
    pages,     \* words allocated
    valid,     \* words[..valid] hold only values below the window's end
    ws,        \* size, used and oversized_duration of the workspace
    block,     \* positions of the block entered last
    phase,     \* how far the input has come
    first      \* history: position of the first byte matches may reach

tables == <<words, pages, valid>>
vars == <<win, ntu, cp, words, pages, valid, ws, block, phase, first>>

Word == [idx: Nat, at: Nat \cup {Gone}]
Empty == [idx |-> 0, at |-> Gone]
UnsortedMark == [idx |-> 1, at |-> Gone]
\* four tags read as an index: the largest stands for any of them
TagWord == [idx |-> U32 - 1, at |-> Gone]
Entry(w, i) == [idx |-> i, at |-> Pos(w, i)]

Phases == {"new", "reset", "fill", "ready", "entered", "find", "refind"}

TypeOK ==
    /\ win \in Window
    /\ ntu \in Nat
    /\ cp \in CParams
    /\ words \in [0..NWords-1 -> Word]
    /\ pages \in 0..NWords /\ valid \in 0..NWords
    /\ ws \in [size: Nat, used: Nat, duration: Nat]
    /\ block \in [start: Nat, end: Nat]
    /\ phase \in Phases
    /\ first \in Nat

Init ==
    /\ win = WindowNew(0, FALSE)
    /\ ntu = 0
    /\ cp \in CParams
    /\ words = [i \in 0..NWords-1 |-> Empty]
    /\ pages = 0 /\ valid = 0
    /\ ws = [size |-> 0, used |-> 0, duration |-> 0]
    /\ block = [start |-> 0, end |-> 0]
    /\ phase = "new"
    /\ first = 0

-----------------------------------------------------------------------------
(* Reset: reset_needing, with Workspace::reserve and Workspace::reset.     *)

Resized(need) ==
    \/ ws.size < need
    \/ /\ ws.size - ws.used >= TooLargeFactor * need
       /\ ws.duration + 1 > TooLargeDuration

\* The duration only counts up to the threshold it is compared with.
Reserve(need) ==
    ws' = [size |-> IF Resized(need) THEN need ELSE ws.size,
           used |-> need,
           duration |-> IF Resized(need) THEN 0
                        ELSE IF ws.duration > TooLargeDuration
                             THEN ws.duration ELSE ws.duration + 1]

\* The bytes of every kept word belong to an earlier input from now on.
Aged(word) == [word EXCEPT !.at = Gone]

Vouched(c, indexReset) ==
    IF (IF Resized(c.need) THEN 0 ELSE pages) < c.layout.words
    THEN c.layout.words
    ELSE IF indexReset THEN 0 ELSE valid

\* The words the new layout's index area zeroes: those nothing vouches for
\* and the padding between the index tables.
Zeroed(c, kept) ==
    {i \in 0..(c.layout.indexEnd - 1) : i >= kept \/ i \notin Cells(c.layout)}

WorkspaceReset(c, indexReset) ==
    LET l     == c.layout
        fresh == (IF Resized(c.need) THEN 0 ELSE pages) < l.words
        kept  == Vouched(c, indexReset)
    IN  /\ pages' = IF fresh THEN l.words ELSE pages
        /\ words' = [i \in 0..NWords-1 |->
                        IF fresh \/ i \in Zeroed(c, kept) THEN Empty
                        ELSE Aged(words[i])]
        /\ valid' = IF l.tags # {} THEN l.indexEnd ELSE Larger(kept, l.indexEnd)

Reset(c, origin, frequently) ==
    LET indexReset == Resized(c.need) \/ TooCloseToMax(win)
        w == IF indexReset THEN WindowNew(origin, frequently)
                           ELSE ContinueAt(win, origin)
    IN  /\ Reserve(c.need)
        /\ WorkspaceReset(c, indexReset)
        /\ win' = [w EXCEPT !.frequently = frequently]
        /\ ntu' = w.low
        /\ cp' = c
        /\ block' = [start |-> origin, end |-> origin]
        /\ phase' = "reset"
        /\ first' = origin

-----------------------------------------------------------------------------
(* Input enters the window: enter, with correct_overflow_if_needed over    *)
(* the positions that will be indexed.                                     *)

NeedsCorrection(w, start, end) ==
    NeedOverflowCorrection(w, cp.cycle, cp.window, start, end)

CorrectionAt(w, start) == Correction(w, cp.cycle, cp.window, start)

\* Mutant of ReduceWord: marks are reduced like indices.
ReduceWordAndMarks(word, correction, preserveMark) ==
    IF word.idx < correction + WindowStart THEN Empty
    ELSE [word EXCEPT !.idx = @ - correction]

ReduceWord(word, correction, preserveMark) ==
    IF preserveMark /\ word.idx = UnsortedMark.idx THEN word
    ELSE IF word.idx < correction + WindowStart THEN Empty
    ELSE [word EXCEPT !.idx = @ - correction]

\* Only btlazy2 has marks, in its chain table.
PreservesMark(i) == cp.bt /\ i \in cp.layout.chain

\* Mutant of Reduce: words the layout does not cover stay vouched for.
ReduceKeepingValid(correction) ==
    /\ words' = [i \in 0..NWords-1 |->
                    IF i \in Cells(cp.layout)
                    THEN ReduceWord(words[i], correction, PreservesMark(i))
                    ELSE words[i]]
    /\ UNCHANGED <<pages, valid>>

Reduce(correction) ==
    /\ words' = [i \in 0..NWords-1 |->
                    IF i \in Cells(cp.layout)
                    THEN ReduceWord(words[i], correction, PreservesMark(i))
                    ELSE words[i]]
    /\ valid' = cp.layout.indexEnd
    /\ UNCHANGED pages

\* The window w once positions start..end - 1 may be indexed.
Corrected(w, start, end) ==
    IF NeedsCorrection(w, start, end)
    THEN CorrectOverflow(w, CorrectionAt(w, start)) ELSE w

TablesCorrected(w, start, end) ==
    IF NeedsCorrection(w, start, end)
    THEN Reduce(CorrectionAt(w, start)) ELSE UNCHANGED tables

NtuCorrected(w, start, end) ==
    IF NeedsCorrection(w, start, end)
    THEN Monus(ntu, CorrectionAt(w, start)) ELSE ntu

WithinBounds(w) == w.nextSrc <= MaxPos /\ w.nbCorrections < MaxCorrections

\* Where the suffix of content that is indexed begins.
IndexedFrom(start, end) == Larger(start, Monus(end, cp.dictMax))

\* A loaded prefix (dict false) or loaded dictionary content (dict true).
EnterContent(len, dict) ==
    LET start   == win.nextSrc
        end     == start + len
        indexed == IndexedFrom(start, end)
        long    == end - indexed > HashReadSize
        w       == IF dict THEN LoadDict(ExtendTo(win, end))
                           ELSE ExtendTo(win, end)
    IN  /\ phase = "reset"
        /\ dict => start = 0 /\ len > 0
        /\ WithinBounds(w)
        /\ win' = IF long THEN Corrected(w, indexed, end) ELSE w
        /\ IF long THEN TablesCorrected(w, indexed, end) ELSE UNCHANGED tables
        /\ ntu' = Index(win', indexed)
        /\ phase' = IF long THEN "fill" ELSE "ready"
        /\ block' = [start |-> end, end |-> end]
        /\ first' = IF dict /\ len < HashReadSize THEN end ELSE first
        /\ UNCHANGED <<cp, ws>>

EnterPrefix(len) == EnterContent(len, FALSE)

EnterDict(len) == EnterContent(len, TRUE)

EnterBlock(len) ==
    LET start == win.nextSrc
        end   == start + len
        w     == ExtendTo(win, end)
        valid1 == CheckDictValidity(Corrected(w, start, end), end, cp.window)
    IN  /\ phase # "new"
        /\ WithinBounds(w)
        /\ win' = EnforceMaxDist(valid1, start, cp.window)
        /\ TablesCorrected(w, start, end)
        /\ ntu' = Larger(NtuCorrected(w, start, end), win'.low)
        /\ block' = [start |-> start, end |-> end]
        /\ phase' = "entered"
        /\ UNCHANGED <<cp, ws, first>>

-----------------------------------------------------------------------------
(* A dictionary used without loading it: its own state, built once over    *)
(* the same content, is copied or attached.                                *)

DictWindow(len) ==
    LET w == LoadDict(ExtendTo(WindowNew(0, win.frequently), len))
    IN  IF len - IndexedFrom(0, len) > HashReadSize
        THEN Corrected(w, IndexedFrom(0, len), len) ELSE w

\* What the dictionary's tables may hold of its content.
DictWords(len) ==
    LET w == DictWindow(len)
    IN  {Empty} \cup {Entry(w, i) : i \in Larger(w.low, Index(w, IndexedFrom(0, len)))
                                          ..(WindowEnd(w) - 1)}

CopyDict(len) ==
    LET w      == DictWindow(len)
        copied == cp.layout.hash \cup cp.layout.chain
    IN  /\ phase = "reset" /\ len > 0 /\ win.nextSrc = 0 /\ WithinBounds(w)
        /\ \E t \in [copied -> DictWords(len)] :
              words' = [i \in 0..NWords-1 |->
                          IF i \in copied THEN t[i]
                          ELSE IF i \in cp.layout.hash3 THEN Empty ELSE words[i]]
        /\ valid' = cp.layout.indexEnd
        /\ win' = w
        /\ ntu' \in {Index(w, IndexedFrom(0, len)), WindowEnd(w)}
        /\ phase' = "ready"
        /\ block' = [start |-> len, end |-> len]
        /\ first' = IF len < HashReadSize THEN len ELSE 0
        /\ UNCHANGED <<cp, pages, ws>>

Attach(len) ==
    /\ phase = "reset" /\ len > 0 /\ win.nextSrc = 0 /\ CanAttach(win)
    /\ win' = AttachDict(win, WindowEnd(DictWindow(len)))
    /\ ntu' = win'.low
    /\ phase' = "ready"
    /\ UNCHANGED <<cp, words, pages, valid, ws, block, first>>

-----------------------------------------------------------------------------
(* A block is searched *)

StartBlock ==
    LET start == Index(win, block.start)
        lag   == start - ntu - UpdateLag
    IN  /\ phase = "entered"
        /\ ntu' = IF lag > 0
                  THEN start - (IF lag < UpdateKeep THEN lag ELSE UpdateKeep)
                  ELSE ntu
        /\ phase' = "find"
        /\ UNCHANGED <<win, cp, words, pages, valid, ws, block, first>>

Finding == phase \in {"fill", "find", "refind"}

\* A finder stores index i; insertion resumes at or after where it did.
Insert(cell, i) ==
    /\ Finding
    /\ cell \in Cells(cp.layout)
    /\ i >= win.low /\ i < WindowEnd(win)
    /\ words' = [words EXCEPT ![cell] = Entry(win, i)]
    /\ ntu' \in {ntu, Larger(ntu, i + 1)}
    /\ UNCHANGED <<win, cp, pages, valid, ws, block, phase, first>>

InsertMark(cell) ==
    /\ Finding /\ cell \in Cells(cp.layout) /\ PreservesMark(cell)
    /\ words' = [words EXCEPT ![cell] = UnsortedMark]
    /\ UNCHANGED <<win, ntu, cp, pages, valid, ws, block, phase, first>>

StoreTags ==
    /\ Finding /\ cp.layout.tags # {}
    /\ words' = [i \in 0..NWords-1 |->
                    IF i \in cp.layout.tags THEN TagWord ELSE words[i]]
    /\ UNCHANGED <<win, ntu, cp, pages, valid, ws, block, phase, first>>

\* btultra2 forgets its first pass over the first block (skip_window).
SkipWindow ==
    LET len == block.end - block.start
    IN  /\ phase = "find" /\ cp.ultra /\ len > 0
        /\ win.loadedDictEnd = 0
        /\ Index(win, block.start) = win.low /\ win.low = win.dictLimit
        /\ win' = Skip(win, len)
        /\ ntu' = win'.low
        /\ phase' = "refind"
        /\ UNCHANGED <<cp, words, pages, valid, ws, block, first>>

-----------------------------------------------------------------------------
(* The streaming buffer keeps one window before the next block and moves   *)
(* down (Frame::accept, Context::rebase); it is long enough that loaded    *)
(* content is out of reach by then.                                        *)

Shifted(word, shift) ==
    [word EXCEPT !.at = IF @ >= shift THEN @ - shift ELSE Gone]

MoveBuffer ==
    LET shift == win.nextSrc - cp.window
    IN  /\ phase \notin {"new", "reset", "fill"}
        /\ shift > 0
        /\ WindowEnd(win) > cp.window + win.loadedDictEnd
        /\ win' = Rebase(win, shift)
        /\ words' = [i \in 0..NWords-1 |-> Shifted(words[i], shift)]
        /\ block' = [start |-> win'.nextSrc, end |-> win'.nextSrc]
        /\ phase' = "ready"
        /\ first' = Monus(first, shift)
        /\ UNCHANGED <<ntu, cp, pages, valid, ws>>

-----------------------------------------------------------------------------

Next ==
    \/ \E c \in CParams, o \in Origins, f \in BOOLEAN : Reset(c, o, f)
    \/ \E len \in 0..MaxContent :
          \/ EnterPrefix(len) \/ EnterDict(len)
          \/ CopyDict(len) \/ Attach(len)
    \/ \E len \in 0..MaxLen : EnterBlock(len)
    \/ StartBlock
    \/ \E cell \in 0..NWords-1 : InsertMark(cell)
    \/ \E cell \in 0..NWords-1 : \E i \in win.low..(WindowEnd(win)-1) : Insert(cell, i)
    \/ StoreTags
    \/ SkipWindow
    \/ MoveBuffer

Spec == Init /\ [][Next]_vars

-----------------------------------------------------------------------------
(* Correctness *)

(* words[..valid] hold only values below the window's end: what lets       *)
(* Workspace::reset lay tables over them without zeroing, since the next   *)
(* reset starts its window there ("which after ZSTD_window_clear are all   *)
(* misses").                                                               *)
VouchedBelowEnd == \A i \in 0..(valid - 1) : words[i].idx < WindowEnd(win)

(* No finder can take a stale entry for a candidate: a table index at or   *)
(* above window_low is the index of the very byte that was inserted, which *)
(* is still in the buffer, across resets that continue indices, layouts    *)
(* that overlap, corrections, moved buffers and forgotten passes.          *)
NoStaleHit ==
    \A i \in Cells(cp.layout) :
        words[i].idx >= win.low => words[i].at = Pos(win, words[i].idx)

(* A correction or a moved buffer never costs a frame any match: the       *)
(* window of a block reaches from the first byte the input may reference,  *)
(* or the window size before the block, and never covers a dropped byte    *)
(* ("Ensure we can still reference the full window"); and insertion        *)
(* resumes inside the window (next_to_update), so that no byte is skipped  *)
(* or inserted from outside it.                                            *)
WindowIntact ==
    /\ phase # "new" =>
          /\ Pos(win, win.low) >= first
          /\ ntu <= WindowEnd(win) /\ (phase # "ready" => ntu >= win.low)
    /\ phase \in {"entered", "find", "refind"} =>
          Pos(win, win.low) <= Larger(first, block.start - cp.window)

(* Indices stay representable in u32: start_block's and skip_window's      *)
(* assertions ("block end index exceeds the u32 index space") never fire.  *)
IndexFits == WindowEnd(win) < U32

(* RFC 8878 section 5, as check_dict_validity has it: while a dictionary   *)
(* is referenced whole, no more than the window size has been decoded      *)
(* after it, so no input byte is a window back either.                     *)
DictOnlyWithinWindow ==
    phase \in {"entered", "find", "refind"} /\ win.loadedDictEnd # 0 =>
        /\ Index(win, block.end) - win.loadedDictEnd <= cp.window
        /\ win.loadedDictEnd = win.dictLimit

\* What a step that enters content or a block does to base and to marks.
KeepsTables ==
    /\ phase' \in {"fill", "entered"} /\ phase # "new"
          => (win'.base - win.base) % cp.cycle = 0
    /\ phase' = "entered" =>
          \A i \in Cells(cp.layout) :
             /\ PreservesMark(i) /\ words[i].idx = 1 => words'[i].idx = 1
             /\ words'[i].idx = 1 => words[i].idx = 1

(* A correction keeps the tables usable: every index stays congruent       *)
(* modulo the cycle ("required to not corrupt the chains / binary tree"),  *)
(* so a position's chain slot is the same before and after; an unsorted    *)
(* mark of btlazy2's tree survives it, and no reduced index turns into one *)
(* (ZSTD_reduceTable_btlazy2).                                             *)
CorrectionKeepsTables == [][KeepsTables]_vars
=============================================================================
