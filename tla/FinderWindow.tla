---------------------------- MODULE FinderWindow ----------------------------
(***************************************************************************)
(* What the block compressors that keep two repeat offsets share: the      *)
(* window a block is searched in, the comparisons of its bytes, and the    *)
(* state of a search (src/src/compress/common.rs, and the parts that       *)
(* fast.rs, dfast.rs and lazy.rs have in common).                          *)
(*                                                                         *)
(* A window w holds the bytes of the input and of a loaded dictionary in   *)
(* w.src, those of an attached dictionary in w.dict: functions of the      *)
(* window's indices that are defined where the buffers are, so that a read *)
(* outside of them is no value.  The hash tables are not kept: the         *)
(* finders test what a table gives them, and a lookup here gives any index *)
(* whatever, a stale or a colliding one too.  The sizes of a match, of a   *)
(* long match and of a hashed word (4, 8 and 8 bytes) are parameters.      *)
(***************************************************************************)
EXTENDS Integers, Sequences, FiniteSetsExt, TLC

CONSTANTS MinMatch,        \* the bytes read32 compares
          LongMatch,       \* the bytes read64 compares
          HashReadSize,    \* HASH_READ_SIZE
          StepIncr,        \* K_STEP_INCR of the two fast finders
          SearchStrength   \* 1 << K_SEARCH_STRENGTH

LOCAL Reps == INSTANCE RepCodes

REPCODE1_TO_OFFBASE == 1
WINDOW_START_INDEX == 2

One(b) == IF b THEN 1 ELSE 0

\* An index below it would leave the window of the position, or the content.
lowest_match_index(w, cur) ==
  IF w.loaded THEN w.low ELSE Max({w.low, cur + 1 - w.size})

ext_dict_in_reach(w) == lowest_match_index(w, w.end - 1) < w.dict_limit

ilimit(w) == Max({0, w.end - HashReadSize})

-----------------------------------------------------------------------------
(* Bytes.                                                                  *)

Word(b, p, n) == [k \in 0..n-1 |-> b[p + k]]
read32(b, p) == Word(b, p, MinMatch)
read64(b, p) == Word(b, p, LongMatch)

\* How many of P(0), P(1), ..., P(n-1) hold before one that does not.
Common(P(_), n) ==
  IF \A k \in 0..n-1 : P(k) THEN n
  ELSE CHOOSE k \in 0..n-1 : ~P(k) /\ \A j \in 0..k-1 : P(j)

count(w, a, b) == Common(LAMBDA k : w.src[a + k] = w.src[b + k], w.end - a)

dict_end(w) == w.dict_limit

count_2segments(w, ip, m) ==
  LET v_end == Min({ip + dict_end(w) - m, w.end})
      len == Common(LAMBDA k : w.src[ip + k] = w.dict[m + k], v_end - ip)
  IN  IF m > dict_end(w) THEN 0
      ELSE IF m + len # dict_end(w) THEN len
      ELSE len + count(w, ip + len, dict_end(w))

count_dms(w, ip, m) == IF m < dict_end(w) THEN count_2segments(w, ip, m) ELSE count(w, ip, m)

\* The bytes before a match at m in buffer b that extend it backwards.
catch_up(w, ip, b, m, anchor, low) ==
  Common(LAMBDA k : w.src[ip - 1 - k] = b[m - 1 - k], Min({ip - anchor, m - low}))

candidate_valid(idx, low, cur) == low <= idx /\ idx < cur

\* False where the first bytes of a match would straddle prefix_lowest; the
\* difference wraps when the index lies above.
index_overlap_check(prefix_lowest, rep_index) ==
  ~(prefix_lowest - 1 - rep_index \in 0..MinMatch-2)

dict_lo(w) == w.low

\* The buffer a repcode candidate of position ip lies in, if it is one.
dms_rep_candidate(w, rep_index, ip) ==
  /\ dict_lo(w) <= rep_index /\ rep_index < ip
  /\ index_overlap_check(dict_end(w), rep_index)
dms_rep_source(w, rep_index) == IF rep_index < dict_end(w) THEN w.dict ELSE w.src

\* What a lookup can give: of the frame's tables any index; of an attached
\* dictionary's a loaded position, or 0, which stays below the content and is
\* no more of a candidate than an entry whose tag does not match.
Slots(w) == 0 .. w.end
DictSlots(w) == {dict_lo(w) - WINDOW_START_INDEX} \cup (dict_lo(w) .. dict_end(w) - HashReadSize)

-----------------------------------------------------------------------------
(* A search: where it is, the two offsets it keeps and the ones it put     *)
(* aside, the positions its last step hashed and entered in the tables,    *)
(* and, for the properties, the decoder's side of what it stored.          *)

Put(rep, max_rep) == [o |-> IF rep > max_rep THEN 0 ELSE rep, s |-> IF rep > max_rep THEN rep ELSE 0]

SearchFrom(w, ip, rep, max_rep, hist) ==
  [pc |-> "start", ip |-> ip, ip1 |-> ip, anchor |-> w.start,
   o1 |-> Put(rep[1], max_rep).o, s1 |-> Put(rep[1], max_rep).s,
   o2 |-> Put(rep[2], max_rep).o, s2 |-> Put(rep[2], max_rep).s,
   step |-> 1, next |-> 0, hashed |-> {}, entered |-> {},
   dec |-> [hist |-> hist, pos |-> w.start, ok |-> TRUE]]

saved_reps(s) ==
  LET saved2 == IF s.s1 # 0 /\ s.o1 # 0 THEN s.s1 ELSE s.s2
  IN  <<IF s.o1 # 0 THEN s.o1 ELSE s.s1, IF s.o2 # 0 THEN s.o2 ELSE saved2>>

\* A stored sequence as the decoder reads it.
Decode(w, dec, lit, ob, len) ==
  LET hist == Reps!DecodeSequence(dec.hist, ob, lit = 0)
      at == dec.pos + lit
      Byte(i) == IF i \in DOMAIN w.src THEN w.src[i] ELSE w.dict[i]
      ok == /\ hist[1] > 0 /\ at - hist[1] >= w.low /\ (w.loaded \/ hist[1] <= w.size)
            /\ at + len <= w.end
            /\ \A i \in at .. at + len - 1 : Byte(i) = Byte(i - hist[1])
  IN  [hist |-> hist, pos |-> at + len, ok |-> dec.ok /\ ok]

\* store_seq, and the search goes on after the match.
Store(w, s, start, ob, len) ==
  [s EXCEPT !.ip = start + len, !.anchor = start + len,
            !.dec = Decode(w, @, start - s.anchor, ob, len)]

StoreOffset(w, s, start, offset, len) ==
  [Store(w, s, start, Reps!OffsetToOffbase(offset), len) EXCEPT !.o2 = s.o1, !.o1 = offset]

\* The second offset matches right after a match: repcode 1, as there are no
\* literals before it.
StoreAgain(w, s, len) ==
  [Store(w, s, s.ip, REPCODE1_TO_OFFBASE, len) EXCEPT !.o1 = s.o2, !.o2 = s.o1]

Touch(s, hashed, entered) == [s EXCEPT !.hashed = hashed, !.entered = entered]
=============================================================================
