-------------------------- MODULE DoubleFastFinder --------------------------
(***************************************************************************)
(* The double-fast block compressor (src/src/compress/dfast.rs), with a    *)
(* table of long and one of short matches: the loop without a dictionary,  *)
(* the one with a loaded dictionary in reach (ext) and the one for an      *)
(* attached dictionary (dms).  Steps are as in FastFinder.                 *)
(***************************************************************************)
EXTENDS FinderWindow

prefix_lowest(w) == lowest_match_index(w, w.end - 1)

LongHit(w, m, low, p) == candidate_valid(m, low, p) /\ read64(w.src, m) = read64(w.src, p)
ShortHit(w, m, low, p) == candidate_valid(m, low, p) /\ read32(w.src, m) = read32(w.src, p)

\* A match at ip, of n bytes at least, taken back as far as it goes.
Grown(w, s, ip, m, n, low) ==
  LET back == catch_up(w, ip, w.src, m, s.anchor, low)
  IN  StoreOffset(w, s, ip - back, ip - m, n + back + count(w, ip + n, m + n))

\* After a match: positions inside it go in both tables.
Complementary(w, s, curr, hashed, entered) ==
  LET fill == IF s.ip <= ilimit(w) THEN {curr + 2, s.ip - 2, s.ip - 1} ELSE {}
  IN  [Touch(s, fill \cup hashed, fill \cup entered) EXCEPT !.pc = IF s.ip <= ilimit(w) THEN "again" ELSE "start"]

-----------------------------------------------------------------------------
(* Without a dictionary.                                                   *)

dfast_begin(w, rep, hist) ==
  LET ip == w.start + One(w.start = prefix_lowest(w))
  IN  SearchFrom(w, ip, rep, ip - lowest_match_index(w, ip), hist)

dfast_outer(w, s) ==
  IF s.ip + 1 > ilimit(w) THEN [Touch(s, {}, {}) EXCEPT !.pc = "done"]
  ELSE [Touch(s, {s.ip}, {}) EXCEPT !.pc = "search", !.step = 1, !.next = s.ip + StepIncr, !.ip1 = s.ip + 1]

dfast_rep_hit(w, s) == s.o1 > 0 /\ read32(w.src, s.ip + 1 - s.o1) = read32(w.src, s.ip + 1)

dfast_rep(w, s) ==
  LET p == s.ip + 1 + MinMatch
      t == Store(w, s, s.ip + 1, REPCODE1_TO_OFFBASE, MinMatch + count(w, p, p - s.o1))
  IN  Complementary(w, t, s.ip, {}, {s.ip})

\* The position ahead lies inside a match of the least length.
dfast_next_early(s) == IF s.step < MinMatch THEN {s.ip1} ELSE {}

dfast_found(w, s, t) == Complementary(w, t, s.ip, {s.ip1}, {s.ip} \cup dfast_next_early(s))

\* _search_next_long: a long match at the next position, of the window's
\* bound plus one, is taken when it is longer than the short one.
dfast_short(w, s, m, l1) ==
  LET low == prefix_lowest(w)
      short == MinMatch + count(w, s.ip + MinMatch, m + MinMatch)
      long == LongHit(w, l1, low + 1, s.ip1)
                /\ LongMatch + count(w, s.ip1 + LongMatch, l1 + LongMatch) > short
  IN  dfast_found(w, s, IF long THEN Grown(w, s, s.ip1, l1, LongMatch, low)
                        ELSE Grown(w, s, s.ip, m, MinMatch, low))

dfast_advance(w, s) ==
  LET grow == s.ip1 >= s.next
      step == s.step + One(grow)
      t == [s EXCEPT !.ip = s.ip1, !.ip1 = @ + step, !.step = step,
                     !.next = IF grow THEN @ + StepIncr ELSE @,
                     !.pc = IF s.ip1 + step > ilimit(w) THEN "done" ELSE "search"]
  IN  Touch(t, {s.ip1}, {s.ip})

dfast_search(w, s) ==
  LET low == prefix_lowest(w)
  IN  IF dfast_rep_hit(w, s) THEN {dfast_rep(w, s)}
      ELSE {dfast_found(w, s, Grown(w, s, s.ip, m, LongMatch, low)) :
              m \in {i \in Slots(w) : LongHit(w, i, low, s.ip)}}
           \cup {dfast_short(w, s, m, l1) : m \in {i \in Slots(w) : ShortHit(w, i, low, s.ip)}, l1 \in Slots(w)}
           \cup {dfast_advance(w, s)}

dfast_again(w, s) ==
  IF s.ip <= ilimit(w) /\ s.o2 > 0 /\ read32(w.src, s.ip) = read32(w.src, s.ip - s.o2)
  THEN Touch(StoreAgain(w, s, MinMatch + count(w, s.ip + MinMatch, s.ip + MinMatch - s.o2)), {s.ip}, {s.ip})
  ELSE [Touch(s, {}, {}) EXCEPT !.pc = "start"]

dfast_steps(w, s) ==
  CASE s.pc = "start" -> {dfast_outer(w, s)}
    [] s.pc = "search" -> dfast_search(w, s)
    [] s.pc = "again" -> {dfast_again(w, s)}

-----------------------------------------------------------------------------
(* A loaded dictionary in reach.  No repcode is put aside: one out of      *)
(* reach, or across the segments, is not tried.                            *)

dfast_ext_begin(w, rep, hist) == SearchFrom(w, w.start, rep, Max({rep[1], rep[2]}), hist)

low_of(w, idx) == IF idx < w.dict_limit THEN prefix_lowest(w) ELSE w.dict_limit

dfast_ext_rep_hit(w, p, offset) ==
  /\ index_overlap_check(w.dict_limit, p - offset) /\ offset <= p - prefix_lowest(w)
  /\ read32(w.src, p - offset) = read32(w.src, p)

\* Search loops that step by the literals passed so far.
Skipped(w, s) == [Touch(s, {s.ip}, {s.ip}) EXCEPT !.ip = @ + (s.ip - s.anchor) \div SearchStrength + 1, !.pc = "start"]

dfast_ext_search(w, s) ==
  LET low == prefix_lowest(w)
      Found(p, m, n, entered) == Complementary(w, Grown(w, s, p, m, n, low_of(w, m)), s.ip, {s.ip}, {s.ip} \cup entered)
      p == s.ip + 1
  IN  IF s.ip >= ilimit(w) THEN {[Touch(s, {}, {}) EXCEPT !.pc = "done"]}
      ELSE IF dfast_ext_rep_hit(w, p, s.o1)
      THEN {dfast_rep(w, s)}
      ELSE {Found(s.ip, m, LongMatch, {}) : m \in {i \in Slots(w) : LongHit(w, i, low, s.ip)}}
           \cup {IF LongHit(w, m3, low, p) THEN Found(p, m3, LongMatch, {p}) ELSE Found(s.ip, m, MinMatch, {p}) :
                   m \in {i \in Slots(w) : ShortHit(w, i, low, s.ip)}, m3 \in Slots(w)}
           \cup {Skipped(w, s)}

dfast_ext_again(w, s) ==
  IF s.ip <= ilimit(w) /\ dfast_ext_rep_hit(w, s.ip, s.o2)
  THEN Touch(StoreAgain(w, s, MinMatch + count(w, s.ip + MinMatch, s.ip + MinMatch - s.o2)), {s.ip}, {s.ip})
  ELSE [Touch(s, {}, {}) EXCEPT !.pc = "start"]

dfast_ext_steps(w, s) == IF s.pc = "again" THEN {dfast_ext_again(w, s)} ELSE dfast_ext_search(w, s)

-----------------------------------------------------------------------------
(* An attached dictionary.                                                 *)

dfast_dms_begin(w, rep, hist) ==
  SearchFrom(w, w.start + One(w.start = dict_lo(w)), rep, Max({rep[1], rep[2]}), hist)

dfast_dms_rep_hit(w, rep_index, ip) ==
  /\ dms_rep_candidate(w, rep_index, ip)
  /\ read32(dms_rep_source(w, rep_index), rep_index) = read32(w.src, ip)

dfast_dms_rep(w, s) ==
  LET p == s.ip + 1 + MinMatch
      t == Store(w, s, s.ip + 1, REPCODE1_TO_OFFBASE, MinMatch + count_dms(w, p, p - s.o1))
  IN  Complementary(w, t, s.ip, {}, {s.ip})

\* A match of the dictionary at ip, of n bytes at least.
DictGrown(w, s, ip, d, n) ==
  LET back == catch_up(w, ip, w.dict, d, s.anchor, dict_lo(w))
  IN  StoreOffset(w, s, ip - back, ip - d, n + back + count_2segments(w, ip + n, d + n))

DictHit(w, d, word, n) == d > dict_lo(w) /\ Word(w.dict, d, n) = word

dfast_dms_found(w, s, t, entered) == Complementary(w, t, s.ip, {s.ip}, {s.ip} \cup entered)

\* The short match m, of the frame or of the dictionary, or a long one of
\* either at the next position.
dfast_dms_short(w, s, m, m3, d3) ==
  LET p == s.ip + 1
      t == IF LongHit(w, m3, w.dict_limit, p) THEN Grown(w, s, p, m3, LongMatch, w.dict_limit)
           ELSE IF DictHit(w, d3, read64(w.src, p), LongMatch) THEN DictGrown(w, s, p, d3, LongMatch)
           ELSE IF m < w.dict_limit THEN DictGrown(w, s, s.ip, m, MinMatch)
           ELSE Grown(w, s, s.ip, m, MinMatch, w.dict_limit)
  IN  dfast_dms_found(w, s, t, {p})

\* The long match, of the frame or else of the dictionary.
dfast_dms_long(w, s, m, d) ==
  IF LongHit(w, m, w.dict_limit, s.ip) THEN Grown(w, s, s.ip, m, LongMatch, w.dict_limit)
  ELSE DictGrown(w, s, s.ip, d, LongMatch)

\* The short candidates: the frame's, or where it is none the dictionary's.
dfast_dms_shorts(w, s) ==
  {m \in Slots(w) : m > w.dict_limit /\ ShortHit(w, m, w.dict_limit, s.ip)}
  \cup {d \in DictSlots(w) : DictHit(w, d, read32(w.src, s.ip), MinMatch)}

dfast_dms_search(w, s) ==
  LET word == read64(w.src, s.ip)
      longs == {m \in Slots(w) : LongHit(w, m, w.dict_limit, s.ip)}
      dicts == {d \in DictSlots(w) : DictHit(w, d, word, LongMatch)}
  IN  IF s.ip >= ilimit(w) THEN {[Touch(s, {}, {}) EXCEPT !.pc = "done"]}
      ELSE IF dfast_dms_rep_hit(w, s.ip + 1 - s.o1, s.ip + 1) THEN {dfast_dms_rep(w, s)}
      ELSE {dfast_dms_found(w, s, dfast_dms_long(w, s, x[1], x[2]), {}) :
              x \in (longs \X DictSlots(w)) \cup ({0} \X dicts)}
           \cup {dfast_dms_short(w, s, m, m3, d3) : m \in dfast_dms_shorts(w, s), m3 \in Slots(w), d3 \in DictSlots(w)}
           \cup {Skipped(w, s)}

dfast_dms_again(w, s) ==
  LET rep_index2 == s.ip - s.o2
  IN  IF s.ip <= ilimit(w) /\ dfast_dms_rep_hit(w, rep_index2, s.ip)
      THEN Touch(StoreAgain(w, s, MinMatch + count_dms(w, s.ip + MinMatch, rep_index2 + MinMatch)), {s.ip}, {s.ip})
      ELSE [Touch(s, {}, {}) EXCEPT !.pc = "start"]

dfast_dms_steps(w, s) == IF s.pc = "again" THEN {dfast_dms_again(w, s)} ELSE dfast_dms_search(w, s)
=============================================================================
