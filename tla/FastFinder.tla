----------------------------- MODULE FastFinder -----------------------------
(***************************************************************************)
(* The fast block compressor (src/src/compress/fast.rs): its pipelined     *)
(* loop without a dictionary and with a loaded one in reach (ext), and the *)
(* loop for an attached dictionary (dms).  A step is one round of a search *)
(* loop or of the immediate repcode loop; the steps of a state are the set *)
(* of the states that follow it, one for each outcome of the lookups.      *)
(***************************************************************************)
EXTENDS FinderWindow

match4_found(w, cur, match_idx, idx_low_limit) ==
  candidate_valid(match_idx, idx_low_limit, cur) /\ read32(w.src, match_idx) = read32(w.src, cur)

prefix_start(w) == lowest_match_index(w, w.end - 1)

fast_begin(w, rep, hist) ==
  LET ip0 == w.start + One(w.start = prefix_start(w))
      max_rep == IF ext_dict_in_reach(w) THEN ip0 - prefix_start(w) ELSE ip0 - lowest_match_index(w, ip0)
  IN  SearchFrom(w, ip0, rep, max_rep, hist)

\* _start: the step is reset, and ip1 stands for the code's ip2.
fast_start(w, step_size, s) ==
  IF s.ip + step_size + 1 >= ilimit(w) THEN [Touch(s, {}, {}) EXCEPT !.pc = "done"]
  ELSE [Touch(s, {s.ip, s.ip + 1}, {}) EXCEPT
          !.pc = "search", !.step = step_size, !.next = s.ip + StepIncr, !.ip1 = s.ip + step_size]

\* The repcode is read at ip2; in ext, not where it starts in the last bytes
\* of the dictionary's segment nor at its end.
fast_rep_hit(w, s) ==
  /\ s.o1 > 0
  /\ ext_dict_in_reach(w) => w.dict_limit - (s.ip1 - s.o1) \notin 0..MinMatch-1
  /\ read32(w.src, s.ip1) = read32(w.src, s.ip1 - s.o1)

\* After a match: two positions inside it go in the table.
fast_fill(w, s, current0, entered) ==
  LET fill == IF s.ip <= ilimit(w) THEN {current0 + 2, s.ip - 2} ELSE {}
  IN  [Touch(s, fill \cup {s.ip1}, fill \cup entered) EXCEPT !.pc = IF s.ip <= ilimit(w) THEN "again" ELSE "start"]

\* One byte before the repcode match may extend it.
fast_rep(w, s) ==
  LET back == One(w.src[s.ip1 - 1] = w.src[s.ip1 - s.o1 - 1])
      len == MinMatch + count(w, s.ip1 + MinMatch, s.ip1 - s.o1 + MinMatch)
  IN  fast_fill(w, Store(w, s, s.ip1 - back, REPCODE1_TO_OFFBASE, len + back), s.ip, {s.ip, s.ip + 1})

\* _offset and _match, for a match of the table at position ip; next is the
\* position hashed ahead, written before the match or, in ext, after it.
fast_offset(w, s, ip, m, next, early) ==
  LET ext == ext_dict_in_reach(w)
      low_match == IF ext /\ m >= w.dict_limit THEN w.dict_limit ELSE prefix_start(w)
      back == catch_up(w, ip, w.src, m, s.anchor, low_match)
      len == MinMatch + back + count(w, ip + MinMatch, m + MinMatch)
      t == StoreOffset(w, s, ip - back, ip - m, len)
  IN  fast_fill(w, t, ip, {s.ip, ip} \cup IF early \/ (ext /\ next < t.ip) THEN {next} ELSE {})

\* The position ahead lies inside a match of the least length.
fast_next_early(w, s) == ~ext_dict_in_reach(w) /\ s.step <= MinMatch

fast_advance(w, s) ==
  LET ip2 == s.ip1 + s.step
      grow == ip2 >= s.next
      t == [s EXCEPT !.ip = s.ip1, !.ip1 = ip2, !.step = @ + One(grow),
                     !.next = IF grow THEN @ + StepIncr ELSE @,
                     !.pc = IF ip2 + 1 >= ilimit(w) THEN "done" ELSE "search"]
  IN  Touch(t, {s.ip1, s.ip1 + 1}, {s.ip, s.ip + 1})

fast_search(w, s) ==
  LET low == prefix_start(w)
      Hits(p) == {m \in Slots(w) : match4_found(w, p, m, low)}
  IN  IF fast_rep_hit(w, s) THEN {fast_rep(w, s)}
      ELSE {fast_offset(w, s, s.ip, m, s.ip + 1, TRUE) : m \in Hits(s.ip)}
           \cup {fast_offset(w, s, s.ip + 1, m, s.ip1, fast_next_early(w, s)) : m \in Hits(s.ip + 1)}
           \cup {fast_advance(w, s)}

fast_again(w, s) ==
  IF /\ s.ip <= ilimit(w) /\ s.o2 > 0
     /\ ext_dict_in_reach(w) => index_overlap_check(w.dict_limit, s.ip - s.o2)
     /\ read32(w.src, s.ip) = read32(w.src, s.ip - s.o2)
  THEN Touch(StoreAgain(w, s, MinMatch + count(w, s.ip + MinMatch, s.ip + MinMatch - s.o2)), {s.ip}, {s.ip})
  ELSE [Touch(s, {}, {}) EXCEPT !.pc = "start"]

fast_steps(w, target_length, s) ==
  CASE s.pc = "start" -> {fast_start(w, target_length + One(target_length = 0) + 1, s)}
    [] s.pc = "search" -> fast_search(w, s)
    [] s.pc = "again" -> {fast_again(w, s)}

-----------------------------------------------------------------------------
(* The attached dictionary.  No repcode is put aside.                      *)

DictAndPrefixLength(w) == w.start - dict_lo(w)

dms_step_size(target_length) == target_length + One(target_length = 0)

fast_dms_begin(w, target_length, rep, hist) ==
  LET ip0 == w.start + One(DictAndPrefixLength(w) = 0)
  IN  [SearchFrom(w, ip0, rep, Max({rep[1], rep[2]}), hist) EXCEPT !.ip1 = w.start + dms_step_size(target_length)]

fast_dms_outer(w, step_size, s) ==
  IF s.ip1 > ilimit(w) THEN [Touch(s, {}, {}) EXCEPT !.pc = "done"]
  ELSE [Touch(s, {s.ip}, {}) EXCEPT !.pc = "search", !.step = step_size, !.next = s.ip + StepIncr]

fast_dms_fill(w, s, curr) ==
  LET fill == IF s.ip <= ilimit(w) THEN {curr + 2, s.ip - 2} ELSE {}
  IN  [Touch(s, fill \cup {s.ip1}, fill \cup {curr}) EXCEPT !.pc = "again"]

fast_dms_rep(w, s) ==
  LET rep_index == s.ip + 1 - s.o1
      len == MinMatch + count_dms(w, s.ip + 1 + MinMatch, rep_index + MinMatch)
  IN  fast_dms_fill(w, Store(w, s, s.ip + 1, REPCODE1_TO_OFFBASE, len), s.ip)

fast_dms_rep_hit(w, rep_index, ip) ==
  /\ dms_rep_candidate(w, rep_index, ip)
  /\ read32(dms_rep_source(w, rep_index), rep_index) = read32(w.src, ip)

fast_dms_dict(w, s, d) ==
  LET len == MinMatch + count_2segments(w, s.ip + MinMatch, d + MinMatch)
      back == catch_up(w, s.ip, w.dict, d, s.anchor, dict_lo(w))
  IN  fast_dms_fill(w, StoreOffset(w, s, s.ip - back, s.ip - d, len + back), s.ip)

fast_dms_frame(w, s, m) ==
  LET len == MinMatch + count(w, s.ip + MinMatch, m + MinMatch)
      back == catch_up(w, s.ip, w.src, m, s.anchor, w.dict_limit)
  IN  fast_dms_fill(w, StoreOffset(w, s, s.ip - back, s.ip - m, len + back), s.ip)

fast_dms_advance(w, s) ==
  LET grow == s.ip1 >= s.next
      step == s.step + One(grow)
      t == [s EXCEPT !.ip = s.ip1, !.ip1 = @ + step, !.step = step,
                     !.next = IF grow THEN @ + StepIncr ELSE @,
                     !.pc = IF s.ip1 + step > ilimit(w) THEN "done" ELSE "search"]
  IN  Touch(t, {s.ip1}, {s.ip})

\* The dictionary's candidate is taken only where the frame's is none.
fast_dms_search(w, s) ==
  LET Found(m, d) ==
        IF /\ d > dict_lo(w) /\ m <= w.dict_limit
           /\ read32(w.dict, d) = read32(w.src, s.ip)
        THEN fast_dms_dict(w, s, d)
        ELSE IF match4_found(w, s.ip, m, w.dict_limit) THEN fast_dms_frame(w, s, m)
        ELSE fast_dms_advance(w, s)
  IN  IF fast_dms_rep_hit(w, s.ip + 1 - s.o1, s.ip + 1) THEN {fast_dms_rep(w, s)}
      ELSE {Found(m, d) : m \in Slots(w), d \in DictSlots(w)}

fast_dms_again(w, step_size, s) ==
  LET rep_index2 == s.ip - s.o2
  IN  IF s.ip <= ilimit(w) /\ fast_dms_rep_hit(w, rep_index2, s.ip)
      THEN Touch(StoreAgain(w, s, MinMatch + count_dms(w, s.ip + MinMatch, rep_index2 + MinMatch)),
                 {s.ip}, {s.ip})
      ELSE [Touch(s, {}, {}) EXCEPT !.pc = "start", !.ip1 = s.ip + step_size]

fast_dms_steps(w, target_length, s) ==
  LET step_size == dms_step_size(target_length)
  IN  CASE s.pc = "start" -> {fast_dms_outer(w, step_size, s)}
        [] s.pc = "search" -> fast_dms_search(w, s)
        [] s.pc = "again" -> {fast_dms_again(w, step_size, s)}
=============================================================================
