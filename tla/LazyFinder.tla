----------------------------- MODULE LazyFinder -----------------------------
(***************************************************************************)
(* The greedy and lazy block compressors' loop, without a dictionary and   *)
(* with one in the window (lazy_generic of src/src/compress/lazy.rs).  The *)
(* searches behind it (hash chains, rows of tags, the sorted tree) each    *)
(* give a candidate the longest of those they visit: here any index in the *)
(* window, or none.  A step is one round of the loop, of the search for a  *)
(* better match at the next positions, or of the immediate repcode loop.   *)
(***************************************************************************)
EXTENDS FinderWindow

LOCAL Reps == INSTANCE RepCodes

has_ext_dict(w) == w.low < w.dict_limit

\* A position the search cannot start from: the input's first, or the window's.
lazy_prefix_lowest(w) == IF has_ext_dict(w) THEN w.dict_limit ELSE w.low

lazy_limit(w, margin) == Max({0, w.end - margin})

\* ExtDict keeps a repcode out of reach, and does not try it.
rep_ok(w, curr, offset) ==
  has_ext_dict(w) => /\ index_overlap_check(lazy_prefix_lowest(w), curr - offset)
                     /\ offset <= curr - lowest_match_index(w, curr)

match_start(w, idx) ==
  IF has_ext_dict(w) /\ idx < lazy_prefix_lowest(w) THEN w.low ELSE lazy_prefix_lowest(w)

lazy_begin(w, rep, hist) ==
  LET ip == w.start + One(w.start = lazy_prefix_lowest(w))
      max_rep == IF has_ext_dict(w) THEN Max({rep[1], rep[2]}) ELSE ip - lowest_match_index(w, ip)
  IN  SearchFrom(w, ip, rep, max_rep, hist) @@ [best |-> [len |-> 0, ob |-> 1, start |-> 0]]

highbit32(v) == CHOOSE k \in 0..v : 2^k <= v /\ v < 2^(k + 1)

\* What a search at p finds: a length below the least one stands for nothing.
search_max(w, p) ==
  LET Length(m) == count(w, p, m)
      low == lowest_match_index(w, p)
  IN  {[len |-> MinMatch - 1, ob |-> 999999999]}
      \cup {[len |-> Length(m), ob |-> Reps!OffsetToOffbase(p - m)] :
              m \in {i \in Slots(w) : candidate_valid(i, low, p) /\ Length(i) >= MinMatch}}

lazy_rep_hit(w, s, p) == s.o1 > 0 /\ rep_ok(w, p, s.o1) /\ read32(w.src, p - s.o1) = read32(w.src, p)
RepLength(w, p, offset) == MinMatch + count(w, p + MinMatch, p + MinMatch - offset)

\* Mutant of lazy_store: a repcode match is taken back too.
lazy_store_back(w, s, b) ==
  LET offset == IF b.ob = REPCODE1_TO_OFFBASE THEN s.o1 ELSE b.ob - 3
      back == catch_up(w, b.start, w.src, b.start - offset, s.anchor, match_start(w, b.start - offset))
      t == IF b.ob = REPCODE1_TO_OFFBASE THEN Store(w, s, b.start - back, b.ob, b.len + back)
           ELSE StoreOffset(w, s, b.start - back, offset, b.len + back)
  IN  [t EXCEPT !.pc = "again"]

\* The match settled on, taken back as far as it goes unless a repcode.
lazy_store(w, s, b) ==
  LET offset == b.ob - 3
      back == catch_up(w, b.start, w.src, b.start - offset, s.anchor, match_start(w, b.start - offset))
      t == IF b.ob = REPCODE1_TO_OFFBASE THEN Store(w, s, b.start, b.ob, b.len)
           ELSE StoreOffset(w, s, b.start - back, offset, b.len + back)
  IN  [t EXCEPT !.pc = "again"]

\* The first search, and the repcode one position ahead.
lazy_search(w, margin, depth, s) ==
  LET p == s.ip + 1
      hit == lazy_rep_hit(w, s, p)
      rep == [len |-> IF hit THEN RepLength(w, p, s.o1) ELSE 0, ob |-> REPCODE1_TO_OFFBASE, start |-> p]
      After(found) ==
        LET b == IF found.len > rep.len THEN [len |-> found.len, ob |-> found.ob, start |-> s.ip] ELSE rep
        IN  IF b.len < MinMatch
            THEN [s EXCEPT !.ip = @ + (s.ip - s.anchor) \div SearchStrength + 1]
            ELSE IF depth >= 1 THEN [s EXCEPT !.pc = "better", !.best = b]
            ELSE lazy_store(w, s, b)
  IN  IF s.ip >= lazy_limit(w, margin) THEN {[s EXCEPT !.pc = "done"]}
      ELSE IF hit /\ depth = 0 THEN {lazy_store(w, s, rep)}
      ELSE {After(found) : found \in search_max(w, s.ip)}

\* The repcode at p instead of the best so far, when it gains more.
lazy_try_rep(w, s, b, p, weight) ==
  LET len == RepLength(w, p, s.o1)
  IN  IF lazy_rep_hit(w, s, p) /\ len * weight > b.len * weight - highbit32(b.ob) + 1
      THEN [len |-> len, ob |-> REPCODE1_TO_OFFBASE, start |-> p] ELSE b

\* Is a match found at a later position worth its literals?
lazy_better(b, found, literals) ==
  found.len >= MinMatch /\ found.len * 4 - highbit32(found.ob) > b.len * 4 - highbit32(b.ob) + literals

\* One or, for depth 2, two positions further on.
lazy_deepen(w, margin, depth, s) ==
  LET p == s.ip + 1
      b1 == lazy_try_rep(w, s, s.best, p, 3)
      b2 == lazy_try_rep(w, s, b1, p + 1, 4)
      Take(found, at) == [s EXCEPT !.ip = at, !.best = [len |-> found.len, ob |-> found.ob, start |-> at]]
      Second == {IF lazy_better(b2, f, 7) THEN Take(f, p + 1) ELSE lazy_store(w, s, b2) :
                   f \in search_max(w, p + 1)}
      After(f) == IF lazy_better(b1, f, 4) THEN {Take(f, p)}
                  ELSE IF depth = 2 /\ p < lazy_limit(w, margin) THEN Second
                  ELSE {lazy_store(w, s, b1)}
  IN  IF s.ip >= lazy_limit(w, margin) THEN {lazy_store(w, s, s.best)}
      ELSE UNION {After(f) : f \in search_max(w, p)}

lazy_again(w, margin, s) ==
  IF /\ s.ip <= lazy_limit(w, margin) /\ s.o2 > 0 /\ rep_ok(w, s.ip, s.o2)
     /\ read32(w.src, s.ip) = read32(w.src, s.ip - s.o2)
  THEN StoreAgain(w, s, RepLength(w, s.ip, s.o2))
  ELSE [s EXCEPT !.pc = "start"]

lazy_steps(w, margin, depth, s) ==
  CASE s.pc = "start" -> lazy_search(w, margin, depth, s)
    [] s.pc = "better" -> lazy_deepen(w, margin, depth, s)
    [] s.pc = "again" -> {lazy_again(w, margin, s)}
=============================================================================
