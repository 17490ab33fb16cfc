----------------------------- MODULE MCFinders ------------------------------
(***************************************************************************)
(* The match finders' block loops, on every short text in a few windows.   *)
(***************************************************************************)
EXTENDS FastFinder, DoubleFastFinder, LazyFinder

VARIABLES case,      \* the loop and its input
          result     \* the state of the search, Pending before

vars == <<case, result>>
Pending == [pending |-> TRUE]

(***************************************************************************)
(* Block finders: texts of a few words, searched from their start or later *)
(* on in a short window, or after a dictionary, loaded or attached; with   *)
(* the repeat offsets the decoder has, or none yet in a later job.         *)
(***************************************************************************)
TextStart == 2
TextEnd == TextStart + 17
TextWords == {<<0, 0, 0>>, <<0, 0, 1>>, <<1, 0, 0>>}
Texts == {a \o b \o c \o d \o e \o <<0, 0>> : a, b, c, d, e \in TextWords}
TextFrom(text, from, to) == [i \in from..to-1 |-> text[i - TextStart + 1]]

Place(start, size, dict, attached) ==
  [start |-> TextStart + start, size |-> size, dict |-> TextStart + dict, attached |-> attached]
Alone == {Place(0, 32, 0, FALSE), Place(4, 6, 0, FALSE)}
Loaded == {Place(4, 32, 4, FALSE), Place(5, 32, 4, FALSE)}
Attached == {Place(6, 32, 6, TRUE), Place(7, 32, 6, TRUE)}

FinderWindowOf(c) ==
  [low |-> TextStart, dict_limit |-> c.at.dict, loaded |-> c.at.dict > TextStart, size |-> c.at.size,
   start |-> c.at.start, end |-> TextEnd,
   src |-> TextFrom(c.text, IF c.at.attached THEN c.at.dict ELSE TextStart, TextEnd),
   dict |-> IF c.at.attached THEN TextFrom(c.text, TextStart, c.at.dict) ELSE [i \in {} |-> 0]]

\* The loops, and the target length or the depth each runs with.
FindCases ==
  UNION {[alg : {"find"}, loop : {l.loop}, with : l.with, at : l.at, text : Texts, reps : l.reps] :
    l \in {[loop |-> "fast", with |-> {0, 3}, at |-> Alone, reps |-> {<<1, 4, 8>>, <<9, 3, 2>>, <<0, 0, 0>>}],
           [loop |-> "fast", with |-> {0}, at |-> Loaded, reps |-> {<<1, 4, 8>>, <<9, 3, 2>>}],
           [loop |-> "fast_dms", with |-> {0, 2}, at |-> Attached, reps |-> {<<1, 4, 8>>, <<9, 3, 2>>}],
           [loop |-> "dfast", with |-> {0}, at |-> Alone, reps |-> {<<1, 4, 8>>, <<9, 3, 2>>, <<0, 0, 0>>}],
           [loop |-> "dfast_ext", with |-> {0}, at |-> Loaded, reps |-> {<<1, 4, 8>>, <<9, 3, 2>>}],
           [loop |-> "dfast_dms", with |-> {0}, at |-> Attached, reps |-> {<<1, 4, 8>>, <<9, 3, 2>>}],
           [loop |-> "lazy", with |-> {0, 1, 2}, at |-> Alone, reps |-> {<<9, 3, 2>>, <<0, 0, 0>>}],
           [loop |-> "lazy", with |-> {0, 1, 2}, at |-> Loaded, reps |-> {<<1, 4, 8>>, <<9, 3, 2>>}]}}

FindBegin(c, w) ==
  LET hist == IF c.reps[1] = 0 THEN <<2, 3, 5>> ELSE c.reps
  IN  CASE c.loop = "fast" -> fast_begin(w, c.reps, hist)
        [] c.loop = "fast_dms" -> fast_dms_begin(w, c.with, c.reps, hist)
        [] c.loop = "dfast" -> dfast_begin(w, c.reps, hist)
        [] c.loop = "dfast_ext" -> dfast_ext_begin(w, c.reps, hist)
        [] c.loop = "dfast_dms" -> dfast_dms_begin(w, c.reps, hist)
        [] c.loop = "lazy" -> lazy_begin(w, c.reps, hist)

FindSteps(c, w, s) ==
  CASE c.loop = "fast" -> fast_steps(w, c.with, s)
    [] c.loop = "fast_dms" -> fast_dms_steps(w, c.with, s)
    [] c.loop = "dfast" -> dfast_steps(w, s)
    [] c.loop = "dfast_ext" -> dfast_ext_steps(w, s)
    [] c.loop = "dfast_dms" -> dfast_dms_steps(w, s)
    [] c.loop = "lazy" -> lazy_steps(w, HashReadSize, c.with, s)

Find ==
  /\ result = Pending
  /\ result' = FindBegin(case, FinderWindowOf(case))
  /\ UNCHANGED case

FindNext ==
  /\ result # Pending
  /\ result.pc # "done"
  /\ result' \in FindSteps(case, FinderWindowOf(case), result)
  /\ UNCHANGED case

(***************************************************************************)
(* Whatever the tables hold, a search stores only matches the decoder      *)
(* finds again: resolved through its own repeat history, each one names    *)
(* bytes of the window equal to the ones it stands for, and together with  *)
(* the literals they cover the block up to the anchor.  No position is     *)
(* hashed whose word crosses the block's end, none is entered from which   *)
(* the search goes on, and the offsets handed to the next block, the ones  *)
(* put aside included, are the decoder's, or unknown where they were.      *)
(***************************************************************************)
ParsesDecode ==
  result # Pending =>
    LET s == result
        saved == saved_reps(s)
    IN  /\ s.dec.ok /\ s.dec.pos = s.anchor /\ s.anchor <= TextEnd
        /\ \A p \in s.hashed \cup s.entered : p + HashReadSize <= TextEnd
        /\ \A p \in s.entered : p < s.ip
        /\ s.pc = "done" =>
             \A i \in 1..2 : saved[i] = s.dec.hist[i] \/ (saved[i] = 0 /\ case.reps[i] = 0)

-----------------------------------------------------------------------------
Init == case \in FindCases /\ result = Pending
Next == Find \/ FindNext
Spec == Init /\ [][Next]_vars
=============================================================================
