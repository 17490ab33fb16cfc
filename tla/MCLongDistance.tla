--------------------------- MODULE MCLongDistance ---------------------------
(***************************************************************************)
(* The long distance matcher on short texts: generation by units, and the  *)
(* two ways blocks consume the sequences.                                  *)
(***************************************************************************)
EXTENDS LongDistance

VARIABLES case,      \* the text, its hashing and how it is cut
          result     \* the matcher and the blocks' progress, Pending before

vars == <<case, result>>
Pending == [pending |-> TRUE]

(***************************************************************************)
(* Long distance matches: texts of a few pieces, the first of them a       *)
(* loaded dictionary or not, in a window shorter than they are, so that    *)
(* bytes leave it and indices are corrected.  A unit is a block, or a job  *)
(* of several, whose sequences are generated at once; its blocks consume   *)
(* them by cutting the store or by the optimal parser's view of it.        *)
(***************************************************************************)
LdmFirst == 2
LdmWindow == 12
LdmPieces == {<<0, 1, 0, 0, 1, 1, 1>>, <<0, 0, 0, 0, 0, 0>>, <<1, 0, 1, 0, 0, 1, 1, 0>>}
LdmWords == [0 .. LdmMinMatch - 1 -> {0, 1}]

\* All words stop the hash, or those that end in 0; checksums are their own,
\* or collide.
LdmHashings ==
  {[stop |-> {w \in LdmWords : all \/ w[LdmMinMatch - 1] = 0},
    bucket |-> [w \in LdmWords |-> w[0]],
    checksum |-> [w \in LdmWords |-> IF all THEN w[0] + 2 * w[1] + 4 * w[2] ELSE w[0]]] :
     all \in BOOLEAN}

LdmTexts == {LET t == FlattenSeq(s) IN [p \in LdmFirst .. LdmFirst + Len(t) - 1 |-> t[p - LdmFirst + 1]] :
               s \in {q \in [1..5 -> LdmPieces] : q[1] # q[2]}}
LdmEnd(c) == Max(DOMAIN c.text) + 1

LdmCases == [alg : {"ldm"}, text : LdmTexts, hashing : LdmHashings, dict : {0, 9}, frequently : BOOLEAN,
             opt : BOOLEAN, unit : {11, 22}]

StartLdm ==
  /\ result = Pending
  /\ LET l == LdmReset(LdmFirst, case.frequently, LdmWindow, case.hashing)
     IN  result' = [pc |-> "unit", end |-> LdmFirst + case.dict, block |-> LdmFirst + case.dict,
                    store |-> RawSeqStore(<<>>), match |-> NoMatch,
                    ldm |-> IF case.dict = 0 THEN l
                            ELSE load_dict(l, case.text, LdmFirst, LdmFirst + case.dict)]
  /\ UNCHANGED case

LdmAt(pc) == result # Pending /\ result.pc = pc /\ UNCHANGED case

\* The sequences of the next unit.
GenerateLdm ==
  /\ LdmAt("unit") /\ result.end < LdmEnd(case)
  /\ LET end == Min({result.end + case.unit, LdmEnd(case)})
     IN  \E g \in {generate_sequences(result.ldm, case.text, result.end, end, case.unit \div LdmMinMatch)} :
           result' = [result EXCEPT !.pc = "block", !.end = end, !.ldm = g.ldm, !.store = g.store]

\* A block of the unit, or the whole of it.
LdmBlockEnds == {Min({result.block + n, result.end}) : n \in {6, 9, case.unit}}

StartLdmBlock ==
  /\ LdmAt("block") /\ result.block < result.end
  /\ \E to \in LdmBlockEnds :
       result' = IF case.opt
                 THEN [result EXCEPT !.pc = "opt", !.match = NoMatch] @@
                      [to |-> to, cur |-> -1, view |-> OptLdmNew(result.store, to - result.block)]
                 ELSE [result EXCEPT !.pc = "cut", !.match = NoMatch] @@
                      [to |-> to, b |-> LdmBlock(result.store, result.block, to)]

BlockDone(r, store) ==
  [pc |-> "block", end |-> r.end, block |-> r.to, store |-> store, match |-> NoMatch, ldm |-> r.ldm]

CutLdm ==
  /\ LdmAt("cut")
  /\ \E b \in {ldm_block_step(result.b)} :
       result' = IF b.done THEN BlockDone(result, b.store)
                 ELSE [result EXCEPT !.b = b, !.store = b.store, !.match = b.stored]

\* The optimal parser looks at a later position, or is done with the block.
OptLdm ==
  /\ LdmAt("opt")
  /\ \/ \E cur \in result.cur + 1 .. result.to - result.block - HashReadSize :
          LET o == process_match_candidate(result.view, cur, result.to - result.block - cur)
              m == Offer(result.view, o, cur)
          IN  result' = [result EXCEPT !.cur = cur, !.view = o, !.match = [m EXCEPT !.at = @ + result.block]]
     \/ result' = BlockDone(result, skip_bytes(result.store, result.to - result.block))

UnitDone ==
  /\ LdmAt("block") /\ result.block = result.end
  /\ result' = [result EXCEPT !.pc = "unit"]

(***************************************************************************)
(* A long match names bytes equal to its own, nearer than a window or in a *)
(* dictionary that is still in reach: each one a block stores or offers    *)
(* the parser, and each that is left in the store, counted from where the  *)
(* blocks are, however they cut the sequences before it.  One that is      *)
(* stored or offered is no shorter than a match and stays in its block.    *)
(***************************************************************************)
LongMatchesHold ==
  result # Pending =>
    LET r == result
        src == case.text
        input == LdmFirst + case.dict
        Holds(at, offset, len) ==
          /\ offset > 0 /\ (offset < LdmWindow \/ at + len <= input + LdmWindow)
          /\ \A p \in at .. at + len - 1 : p - offset \in DOMAIN src /\ src[p] = src[p - offset]
        at == IF r.pc = "cut" THEN r.b.ip ELSE r.block
        st == r.store
        left == SubSeq(st.seqs, st.pos, Len(st.seqs))
        Before(i) == MapThenSumSet(LAMBDA j : SeqLen(left[j]), 1 .. i - 1)
        MatchAt(i) == at + Before(i) + left[i].lit - st.pos_in_sequence
    IN  /\ r.match.offset # 0 => /\ Holds(r.match.at, r.match.offset, r.match.len)
                                 /\ r.match.len >= MinMatch /\ r.match.at + r.match.len <= r.to
        /\ r.pc # "unit" =>
             \A i \in DOMAIN left : /\ Holds(MatchAt(i), left[i].offset, left[i].match)
                                    /\ MatchAt(i) + left[i].match <= r.end

-----------------------------------------------------------------------------
Init == case \in LdmCases /\ result = Pending
Next == StartLdm \/ GenerateLdm \/ StartLdmBlock \/ CutLdm \/ OptLdm \/ UnitDone
Spec == Init /\ [][Next]_vars
=============================================================================
