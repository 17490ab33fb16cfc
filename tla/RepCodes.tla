----------------------------- MODULE RepCodes -----------------------------
(***************************************************************************)
(* Repeat offsets.  A history is a triple of offsets, 0 standing for one   *)
(* the encoder does not know.  A sequence names its offset by an offBase:  *)
(* 1 to 3 for a repcode, the offset plus 3 for a new one, with ll0 when no *)
(* literals come before its match.                                         *)
(*                                                                         *)
(* The encoder's side is update_rep (src/src/compress/seqstore.rs), the    *)
(* two histories of a split block (src/src/compress/split.rs) and what the *)
(* block compressors keep of a history while they search; the decoder's is *)
(* decode_sequence (src/src/decode.rs).                                    *)
(***************************************************************************)
EXTENDS Integers, Sequences, SequencesExt

RepNum == 3

OffsetToOffbase(offset) == offset + RepNum
OffbaseIsRepcode(ob) == ob \in 1..RepNum

Ll0(ll0) == IF ll0 THEN 1 ELSE 0

\* rep[0] - 1 below zero stands for the wrapped value, no match's offset.
RepAt(rep, code) == IF code = RepNum THEN rep[1] - 1 ELSE rep[code + 1]

UpdateRep(rep, ob, ll0) ==
    IF ~OffbaseIsRepcode(ob) THEN <<ob - RepNum, rep[1], rep[2]>>
    ELSE LET code == ob - 1 + Ll0(ll0)
         IN  IF code = 0 THEN rep
             ELSE <<RepAt(rep, code), rep[1], IF code >= 2 THEN rep[2] ELSE rep[3]>>

UpdateReps(rep, seqs) ==
    FoldLeft(LAMBDA r, s : UpdateRep(r, s.ob, s.ll0), rep, seqs)

ResolveRepcode(rep, ob, ll0) == RepAt(rep, ob - 1 + Ll0(ll0))

\* Mutant of ResolveOffCodes: a repcode is kept whatever the decoder holds.
ResolveNothing(d, c, seqs) ==
    [d |-> UpdateReps(d, seqs), c |-> UpdateReps(c, seqs), seqs |-> seqs]

\* A sequence of a partition, in the decoder's history acc.d and the finder's
\* acc.c: a repcode that names another offset there is written as its offset.
ResolveOffCode(acc, s) ==
    LET cRaw == ResolveRepcode(acc.c, s.ob, s.ll0)
        w    == IF OffbaseIsRepcode(s.ob)
                   /\ ResolveRepcode(acc.d, s.ob, s.ll0) # cRaw
                THEN [s EXCEPT !.ob = OffsetToOffbase(cRaw)] ELSE s
    IN  [d    |-> UpdateRep(acc.d, w.ob, s.ll0),
         c    |-> UpdateRep(acc.c, s.ob, s.ll0),
         seqs |-> Append(acc.seqs, w)]

\* Both histories through a partition, and its sequences as they are written.
ResolveOffCodes(d, c, seqs) ==
    FoldLeft(ResolveOffCode, [d |-> d, c |-> c, seqs |-> <<>>], seqs)

-----------------------------------------------------------------------------
(* The block compressors.  A search is a record of what it found, the      *)
(* history it keeps, and whether the moves so far are moves it can make; a *)
(* move says what the next sequence is.  raw is the offset the match was   *)
(* found at, for the properties: it is not written.                        *)

Sequence(ob, ll0, raw) == [ob |-> ob, ll0 |-> ll0, raw |-> raw]

\* fast, dfast and the lazy searches keep two offsets, o1 and o2, 0 while
\* out of the window's reach, which are saved in s1 and s2 to be given back.
TwoStart(rep, reach, seqs) ==
    [o1 |-> IF rep[1] > reach THEN 0 ELSE rep[1],
     o2 |-> IF rep[2] > reach THEN 0 ELSE rep[2],
     s1 |-> IF rep[1] > reach THEN rep[1] ELSE 0,
     s2 |-> IF rep[2] > reach THEN rep[2] ELSE 0,
     r3 |-> rep[3], first |-> TRUE, ok |-> TRUE, seqs |-> seqs]

TwoFinish(f) ==
    LET s2 == IF f.s1 # 0 /\ f.o1 # 0 THEN f.s1 ELSE f.s2
    IN  <<IF f.o1 # 0 THEN f.o1 ELSE f.s1, IF f.o2 # 0 THEN f.o2 ELSE s2, f.r3>>

\* A long distance match ends the search of the literals before it; the next
\* search starts from its offset and the ones handed back, at its own reach.
LdmStep(f, m) ==
    LET rep == TwoFinish(f)
        seq == Sequence(OffsetToOffbase(m.off), m.ll0, m.off)
    IN  [TwoStart(<<m.off, rep[1], rep[2]>>, m.reach, Append(f.seqs, seq))
           EXCEPT !.ok = f.ok]

RepTried(offset) == offset > 0

\* A match of the tables; repcode 1 after literals; right after a match, the
\* second offset, which repcode 1 then names; or a long distance match.
TwoStep(f, m) ==
    LET found(ob, raw) == Append(f.seqs, Sequence(ob, m.ll0, raw))
        new == found(OffsetToOffbase(m.off), m.off)
    IN  CASE m.what = "offset" ->
               [f EXCEPT !.o2 = f.o1, !.o1 = m.off, !.first = FALSE, !.seqs = new]
          [] m.what = "rep" ->
               [f EXCEPT !.ok = @ /\ RepTried(f.o1),
                         !.first = FALSE, !.seqs = found(1, f.o1)]
          [] m.what = "again" ->
               [f EXCEPT !.ok = @ /\ ~f.first /\ RepTried(f.o2),
                         !.o1 = f.o2, !.o2 = f.o1, !.seqs = found(1, f.o2)]
          [] m.what = "ldm" -> LdmStep(f, m)

RepCandidate(raw, reach) == raw \in 1..reach

\* The optimal parsers keep all three offsets.
ThreeStep(f, m, reach) ==
    LET rep == m.what = "rep"
        raw == IF rep THEN ResolveRepcode(f.rep, m.code, m.ll0) ELSE m.off
        ob  == IF rep THEN m.code ELSE OffsetToOffbase(m.off)
    IN  [rep  |-> UpdateRep(f.rep, ob, m.ll0),
         ok   |-> f.ok /\ (rep => RepCandidate(raw, reach)),
         seqs |-> Append(f.seqs, Sequence(ob, m.ll0, raw))]

\* What a block compressor run through the moves leaves: the sequences, and
\* the history it hands back.
Search(three, rep, reach, moves) ==
    IF three
    THEN FoldLeft(LAMBDA f, m : ThreeStep(f, m, reach),
                  [rep |-> rep, ok |-> TRUE, seqs |-> <<>>], moves)
    ELSE LET f == FoldLeft(LAMBDA g, m : TwoStep(g, m),
                           TwoStart(rep, reach, <<>>), moves)
         IN  [rep |-> TwoFinish(f), ok |-> f.ok, seqs |-> f.seqs]

-----------------------------------------------------------------------------
(* The decoder.                                                            *)

\* The history after a sequence, whose offset is then the first of it.  A
\* repcode that names 0 is forced to an offset execution rejects, -1 here.
DecodeSequence(hist, ob, ll0) ==
    IF ob > RepNum THEN <<ob - RepNum, hist[1], hist[2]>>
    ELSE IF ob = 1
         THEN IF ll0 THEN <<hist[2], hist[1], hist[3]>> ELSE hist
         ELSE LET o    == ob - 1 + Ll0(ll0)
                  temp == RepAt(hist, o)
              IN  <<IF temp = 0 THEN -1 ELSE temp, hist[1],
                    IF o # 1 THEN hist[2] ELSE hist[3]>>

\* The same, with the offset noted.
DecodeOffset(d, s) ==
    LET h == DecodeSequence(d.hist, s.ob, s.ll0)
    IN  [hist |-> h, offs |-> Append(d.offs, h[1])]

\* The history after the sequences of a block, and the offset of each.
DecodeSequences(hist, seqs) ==
    FoldLeft(DecodeOffset, [hist |-> hist, offs |-> <<>>], seqs)

=============================================================================
