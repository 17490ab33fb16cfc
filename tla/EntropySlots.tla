---------------------------- MODULE EntropySlots ----------------------------
(***************************************************************************)
(* The entropy tables an encoder shares with the decoder across blocks:    *)
(* Slots of src/src/compress/entropy.rs, and which table the two section   *)
(* coders take (src/src/huf.rs, src/src/fse.rs).                           *)
(*                                                                         *)
(* A table is the set of symbols it has codes for.  "huf" is the literals' *)
(* Huffman table, "of" the offset codes' FSE table; the literal and match  *)
(* length tables go the way of "of", but for the demotion, which they do   *)
(* not need: a dictionary's are valid only if they code every symbol.      *)
(* A coding says how a section is written (mode), the table it is coded    *)
(* with, and what the attempt leaves in the spare slot.                    *)
(***************************************************************************)
EXTENDS Integers, FiniteSets

CONSTANTS
    Tables,         \* the tables modelled, a subset of {"huf", "of"}
    DefaultMaxOff,  \* DEFAULT_MAX_OFF: the largest code of the default table
    Heuristic       \* strategy < Lazy: tables are chosen without their costs

ASSUME SlotConstants ==
    /\ Tables \subseteq {"huf", "of"} /\ DefaultMaxOff \in Nat
    /\ Heuristic \in BOOLEAN

NoTable == {}
Repeats == {"None", "Check", "Valid"}

Slots(table, mode) == [slots |-> <<table, NoTable>>, cur |-> 1, mode |-> mode]

NoSlots == Slots(NoTable, "None")

HeldTable(s) == s.slots[s.cur]
Spare(s) == 3 - s.cur

\* Mutant of Commit: the new table is taken where the old one is.
CommitInPlace(s, next) ==
    CASE next = "Keep" -> s
      [] next = "None" -> [s EXCEPT !.mode = "None"]
      [] next = "New"  -> [s EXCEPT !.mode = "Check"]

Commit(s, next) ==
    CASE next = "Keep" -> s
      [] next = "None" -> [s EXCEPT !.mode = "None"]
      [] next = "New"  -> [s EXCEPT !.cur = Spare(s), !.mode = "Check"]

DemoteValid(s) == [s EXCEPT !.mode = IF @ = "Valid" THEN "Check" ELSE @]

Clear(s) == [s EXCEPT !.mode = "None"]

Load(s, from) ==
    [s EXCEPT !.mode = from.mode,
              !.slots[s.cur] = IF from.mode = "None" THEN @ ELSE HeldTable(from)]

\* What an attempt to code a section leaves in the spare slot.
Build(s, coding) == [s EXCEPT !.slots[Spare(s)] = coding.spare]

-----------------------------------------------------------------------------
(* The section coders.                                                     *)

Coding(mode, table, spare) == [mode |-> mode, table |-> table, spare |-> spare]

\* What a coded section does to the decoder's table: the Next of its mode.
NextOf(coding) ==
    CASE coding.mode = "New" -> "New"
      [] coding.mode \in {"Basic", "Rle"} -> "None"
      [] OTHER -> "Keep"

\* compress_literals_with: raw or RLE literals, with a table tried for them
\* or not; the held table, checked unless it is valid; or a new one, unless
\* there is one symbol only.
LiteralCodings(s, lits) ==
    LET kept == s.slots[Spare(s)]
        many == Cardinality(lits) > 1
        tried == IF many THEN {kept, lits} ELSE {kept}
        repeats == s.mode = "Valid" \/ (s.mode = "Check" /\ lits \subseteq HeldTable(s))
    IN  {Coding("Raw", NoTable, t) : t \in tried}
        \cup (IF repeats THEN {Coding("Repeat", HeldTable(s), t) : t \in tried} ELSE {})
        \cup (IF many THEN {Coding("New", lits, lits)} ELSE {})

\* build_seq_table: nothing without sequences; the default or an RLE table
\* where one code covers all of them, else the default, the held or a new
\* one.  The heuristic path repeats only a valid table, and does not look at
\* its codes; the cost path one that has a cost, that is, every code.
CodeCodings(s, codes) ==
    LET kept    == s.slots[Spare(s)]
        default == 0..DefaultMaxOff
        allowed == codes \subseteq default
        basic   == IF allowed THEN {Coding("Basic", default, default)} ELSE {}
        repeats == IF Heuristic THEN allowed /\ s.mode = "Valid"
                   ELSE s.mode # "None" /\ codes \subseteq HeldTable(s)
    IN  IF codes = {} THEN {Coding("Raw", NoTable, kept)}
        ELSE IF Cardinality(codes) = 1 THEN basic \cup {Coding("Rle", codes, codes)}
        ELSE basic \cup {Coding("New", codes, codes)}
             \cup (IF repeats THEN {Coding("Repeat", HeldTable(s), kept)} ELSE {})

Codings(t, s, need) ==
    IF t = "huf" THEN LiteralCodings(s, need) ELSE CodeCodings(s, need)

-----------------------------------------------------------------------------
(* The decoder's table after a section, the one it decoded it with being   *)
(* the same: Repeat keeps it, as raw and RLE literals and a section without*)
(* sequences do, and every other mode brings its own.                      *)

DecodedWith(held, coding) ==
    IF coding.mode \in {"Raw", "Repeat"} THEN held ELSE coding.table

=============================================================================
