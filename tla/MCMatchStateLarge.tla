------------------------- MODULE MCMatchStateLarge -------------------------
(* MatchState in units of 256 MiB, in which CurrentMax is 13 and u32 has   *)
(* 16 values: the largest window and indexed suffix any level gives take   *)
(* one unit or less, while a prefix may have any length, so CorrectionRoom *)
(* does not hold.                                                          *)
EXTENDS MatchState

Large == [window |-> 1, cycle |-> 1, dictMax |-> 1, need |-> 1,
          layout |-> [hash |-> {0}, chain |-> {}, hash3 |-> {}, tags |-> {},
                      indexEnd |-> 1, words |-> 1],
          bt |-> FALSE, ultra |-> FALSE]

LargeParams == {Large}
=============================================================================
