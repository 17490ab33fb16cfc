-------------------------- MODULE MCCompressStream --------------------------
(* Small instances of CompressStream: a window and a block of two bytes,   *)
(* so that the buffer of eight moves within an input of ten.               *)
EXTENDS CompressStream

AllBytes == 1..MaxInput
Odd == {b \in AllBytes : b % 2 = 1}

\* Incompressible, and blocks that gain late, some of them cut.
Contents == {[cut |-> {}, gain |-> {}],
             [cut |-> Odd, gain |-> {b \in AllBytes : b > 2}]}
=============================================================================
