----------------------------- MODULE BitStreams -----------------------------
(***************************************************************************)
(* The two ends of the backward bit streams that carry FSE and Huffman     *)
(* codes: the writer of src/src/bitstream.rs and the reader of             *)
(* src/src/decode.rs (BitDStream).  A stream is a sequence of bits, the    *)
(* low bit of its first byte first.                                        *)
(***************************************************************************)
EXTENDS Integers, Sequences, SequencesExt, FiniteSets, FiniteSetsExt, TLC

\* f itself, as a table that is evaluated once.
Tabulate(f) == f @@ <<>>

\* FoldLeft in a number of steps linear in the sequence's length; 16 elements
\* at a time, each from a value already computed, so that TLC nests no deeper.
FoldSixteen(op(_, _), base, seq, k) ==
  LET upTo[i \in 0..16] == IF i = 0 THEN base ELSE op(upTo[i - 1], seq[16 * k + i])
  IN  upTo[Min({16, Len(seq) - 16 * k})]

Fold(op(_, _), base, seq) ==
  LET chunks[k \in 0..(Len(seq) + 15) \div 16] ==
        IF k = 0 THEN base ELSE CHOOSE r \in {FoldSixteen(op, b, seq, k - 1) : b \in {chunks[k - 1]}} : TRUE
  IN  chunks[(Len(seq) + 15) \div 16]

Pow2 == Tabulate([k \in 0..30 |-> 2^k])

\* The n low bits of v, and the number a sequence of bits stands for.
Bits(v, n) == [i \in 1..n |-> (v \div Pow2[i-1]) % 2]
ValueOf(b) ==
  LET upTo[i \in 0..Len(b)] == IF i = 0 THEN 0 ELSE upTo[i - 1] + b[i] * Pow2[i - 1]
  IN  upTo[Len(b)]
Value(bits) == ValueOf(bits \o <<>>)

Zeros(n) == [i \in 1..n |-> 0]
Ones(n) == [i \in 1..n |-> 1]
Bytes(bits) == Len(bits) \div 8
ByteAt(bits, i) == Value(SubSeq(bits, 8 * i + 1, 8 * i + 8))
From(bits, i) == SubSeq(bits, 8 * i + 1, Len(bits))
PadToByte(bits) == bits \o Zeros((-Len(bits)) % 8)

\* Position of the highest set bit, counted from 0.
highest_bit(v) == Cardinality({k \in 1..30 : Pow2[k] <= v})

-----------------------------------------------------------------------------
(* BitCStream.  held is the bits of the 64-bit container not yet written,  *)
(* out the whole bytes before them; fits says that no bit was ever added   *)
(* past the container's end.                                               *)

capacity_for(bits) == (bits + 7) \div 8 + 9

BitCStream(capacity) == [out |-> <<>>, held |-> <<>>, end_ptr |-> capacity - 8, fits |-> capacity > 8]

add_bits(w, v, n) ==
  [w EXCEPT !.held = @ \o Bits(v, n), !.fits = @ /\ n < 32 /\ Len(w.held) + n < 64]

\* The whole bytes held are written, as far as the region goes.
KeptTo(end, bits) == SubSeq(bits, 1, Min({Len(bits), end}))

flush_bits(w) ==
  LET n == 8 * (Len(w.held) \div 8)
  IN  [w EXCEPT !.out = KeptTo(8 * w.end_ptr, @ \o SubSeq(w.held, 1, n)),
                !.held = SubSeq(@, n + 1, Len(@))]

\* The end mark is added; an empty stream stands for one that did not fit.
Closed(f) ==
  [fits |-> f.fits, bits |-> IF Bytes(f.out) >= f.end_ptr THEN <<>> ELSE PadToByte(f.out \o f.held)]
close(w) == Closed(flush_bits(add_bits(w, 1, 1)))

-----------------------------------------------------------------------------
(* BitDStream.  The container is the 8 bytes from byte ptr on, zeros past  *)
(* the end of a shorter stream; used bits of it are consumed, from its     *)
(* high end.  status is the verdict of the last reload.                    *)

NoStream == [ok |-> FALSE]

DStream(src) ==
  LET marks == {i \in Len(src) - 7 .. Len(src) : src[i] = 1}
      padding == Len(src) - Max(marks) + 1
      n == Bytes(src)
  IN  IF src = <<>> \/ marks = {} THEN NoStream
      ELSE [ok |-> TRUE, src |-> src, status |-> "Unfinished",
            ptr |-> Max({n - 8, 0}), used |-> padding + 8 * Max({8 - n, 0})]

\* Bit j of the container; a shift past its low end brings zeros in.
ContainerBit(d, j) ==
  IF j >= 0 /\ 8 * d.ptr + j < Len(d.src) THEN d.src[8 * d.ptr + j + 1] ELSE 0

look_bits(d, n) == Value([i \in 1..n |-> ContainerBit(d, 64 - (d.used % 64) - n + i - 1)])
skip_bits(d, n) == [d EXCEPT !.used = @ + n]

\* Move back by whole bytes.
Rewind(d, bytes, status) == [d EXCEPT !.ptr = @ - bytes, !.used = @ - 8 * bytes, !.status = status]

reload(d) ==
  LET n == d.used \div 8
  IN  CASE d.used > 64 -> [d EXCEPT !.status = "Overflow"]
        [] d.used <= 64 /\ d.ptr >= 8 -> Rewind(d, n, "Unfinished")
        [] d.used <= 64 /\ d.ptr = 0 ->
             [d EXCEPT !.status = IF d.used < 64 THEN "EndOfBuffer" ELSE "Completed"]
        [] OTHER -> IF d.ptr < n THEN Rewind(d, d.ptr, "EndOfBuffer") ELSE Rewind(d, n, "Unfinished")

\* The reload of the interleaved loops, which stops at the last 8 bytes.
reload_fast(d) ==
  IF d.ptr < 8 THEN [d EXCEPT !.status = "Overflow"] ELSE Rewind(d, d.used \div 8, "Unfinished")

is_finished(d) == d.ptr = 0 /\ d.used = 64
=============================================================================
