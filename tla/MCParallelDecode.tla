-------------------------- MODULE MCParallelDecode --------------------------
(***************************************************************************)
(* Frames of two and three blocks for ParallelDecode: blocks that describe *)
(* their tables or repeat earlier ones, raw blocks, blocks without         *)
(* sequences, corrupt ones; an unread block may change between two calls.  *)
(***************************************************************************)
EXTENDS ParallelDecode

Comp(huf, fse, fault) == [kind |-> "comp", huf |-> huf, fse |-> fse, fault |-> fault]

Kinds ==
    [own      |-> Comp("own", "own", "none"),
     repeat   |-> Comp("repeat", "repeat", "none"),
     mixed    |-> Comp("own", "repeat", "none"),
     treeless |-> Comp("repeat", "none", "none"),
     badlit   |-> Comp("own", "own", "lit"),
     badseq   |-> Comp("repeat", "own", "seq"),
     badexec  |-> Comp("none", "own", "exec"),
     raw      |-> [kind |-> "raw", huf |-> "none", fse |-> "none", fault |-> "none"],
     reserved |-> [kind |-> "reserved", huf |-> "none", fse |-> "none", fault |-> "none"]]

Block(p, v, k, last) ==
    [at |-> p, v |-> v, kind |-> Kinds[k].kind, huf |-> Kinds[k].huf, fse |-> Kinds[k].fse,
     fault |-> Kinds[k].fault, last |-> last]

Shapes ==
    {<<"own", "repeat">>, <<"own", "badlit">>, <<"own", "repeat", "repeat">>,
     <<"own", "mixed", "badseq">>, <<"raw", "own", "mixed">>, <<"own", "treeless", "badexec">>,
     <<"repeat", "raw", "raw">>, <<"own", "reserved", "raw">>}

MCFrames == {[p \in DOMAIN k |-> Block(p, 0, k[p], p = Len(k))] : k \in Shapes}

\* The second block may change: to other content of the same kind, or in a
\* frame of two to one that describes both tables.
MCVariant(b) ==
    IF b.at = 2 /\ b.last THEN {Block(2, 1, "own", TRUE)}
    ELSE IF b.at = 2 /\ b.huf = "own" /\ b.fse = "own" THEN {[b EXCEPT !.v = 1]}
    ELSE {}
=============================================================================
