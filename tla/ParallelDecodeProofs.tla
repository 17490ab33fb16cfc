------------------------ MODULE ParallelDecodeProofs ------------------------
(***************************************************************************)
(* The multi-threaded block decoder decodes what the serial one does, for  *)
(* every frame, any number of workers and blocks planned ahead, and any    *)
(* interleaving of the executing thread and the pool's tasks.              *)
(***************************************************************************)
EXTENDS ParallelDecodeInv, RepCodesProofs, FiniteSetTheorems, SequenceTheorems

-----------------------------------------------------------------------------
(* The constants.                                                          *)

(* There is at least one block to plan ahead.                              *)
LEMMA DepthType == Depth \in Nat /\ Depth >= 1 /\ MaxCells \in Nat /\ 2 * Depth <= MaxCells
<1>1. Cardinality(Workers) \in Nat /\ Cardinality(Workers) # 0
  BY PoolAssumption, FS_CardinalityType, FS_EmptySet
<1>2. Ahead \in Nat /\ Ahead >= 1 /\ MaxCells \in Nat /\ 2 * Depth <= MaxCells
  BY PoolAssumption DEF Depth
<1> DEFINE n == Cardinality(Workers)
<1> HIDE DEF n
<1>3. ASSUME NEW a \in Nat, NEW b \in Nat, a >= 1, b >= 1 PROVE a * b \in Nat /\ a * b >= 1
  BY <1>3
<1>4. n \in Nat /\ n >= 1
  BY <1>1 DEF n
<1>5. Ahead * n \in Nat /\ Ahead * n >= 1
  BY <1>2, <1>3, <1>4
<1> QED BY <1>2, <1>5 DEF Depth, n

(* Main is no worker.                                                      *)
LEMMA MainApart == Main \in Threads /\ Main \notin Workers /\ Workers \subseteq Threads
BY PoolAssumption DEF Threads

(* A block's token stands for a table.                                     *)
LEMMA TokType ==
  ASSUME NEW b \in BlockSet
  PROVE  /\ Tok(b) \in Nat /\ Tok(b) # NoTable
         /\ b.kind \in {"raw", "comp", "reserved"} /\ b.huf \in {"none", "own", "repeat"}
         /\ b.fse \in {"none", "own", "repeat"} /\ b.fault \in {"none", "lit", "seq", "exec"}
         /\ b.last \in BOOLEAN
         /\ b.kind = "raw" => b.huf = "none" /\ b.fse = "none"
<1>1. b.at \in Nat \ {0} /\ b.v \in {0, 1} /\ b.last \in BOOLEAN
  BY DEF BlockSet
<1>2. /\ b.kind \in {"raw", "comp", "reserved"} /\ b.huf \in {"none", "own", "repeat"}
      /\ b.fse \in {"none", "own", "repeat"} /\ b.fault \in {"none", "lit", "seq", "exec"}
      /\ b.kind = "raw" => b.huf = "none" /\ b.fse = "none"
  BY DEF BlockSet
<1>3. Tok(b) \in Nat /\ Tok(b) # NoTable
  BY <1>1 DEF Tok, NoTable
<1> QED BY <1>1, <1>2, <1>3

(* The empty records have their types.                                     *)
LEMMA EmptyTypes ==
  /\ FreshScratch \in ScratchSet /\ NoStart \in StartSet /\ NoDefs \in DefsSet
  /\ NoBlocks \in BlocksSet /\ NoDef \in DefSet /\ NoJob \in JobSet /\ NoJob.id = -1
  /\ NoJob.huf_def = NoId /\ NoJob.fse_def = NoId
  /\ NoTask \in TaskSet /\ NoDecode \in DecSet /\ NoDecode.cell = 0 /\ NoTask.cell = 0
<1>1. FreshScratch \in ScratchSet
  BY DEF FreshScratch, ScratchSet, NoTable
<1>2. NoStart \in StartSet
  BY <1>1 DEF NoStart, StartSet, NoId
<1>3. NoDefs \in DefsSet /\ NoBlocks \in BlocksSet /\ NoDef \in DefSet
  BY DEF NoDefs, DefsSet, NoBlocks, BlocksSet, NoDef, DefSet, NoId, NoTable
<1>4. NoBlock \in AnyBlock
  BY DEF AnyBlock
<1>5. NoJob \in JobSet
  BY <1>2, <1>3, <1>4 DEF NoJob, JobSet, NoId
<1>6. NoTask \in TaskSet /\ NoDecode \in DecSet
  BY DEF NoTask, TaskSet, NoDecode, DecSet, NoId
<1>7. NoJob.id = -1 /\ NoJob.huf_def = NoId /\ NoJob.fse_def = NoId /\ NoDecode.cell = 0 /\ NoTask.cell = 0
  BY DEF NoJob, NoDecode, NoTask, NoId
<1> QED BY <1>1, <1>2, <1>3, <1>5, <1>6, <1>7

(* No chain and no batch.                                                  *)
LEMMA EmptyRuns ==
  /\ NoChain \in ChainSet /\ NoChain.on = FALSE /\ NoChain.queue = <<>>
  /\ NoBatch \in BatchSet /\ NoBatch.plans = <<>> /\ NoBatch.ring = <<>>
  /\ NoBatch.handed = 0 /\ NoBatch.done = 0
  /\ NoBatch.blocks = NoBlocks /\ NoChain.blocks = NoBlocks
<1> USE EmptyTypes
<1>1. NoBatch \in BatchSet
  BY DEF NoBatch, BatchSet
<1>2. /\ NoBatch.plans = <<>> /\ NoBatch.ring = <<>> /\ NoBatch.handed = 0 /\ NoBatch.done = 0
      /\ NoBatch.blocks = NoBlocks
  BY DEF NoBatch
<1>3. NoChain \in ChainSet
  BY DEF NoChain, ChainSet
<1>4. NoChain.on = FALSE /\ NoChain.queue = <<>> /\ NoChain.blocks = NoBlocks
  BY DEF NoChain
<1> QED BY <1>1, <1>2, <1>3, <1>4

(* A new cell.                                                             *)
LEMMA NewCellType ==
  /\ NewCell \in CellSet /\ NewCell.claim = 1 /\ NewCell.done = -1 /\ NewCell.lit_done = -1
  /\ NewCell.job = NoJob /\ Len(NewCell.seqs) = 2
  /\ NewCell.huf_from = NoId /\ NewCell.fse_from = NoId
<1> USE EmptyTypes
<1>1. NoSequence \in Triples
  BY DEF NoSequence, Triples
<1>2. <<NoSequence, NoSequence>> \in Seq(Triples) /\ Len(<<NoSequence, NoSequence>>) = 2
  BY <1>1
<1>3. NewCell \in CellSet
  BY <1>2 DEF NewCell, CellSet, NoId, NoTable
<1>4. /\ NewCell.claim = 1 /\ NewCell.done = -1 /\ NewCell.lit_done = -1
      /\ NewCell.job = NoJob /\ NewCell.huf_from = NoId /\ NewCell.fse_from = NoId
      /\ NewCell.seqs = <<NoSequence, NoSequence>>
  BY DEF NewCell, NoId
<1> QED BY <1>2, <1>3, <1>4

(* The driver's place.                                                     *)
LEMMA DriverType ==
  ASSUME NEW a \in BOOLEAN, NEW b \in BOOLEAN
  PROVE  /\ Driver(a, b) \in MainSet
         /\ Driver(a, b).pc = "driver" /\ Driver(a, b).mode = "none" /\ Driver(a, b).end = 0
         /\ Driver(a, b).stalled = a /\ Driver(a, b).broke = b /\ Driver(a, b).at = 0
         /\ Driver(a, b).any = FALSE
<1>1. 0 \in Nat /\ 0 \in 0..2 /\ <<>> \in Seq(Triples)
  OBVIOUS
<1>2. "driver" \in Places
  BY DEF Places
<1>3. Driver(a, b) \in MainSet
  BY <1>1, <1>2, Zenon DEF Driver, MainSet, NoTable
<1>4. /\ Driver(a, b).pc = "driver" /\ Driver(a, b).mode = "none" /\ Driver(a, b).end = 0
      /\ Driver(a, b).stalled = a /\ Driver(a, b).broke = b /\ Driver(a, b).at = 0
      /\ Driver(a, b).any = FALSE
  BY Zenon DEF Driver
<1> QED BY <1>3, <1>4

-----------------------------------------------------------------------------
(* What the updates of the executing thread's locals leave alone.          *)

Locals(m, n) ==
    /\ n.at = m.at /\ n.got = m.got /\ n.end_reps = m.end_reps /\ n.err = m.err
    /\ n.saw_done = m.saw_done

Control(m, n) ==
    /\ n.mode = m.mode /\ n.end = m.end /\ n.stalled = m.stalled /\ n.broke = m.broke

(* The thread moves on.                                                    *)
LEMMA MovesOn ==
  ASSUME NEW m \in MainSet, NEW p \in Places
  PROVE  LET n == [m EXCEPT !.pc = p]
         IN n \in MainSet /\ n.pc = p /\ Control(m, n) /\ n.any = m.any /\ Locals(m, n)
BY DEF MainSet, Control, Locals

(* It can plan no further.                                                 *)
LEMMA MovesBlocked ==
  ASSUME NEW m \in MainSet
  PROVE  LET n == [m EXCEPT !.blocked = TRUE]
         IN n \in MainSet /\ n.pc = m.pc /\ Control(m, n) /\ n.any = m.any /\ Locals(m, n)
BY DEF MainSet, Control, Locals

(* It has executed a block.                                                *)
LEMMA MovesAny ==
  ASSUME NEW m \in MainSet, NEW p \in Places
  PROVE  LET n == [m EXCEPT !.pc = p, !.any = TRUE]
         IN n \in MainSet /\ n.pc = p /\ Control(m, n) /\ Locals(m, n)
BY DEF MainSet, Control, Locals

(* A block failed in a scope.                                              *)
LEMMA MovesBroke ==
  ASSUME NEW m \in MainSet, NEW p \in Places
  PROVE  LET n == [m EXCEPT !.pc = p, !.broke = TRUE]
         IN n \in MainSet /\ n.pc = p /\ n.mode = m.mode /\ n.end = m.end /\ n.broke = TRUE
            /\ n.stalled = m.stalled
BY DEF MainSet

(* A call of the chain's run begins.                                       *)
LEMMA ChainCalled ==
  ASSUME NEW m, NEW e \in Nat, m = [Driver(FALSE, FALSE) EXCEPT !.pc = "fill", !.mode = "chain", !.end = e]
  PROVE  m \in MainSet /\ m.pc = "fill" /\ m.mode = "chain" /\ m.end = e /\ ~m.broke /\ ~m.stalled
<1> DEFINE n == Driver(FALSE, FALSE)
<1>1. n \in MainSet /\ ~n.broke /\ ~n.stalled
  BY DriverType, Zenon
<1>2. m = [n EXCEPT !.pc = "fill", !.mode = "chain", !.end = e] /\ "fill" \in Places
  BY DEF Places
<1> HIDE DEF n
<1>3. m \in MainSet /\ m.pc = "fill" /\ m.mode = "chain" /\ m.end = e
  BY <1>1, <1>2 DEF MainSet
<1>4. m.broke = n.broke /\ m.stalled = n.stalled
  BY <1>1, <1>2 DEF MainSet
<1> QED BY <1>1, <1>3, <1>4

(* A call that decodes in a scope begins.                                  *)
LEMMA BatchCalled ==
  ASSUME NEW m, NEW e \in Nat, m = [Driver(FALSE, FALSE) EXCEPT !.pc = "plan", !.mode = "batch", !.end = e]
  PROVE  m \in MainSet /\ m.pc = "plan" /\ m.mode = "batch" /\ m.end = e /\ ~m.broke /\ ~m.stalled
<1> DEFINE n == Driver(FALSE, FALSE)
<1>1. n \in MainSet /\ ~n.broke /\ ~n.stalled
  BY DriverType, Zenon
<1>2. m = [n EXCEPT !.pc = "plan", !.mode = "batch", !.end = e] /\ "plan" \in Places
  BY DEF Places, BatchPlaces
<1> HIDE DEF n
<1>3. m \in MainSet /\ m.pc = "plan" /\ m.mode = "batch" /\ m.end = e
  BY <1>1, <1>2 DEF MainSet
<1>4. m.broke = n.broke /\ m.stalled = n.stalled
  BY <1>1, <1>2 DEF MainSet
<1> QED BY <1>1, <1>3, <1>4

(* The decoder leaves the frame, or fails.                                 *)
LEMMA MovesLeft ==
  /\ Left \in MainSet /\ Left.pc = "left" /\ Left.mode = "none" /\ Left.end = 0
  /\ Left.broke = FALSE /\ Left.stalled = FALSE
  /\ Failed \in MainSet /\ Failed.pc = "failed" /\ Failed.mode = "none" /\ Failed.end = 0
  /\ Failed.broke = FALSE /\ Failed.stalled = FALSE
<1> DEFINE m == Driver(FALSE, FALSE)
<1>1. m \in MainSet /\ m.broke = FALSE /\ m.mode = "none" /\ m.end = 0 /\ m.stalled = FALSE
  BY DriverType, Zenon
<1> HIDE DEF m
<1>2. "left" \in Places /\ "failed" \in Places
  BY DEF Places
<1>3. Left = [m EXCEPT !.pc = "left"] /\ Failed = [m EXCEPT !.pc = "failed"]
  BY DEF Left, Failed, m
<1>4. /\ LET n == [m EXCEPT !.pc = "left"] IN n \in MainSet /\ n.pc = "left" /\ Control(m, n)
      /\ LET n == [m EXCEPT !.pc = "failed"] IN n \in MainSet /\ n.pc = "failed" /\ Control(m, n)
  BY <1>1, <1>2, MovesOn
<1> QED BY <1>1, <1>3, <1>4, Zenon DEF Control

-----------------------------------------------------------------------------
(* What the updates of a cell leave alone.                                 *)

SameLits(c, n) ==
    /\ n.lit_done = c.lit_done /\ n.huf_from = c.huf_from /\ n.huf = c.huf
    /\ n.lits = c.lits /\ n.lits_ok = c.lits_ok

SameSeqs(c, n) ==
    /\ n.progress = c.progress /\ n.seqs = c.seqs /\ n.end = c.end
    /\ n.fse_from = c.fse_from /\ n.fse = c.fse /\ n.ok = c.ok

SameJob(c, n) ==
    n.job = c.job /\ n.sequences_first = c.sequences_first

(* The cell's block is claimed.                                            *)
LEMMA ClaimCell ==
  ASSUME NEW c \in CellSet, NEW k \in Nat
  PROVE  LET n == [c EXCEPT !.claim = k]
         IN /\ n \in CellSet /\ n.claim = k /\ n.done = c.done
            /\ SameJob(c, n) /\ SameSeqs(c, n) /\ SameLits(c, n)
BY DEF CellSet, SameJob, SameSeqs, SameLits

(* Its literals are.                                                       *)
LEMMA ClaimLits ==
  ASSUME NEW c \in CellSet, NEW k \in Nat
  PROVE  LET n == [c EXCEPT !.lit_claim = k]
         IN /\ n \in CellSet /\ n.claim = c.claim /\ n.done = c.done
            /\ SameJob(c, n) /\ SameSeqs(c, n) /\ SameLits(c, n)
BY DEF CellSet, SameJob, SameSeqs, SameLits

(* Its block is given up.                                                  *)
LEMMA RetireCell ==
  ASSUME NEW c \in CellSet, NEW j \in JobSet
  PROVE  LET n == [c EXCEPT !.claim = @ + 1, !.job = j]
         IN /\ n \in CellSet /\ n.claim = c.claim + 1 /\ n.done = c.done /\ n.job = j
            /\ SameSeqs(c, n) /\ SameLits(c, n)
<1> DEFINE k == c.claim + 1
<1>1. k \in Nat /\ [c EXCEPT !.claim = @ + 1, !.job = j] = [c EXCEPT !.claim = k, !.job = j]
  BY DEF CellSet
<1> HIDE DEF k
<1>2. LET n == [c EXCEPT !.claim = k, !.job = j]
      IN /\ n \in CellSet /\ n.claim = k /\ n.done = c.done /\ n.job = j
         /\ SameSeqs(c, n) /\ SameLits(c, n)
  BY <1>1 DEF CellSet, SameSeqs, SameLits
<1> QED BY <1>1, <1>2 DEF k

(* It is handed a block.                                                   *)
LEMMA HandCell ==
  ASSUME NEW c \in CellSet, NEW j \in JobSet, j.id \in Nat, NEW next \in BOOLEAN
  PROVE  LET n == Hand(c, j, next)
         IN /\ n \in CellSet /\ n.claim = Planned(j.id) /\ n.done = c.done /\ n.job = j
            /\ n.progress = 0 /\ n.seqs = c.seqs /\ n.fse_from = c.fse_from /\ n.fse = c.fse
            /\ SameLits(c, n)
<1> DEFINE k == Planned(j.id)
           z == 0
<1>1. k \in Nat /\ z \in 0..2
  BY DEF Planned
<1> HIDE DEF k, z
<1>2. LET n == [c EXCEPT !.job = j, !.progress = z, !.sequences_first = next,
                         !.lit_claim = k, !.claim = k]
      IN /\ n \in CellSet /\ n.claim = k /\ n.done = c.done /\ n.job = j
         /\ n.progress = z /\ n.seqs = c.seqs /\ n.fse_from = c.fse_from /\ n.fse = c.fse
         /\ SameLits(c, n)
  BY <1>1 DEF CellSet, SameLits
<1> QED BY <1>2 DEF Hand, k, z

(* Its block is done.                                                      *)
LEMMA DoneCell ==
  ASSUME NEW c \in CellSet, NEW t \in Int
  PROVE  LET n == [c EXCEPT !.done = t]
         IN /\ n \in CellSet /\ n.claim = c.claim /\ n.done = t
            /\ SameJob(c, n) /\ SameSeqs(c, n) /\ SameLits(c, n)
BY DEF CellSet, SameJob, SameSeqs, SameLits

(* Its literals are decoded.                                               *)
LEMMA LitsCell ==
  ASSUME NEW c \in CellSet, NEW j \in JobSet, NEW t \in Int, j.blk \in BlockSet
  PROVE  LET n == DecodeLiterals(c, j, t)
             h == HufTable(c, j)
         IN /\ n \in CellSet /\ n.claim = c.claim /\ n.done = c.done
            /\ SameJob(c, n) /\ SameSeqs(c, n)
            /\ n.lit_done = t /\ n.huf = h.huf
            /\ n.huf_from \in {NoId, h.from}
            /\ n.lits = IF j.huf_def = NoId THEN NoTable ELSE h.huf
            /\ n.lits_ok <=> j.blk.fault # "lit"
<1> DEFINE h == HufTable(c, j)
           ok == j.blk.fault # "lit"
           from == IF ~ok /\ j.huf_def = j.id THEN NoId ELSE h.from
           l == IF j.huf_def = NoId THEN NoTable ELSE h.huf
<1>1. /\ j.huf_def \in Int /\ j.id \in Int /\ j.start \in StartSet
      /\ j.defs \in [huf : DefSet, fse : DefSet] /\ j.blk \in AnyBlock
  BY DEF JobSet
<1>2. /\ j.start.id \in Int /\ j.start.init.huf \in Nat
      /\ j.defs.huf.id \in Int /\ j.defs.huf.tok \in Nat
  BY <1>1 DEF StartSet, ScratchSet, DefSet
<1>3. c.huf \in Nat /\ c.huf_from \in Int /\ Tok(j.blk) \in Nat
  BY TokType DEF CellSet
<1>4. h.huf \in Nat /\ h.from \in Int
  BY <1>1, <1>2, <1>3 DEF HufTable
<1>5. ok \in BOOLEAN /\ from \in Int /\ l \in Nat /\ from \in {NoId, h.from}
  BY <1>4 DEF NoId, NoTable
<1> DEFINE o == ok
           hu == h.huf
<1>6. o \in BOOLEAN /\ hu \in Nat
  BY <1>4
<1>7. DecodeLiterals(c, j, t) =
        [c EXCEPT !.huf_from = from, !.huf = hu, !.lits = l, !.lits_ok = o, !.lit_done = t]
  BY Zenon DEF DecodeLiterals
<1>8. hu = h.huf /\ (o <=> ok)
  OBVIOUS
<1> HIDE DEF from, l, o, hu
<1>9. LET n == [c EXCEPT !.huf_from = from, !.huf = hu, !.lits = l, !.lits_ok = o,
                         !.lit_done = t]
      IN /\ n \in CellSet /\ n.claim = c.claim /\ n.done = c.done
         /\ SameJob(c, n) /\ SameSeqs(c, n)
         /\ n.lit_done = t /\ n.huf = hu /\ n.huf_from = from /\ n.lits = l /\ n.lits_ok = o
  BY <1>5, <1>6 DEF CellSet, SameJob, SameSeqs
<1>10. l = IF j.huf_def = NoId THEN NoTable ELSE h.huf
  BY DEF l
<1> HIDE DEF h
<1> DEFINE n == DecodeLiterals(c, j, t)
<1>11. /\ n \in CellSet /\ n.claim = c.claim /\ n.done = c.done
       /\ SameJob(c, n) /\ SameSeqs(c, n)
       /\ n.lit_done = t /\ n.huf = hu /\ n.huf_from = from /\ n.lits = l /\ n.lits_ok = o
  BY <1>7, <1>9, Zenon
<1> HIDE DEF n
<1>12. /\ n.huf = h.huf /\ n.huf_from \in {NoId, h.from}
       /\ n.lits = IF j.huf_def = NoId THEN NoTable ELSE h.huf
       /\ n.lits_ok <=> j.blk.fault # "lit"
  BY <1>5, <1>8, <1>10, <1>11, Zenon
<1> QED BY <1>11, <1>12 DEF n, h

(* Its sequence table is one.                                              *)
LEMMA FseTypes ==
  ASSUME NEW c \in CellSet, c.job.blk \in BlockSet
  PROVE  /\ FseTable(c, c.job).fse \in Nat /\ FseTable(c, c.job).from \in Int
         /\ UsedFse(c, c.job) \in Nat /\ Tok(c.job.blk) \in Nat
         /\ \A i \in Nat : RelSeq(c.job.blk, i, UsedFse(c, c.job)) \in Triples
<1> DEFINE j == c.job
<1>1. j \in JobSet /\ c.fse \in Nat /\ c.fse_from \in Int
  BY DEF CellSet
<1>2. /\ j.fse_def \in Int /\ j.id \in Int /\ j.start \in StartSet
      /\ j.defs \in [huf : DefSet, fse : DefSet] /\ Tok(j.blk) \in Nat
  BY <1>1, TokType DEF JobSet
<1>3. /\ j.start.id \in Int /\ j.start.init.fse \in Nat
      /\ j.defs.fse.id \in Int /\ j.defs.fse.tok \in Nat
  BY <1>2 DEF StartSet, ScratchSet, DefSet
<1> HIDE DEF j
<1>4. FseTable(c, j).fse \in Nat /\ FseTable(c, j).from \in Int
  BY <1>1, <1>2, <1>3 DEF FseTable
<1>5. UsedFse(c, j) \in Nat
  BY <1>3, <1>4 DEF UsedFse
<1>6. \A i \in Nat : RelSeq(j.blk, i, UsedFse(c, j)) \in Triples
  BY <1>2, <1>5 DEF RelSeq, Triples
<1> QED BY <1>2, <1>4, <1>5, <1>6 DEF j

(* It has no sequences.                                                    *)
LEMMA NoSeqsCell ==
  ASSUME NEW c \in CellSet
  PROVE  LET n == NoSequences(c)
         IN /\ n \in CellSet /\ n.claim = c.claim /\ n.done = c.done
            /\ SameJob(c, n) /\ SameLits(c, n)
            /\ n.progress = c.progress /\ n.seqs = c.seqs /\ n.end = c.end
            /\ n.fse_from = c.fse_from /\ n.fse = c.fse
            /\ n.ok <=> c.job.blk.fault # "seq"
<1> DEFINE o == c.job.blk.fault # "seq"
           n == [c EXCEPT !.ok = o]
<1>1. o \in BOOLEAN /\ (o <=> c.job.blk.fault # "seq")
  OBVIOUS
<1>2. NoSequences(c) = n
  BY DEF NoSequences
<1> HIDE DEF o
<1>3. /\ n \in CellSet /\ n.claim = c.claim /\ n.done = c.done
      /\ SameJob(c, n) /\ SameLits(c, n)
      /\ n.progress = c.progress /\ n.seqs = c.seqs /\ n.end = c.end
      /\ n.fse_from = c.fse_from /\ n.fse = c.fse /\ n.ok = o
  BY <1>1 DEF CellSet, SameJob, SameLits
<1> HIDE DEF n
<1> QED BY <1>1, <1>2, <1>3, Zenon

(* Its first sequence is published.                                        *)
LEMMA FirstCell ==
  ASSUME NEW c \in CellSet, c.job.blk \in BlockSet
  PROVE  LET n == PublishFirst(c)
         IN /\ n \in CellSet /\ n.claim = c.claim /\ n.done = c.done
            /\ SameJob(c, n) /\ SameLits(c, n)
            /\ n.progress = 1 /\ Len(n.seqs) = 2 /\ n.ok = c.ok
            /\ n.seqs[1] = RelSeq(c.job.blk, 1, UsedFse(c, c.job))
            /\ n.fse = FseTable(c, c.job).fse /\ n.fse_from = FseTable(c, c.job).from
<1> DEFINE t == FseTable(c, c.job).fse
           f == FseTable(c, c.job).from
           r == RelSeq(c.job.blk, 1, UsedFse(c, c.job))
           q == <<r, NoSequence>>
           k == 1
           n == [c EXCEPT !.fse = t, !.fse_from = f, !.seqs = q, !.progress = k]
<1>1. t \in Nat /\ f \in Int /\ r \in Triples
  BY FseTypes
<1>2. NoSequence \in Triples /\ k \in 0..2
  BY DEF NoSequence, Triples
<1> HIDE DEF r, t, f
<1>3. q \in Seq(Triples) /\ Len(q) = 2 /\ q[1] = r
  BY <1>1, <1>2
<1> HIDE DEF q, k
<1>4. /\ n \in CellSet /\ n.claim = c.claim /\ n.done = c.done
      /\ SameJob(c, n) /\ SameLits(c, n)
      /\ n.progress = k /\ n.seqs = q /\ n.ok = c.ok /\ n.fse = t /\ n.fse_from = f
  BY <1>1, <1>2, <1>3 DEF CellSet, SameJob, SameLits
<1>5. PublishFirst(c) = n
  BY Zenon DEF PublishFirst, n, q, k, r, t, f
<1> HIDE DEF n
<1>6. k = 1 /\ Len(n.seqs) = 2 /\ n.seqs[1] = r
  BY <1>3, <1>4 DEF k
<1> QED BY <1>4, <1>5, <1>6, Zenon DEF r, t, f

(* Its last sequence is, or found corrupt.                                 *)
LEMMA LastCell ==
  ASSUME NEW c \in CellSet, c.job.blk \in BlockSet, Len(c.seqs) = 2
  PROVE  LET n == PublishLast(c)
         IN /\ n \in CellSet /\ n.claim = c.claim /\ n.done = c.done
            /\ SameJob(c, n) /\ SameLits(c, n)
            /\ n.ok <=> c.job.blk.fault # "seq"
            /\ Len(n.seqs) = 2 /\ n.seqs[1] = c.seqs[1]
            /\ n.seqs[2] = RelSeq(c.job.blk, 2, UsedFse(c, c.job))
            /\ n.fse = c.fse /\ n.fse_from = c.fse_from
            /\ c.job.blk.fault # "seq" => n.progress = 2 /\ n.end = Tok(c.job.blk)
            /\ c.job.blk.fault = "seq" => n.progress = c.progress /\ n.end = c.end
<1> DEFINE o == c.job.blk.fault # "seq"
           r == RelSeq(c.job.blk, 2, UsedFse(c, c.job))
           q == <<c.seqs[1], r>>
           k == IF o THEN NumSequences ELSE c.progress
           e == IF o THEN Tok(c.job.blk) ELSE c.end
           n == [c EXCEPT !.seqs = q, !.ok = o, !.progress = k, !.end = e]
<1>1. r \in Triples /\ Tok(c.job.blk) \in Nat
  BY FseTypes
<1>2. c.seqs \in Seq(Triples) /\ c.progress \in 0..2 /\ c.end \in Nat
  BY DEF CellSet
<1>3. o \in BOOLEAN /\ (o <=> c.job.blk.fault # "seq")
  OBVIOUS
<1>4. k \in 0..2 /\ e \in Nat /\ (o => k = 2 /\ e = Tok(c.job.blk))
      /\ (~o => k = c.progress /\ e = c.end)
  BY <1>1, <1>2 DEF NumSequences
<1>5. PublishLast(c) = n
  BY <1>2 DEF PublishLast
<1> HIDE DEF r, k, e, o
<1>6. c.seqs[1] \in Triples
  BY <1>2
<1>7. q \in Seq(Triples) /\ Len(q) = 2 /\ q[1] = c.seqs[1] /\ q[2] = r
  BY <1>1, <1>6
<1> HIDE DEF q
<1>8. /\ n \in CellSet /\ n.claim = c.claim /\ n.done = c.done
      /\ SameJob(c, n) /\ SameLits(c, n)
      /\ n.progress = k /\ n.seqs = q /\ n.ok = o /\ n.fse = c.fse /\ n.fse_from = c.fse_from
      /\ n.end = e
  BY <1>3, <1>4, <1>7 DEF CellSet, SameJob, SameLits
<1> HIDE DEF n
<1>9. Len(n.seqs) = 2 /\ n.seqs[1] = c.seqs[1] /\ n.seqs[2] = r
  BY <1>7, <1>8
<1>10. /\ c.job.blk.fault # "seq" => n.progress = 2 /\ n.end = Tok(c.job.blk)
       /\ c.job.blk.fault = "seq" => n.progress = c.progress /\ n.end = c.end
       /\ n.ok <=> c.job.blk.fault # "seq"
  BY <1>3, <1>4, <1>8, Zenon
<1> QED BY <1>5, <1>8, <1>9, <1>10, Zenon DEF r

-----------------------------------------------------------------------------
(* Plans.                                                                  *)

(* The tables in use, before and after a block.                            *)
LEMMA DefsTypes ==
  ASSUME NEW b \in BlockSet, NEW id \in Nat, NEW defs \in DefsSet, NEW blocks \in BlocksSet
  PROVE  DefsAfter(b, id, defs) \in DefsSet /\ BlocksAfter(b, blocks) \in BlocksSet
<1>1. Tok(b) \in Nat
  BY TokType
<1> QED BY <1>1 DEF DefsAfter, DefsSet, BlocksAfter, BlocksSet

(* A start's tables.                                                       *)
LEMMA StartTypes ==
  ASSUME NEW id \in Nat, NEW s \in ScratchSet
  PROVE  LET start == [id |-> id, init |-> s]
         IN /\ start \in StartSet /\ start.id = id /\ start.init = s
            /\ StartDefs(start) \in DefsSet
            /\ StartDefs(start).huf = IF s.huf # NoTable THEN id ELSE NoId
            /\ StartDefs(start).fse = IF s.fse # NoTable THEN id ELSE NoId
BY DEF StartSet, StartDefs, DefsSet, NoId, NoTable

(* The serial decoder's state after a block.                               *)
LEMMA SerialTypes ==
  ASSUME NEW b \in BlockSet, NEW s \in ScratchSet
  PROVE  /\ SerialAfter(b, s) \in ScratchSet
         /\ SerialAfter(b, s).huf = HufAfter(b, s) /\ SerialAfter(b, s).fse = FseAfter(b, s)
         /\ SerialAfter(b, s).hist = IF HasSeqs(b) THEN Append(s.hist, Tok(b)) ELSE s.hist
<1>1. Tok(b) \in Nat /\ s.huf \in Nat /\ s.fse \in Nat /\ s.hist \in Seq(Nat)
  BY TokType DEF ScratchSet
<1>2. HufAfter(b, s) \in Nat /\ FseAfter(b, s) \in Nat
  BY <1>1 DEF HufAfter, FseAfter
<1> DEFINE h == HufAfter(b, s)
           f == FseAfter(b, s)
           t == Tok(b)
           g == IF HasSeqs(b) THEN Append(s.hist, t) ELSE s.hist
<1> HIDE DEF h, f, t
<1>3. g \in Seq(Nat)
  <2>1. CASE HasSeqs(b)
    BY <2>1, <1>1 DEF t
  <2>2. CASE ~HasSeqs(b)
    BY <2>2, <1>1
  <2> QED BY <2>1, <2>2
<1> HIDE DEF g
<1>4. [huf |-> h, fse |-> f, hist |-> g] \in ScratchSet
  BY <1>2, <1>3 DEF ScratchSet, h, f
<1>5. SerialAfter(b, s) = [huf |-> h, fse |-> f, hist |-> g]
  BY Zenon DEF SerialAfter, h, f, g, t
<1> QED BY <1>4, <1>5 DEF h, f, g, t

(* A compressed block's job.                                               *)
LEMMA JobTypes ==
  ASSUME NEW b \in BlockSet, NEW id \in Nat, NEW start \in StartSet, NEW defs \in DefsSet,
         NEW blocks \in BlocksSet
  PROVE  LET j == Job(b, id, start, defs, blocks)
             after == DefsAfter(b, id, defs)
         IN /\ j \in JobSet /\ j # NoJob /\ j.blk = b /\ j.id = id /\ j.start = start
            /\ j.huf_def = IF b.huf = "none" THEN NoId ELSE after.huf
            /\ j.fse_def = IF HasSeqs(b) THEN after.fse ELSE NoId
            /\ j.defs.huf = JobDef(j.huf_def, id, start, blocks.huf)
            /\ j.defs.fse = JobDef(j.fse_def, id, start, blocks.fse)
<1> DEFINE after == DefsAfter(b, id, defs)
           h == IF b.huf = "none" THEN NoId ELSE after.huf
           f == IF HasSeqs(b) THEN after.fse ELSE NoId
           dh == JobDef(h, id, start, blocks.huf)
           df == JobDef(f, id, start, blocks.fse)
           ds == [huf |-> dh, fse |-> df]
           j == [blk |-> b, id |-> id, huf_def |-> h, fse_def |-> f, defs |-> ds,
                 start |-> start]
<1>1. after \in DefsSet /\ blocks.huf \in Nat /\ blocks.fse \in Nat
  BY DefsTypes DEF BlocksSet
<1> HIDE DEF after
<1>2. h \in Int /\ f \in Int
  BY <1>1 DEF DefsSet, NoId
<1> HIDE DEF h, f
<1>3. dh \in DefSet /\ df \in DefSet
  BY <1>1, <1>2, EmptyTypes DEF JobDef, DefSet
<1> HIDE DEF dh, df
<1>4. ds \in [huf : DefSet, fse : DefSet] /\ ds.huf = dh /\ ds.fse = df
  BY <1>3
<1> HIDE DEF ds
<1>5. b \in AnyBlock
  BY DEF AnyBlock
<1>6. /\ j \in JobSet /\ j.blk = b /\ j.id = id /\ j.start = start /\ j.huf_def = h
      /\ j.fse_def = f /\ j.defs = ds
  BY <1>2, <1>4, <1>5 DEF JobSet
<1>7. j # NoJob
  BY <1>6, EmptyTypes
<1>8. Job(b, id, start, defs, blocks) = j
  BY Zenon DEF Job, j, ds, dh, df, h, f, after
<1> HIDE DEF j
<1> QED BY <1>4, <1>6, <1>7, <1>8, Zenon DEF dh, df, h, f, after

-----------------------------------------------------------------------------
(* Taking a cell.                                                          *)

(* swap_remove: the last takes the place of the one removed.               *)
LEMMA SwapRemoved ==
  ASSUME NEW s \in Seq(Nat), NEW k \in DOMAIN s
  PROVE  /\ SwapRemove(s, k) \in Seq(Nat) /\ DOMAIN SwapRemove(s, k) = 1 .. Len(s) - 1
         /\ \A i \in 1 .. Len(s) - 1 :
               SwapRemove(s, k)[i] = IF i = k THEN s[Len(s)] ELSE s[i]
<1> DEFINE u == [s EXCEPT ![k] = s[Len(s)]]
           n == Len(s)
<1>1. n \in Nat /\ n >= 1 /\ DOMAIN s = 1..n /\ s[Len(s)] \in Nat
  OBVIOUS
<1>2. u \in Seq(Nat) /\ Len(u) = n /\ \A i \in 1..n : u[i] = IF i = k THEN s[Len(s)] ELSE s[i]
  BY <1>1
<1>3. SwapRemove(s, k) = SubSeq(u, 1, n - 1)
  BY DEF SwapRemove
<1> HIDE DEF u, n
<1>4. /\ SubSeq(u, 1, n - 1) \in Seq(Nat) /\ DOMAIN SubSeq(u, 1, n - 1) = 1 .. n - 1
      /\ \A i \in 1 .. n - 1 : SubSeq(u, 1, n - 1)[i] = u[i]
  BY <1>1, <1>2
<1> QED BY <1>1, <1>2, <1>3, <1>4 DEF n

(* idle_cell: a free cell no task holds, a new one, or none.               *)
LEMMA TakesCell ==
  ASSUME TypeInv, NEW cap \in Nat
  PROVE  LET t == TakeCell(free, ncells, cap)
         IN \/ /\ t.cell = 0 /\ t.free = free /\ t.ncells = ncells
            \/ \E k \in DOMAIN free : /\ t.cell = free[k] /\ ~Held(free[k])
                                      /\ t.free = SwapRemove(free, k) /\ t.ncells = ncells
            \/ /\ t.cell = ncells + 1 /\ t.free = free /\ t.ncells = ncells + 1
               /\ ncells < cap
<1> DEFINE idle == {k \in DOMAIN free : ~Held(free[k])}
           k == IdleIndex(free)
<1>1. free \in Seq(Nat) /\ ncells \in Nat
  BY DEF TypeInv
<1>2. CASE idle = {}
  <2>1. k = 0
    BY <1>2 DEF IdleIndex
  <2> HIDE DEF k
  <2>2. TakeCell(free, ncells, cap) =
          IF ncells < cap THEN [cell |-> ncells + 1, free |-> free, ncells |-> ncells + 1]
          ELSE [cell |-> 0, free |-> free, ncells |-> ncells]
    BY <2>1 DEF TakeCell, k
  <2> QED BY <2>2
<1>3. CASE idle # {}
  <2>1. idle \in SUBSET (1 .. Len(free)) /\ Len(free) \in Nat
    BY <1>1
  <2>2. Max(idle) \in idle
    <3> HIDE DEF idle
    <3> QED BY <1>3, <2>1, MaxIsLargest
  <2>3. k = Max(idle)
    BY <1>3 DEF IdleIndex
  <2> HIDE DEF k
  <2>4. k \in idle /\ k # 0
    BY <2>1, <2>2, <2>3
  <2>5. TakeCell(free, ncells, cap) =
          [cell |-> free[k], free |-> SwapRemove(free, k), ncells |-> ncells]
    BY <2>4 DEF TakeCell, k
  <2>6. k \in DOMAIN free /\ ~Held(free[k])
    BY <2>4
  <2> QED BY <2>5, <2>6
<1> QED BY <1>2, <1>3

-----------------------------------------------------------------------------
(* The cells of a queue.                                                   *)

\* f is the recursive function of CellsOf, on 0..n.
CellsAt(q, f, n) ==
    IF n = 0 THEN <<>> ELSE IF q[n].cell = 0 THEN f[n - 1] ELSE Append(f[n - 1], q[n].cell)

IsCells(q, n, f) == f = [i \in 0 .. n |-> CellsAt(q, f, i)]

(* It exists.                                                              *)
LEMMA CellsExist ==
  ASSUME NEW q, NEW n \in Nat
  PROVE  \E f : IsCells(q, n, f)
<1> DEFINE S == {m \in Nat : \E f : IsCells(q, m, f)}
<1>1. 0 \in S
  <2>1. IsCells(q, 0, [i \in 0 .. 0 |-> <<>>])
    BY DEF IsCells, CellsAt
  <2> QED BY <2>1
<1>2. ASSUME NEW m \in Nat, m \in S PROVE m + 1 \in S
  <2>1. PICK f : IsCells(q, m, f)
    BY <1>2
  <2> DEFINE g == [i \in 0 .. (m + 1) |-> CellsAt(q, f, i)]
  <2>2. \A i \in 0 .. m : f[i] = g[i]
    BY <2>1 DEF IsCells
  <2>3. \A i \in 0 .. (m + 1) : i # 0 => i - 1 \in 0 .. m
    OBVIOUS
  <2>4. \A i \in 0 .. (m + 1) : i # 0 => f[i - 1] = g[i - 1]
    BY <2>2, <2>3
  <2> HIDE DEF g
  <2>5. \A i \in 0 .. (m + 1) : CellsAt(q, f, i) = CellsAt(q, g, i)
    BY <2>4 DEF CellsAt
  <2>6. g = [i \in 0 .. (m + 1) |-> CellsAt(q, g, i)]
    BY <2>5, Zenon DEF g
  <2>7. IsCells(q, m + 1, g)
    BY <2>6 DEF IsCells
  <2> QED BY <2>7
<1>3. Nat \subseteq S
  <2> HIDE DEF S
  <2> QED BY <1>1, <1>2, SetInduction
<1> QED BY <1>3

(* The cells of a queue are its entries', each once if each is an entry's. *)
LEMMA CellsOfIs ==
  ASSUME NEW q \in Seq(EntrySet)
  PROVE  /\ CellsOf(q) \in Seq(Nat)
         /\ \A k \in DOMAIN CellsOf(q) :
               \E i \in DOMAIN q : q[i].cell # 0 /\ CellsOf(q)[k] = q[i].cell
         /\ (\A i, j \in DOMAIN q : q[i].cell = q[j].cell /\ q[i].cell # 0 => i = j) =>
               \A j, k \in DOMAIN CellsOf(q) : CellsOf(q)[j] = CellsOf(q)[k] => j = k
<1> DEFINE N == Len(q)
           f == CHOOSE f : IsCells(q, N, f)
           Once == \A i, j \in DOMAIN q : q[i].cell = q[j].cell /\ q[i].cell # 0 => i = j
<1>1. N \in Nat /\ DOMAIN q = 1..N /\ \A i \in 1..N : q[i].cell \in Nat
  <2>1. N \in Nat /\ DOMAIN q = 1..N /\ \A i \in 1..N : q[i] \in EntrySet
    OBVIOUS
  <2>2. \A e \in EntrySet : e.cell \in Nat
    BY DEF EntrySet
  <2> QED BY <2>1, <2>2
<1>2. IsCells(q, N, f)
  BY <1>1, CellsExist
<1>3. CellsOf(q) = f[N]
  BY DEF CellsOf, IsCells, CellsAt
<1> HIDE DEF f, N
<1>4. \A n \in 0..N : f[n] = CellsAt(q, f, n)
  BY <1>2, Zenon DEF IsCells
<1> DEFINE P(n) ==
      /\ f[n] \in Seq(Nat)
      /\ \A k \in DOMAIN f[n] : \E i \in 1..n : q[i].cell # 0 /\ f[n][k] = q[i].cell
      /\ Once => \A j, k \in DOMAIN f[n] : f[n][j] = f[n][k] => j = k
    S == {n \in Nat : n <= N => P(n)}
<1>5. 0 \in S
  <2>1. f[0] = <<>>
    BY <1>1, <1>4 DEF CellsAt
  <2>2. f[0] \in Seq(Nat) /\ DOMAIN f[0] = {}
    BY <2>1
  <2> HIDE DEF Once
  <2> QED BY <2>2
<1>6. ASSUME NEW n \in Nat, n \in S PROVE n + 1 \in S
  <2> SUFFICES ASSUME n + 1 <= N PROVE P(n + 1)
    OBVIOUS
  <2> DEFINE m == n + 1
             a == f[n]
             x == q[m].cell
  <2>1. m \in 1..N /\ m \in 0..N /\ m - 1 = n /\ m # 0 /\ x \in Nat
    BY <1>1
  <2>2. P(n)
    BY <1>6, <1>1
  <2>3. f[m] = IF x = 0 THEN a ELSE Append(a, x)
    BY <1>4, <2>1 DEF CellsAt
  <2>4. /\ a \in Seq(Nat)
        /\ \A k \in DOMAIN a : \E i \in 1..n : q[i].cell # 0 /\ a[k] = q[i].cell
        /\ Once => \A j, k \in DOMAIN a : a[j] = a[k] => j = k
    BY <2>2
  <2>5. \A i \in 1..n : i \in 1..m /\ i # m /\ i \in 1..N
    BY <2>1, <1>1
  <2> HIDE DEF a, x, m, Once
  <2>6. CASE x = 0
    <3>1. f[m] = a
      BY <2>3, <2>6
    <3>2. \A k \in DOMAIN a : \E i \in 1..m : q[i].cell # 0 /\ a[k] = q[i].cell
      BY <2>4, <2>5
    <3>3. P(m)
      BY <3>1, <3>2, <2>4
    <3> QED BY <3>3 DEF m
  <2>7. CASE x # 0
    <3>1. f[m] = Append(a, x)
      BY <2>3, <2>7
    <3> DEFINE e == Append(a, x)
               L == Len(a) + 1
    <3>2. /\ e \in Seq(Nat) /\ DOMAIN e = 1..L /\ e[L] = x /\ L \in Nat
          /\ \A k \in 1..L : k = L \/ k \in DOMAIN a
          /\ \A k \in DOMAIN a : e[k] = a[k]
      BY <2>1, <2>4
    <3>3. m \in 1..m /\ q[m].cell # 0 /\ x = q[m].cell
      BY <2>1, <2>7 DEF x
    <3> HIDE DEF e, L
    <3>4. \A k \in DOMAIN e : \E i \in 1..m : q[i].cell # 0 /\ e[k] = q[i].cell
      <4> SUFFICES ASSUME NEW k \in DOMAIN e
                   PROVE  \E i \in 1..m : q[i].cell # 0 /\ e[k] = q[i].cell
        OBVIOUS
      <4>1. CASE k = L
        BY <4>1, <3>2, <3>3
      <4>2. CASE k # L
        <5>1. k \in DOMAIN a /\ e[k] = a[k]
          BY <4>2, <3>2
        <5>2. PICK i \in 1..n : q[i].cell # 0 /\ a[k] = q[i].cell
          BY <5>1, <2>4
        <5> QED BY <5>1, <5>2, <2>5
      <4> QED BY <4>1, <4>2
    <3>5. ASSUME Once, NEW k \in DOMAIN a PROVE a[k] # x
      <4>1. PICK i \in 1..n : q[i].cell # 0 /\ a[k] = q[i].cell
        BY <2>4, <3>5
      <4>2. i # m /\ i \in DOMAIN q /\ m \in DOMAIN q
        BY <2>1, <2>5, <1>1
      <4> QED BY <4>1, <4>2, <3>3, <3>5 DEF Once
    <3>6. ASSUME Once, NEW j \in DOMAIN e, NEW k \in DOMAIN e, e[j] = e[k] PROVE j = k
      <4>1. CASE j = L
        BY <4>1, <3>2, <3>5, <3>6
      <4>2. CASE k = L
        BY <4>2, <3>2, <3>5, <3>6
      <4>3. CASE j # L /\ k # L
        <5>1. j \in DOMAIN a /\ k \in DOMAIN a
          BY <3>2, <3>6, <4>3
        <5> QED BY <5>1, <3>2, <3>6, <2>4
      <4> QED BY <4>1, <4>2, <4>3
    <3>7. P(m)
      BY <3>1, <3>2, <3>4, <3>6 DEF e
    <3> QED BY <3>7 DEF m
  <2> QED BY <2>6, <2>7
<1>7. Nat \subseteq S
  <2> HIDE DEF S
  <2> QED BY <1>5, <1>6, SetInduction
<1>8. P(N)
  <2>1. N \in S
    <3> HIDE DEF S
    <3> QED BY <1>7, <1>1
  <2> HIDE DEF Once
  <2> QED BY <2>1, <1>1
<1> QED BY <1>1, <1>3, <1>8

-----------------------------------------------------------------------------
(* The serial decoder over the blocks consumed.                            *)

RunAt(bs, f, n) ==
    IF n = 0 THEN [s |-> FreshScratch, out |-> <<>>]
    ELSE [s |-> SerialAfter(bs[n], f[n - 1].s),
          out |-> Append(f[n - 1].out, SerialOutput(bs[n], f[n - 1].s))]

IsRun(bs, n, f) == f = [i \in 0 .. n |-> RunAt(bs, f, i)]

(* Its recursive function exists.                                          *)
LEMMA RunExists ==
  ASSUME NEW bs, NEW n \in Nat
  PROVE  \E f : IsRun(bs, n, f)
<1> DEFINE S == {m \in Nat : \E f : IsRun(bs, m, f)}
<1>1. 0 \in S
  <2>1. IsRun(bs, 0, [i \in 0 .. 0 |-> [s |-> FreshScratch, out |-> <<>>]])
    BY DEF IsRun, RunAt
  <2> QED BY <2>1
<1>2. ASSUME NEW m \in Nat, m \in S PROVE m + 1 \in S
  <2>1. PICK f : IsRun(bs, m, f)
    BY <1>2
  <2> DEFINE g == [i \in 0 .. (m + 1) |-> RunAt(bs, f, i)]
  <2>2. \A i \in 0 .. m : f[i] = g[i]
    BY <2>1 DEF IsRun
  <2>3. \A i \in 0 .. (m + 1) : i # 0 => i - 1 \in 0 .. m
    OBVIOUS
  <2>4. \A i \in 0 .. (m + 1) : i # 0 => f[i - 1] = g[i - 1]
    BY <2>2, <2>3
  <2> HIDE DEF g
  <2>5. \A i \in 0 .. (m + 1) : RunAt(bs, f, i) = RunAt(bs, g, i)
    BY <2>4 DEF RunAt
  <2>6. g = [i \in 0 .. (m + 1) |-> RunAt(bs, g, i)]
    BY <2>5, Zenon DEF g
  <2>7. IsRun(bs, m + 1, g)
    BY <2>6 DEF IsRun
  <2> QED BY <2>7
<1>3. Nat \subseteq S
  <2> HIDE DEF S
  <2> QED BY <1>1, <1>2, SetInduction
<1> QED BY <1>3

(* It agrees on what agrees.                                               *)
LEMMA RunAgrees ==
  ASSUME NEW bs, NEW cs, NEW n \in Nat, NEW m \in Nat, n <= m, NEW f, NEW g,
         IsRun(bs, n, f), IsRun(cs, m, g), \A i \in 1..n : bs[i] = cs[i]
  PROVE  f[n] = g[n]
<1> DEFINE S == {i \in Nat : i <= n => f[i] = g[i]}
<1>1. \A i \in 0..n : f[i] = RunAt(bs, f, i)
  BY Zenon DEF IsRun
<1>2. \A i \in 0..m : g[i] = RunAt(cs, g, i)
  BY Zenon DEF IsRun
<1>3. 0 \in S
  <2>1. f[0] = RunAt(bs, f, 0) /\ g[0] = RunAt(cs, g, 0)
    BY <1>1, <1>2
  <2>2. RunAt(bs, f, 0) = RunAt(cs, g, 0)
    BY Zenon DEF RunAt
  <2> QED BY <2>1, <2>2
<1>4. ASSUME NEW i \in Nat, i \in S PROVE i + 1 \in S
  <2> SUFFICES ASSUME i + 1 <= n PROVE f[i + 1] = g[i + 1]
    OBVIOUS
  <2> DEFINE k == i + 1
  <2>1. k \in 0..n /\ k \in 0..m /\ k - 1 = i /\ k # 0 /\ k \in 1..n
    OBVIOUS
  <2>2. f[i] = g[i]
    BY <1>4
  <2>3. bs[k] = cs[k]
    BY <2>1
  <2> HIDE DEF k
  <2>4. f[k - 1] = g[k - 1]
    BY <2>1, <2>2
  <2>5. f[k] = RunAt(bs, f, k) /\ g[k] = RunAt(cs, g, k)
    BY <1>1, <1>2, <2>1
  <2>6. RunAt(bs, f, k) = RunAt(cs, g, k)
    BY <2>3, <2>4, Zenon DEF RunAt
  <2> QED BY <2>5, <2>6 DEF k
<1>5. Nat \subseteq S
  <2> HIDE DEF S
  <2> QED BY <1>3, <1>4, SetInduction
<1> QED BY <1>5

(* One block more.                                                         *)
LEMMA RunAppend ==
  ASSUME NEW bs \in Seq(BlockSet), NEW b \in BlockSet
  PROVE  /\ SerialRun(Append(bs, b)).s = SerialAfter(b, SerialRun(bs).s)
         /\ SerialRun(Append(bs, b)).out =
              Append(SerialRun(bs).out, SerialOutput(b, SerialRun(bs).s))
<1> DEFINE n == Len(bs)
           m == n + 1
           cs == Append(bs, b)
           f == CHOOSE f : IsRun(bs, n, f)
           g == CHOOSE g : IsRun(cs, m, g)
<1>1. n \in Nat /\ m \in Nat /\ n <= m /\ m # 0 /\ m - 1 = n /\ m \in 0..m
  OBVIOUS
<1>2. Len(cs) = m /\ cs[m] = b /\ \A i \in 1..n : bs[i] = cs[i]
  OBVIOUS
<1> HIDE DEF cs, n, m
<1>3. IsRun(bs, n, f) /\ IsRun(cs, m, g)
  BY <1>1, RunExists
<1>4. SerialRun(bs) = f[n]
  BY DEF SerialRun, IsRun, RunAt, n
<1>5. SerialRun(cs) = g[m]
  BY <1>2 DEF SerialRun, IsRun, RunAt
<1> HIDE DEF f, g
<1>6. f[n] = g[n]
  BY <1>1, <1>2, <1>3, RunAgrees
<1>7. g[m] = RunAt(cs, g, m)
  BY <1>1, <1>3, Zenon DEF IsRun
<1>8. g[m] = [s |-> SerialAfter(cs[m], g[m - 1].s),
              out |-> Append(g[m - 1].out, SerialOutput(cs[m], g[m - 1].s))]
  BY <1>1, <1>7, Zenon DEF RunAt
<1>9. g[m - 1] = f[n]
  BY <1>1, <1>6
<1> DEFINE fs == f[n]
           x == SerialAfter(b, fs.s)
           y == Append(fs.out, SerialOutput(b, fs.s))
<1> HIDE DEF fs
<1>10. g[m] = [s |-> x, out |-> y]
  BY <1>2, <1>8, <1>9 DEF fs
<1> HIDE DEF x, y
<1>11. g[m].s = x /\ g[m].out = y
  BY <1>10
<1> QED BY <1>4, <1>5, <1>11 DEF cs, x, y, fs

(* None yet.                                                               *)
LEMMA RunEmpty == SerialRun(<<>>).s = FreshScratch /\ SerialRun(<<>>).out = <<>>
<1> DEFINE bs == <<>>
           f == CHOOSE f : IsRun(bs, 0, f)
<1>1. IsRun(bs, 0, f)
  BY RunExists
<1>2. Len(bs) = 0
  OBVIOUS
<1> HIDE DEF bs
<1>3. SerialRun(bs) = f[0]
  BY <1>2 DEF SerialRun, IsRun, RunAt
<1> HIDE DEF f
<1>4. f[0] = RunAt(bs, f, 0)
  BY <1>1 DEF IsRun
<1>5. f[0] = [s |-> FreshScratch, out |-> <<>>]
  BY <1>4 DEF RunAt
<1> QED BY <1>3, <1>5 DEF bs

-----------------------------------------------------------------------------
(* Steps that decode: what is planned, consumed and free stays as it is.   *)

Kept == UNCHANGED <<input, consumed, out, scratch, chain, batch, next_id, calls, free, ncells>>

\* A cell goes on with the block it holds.
GoesOn(c, n) ==
    /\ n.job = c.job /\ n.sequences_first = c.sequences_first
    /\ n.claim = c.claim \/ \E t \in Nat : c.claim = Planned(t) /\ n.claim = Taken(t)
    /\ n.done # c.done => n.done = c.job.id /\ c.claim = Taken(c.job.id)
    /\ n.lit_done \in {c.lit_done, c.job.id}

Decodes ==
    /\ \A c \in Cells : GoesOn(cell[c], cell'[c])
    /\ \A th \in Threads : \/ dec'[th].cell \in {0, dec[th].cell}
                           \/ \E t \in Nat : cell[dec'[th].cell].claim = Planned(t)
    /\ \/ main' = main
       \/ main.pc \in Stage3Places /\ main'.pc \in Stage3Places /\ Control(main, main')

(* A claim tells its ticket, and whether it is taken.                      *)
LEMMA ClaimsApart ==
  ASSUME NEW t \in Nat, NEW u \in Nat
  PROVE  /\ Planned(t) \in Nat /\ Taken(t) \in Nat /\ Planned(t) # Taken(u)
         /\ Planned(t) = Planned(u) => t = u
         /\ Taken(t) = Taken(u) => t = u
         /\ Planned(t) + 1 = Taken(t) /\ Planned(t) # 1 + 2 * u
BY DEF Planned, Taken

(* A cell left alone goes on.                                              *)
LEMMA GoesOnSame == \A c : GoesOn(c, c)
BY DEF GoesOn

(* The parts of the invariant.                                             *)
LEMMA InvParts ==
  ASSUME IInv
  PROVE  /\ TypeInv /\ DecInv /\ TaskInv /\ IdInv /\ ApartInv /\ ModeInv /\ QueueInv
         /\ BatchInv /\ FreshInv /\ StageInv /\ GhostInv /\ SerialInv
BY Zenon DEF IInv, CellsInv

(* A place in the third stage is no other.                                 *)
LEMMA StagePlaces ==
  ASSUME NEW p \in Stage3Places
  PROVE  /\ p \in Places
         /\ p \notin {"driver", "left", "failed", "fill", "front", "raw", "plan", "ring",
                      "spawn", "scope"}
         /\ p \notin BatchPlaces
BY DEF Stage3Places, Places, BatchPlaces

(* The cells keep their blocks, and their tickets are given out.           *)
LEMMA DecodesIds ==
  ASSUME IInv, Kept, Decodes
  PROVE  IdInv' /\ FreshInv'
<1> USE InvParts
<1>1. \A c \in Cells : /\ cell'[c].job.id = cell[c].job.id
                       /\ cell'[c].done \in {cell[c].done, cell[c].job.id}
                       /\ cell'[c].lit_done \in {cell[c].lit_done, cell[c].job.id}
  BY DEF Decodes, GoesOn
<1>2. next_id' = next_id /\ batch' = batch
  BY DEF Kept
<1>3. main'.mode = main.mode
  BY DEF Decodes, Control
<1>4. IdInv'
  BY <1>1, <1>2 DEF IdInv
<1>5. FreshInv'
  <2> SUFFICES ASSUME main.mode = "batch",
                      NEW j \in DOMAIN batch.plans, j > batch.handed, batch.plans[j].job # NoJob,
                      NEW c \in Cells
               PROVE  /\ cell'[c].done # batch.plans[j].job.id
                      /\ cell'[c].lit_done # batch.plans[j].job.id
                      /\ cell'[c].job.id # batch.plans[j].job.id
    BY <1>2, <1>3 DEF FreshInv
  <2>1. /\ cell[c].done # batch.plans[j].job.id
        /\ cell[c].lit_done # batch.plans[j].job.id
        /\ cell[c].job.id # batch.plans[j].job.id
    BY DEF FreshInv
  <2> QED BY <2>1, <1>1
<1> QED BY <1>4, <1>5

(* A cell that holds a planned block still does, a quiet one is quiet.     *)
LEMMA DecodesLive ==
  ASSUME IInv, Kept, Decodes, NEW c \in Cells
  PROVE  /\ \A j : j.id \in Nat /\ Live(c, j) => Live(c, j)'
         /\ Quiet(c) => Quiet(c)'
<1> USE InvParts
<1>1. GoesOn(cell[c], cell'[c])
  BY DEF Decodes
<1>2. ASSUME NEW j, j.id \in Nat, Live(c, j) PROVE Live(c, j)'
  <2>1. cell'[c].job = j
    BY <1>1, <1>2 DEF GoesOn, Live
  <2>2. CASE cell'[c].claim = cell[c].claim
    BY <2>1, <2>2, <1>2 DEF Live
  <2>3. CASE \E t \in Nat : cell[c].claim = Planned(t) /\ cell'[c].claim = Taken(t)
    <3>1. PICK t \in Nat : cell[c].claim = Planned(t) /\ cell'[c].claim = Taken(t)
      BY <2>3
    <3>2. t = j.id
      BY <3>1, <1>2, ClaimsApart DEF Live
    <3> QED BY <2>1, <3>1, <3>2 DEF Live
  <2> QED BY <1>1, <2>2, <2>3 DEF GoesOn
<1>3. ASSUME Quiet(c) PROVE Quiet(c)'
  <2>1. cell'[c].claim = cell[c].claim
    BY <1>1, <1>3, Zenon DEF GoesOn, Quiet
  <2>2. c # 0
    BY DepthType DEF Cells
  <2>3. ASSUME NEW th \in Threads, dec'[th].cell = c PROVE FALSE
    BY <1>3, <2>2, <2>3, Zenon DEF Decodes, Quiet
  <2> QED BY <1>3, <2>1, <2>3, Zenon DEF Quiet
<1> QED BY <1>2, <1>3

-----------------------------------------------------------------------------
(* The ring.                                                               *)

(* Division by a positive number.                                          *)
LEMMA DivMod ==
  ASSUME NEW a \in Nat, NEW n \in Nat \ {0}
  PROVE  a % n \in 0 .. n - 1 /\ a \div n \in Int /\ a = n * (a \div n) + (a % n)
OBVIOUS

(* A multiple strictly between zero and n is none.                         *)
LEMMA NoMultiple ==
  ASSUME NEW k \in Int, NEW n \in Nat \ {0}
  PROVE  ~(0 < n * k /\ n * k < n)
<1>1. CASE k <= 0
  <2>1. n * k <= 0
    BY <1>1
  <2> QED BY <2>1
<1>2. CASE k >= 1
  <2>1. n * k >= n
    BY <1>2
  <2> QED BY <2>1
<1> QED BY <1>1, <1>2

(* Fewer than n apart, two numbers differ modulo n; n apart they do not.   *)
LEMMA ModApart ==
  ASSUME NEW a \in Nat, NEW n \in Nat \ {0}
  PROVE  /\ \A b \in Nat : a < b /\ b < a + n => a % n # b % n
         /\ (a + n) % n = a % n
<1>1. ASSUME NEW b \in Nat, a < b, b < a + n, a % n = b % n PROVE FALSE
  <2> DEFINE p == a \div n
             q == b \div n
             r == a % n
  <2>1. p \in Int /\ q \in Int /\ r \in Int /\ a = n * p + r /\ b = n * q + r
    BY <1>1, DivMod
  <2> HIDE DEF p, q, r
  <2>2. n * (q - p) = n * q - n * p
    BY <2>1
  <2>3. n * (q - p) = b - a
    BY <2>1, <2>2
  <2>4. q - p \in Int
    BY <2>1
  <2>5. ~(0 < n * (q - p) /\ n * (q - p) < n)
    BY <2>4, NoMultiple
  <2> QED BY <2>3, <2>5, <1>1
<1>2. (a + n) % n = a % n
  <2> DEFINE b == a + n
             p == a \div n
             q == b \div n
             r == a % n
             t == b % n
             k == q - p - 1
             l == p + 1 - q
  <2>1. p \in Int /\ r \in 0 .. n - 1 /\ a = n * p + r
    BY DivMod
  <2>2. b \in Nat
    OBVIOUS
  <2>3. q \in Int /\ t \in 0 .. n - 1 /\ b = n * q + t
    BY <2>2, DivMod
  <2> HIDE DEF p, q, r, t
  <2>4. n * k = n * q - n * p - n /\ n * l = n * p + n - n * q
    BY <2>1, <2>3
  <2>5. n * k = r - t /\ n * l = t - r
    BY <2>1, <2>3, <2>4
  <2>6. k \in Int /\ l \in Int
    BY <2>1, <2>3
  <2>7. ~(0 < n * k /\ n * k < n) /\ ~(0 < n * l /\ n * l < n)
    <3> HIDE DEF k, l
    <3> QED BY <2>6, NoMultiple
  <2>8. r = t
    BY <2>1, <2>3, <2>5, <2>7
  <2> QED BY <2>8 DEF r, t
<1> QED BY <1>1, <1>2

(* The ring's cells, in turn.                                              *)
LEMMA RingTurns ==
  ASSUME NEW ring \in Seq(Nat), Len(ring) # 0, NEW i \in Nat \ {0}
  PROVE  /\ \E k \in DOMAIN ring : RingCell(ring, i) = ring[k]
         /\ RingCell(ring, i + Len(ring)) = RingCell(ring, i)
         /\ (\A j, k \in DOMAIN ring : ring[j] = ring[k] => j = k) =>
               \A j \in Nat : i < j /\ j < i + Len(ring) => RingCell(ring, i) # RingCell(ring, j)
<1> DEFINE n == Len(ring)
           a == i - 1
<1>1. n \in Nat \ {0} /\ a \in Nat /\ DOMAIN ring = 1..n
  OBVIOUS
<1>2. a % n \in 0 .. n - 1 /\ (a + n) % n = a % n
  <2> HIDE DEF a, n
  <2> QED BY <1>1, DivMod, ModApart
<1>3. RingCell(ring, i) = ring[(a % n) + 1]
  BY DEF RingCell
<1>4. RingCell(ring, i + n) = ring[((a + n) % n) + 1]
  <2>1. i + n - 1 = a + n
    BY <1>1
  <2> QED BY <2>1 DEF RingCell
<1>5. (a % n) + 1 \in DOMAIN ring
  <2> HIDE DEF a, n
  <2> QED BY <1>1, <1>2
<1>6. ASSUME \A j, k \in DOMAIN ring : ring[j] = ring[k] => j = k,
             NEW j \in Nat, i < j, j < i + n
      PROVE  RingCell(ring, i) # RingCell(ring, j)
  <2> DEFINE b == j - 1
  <2>1. b \in Nat /\ a < b /\ b < a + n
    BY <1>6
  <2>2. a % n # b % n /\ b % n \in 0 .. n - 1
    <3> HIDE DEF a, n, b
    <3> QED BY <1>1, <2>1, DivMod, ModApart
  <2>3. RingCell(ring, j) = ring[(b % n) + 1]
    BY DEF RingCell
  <2>4. (b % n) + 1 \in DOMAIN ring /\ (b % n) + 1 # (a % n) + 1
    <3> HIDE DEF a, n, b
    <3> QED BY <1>1, <1>2, <2>2
  <2> HIDE DEF a, b, n
  <2> QED BY <1>3, <1>5, <1>6, <2>3, <2>4
<1> HIDE DEF a
<1>7. \E k \in DOMAIN ring : RingCell(ring, i) = ring[k]
  BY <1>3, <1>5
<1>8. RingCell(ring, i + n) = RingCell(ring, i)
  BY <1>2, <1>3, <1>4
<1> QED BY <1>6, <1>7, <1>8

(* The cell of a block in the queue.                                       *)
LEMMA QueueCell ==
  ASSUME IInv, NEW i \in DOMAIN chain.queue
  PROVE  /\ chain.queue[i] \in EntrySet
         /\ chain.queue[i].cell # 0 => chain.queue[i].cell \in 1 .. ncells
                                       /\ chain.queue[i].cell \in Cells
         /\ chain.queue[i].job # NoJob => /\ chain.queue[i].job.id \in Nat
                                          /\ chain.queue[i].cell # 0
                                          /\ Live(chain.queue[i].cell, chain.queue[i].job)
<1> USE InvParts
<1>1. chain.queue[i] \in EntrySet
  BY DEF TypeInv, ChainSet
<1>2. chain.queue[i].cell \in Nat
  BY <1>1 DEF EntrySet
<1>3. chain.queue[i].cell <= ncells /\ ncells \in Nat /\ ncells <= MaxCells
  BY DEF ApartInv, TaskInv, TypeInv
<1>4. chain.queue[i].job # NoJob => /\ chain.queue[i].job.id \in 1 .. next_id - 1
                                    /\ chain.queue[i].cell # 0
                                    /\ Live(chain.queue[i].cell, chain.queue[i].job)
  BY Zenon DEF QueueInv, PlanOk
<1>5. next_id \in Nat
  BY DEF TypeInv
<1> QED BY <1>1, <1>2, <1>3, <1>4, <1>5, DepthType DEF Cells

(* The cell of a block in the batch.                                       *)
LEMMA BatchCell ==
  ASSUME IInv, NEW i \in Nat \ {0}, Len(batch.ring) # 0
  PROVE  RingCell(batch.ring, i) \in Cells /\ RingCell(batch.ring, i) \in 1 .. ncells
         /\ RingCell(batch.ring, i) \in RingCells
<1> USE InvParts
<1>1. batch.ring \in Seq(Nat) /\ ncells \in Nat /\ ncells <= MaxCells
  BY DEF TypeInv, BatchSet, TaskInv
<1>2. PICK k \in DOMAIN batch.ring : RingCell(batch.ring, i) = batch.ring[k]
  BY <1>1, RingTurns
<1>3. batch.ring[k] \in 1 .. ncells
  BY DEF ApartInv
<1> QED BY <1>1, <1>2, <1>3, DepthType DEF Cells, RingCells

(* A block planned in the batch.                                           *)
LEMMA BatchJob ==
  ASSUME IInv, main.mode = "batch", NEW i \in DOMAIN batch.plans, batch.plans[i].job # NoJob
  PROVE  batch.plans[i].job.id \in Nat /\ batch.plans[i].job.id \in 1 .. next_id - 1
<1>1. next_id \in Nat
  BY InvParts DEF TypeInv
<1>2. batch.plans[i].job.id \in 1 .. next_id - 1
  BY InvParts, Zenon DEF BatchInv, PlanOk
<1> QED BY <1>1, <1>2

(* The queue's blocks are in their cells still.                            *)
LEMMA DecodesQueue ==
  ASSUME IInv, Kept, Decodes
  PROVE  QueueInv'
<1> USE InvParts
<1>1. chain' = chain /\ next_id' = next_id /\ calls' = calls /\ consumed' = consumed
      /\ input' = input /\ main'.mode = main.mode
  BY DEF Kept, Decodes, Control
<1> SUFFICES ASSUME NEW i \in DOMAIN chain.queue
             PROVE  LET p == chain.queue[i]
                    IN /\ PlanOk(next_id, p)
                       /\ p.cell = 0 <=> p.job = NoJob
                       /\ p.job # NoJob => Live(p.cell, p.job)'
                       /\ p.seen <= calls
                       /\ p.seen = calls /\ main.mode = "chain" =>
                             /\ Len(consumed) + i <= Len(input)
                             /\ Holds(p, input[Len(consumed) + i])
  BY <1>1 DEF QueueInv, Live
<1>2. chain.queue[i].job # NoJob => Live(chain.queue[i].cell, chain.queue[i].job)'
  BY <1>1, QueueCell, DecodesLive DEF Live
<1> QED BY <1>2 DEF QueueInv

(* And the batch's.                                                        *)
LEMMA DecodesBatch ==
  ASSUME IInv, Kept, Decodes
  PROVE  BatchInv'
<1> USE InvParts
<1>1. batch' = batch /\ next_id' = next_id /\ consumed' = consumed /\ input' = input
      /\ main'.mode = main.mode
  BY DEF Kept, Decodes, Control
<1>2. \/ main'.pc = main.pc
      \/ main.pc \in Stage3Places /\ main'.pc \in Stage3Places
  BY DEF Decodes
<1> SUFFICES ASSUME main.mode = "batch"
             PROVE  BatchInv'
  BY <1>1 DEF BatchInv
<1> DEFINE n == Len(batch.ring)
           Cond(j) == IF Handed(j) THEN Live(RingCell(batch.ring, j), batch.plans[j].job)
                      ELSE Quiet(RingCell(batch.ring, j))
<1>3. batch \in BatchSet
  BY DEF TypeInv
<1>4. batch.ring \in Seq(Nat) /\ batch.done \in Nat /\ batch.handed \in Nat
      /\ batch.plans \in Seq(PlanSet)
  BY <1>3 DEF BatchSet
<1>5. ASSUME main.pc # "scope", NEW j \in batch.done + 1 .. batch.done + n
      PROVE  Cond(j)'
  <2>1. n \in Nat /\ n # 0 /\ j \in Nat \ {0}
    BY <1>4, <1>5
  <2>2. RingCell(batch.ring, j) \in Cells
    BY <2>1, BatchCell
  <2>3. Cond(j)
    BY <1>5 DEF BatchInv
  <2>4. CASE Handed(j)
    <3>1. Handed(j)'
      BY <2>4, <1>1 DEF Handed
    <3>2. j \in DOMAIN batch.plans /\ batch.plans[j].job # NoJob
      BY <2>1, <2>4, <1>4 DEF Handed
    <3>3. batch.plans[j].job.id \in Nat
      BY <3>2, BatchJob
    <3>4. Live(RingCell(batch.ring, j), batch.plans[j].job)
      BY <2>3, <2>4
    <3>5. Live(RingCell(batch.ring, j), batch.plans[j].job)'
      BY <2>2, <3>3, <3>4, <1>1, DecodesLive DEF Live
    <3> QED BY <3>1, <3>5
  <2>5. CASE ~Handed(j)
    <3>1. ~Handed(j)'
      BY <2>5, <1>1 DEF Handed
    <3>2. Quiet(RingCell(batch.ring, j))
      BY <2>3, <2>5
    <3>3. Quiet(RingCell(batch.ring, j))'
      BY <2>2, <3>2, <1>1, DecodesLive DEF Quiet
    <3> QED BY <3>1, <3>3
  <2> QED BY <2>4, <2>5
<1>6. main'.pc # "scope" => main.pc # "scope"
  BY <1>2, StagePlaces
<1>7. \A j \in batch.done + 1 .. batch.done + n : main'.pc # "scope" => Cond(j)'
  BY <1>5, <1>6
<1> HIDE DEF Cond
<1>8. main.pc = main'.pc \/ (/\ main.pc \notin {"plan", "ring", "spawn", "front", "scope"}
                             /\ main'.pc \notin {"plan", "ring", "spawn", "front", "scope"})
  BY <1>2, StagePlaces, Zenon
<1> QED BY <1>1, <1>2, <1>7, <1>8, StagePlaces DEF BatchInv, Cond

(* What is planned, consumed and free stays right.                         *)
LEMMA DecodesRest ==
  ASSUME IInv, Kept, Decodes
  PROVE  /\ ApartInv' /\ ModeInv' /\ SerialInv'
         /\ CurCell' = CurCell /\ CurJob' = CurJob /\ CurEntry' = CurEntry
<1> USE InvParts
<1>1. /\ input' = input /\ consumed' = consumed /\ out' = out /\ scratch' = scratch
      /\ chain' = chain /\ batch' = batch /\ next_id' = next_id /\ free' = free
      /\ ncells' = ncells
  BY DEF Kept
<1>2. main'.mode = main.mode /\ main'.end = main.end /\ main'.broke = main.broke
  BY DEF Decodes, Control
<1>3. \/ main'.pc = main.pc
      \/ main.pc \in Stage3Places /\ main'.pc \in Stage3Places
  BY DEF Decodes
<1>4. main.pc = main'.pc \/ (/\ main.pc \notin {"driver", "left", "failed", "fill", "scope"}
                             /\ main'.pc \notin {"driver", "left", "failed", "fill", "scope"}
                             /\ main.pc \notin BatchPlaces /\ main'.pc \notin BatchPlaces)
  BY <1>3, StagePlaces
<1>5. ApartInv'
  BY <1>1 DEF ApartInv, QueueCells, RingCells
<1>6. ModeInv'
  <2>1. main'.mode = "none" <=> main'.pc \in {"driver", "left", "failed"}
    BY <1>2, <1>4 DEF ModeInv
  <2>2. /\ main'.pc \in BatchPlaces => main'.mode = "batch"
        /\ main'.pc = "fill" => main'.mode = "chain"
        /\ main'.pc \in {"left", "failed"} => ~chain.on
    BY <1>2, <1>4 DEF ModeInv
  <2> QED BY <1>1, <1>2, <2>1, <2>2 DEF ModeInv
<1>7. SerialInv'
  <2>1. main'.pc \in {"left", "failed", "driver", "scope"} <=>
          main.pc \in {"left", "failed", "driver", "scope"}
    BY <1>4
  <2>2. main'.pc \in {"left", "failed", "driver", "scope"} => main'.pc = main.pc
    BY <1>4
  <2>3. OutputIsSerial' /\ Reference' = Reference /\ NextBlock' = NextBlock
    BY <1>1 DEF SerialInv, OutputIsSerial, Reference, NextBlock
  <2> QED BY <1>1, <1>2, <2>1, <2>2, <2>3 DEF SerialInv, FailuresAreReal
<1>8. CurCell' = CurCell /\ CurJob' = CurJob /\ CurEntry' = CurEntry
  BY <1>1, <1>2 DEF CurCell, CurJob, CurEntry
<1> QED BY <1>5, <1>6, <1>7, <1>8

(* The tables in use are those that were.                                  *)
LEMMA DecodesLines ==
  ASSUME IInv, Kept, Decodes, NEW H, NEW F, NEW S, QueueLine(H, F, S), BatchLine(H, F, S)
  PROVE  QueueLine(H, F, S)' /\ BatchLine(H, F, S)'
<1>1. /\ consumed' = consumed /\ scratch' = scratch
      /\ chain' = chain /\ batch' = batch /\ next_id' = next_id
  BY DEF Kept
<1>2. main'.mode = main.mode
  BY DEF Decodes, Control
<1>3. Reference' = Reference
  BY <1>1 DEF Reference
<1> QED BY <1>1, <1>2, <1>3 DEF QueueLine, BatchLine

(* The block being executed is in its cell.                                *)
LEMMA CurBlock ==
  ASSUME IInv, main.pc \in Stage3Places
  PROVE  /\ CurCell \in Cells /\ CurCell \in 1 .. ncells /\ CurJob # NoJob /\ CurJob.id \in Nat
         /\ Live(CurCell, CurJob) /\ CurJob = CurEntry.job /\ CurJob.blk = CurEntry.blk
         /\ CurJob \in JobSet
<1> USE InvParts
<1>1. main.pc \notin {"driver", "left", "failed", "raw", "plan", "ring", "spawn", "front", "scope"}
  BY StagePlaces
<1>2. main.mode \in {"chain", "batch"}
  BY <1>1 DEF ModeInv, TypeInv, MainSet
<1>3. CurEntry.job # NoJob
  BY <1>1 DEF StageInv
<1>4. CASE main.mode = "chain"
  <2>1. chain.queue # <<>> /\ chain.queue \in Seq(EntrySet)
    BY <1>4 DEF StageInv, TypeInv, ChainSet
  <2>2. 1 \in DOMAIN chain.queue
    BY <2>1
  <2>3. CurEntry = chain.queue[1] /\ CurJob = chain.queue[1].job /\ CurCell = chain.queue[1].cell
    BY <1>4 DEF CurEntry, CurJob, CurCell
  <2>4. chain.queue[1].job.blk = chain.queue[1].blk
    BY <1>3, <2>2, <2>3 DEF QueueInv, PlanOk
  <2>5. chain.queue[1].job \in JobSet
    BY <2>2, QueueCell DEF EntrySet
  <2> QED BY <1>3, <2>2, <2>3, <2>4, <2>5, QueueCell
<1>5. CASE main.mode = "batch"
  <2> DEFINE i == batch.done + 1
  <2>1. batch \in BatchSet
    BY DEF TypeInv
  <2>2. batch.ring \in Seq(Nat) /\ batch.done \in Nat /\ batch.plans \in Seq(PlanSet)
    BY <2>1 DEF BatchSet
  <2>3. CurEntry = batch.plans[i] /\ CurJob = batch.plans[i].job /\ CurCell = RingCell(batch.ring, i)
    BY <1>5 DEF CurEntry, CurJob, CurCell
  <2>4. /\ batch.handed = batch.done + Len(batch.ring) /\ batch.done < Len(batch.plans)
        /\ Len(batch.plans) # 0 => Len(batch.ring) # 0
    BY <1>1, <1>5 DEF BatchInv
  <2>5. i \in DOMAIN batch.plans /\ i \in Nat \ {0} /\ Len(batch.ring) # 0 /\ i <= Len(batch.plans)
        /\ i <= batch.handed /\ i \in batch.done + 1 .. batch.done + Len(batch.ring)
    BY <2>2, <2>4
  <2> HIDE DEF i
  <2>6. CurJob # NoJob /\ Handed(i)
    BY <1>3, <2>3, <2>5 DEF Handed
  <2>7. Live(CurCell, CurJob)
    BY <1>1, <1>5, <2>3, <2>5, <2>6 DEF BatchInv, i
  <2>8. batch.plans[i].job.blk = batch.plans[i].blk
    BY <1>5, <2>3, <2>5, <2>6 DEF BatchInv, PlanOk
  <2>9. batch.plans[i].job \in JobSet
    <3>1. batch.plans[i] \in PlanSet
      BY <2>2, <2>5
    <3> QED BY <3>1 DEF PlanSet
  <2> QED BY <1>5, <2>3, <2>5, <2>6, <2>7, <2>8, <2>9, BatchCell, BatchJob
<1> QED BY <1>2, <1>4, <1>5

(* A thread's decode is into a cell.                                       *)
LEMMA DecodeCell ==
  ASSUME IInv, NEW th \in Threads, dec[th] # NoDecode
  PROVE  /\ dec[th].cell \in Cells /\ dec[th].cell # 0 /\ cell[dec[th].cell] \in CellSet
         /\ cell[dec[th].cell].job # NoJob /\ dec[th].ticket = cell[dec[th].cell].job.id
         /\ dec[th].ticket \in Nat /\ cell[dec[th].cell].claim = Taken(dec[th].ticket)
         /\ dec[th] \in DecSet
<1> USE InvParts
<1>1. ncells \in Nat /\ ncells <= MaxCells /\ cell \in [Cells -> CellSet]
      /\ dec \in [Threads -> DecSet]
  BY DEF TypeInv, TaskInv
<1>2. dec[th].cell \in 1 .. ncells /\ dec[th].ticket \in Nat
      /\ cell[dec[th].cell].job.id = dec[th].ticket /\ cell[dec[th].cell].claim = Taken(dec[th].ticket)
  BY DEF DecInv
<1>3. dec[th].cell \in Cells /\ dec[th].cell # 0
  BY <1>1, <1>2, DepthType DEF Cells
<1>4. cell[dec[th].cell].job # NoJob
  BY <1>2, EmptyTypes
<1> QED BY <1>1, <1>2, <1>3, <1>4

(* A thread decodes on into its cell, or is done with it.                  *)
LEMMA DecodesInto ==
  ASSUME IInv, Kept, tasks' = tasks, worker' = worker, main' = main,
         NEW th \in Threads, dec[th] # NoDecode, NEW c, c = dec[th].cell,
         NEW n \in CellSet, NEW d \in DecSet,
         cell' = [cell EXCEPT ![c] = n], dec' = [dec EXCEPT ![th] = d],
         n.job = cell[c].job, n.sequences_first = cell[c].sequences_first,
         n.claim = cell[c].claim, n.lit_done \in {cell[c].lit_done, cell[c].job.id},
         cell[c].lit_done = cell[c].job.id => n.lits_ok = cell[c].lits_ok,
         \/ d = NoDecode /\ n.done = cell[c].job.id
         \/ /\ n.done = cell[c].done /\ d.pc # "idle" /\ d.cell = c /\ d.ticket = dec[th].ticket,
         \A H, F \in [Nat -> Nat] : TableInv(H, F) =>
            CellOk(next_id, H, F, n) /\ (d # NoDecode => DecOk(d, n))
  PROVE  IInv'
<1> USE InvParts
<1>1. /\ c \in Cells /\ c # 0 /\ cell[c] \in CellSet /\ dec[th].ticket = cell[c].job.id
      /\ cell[c].claim = Taken(cell[c].job.id) /\ cell[c].job # NoJob
      /\ cell[c].job.id \in Nat
  BY DecodeCell
<1>2. cell \in [Cells -> CellSet] /\ dec \in [Threads -> DecSet]
  BY DEF TypeInv
<1>3. cell'[c] = n /\ \A e \in Cells : e # c => cell'[e] = cell[e]
  BY <1>1, <1>2
<1>4. dec'[th] = d /\ \A u \in Threads : u # th => dec'[u] = dec[u]
  BY <1>2
<1>5. TypeInv'
  <2>1. cell' \in [Cells -> CellSet] /\ dec' \in [Threads -> DecSet]
    BY <1>2
  <2> QED BY <2>1, Zenon DEF TypeInv, Kept
<1>6. Decodes
  <2>1. \A e \in Cells : GoesOn(cell[e], cell'[e])
    <3> SUFFICES ASSUME NEW e \in Cells PROVE GoesOn(cell[e], cell'[e])
      OBVIOUS
    <3>1. CASE e = c
      <4>1. n.done = cell[c].done \/ n.done = cell[c].job.id
        OBVIOUS
      <4> QED BY <3>1, <4>1, <1>1, <1>3 DEF GoesOn
    <3>2. CASE e # c
      <4>1. cell'[e] = cell[e]
        BY <3>2, <1>3
      <4> QED BY <4>1, GoesOnSame
    <3> QED BY <3>1, <3>2
  <2>2. \A u \in Threads : dec'[u].cell \in {0, dec[u].cell}
    BY <1>4, EmptyTypes
  <2> QED BY <2>1, <2>2 DEF Decodes
<1>7. IdInv' /\ FreshInv' /\ QueueInv' /\ BatchInv' /\ ApartInv' /\ ModeInv' /\ SerialInv'
      /\ CurCell' = CurCell /\ CurJob' = CurJob /\ CurEntry' = CurEntry
  BY <1>6, DecodesIds, DecodesQueue, DecodesBatch, DecodesRest
<1>8. DecInv'
  <2>1. ncells' = ncells
    BY DEF Kept
  <2>2. Workers \subseteq Threads /\ Main \in Threads
    BY MainApart
  <2>3. \A u \in Threads \ {th} : dec[u].cell # c
    BY DEF DecInv
  <2>4. \A u \in Threads : dec'[u] # NoDecode =>
           dec[u] # NoDecode /\ dec'[u].cell = dec[u].cell /\ dec'[u].ticket = dec[u].ticket
    BY <1>4
  <2>5. \A u \in Threads : dec'[u].cell \in {0, dec[u].cell}
    BY <1>4, EmptyTypes
  <2>6. \A u \in Threads : dec'[u] # NoDecode => dec'[u].pc # "idle"
    BY <1>4 DEF DecInv
  <2>7. ASSUME NEW u \in Threads, dec'[u] # NoDecode
        PROVE  /\ dec'[u].cell \in 1 .. ncells' /\ dec'[u].ticket \in Nat
               /\ cell'[dec'[u].cell].claim = Taken(dec'[u].ticket)
               /\ cell'[dec'[u].cell].done # dec'[u].ticket
               /\ cell'[dec'[u].cell].job.id = dec'[u].ticket
               /\ \A v \in Threads \ {u} : dec'[v].cell # dec'[u].cell
    <3>1. dec[u] # NoDecode /\ dec'[u].cell = dec[u].cell /\ dec'[u].ticket = dec[u].ticket
      BY <2>4, <2>7
    <3>2. /\ dec[u].cell \in 1 .. ncells /\ dec[u].ticket \in Nat
          /\ cell[dec[u].cell].claim = Taken(dec[u].ticket)
          /\ cell[dec[u].cell].done # dec[u].ticket
          /\ cell[dec[u].cell].job.id = dec[u].ticket
          /\ \A v \in Threads \ {u} : dec[v].cell # dec[u].cell
      BY <3>1 DEF DecInv
    <3>3. dec[u].cell \in Cells /\ dec[u].cell # 0
      BY <3>1, DecodeCell
    <3>4. \A v \in Threads \ {u} : dec'[v].cell # dec'[u].cell
      BY <3>1, <3>2, <3>3, <2>5
    <3>5. CASE u = th
      <4>1. n.done = cell[c].done
        BY <3>5, <2>7, <1>4
      <4> QED BY <3>1, <3>2, <3>4, <3>5, <4>1, <1>3, <2>1
    <3>6. CASE u # th
      <4>1. cell'[dec[u].cell] = cell[dec[u].cell]
        BY <3>3, <3>6, <2>3, <1>3
      <4> QED BY <3>1, <3>2, <3>4, <4>1, <2>1
    <3> QED BY <3>5, <3>6
  <2>8. \A w \in Workers : dec'[w] # NoDecode => worker'[w].cell = dec'[w].cell
    BY <2>2, <2>4 DEF DecInv
  <2>9. dec'[Main] # NoDecode => main'.pc \in {"lits", "wait"}
    BY <2>2, <2>4 DEF DecInv
  <2> QED BY <2>6, <2>7, <2>8, <2>9, Zenon DEF DecInv
<1>9. TaskInv'
  <2>1. ASSUME NEW e \in Cells, NEW t \in Nat, cell'[e].claim = Planned(t)
        PROVE  /\ cell'[e].done # t
               /\ cell'[e].job.id = t
               /\ \E i \in DOMAIN tasks : tasks[i].cell = e /\ tasks[i].ticket = t
    <3>1. e # c
      <4>1. e = c => Planned(t) = Taken(cell[c].job.id)
        BY <1>1, <1>3, <2>1, Zenon
      <4> QED BY ONLY <4>1, <1>1, t \in Nat, ClaimsApart
    <3>2. cell'[e] = cell[e]
      BY <3>1, <1>3
    <3>3. cell[e].claim = Planned(t)
      BY <2>1, <3>2
    <3> QED BY <3>2, <3>3 DEF TaskInv
  <2>2. ncells' = ncells /\ tasks' = tasks /\ worker' = worker
    BY DEF Kept
  <2> QED BY <2>1, <2>2 DEF TaskInv
<1>10. StageInv'
  <2>1. main.pc \in Stage3Places => cell'[CurCell].claim = cell[CurCell].claim
    BY <1>3, CurBlock
  <2>2. chain' = chain /\ calls' = calls /\ consumed' = consumed /\ input' = input
    BY DEF Kept
  <2> QED BY <1>7, <2>1, <2>2 DEF StageInv
<1>11. GhostInv'
  <2>1. PICK H, F \in [Nat -> Nat] :
          \E S : TableInv(H, F) /\ QueueLine(H, F, S) /\ BatchLine(H, F, S)
    BY DEF GhostInv
  <2>2. PICK S : TableInv(H, F) /\ QueueLine(H, F, S) /\ BatchLine(H, F, S)
    BY <2>1
  <2>3. QueueLine(H, F, S)' /\ BatchLine(H, F, S)'
    BY <1>6, <2>2, DecodesLines
  <2>4. TableInv(H, F)'
    <3>1. next_id' = next_id
      BY DEF Kept
    <3>2. \A e \in Cells : CellOk(next_id, H, F, cell'[e])
      BY <2>2, <1>3 DEF TableInv
    <3>3. ASSUME NEW u \in Threads, dec'[u] # NoDecode
          PROVE  DecOk(dec'[u], cell'[dec'[u].cell])
      <4>1. CASE u = th
        <5>1. d # NoDecode /\ d.cell = c
          BY <4>1, <3>3, <1>4
        <5> QED BY <4>1, <5>1, <2>2, <1>3, <1>4
      <4>2. CASE u # th
        <5>1. dec'[u] = dec[u] /\ dec[u] # NoDecode
          BY <4>2, <3>3, <1>4
        <5>2. dec[u].cell # c /\ dec[u].cell \in Cells
          BY <4>2, <5>1, DecodeCell DEF DecInv
        <5> QED BY <5>1, <5>2, <1>3, <2>2 DEF TableInv
      <4> QED BY <4>1, <4>2
    <3>4. ASSUME main.pc \in {"runs", "runs_wait", "finish"}
          PROVE  ReadOk(F, main, cell'[CurCell], CurJob)
      <4>1. ReadOk(F, main, cell[CurCell], CurJob)
        BY <3>4, <2>2 DEF TableInv
      <4>2. main.pc \in Stage3Places
        BY <3>4 DEF Stage3Places
      <4>3. CurCell \in Cells /\ cell[CurCell].job = CurJob
        BY <4>2, CurBlock DEF Live
      <4>4. CASE CurCell = c
        <5>1. n.lit_done = CurJob.id /\ n.lits_ok = cell[c].lits_ok
          BY <4>1, <4>3, <4>4 DEF ReadOk
        <5>2. cell[c].done = CurJob.id => n.done = CurJob.id
          BY <4>3, <4>4
        <5>3. ReadOk(F, main, n, CurJob)
          BY <4>1, <4>4, <5>1, <5>2, Zenon DEF ReadOk
        <5> QED BY <4>4, <5>3, <1>3
      <4>5. CASE CurCell # c
        BY <4>1, <4>3, <4>5, <1>3
      <4> QED BY <4>4, <4>5
    <3> QED BY <1>7, <3>1, <3>2, <3>3, <3>4 DEF TableInv
  <2> QED BY <2>3, <2>4 DEF GhostInv
<1> QED BY <1>5, <1>7, <1>8, <1>9, <1>10, <1>11, Zenon DEF IInv, CellsInv

-----------------------------------------------------------------------------
(* Stage 2 decodes a cell's block with the tables the block uses.          *)

(* The sequences are decoded if they were.                                 *)
LEMMA SeqsDoneSame ==
  ASSUME NEW c, NEW n, SameJob(c, n), n.progress = c.progress, n.ok = c.ok, SeqsDone(c)
  PROVE  SeqsDone(n)
BY DEF SeqsDone, SameJob

(* What a cell has published stays its block's.                            *)
LEMMA CellSame ==
  ASSUME NEW N, NEW H, NEW F, NEW c, NEW n, CellOk(N, H, F, c),
         SameJob(c, n), SameSeqs(c, n), SameLits(c, n),
         n.done = c.job.id => SeqsDone(c)
  PROVE  CellOk(N, H, F, n)
<1>1. Len(n.seqs) = 2 /\ TagOk(N, H, n.huf_from, n.huf) /\ TagOk(N, F, n.fse_from, n.fse)
  BY DEF CellOk, SameSeqs, SameLits
<1>2. ASSUME n.job # NoJob
      PROVE  JobOk(N, H, F, n.job) /\ LitsOk(H, n) /\ RunsOk(F, n)
             /\ (n.done = n.job.id => SeqsDone(n))
  <2>1. n.job = c.job
    BY DEF SameJob
  <2>2. JobOk(N, H, F, c.job) /\ LitsOk(H, c) /\ RunsOk(F, c)
    BY <1>2, <2>1 DEF CellOk
  <2>3. LitsOk(H, n)
    BY <2>1, <2>2 DEF LitsOk, SameLits
  <2>4. RunsOk(F, n)
    BY <2>1, <2>2 DEF RunsOk, SameSeqs
  <2>5. n.done = n.job.id => SeqsDone(n)
    BY <2>1, SeqsDoneSame DEF SameSeqs
  <2> QED BY <2>1, <2>2, <2>3, <2>4, <2>5
<1> QED BY <1>1, <1>2 DEF CellOk

(* The Huffman table a job's literals are decoded with is the one it       *)
(* names, and tagged so.                                                   *)
LEMMA HufIsNamed ==
  ASSUME NEW N \in Nat, NEW H \in [Nat -> Nat], NEW F, NEW c \in CellSet, NEW j \in JobSet,
         JobOk(N, H, F, j), TagOk(N, H, c.huf_from, c.huf)
  PROVE  /\ TagOk(N, H, HufTable(c, j).from, HufTable(c, j).huf)
         /\ j.huf_def # NoId => HufTable(c, j).huf = H[j.huf_def]
<1>1. j.huf_def \in Int /\ j.id \in 1 .. N - 1 /\ H[j.id] = Tok(j.blk)
  BY DEF JobOk, JobSet
<1>2. UsesTable(N, H, j.huf_def, j.id, j.defs.huf, j.start.id, j.start.init.huf)
  BY DEF JobOk
<1>3. CASE j.huf_def = NoId
  BY <1>3 DEF HufTable
<1>4. CASE j.huf_def # NoId /\ j.huf_def = j.id
  BY <1>1, <1>4 DEF HufTable, TagOk
<1>5. CASE j.huf_def # NoId /\ j.huf_def # j.id /\ c.huf_from = j.huf_def
  BY <1>5 DEF HufTable, TagOk
<1>6. CASE j.huf_def # NoId /\ j.huf_def # j.id /\ c.huf_from # j.huf_def /\ j.huf_def = j.start.id
  BY <1>2, <1>6 DEF HufTable, TagOk, UsesTable
<1>7. CASE j.huf_def # NoId /\ j.huf_def # j.id /\ c.huf_from # j.huf_def /\ j.huf_def # j.start.id
  BY <1>2, <1>7 DEF HufTable, TagOk, UsesTable
<1> QED BY <1>3, <1>4, <1>5, <1>6, <1>7

(* So is the sequence table.                                               *)
LEMMA FseIsNamed ==
  ASSUME NEW N \in Nat, NEW H, NEW F \in [Nat -> Nat], NEW c \in CellSet, NEW j \in JobSet,
         JobOk(N, H, F, j), TagOk(N, F, c.fse_from, c.fse), j.fse_def # NoId
  PROVE  /\ TagOk(N, F, FseTable(c, j).from, FseTable(c, j).fse)
         /\ UsedFse(c, j) = F[j.fse_def]
<1>1. j.fse_def \in Int /\ j.id \in 1 .. N - 1 /\ F[j.id] = Tok(j.blk)
  BY DEF JobOk, JobSet
<1>2. UsesTable(N, F, j.fse_def, j.id, j.defs.fse, j.start.id, j.start.init.fse)
  BY DEF JobOk
<1>3. CASE j.fse_def = j.id
  BY <1>1, <1>2, <1>3 DEF FseTable, UsedFse, TagOk, UsesTable
<1>4. CASE j.fse_def # j.id /\ j.fse_def = j.start.id
  BY <1>2, <1>4 DEF FseTable, UsedFse, TagOk, UsesTable
<1>5. CASE j.fse_def # j.id /\ j.fse_def # j.start.id /\ j.fse_def = c.fse_from
  BY <1>5 DEF FseTable, UsedFse, TagOk
<1>6. CASE j.fse_def # j.id /\ j.fse_def # j.start.id /\ j.fse_def # c.fse_from
  BY <1>2, <1>6 DEF FseTable, UsedFse, TagOk, UsesTable
<1> QED BY <1>3, <1>4, <1>5, <1>6

(* A cell's literals decoded.                                              *)
LEMMA LitsDecoded ==
  ASSUME NEW N \in Nat, NEW H \in [Nat -> Nat], NEW F, NEW c \in CellSet,
         CellOk(N, H, F, c), c.job # NoJob
  PROVE  LET n == DecodeLiterals(c, c.job, c.job.id)
         IN /\ CellOk(N, H, F, n) /\ n \in CellSet /\ n.claim = c.claim /\ n.done = c.done
            /\ SameJob(c, n) /\ n.lit_done = c.job.id /\ SameSeqs(c, n)
            /\ c.lit_done = c.job.id => n.lits_ok = c.lits_ok
<1> DEFINE n == DecodeLiterals(c, c.job, c.job.id)
           h == HufTable(c, c.job)
<1>1. JobOk(N, H, F, c.job) /\ TagOk(N, H, c.huf_from, c.huf) /\ c.job \in JobSet
  BY DEF CellOk, CellSet
<1>2. c.job.blk \in BlockSet /\ c.job.id \in Int
  BY <1>1 DEF JobOk
<1>3. TagOk(N, H, h.from, h.huf) /\ (c.job.huf_def # NoId => h.huf = H[c.job.huf_def])
  BY <1>1, HufIsNamed
<1>4. /\ n \in CellSet /\ n.claim = c.claim /\ n.done = c.done
      /\ SameJob(c, n) /\ SameSeqs(c, n)
      /\ n.lit_done = c.job.id /\ n.huf = h.huf
      /\ n.huf_from \in {NoId, h.from}
      /\ n.lits = IF c.job.huf_def = NoId THEN NoTable ELSE h.huf
      /\ n.lits_ok <=> c.job.blk.fault # "lit"
  BY <1>1, <1>2, LitsCell
<1> HIDE DEF n, h
<1>5. LitsOk(H, n)
  BY <1>3, <1>4 DEF LitsOk, LitsOf, SameJob
<1>6. TagOk(N, H, n.huf_from, n.huf)
  BY <1>3, <1>4 DEF TagOk
<1>7. RunsOk(F, n) /\ Len(n.seqs) = 2 /\ TagOk(N, F, n.fse_from, n.fse)
  BY <1>4 DEF CellOk, RunsOk, SameSeqs, SameJob
<1>8. n.done = n.job.id => SeqsDone(n)
  BY <1>4, SeqsDoneSame DEF CellOk, SameSeqs, SameJob
<1>9. JobOk(N, H, F, n.job)
  BY <1>1, <1>4 DEF SameJob
<1>10. CellOk(N, H, F, n)
  BY <1>5, <1>6, <1>7, <1>8, <1>9 DEF CellOk
<1>11. c.lit_done = c.job.id => n.lits_ok = c.lits_ok
  <2>1. c.lits_ok \in BOOLEAN /\ n.lits_ok \in BOOLEAN
    BY <1>4 DEF CellSet
  <2>2. c.lit_done = c.job.id => (c.lits_ok <=> c.job.blk.fault # "lit")
    BY DEF CellOk, LitsOk
  <2> QED BY <1>4, <2>1, <2>2, Zenon
<1> QED BY <1>4, <1>10, <1>11 DEF n

(* A block without sequences.                                              *)
LEMMA NoSeqsDecoded ==
  ASSUME NEW N \in Nat, NEW H, NEW F, NEW c \in CellSet, CellOk(N, H, F, c),
         c.job # NoJob, ~HasSeqs(c.job.blk), c.done # c.job.id
  PROVE  LET n == NoSequences(c)
         IN /\ CellOk(N, H, F, n) /\ n \in CellSet /\ n.claim = c.claim /\ n.done = c.done
            /\ SameJob(c, n) /\ SameLits(c, n) /\ SeqsDone(n)
<1> DEFINE n == NoSequences(c)
<1>1. /\ n \in CellSet /\ n.claim = c.claim /\ n.done = c.done
      /\ SameJob(c, n) /\ SameLits(c, n)
      /\ n.progress = c.progress /\ n.seqs = c.seqs /\ n.end = c.end
      /\ n.fse_from = c.fse_from /\ n.fse = c.fse
      /\ n.ok <=> c.job.blk.fault # "seq"
  BY NoSeqsCell
<1> HIDE DEF n
<1>2. SeqsDone(n)
  BY <1>1 DEF SeqsDone, SameJob
<1>3. JobOk(N, H, F, n.job) /\ LitsOk(H, n) /\ RunsOk(F, n)
  BY <1>1 DEF CellOk, LitsOk, RunsOk, SameJob, SameLits
<1>4. Len(n.seqs) = 2 /\ TagOk(N, H, n.huf_from, n.huf) /\ TagOk(N, F, n.fse_from, n.fse)
  BY <1>1 DEF CellOk, SameLits
<1>5. CellOk(N, H, F, n)
  BY <1>2, <1>3, <1>4 DEF CellOk
<1> QED BY <1>1, <1>2, <1>5 DEF n

(* The first sequence of a block.                                          *)
LEMMA FirstDecoded ==
  ASSUME NEW N \in Nat, NEW H, NEW F \in [Nat -> Nat], NEW c \in CellSet,
         CellOk(N, H, F, c), c.job # NoJob, HasSeqs(c.job.blk), c.done # c.job.id
  PROVE  LET n == PublishFirst(c)
         IN /\ CellOk(N, H, F, n) /\ n \in CellSet /\ n.claim = c.claim /\ n.done = c.done
            /\ SameJob(c, n) /\ SameLits(c, n) /\ n.progress = 1
<1> DEFINE n == PublishFirst(c)
<1>1. JobOk(N, H, F, c.job) /\ TagOk(N, F, c.fse_from, c.fse) /\ c.job \in JobSet
  BY DEF CellOk, CellSet
<1>2. c.job.blk \in BlockSet /\ c.job.fse_def # NoId
  BY <1>1 DEF JobOk, HasSeqs
<1>3. TagOk(N, F, FseTable(c, c.job).from, FseTable(c, c.job).fse)
      /\ UsedFse(c, c.job) = F[c.job.fse_def]
  BY <1>1, <1>2, FseIsNamed
<1>4. /\ n \in CellSet /\ n.claim = c.claim /\ n.done = c.done
      /\ SameJob(c, n) /\ SameLits(c, n)
      /\ n.progress = 1 /\ Len(n.seqs) = 2 /\ n.ok = c.ok
      /\ n.seqs[1] = RelSeq(c.job.blk, 1, UsedFse(c, c.job))
      /\ n.fse = FseTable(c, c.job).fse /\ n.fse_from = FseTable(c, c.job).from
  BY <1>2, FirstCell
<1> HIDE DEF n
<1>5. n.seqs[1] = SeqsOf(F, n.job, 1) /\ HasSeqs(n.job.blk)
  BY <1>3, <1>4 DEF SeqsOf, SameJob
<1>6. RunsOk(F, n)
  BY <1>4, <1>5 DEF RunsOk
<1>7. JobOk(N, H, F, n.job) /\ LitsOk(H, n)
  BY <1>1, <1>4 DEF CellOk, LitsOk, SameJob, SameLits
<1>8. TagOk(N, H, n.huf_from, n.huf) /\ TagOk(N, F, n.fse_from, n.fse)
  BY <1>3, <1>4 DEF CellOk, SameLits
<1>9. n.done # n.job.id
  BY <1>4 DEF SameJob
<1>10. CellOk(N, H, F, n)
  BY <1>4, <1>6, <1>7, <1>8, <1>9 DEF CellOk
<1> QED BY <1>4, <1>10 DEF n

(* The last one.                                                           *)
LEMMA LastDecoded ==
  ASSUME NEW N \in Nat, NEW H, NEW F \in [Nat -> Nat], NEW c \in CellSet,
         CellOk(N, H, F, c), c.job # NoJob, c.progress = 1, c.done # c.job.id
  PROVE  LET n == PublishLast(c)
         IN /\ CellOk(N, H, F, n) /\ n \in CellSet /\ n.claim = c.claim /\ n.done = c.done
            /\ SameJob(c, n) /\ SameLits(c, n) /\ SeqsDone(n)
<1> DEFINE n == PublishLast(c)
<1>1. JobOk(N, H, F, c.job) /\ TagOk(N, F, c.fse_from, c.fse) /\ c.job \in JobSet
      /\ Len(c.seqs) = 2 /\ RunsOk(F, c)
  BY DEF CellOk, CellSet
<1>2. HasSeqs(c.job.blk) /\ c.seqs[1] = SeqsOf(F, c.job, 1)
  BY <1>1 DEF RunsOk
<1>3. c.job.blk \in BlockSet /\ c.job.fse_def # NoId
  BY <1>1, <1>2 DEF JobOk, HasSeqs
<1>4. UsedFse(c, c.job) = F[c.job.fse_def]
  BY <1>1, <1>3, FseIsNamed
<1>5. /\ n \in CellSet /\ n.claim = c.claim /\ n.done = c.done
      /\ SameJob(c, n) /\ SameLits(c, n)
      /\ n.ok <=> c.job.blk.fault # "seq"
      /\ Len(n.seqs) = 2 /\ n.seqs[1] = c.seqs[1]
      /\ n.seqs[2] = RelSeq(c.job.blk, 2, UsedFse(c, c.job))
      /\ n.fse = c.fse /\ n.fse_from = c.fse_from
      /\ c.job.blk.fault # "seq" => n.progress = 2 /\ n.end = Tok(c.job.blk)
      /\ c.job.blk.fault = "seq" => n.progress = c.progress /\ n.end = c.end
  BY <1>1, <1>3, LastCell
<1> HIDE DEF n
<1>6. n.job = c.job
  BY <1>5 DEF SameJob
<1>7. n.seqs[1] = SeqsOf(F, n.job, 1) /\ n.seqs[2] = SeqsOf(F, n.job, 2) /\ HasSeqs(n.job.blk)
  BY <1>2, <1>4, <1>5, <1>6 DEF SeqsOf
<1>8. n.progress = 2 => n.end = Tok(n.job.blk) /\ n.job.blk.fault # "seq"
  BY <1>5, <1>6
<1>9. RunsOk(F, n)
  BY <1>7, <1>8 DEF RunsOk
<1>10. SeqsDone(n)
  BY <1>5, <1>6 DEF SeqsDone
<1>11. JobOk(N, H, F, n.job) /\ LitsOk(H, n)
  BY <1>1, <1>5, <1>6 DEF CellOk, LitsOk, SameLits
<1>12. TagOk(N, H, n.huf_from, n.huf) /\ TagOk(N, F, n.fse_from, n.fse)
  BY <1>5 DEF CellOk, SameLits
<1>13. CellOk(N, H, F, n)
  BY <1>5, <1>9, <1>10, <1>11, <1>12 DEF CellOk
<1> QED BY <1>5, <1>10, <1>13 DEF n

-----------------------------------------------------------------------------
(* The steps of a decode.                                                  *)

(* A decode's place moves on.                                              *)
LEMMA DecMoves ==
  ASSUME NEW d \in DecSet, NEW p \in {"lits", "litting", "seqs", "seqs2", "mark"}
  PROVE  LET e == [d EXCEPT !.pc = p]
         IN e \in DecSet /\ e.pc = p /\ e.pc # "idle" /\ e.cell = d.cell /\ e.ticket = d.ticket
BY DEF DecSet

(* What holds of the cell a thread decodes into.                           *)
LEMMA DecodeTables ==
  ASSUME IInv, NEW th \in Threads, dec[th] # NoDecode,
         NEW H \in [Nat -> Nat], NEW F \in [Nat -> Nat], TableInv(H, F)
  PROVE  /\ next_id \in Nat /\ CellOk(next_id, H, F, cell[dec[th].cell])
         /\ DecOk(dec[th], cell[dec[th].cell])
         /\ cell[dec[th].cell].done # cell[dec[th].cell].job.id
<1>1. next_id \in Nat /\ dec[th].cell \in Cells /\ dec[th].ticket = cell[dec[th].cell].job.id
  BY InvParts, DecodeCell DEF TypeInv
<1>2. cell[dec[th].cell].done # dec[th].ticket
  BY InvParts DEF DecInv
<1> QED BY <1>1, <1>2 DEF TableInv

(* Claiming the literals.                                                  *)
LEMMA ClaimLiteralsStep ==
  ASSUME IInv, NEW th \in Threads, ClaimLiterals(th)
  PROVE  IInv'
<1> DEFINE d == dec[th]
           c == dec[th].cell
           a == AfterLiterals(th)
<1>1. d.pc = "lits" /\ d # NoDecode
  <2>1. d.pc = "lits"
    BY Zenon DEF ClaimLiterals
  <2> QED BY <2>1 DEF NoDecode
<1>2. /\ c \in Cells /\ cell[c] \in CellSet /\ d.ticket \in Nat /\ d \in DecSet
      /\ cell[c].job # NoJob
  BY <1>1, DecodeCell
<1>3. Kept /\ tasks' = tasks /\ worker' = worker /\ main' = main
  BY Zenon DEF ClaimLiterals, Kept
<1>4. cell \in [Cells -> CellSet] /\ dec \in [Threads -> DecSet]
  BY InvParts DEF TypeInv
<1>5. CASE cell[c].lit_claim = Planned(d.ticket)
  <2> DEFINE k == Taken(d.ticket)
             n == [cell[c] EXCEPT !.lit_claim = k]
             e == [d EXCEPT !.pc = "litting"]
  <2>1. k \in Nat
    BY <1>2, ClaimsApart
  <2>2. cell' = [cell EXCEPT ![c].lit_claim = k] /\ dec' = [dec EXCEPT ![th].pc = "litting"]
    BY <1>5, Zenon DEF ClaimLiterals, Goto
  <2> HIDE DEF k
  <2>3. cell' = [cell EXCEPT ![c] = n] /\ dec' = [dec EXCEPT ![th] = e]
    BY <2>2, <1>4
  <2>4. /\ n \in CellSet /\ n.claim = cell[c].claim /\ n.done = cell[c].done
        /\ SameJob(cell[c], n) /\ SameSeqs(cell[c], n) /\ SameLits(cell[c], n)
    BY <1>2, <2>1, ClaimLits
  <2>5. e \in DecSet /\ e.pc = "litting" /\ e.cell = c /\ e.ticket = d.ticket
    BY <1>2, DecMoves
  <2> HIDE DEF n, e
  <2>6. ASSUME NEW H \in [Nat -> Nat], NEW F \in [Nat -> Nat], TableInv(H, F)
        PROVE  CellOk(next_id, H, F, n) /\ DecOk(e, n)
    <3>1. CellOk(next_id, H, F, cell[c]) /\ DecOk(d, cell[c]) /\ cell[c].done # cell[c].job.id
      BY <1>1, <2>6, DecodeTables
    <3>2. CellOk(next_id, H, F, n)
      BY <2>4, <3>1, CellSame
    <3>3. n.sequences_first => SeqsDone(n)
      BY <1>1, <2>4, <3>1, SeqsDoneSame DEF DecOk, SameJob, SameSeqs
    <3> QED BY <2>5, <3>2, <3>3 DEF DecOk
  <2> QED BY <1>1, <1>3, <2>3, <2>4, <2>5, <2>6, DecodesInto DEF SameJob, SameLits
<1>6. CASE cell[c].lit_claim # Planned(d.ticket)
  <2> DEFINE n == cell[c]
             e == [d EXCEPT !.pc = a]
  <2>1. cell' = cell /\ dec' = [dec EXCEPT ![th].pc = a]
    BY <1>6, Zenon DEF ClaimLiterals, Goto
  <2>2. a \in {"mark", "seqs"} /\ (a = "mark" => cell[c].sequences_first)
    BY DEF AfterLiterals
  <2> HIDE DEF a
  <2>3. cell' = [cell EXCEPT ![c] = n] /\ dec' = [dec EXCEPT ![th] = e]
    BY <2>1, <1>4
  <2>4. e \in DecSet /\ e.pc = a /\ e.pc # "idle" /\ e.cell = c /\ e.ticket = d.ticket
    <3>1. a \in {"lits", "litting", "seqs", "seqs2", "mark"}
      BY <2>2
    <3> QED BY <1>2, <3>1, DecMoves
  <2> HIDE DEF e
  <2>5. ASSUME NEW H \in [Nat -> Nat], NEW F \in [Nat -> Nat], TableInv(H, F)
        PROVE  CellOk(next_id, H, F, n) /\ DecOk(e, n)
    <3>1. CellOk(next_id, H, F, cell[c]) /\ DecOk(d, cell[c])
      BY <1>1, <2>5, DecodeTables
    <3> QED BY <1>1, <2>2, <2>4, <3>1 DEF DecOk
  <2> QED BY <1>1, <1>2, <1>3, <2>3, <2>4, <2>5, DecodesInto
<1> QED BY <1>5, <1>6

(* The literals decoded.                                                   *)
LEMMA EndLiteralsStep ==
  ASSUME IInv, NEW th \in Threads, EndLiterals(th)
  PROVE  IInv'
<1> DEFINE d == dec[th]
           c == dec[th].cell
           a == AfterLiterals(th)
           n == DecodeLiterals(cell[c], cell[c].job, d.ticket)
           e == [d EXCEPT !.pc = a]
<1>1. d.pc = "litting" /\ d # NoDecode
  <2>1. d.pc = "litting"
    BY Zenon DEF EndLiterals
  <2> QED BY <2>1 DEF NoDecode
<1>2. /\ c \in Cells /\ cell[c] \in CellSet /\ d.ticket \in Nat /\ d \in DecSet
      /\ cell[c].job # NoJob /\ d.ticket = cell[c].job.id
  BY <1>1, DecodeCell
<1>3. Kept /\ tasks' = tasks /\ worker' = worker /\ main' = main
  BY Zenon DEF EndLiterals, Kept
<1>4. cell \in [Cells -> CellSet] /\ dec \in [Threads -> DecSet]
  BY InvParts DEF TypeInv
<1>5. cell' = [cell EXCEPT ![c] = n] /\ dec' = [dec EXCEPT ![th].pc = a]
  BY Zenon DEF EndLiterals, Goto
<1>6. a \in {"mark", "seqs"} /\ (a = "mark" => cell[c].sequences_first)
  BY DEF AfterLiterals
<1> HIDE DEF a
<1>7. dec' = [dec EXCEPT ![th] = e]
  BY <1>4, <1>5
<1>8. e \in DecSet /\ e.pc = a /\ e.pc # "idle" /\ e.cell = c /\ e.ticket = d.ticket
  <2>1. a \in {"lits", "litting", "seqs", "seqs2", "mark"}
    BY <1>6
  <2> QED BY <1>2, <2>1, DecMoves
<1>9. n = DecodeLiterals(cell[c], cell[c].job, cell[c].job.id)
  BY <1>2
<1> HIDE DEF e, n
<1>10. ASSUME NEW H \in [Nat -> Nat], NEW F \in [Nat -> Nat], TableInv(H, F)
       PROVE  /\ CellOk(next_id, H, F, n) /\ DecOk(e, n)
              /\ n \in CellSet /\ n.claim = cell[c].claim /\ n.done = cell[c].done
              /\ SameJob(cell[c], n) /\ n.lit_done = cell[c].job.id
              /\ cell[c].lit_done = cell[c].job.id => n.lits_ok = cell[c].lits_ok
  <2>1. CellOk(next_id, H, F, cell[c]) /\ DecOk(d, cell[c]) /\ next_id \in Nat
    BY <1>1, <1>10, DecodeTables
  <2>2. /\ CellOk(next_id, H, F, n) /\ n \in CellSet /\ n.claim = cell[c].claim
        /\ n.done = cell[c].done /\ SameJob(cell[c], n) /\ n.lit_done = cell[c].job.id
        /\ SameSeqs(cell[c], n)
        /\ cell[c].lit_done = cell[c].job.id => n.lits_ok = cell[c].lits_ok
    BY <1>2, <1>9, <1>10, <2>1, LitsDecoded
  <2>3. a = "mark" => SeqsDone(cell[c])
    BY <1>1, <1>6, <2>1 DEF DecOk
  <2>4. a = "mark" => SeqsDone(n)
    BY <2>2, <2>3, SeqsDoneSame DEF SameSeqs
  <2>5. DecOk(e, n)
    BY <1>6, <1>8, <2>4 DEF DecOk
  <2> QED BY <2>2, <2>5
<1>11. /\ n \in CellSet /\ n.claim = cell[c].claim /\ n.done = cell[c].done
       /\ SameJob(cell[c], n) /\ n.lit_done = cell[c].job.id
       /\ cell[c].lit_done = cell[c].job.id => n.lits_ok = cell[c].lits_ok
  <2>1. PICK H, F \in [Nat -> Nat] : TableInv(H, F)
    BY InvParts DEF GhostInv
  <2> QED BY <2>1, <1>10
<1> QED BY <1>1, <1>3, <1>5, <1>7, <1>8, <1>10, <1>11, DecodesInto DEF SameJob

(* The sequences, up to the first.                                         *)
LEMMA FirstSequencesStep ==
  ASSUME IInv, NEW th \in Threads, FirstSequences(th)
  PROVE  IInv'
<1> DEFINE d == dec[th]
           c == dec[th].cell
<1>1. d.pc = "seqs" /\ d # NoDecode
  <2>1. d.pc = "seqs"
    BY Zenon DEF FirstSequences
  <2> QED BY <2>1 DEF NoDecode
<1>2. /\ c \in Cells /\ cell[c] \in CellSet /\ d.ticket \in Nat /\ d \in DecSet
      /\ cell[c].job # NoJob
  BY <1>1, DecodeCell
<1>3. Kept /\ tasks' = tasks /\ worker' = worker /\ main' = main
  BY Zenon DEF FirstSequences, Kept
<1>4. cell \in [Cells -> CellSet] /\ dec \in [Threads -> DecSet]
  BY InvParts DEF TypeInv
<1>5. PICK G, K \in [Nat -> Nat] : TableInv(G, K)
  BY InvParts DEF GhostInv
<1>6. ASSUME NEW H \in [Nat -> Nat], NEW F \in [Nat -> Nat], TableInv(H, F)
      PROVE  /\ next_id \in Nat /\ CellOk(next_id, H, F, cell[c]) /\ DecOk(d, cell[c])
             /\ cell[c].done # cell[c].job.id
  BY <1>1, <1>6, DecodeTables
<1>7. CASE HasSeqs(cell[c].job.blk)
  <2> DEFINE n == PublishFirst(cell[c])
             e == [d EXCEPT !.pc = "seqs2"]
  <2>1. cell' = [cell EXCEPT ![c] = n] /\ dec' = [dec EXCEPT ![th].pc = "seqs2"]
    BY <1>7, Zenon DEF FirstSequences, Goto
  <2>2. dec' = [dec EXCEPT ![th] = e]
    BY <2>1, <1>4
  <2>3. e \in DecSet /\ e.pc = "seqs2" /\ e.pc # "idle" /\ e.cell = c /\ e.ticket = d.ticket
    BY <1>2, DecMoves
  <2> HIDE DEF e
  <2>4. ASSUME NEW H \in [Nat -> Nat], NEW F \in [Nat -> Nat], TableInv(H, F)
        PROVE  /\ CellOk(next_id, H, F, n) /\ n \in CellSet /\ n.claim = cell[c].claim
               /\ n.done = cell[c].done
               /\ SameJob(cell[c], n) /\ SameLits(cell[c], n) /\ n.progress = 1
    <3>1. /\ next_id \in Nat /\ CellOk(next_id, H, F, cell[c])
          /\ cell[c].done # cell[c].job.id
      BY <1>6, <2>4
    <3> QED BY <1>2, <1>7, <3>1, FirstDecoded
  <2> HIDE DEF n
  <2>5. \A H, F \in [Nat -> Nat] : TableInv(H, F) => CellOk(next_id, H, F, n) /\ DecOk(e, n)
    BY <2>3, <2>4 DEF DecOk
  <2>6. /\ n \in CellSet /\ n.claim = cell[c].claim /\ n.done = cell[c].done
        /\ SameJob(cell[c], n) /\ SameLits(cell[c], n)
    BY <1>5, <2>4
  <2> QED BY <1>1, <1>3, <2>1, <2>2, <2>3, <2>5, <2>6, DecodesInto DEF SameJob, SameLits
<1>8. CASE ~HasSeqs(cell[c].job.blk)
  <2> DEFINE n == NoSequences(cell[c])
             a == IF cell[c].sequences_first /\ cell[c].job.blk.fault # "seq" THEN "lits" ELSE "mark"
             e == [d EXCEPT !.pc = a]
  <2>1. cell' = [cell EXCEPT ![c] = n] /\ dec' = [dec EXCEPT ![th].pc = a]
    BY <1>8, Zenon DEF FirstSequences, Goto
  <2>2. a \in {"lits", "litting", "seqs", "seqs2", "mark"} /\ a \in {"lits", "mark"}
    OBVIOUS
  <2> HIDE DEF a
  <2>3. dec' = [dec EXCEPT ![th] = e]
    BY <2>1, <1>4
  <2>4. e \in DecSet /\ e.pc = a /\ e.pc # "idle" /\ e.cell = c /\ e.ticket = d.ticket
    BY <1>2, <2>2, DecMoves
  <2> HIDE DEF e
  <2>5. ASSUME NEW H \in [Nat -> Nat], NEW F \in [Nat -> Nat], TableInv(H, F)
        PROVE  /\ CellOk(next_id, H, F, n) /\ n \in CellSet /\ n.claim = cell[c].claim
               /\ n.done = cell[c].done
               /\ SameJob(cell[c], n) /\ SameLits(cell[c], n) /\ SeqsDone(n)
    <3>1. /\ next_id \in Nat /\ CellOk(next_id, H, F, cell[c])
          /\ cell[c].done # cell[c].job.id
      BY <1>6, <2>5
    <3> QED BY <1>2, <1>8, <3>1, NoSeqsDecoded
  <2> HIDE DEF n
  <2>6. \A H, F \in [Nat -> Nat] : TableInv(H, F) => CellOk(next_id, H, F, n) /\ DecOk(e, n)
    BY <2>2, <2>4, <2>5 DEF DecOk
  <2>7. /\ n \in CellSet /\ n.claim = cell[c].claim /\ n.done = cell[c].done
        /\ SameJob(cell[c], n) /\ SameLits(cell[c], n)
    BY <1>5, <2>5
  <2> QED BY <1>1, <1>3, <2>1, <2>3, <2>4, <2>6, <2>7, DecodesInto DEF SameJob, SameLits
<1> QED BY <1>7, <1>8

(* The last of them.                                                       *)
LEMMA LastSequencesStep ==
  ASSUME IInv, NEW th \in Threads, LastSequences(th)
  PROVE  IInv'
<1> DEFINE d == dec[th]
           c == dec[th].cell
           n == PublishLast(cell[c])
           a == IF cell[c].sequences_first /\ cell[c].job.blk.fault # "seq" THEN "lits" ELSE "mark"
           e == [d EXCEPT !.pc = a]
<1>1. d.pc = "seqs2" /\ d # NoDecode
  <2>1. d.pc = "seqs2"
    BY Zenon DEF LastSequences
  <2> QED BY <2>1 DEF NoDecode
<1>2. /\ c \in Cells /\ cell[c] \in CellSet /\ d.ticket \in Nat /\ d \in DecSet
      /\ cell[c].job # NoJob
  BY <1>1, DecodeCell
<1>3. Kept /\ tasks' = tasks /\ worker' = worker /\ main' = main
  BY Zenon DEF LastSequences, Kept
<1>4. cell \in [Cells -> CellSet] /\ dec \in [Threads -> DecSet]
  BY InvParts DEF TypeInv
<1>5. cell' = [cell EXCEPT ![c] = n] /\ dec' = [dec EXCEPT ![th].pc = a]
  BY Zenon DEF LastSequences, Goto
<1>6. a \in {"lits", "litting", "seqs", "seqs2", "mark"} /\ a \in {"lits", "mark"}
  OBVIOUS
<1> HIDE DEF a
<1>7. dec' = [dec EXCEPT ![th] = e]
  BY <1>4, <1>5
<1>8. e \in DecSet /\ e.pc = a /\ e.pc # "idle" /\ e.cell = c /\ e.ticket = d.ticket
  BY <1>2, <1>6, DecMoves
<1> HIDE DEF e
<1>9. ASSUME NEW H \in [Nat -> Nat], NEW F \in [Nat -> Nat], TableInv(H, F)
      PROVE  /\ CellOk(next_id, H, F, n) /\ n \in CellSet /\ n.claim = cell[c].claim
             /\ n.done = cell[c].done
             /\ SameJob(cell[c], n) /\ SameLits(cell[c], n) /\ SeqsDone(n)
  <2>1. /\ next_id \in Nat /\ CellOk(next_id, H, F, cell[c]) /\ DecOk(d, cell[c])
        /\ cell[c].done # cell[c].job.id
    BY <1>1, <1>9, DecodeTables
  <2>2. cell[c].progress = 1
    BY <1>1, <2>1 DEF DecOk
  <2> QED BY <1>2, <1>9, <2>1, <2>2, LastDecoded
<1> HIDE DEF n
<1>10. \A H, F \in [Nat -> Nat] : TableInv(H, F) => CellOk(next_id, H, F, n) /\ DecOk(e, n)
  BY <1>6, <1>8, <1>9 DEF DecOk
<1>11. /\ n \in CellSet /\ n.claim = cell[c].claim /\ n.done = cell[c].done
       /\ SameJob(cell[c], n) /\ SameLits(cell[c], n)
  <2>1. PICK H, F \in [Nat -> Nat] : TableInv(H, F)
    BY InvParts DEF GhostInv
  <2> QED BY <2>1, <1>9
<1> QED BY <1>1, <1>3, <1>5, <1>7, <1>8, <1>10, <1>11, DecodesInto DEF SameJob, SameLits

(* The decode marked done.                                                 *)
LEMMA MarkDoneStep ==
  ASSUME IInv, NEW th \in Threads, MarkDone(th)
  PROVE  IInv'
<1> DEFINE d == dec[th]
           c == dec[th].cell
           t == d.ticket
           n == [cell[c] EXCEPT !.done = t]
<1>1. d.pc = "mark" /\ d # NoDecode
  <2>1. d.pc = "mark"
    BY Zenon DEF MarkDone
  <2> QED BY <2>1 DEF NoDecode
<1>2. /\ c \in Cells /\ cell[c] \in CellSet /\ t \in Nat /\ t = cell[c].job.id
  BY <1>1, DecodeCell
<1>3. Kept /\ tasks' = tasks /\ worker' = worker /\ main' = main
  BY Zenon DEF MarkDone, Kept
<1>4. cell \in [Cells -> CellSet] /\ NoDecode \in DecSet
  BY InvParts, EmptyTypes DEF TypeInv
<1>5. cell' = [cell EXCEPT ![c].done = t] /\ dec' = [dec EXCEPT ![th] = NoDecode]
  BY Zenon DEF MarkDone
<1> HIDE DEF t
<1>6. cell' = [cell EXCEPT ![c] = n]
  BY <1>4, <1>5
<1>7. /\ n \in CellSet /\ n.claim = cell[c].claim /\ n.done = t
      /\ SameJob(cell[c], n) /\ SameSeqs(cell[c], n) /\ SameLits(cell[c], n)
  BY <1>2, DoneCell
<1> HIDE DEF n
<1>8. ASSUME NEW H \in [Nat -> Nat], NEW F \in [Nat -> Nat], TableInv(H, F)
      PROVE  CellOk(next_id, H, F, n)
  <2>1. CellOk(next_id, H, F, cell[c]) /\ DecOk(d, cell[c])
    BY <1>1, <1>8, DecodeTables
  <2>2. SeqsDone(cell[c])
    BY <1>1, <2>1 DEF DecOk
  <2> QED BY <1>7, <2>1, <2>2, CellSame
<1>9. n.job = cell[c].job /\ n.sequences_first = cell[c].sequences_first
      /\ n.lit_done = cell[c].lit_done /\ n.lits_ok = cell[c].lits_ok /\ n.done = cell[c].job.id
  BY <1>2, <1>7 DEF SameJob, SameLits
<1>10. \A H, F \in [Nat -> Nat] : TableInv(H, F) =>
         CellOk(next_id, H, F, n) /\ (NoDecode # NoDecode => DecOk(NoDecode, n))
  BY <1>8
<1> QED BY <1>1, <1>3, <1>4, <1>5, <1>6, <1>7, <1>9, <1>10, DecodesInto

(* A step of a decode.                                                     *)
LEMMA DecodeStepStep ==
  ASSUME IInv, NEW th \in Threads, DecodeStep(th)
  PROVE  IInv'
BY ClaimLiteralsStep, EndLiteralsStep, FirstSequencesStep, LastSequencesStep, MarkDoneStep
   DEF DecodeStep

-----------------------------------------------------------------------------
(* The steps of the third stage that decode.                               *)

(* A planned block has its task still.                                     *)
LEMMA TasksKept ==
  ASSUME IInv, Kept, \A c \in Cells : GoesOn(cell[c], cell'[c]),
         \A w \in Workers : worker'[w].cell <= ncells,
         \A k \in DOMAIN tasks' : \E i \in DOMAIN tasks : tasks'[k] = tasks[i],
         \A i \in DOMAIN tasks : \/ cell'[tasks[i].cell].claim # Planned(tasks[i].ticket)
                                 \/ \E k \in DOMAIN tasks' : tasks'[k] = tasks[i]
  PROVE  TaskInv'
<1> USE InvParts
<1>1. ncells' = ncells
  BY DEF Kept
<1>2. ASSUME NEW c \in Cells, NEW t \in Nat, cell'[c].claim = Planned(t)
      PROVE  /\ cell'[c].done # t
             /\ cell'[c].job.id = t
             /\ \E k \in DOMAIN tasks' : tasks'[k].cell = c /\ tasks'[k].ticket = t
  <2>1. GoesOn(cell[c], cell'[c])
    OBVIOUS
  <2>2. ~\E u \in Nat : cell[c].claim = Planned(u) /\ cell'[c].claim = Taken(u)
    BY <1>2, ClaimsApart
  <2>3. cell[c].claim = Planned(t)
    BY <1>2, <2>1, <2>2 DEF GoesOn
  <2>4. /\ cell[c].done # t /\ cell[c].job.id = t
        /\ \E i \in DOMAIN tasks : tasks[i].cell = c /\ tasks[i].ticket = t
    BY <2>3 DEF TaskInv
  <2>5. cell'[c].job.id = t /\ cell[c].claim # Taken(cell[c].job.id)
    BY <2>1, <2>3, <2>4, ClaimsApart DEF GoesOn
  <2>6. cell'[c].done # t
    BY <2>1, <2>4, <2>5 DEF GoesOn
  <2>7. PICK i \in DOMAIN tasks : tasks[i].cell = c /\ tasks[i].ticket = t
    BY <2>4
  <2>8. PICK k \in DOMAIN tasks' : tasks'[k] = tasks[i]
    BY <1>2, <2>7
  <2> QED BY <2>5, <2>6, <2>7, <2>8
<1>3. \A k \in DOMAIN tasks' : tasks'[k].cell \in 1 .. ncells /\ tasks'[k].ticket \in Nat
  BY DEF TaskInv
<1>4. ncells <= MaxCells
  BY DEF TaskInv
<1> QED BY <1>1, <1>2, <1>3, <1>4 DEF TaskInv

(* The executing thread moves on, and may decode its block's literals.     *)
LEMMA MainTouches ==
  ASSUME IInv, Kept, tasks' = tasks, worker' = worker, dec' = dec,
         main.pc \in Stage3Places, main'.pc \in Stage3Places, main' \in MainSet,
         Control(main, main'), NEW n \in CellSet, cell' = [cell EXCEPT ![CurCell] = n],
         n.claim = cell[CurCell].claim, n.done = cell[CurCell].done,
         SameJob(cell[CurCell], n), SameSeqs(cell[CurCell], n),
         n.lit_done \in {cell[CurCell].lit_done, cell[CurCell].job.id},
         dec[Main] # NoDecode => main'.pc \in {"lits", "wait"},
         main'.pc # "take" => n.claim = Taken(CurJob.id),
         \A H, F \in [Nat -> Nat] : TableInv(H, F) =>
            /\ CellOk(next_id, H, F, n)
            /\ main'.pc \in {"runs", "runs_wait", "finish"} => ReadOk(F, main', n, CurJob)
  PROVE  IInv'
<1> USE InvParts
<1> DEFINE c == CurCell
<1>1. c \in Cells
  BY CurBlock
<1>2. cell \in [Cells -> CellSet] /\ cell[c] \in CellSet
  BY <1>1 DEF TypeInv
<1>3. cell'[c] = n /\ \A e \in Cells : e # c => cell'[e] = cell[e]
  BY <1>1, <1>2
<1>4. TypeInv'
  <2>1. cell' \in [Cells -> CellSet]
    BY <1>2
  <2> QED BY <2>1, Zenon DEF TypeInv, Kept
<1>5. \A e \in Cells : GoesOn(cell[e], cell'[e])
  <2> SUFFICES ASSUME NEW e \in Cells PROVE GoesOn(cell[e], cell'[e])
    OBVIOUS
  <2>1. CASE e = c
    BY <2>1, <1>3 DEF GoesOn, SameJob
  <2>2. CASE e # c
    BY <2>2, <1>3, GoesOnSame
  <2> QED BY <2>1, <2>2
<1>6. Decodes
  BY <1>5 DEF Decodes
<1>7. IdInv' /\ FreshInv' /\ QueueInv' /\ BatchInv' /\ ApartInv' /\ ModeInv' /\ SerialInv'
      /\ CurCell' = CurCell /\ CurJob' = CurJob /\ CurEntry' = CurEntry
  BY <1>6, DecodesIds, DecodesQueue, DecodesBatch, DecodesRest
<1>8. \A e \in Cells : /\ cell'[e].claim = cell[e].claim /\ cell'[e].done = cell[e].done
                       /\ cell'[e].job = cell[e].job
                       /\ cell'[e].sequences_first = cell[e].sequences_first
                       /\ cell'[e].progress = cell[e].progress /\ cell'[e].ok = cell[e].ok
  BY <1>3 DEF SameJob, SameSeqs
<1>9. DecInv'
  <2>1. ncells' = ncells
    BY DEF Kept
  <2>2. \A th \in Threads : dec[th] # NoDecode => dec[th].cell \in Cells
    BY DecodeCell
  <2>3. \A th \in Threads : dec[th] # NoDecode =>
          /\ cell'[dec[th].cell].claim = Taken(dec[th].ticket)
          /\ cell'[dec[th].cell].done # dec[th].ticket
          /\ cell'[dec[th].cell].job.id = dec[th].ticket
    BY <1>8, <2>2 DEF DecInv
  <2> QED BY <2>1, <2>3 DEF DecInv
<1>10. TaskInv'
  <2>1. \A w \in Workers : worker'[w].cell <= ncells
    BY DEF TaskInv
  <2> QED BY <1>5, <2>1, TasksKept
<1>11. StageInv'
  <2>1. main'.pc # "raw" /\ main.pc # "raw"
    BY StagePlaces
  <2>2. chain' = chain /\ calls' = calls /\ consumed' = consumed /\ input' = input
        /\ main'.mode = main.mode
    BY DEF Kept, Control
  <2>3. main'.pc # "take" => cell'[CurCell].claim = Taken(CurJob.id)
    BY <1>3
  <2>4. CurEntry.job # NoJob
    BY CurBlock
  <2>5. /\ main.mode = "chain" => chain.queue # <<>> /\ chain.queue[1].seen = calls
        /\ Len(consumed) < Len(input)
    BY DEF StageInv
  <2> QED BY <1>7, <2>1, <2>2, <2>3, <2>4, <2>5 DEF StageInv
<1>12. GhostInv'
  <2>1. PICK H, F \in [Nat -> Nat] :
          \E S : TableInv(H, F) /\ QueueLine(H, F, S) /\ BatchLine(H, F, S)
    BY DEF GhostInv
  <2>2. PICK S : TableInv(H, F) /\ QueueLine(H, F, S) /\ BatchLine(H, F, S)
    BY <2>1
  <2>3. QueueLine(H, F, S)' /\ BatchLine(H, F, S)'
    BY <1>6, <2>2, DecodesLines
  <2>4. TableInv(H, F)'
    <3>1. next_id' = next_id
      BY DEF Kept
    <3>2. \A e \in Cells : CellOk(next_id, H, F, cell'[e])
      BY <2>2, <1>3 DEF TableInv
    <3>3. ASSUME NEW u \in Threads, dec[u] # NoDecode
          PROVE  DecOk(dec[u], cell'[dec[u].cell])
      <4>1. DecOk(dec[u], cell[dec[u].cell]) /\ dec[u].cell \in Cells
        BY <2>2, <3>3, DecodeCell DEF TableInv
      <4> QED BY <4>1, <1>8 DEF DecOk, SeqsDone
    <3>4. main'.pc \in {"runs", "runs_wait", "finish"} => ReadOk(F, main', cell'[CurCell], CurJob)
      BY <2>2, <1>3
    <3> QED BY <1>7, <3>1, <3>2, <3>3, <3>4 DEF TableInv
  <2> QED BY <2>3, <2>4 DEF GhostInv
<1> QED BY <1>4, <1>7, <1>9, <1>10, <1>11, <1>12, Zenon DEF IInv, CellsInv

(* The block being executed, once it is taken.                             *)
LEMMA CurTaken ==
  ASSUME IInv, main.pc \in Stage3Places
  PROVE  /\ CurCell \in Cells /\ cell[CurCell] \in CellSet /\ cell[CurCell].job = CurJob
         /\ CurJob # NoJob /\ CurJob.id \in Nat
         /\ main.pc # "take" => cell[CurCell].claim = Taken(CurJob.id)
         /\ cell \in [Cells -> CellSet] /\ main \in MainSet /\ next_id \in Nat
         /\ \A H, F \in [Nat -> Nat] : TableInv(H, F) => CellOk(next_id, H, F, cell[CurCell])
<1> USE InvParts
<1>1. CurCell \in Cells /\ CurJob # NoJob /\ CurJob.id \in Nat /\ cell[CurCell].job = CurJob
  BY CurBlock DEF Live
<1>2. cell \in [Cells -> CellSet] /\ main \in MainSet /\ next_id \in Nat
  BY DEF TypeInv
<1>3. cell[CurCell] \in CellSet
  BY <1>1, <1>2
<1>4. main.pc # "raw"
  BY StagePlaces
<1>5. main.pc # "take" => cell[CurCell].claim = Taken(CurJob.id)
  BY <1>4 DEF StageInv
<1>6. \A H, F \in [Nat -> Nat] : TableInv(H, F) => CellOk(next_id, H, F, cell[CurCell])
  BY <1>1 DEF TableInv
<1> QED BY <1>1, <1>2, <1>3, <1>5, <1>6

(* Claiming the block's literals.                                          *)
LEMMA MainClaimsLiteralsStep ==
  ASSUME IInv, MainClaimsLiterals
  PROVE  IInv'
<1> DEFINE c == CurCell
           k == Taken(CurJob.id)
<1>1. main.pc = "lits" /\ dec[Main] = NoDecode
  BY Zenon DEF MainClaimsLiterals
<1>2. main.pc \in Stage3Places /\ main.pc # "take"
  BY <1>1 DEF Stage3Places
<1>3. /\ c \in Cells /\ cell[c] \in CellSet /\ cell[c].job = CurJob /\ CurJob.id \in Nat
      /\ cell[c].claim = k /\ cell \in [Cells -> CellSet] /\ main \in MainSet
  BY <1>2, CurTaken
<1>4. k \in Nat
  BY <1>3, ClaimsApart
<1>5. Kept /\ tasks' = tasks /\ worker' = worker /\ dec' = dec
  BY Zenon DEF MainClaimsLiterals, UnchangedByStage3, Kept
<1>6. CASE cell[c].lit_claim = Planned(CurJob.id)
  <2> DEFINE n == [cell[c] EXCEPT !.lit_claim = k]
  <2>1. cell' = [cell EXCEPT ![c].lit_claim = k] /\ main' = [main EXCEPT !.pc = "litting"]
    BY <1>6, Zenon DEF MainClaimsLiterals
  <2> HIDE DEF k
  <2>2. cell' = [cell EXCEPT ![c] = n]
    BY <2>1, <1>3
  <2>3. /\ n \in CellSet /\ n.claim = cell[c].claim /\ n.done = cell[c].done
        /\ SameJob(cell[c], n) /\ SameSeqs(cell[c], n) /\ SameLits(cell[c], n)
    BY <1>3, <1>4, ClaimLits
  <2>4. "litting" \in Places /\ "litting" \in Stage3Places
    BY DEF Places, Stage3Places
  <2>5. main' \in MainSet /\ main'.pc = "litting" /\ Control(main, main')
    BY <1>3, <2>1, <2>4, MovesOn
  <2> HIDE DEF n
  <2>6. \A H, F \in [Nat -> Nat] : TableInv(H, F) => CellOk(next_id, H, F, n)
    <3> SUFFICES ASSUME NEW H \in [Nat -> Nat], NEW F \in [Nat -> Nat], TableInv(H, F)
                 PROVE  CellOk(next_id, H, F, n)
      OBVIOUS
    <3>1. CellOk(next_id, H, F, cell[c])
      BY <1>2, CurTaken
    <3>2. n.done = cell[c].job.id => SeqsDone(cell[c])
      BY <1>2, <2>3, <3>1, CurTaken DEF CellOk
    <3> QED BY <2>3, <3>1, <3>2, CellSame
  <2> QED BY <1>1, <1>2, <1>3, <1>5, <2>2, <2>3, <2>4, <2>5, <2>6, MainTouches DEF SameLits, k
<1>7. CASE cell[c].lit_claim # Planned(CurJob.id)
  <2> DEFINE n == cell[c]
  <2>1. cell' = cell /\ main' = [main EXCEPT !.pc = "wait"]
    BY <1>7, Zenon DEF MainClaimsLiterals
  <2>2. cell' = [cell EXCEPT ![c] = n]
    BY <2>1, <1>3
  <2>3. "wait" \in Places /\ "wait" \in Stage3Places
    BY DEF Places, Stage3Places
  <2>4. main' \in MainSet /\ main'.pc = "wait" /\ Control(main, main')
    BY <1>3, <2>1, <2>3, MovesOn
  <2>5. \A H, F \in [Nat -> Nat] : TableInv(H, F) => CellOk(next_id, H, F, n)
    BY <1>2, CurTaken
  <2>6. SameJob(cell[c], n) /\ SameSeqs(cell[c], n)
    BY DEF SameJob, SameSeqs
  <2> QED BY <1>2, <1>3, <1>5, <2>2, <2>3, <2>4, <2>5, <2>6, MainTouches
<1> QED BY <1>6, <1>7

(* Decoding them.                                                          *)
LEMMA MainDecodesLiteralsStep ==
  ASSUME IInv, MainDecodesLiterals
  PROVE  IInv'
<1> DEFINE c == CurCell
           n == DecodeLiterals(cell[c], CurJob, CurJob.id)
<1>1. main.pc = "litting"
  BY Zenon DEF MainDecodesLiterals
<1>2. main.pc \in Stage3Places /\ main.pc # "take"
  BY <1>1 DEF Stage3Places
<1>3. /\ c \in Cells /\ cell[c] \in CellSet /\ cell[c].job = CurJob /\ CurJob.id \in Nat
      /\ cell[c].claim = Taken(CurJob.id) /\ cell \in [Cells -> CellSet] /\ main \in MainSet
      /\ CurJob # NoJob /\ next_id \in Nat
  BY <1>2, CurTaken
<1>4. Kept /\ tasks' = tasks /\ worker' = worker /\ dec' = dec
  BY Zenon DEF MainDecodesLiterals, UnchangedByStage3, Kept
<1>5. cell' = [cell EXCEPT ![c] = n] /\ main' = [main EXCEPT !.pc = "wait"]
  BY Zenon DEF MainDecodesLiterals
<1>6. "wait" \in Places /\ "wait" \in Stage3Places
  BY DEF Places, Stage3Places
<1>7. main' \in MainSet /\ main'.pc = "wait" /\ Control(main, main')
  BY <1>3, <1>5, <1>6, MovesOn
<1>8. n = DecodeLiterals(cell[c], cell[c].job, cell[c].job.id)
  BY <1>3
<1> HIDE DEF n
<1>9. ASSUME NEW H \in [Nat -> Nat], NEW F \in [Nat -> Nat], TableInv(H, F)
      PROVE  /\ CellOk(next_id, H, F, n) /\ n \in CellSet /\ n.claim = cell[c].claim
             /\ n.done = cell[c].done /\ SameJob(cell[c], n) /\ n.lit_done = cell[c].job.id
             /\ SameSeqs(cell[c], n)
  <2>1. CellOk(next_id, H, F, cell[c])
    BY <1>2, <1>9, CurTaken
  <2> QED BY <1>3, <1>8, <1>9, <2>1, LitsDecoded
<1>10. /\ n \in CellSet /\ n.claim = cell[c].claim
       /\ n.done = cell[c].done /\ SameJob(cell[c], n) /\ n.lit_done = cell[c].job.id
       /\ SameSeqs(cell[c], n)
  <2>1. PICK H, F \in [Nat -> Nat] : TableInv(H, F)
    BY InvParts DEF GhostInv
  <2> QED BY <2>1, <1>9
<1> QED BY <1>2, <1>3, <1>4, <1>5, <1>6, <1>7, <1>9, <1>10, MainTouches

(* The executing thread moves on and leaves the cells alone.               *)
LEMMA MainPasses ==
  ASSUME IInv, Kept, tasks' = tasks, worker' = worker, dec' = dec, cell' = cell,
         main.pc \in Stage3Places, main'.pc \in Stage3Places, main' \in MainSet,
         Control(main, main'),
         dec[Main] # NoDecode => main'.pc \in {"lits", "wait"},
         main'.pc # "take" => cell[CurCell].claim = Taken(CurJob.id),
         \A H, F \in [Nat -> Nat] :
            TableInv(H, F) /\ main'.pc \in {"runs", "runs_wait", "finish"} =>
                ReadOk(F, main', cell[CurCell], CurJob)
  PROVE  IInv'
<1> DEFINE n == cell[CurCell]
<1>1. n \in CellSet /\ cell \in [Cells -> CellSet]
      /\ \A H, F \in [Nat -> Nat] : TableInv(H, F) => CellOk(next_id, H, F, n)
  BY CurTaken
<1>2. cell' = [cell EXCEPT ![CurCell] = n]
  BY <1>1
<1>3. SameJob(cell[CurCell], n) /\ SameSeqs(cell[CurCell], n)
  BY DEF SameJob, SameSeqs
<1> QED BY <1>1, <1>2, <1>3, MainTouches

(* Executing the block.                                                    *)
LEMMA ExecuteBlockStep ==
  ASSUME IInv, ExecuteBlock
  PROVE  IInv'
<1> DEFINE c == cell[CurCell]
           p == IF c.lits_ok /\ HasSeqs(CurJob.blk) THEN "runs" ELSE "finish"
           e == ~c.lits_ok
<1>1. main.pc = "exec" /\ c.lit_done = CurJob.id
  BY Zenon DEF ExecuteBlock
<1>2. main.pc \in Stage3Places /\ main.pc # "take"
  BY <1>1 DEF Stage3Places
<1>3. Kept /\ tasks' = tasks /\ worker' = worker /\ dec' = dec /\ cell' = cell
  BY Zenon DEF ExecuteBlock, UnchangedByStage3, Kept
<1>4. main' = [main EXCEPT !.pc = p, !.err = e, !.at = 0, !.got = <<>>, !.end_reps = NoTable]
  BY Zenon DEF ExecuteBlock
<1>5. p \in {"runs", "finish"} /\ e \in BOOLEAN /\ (e <=> ~c.lits_ok)
      /\ (p = "runs" <=> c.lits_ok /\ HasSeqs(CurJob.blk))
  OBVIOUS
<1>6. p \in Places /\ p \in Stage3Places
  BY <1>5 DEF Places, Stage3Places
<1> HIDE DEF p, e
<1>7. /\ main' \in MainSet /\ main'.pc = p /\ Control(main, main') /\ main'.at = 0
      /\ main'.got = <<>> /\ main'.err = e
  <2>1. main \in MainSet
    BY <1>2, CurTaken
  <2>2. PICK x \in BOOLEAN : x = e
    BY <1>5
  <2> DEFINE g == <<>>
             r == NoTable
             a == 0
             n == [main EXCEPT !.pc = p, !.err = x, !.at = a, !.got = g, !.end_reps = r]
  <2>3. g \in Seq(Triples) /\ r \in Nat /\ a \in 0..2
    BY DEF NoTable
  <2>4. main' = n
    BY <1>4, <2>2
  <2> HIDE DEF g, r, a
  <2>5. n \in MainSet /\ n.pc = p /\ Control(main, n) /\ n.at = a /\ n.got = g /\ n.err = x
    BY <2>1, <2>3, <1>6 DEF MainSet, Control
  <2> HIDE DEF n
  <2> QED BY <2>2, <2>4, <2>5, Zenon DEF a, g
<1>8. dec[Main] = NoDecode
  BY <1>1, InvParts DEF DecInv
<1>9. ASSUME NEW H \in [Nat -> Nat], NEW F \in [Nat -> Nat], TableInv(H, F)
      PROVE  ReadOk(F, main', c, CurJob)
  <2>1. CellOk(next_id, H, F, c) /\ c.job = CurJob /\ CurJob # NoJob
    BY <1>2, <1>9, CurTaken
  <2>2. c.lits_ok <=> CurJob.blk.fault # "lit"
    BY <1>1, <2>1 DEF CellOk, LitsOk
  <2>3. p = "finish" /\ e => CurJob.blk.fault # "none"
    BY <1>5, <2>2
  <2>4. p = "finish" /\ ~e => c.lits_ok /\ ~HasSeqs(CurJob.blk)
    BY <1>5
  <2>5. p = "runs" => c.lits_ok /\ HasSeqs(CurJob.blk)
    BY <1>5
  <2>6. main'.at = 0 /\ main'.at < 2 /\ main'.at # 1 /\ main'.at # 2
    BY <1>7
  <2>7. p # "runs_wait"
    BY <1>5
  <2> QED BY <1>1, <1>7, <2>3, <2>4, <2>5, <2>6, <2>7 DEF ReadOk
<1> QED BY <1>2, <1>3, <1>6, <1>7, <1>8, <1>9, CurTaken, MainPasses

(* Whether the decode is done is loaded before the count of sequences.     *)
LEMMA WaitRunStep ==
  ASSUME IInv, WaitRun
  PROVE  IInv'
<1> DEFINE c == cell[CurCell]
           e == c.progress <= main.at /\ main.saw_done
           p == IF c.progress <= main.at /\ main.saw_done THEN "finish" ELSE "runs"
<1>1. main.pc = "runs_wait"
  BY Zenon DEF WaitRun
<1>2. main.pc \in Stage3Places /\ main.pc # "take"
  BY <1>1 DEF Stage3Places
<1>3. Kept /\ tasks' = tasks /\ worker' = worker /\ dec' = dec /\ cell' = cell
  BY Zenon DEF WaitRun, UnchangedByStage3, Kept
<1>4. main' = [main EXCEPT !.pc = p, !.err = e]
  BY Zenon DEF WaitRun
<1>5. p \in {"runs", "finish"} /\ e \in BOOLEAN /\ (p = "finish" <=> e)
      /\ (e <=> c.progress <= main.at /\ main.saw_done)
  OBVIOUS
<1>6. p \in Places /\ p \in Stage3Places
  BY <1>5 DEF Places, Stage3Places
<1> HIDE DEF p, e
<1>7. /\ main' \in MainSet /\ main'.pc = p /\ Control(main, main') /\ main'.at = main.at
      /\ main'.got = main.got /\ main'.end_reps = main.end_reps /\ main'.err = e
  <2>1. main \in MainSet
    BY <1>2, CurTaken
  <2>2. PICK x \in BOOLEAN : x = e
    BY <1>5
  <2> DEFINE n == [main EXCEPT !.pc = p, !.err = x]
  <2>3. n \in MainSet /\ n.pc = p /\ Control(main, n) /\ n.at = main.at /\ n.got = main.got
        /\ n.end_reps = main.end_reps /\ n.err = x
    BY <2>1, <1>6 DEF MainSet, Control
  <2> HIDE DEF n
  <2>4. main' = n
    BY <1>4, <2>2 DEF n
  <2> QED BY <2>2, <2>3, <2>4, Zenon
<1>8. dec[Main] = NoDecode
  BY <1>1, InvParts DEF DecInv
<1>9. ASSUME NEW H \in [Nat -> Nat], NEW F \in [Nat -> Nat], TableInv(H, F)
      PROVE  ReadOk(F, main', c, CurJob)
  <2>1. CellOk(next_id, H, F, c) /\ c.job = CurJob /\ CurJob # NoJob /\ c \in CellSet
        /\ main \in MainSet
    BY <1>2, <1>9, CurTaken
  <2>2. ReadOk(F, main, c, CurJob)
    BY <1>1, <1>9 DEF TableInv
  <2>3. c.lits_ok /\ HasSeqs(CurJob.blk) /\ main.at < 2
        /\ (main.saw_done => c.done = CurJob.id)
    BY <1>1, <2>2 DEF ReadOk
  <2>4. ASSUME e PROVE CurJob.blk.fault # "none"
    <3>1. SeqsDone(c) /\ c.progress <= main.at
      BY <1>5, <2>1, <2>3, <2>4 DEF CellOk
    <3>2. c.progress # 2
      <4>1. c.progress \in 0..2 /\ main.at \in 0..2
        BY <2>1 DEF CellSet, MainSet
      <4> QED BY <4>1, <2>3, <3>1
    <3> QED BY <2>1, <2>3, <3>1, <3>2 DEF SeqsDone
  <2>5. p = "finish" /\ e => CurJob.blk.fault # "none"
    BY <2>4
  <2>6. ~(p = "finish" /\ ~e) /\ p # "runs_wait"
    BY <1>5
  <2> QED BY <1>7, <2>2, <2>3, <2>5, <2>6 DEF ReadOk
<1> QED BY <1>2, <1>3, <1>6, <1>7, <1>8, <1>9, CurTaken, MainPasses

(* A run of the sequences published, after those executed.                 *)
LEMMA TakesRun ==
  ASSUME NEW T, NEW q \in Seq(T), Len(q) = 2
  PROVE  /\ <<>> \o SubSeq(q, 1, 1) = <<q[1]>>
         /\ <<>> \o SubSeq(q, 1, 2) = <<q[1], q[2]>>
         /\ <<q[1]>> \o SubSeq(q, 2, 2) = <<q[1], q[2]>>
<1> DEFINE x == q[1]
           y == q[2]
           u == SubSeq(q, 1, 1)
           v == SubSeq(q, 2, 2)
           w == SubSeq(q, 1, 2)
<1>1. x \in T /\ y \in T
  <2>1. 1 \in 1..Len(q) /\ 2 \in 1..Len(q)
    OBVIOUS
  <2> QED BY <2>1
<1>2. /\ u \in Seq(T) /\ Len(u) = 1 /\ u[1] = x
      /\ v \in Seq(T) /\ Len(v) = 1 /\ v[1] = y
      /\ w \in Seq(T) /\ Len(w) = 2 /\ w[1] = x /\ w[2] = y
  OBVIOUS
<1> HIDE DEF x, y, u, v, w
<1>3. /\ <<x>> \in Seq(T) /\ Len(<<x>>) = 1 /\ <<x>>[1] = x
      /\ <<y>> \in Seq(T) /\ Len(<<y>>) = 1 /\ <<y>>[1] = y
      /\ <<x, y>> \in Seq(T) /\ Len(<<x, y>>) = 2 /\ <<x, y>>[1] = x /\ <<x, y>>[2] = y
  BY <1>1
<1>4. ASSUME NEW a \in Seq(T), NEW b \in Seq(T), Len(a) = 1, Len(b) = 1, a[1] = b[1]
      PROVE  a = b
  <2>1. \A i \in 1 .. Len(a) : a[i] = b[i]
    BY <1>4
  <2> QED BY <1>4, <2>1, SeqEqual
<1>5. ASSUME NEW a \in Seq(T), NEW b \in Seq(T), Len(a) = 2, Len(b) = 2, a[1] = b[1], a[2] = b[2]
      PROVE  a = b
  <2>1. \A i \in 1 .. Len(a) : a[i] = b[i]
    BY <1>5
  <2> QED BY <1>5, <2>1, SeqEqual
<1>6. u = <<x>> /\ v = <<y>> /\ w = <<x, y>>
  BY <1>2, <1>3, <1>4, <1>5
<1>7. <<>> \o u = u /\ <<>> \o w = w
  BY <1>2, ConcatEmptySeq
<1>8. <<x>> \o v = <<x, y>>
  <2>1. <<x>> \o v \in Seq(T) /\ Len(<<x>> \o v) = 2 /\ (<<x>> \o v)[1] = x /\ (<<x>> \o v)[2] = y
    <3> DEFINE z == <<x>>
    <3>1. z \in Seq(T) /\ Len(z) = 1 /\ z[1] = x
      BY <1>3
    <3> HIDE DEF z
    <3>2. z \o v \in Seq(T) /\ Len(z \o v) = 2 /\ (z \o v)[1] = x /\ (z \o v)[2] = y
      <4>1. /\ z \o v \in Seq(T) /\ Len(z \o v) = Len(z) + Len(v)
            /\ \A i \in 1 .. Len(z) + Len(v) :
                  (z \o v)[i] = IF i <= Len(z) THEN z[i] ELSE v[i - Len(z)]
        BY <1>2, <3>1, ConcatProperties
      <4>2. 1 \in 1 .. Len(z) + Len(v) /\ 2 \in 1 .. Len(z) + Len(v)
        BY <1>2, <3>1
      <4>3. (z \o v)[1] = z[1] /\ (z \o v)[2] = v[2 - Len(z)]
        BY <4>1, <4>2, <3>1
      <4> QED BY <4>1, <4>3, <1>2, <3>1
    <3> QED BY <3>2 DEF z
  <2> QED BY <2>1, <1>3, <1>5
<1> QED BY <1>6, <1>7, <1>8 DEF x, y, u, v, w

(* Executing the sequences published.                                      *)
LEMMA ReadyRunStep ==
  ASSUME IInv, ReadyRun
  PROVE  IInv'
<1> DEFINE c == cell[CurCell]
<1>1. main.pc = "runs"
  BY Zenon DEF ReadyRun
<1>2. main.pc \in Stage3Places /\ main.pc # "take"
  BY <1>1 DEF Stage3Places
<1>3. Kept /\ tasks' = tasks /\ worker' = worker /\ dec' = dec /\ cell' = cell
  BY Zenon DEF ReadyRun, UnchangedByStage3, Kept
<1>4. dec[Main] = NoDecode
  BY <1>1, InvParts DEF DecInv
<1>5. main \in MainSet /\ c \in CellSet
  BY <1>2, CurTaken
<1>6. main.at \in 0..2 /\ c.progress \in 0..2 /\ c.seqs \in Seq(Triples) /\ c.end \in Nat
      /\ main.got \in Seq(Triples)
  BY <1>5 DEF MainSet, CellSet
<1>7. ASSUME NEW H \in [Nat -> Nat], NEW F \in [Nat -> Nat], TableInv(H, F)
      PROVE  /\ CellOk(next_id, H, F, c) /\ c.job = CurJob /\ CurJob # NoJob
             /\ ReadOk(F, main, c, CurJob)
             /\ c.lits_ok /\ HasSeqs(CurJob.blk) /\ main.at < 2 /\ Len(c.seqs) = 2
  <2>1. CellOk(next_id, H, F, c) /\ c.job = CurJob /\ CurJob # NoJob
    BY <1>2, <1>7, CurTaken
  <2>2. ReadOk(F, main, c, CurJob)
    BY <1>1, <1>7 DEF TableInv
  <2> QED BY <1>1, <2>1, <2>2 DEF ReadOk, CellOk
<1>8. CASE c.progress <= main.at
  <2> DEFINE p == "runs_wait"
             e == (c.done = CurJob.id)
  <2>1. main' = [main EXCEPT !.pc = p, !.saw_done = e]
    BY <1>8, Zenon DEF ReadyRun
  <2>2. PICK x \in BOOLEAN : x = e
    OBVIOUS
  <2> HIDE DEF e
  <2>3. main' = [main EXCEPT !.pc = p, !.saw_done = x]
    BY <2>1, <2>2
  <2>4. p \in Places /\ p \in Stage3Places
    BY DEF Places, Stage3Places
  <2>5. p = "runs_wait"
    OBVIOUS
  <2> HIDE DEF p
  <2>6. /\ main' \in MainSet /\ main'.pc = p /\ Control(main, main') /\ main'.at = main.at
        /\ main'.got = main.got /\ main'.end_reps = main.end_reps /\ main'.saw_done = x
    BY <1>5, <2>3, <2>4 DEF MainSet, Control
  <2>7. ASSUME NEW H \in [Nat -> Nat], NEW F \in [Nat -> Nat], TableInv(H, F)
        PROVE  ReadOk(F, main', c, CurJob)
    <3>1. ReadOk(F, main, c, CurJob) /\ c.lits_ok /\ HasSeqs(CurJob.blk) /\ main.at < 2
      BY <1>7, <2>7
    <3>2. x => c.done = CurJob.id
      BY <2>2 DEF e
    <3> QED BY <2>5, <2>6, <3>1, <3>2 DEF ReadOk
  <2> QED BY <1>2, <1>3, <1>4, <2>4, <2>6, <2>7, CurTaken, MainPasses
<1>9. CASE ~(c.progress <= main.at)
  <2> DEFINE f == CurJob.blk.fault = "exec"
             p == IF c.progress = NumSequences \/ f THEN "finish" ELSE "runs"
             g == main.got \o SubSeq(c.seqs, main.at + 1, c.progress)
             r == c.end
             a == c.progress
  <2>1. main' = [main EXCEPT !.pc = p, !.err = f, !.got = g, !.end_reps = r, !.at = a]
    BY <1>9, Zenon DEF ReadyRun
  <2>2. PICK x \in BOOLEAN : x = f
    OBVIOUS
  <2>3. /\ p \in {"finish", "runs"} /\ p \in Places /\ p \in Stage3Places
        /\ p = "finish" <=> (a = 2 \/ x)
    BY <2>2 DEF Places, Stage3Places, NumSequences
  <2>4. (main.at = 0 /\ a = 1) \/ (main.at = 0 /\ a = 2) \/ (main.at = 1 /\ a = 2) \/ main.at = 2
    BY <1>6, <1>9
  <2>5. main.at # 2 /\ Len(c.seqs) = 2
    <3>1. PICK H, F \in [Nat -> Nat] : TableInv(H, F)
      BY InvParts DEF GhostInv
    <3>2. main.at < 2 /\ Len(c.seqs) = 2
      BY <3>1, <1>7
    <3>3. main.at # 2
      BY <3>2
    <3> QED BY <3>2, <3>3
  <2>6. ASSUME NEW H \in [Nat -> Nat], NEW F \in [Nat -> Nat], TableInv(H, F)
        PROVE  /\ a = 1 => g = <<SeqsOf(F, CurJob, 1)>>
               /\ a = 2 => g = <<SeqsOf(F, CurJob, 1), SeqsOf(F, CurJob, 2)>>
                           /\ r = Tok(CurJob.blk)
    <3>1. ReadOk(F, main, c, CurJob) /\ RunsOk(F, c) /\ c.job = CurJob
      BY <1>7, <2>6 DEF CellOk
    <3>2. c.seqs[1] = SeqsOf(F, CurJob, 1)
      BY <3>1, <2>4, <2>5 DEF RunsOk
    <3>3. a = 2 => c.seqs[2] = SeqsOf(F, CurJob, 2) /\ r = Tok(CurJob.blk)
      BY <3>1 DEF RunsOk
    <3>4. main.at = 0 => main.got = <<>>
      BY <3>1 DEF ReadOk
    <3>5. main.at = 1 => main.got = <<c.seqs[1]>>
      BY <3>1, <3>2 DEF ReadOk
    <3>6. /\ <<>> \o SubSeq(c.seqs, 1, 1) = <<c.seqs[1]>>
          /\ <<>> \o SubSeq(c.seqs, 1, 2) = <<c.seqs[1], c.seqs[2]>>
          /\ <<c.seqs[1]>> \o SubSeq(c.seqs, 2, 2) = <<c.seqs[1], c.seqs[2]>>
      BY <1>6, <2>5, TakesRun
    <3>7. CASE main.at = 0 /\ a = 1
      <4>1. g = <<>> \o SubSeq(c.seqs, 1, 1)
        <5>1. main.at + 1 = 1
          BY <3>7
        <5> QED BY <3>4, <3>7, <5>1, Zenon
      <4> HIDE DEF g
      <4> QED BY <4>1, <3>7, <3>2, <3>6
    <3>8. CASE main.at = 0 /\ a = 2
      <4>1. g = <<>> \o SubSeq(c.seqs, 1, 2)
        <5>1. main.at + 1 = 1
          BY <3>8
        <5> QED BY <3>4, <3>8, <5>1, Zenon
      <4> HIDE DEF g
      <4> QED BY <4>1, <3>8, <3>2, <3>3, <3>6
    <3>9. CASE main.at = 1 /\ a = 2
      <4>1. g = <<c.seqs[1]>> \o SubSeq(c.seqs, 2, 2)
        <5>1. main.at + 1 = 2
          BY <3>9
        <5> QED BY <3>5, <3>9, <5>1, Zenon
      <4> HIDE DEF g
      <4> QED BY <4>1, <3>9, <3>2, <3>3, <3>6
    <3> QED BY <3>7, <3>8, <3>9, <2>4, <2>5
  <2>7. g \in Seq(Triples)
    <3>1. SubSeq(c.seqs, main.at + 1, c.progress) \in Seq(Triples)
      BY <1>6, <2>4, <2>5
    <3> QED BY <1>6, <3>1
  <2>8. r \in Nat /\ a \in 0..2
    BY <1>6
  <2>9. x => CurJob.blk.fault # "none"
    BY <2>2
  <2>10. main' = [main EXCEPT !.pc = p, !.err = x, !.got = g, !.end_reps = r, !.at = a]
    BY <2>1, <2>2
  <2> HIDE DEF p, g, r, a, f
  <2>11. /\ main' \in MainSet /\ main'.pc = p /\ Control(main, main') /\ main'.at = a
         /\ main'.got = g /\ main'.end_reps = r /\ main'.err = x
    BY <1>5, <2>3, <2>7, <2>8, <2>10 DEF MainSet, Control
  <2>12. a \in {1, 2}
    BY <2>4, <2>5
  <2>13. ASSUME NEW H \in [Nat -> Nat], NEW F \in [Nat -> Nat], TableInv(H, F)
         PROVE  ReadOk(F, main', c, CurJob)
    <3>1. ReadOk(F, main, c, CurJob) /\ c.lits_ok /\ HasSeqs(CurJob.blk)
      BY <1>7, <2>13
    <3>2. p \in {"runs", "runs_wait"} => a < 2
      BY <2>3, <2>12
    <3>3. p = "finish" /\ x => CurJob.blk.fault # "none"
      BY <2>9
    <3>4. p = "finish" /\ ~x => a = 2
      BY <2>3
    <3>5. p # "runs_wait" /\ a # 0
      BY <2>3, <2>12
    <3>6. /\ a = 1 => g = <<SeqsOf(F, CurJob, 1)>>
          /\ a = 2 => g = <<SeqsOf(F, CurJob, 1), SeqsOf(F, CurJob, 2)>> /\ r = Tok(CurJob.blk)
      BY <2>6, <2>13
    <3>7. c.lit_done = CurJob.id
      BY <3>1 DEF ReadOk
    <3> QED BY <2>11, <3>1, <3>2, <3>3, <3>4, <3>5, <3>6, <3>7 DEF ReadOk
  <2> QED BY <1>2, <1>3, <1>4, <2>3, <2>11, <2>13, CurTaken, MainPasses
<1> QED BY <1>8, <1>9

-----------------------------------------------------------------------------
(* Taking a block, and the pool's tasks.                                   *)

(* A thread takes the block planned in a cell.                             *)
LEMMA TakesInto ==
  ASSUME IInv, Kept, NEW th \in Threads, NEW c \in Cells, NEW t \in Nat, TakeBlock(th, c, t),
         worker' \in [Workers -> TaskSet], tasks' \in Seq(TaskSet), main' \in MainSet,
         th \in Workers => worker'[th].cell = c /\ main' = main,
         \A w \in Workers : w # th => worker'[w] = worker[w],
         th \notin Workers => /\ main.pc \in Stage3Places /\ main'.pc \in {"lits", "wait"}
                              /\ Control(main, main'),
         main.pc = "take" /\ main'.pc # "take" => c = CurCell /\ t = CurJob.id,
         \A k \in DOMAIN tasks' : \E i \in DOMAIN tasks : tasks'[k] = tasks[i],
         \A i \in DOMAIN tasks : \/ tasks[i].cell = c /\ tasks[i].ticket = t
                                 \/ \E k \in DOMAIN tasks' : tasks'[k] = tasks[i]
  PROVE  IInv'
<1> USE InvParts
<1> DEFINE k == Taken(t)
           n == [cell[c] EXCEPT !.claim = k]
           e == Entered(c, t)
<1>1. cell \in [Cells -> CellSet] /\ dec \in [Threads -> DecSet] /\ cell[c] \in CellSet
      /\ worker \in [Workers -> TaskSet] /\ ncells \in Nat /\ MaxCells \in Nat
      /\ next_id \in Nat /\ main \in MainSet
  BY DepthType DEF TypeInv
<1>2. k \in Nat /\ cell[c].claim = Planned(t)
  BY ClaimsApart DEF TakeBlock
<1>3. cell' = [cell EXCEPT ![c].claim = k] /\ dec' = [dec EXCEPT ![th] = e]
  BY Zenon DEF TakeBlock
<1> HIDE DEF k
<1>4. /\ n \in CellSet /\ n.claim = k /\ n.done = cell[c].done
      /\ SameJob(cell[c], n) /\ SameSeqs(cell[c], n) /\ SameLits(cell[c], n)
  BY <1>1, <1>2, ClaimCell
<1>5. cell'[c] = n /\ \A x \in Cells : x # c => cell'[x] = cell[x]
  BY <1>1, <1>3
<1>6. cell' \in [Cells -> CellSet]
  BY <1>1, <1>3, <1>4
<1> HIDE DEF n
<1>7. /\ cell[c].done # t /\ cell[c].job.id = t
      /\ \E i \in DOMAIN tasks : tasks[i].cell = c /\ tasks[i].ticket = t
  BY <1>2 DEF TaskInv
<1>8. c \in 1 .. ncells
  BY <1>7 DEF TaskInv
<1>9. /\ e \in DecSet /\ e.cell = c /\ e.ticket = t /\ e.pc \in {"seqs", "lits"}
      /\ e.pc = "lits" => ~cell[c].sequences_first
  <2>1. c \in Nat /\ t \in Int
    BY <1>8
  <2> DEFINE p == IF cell[c].sequences_first THEN "seqs" ELSE "lits"
  <2>2. p \in {"seqs", "lits"} /\ (p = "lits" => ~cell[c].sequences_first)
    OBVIOUS
  <2> HIDE DEF p
  <2>3. e = [pc |-> p, cell |-> c, ticket |-> t]
    BY DEF Entered, p
  <2> QED BY <2>1, <2>2, <2>3 DEF DecSet
<1> HIDE DEF e
<1>10. dec' \in [Threads -> DecSet] /\ dec'[th] = e /\ \A u \in Threads : u # th => dec'[u] = dec[u]
  BY <1>1, <1>3, <1>9
<1>11. TypeInv'
  BY <1>6, <1>10, Zenon DEF TypeInv, Kept
<1>12. \A x \in Cells : GoesOn(cell[x], cell'[x])
  <2> SUFFICES ASSUME NEW x \in Cells PROVE GoesOn(cell[x], cell'[x])
    OBVIOUS
  <2>1. CASE x = c
    BY <2>1, <1>2, <1>4, <1>5 DEF GoesOn, SameJob, SameLits, k
  <2>2. CASE x # c
    BY <2>2, <1>5, GoesOnSame
  <2> QED BY <2>1, <2>2
<1>13. \/ main' = main
       \/ main.pc \in Stage3Places /\ main'.pc \in Stage3Places /\ Control(main, main')
  <2>1. {"lits", "wait"} \subseteq Stage3Places
    BY DEF Stage3Places
  <2> QED BY <2>1
<1>14. Decodes
  <2>1. \A u \in Threads : \/ dec'[u].cell \in {0, dec[u].cell}
                           \/ \E x \in Nat : cell[dec'[u].cell].claim = Planned(x)
    BY <1>2, <1>9, <1>10
  <2> QED BY <1>12, <1>13, <2>1 DEF Decodes
<1>15. IdInv' /\ FreshInv' /\ QueueInv' /\ BatchInv' /\ ApartInv' /\ ModeInv' /\ SerialInv'
       /\ CurCell' = CurCell /\ CurJob' = CurJob /\ CurEntry' = CurEntry
  BY <1>14, DecodesIds, DecodesQueue, DecodesBatch, DecodesRest
<1>16. \A u \in Threads : dec[u] # NoDecode => dec[u].cell \in Cells /\ dec[u].cell # c
  <2> SUFFICES ASSUME NEW u \in Threads, dec[u] # NoDecode
               PROVE  dec[u].cell \in Cells /\ dec[u].cell # c
    OBVIOUS
  <2>1. dec[u].cell \in Cells /\ dec[u].ticket \in Nat
        /\ cell[dec[u].cell].claim = Taken(dec[u].ticket)
    BY DecodeCell
  <2>2. Taken(dec[u].ticket) # Planned(t) /\ cell[c].claim = Planned(t)
    BY <2>1, <1>2, ClaimsApart
  <2>3. dec[u].cell = c => Taken(dec[u].ticket) = Planned(t)
    BY <2>1, <2>2, Zenon
  <2> QED BY <2>1, <2>2, <2>3
<1>17. \A u \in Threads : dec[u].cell # c
  <2>1. c # 0
    BY <1>8
  <2> QED BY <2>1, <1>16, EmptyTypes
<1>18. DecInv'
  <2>1. ncells' = ncells
    BY DEF Kept
  <2>2. ASSUME NEW u \in Threads, dec'[u] # NoDecode
        PROVE  /\ dec'[u].pc # "idle"
               /\ dec'[u].cell \in 1 .. ncells' /\ dec'[u].ticket \in Nat
               /\ cell'[dec'[u].cell].claim = Taken(dec'[u].ticket)
               /\ cell'[dec'[u].cell].done # dec'[u].ticket
               /\ cell'[dec'[u].cell].job.id = dec'[u].ticket
               /\ \A v \in Threads \ {u} : dec'[v].cell # dec'[u].cell
    <3>1. CASE u = th
      <4>1. dec'[u] = e /\ \A v \in Threads \ {u} : dec'[v].cell # c
        BY <3>1, <1>10, <1>17
      <4>2. cell'[c].claim = k /\ cell'[c].done # t /\ cell'[c].job.id = t
        BY <1>4, <1>5, <1>7 DEF SameJob
      <4>3. e.pc # "idle"
        BY <1>9
      <4> QED BY <4>1, <4>2, <4>3, <1>8, <1>9, <2>1 DEF k
    <3>2. CASE u # th
      <4>1. dec'[u] = dec[u] /\ dec[u] # NoDecode
        BY <3>2, <2>2, <1>10
      <4>2. /\ dec[u].pc # "idle" /\ dec[u].cell \in 1 .. ncells /\ dec[u].ticket \in Nat
            /\ cell[dec[u].cell].claim = Taken(dec[u].ticket)
            /\ cell[dec[u].cell].done # dec[u].ticket
            /\ cell[dec[u].cell].job.id = dec[u].ticket
            /\ \A v \in Threads \ {u} : dec[v].cell # dec[u].cell
        BY <4>1 DEF DecInv
      <4>3. dec[u].cell # c /\ cell'[dec[u].cell] = cell[dec[u].cell]
        BY <4>1, <1>5, <1>16
      <4>4. \A v \in Threads \ {u} : dec'[v].cell # dec[u].cell
        BY <4>2, <4>3, <1>9, <1>10
      <4> QED BY <4>1, <4>2, <4>3, <4>4, <2>1
    <3> QED BY <3>1, <3>2
  <2>3. ASSUME NEW w \in Workers, dec'[w] # NoDecode PROVE worker'[w].cell = dec'[w].cell
    <3>1. w \in Threads
      BY MainApart
    <3>2. CASE w = th
      BY <3>2, <1>9, <1>10
    <3>3. CASE w # th
      BY <3>1, <3>3, <2>3, <1>10 DEF DecInv
    <3> QED BY <3>2, <3>3
  <2>4. ASSUME dec'[Main] # NoDecode PROVE main'.pc \in {"lits", "wait"}
    <3>1. CASE th \in Workers
      BY <3>1, <2>4, <1>10, MainApart DEF DecInv
    <3>2. CASE th \notin Workers
      BY <3>2
    <3> QED BY <3>1, <3>2
  <2> QED BY <2>2, <2>3, <2>4, Zenon DEF DecInv
<1>19. TaskInv'
  <2>1. \A w \in Workers : worker'[w].cell <= ncells
    BY <1>1, <1>8 DEF TaskInv
  <2>2. \A i \in DOMAIN tasks : \/ cell'[tasks[i].cell].claim # Planned(tasks[i].ticket)
                                \/ \E j \in DOMAIN tasks' : tasks'[j] = tasks[i]
    <3>1. cell'[c].claim # Planned(t)
      BY <1>4, <1>5, ClaimsApart DEF k
    <3> QED BY <3>1
  <2> QED BY <1>12, <2>1, <2>2, TasksKept
<1>20. StageInv'
  <2>1. /\ chain' = chain /\ calls' = calls /\ consumed' = consumed /\ input' = input
        /\ main'.mode = main.mode
    BY <1>13 DEF Kept, Control
  <2>2. main'.pc \in Stage3Places \union {"raw"} <=> main.pc \in Stage3Places \union {"raw"}
    BY <1>13
  <2>3. main'.pc = "raw" <=> main.pc = "raw"
    BY <1>13, StagePlaces
  <2>4. ASSUME main'.pc \in Stage3Places, main'.pc # "take"
        PROVE  cell'[CurCell].claim = Taken(CurJob.id)
    <3>1. main.pc \in Stage3Places
      BY <2>4, <1>13
    <3>2. CurCell \in Cells /\ CurJob.id \in Nat
      BY <3>1, CurBlock
    <3>3. CASE main.pc = "take"
      BY <3>3, <2>4, <1>4, <1>5 DEF k
    <3>4. CASE main.pc # "take"
      <4>1. cell[CurCell].claim = Taken(CurJob.id)
        BY <3>1, <3>4, CurTaken
      <4>2. CurCell # c
        <5>1. Taken(CurJob.id) # Planned(t) /\ cell[c].claim = Planned(t)
          BY <3>2, <1>2, ClaimsApart
        <5>2. CurCell = c => Taken(CurJob.id) = Planned(t)
          BY <4>1, <5>1, Zenon
        <5> QED BY <5>1, <5>2
      <4> QED BY <4>1, <4>2, <3>2, <1>5
    <3> QED BY <3>3, <3>4
  <2>5. main.pc \in Stage3Places \union {"raw"} =>
          /\ main.mode = "chain" => chain.queue # <<>> /\ chain.queue[1].seen = calls
          /\ Len(consumed) < Len(input)
          /\ main.pc = "raw" <=> CurEntry.job = NoJob
    BY DEF StageInv
  <2>6. "raw" \notin Stage3Places
    BY StagePlaces
  <2> QED BY <1>15, <2>1, <2>2, <2>3, <2>4, <2>5, <2>6 DEF StageInv
<1>21. GhostInv'
  <2>1. PICK H, F \in [Nat -> Nat] :
          \E S : TableInv(H, F) /\ QueueLine(H, F, S) /\ BatchLine(H, F, S)
    BY DEF GhostInv
  <2>2. PICK S : TableInv(H, F) /\ QueueLine(H, F, S) /\ BatchLine(H, F, S)
    BY <2>1
  <2>3. QueueLine(H, F, S)' /\ BatchLine(H, F, S)'
    BY <1>14, <2>2, DecodesLines
  <2>4. TableInv(H, F)'
    <3>1. next_id' = next_id
      BY DEF Kept
    <3>2. \A x \in Cells : CellOk(next_id, H, F, cell'[x])
      <4>1. CellOk(next_id, H, F, cell[c])
        BY <2>2 DEF TableInv
      <4>2. n.done # cell[c].job.id
        BY <1>4, <1>7
      <4>3. CellOk(next_id, H, F, n)
        BY <1>4, <4>1, <4>2, CellSame
      <4> QED BY <4>3, <1>5, <2>2 DEF TableInv
    <3>3. ASSUME NEW u \in Threads, dec'[u] # NoDecode
          PROVE  DecOk(dec'[u], cell'[dec'[u].cell])
      <4>1. CASE u = th
        <5>1. e.pc = "lits" => ~n.sequences_first
          BY <1>4, <1>9 DEF SameJob
        <5>2. DecOk(e, n)
          BY <5>1, <1>9 DEF DecOk
        <5> QED BY <4>1, <5>2, <1>5, <1>9, <1>10
      <4>2. CASE u # th
        <5>1. dec'[u] = dec[u] /\ dec[u] # NoDecode
          BY <4>2, <3>3, <1>10
        <5>2. cell'[dec[u].cell] = cell[dec[u].cell]
          BY <5>1, <1>5, <1>16
        <5> QED BY <5>1, <5>2, <2>2 DEF TableInv
      <4> QED BY <4>1, <4>2
    <3>4. ASSUME main'.pc \in {"runs", "runs_wait", "finish"}
          PROVE  ReadOk(F, main', cell'[CurCell], CurJob)
      <4>1. main' = main
        BY <3>4
      <4>2. main.pc \in Stage3Places
        BY <3>4, <4>1 DEF Stage3Places
      <4>3. ReadOk(F, main, cell[CurCell], CurJob)
        BY <3>4, <4>1, <2>2 DEF TableInv
      <4>4. CurCell \in Cells
        BY <4>2, CurBlock
      <4>5. CASE CurCell = c
        <5>1. ReadOk(F, main, n, CurJob)
          BY <4>3, <4>5, <1>4, Zenon DEF ReadOk, SameLits
        <5> QED BY <5>1, <4>1, <4>5, <1>5
      <4>6. CASE CurCell # c
        BY <4>1, <4>3, <4>4, <4>6, <1>5
      <4> QED BY <4>5, <4>6
    <3> QED BY <1>15, <3>1, <3>2, <3>3, <3>4 DEF TableInv
  <2> QED BY <2>3, <2>4 DEF GhostInv
<1> QED BY <1>11, <1>15, <1>18, <1>19, <1>20, <1>21, Zenon DEF IInv, CellsInv

(* A worker moves on from task to task, the cells as they were.            *)
LEMMA PoolMoves ==
  ASSUME IInv, Kept, cell' = cell, dec' = dec, main' = main,
         worker' \in [Workers -> TaskSet], tasks' \in Seq(TaskSet),
         \A w \in Workers : worker'[w].cell <= ncells,
         \A w \in Workers : dec[w] # NoDecode => worker'[w].cell = worker[w].cell,
         \A k \in DOMAIN tasks' : \E i \in DOMAIN tasks : tasks'[k] = tasks[i],
         \A i \in DOMAIN tasks : \/ cell'[tasks[i].cell].claim # Planned(tasks[i].ticket)
                                 \/ \E k \in DOMAIN tasks' : tasks'[k] = tasks[i]
  PROVE  IInv'
<1> USE InvParts
<1>1. TypeInv'
  BY Zenon DEF TypeInv, Kept
<1>2. \A c \in Cells : GoesOn(cell[c], cell'[c])
  BY GoesOnSame
<1>3. Decodes
  BY <1>2 DEF Decodes
<1>4. IdInv' /\ FreshInv' /\ QueueInv' /\ BatchInv' /\ ApartInv' /\ ModeInv' /\ SerialInv'
      /\ CurCell' = CurCell /\ CurJob' = CurJob /\ CurEntry' = CurEntry
  BY <1>3, DecodesIds, DecodesQueue, DecodesBatch, DecodesRest
<1>5. DecInv'
  <2>1. ncells' = ncells
    BY DEF Kept
  <2>2. \A w \in Workers : dec[w] # NoDecode => worker'[w].cell = dec[w].cell
    BY DEF DecInv
  <2> QED BY <2>1, <2>2, Zenon DEF DecInv
<1>6. TaskInv'
  BY <1>2, TasksKept
<1>7. StageInv'
  BY <1>4, Zenon DEF StageInv, Kept
<1>8. GhostInv'
  <2>1. PICK H, F \in [Nat -> Nat] :
          \E S : TableInv(H, F) /\ QueueLine(H, F, S) /\ BatchLine(H, F, S)
    BY DEF GhostInv
  <2>2. PICK S : TableInv(H, F) /\ QueueLine(H, F, S) /\ BatchLine(H, F, S)
    BY <2>1
  <2>3. QueueLine(H, F, S)' /\ BatchLine(H, F, S)'
    BY <1>3, <2>2, DecodesLines
  <2>4. TableInv(H, F)'
    BY <1>4, <2>2, Zenon DEF TableInv, Kept
  <2> QED BY <2>3, <2>4 DEF GhostInv
<1> QED BY <1>1, <1>4, <1>5, <1>6, <1>7, <1>8, Zenon DEF IInv, CellsInv

(* The tasks after the first.                                              *)
LEMMA TailTasks ==
  ASSUME NEW s \in Seq(TaskSet), s # <<>>
  PROVE  /\ Tail(s) \in Seq(TaskSet) /\ Head(s) = s[1] /\ 1 \in DOMAIN s
         /\ \A k \in DOMAIN Tail(s) : \E i \in DOMAIN s : Tail(s)[k] = s[i]
         /\ \A i \in DOMAIN s : i = 1 \/ \E k \in DOMAIN Tail(s) : Tail(s)[k] = s[i]
<1>1. /\ Tail(s) \in Seq(TaskSet) /\ Len(Tail(s)) = Len(s) - 1 /\ Head(s) = s[1] /\ Len(s) >= 1
      /\ \A k \in 1 .. Len(s) - 1 : Tail(s)[k] = s[k + 1]
  OBVIOUS
<1>2. DOMAIN s = 1 .. Len(s) /\ DOMAIN Tail(s) = 1 .. Len(s) - 1 /\ Len(s) \in Nat
  BY <1>1
<1>3. \A k \in DOMAIN Tail(s) : \E i \in DOMAIN s : Tail(s)[k] = s[i]
  BY <1>1, <1>2
<1>4. ASSUME NEW i \in DOMAIN s, i # 1 PROVE \E k \in DOMAIN Tail(s) : Tail(s)[k] = s[i]
  <2>1. i - 1 \in DOMAIN Tail(s) /\ Tail(s)[i - 1] = s[i]
    BY <1>1, <1>2, <1>4
  <2> QED BY <2>1
<1> QED BY <1>1, <1>2, <1>3, <1>4

(* A worker starts a task.                                                 *)
LEMMA StartTaskStep ==
  ASSUME IInv, NEW w \in Workers, StartTask(w)
  PROVE  IInv'
<1> USE InvParts
<1>1. /\ worker[w] = NoTask /\ tasks # <<>>
      /\ worker' = [worker EXCEPT ![w] = Head(tasks)] /\ tasks' = Tail(tasks)
      /\ Kept /\ main' = main
  BY Zenon DEF StartTask, Kept
<1>2. \/ TakeBlock(w, Head(tasks).cell, Head(tasks).ticket)
      \/ /\ cell[Head(tasks).cell].claim # Planned(Head(tasks).ticket)
         /\ cell' = cell /\ dec' = dec
  BY Zenon DEF StartTask
<1>3. /\ tasks \in Seq(TaskSet) /\ worker \in [Workers -> TaskSet] /\ ncells \in Nat
      /\ MaxCells \in Nat /\ main \in MainSet
  BY DepthType DEF TypeInv
<1>4. /\ tasks' \in Seq(TaskSet) /\ Head(tasks) = tasks[1] /\ 1 \in DOMAIN tasks
      /\ \A k \in DOMAIN tasks' : \E i \in DOMAIN tasks : tasks'[k] = tasks[i]
      /\ \A i \in DOMAIN tasks : i = 1 \/ \E k \in DOMAIN tasks' : tasks'[k] = tasks[i]
  BY <1>1, <1>3, TailTasks
<1> DEFINE c == Head(tasks).cell
           t == Head(tasks).ticket
<1>5. Head(tasks) \in TaskSet /\ tasks[1].cell = c /\ tasks[1].ticket = t
  BY <1>3, <1>4
<1>6. c \in 1 .. ncells /\ t \in Nat /\ c \in Cells
  BY <1>3, <1>4, <1>5 DEF TaskInv, Cells
<1>7. /\ worker' \in [Workers -> TaskSet] /\ worker'[w] = Head(tasks)
      /\ \A u \in Workers : u # w => worker'[u] = worker[u]
  BY <1>1, <1>3, <1>5
<1> HIDE DEF c, t
<1>8. w \in Threads
  BY MainApart
<1>9. CASE TakeBlock(w, Head(tasks).cell, Head(tasks).ticket)
  <2>1. TakeBlock(w, c, t)
    BY <1>9 DEF c, t
  <2>2. worker'[w].cell = c
    BY <1>7 DEF c
  <2>3. \A i \in DOMAIN tasks : \/ tasks[i].cell = c /\ tasks[i].ticket = t
                                \/ \E k \in DOMAIN tasks' : tasks'[k] = tasks[i]
    BY <1>4, <1>5
  <2>4. main' \in MainSet /\ (main.pc = "take" /\ main'.pc # "take" => c = CurCell /\ t = CurJob.id)
    BY <1>1, <1>3
  <2> QED BY <1>1, <1>4, <1>6, <1>7, <1>8, <2>1, <2>2, <2>3, <2>4, TakesInto
<1>10. CASE /\ cell[Head(tasks).cell].claim # Planned(Head(tasks).ticket)
            /\ cell' = cell /\ dec' = dec
  <2>1. cell'[c].claim # Planned(t)
    BY <1>10 DEF c, t
  <2>2. \A i \in DOMAIN tasks : \/ cell'[tasks[i].cell].claim # Planned(tasks[i].ticket)
                                \/ \E k \in DOMAIN tasks' : tasks'[k] = tasks[i]
    BY <1>4, <1>5, <2>1
  <2>3. worker'[w].cell \in 1 .. ncells
    BY <1>6, <1>7 DEF c
  <2>4. \A u \in Workers : worker'[u].cell <= ncells
    <3> SUFFICES ASSUME NEW u \in Workers PROVE worker'[u].cell <= ncells
      OBVIOUS
    <3>1. CASE u = w
      BY <3>1, <2>3, <1>3
    <3>2. CASE u # w
      BY <3>2, <1>7 DEF TaskInv
    <3> QED BY <3>1, <3>2
  <2>5. dec[w] = NoDecode
    <3>1. ASSUME dec[w] # NoDecode PROVE FALSE
      <4>1. worker[w].cell = dec[w].cell /\ dec[w].cell \in 1 .. ncells
        BY <1>8, <3>1 DEF DecInv
      <4>2. worker[w].cell = 0
        BY <1>1, EmptyTypes
      <4> QED BY <4>1, <4>2
    <3> QED BY <3>1
  <2>6. \A u \in Workers : dec[u] # NoDecode => worker'[u].cell = worker[u].cell
    BY <2>5, <1>7
  <2> QED BY <1>1, <1>4, <1>7, <1>10, <2>2, <2>4, <2>6, PoolMoves
<1> QED BY <1>2, <1>9, <1>10

(* A worker ends a task.                                                   *)
LEMMA EndTaskStep ==
  ASSUME IInv, NEW w \in Workers, EndTask(w)
  PROVE  IInv'
<1> USE InvParts
<1>1. /\ dec[w] = NoDecode /\ worker' = [worker EXCEPT ![w] = NoTask] /\ tasks' = tasks
      /\ Kept /\ main' = main /\ cell' = cell /\ dec' = dec
  BY Zenon DEF EndTask, Kept
<1>2. worker \in [Workers -> TaskSet] /\ tasks \in Seq(TaskSet) /\ ncells \in Nat
  BY DEF TypeInv
<1>3. /\ worker' \in [Workers -> TaskSet] /\ worker'[w] = NoTask
      /\ \A u \in Workers : u # w => worker'[u] = worker[u]
  BY <1>1, <1>2, EmptyTypes
<1>4. \A u \in Workers : worker'[u].cell <= ncells
  <2>1. NoTask.cell <= ncells
    BY <1>2, EmptyTypes
  <2> QED BY <2>1, <1>3 DEF TaskInv
<1>5. \A u \in Workers : dec[u] # NoDecode => worker'[u].cell = worker[u].cell
  BY <1>1, <1>3
<1>6. /\ \A k \in DOMAIN tasks' : \E i \in DOMAIN tasks : tasks'[k] = tasks[i]
      /\ \A i \in DOMAIN tasks : \E k \in DOMAIN tasks' : tasks'[k] = tasks[i]
  BY <1>1
<1> QED BY <1>1, <1>2, <1>3, <1>4, <1>5, <1>6, PoolMoves

(* The executing thread takes its block, or finds it taken.                *)
LEMMA TakeFrontStep ==
  ASSUME IInv, TakeFront
  PROVE  IInv'
<1> USE InvParts
<1>1. /\ main.pc = "take" /\ main' = [main EXCEPT !.pc = "lits"]
      /\ Kept /\ tasks' = tasks /\ worker' = worker
  BY Zenon DEF TakeFront, Kept, UnchangedByStage3
<1>2. \/ TakeBlock(Main, CurCell, CurJob.id)
      \/ cell[CurCell].claim # Planned(CurJob.id) /\ cell' = cell /\ dec' = dec
  BY Zenon DEF TakeFront
<1>3. main \in MainSet /\ worker \in [Workers -> TaskSet] /\ tasks \in Seq(TaskSet)
  BY DEF TypeInv
<1>4. "take" \in Stage3Places /\ "lits" \in Stage3Places /\ "lits" \in Places
  BY DEF Stage3Places, Places
<1>5. main' \in MainSet /\ main'.pc = "lits" /\ Control(main, main')
  BY <1>1, <1>3, <1>4, MovesOn
<1>6. main.pc \in Stage3Places /\ main'.pc \in Stage3Places
  BY <1>1, <1>4, <1>5
<1>7. CurCell \in Cells /\ CurJob.id \in Nat /\ Live(CurCell, CurJob)
  BY <1>6, CurBlock
<1>8. CASE TakeBlock(Main, CurCell, CurJob.id)
  <2>1. Main \in Threads /\ Main \notin Workers
    BY MainApart
  <2>2. /\ \A k \in DOMAIN tasks' : \E i \in DOMAIN tasks : tasks'[k] = tasks[i]
        /\ \A i \in DOMAIN tasks : \E k \in DOMAIN tasks' : tasks'[k] = tasks[i]
    BY <1>1
  <2>3. \A w \in Workers : w # Main => worker'[w] = worker[w]
    BY <1>1
  <2>4. worker' \in [Workers -> TaskSet] /\ tasks' \in Seq(TaskSet)
    BY <1>1, <1>3
  <2> HIDE DEF Main
  <2> QED BY <1>1, <1>5, <1>6, <1>7, <1>8, <2>1, <2>2, <2>3, <2>4, TakesInto
<1>9. CASE cell[CurCell].claim # Planned(CurJob.id) /\ cell' = cell /\ dec' = dec
  <2>1. cell[CurCell].claim = Taken(CurJob.id)
    BY <1>7, <1>9 DEF Live
  <2>2. main'.pc \in {"lits", "wait"} /\ main'.pc \notin {"runs", "runs_wait", "finish"}
    BY <1>5
  <2> QED BY <1>1, <1>5, <1>6, <1>9, <2>1, <2>2, MainPasses
<1> QED BY <1>2, <1>8, <1>9

(* The block after the current one is planned in a cell.                   *)
LEMMA NextBlocks ==
  ASSUME IInv, main.pc \in Stage3Places, NEW n \in NextDecode
  PROVE  n[1] \in Cells /\ n[2] \in Nat
<1> USE InvParts
<1>1. CASE main.mode = "chain"
  <2>1. PICK i \in DOMAIN chain.queue :
          n = <<chain.queue[i].cell, chain.queue[i].job.id>> /\ chain.queue[i].job # NoJob
    BY <1>1 DEF NextDecode
  <2>2. chain.queue[i].cell \in Cells /\ chain.queue[i].job.id \in Nat
    BY <2>1, QueueCell
  <2> QED BY <2>1, <2>2
<1>2. CASE main.mode # "chain"
  <2>1. PICK i \in DOMAIN batch.plans :
          n = <<RingCell(batch.ring, i), batch.plans[i].job.id>> /\ batch.plans[i].job # NoJob
    BY <1>2 DEF NextDecode
  <2>2. main.mode = "batch"
    <3>1. main.pc \notin {"driver", "left", "failed"} /\ main.mode \in {"none", "chain", "batch"}
      BY StagePlaces DEF TypeInv, MainSet
    <3> QED BY <3>1, <1>2 DEF ModeInv
  <2>3. batch.plans[i].job.id \in Nat
    BY <2>1, <2>2, BatchJob
  <2>4. i \in Nat \ {0} /\ Len(batch.plans) # 0
    BY <2>1 DEF TypeInv, BatchSet
  <2>5. Len(batch.ring) # 0
    <3>1. main.pc \notin {"plan", "ring"}
      BY StagePlaces
    <3> QED BY <3>1, <2>2, <2>4 DEF BatchInv
  <2>6. RingCell(batch.ring, i) \in Cells
    BY <2>4, <2>5, BatchCell
  <2> QED BY <2>1, <2>3, <2>6
<1> QED BY <1>1, <1>2

(* The executing thread waits for its block, and may decode the next.      *)
LEMMA WaitStartableStep ==
  ASSUME IInv, WaitStartable
  PROVE  IInv'
<1> USE InvParts
<1>1. /\ main.pc = "wait" /\ dec[Main] = NoDecode
      /\ Kept /\ tasks' = tasks /\ worker' = worker
  BY Zenon DEF WaitStartable, Kept, UnchangedByStage3
<1>2. \/ main' = [main EXCEPT !.pc = "exec"] /\ cell' = cell /\ dec' = dec
      \/ (\E n \in NextDecode : TakeBlock(Main, n[1], n[2])) /\ main' = main
  BY Zenon DEF WaitStartable
<1>3. main \in MainSet /\ worker \in [Workers -> TaskSet] /\ tasks \in Seq(TaskSet)
  BY DEF TypeInv
<1>4. "wait" \in Stage3Places /\ "exec" \in Stage3Places /\ "exec" \in Places
  BY DEF Stage3Places, Places
<1>5. main.pc \in Stage3Places
  BY <1>1, <1>4
<1>6. CASE main' = [main EXCEPT !.pc = "exec"] /\ cell' = cell /\ dec' = dec
  <2>1. main' \in MainSet /\ main'.pc = "exec" /\ Control(main, main')
    BY <1>3, <1>4, <1>6, MovesOn
  <2>2. main.pc # "take"
    BY <1>1
  <2>3. cell[CurCell].claim = Taken(CurJob.id)
    BY <1>5, <2>2, CurTaken
  <2>4. main'.pc \in Stage3Places /\ main'.pc \notin {"runs", "runs_wait", "finish"}
    BY <2>1, <1>4
  <2> QED BY <1>1, <1>5, <1>6, <2>1, <2>3, <2>4, MainPasses
<1>7. CASE (\E n \in NextDecode : TakeBlock(Main, n[1], n[2])) /\ main' = main
  <2>1. PICK n \in NextDecode : TakeBlock(Main, n[1], n[2])
    BY <1>7
  <2> DEFINE c == n[1]
             t == n[2]
  <2>2. c \in Cells /\ t \in Nat /\ TakeBlock(Main, c, t)
    BY <1>5, <2>1, NextBlocks
  <2> HIDE DEF c, t
  <2>3. Main \in Threads /\ Main \notin Workers
    BY MainApart
  <2>4. /\ \A k \in DOMAIN tasks' : \E i \in DOMAIN tasks : tasks'[k] = tasks[i]
        /\ \A i \in DOMAIN tasks : \E k \in DOMAIN tasks' : tasks'[k] = tasks[i]
    BY <1>1
  <2>5. \A w \in Workers : w # Main => worker'[w] = worker[w]
    BY <1>1
  <2>6. /\ main' \in MainSet /\ main.pc # "take" /\ main'.pc \in {"lits", "wait"}
        /\ Control(main, main')
    BY <1>1, <1>3, <1>7 DEF Control
  <2>7. worker' \in [Workers -> TaskSet] /\ tasks' \in Seq(TaskSet)
    BY <1>1, <1>3
  <2> HIDE DEF Main
  <2> QED BY <1>1, <1>5, <2>2, <2>3, <2>4, <2>5, <2>6, <2>7, TakesInto
<1> QED BY <1>2, <1>6, <1>7

-----------------------------------------------------------------------------
(* Names given later: what was known of the tables stays so.               *)

Extends(N, H, G) == \A i \in 0 .. N - 1 : G[i] = H[i]

(* A job still finds its tables.                                           *)
LEMMA JobLater ==
  ASSUME NEW N \in Nat, NEW M \in Nat, N <= M, NEW H, NEW F, NEW G, NEW E,
         Extends(N, H, G), Extends(N, F, E), NEW j, JobOk(N, H, F, j)
  PROVE  /\ JobOk(M, G, E, j)
         /\ j.huf_def # NoId => G[j.huf_def] = H[j.huf_def]
         /\ j.fse_def # NoId => E[j.fse_def] = F[j.fse_def]
<1>1. ASSUME NEW T, NEW U, Extends(N, T, U), NEW d, NEW id, NEW def, NEW sid, NEW init,
             UsesTable(N, T, d, id, def, sid, init)
      PROVE  UsesTable(M, U, d, id, def, sid, init) /\ (d # NoId => U[d] = T[d])
  <2>1. d # NoId => d \in 0 .. N - 1 /\ U[d] = T[d]
    BY <1>1 DEF UsesTable, Extends
  <2>2. d \in 0 .. N - 1 => d \in 0 .. M - 1
    OBVIOUS
  <2> QED BY <1>1, <2>1, <2>2 DEF UsesTable
<1>2. j.id \in 1 .. M - 1 /\ G[j.id] = H[j.id] /\ E[j.id] = F[j.id]
  BY DEF JobOk, Extends
<1>3. /\ UsesTable(N, H, j.huf_def, j.id, j.defs.huf, j.start.id, j.start.init.huf)
      /\ UsesTable(N, F, j.fse_def, j.id, j.defs.fse, j.start.id, j.start.init.fse)
  BY DEF JobOk
<1>4. /\ UsesTable(M, G, j.huf_def, j.id, j.defs.huf, j.start.id, j.start.init.huf)
      /\ UsesTable(M, E, j.fse_def, j.id, j.defs.fse, j.start.id, j.start.init.fse)
      /\ j.huf_def # NoId => G[j.huf_def] = H[j.huf_def]
      /\ j.fse_def # NoId => E[j.fse_def] = F[j.fse_def]
  BY <1>1, <1>3
<1> QED BY <1>2, <1>4 DEF JobOk

(* A cell still holds what it is tagged with.                              *)
LEMMA CellLater ==
  ASSUME NEW N \in Nat, NEW M \in Nat, N <= M, NEW H, NEW F, NEW G, NEW E,
         Extends(N, H, G), Extends(N, F, E), NEW c, CellOk(N, H, F, c)
  PROVE  CellOk(M, G, E, c)
<1>1. ASSUME NEW T, NEW U, Extends(N, T, U), NEW from, NEW table, TagOk(N, T, from, table)
      PROVE  TagOk(M, U, from, table)
  BY <1>1 DEF TagOk, Extends
<1>2. Len(c.seqs) = 2 /\ TagOk(M, G, c.huf_from, c.huf) /\ TagOk(M, E, c.fse_from, c.fse)
  BY <1>1 DEF CellOk
<1>3. ASSUME c.job # NoJob
      PROVE  /\ JobOk(M, G, E, c.job) /\ LitsOk(G, c) /\ RunsOk(E, c)
             /\ c.done = c.job.id => SeqsDone(c)
  <2>1. JobOk(N, H, F, c.job) /\ LitsOk(H, c) /\ RunsOk(F, c) /\ (c.done = c.job.id => SeqsDone(c))
    BY <1>3 DEF CellOk
  <2>2. /\ JobOk(M, G, E, c.job)
        /\ c.job.huf_def # NoId => G[c.job.huf_def] = H[c.job.huf_def]
        /\ c.job.fse_def # NoId => E[c.job.fse_def] = F[c.job.fse_def]
    BY <2>1, JobLater
  <2>3. LitsOk(G, c)
    <3>1. LitsOf(G, c.job) = LitsOf(H, c.job)
      BY <2>2 DEF LitsOf
    <3> QED BY <2>1, <3>1 DEF LitsOk
  <2>4. RunsOk(E, c)
    <3>1. HasSeqs(c.job.blk) => c.job.fse_def # NoId
      BY <2>1 DEF HasSeqs, JobOk
    <3>2. HasSeqs(c.job.blk) =>
            SeqsOf(E, c.job, 1) = SeqsOf(F, c.job, 1) /\ SeqsOf(E, c.job, 2) = SeqsOf(F, c.job, 2)
      BY <2>2, <3>1 DEF SeqsOf
    <3>3. c.progress = 2 => c.progress # 0
      OBVIOUS
    <3> QED BY <2>1, <3>2, <3>3 DEF RunsOk
  <2> QED BY <2>1, <2>2, <2>3, <2>4
<1> QED BY <1>2, <1>3 DEF CellOk

(* The tables in use, still.                                               *)
LEMMA DefsLater ==
  ASSUME NEW N \in Nat, NEW M \in Nat, N <= M, NEW H, NEW F, NEW G, NEW E,
         Extends(N, H, G), Extends(N, F, E), NEW defs, NEW blocks, NEW start, NEW s,
         DefsOk(N, H, F, defs, blocks, start, s)
  PROVE  DefsOk(M, G, E, defs, blocks, start, s)
<1>1. ASSUME NEW T, NEW U, Extends(N, T, U), NEW d, NEW tok, NEW sid, NEW init, NEW val,
             InUse(N, T, d, tok, sid, init, val)
      PROVE  InUse(M, U, d, tok, sid, init, val)
  <2>1. d # NoId => d \in 0 .. N - 1 /\ U[d] = T[d]
    BY <1>1 DEF InUse, Extends
  <2>2. d \in 0 .. N - 1 => d \in 0 .. M - 1
    OBVIOUS
  <2> QED BY <1>1, <2>1, <2>2 DEF InUse
<1> QED BY <1>1 DEF DefsOk

(* A planned block's tables, still.                                        *)
LEMMA UsesLater ==
  ASSUME NEW N \in Nat, NEW M \in Nat, N <= M, NEW H, NEW F, NEW G, NEW E,
         Extends(N, H, G), Extends(N, F, E), NEW p, NEW q, NEW s,
         p.job # NoJob => p.job.blk = p.blk, UsesOk(N, H, F, p, s),
         q.blk = p.blk, q.job = p.job
  PROVE  UsesOk(M, G, E, q, s)
<1> SUFFICES ASSUME p.job # NoJob
             PROVE  /\ JobOk(M, G, E, p.job)
                    /\ p.blk.huf # "none" => G[p.job.huf_def] = HufAfter(p.blk, s)
                    /\ HasSeqs(p.blk) => E[p.job.fse_def] = FseAfter(p.blk, s)
  BY DEF UsesOk
<1>1. JobOk(N, H, F, p.job)
  BY DEF UsesOk
<1>2. /\ JobOk(M, G, E, p.job)
      /\ p.job.huf_def # NoId => G[p.job.huf_def] = H[p.job.huf_def]
      /\ p.job.fse_def # NoId => E[p.job.fse_def] = F[p.job.fse_def]
  BY <1>1, JobLater
<1>3. /\ p.blk.huf # "none" => p.job.huf_def # NoId
      /\ HasSeqs(p.blk) => p.job.fse_def # NoId
  BY <1>1 DEF JobOk, HasSeqs
<1> QED BY <1>2, <1>3 DEF UsesOk

(* The line of blocks planned, still.                                      *)
LEMMA LineLater ==
  ASSUME NEW N \in Nat, NEW M \in Nat, N <= M, NEW H, NEW F, NEW G, NEW E,
         Extends(N, H, G), Extends(N, F, E), NEW S, NEW X, NEW Y, NEW q \in Seq(X),
         NEW p \in Seq(Y), Len(p) = Len(q), \A i \in DOMAIN q : q[i].job # NoJob => q[i].job.blk = q[i].blk,
         \A i \in DOMAIN q : p[i].blk = q[i].blk /\ p[i].job = q[i].job,
         NEW r, NEW t, t.start = r.start, t.defs = r.defs, t.blocks = r.blocks,
         Line(N, H, F, S, q, r)
  PROVE  Line(M, G, E, S, p, t)
<1>1. DOMAIN p = DOMAIN q
  OBVIOUS
<1>2. t.start.id \in 0 .. M - 1
  BY DEF Line
<1>3. \A i \in DOMAIN p : S[i + 1] = SerialAfter(p[i].blk, S[i])
  BY <1>1 DEF Line
<1>4. \A i \in DOMAIN p : UsesOk(M, G, E, p[i], S[i])
  <2> SUFFICES ASSUME NEW i \in DOMAIN q PROVE UsesOk(M, G, E, p[i], S[i])
    BY <1>1
  <2>1. UsesOk(N, H, F, q[i], S[i])
    BY DEF Line
  <2> QED BY <2>1, UsesLater
<1>5. DefsOk(M, G, E, t.defs, t.blocks, t.start, S[Len(p) + 1])
  <2> DEFINE s == S[Len(q) + 1]
  <2>1. DefsOk(N, H, F, r.defs, r.blocks, r.start, s)
    BY DEF Line
  <2> HIDE DEF s
  <2>2. DefsOk(M, G, E, r.defs, r.blocks, r.start, s)
    BY <2>1, DefsLater
  <2> QED BY <2>2 DEF s
<1> QED BY <1>2, <1>3, <1>4, <1>5 DEF Line

(* No block planned.                                                       *)
LEMMA LineEmpty ==
  ASSUME NEW N \in Nat, NEW H, NEW F, NEW s \in ScratchSet, NEW r, r.start.id \in 0 .. N - 1,
         DefsOk(N, H, F, r.defs, r.blocks, r.start, s), NEW q, q = <<>>
  PROVE  /\ Line(N, H, F, [i \in 1 .. 1 |-> s], q, r)
         /\ [i \in 1 .. 1 |-> s][1] = s
<1> DEFINE S == [i \in 1 .. 1 |-> s]
<1>1. S[1] = s
  OBVIOUS
<1>2. Len(q) + 1 = 1 /\ DOMAIN q = {}
  OBVIOUS
<1>3. S \in [1 .. Len(q) + 1 -> ScratchSet]
  BY <1>2
<1> HIDE DEF S
<1>4. Line(N, H, F, S, q, r)
  BY <1>1, <1>2, <1>3 DEF Line
<1> QED BY <1>1, <1>4 DEF S

(* A start: the tables in use are its own.                                 *)
LEMMA StartLine ==
  ASSUME NEW N \in Nat, NEW G, NEW E, NEW s \in ScratchSet, G[N] = s.huf, E[N] = s.fse, NEW b
  PROVE  LET start == [id |-> N, init |-> s]
         IN DefsOk(N + 1, G, E, StartDefs(start), b, start, s)
<1> DEFINE start == [id |-> N, init |-> s]
<1>1. /\ start.id = N /\ start.init = s
      /\ StartDefs(start).huf = IF s.huf # NoTable THEN N ELSE NoId
      /\ StartDefs(start).fse = IF s.fse # NoTable THEN N ELSE NoId
  BY StartTypes
<1>2. N # NoId /\ N \in 0 .. (N + 1) - 1
  BY DEF NoId
<1> HIDE DEF start
<1>3. InUse(N + 1, G, StartDefs(start).huf, b.huf, start.id, start.init.huf, s.huf)
  BY <1>1, <1>2 DEF InUse
<1>4. InUse(N + 1, E, StartDefs(start).fse, b.fse, start.id, start.init.fse, s.fse)
  BY <1>1, <1>2 DEF InUse
<1>5. DefsOk(N + 1, G, E, StartDefs(start), b, start, s)
  BY <1>3, <1>4 DEF DefsOk
<1> QED BY <1>5 DEF start

(* The table a block describes, in use after it.                           *)
LEMMA TableOwn ==
  ASSUME NEW N \in Nat, NEW G, NEW sid \in 0 .. N - 1, NEW init, NEW new \in Nat,
         new # NoTable, G[N] = new
  PROVE  /\ InUse(N + 1, G, N, new, sid, init, new)
         /\ UsesTable(N + 1, G, N, N, NoDef, sid, init)
<1>1. NoId = -1 /\ NoTable = 0 /\ N # sid /\ N # NoId
  BY DEF NoId, NoTable
<1> QED BY <1>1 DEF InUse, UsesTable

(* The table in use before a block that describes none.                    *)
LEMMA TableStays ==
  ASSUME NEW N \in Nat, NEW M \in Nat, N <= M, NEW H, NEW G, Extends(N, H, G),
         NEW d, NEW tok, NEW sid, NEW init, NEW val,
         InUse(N, H, d, tok, sid, init, val), NEW def,
         d \notin {NoId, N, sid} => def.id = d /\ def.tok = tok
  PROVE  /\ InUse(M, G, d, tok, sid, init, val)
         /\ d # NoId => G[d] = val /\ UsesTable(M, G, d, N, def, sid, init)
<1>1. d # NoId => d \in 0 .. N - 1 /\ d \in 0 .. M - 1 /\ G[d] = val /\ H[d] = val
  BY DEF InUse, Extends
<1>2. InUse(M, G, d, tok, sid, init, val)
  BY <1>1 DEF InUse
<1>3. ASSUME d # NoId PROVE UsesTable(M, G, d, N, def, sid, init)
  <2>1. d # N
    BY <1>1, <1>3
  <2>2. d # sid => tok = G[d]
    BY <1>1, <1>3 DEF InUse
  <2>3. d = sid => init = G[d]
    BY <1>1, <1>3 DEF InUse
  <2> QED BY <2>1, <2>2, <2>3, <1>1, <1>3 DEF UsesTable
<1> QED BY <1>1, <1>2, <1>3

(* A block planned after the others.                                       *)
LEMMA LineAppend ==
  ASSUME NEW N \in Nat, NEW M \in Nat, N <= M, NEW H, NEW F, NEW G, NEW E,
         Extends(N, H, G), Extends(N, F, E), NEW S, NEW X, NEW q \in Seq(X), NEW r,
         Line(N, H, F, S, q, r), r.start \in StartSet, r.defs \in DefsSet, r.blocks \in BlocksSet,
         \A i \in DOMAIN q : q[i].job # NoJob => q[i].job.blk = q[i].blk,
         NEW b \in BlockSet, CanPlan(b, r.defs), NEW e, e \in X, e.blk = b,
         \/ b.kind = "raw" /\ e.job = NoJob
         \/ /\ M = N + 1 /\ G[N] = Tok(b) /\ E[N] = Tok(b)
            /\ e.job = Job(b, N, r.start, r.defs, r.blocks),
         NEW t, t.start = r.start,
         t.defs.huf = IF b.huf = "own" THEN N ELSE r.defs.huf,
         t.defs.fse = IF b.fse = "own" THEN N ELSE r.defs.fse,
         t.blocks.huf = IF b.huf = "own" THEN Tok(b) ELSE r.blocks.huf,
         t.blocks.fse = IF b.fse = "own" THEN Tok(b) ELSE r.blocks.fse
  PROVE  \E T : Line(M, G, E, T, Append(q, e), t) /\ \A i \in 1 .. Len(q) + 1 : T[i] = S[i]
<1> DEFINE n == Len(q)
           s == S[n + 1]
           T == [i \in 1 .. n + 2 |-> IF i = n + 2 THEN SerialAfter(b, s) ELSE S[i]]
<1>1. n \in Nat /\ DOMAIN q = 1 .. n /\ Append(q, e) \in Seq(X) /\ Len(Append(q, e)) = n + 1
      /\ \A i \in 1 .. n : Append(q, e)[i] = q[i]
  OBVIOUS
<1>2. Append(q, e)[n + 1] = e
  OBVIOUS
<1>3. S \in [1 .. n + 1 -> ScratchSet] /\ s \in ScratchSet
  BY <1>1 DEF Line
<1>4. SerialAfter(b, s) \in ScratchSet /\ SerialAfter(b, s).huf = HufAfter(b, s)
      /\ SerialAfter(b, s).fse = FseAfter(b, s)
  BY <1>3, SerialTypes
<1>5. T[n + 2] = SerialAfter(b, s) /\ \A i \in 1 .. n + 1 : T[i] = S[i]
  BY <1>1
<1>6. T \in [1 .. (n + 1) + 1 -> ScratchSet]
  BY <1>1, <1>3, <1>4
<1> HIDE DEF n, T, s
<1>7. Tok(b) \in Nat /\ Tok(b) # NoTable
      /\ b.huf \in {"none", "own", "repeat"} /\ b.fse \in {"none", "own", "repeat"}
      /\ (b.kind = "raw" => b.huf = "none" /\ b.fse = "none")
  BY TokType
<1>8. r.start.id \in 0 .. N - 1 /\ DefsOk(N, H, F, r.defs, r.blocks, r.start, s)
  BY DEF Line, n, s
<1>9. r.defs.huf \in Int /\ r.defs.fse \in Int
  BY DEF DefsSet
<1> DEFINE sid == r.start.id
<1>10. /\ b.huf = "own" => M = N + 1 /\ G[N] = Tok(b)
       /\ b.fse = "own" => M = N + 1 /\ E[N] = Tok(b)
  BY <1>7
<1>11. /\ InUse(M, G, t.defs.huf, t.blocks.huf, sid, r.start.init.huf, HufAfter(b, s))
       /\ t.defs.huf # NoId =>
             /\ G[t.defs.huf] = HufAfter(b, s)
             /\ UsesTable(M, G, t.defs.huf, N, JobDef(t.defs.huf, N, r.start, r.blocks.huf),
                          sid, r.start.init.huf)
  <2>1. InUse(N, H, r.defs.huf, r.blocks.huf, sid, r.start.init.huf, s.huf)
    BY <1>8 DEF DefsOk
  <2> DEFINE def == JobDef(t.defs.huf, N, r.start, r.blocks.huf)
  <2>2. CASE b.huf = "own"
    <3>1. /\ t.defs.huf = N /\ t.blocks.huf = Tok(b) /\ HufAfter(b, s) = Tok(b)
          /\ M = N + 1 /\ G[N] = Tok(b) /\ def = NoDef
      BY <2>2, <1>10 DEF HufAfter, JobDef
    <3> HIDE DEF def
    <3>2. /\ InUse(M, G, N, Tok(b), sid, r.start.init.huf, Tok(b))
          /\ UsesTable(M, G, N, N, NoDef, sid, r.start.init.huf)
      BY <3>1, <1>7, <1>8, TableOwn
    <3> QED BY <3>1, <3>2 DEF def
  <2>3. CASE b.huf # "own"
    <3>1. t.defs.huf = r.defs.huf /\ t.blocks.huf = r.blocks.huf /\ HufAfter(b, s) = s.huf
      BY <2>3 DEF HufAfter
    <3>2. r.defs.huf \notin {NoId, N, sid} => def.id = r.defs.huf /\ def.tok = r.blocks.huf
      BY <3>1 DEF JobDef
    <3> HIDE DEF def
    <3>3. /\ InUse(M, G, r.defs.huf, r.blocks.huf, sid, r.start.init.huf, s.huf)
          /\ r.defs.huf # NoId => /\ G[r.defs.huf] = s.huf
                                 /\ UsesTable(M, G, r.defs.huf, N, def, sid, r.start.init.huf)
      BY <2>1, <3>2, TableStays
    <3> QED BY <3>1, <3>3 DEF def
  <2> QED BY <2>2, <2>3
<1>12. /\ InUse(M, E, t.defs.fse, t.blocks.fse, sid, r.start.init.fse, FseAfter(b, s))
       /\ t.defs.fse # NoId =>
             /\ E[t.defs.fse] = FseAfter(b, s)
             /\ UsesTable(M, E, t.defs.fse, N, JobDef(t.defs.fse, N, r.start, r.blocks.fse),
                          sid, r.start.init.fse)
  <2>1. InUse(N, F, r.defs.fse, r.blocks.fse, sid, r.start.init.fse, s.fse)
    BY <1>8 DEF DefsOk
  <2> DEFINE def == JobDef(t.defs.fse, N, r.start, r.blocks.fse)
  <2>2. CASE b.fse = "own"
    <3>1. /\ t.defs.fse = N /\ t.blocks.fse = Tok(b) /\ FseAfter(b, s) = Tok(b)
          /\ M = N + 1 /\ E[N] = Tok(b) /\ def = NoDef
      BY <2>2, <1>10 DEF FseAfter, JobDef
    <3> HIDE DEF def
    <3>2. /\ InUse(M, E, N, Tok(b), sid, r.start.init.fse, Tok(b))
          /\ UsesTable(M, E, N, N, NoDef, sid, r.start.init.fse)
      BY <3>1, <1>7, <1>8, TableOwn
    <3> QED BY <3>1, <3>2 DEF def
  <2>3. CASE b.fse # "own"
    <3>1. t.defs.fse = r.defs.fse /\ t.blocks.fse = r.blocks.fse /\ FseAfter(b, s) = s.fse
      BY <2>3 DEF FseAfter
    <3>2. r.defs.fse \notin {NoId, N, sid} => def.id = r.defs.fse /\ def.tok = r.blocks.fse
      BY <3>1 DEF JobDef
    <3> HIDE DEF def
    <3>3. /\ InUse(M, E, r.defs.fse, r.blocks.fse, sid, r.start.init.fse, s.fse)
          /\ r.defs.fse # NoId => /\ E[r.defs.fse] = s.fse
                                 /\ UsesTable(M, E, r.defs.fse, N, def, sid, r.start.init.fse)
      BY <2>1, <3>2, TableStays
    <3> QED BY <3>1, <3>3 DEF def
  <2> QED BY <2>2, <2>3
<1>13. UsesOk(M, G, E, e, s)
  <2>1. CASE e.job = NoJob
    BY <2>1 DEF UsesOk
  <2>2. CASE e.job # NoJob
    <3>1. /\ M = N + 1 /\ G[N] = Tok(b) /\ E[N] = Tok(b)
          /\ e.job = Job(b, N, r.start, r.defs, r.blocks)
      BY <2>2
    <3>2. /\ e.job.blk = b /\ e.job.id = N /\ e.job.start = r.start
          /\ e.job.huf_def = IF b.huf = "none" THEN NoId ELSE DefsAfter(b, N, r.defs).huf
          /\ e.job.fse_def = IF HasSeqs(b) THEN DefsAfter(b, N, r.defs).fse ELSE NoId
          /\ e.job.defs.huf = JobDef(e.job.huf_def, N, r.start, r.blocks.huf)
          /\ e.job.defs.fse = JobDef(e.job.fse_def, N, r.start, r.blocks.fse)
      BY <3>1, JobTypes
    <3>3. /\ DefsAfter(b, N, r.defs).huf = t.defs.huf /\ DefsAfter(b, N, r.defs).fse = t.defs.fse
      BY DEF DefsAfter
    <3>4. /\ b.huf # "none" => t.defs.huf # NoId
          /\ b.fse # "none" => t.defs.fse # NoId
      BY <1>7 DEF CanPlan, NoId
    <3>5. /\ e.job.huf_def = NoId <=> b.huf = "none"
          /\ e.job.fse_def = NoId <=> b.fse = "none"
          /\ b.huf # "none" => e.job.huf_def = t.defs.huf
          /\ b.fse # "none" => e.job.fse_def = t.defs.fse
      BY <3>2, <3>3, <3>4 DEF HasSeqs
    <3>6. N \in 1 .. M - 1
      BY <1>8, <3>1
    <3>7. /\ UsesTable(M, G, e.job.huf_def, N, e.job.defs.huf, sid, r.start.init.huf)
          /\ b.huf # "none" => G[e.job.huf_def] = HufAfter(b, s)
      <4>1. CASE b.huf = "none"
        BY <4>1, <3>5 DEF UsesTable
      <4>2. CASE b.huf # "none"
        <5>1. e.job.huf_def = t.defs.huf /\ t.defs.huf # NoId
          BY <4>2, <3>4, <3>5
        <5> QED BY <5>1, <3>2, <1>11
      <4> QED BY <4>1, <4>2
    <3>8. /\ UsesTable(M, E, e.job.fse_def, N, e.job.defs.fse, sid, r.start.init.fse)
          /\ b.fse # "none" => E[e.job.fse_def] = FseAfter(b, s)
      <4>1. CASE b.fse = "none"
        BY <4>1, <3>5 DEF UsesTable
      <4>2. CASE b.fse # "none"
        <5>1. e.job.fse_def = t.defs.fse /\ t.defs.fse # NoId
          BY <4>2, <3>4, <3>5
        <5> QED BY <5>1, <3>2, <1>12
      <4> QED BY <4>1, <4>2
    <3>9. JobOk(M, G, E, e.job)
      BY <3>1, <3>2, <3>5, <3>6, <3>7, <3>8 DEF JobOk
    <3> QED BY <3>7, <3>8, <3>9 DEF UsesOk, HasSeqs
  <2> QED BY <2>1, <2>2
<1>14. DefsOk(M, G, E, t.defs, t.blocks, t.start, SerialAfter(b, s))
  BY <1>4, <1>11, <1>12 DEF DefsOk
<1>15. \A i \in 1 .. n : /\ T[i + 1] = SerialAfter(q[i].blk, T[i])
                         /\ UsesOk(M, G, E, q[i], T[i])
  <2> SUFFICES ASSUME NEW i \in 1 .. n
               PROVE  T[i + 1] = SerialAfter(q[i].blk, T[i]) /\ UsesOk(M, G, E, q[i], T[i])
    OBVIOUS
  <2>1. T[i] = S[i] /\ T[i + 1] = S[i + 1] /\ i \in DOMAIN q
    BY <1>1, <1>5
  <2>2. S[i + 1] = SerialAfter(q[i].blk, S[i]) /\ UsesOk(N, H, F, q[i], S[i])
    BY <2>1 DEF Line
  <2>3. UsesOk(M, G, E, q[i], S[i])
    BY <2>1, <2>2, UsesLater
  <2> QED BY <2>1, <2>2, <2>3
<1>16. /\ T[n + 1] = s
       /\ T[(n + 1) + 1] = SerialAfter(b, s)
  <2>1. (n + 1) + 1 = n + 2 /\ n + 1 \in 1 .. n + 1
    BY <1>1
  <2> QED BY <2>1, <1>5 DEF s
<1> DEFINE p == Append(q, e)
<1>17. p \in Seq(X) /\ Len(p) = n + 1 /\ (\A i \in 1 .. n : p[i] = q[i]) /\ p[n + 1] = e
  BY <1>1, <1>2
<1> HIDE DEF p
<1>18. \A i \in DOMAIN p : /\ T[i + 1] = SerialAfter(p[i].blk, T[i])
                           /\ UsesOk(M, G, E, p[i], T[i])
  <2> SUFFICES ASSUME NEW i \in DOMAIN p
               PROVE  T[i + 1] = SerialAfter(p[i].blk, T[i]) /\ UsesOk(M, G, E, p[i], T[i])
    OBVIOUS
  <2>1. i \in 1 .. n + 1
    BY <1>17
  <2>2. CASE i \in 1 .. n
    BY <2>2, <1>15, <1>17
  <2>3. CASE i = n + 1
    BY <2>3, <1>13, <1>16, <1>17
  <2> QED BY <2>1, <2>2, <2>3, <1>1
<1>19. t.start.id \in 0 .. M - 1
  BY <1>8
<1>20. Line(M, G, E, T, p, t)
  BY <1>6, <1>14, <1>16, <1>17, <1>18, <1>19 DEF Line
<1> QED BY <1>5, <1>20 DEF p, n

(* The first block planned is executed.                                    *)
LEMMA LineTail ==
  ASSUME NEW N, NEW H, NEW F, NEW S, NEW X, NEW q \in Seq(X), q # <<>>, NEW r,
         Line(N, H, F, S, q, r), NEW t, t.start = r.start, t.defs = r.defs, t.blocks = r.blocks
  PROVE  LET T == [i \in 1 .. Len(q) |-> S[i + 1]]
         IN Line(N, H, F, T, Tail(q), t) /\ \A i \in 1 .. Len(q) : T[i] = S[i + 1]
<1> DEFINE T == [i \in 1 .. Len(q) |-> S[i + 1]]
           p == Tail(q)
<1>1. /\ Len(q) \in Nat /\ Len(q) >= 1 /\ p \in Seq(X) /\ Len(p) = Len(q) - 1
      /\ DOMAIN q = 1 .. Len(q) /\ DOMAIN p = 1 .. Len(q) - 1
      /\ \A i \in 1 .. Len(q) - 1 : p[i] = q[i + 1]
  OBVIOUS
<1>2. \A i \in 1 .. Len(q) : T[i] = S[i + 1]
  OBVIOUS
<1>3. S \in [1 .. Len(q) + 1 -> ScratchSet]
  BY DEF Line
<1>4. T \in [1 .. Len(p) + 1 -> ScratchSet]
  <2>1. Len(p) + 1 = Len(q)
    BY <1>1
  <2>2. T \in [1 .. Len(q) -> ScratchSet]
    BY <1>1, <1>3
  <2> QED BY <2>1, <2>2
<1> HIDE DEF T, p
<1>5. \A i \in DOMAIN p : /\ T[i + 1] = SerialAfter(p[i].blk, T[i])
                          /\ UsesOk(N, H, F, p[i], T[i])
  <2> SUFFICES ASSUME NEW i \in DOMAIN p
               PROVE  T[i + 1] = SerialAfter(p[i].blk, T[i]) /\ UsesOk(N, H, F, p[i], T[i])
    OBVIOUS
  <2>1. i + 1 \in DOMAIN q /\ i \in 1 .. Len(q) /\ p[i] = q[i + 1]
    BY <1>1
  <2>2. T[i] = S[i + 1] /\ T[i + 1] = S[(i + 1) + 1]
    BY <1>1, <1>2, <2>1
  <2>3. /\ S[(i + 1) + 1] = SerialAfter(q[i + 1].blk, S[i + 1])
        /\ UsesOk(N, H, F, q[i + 1], S[i + 1])
    BY <2>1 DEF Line
  <2> QED BY <2>1, <2>2, <2>3
<1>6. DefsOk(N, H, F, t.defs, t.blocks, t.start, T[Len(p) + 1])
  <2>1. T[Len(p) + 1] = S[Len(q) + 1]
    BY <1>1, <1>2
  <2> QED BY <2>1 DEF Line
<1>7. Line(N, H, F, T, p, t)
  BY <1>4, <1>5, <1>6 DEF Line
<1> QED BY <1>2, <1>7 DEF T, p

-----------------------------------------------------------------------------
(* Steps of the executing thread alone: the cells.                         *)

\* A decode no task has started is taken, so that none will.
RetiredTo(c, n) ==
    /\ \E t \in Nat : c.claim = Planned(t) /\ n.claim = Taken(t)
    /\ n.done = c.done /\ n.job \in {c.job, NoJob}
    /\ SameSeqs(c, n) /\ SameLits(c, n)

\* What the cells are for the tables H and F, of N names given.
CellsOk(cs, N, H, F) ==
    /\ \A c \in Cells : CellOk(N, H, F, cs[c])
    /\ \A th \in Threads : dec[th] # NoDecode => DecOk(dec[th], cs[dec[th].cell])

(* Decodes are retired, or nothing happens to the cells.                   *)
LEMMA CellsRetired ==
  ASSUME IInv, dec' = dec, worker' = worker, tasks' = tasks, ncells' = ncells,
         next_id' \in Nat, next_id <= next_id', main.pc \notin {"lits", "wait"},
         \A c \in Cells : cell'[c] = cell[c] \/ RetiredTo(cell[c], cell'[c])
  PROVE  /\ DecInv' /\ TaskInv' /\ IdInv'
         /\ \A N, H, F : CellsOk(cell, N, H, F) => CellsOk(cell', N, H, F)
<1> USE InvParts
<1>1. \A th \in Threads : dec[th] # NoDecode =>
        dec[th].cell \in Cells /\ cell'[dec[th].cell] = cell[dec[th].cell]
  <2> SUFFICES ASSUME NEW th \in Threads, dec[th] # NoDecode
               PROVE  dec[th].cell \in Cells /\ cell'[dec[th].cell] = cell[dec[th].cell]
    OBVIOUS
  <2>1. /\ dec[th].cell \in Cells /\ dec[th].ticket \in Nat
        /\ cell[dec[th].cell].claim = Taken(dec[th].ticket)
    BY DecodeCell
  <2>2. \A t \in Nat : cell[dec[th].cell].claim # Planned(t)
    BY <2>1, ClaimsApart
  <2> QED BY <2>1, <2>2 DEF RetiredTo
<1>2. DecInv'
  <2>1. dec[Main] = NoDecode
    BY DEF DecInv
  <2> QED BY <1>1, <2>1, Zenon DEF DecInv
<1>3. TaskInv'
  <2>1. ASSUME NEW c \in Cells, NEW t \in Nat, cell'[c].claim = Planned(t)
        PROVE  cell'[c] = cell[c]
    <3>1. ~RetiredTo(cell[c], cell'[c])
      BY <2>1, ClaimsApart DEF RetiredTo
    <3> QED BY <3>1
  <2>2. ASSUME NEW c \in Cells, NEW t \in Nat, cell'[c].claim = Planned(t)
        PROVE  /\ cell'[c].done # t /\ cell'[c].job.id = t
               /\ \E i \in DOMAIN tasks : tasks[i].cell = c /\ tasks[i].ticket = t
    <3>1. cell'[c] = cell[c] /\ cell[c].claim = Planned(t)
      BY <2>1, <2>2
    <3> QED BY <3>1 DEF TaskInv
  <2> QED BY <2>2 DEF TaskInv
<1>4. IdInv'
  <2> SUFFICES ASSUME NEW c \in Cells
               PROVE  /\ cell'[c].done \in -1 .. next_id' - 1
                      /\ cell'[c].lit_done \in -1 .. next_id' - 1
                      /\ cell'[c].job.id \in -1 .. next_id' - 1
    BY DEF IdInv
  <2>1. /\ cell'[c].done = cell[c].done /\ cell'[c].lit_done = cell[c].lit_done
        /\ cell'[c].job.id \in {cell[c].job.id, -1}
    BY EmptyTypes DEF RetiredTo, SameLits
  <2>2. /\ cell[c].done \in -1 .. next_id - 1 /\ cell[c].lit_done \in -1 .. next_id - 1
        /\ cell[c].job.id \in -1 .. next_id - 1 /\ next_id \in Nat
    BY DEF IdInv, TypeInv
  <2> QED BY <2>1, <2>2
<1>5. ASSUME NEW N, NEW H, NEW F, \A c \in Cells : CellOk(N, H, F, cell[c])
      PROVE  \A c \in Cells : CellOk(N, H, F, cell'[c])
  <2> SUFFICES ASSUME NEW c \in Cells PROVE CellOk(N, H, F, cell'[c])
    OBVIOUS
  <2> DEFINE m == cell[c]
             n == cell'[c]
  <2>1. CellOk(N, H, F, m) /\ (n = m \/ RetiredTo(m, n))
    BY <1>5
  <2> HIDE DEF m, n
  <2>2. ASSUME RetiredTo(m, n) PROVE CellOk(N, H, F, n)
    <3>1. /\ Len(n.seqs) = 2 /\ TagOk(N, H, n.huf_from, n.huf) /\ TagOk(N, F, n.fse_from, n.fse)
      BY <2>1, <2>2 DEF RetiredTo, CellOk, SameSeqs, SameLits
    <3>2. ASSUME n.job # NoJob
          PROVE  /\ JobOk(N, H, F, n.job) /\ LitsOk(H, n) /\ RunsOk(F, n)
                 /\ n.done = n.job.id => SeqsDone(n)
      <4>1. n.job = m.job /\ n.done = m.done /\ SameSeqs(m, n) /\ SameLits(m, n)
        BY <2>2, <3>2 DEF RetiredTo
      <4>2. /\ JobOk(N, H, F, m.job) /\ LitsOk(H, m) /\ RunsOk(F, m)
            /\ m.done = m.job.id => SeqsDone(m)
        BY <2>1, <3>2, <4>1 DEF CellOk
      <4>3. LitsOk(H, n)
        BY <4>1, <4>2 DEF LitsOk, SameLits
      <4>4. RunsOk(F, n)
        BY <4>1, <4>2 DEF RunsOk, SameSeqs
      <4>5. n.done = n.job.id => SeqsDone(n)
        BY <4>1, <4>2 DEF SeqsDone, SameSeqs
      <4> QED BY <4>1, <4>2, <4>3, <4>4, <4>5
    <3> QED BY <3>1, <3>2 DEF CellOk
  <2>3. CellOk(N, H, F, n)
    BY <2>1, <2>2
  <2> QED BY <2>3 DEF n
<1>6. ASSUME NEW N, NEW H, NEW F, CellsOk(cell, N, H, F)
      PROVE  CellsOk(cell', N, H, F)
  BY <1>1, <1>5, <1>6 DEF CellsOk
<1> QED BY <1>2, <1>3, <1>4, <1>6

(* A cell taken from the free ones, or a new one, is quiet and its own.    *)
LEMMA TakenCell ==
  ASSUME IInv, main.pc \notin {"lits", "wait"}, NEW cap \in Nat, cap <= MaxCells,
         TakeCell(free, ncells, cap).cell # 0
  PROVE  LET t == TakeCell(free, ncells, cap)
         IN /\ t.cell \in Cells /\ t.cell \in 1 .. t.ncells
            /\ t.ncells \in Nat /\ ncells <= t.ncells /\ t.ncells <= MaxCells
            /\ Quiet(t.cell) /\ t.cell \notin QueueCells /\ t.cell \notin RingCells
            /\ t.free \in Seq(Nat)
            /\ \A k \in DOMAIN t.free : /\ t.free[k] \in 1 .. ncells /\ t.free[k] # t.cell
                                        /\ t.free[k] \notin QueueCells
                                        /\ t.free[k] \notin RingCells
            /\ \A j, k \in DOMAIN t.free : t.free[j] = t.free[k] => j = k
<1> USE InvParts
<1> DEFINE t == TakeCell(free, ncells, cap)
<1>1. \/ \E k \in DOMAIN free : /\ t.cell = free[k] /\ ~Held(free[k])
                                /\ t.free = SwapRemove(free, k) /\ t.ncells = ncells
      \/ /\ t.cell = ncells + 1 /\ t.free = free /\ t.ncells = ncells + 1
         /\ ncells < cap
  BY TakesCell
<1> HIDE DEF t
<1>2. ncells \in Nat /\ MaxCells \in Nat /\ free \in Seq(Nat) /\ ncells <= MaxCells
      /\ Cells = 1 .. MaxCells
  BY DepthType DEF TypeInv, TaskInv, Cells
<1>3. dec[Main] = NoDecode /\ NoDecode.cell = 0
  BY EmptyTypes DEF DecInv
<1>4. ASSUME NEW c \in Cells, ~Held(c) PROVE Quiet(c)
  <2>1. \A x \in Nat : cell[c].claim # Planned(x)
    BY <1>4 DEF TaskInv, Held
  <2>2. c # 0
    BY <1>2, <1>4
  <2>3. ASSUME NEW th \in Threads, dec[th].cell = c PROVE FALSE
    <3>1. dec[th] # NoDecode /\ th # Main
      BY <1>3, <2>2, <2>3
    <3>2. th \in Workers /\ worker[th].cell = c
      BY <3>1, <2>3 DEF DecInv, Threads
    <3> QED BY <3>2, <1>4 DEF Held
  <2> QED BY <2>1, <2>3 DEF Quiet
<1>5. /\ \A k \in DOMAIN free : /\ free[k] \in 1 .. ncells
                                /\ free[k] \notin QueueCells /\ free[k] \notin RingCells
      /\ \A j, k \in DOMAIN free : free[j] = free[k] => j = k
  BY DEF ApartInv
<1>6. ASSUME NEW k \in DOMAIN free, t.cell = free[k], ~Held(free[k]),
             t.free = SwapRemove(free, k), t.ncells = ncells
      PROVE  /\ t.cell \in Cells /\ t.cell \in 1 .. t.ncells
             /\ t.ncells \in Nat /\ ncells <= t.ncells /\ t.ncells <= MaxCells
             /\ Quiet(t.cell) /\ t.cell \notin QueueCells /\ t.cell \notin RingCells
             /\ t.free \in Seq(Nat)
             /\ \A i \in DOMAIN t.free : /\ t.free[i] \in 1 .. ncells /\ t.free[i] # t.cell
                                         /\ t.free[i] \notin QueueCells
                                         /\ t.free[i] \notin RingCells
             /\ \A i, j \in DOMAIN t.free : t.free[i] = t.free[j] => i = j
  <2>1. /\ t.free \in Seq(Nat) /\ DOMAIN t.free = 1 .. Len(free) - 1
        /\ \A i \in 1 .. Len(free) - 1 : t.free[i] = IF i = k THEN free[Len(free)] ELSE free[i]
    BY <1>2, <1>6, SwapRemoved
  <2>2. Len(free) \in Nat /\ DOMAIN free = 1 .. Len(free)
    BY <1>2
  <2>3. t.cell \in 1 .. ncells /\ t.cell \in Cells
    BY <1>2, <1>5, <1>6
  <2>4. Quiet(t.cell)
    BY <1>4, <1>6, <2>3
  <2>5. \A i \in DOMAIN t.free : \E j \in DOMAIN free :
          /\ t.free[i] = free[j] /\ j # k /\ j = IF i = k THEN Len(free) ELSE i
    BY <2>1, <2>2, <1>6
  <2>6. \A i \in DOMAIN t.free : /\ t.free[i] \in 1 .. ncells /\ t.free[i] # t.cell
                                 /\ t.free[i] \notin QueueCells /\ t.free[i] \notin RingCells
    BY <2>5, <1>5, <1>6
  <2>7. \A i, j \in DOMAIN t.free : t.free[i] = t.free[j] => i = j
    <3> SUFFICES ASSUME NEW i \in DOMAIN t.free, NEW j \in DOMAIN t.free, t.free[i] = t.free[j]
                 PROVE  i = j
      OBVIOUS
    <3>1. PICK a \in DOMAIN free : t.free[i] = free[a] /\ a = IF i = k THEN Len(free) ELSE i
      BY <2>5
    <3>2. PICK b \in DOMAIN free : t.free[j] = free[b] /\ b = IF j = k THEN Len(free) ELSE j
      BY <2>5
    <3>3. a = b
      BY <3>1, <3>2, <1>5
    <3>4. i < Len(free) /\ j < Len(free)
      BY <2>1, <2>2
    <3> QED BY <3>1, <3>2, <3>3, <3>4, <2>2
  <2>8. t.cell \notin QueueCells /\ t.cell \notin RingCells
    BY <1>5, <1>6
  <2> QED BY <1>2, <1>6, <2>1, <2>3, <2>4, <2>6, <2>7, <2>8
<1>7. ASSUME t.cell = ncells + 1, t.free = free, t.ncells = ncells + 1, ncells < cap
      PROVE  /\ t.cell \in Cells /\ t.cell \in 1 .. t.ncells
             /\ t.ncells \in Nat /\ ncells <= t.ncells /\ t.ncells <= MaxCells
             /\ Quiet(t.cell) /\ t.cell \notin QueueCells /\ t.cell \notin RingCells
             /\ t.free \in Seq(Nat)
             /\ \A i \in DOMAIN t.free : /\ t.free[i] \in 1 .. ncells /\ t.free[i] # t.cell
                                         /\ t.free[i] \notin QueueCells
                                         /\ t.free[i] \notin RingCells
             /\ \A i, j \in DOMAIN t.free : t.free[i] = t.free[j] => i = j
  <2>1. t.cell \in Cells /\ t.cell \in 1 .. t.ncells /\ t.ncells \in Nat
        /\ ncells <= t.ncells /\ t.ncells <= MaxCells
    BY <1>2, <1>7
  <2>2. t.cell \notin QueueCells /\ t.cell \notin RingCells
    <3>1. /\ \A k \in DOMAIN chain.queue : chain.queue[k].cell <= ncells
          /\ \A k \in DOMAIN batch.ring : batch.ring[k] \in 1 .. ncells
      BY DEF ApartInv
    <3>2. ~(ncells + 1 <= ncells)
      BY <1>2
    <3> QED BY <3>1, <3>2, <1>2, <1>7 DEF QueueCells, RingCells
  <2>3. ~Held(t.cell)
    <3>1. /\ \A i \in DOMAIN tasks : tasks[i].cell \in 1 .. ncells
          /\ \A w \in Workers : worker[w].cell <= ncells
      BY DEF TaskInv
    <3>2. ~(ncells + 1 <= ncells) /\ ncells + 1 \notin 1 .. ncells
      BY <1>2
    <3> QED BY <3>1, <3>2, <1>7 DEF Held
  <2>4. Quiet(t.cell)
    BY <1>4, <2>1, <2>3
  <2>5. \A k \in DOMAIN free : free[k] # t.cell
    BY <1>2, <1>5, <1>7
  <2> QED BY <1>2, <1>5, <1>7, <2>1, <2>2, <2>4, <2>5
<1>8. /\ t.cell \in Cells /\ t.cell \in 1 .. t.ncells
      /\ t.ncells \in Nat /\ ncells <= t.ncells /\ t.ncells <= MaxCells
      /\ Quiet(t.cell) /\ t.cell \notin QueueCells /\ t.cell \notin RingCells
      /\ t.free \in Seq(Nat)
      /\ \A i \in DOMAIN t.free : /\ t.free[i] \in 1 .. ncells /\ t.free[i] # t.cell
                                  /\ t.free[i] \notin QueueCells
                                  /\ t.free[i] \notin RingCells
      /\ \A i, j \in DOMAIN t.free : t.free[i] = t.free[j] => i = j
  BY <1>1, <1>6, <1>7
<1> QED BY <1>8 DEF t

(* A quiet cell is handed a block, and a task.                             *)
LEMMA HandsInto ==
  ASSUME IInv, dec' = dec, worker' = worker, main.pc \notin {"lits", "wait"},
         NEW c \in Cells, Quiet(c), NEW j \in JobSet, j.id \in Nat, NEW next \in BOOLEAN,
         ncells' \in Nat, ncells <= ncells', ncells' <= MaxCells, c \in 1 .. ncells',
         next_id' \in Nat, next_id <= next_id', j.id < next_id',
         cell[c].done # j.id, cell[c].lit_done # j.id,
         cell' = [cell EXCEPT ![c] = Hand(@, j, next)],
         tasks' = Append(tasks, [cell |-> c, ticket |-> j.id])
  PROVE  /\ cell' \in [Cells -> CellSet] /\ tasks' \in Seq(TaskSet)
         /\ DecInv' /\ TaskInv' /\ IdInv'
         /\ cell'[c].job = j /\ cell'[c].claim = Planned(j.id)
         /\ cell'[c].done = cell[c].done /\ cell'[c].lit_done = cell[c].lit_done
         /\ \A x \in Cells : x # c => cell'[x] = cell[x]
         /\ \A N, H, F : CellsOk(cell, N, H, F) /\ JobOk(N, H, F, j) => CellsOk(cell', N, H, F)
<1> USE InvParts
<1> DEFINE n == Hand(cell[c], j, next)
           task == [cell |-> c, ticket |-> j.id]
<1>1. cell \in [Cells -> CellSet] /\ cell[c] \in CellSet /\ tasks \in Seq(TaskSet)
      /\ ncells \in Nat /\ next_id \in Nat /\ MaxCells \in Nat
  BY DepthType DEF TypeInv
<1>2. /\ n \in CellSet /\ n.claim = Planned(j.id) /\ n.done = cell[c].done /\ n.job = j
      /\ n.progress = 0 /\ n.seqs = cell[c].seqs /\ n.fse_from = cell[c].fse_from
      /\ n.fse = cell[c].fse /\ SameLits(cell[c], n)
  BY <1>1, HandCell
<1>3. cell' = [cell EXCEPT ![c] = n]
  OBVIOUS
<1> HIDE DEF n
<1>4. cell' \in [Cells -> CellSet] /\ cell'[c] = n /\ \A x \in Cells : x # c => cell'[x] = cell[x]
  BY <1>1, <1>2, <1>3
<1>5. task \in TaskSet /\ task.cell = c /\ task.ticket = j.id
  BY DEF TaskSet
<1> HIDE DEF task
<1>6. tasks' = Append(tasks, task)
  BY DEF task
<1>7. /\ tasks' \in Seq(TaskSet) /\ Len(tasks') = Len(tasks) + 1
      /\ \A i \in DOMAIN tasks : i \in DOMAIN tasks' /\ tasks'[i] = tasks[i]
      /\ Len(tasks) + 1 \in DOMAIN tasks' /\ tasks'[Len(tasks) + 1] = task
      /\ \A i \in DOMAIN tasks' : i \in DOMAIN tasks \/ i = Len(tasks) + 1
  BY <1>1, <1>5, <1>6
<1>8. \A th \in Threads : dec[th] # NoDecode =>
        dec[th].cell \in Cells /\ cell'[dec[th].cell] = cell[dec[th].cell]
  BY <1>4, DecodeCell DEF Quiet
<1>9. DecInv'
  <2>1. dec[Main] = NoDecode
    BY DEF DecInv
  <2>2. \A x \in 1 .. ncells : x \in 1 .. ncells'
    BY <1>1
  <2>3. ASSUME NEW th \in Threads, dec[th] # NoDecode
        PROVE  /\ dec[th].pc # "idle"
               /\ dec[th].cell \in 1 .. ncells' /\ dec[th].ticket \in Nat
               /\ cell'[dec[th].cell].claim = Taken(dec[th].ticket)
               /\ cell'[dec[th].cell].done # dec[th].ticket
               /\ cell'[dec[th].cell].job.id = dec[th].ticket
               /\ \A u \in Threads \ {th} : dec[u].cell # dec[th].cell
    BY <2>2, <2>3, <1>8 DEF DecInv
  <2>4. \A w \in Workers : dec[w] # NoDecode => worker[w].cell = dec[w].cell
    BY DEF DecInv
  <2> QED BY <2>1, <2>3, <2>4, Zenon DEF DecInv
<1>10. TaskInv'
  <2>1. \A x \in 1 .. ncells : x \in 1 .. ncells'
    BY <1>1
  <2>2. \A i \in DOMAIN tasks' : tasks'[i].cell \in 1 .. ncells' /\ tasks'[i].ticket \in Nat
    <3> SUFFICES ASSUME NEW i \in DOMAIN tasks'
                 PROVE  tasks'[i].cell \in 1 .. ncells' /\ tasks'[i].ticket \in Nat
      OBVIOUS
    <3>1. CASE i \in DOMAIN tasks
      BY <3>1, <2>1, <1>7 DEF TaskInv
    <3>2. CASE i = Len(tasks) + 1
      BY <3>2, <1>5, <1>7
    <3> QED BY <3>1, <3>2, <1>7
  <2>3. \A w \in Workers : worker'[w].cell <= ncells'
    <3>1. \A w \in Workers : worker[w].cell \in Nat /\ worker[w].cell <= ncells
      BY DEF TypeInv, TaskInv, TaskSet
    <3> QED BY <3>1, <1>1
  <2>4. ASSUME NEW x \in Cells, NEW t \in Nat, cell'[x].claim = Planned(t)
        PROVE  /\ cell'[x].done # t /\ cell'[x].job.id = t
               /\ \E i \in DOMAIN tasks' : tasks'[i].cell = x /\ tasks'[i].ticket = t
    <3>1. CASE x = c
      <4>1. Planned(t) = Planned(j.id)
        BY <3>1, <2>4, <1>2, <1>4
      <4>2. t = j.id
        BY <4>1, ClaimsApart
      <4>3. cell'[x].done # t /\ cell'[x].job.id = t
        BY <3>1, <4>2, <1>2, <1>4
      <4> QED BY <3>1, <4>2, <4>3, <1>5, <1>7
    <3>2. CASE x # c
      <4>1. /\ cell[x].done # t /\ cell[x].job.id = t /\ cell'[x] = cell[x]
            /\ \E i \in DOMAIN tasks : tasks[i].cell = x /\ tasks[i].ticket = t
        BY <3>2, <2>4, <1>4 DEF TaskInv
      <4> QED BY <4>1, <1>7
    <3> QED BY <3>1, <3>2
  <2>5. \A x \in Cells : \A t \in Nat : cell'[x].claim = Planned(t) =>
          /\ cell'[x].done # t /\ cell'[x].job.id = t
          /\ \E i \in DOMAIN tasks' : tasks'[i].cell = x /\ tasks'[i].ticket = t
    BY <2>4, Zenon
  <2>6. ncells' <= MaxCells
    OBVIOUS
  <2> QED BY ONLY <2>2, <2>3, <2>5, <2>6 DEF TaskInv
<1>11. IdInv'
  <2> SUFFICES ASSUME NEW x \in Cells
               PROVE  /\ cell'[x].done \in -1 .. next_id' - 1
                      /\ cell'[x].lit_done \in -1 .. next_id' - 1
                      /\ cell'[x].job.id \in -1 .. next_id' - 1
    BY DEF IdInv
  <2>1. /\ cell'[x].done = cell[x].done /\ cell'[x].lit_done = cell[x].lit_done
        /\ cell'[x].job.id \in {cell[x].job.id, j.id}
    BY <1>2, <1>4 DEF SameLits
  <2>2. /\ cell[x].done \in -1 .. next_id - 1 /\ cell[x].lit_done \in -1 .. next_id - 1
        /\ cell[x].job.id \in -1 .. next_id - 1
    BY DEF IdInv
  <2>3. \A i \in -1 .. next_id - 1 : i \in -1 .. next_id' - 1
    <3>1. ASSUME NEW a \in Nat, NEW b \in Nat, a <= b
          PROVE  \A i \in -1 .. a - 1 : i \in -1 .. b - 1
      BY <3>1
    <3> QED BY <1>1, <3>1
  <2>4. j.id \in -1 .. next_id' - 1
    OBVIOUS
  <2> QED BY <2>1, <2>2, <2>3, <2>4
<1>12. ASSUME NEW N, NEW H, NEW F, CellsOk(cell, N, H, F), JobOk(N, H, F, j)
       PROVE  CellsOk(cell', N, H, F)
  <2>1. CellOk(N, H, F, cell[c])
    BY <1>12 DEF CellsOk
  <2>2. CellOk(N, H, F, n)
    <3>1. Len(n.seqs) = 2 /\ TagOk(N, H, n.huf_from, n.huf) /\ TagOk(N, F, n.fse_from, n.fse)
      BY <2>1, <1>2 DEF CellOk, SameLits
    <3>2. n.lit_done # n.job.id /\ n.done # n.job.id
      BY <1>2 DEF SameLits
    <3>3. LitsOk(H, n)
      BY <3>2 DEF LitsOk
    <3>4. RunsOk(F, n)
      BY <1>2 DEF RunsOk
    <3> QED BY <3>1, <3>2, <3>3, <3>4, <1>2, <1>12 DEF CellOk
  <2>3. \A x \in Cells : CellOk(N, H, F, cell'[x])
    BY <2>2, <1>4, <1>12 DEF CellsOk
  <2> QED BY <2>3, <1>8, <1>12 DEF CellsOk
<1>13. cell'[c].lit_done = cell[c].lit_done /\ cell'[c].done = cell[c].done
       /\ cell'[c].job = j /\ cell'[c].claim = Planned(j.id)
  BY <1>2, <1>4 DEF SameLits
<1> QED BY <1>4, <1>7, <1>9, <1>10, <1>11, <1>12, <1>13

-----------------------------------------------------------------------------
(* The initial states.                                                     *)

(* Nothing has happened.                                                   *)
LEMMA InitInv == Init => IInv
<1> SUFFICES ASSUME Init PROVE IInv
  OBVIOUS
<1> USE EmptyTypes, EmptyRuns, NewCellType
<1>1. /\ input \in Frames /\ consumed = <<>> /\ out = <<>> /\ scratch = FreshScratch
      /\ chain = NoChain /\ batch = NoBatch /\ next_id = 0 /\ calls = 0
      /\ free = <<>> /\ ncells = 0 /\ cell = [c \in Cells |-> NewCell] /\ tasks = <<>>
      /\ worker = [w \in Workers |-> NoTask] /\ dec = [th \in Threads |-> NoDecode]
      /\ main = Driver(FALSE, FALSE)
  BY DEF Init
<1>2. /\ main \in MainSet /\ main.pc = "driver" /\ main.mode = "none" /\ main.end = 0
      /\ ~main.stalled /\ ~main.broke
  BY <1>1, DriverType
<1>3. /\ \A c \in Cells : cell[c] = NewCell
      /\ \A th \in Threads : dec[th] = NoDecode
      /\ \A w \in Workers : worker[w] = NoTask
  BY <1>1
<1>4. input \in Seq(BlockSet) /\ \A p \in DOMAIN input : input[p] \in FrameBlocks
  <2>1. input \in Seq(BlockSet)
    BY <1>1, FramesAssumption
  <2>2. \A p \in DOMAIN input : input[p] \in Range(input)
    BY DEF Range
  <2> QED BY <1>1, <2>1, <2>2 DEF FrameBlocks
<1>5. TypeInv
  <2>1. cell \in [Cells -> CellSet] /\ worker \in [Workers -> TaskSet] /\ dec \in [Threads -> DecSet]
    BY <1>1
  <2>2. consumed \in Seq(BlockSet) /\ free \in Seq(Nat) /\ tasks \in Seq(TaskSet)
    BY <1>1
  <2> QED BY <1>1, <1>2, <1>4, <2>1, <2>2 DEF TypeInv
<1>6. DecInv
  <2>1. Main \in Threads /\ Workers \subseteq Threads
    BY MainApart
  <2> QED BY <1>3, <2>1 DEF DecInv
<1>7. TaskInv
  <2>1. ncells <= MaxCells /\ DOMAIN tasks = {}
    BY <1>1, DepthType
  <2>2. \A w \in Workers : worker[w].cell <= ncells
    BY <1>1, <1>3
  <2>3. ASSUME NEW c \in Cells, NEW t \in Nat, cell[c].claim = Planned(t) PROVE FALSE
    <3>1. Planned(t) = 1
      BY <1>3, <2>3
    <3> QED BY ONLY <3>1, t \in Nat DEF Planned
  <2> QED BY <2>1, <2>2, <2>3 DEF TaskInv
<1>8. IdInv
  BY <1>1, <1>3 DEF IdInv
<1>9. DOMAIN chain.queue = {} /\ DOMAIN batch.ring = {} /\ DOMAIN free = {} /\ ~chain.on
  BY <1>1
<1>10. ApartInv
  BY <1>9 DEF ApartInv
<1>11. ModeInv
  <2>1. main.end <= Len(input) /\ Len(consumed) <= Len(input)
    <3>1. Len(input) \in Nat
      BY <1>4
    <3>2. consumed = <<>> /\ main.end = 0
      BY <1>1, <1>2
    <3>3. Len(consumed) = 0
      BY <3>2
    <3> QED BY <3>1, <3>2, <3>3
  <2> QED BY <1>1, <1>2, <1>4, <1>9, <2>1 DEF ModeInv, BatchPlaces
<1>12. QueueInv
  BY <1>9 DEF QueueInv
<1>13. BatchInv /\ FreshInv
  BY <1>2 DEF BatchInv, FreshInv
<1>14. StageInv
  BY <1>2 DEF StageInv, Stage3Places
<1>15. GhostInv
  <2> DEFINE H == [i \in Nat |-> 0]
  <2>1. H \in [Nat -> Nat]
    OBVIOUS
  <2> HIDE DEF H
  <2>2. CellOk(next_id, H, H, NewCell)
    BY DEF CellOk, TagOk
  <2>3. TableInv(H, H)
    BY <1>2, <1>3, <2>2 DEF TableInv
  <2>4. QueueLine(H, H, H) /\ BatchLine(H, H, H)
    BY <1>2, <1>9 DEF QueueLine, BatchLine
  <2> QED BY <2>1, <2>3, <2>4 DEF GhostInv
<1>16. SerialInv
  <2>1. Reference.s = FreshScratch /\ Reference.out = <<>>
    BY <1>1, RunEmpty DEF Reference
  <2> QED BY <1>1, <1>2, <2>1 DEF SerialInv, OutputIsSerial, FailuresAreReal
<1> QED BY <1>5, <1>6, <1>7, <1>8, <1>10, <1>11, <1>12, <1>13, <1>14, <1>15, <1>16, Zenon
     DEF IInv, CellsInv

-----------------------------------------------------------------------------
(* Steps of the executing thread alone: what follows for every one.        *)

(* The executing thread only moves on.                                     *)
LEMMA MainMoves ==
  ASSUME IInv, Kept, tasks' = tasks, worker' = worker, dec' = dec, cell' = cell,
         main' \in MainSet, main.pc \notin {"lits", "wait"},
         main'.pc \notin Stage3Places, main'.pc # "raw",
         main'.mode = main.mode \/ main'.mode = "none",
         ModeInv', BatchInv', SerialInv'
  PROVE  IInv'
<1> USE InvParts
<1>1. TypeInv'
  BY Zenon DEF TypeInv, Kept
<1>2. next_id' = next_id /\ ncells' = ncells /\ next_id \in Nat
  BY DEF Kept, TypeInv
<1>3. DecInv' /\ TaskInv' /\ IdInv'
  BY <1>2, CellsRetired
<1>4. ApartInv'
  <2>1. chain' = chain /\ batch' = batch /\ free' = free
    BY DEF Kept
  <2>2. QueueCells' = QueueCells /\ RingCells' = RingCells
    BY <2>1 DEF QueueCells, RingCells
  <2> QED BY <1>2, <2>1, <2>2 DEF ApartInv
<1>5. QueueInv'
  BY Zenon DEF QueueInv, Live, Kept
<1>6. FreshInv'
  BY Zenon DEF FreshInv, Kept
<1>7. StageInv'
  BY Zenon DEF StageInv
<1>8. GhostInv'
  <2>1. PICK H, F \in [Nat -> Nat] :
          \E S : TableInv(H, F) /\ QueueLine(H, F, S) /\ BatchLine(H, F, S)
    BY DEF GhostInv
  <2>2. PICK S : TableInv(H, F) /\ QueueLine(H, F, S) /\ BatchLine(H, F, S)
    BY <2>1
  <2>3. QueueLine(H, F, S)' /\ BatchLine(H, F, S)'
    BY <2>2, Zenon DEF QueueLine, BatchLine, Reference, Kept
  <2>4. main'.pc \notin {"runs", "runs_wait", "finish"}
    BY DEF Stage3Places
  <2>5. TableInv(H, F)'
    BY <1>2, <2>2, <2>4, Zenon DEF TableInv
  <2> QED BY <2>3, <2>5 DEF GhostInv
<1> QED BY <1>1, <1>3, <1>4, <1>5, <1>6, <1>7, <1>8, Zenon DEF IInv, CellsInv

(* The table a new name stands for.                                        *)
LEMMA NamesTable ==
  ASSUME NEW N \in Nat, NEW H \in [Nat -> Nat], NEW v \in Nat
  PROVE  \E G \in [Nat -> Nat] : G[N] = v /\ Extends(N, H, G)
<1> DEFINE G == [H EXCEPT ![N] = v]
<1>1. G \in [Nat -> Nat] /\ G[N] = v /\ \A i \in Nat : i # N => G[i] = H[i]
  OBVIOUS
<1>2. \A i \in 0 .. N - 1 : i \in Nat /\ i # N
  OBVIOUS
<1> HIDE DEF G
<1>3. Extends(N, H, G)
  BY <1>1, <1>2 DEF Extends
<1> QED BY <1>1, <1>3

(* Nothing new is named.                                                   *)
LEMMA ExtendsSame == \A N, H : Extends(N, H, H)
BY DEF Extends

(* The cells, for tables named since.                                      *)
LEMMA CellsLater ==
  ASSUME NEW N \in Nat, NEW M \in Nat, N <= M, NEW H, NEW F, NEW G, NEW E,
         Extends(N, H, G), Extends(N, F, E), NEW cs, CellsOk(cs, N, H, F)
  PROVE  CellsOk(cs, M, G, E)
<1>1. \A c \in Cells : CellOk(N, H, F, cs[c])
  BY DEF CellsOk
<1>2. \A c \in Cells : CellOk(M, G, E, cs[c])
  BY <1>1, CellLater
<1> QED BY <1>2 DEF CellsOk

(* The tables, before and after a step of the executing thread.            *)
LEMMA TableCells ==
  ASSUME NEW H, NEW F
  PROVE  /\ TableInv(H, F) => CellsOk(cell, next_id, H, F)
         /\ (dec' = dec /\ CellsOk(cell', next_id', H, F) /\ main'.pc \notin Stage3Places) =>
              TableInv(H, F)'
<1>1. TableInv(H, F) => CellsOk(cell, next_id, H, F)
  BY Zenon DEF TableInv, CellsOk
<1>2. ASSUME dec' = dec, CellsOk(cell', next_id', H, F), main'.pc \notin Stage3Places
      PROVE  TableInv(H, F)'
  <2>1. main'.pc \notin {"runs", "runs_wait", "finish"}
    BY <1>2 DEF Stage3Places
  <2> QED BY <1>2, <2>1, Zenon DEF TableInv, CellsOk
<1> QED BY <1>1, <1>2

(* The tables the invariant speaks of.                                     *)
LEMMA GhostIs ==
  ASSUME IInv
  PROVE  \E H, F \in [Nat -> Nat] : \E S :
           CellsOk(cell, next_id, H, F) /\ TableInv(H, F) /\ QueueLine(H, F, S) /\ BatchLine(H, F, S)
<1>1. PICK H, F \in [Nat -> Nat] :
        \E S : TableInv(H, F) /\ QueueLine(H, F, S) /\ BatchLine(H, F, S)
  BY InvParts DEF GhostInv
<1> QED BY <1>1, TableCells

(* A step that ends with no batch, where no block is executed.             *)
LEMMA NoBatchAfter ==
  ASSUME main'.mode # "batch", main'.pc \notin Stage3Places, main'.pc # "raw"
  PROVE  /\ BatchInv' /\ FreshInv' /\ StageInv'
         /\ \A H, F, S : BatchLine(H, F, S)'
<1>1. BatchInv' /\ FreshInv'
  BY DEF BatchInv, FreshInv
<1>2. StageInv'
  BY Zenon DEF StageInv
<1>3. ASSUME NEW H, NEW F, NEW S PROVE BatchLine(H, F, S)'
  BY DEF BatchLine
<1> QED BY <1>1, <1>2, <1>3

(* A call of the chain's run.                                              *)
LEMMA CallDetachedStep ==
  ASSUME IInv, NEW e \in 0 .. Len(input), CallDetached(e)
  PROVE  IInv'
<1> USE InvParts
<1> DEFINE start == [id |-> next_id, init |-> scratch]
           new == [NoChain EXCEPT !.on = TRUE, !.start = start,
                                  !.hist = scratch.hist, !.defs = StartDefs(start)]
           m == [Driver(FALSE, FALSE) EXCEPT !.pc = "fill", !.mode = "chain", !.end = e]
<1>1. /\ main.pc = "driver" /\ calls' = calls + 1 /\ main' = m
      /\ input' = input /\ consumed' = consumed /\ out' = out /\ scratch' = scratch
      /\ batch' = batch /\ free' = free /\ ncells' = ncells /\ cell' = cell /\ tasks' = tasks
      /\ worker' = worker /\ dec' = dec
  BY Zenon DEF CallDetached
<1>2. \/ chain.on /\ chain' = chain /\ next_id' = next_id
      \/ ~chain.on /\ chain' = new /\ next_id' = next_id + 1
  BY Zenon DEF CallDetached
<1>3. /\ input \in Seq(BlockSet) /\ scratch \in ScratchSet /\ chain \in ChainSet
      /\ next_id \in Nat /\ calls \in Nat /\ Len(input) \in Nat
  BY DEF TypeInv
<1>4. e \in Nat /\ e <= Len(input)
  BY <1>3
<1>5. "fill" \in Places /\ "fill" \notin Stage3Places /\ "chain" \in {"chain", "batch"}
  BY DEF Places, Stage3Places
<1>6. m \in MainSet /\ m.pc = "fill" /\ m.mode = "chain" /\ m.end = e /\ ~m.broke
  BY <1>4, ChainCalled
<1> HIDE DEF m
<1>7. /\ start \in StartSet /\ start.id = next_id /\ start.init = scratch
      /\ StartDefs(start) \in DefsSet
  BY <1>3, StartTypes
<1> HIDE DEF start
<1>8. scratch.hist \in Seq(Nat)
  BY <1>3 DEF ScratchSet
<1>9. /\ new \in ChainSet /\ new.on /\ new.start = start /\ new.hist = scratch.hist
      /\ new.defs = StartDefs(start) /\ new.queue = NoChain.queue /\ new.blocks = NoChain.blocks
  <2> DEFINE hist == scratch.hist
             defs == StartDefs(start)
  <2>1. hist \in Seq(Nat) /\ defs \in DefsSet
    BY <1>7, <1>8
  <2>2. new = [NoChain EXCEPT !.on = TRUE, !.start = start, !.hist = hist, !.defs = defs]
    OBVIOUS
  <2> HIDE DEF hist, defs, new
  <2>3. /\ new \in ChainSet /\ new.on /\ new.start = start /\ new.hist = hist
        /\ new.defs = defs /\ new.queue = NoChain.queue /\ new.blocks = NoChain.blocks
    <3>1. NoChain \in ChainSet
      BY EmptyRuns
    <3> QED BY ONLY <1>7, <2>1, <2>2, <3>1 DEF ChainSet
  <2> QED BY <2>3 DEF hist, defs
<1> HIDE DEF new
<1>10. chain' \in ChainSet /\ next_id' \in Nat /\ next_id <= next_id' /\ chain'.on
       /\ chain'.queue = chain.queue
  <2>1. ~chain.on => chain.queue = <<>>
    BY EmptyRuns DEF ModeInv
  <2> QED BY <1>2, <1>3, <1>9, <2>1, EmptyRuns
<1>11. TypeInv'
  BY <1>1, <1>3, <1>6, <1>10 DEF TypeInv
<1>12. DecInv' /\ TaskInv' /\ IdInv'
  BY <1>1, <1>10, CellsRetired
<1>13. ApartInv'
  <2>1. QueueCells' = QueueCells /\ RingCells' = RingCells
    BY <1>1, <1>10 DEF QueueCells, RingCells
  <2> QED BY <1>1, <1>10, <2>1 DEF ApartInv
<1>14. ModeInv'
  <2>1. main.mode = "none" /\ batch = NoBatch /\ "fill" \notin BatchPlaces
    BY <1>1 DEF ModeInv, BatchPlaces
  <2> QED BY <1>1, <1>4, <1>6, <1>10, <2>1 DEF ModeInv
<1>15. QueueInv'
  <2> SUFFICES ASSUME NEW i \in DOMAIN chain.queue
               PROVE  LET p == chain.queue[i]
                      IN /\ PlanOk(next_id', p)
                         /\ p.cell = 0 <=> p.job = NoJob
                         /\ p.job # NoJob => Live(p.cell, p.job)
                         /\ p.seen <= calls'
                         /\ p.seen # calls'
    BY <1>1, <1>10 DEF QueueInv, Live
  <2>1. /\ PlanOk(next_id, chain.queue[i]) /\ chain.queue[i].seen <= calls
        /\ chain.queue[i].cell = 0 <=> chain.queue[i].job = NoJob
        /\ chain.queue[i].job # NoJob => Live(chain.queue[i].cell, chain.queue[i].job)
    BY DEF QueueInv
  <2>2. chain.queue[i].seen \in Nat
    BY QueueCell DEF EntrySet
  <2>3. chain.queue[i].seen <= calls' /\ chain.queue[i].seen # calls'
    BY <1>1, <1>3, <2>1, <2>2
  <2>4. PlanOk(next_id', chain.queue[i])
    BY <1>3, <1>10, <2>1 DEF PlanOk
  <2> QED BY <2>1, <2>3, <2>4
<1>16. BatchInv' /\ FreshInv' /\ StageInv' /\ \A H, F, S : BatchLine(H, F, S)'
  <2>1. main'.mode # "batch" /\ main'.pc # "raw" /\ main'.pc \notin Stage3Places
    BY <1>1, <1>5, <1>6
  <2> QED BY <2>1, NoBatchAfter
<1>17. Reference' = Reference
  BY <1>1 DEF Reference
<1>18. GhostInv'
  <2>1. PICK H, F \in [Nat -> Nat] :
          \E S : CellsOk(cell, next_id, H, F) /\ QueueLine(H, F, S)
    BY GhostIs
  <2>2. PICK S : CellsOk(cell, next_id, H, F) /\ QueueLine(H, F, S)
    BY <2>1
  <2>3. CASE chain.on /\ chain' = chain /\ next_id' = next_id
    <3>1. QueueLine(H, F, S)'
      BY <2>2, <2>3, <1>1, <1>17 DEF QueueLine
    <3>2. TableInv(H, F)'
      BY <2>2, <2>3, <1>1, <1>5, <1>6, TableCells
    <3> QED BY <3>1, <3>2, <1>16 DEF GhostInv
  <2>4. CASE ~chain.on /\ chain' = new /\ next_id' = next_id + 1
    <3>1. scratch.huf \in Nat /\ scratch.fse \in Nat
      BY <1>3 DEF ScratchSet
    <3>2. PICK G, E \in [Nat -> Nat] : /\ G[next_id] = scratch.huf /\ Extends(next_id, H, G)
                                       /\ E[next_id] = scratch.fse /\ Extends(next_id, F, E)
      BY <1>3, <3>1, NamesTable
    <3>3. CellsOk(cell, next_id', G, E)
      BY <1>3, <1>10, <2>2, <3>2, CellsLater
    <3>4. TableInv(G, E)'
      BY <3>3, <1>1, <1>5, <1>6, TableCells
    <3>5. DefsOk(next_id + 1, G, E, StartDefs(start), new.blocks, start, scratch)
      BY <1>3, <3>2, StartLine DEF start
    <3>6. DefsOk(next_id', G, E, new.defs, new.blocks, new.start, scratch)
      BY <1>9, <2>4, <3>5, Zenon
    <3>10. new.start.id \in 0 .. next_id' - 1
      <4>1. new.start.id = next_id /\ next_id' = next_id + 1 /\ next_id \in Nat
        BY <1>3, <1>7, <1>9, <2>4
      <4> QED BY ONLY <4>1
    <3>7. PICK T : Line(next_id', G, E, T, new.queue, new) /\ T[1] = scratch
      <4>1. new.queue = <<>>
        BY <1>9, EmptyRuns
      <4> QED BY <1>3, <1>10, <3>6, <3>10, <4>1, LineEmpty
    <3>8. scratch = Reference.s
      BY <1>1, <2>4 DEF SerialInv, ModeInv
    <3>9. QueueLine(G, E, T)'
      <4>1. chain'.start.init = scratch' /\ T[1] = Reference'.s /\ chain'.hist = T[1].hist
        BY <2>4, <3>7, <3>8, <1>1, <1>7, <1>9, <1>17
      <4>2. DOMAIN chain'.queue = {}
        BY <2>4, <1>9, EmptyRuns
      <4>3. Line(next_id', G, E, T, chain'.queue, chain')
        BY <2>4, <3>7
      <4> QED BY <4>1, <4>2, <4>3 DEF QueueLine
    <3> QED BY <3>2, <3>4, <3>9, <1>16 DEF GhostInv
  <2> QED BY <1>2, <2>3, <2>4
<1>19. SerialInv'
  BY <1>1, <1>6, <1>10, <1>17 DEF SerialInv, OutputIsSerial, FailuresAreReal
<1> QED BY <1>11, <1>12, <1>13, <1>14, <1>15, <1>16, <1>18, <1>19, Zenon DEF IInv, CellsInv

(* With no chain, nothing is planned in one.                               *)
LEMMA NoChainAfter ==
  ASSUME chain' = NoChain
  PROVE  QueueInv' /\ \A H, F, S : QueueLine(H, F, S)'
<1>1. ~chain'.on /\ DOMAIN chain'.queue = {}
  BY EmptyRuns
<1>2. QueueInv'
  BY <1>1 DEF QueueInv
<1>3. ASSUME NEW H, NEW F, NEW S PROVE QueueLine(H, F, S)'
  BY <1>1 DEF QueueLine
<1> QED BY <1>2, <1>3

(* A call that decodes in a scope.                                         *)
LEMMA CallScopedStep ==
  ASSUME IInv, NEW e \in 0 .. Len(input), CallScoped(e)
  PROVE  IInv'
<1> USE InvParts
<1> DEFINE start == [id |-> next_id, init |-> scratch]
           new == [NoBatch EXCEPT !.start = start, !.hist = scratch.hist,
                                  !.defs = StartDefs(start)]
           m == [Driver(FALSE, FALSE) EXCEPT !.pc = "plan", !.mode = "batch", !.end = e]
<1>1. /\ main.pc = "driver" /\ ~chain.on /\ next_id' = next_id + 1 /\ main' = m /\ batch' = new
      /\ input' = input /\ consumed' = consumed /\ out' = out /\ scratch' = scratch
      /\ chain' = chain /\ calls' = calls /\ free' = free /\ ncells' = ncells /\ cell' = cell
      /\ tasks' = tasks /\ worker' = worker /\ dec' = dec
  BY Zenon DEF CallScoped
<1>2. chain = NoChain /\ scratch = Reference.s /\ main.mode = "none" /\ batch = NoBatch
  BY <1>1 DEF ModeInv, SerialInv
<1>3. /\ input \in Seq(BlockSet) /\ scratch \in ScratchSet
      /\ next_id \in Nat /\ Len(input) \in Nat
  BY DEF TypeInv
<1>4. e \in Nat /\ e <= Len(input)
  BY <1>3
<1>5. "plan" \notin Stage3Places
  BY DEF Stage3Places
<1>6. m \in MainSet /\ m.pc = "plan" /\ m.mode = "batch" /\ m.end = e /\ ~m.broke
  BY <1>4, BatchCalled
<1> HIDE DEF m
<1>7. /\ start \in StartSet /\ start.id = next_id /\ start.init = scratch
      /\ StartDefs(start) \in DefsSet
      /\ StartDefs(start).huf \in {NoId, next_id} /\ StartDefs(start).fse \in {NoId, next_id}
  BY <1>3, StartTypes
<1> HIDE DEF start
<1>8. scratch.hist \in Seq(Nat)
  BY <1>3 DEF ScratchSet
<1>9. /\ new \in BatchSet /\ new.start = start /\ new.hist = scratch.hist
      /\ new.defs = StartDefs(start) /\ new.plans = NoBatch.plans /\ new.ring = NoBatch.ring
      /\ new.handed = NoBatch.handed /\ new.done = NoBatch.done
  <2>1. NoBatch \in BatchSet
    BY EmptyRuns
  <2> QED BY ONLY <1>7, <1>8, <2>1 DEF BatchSet
<1> HIDE DEF new
<1>10. /\ batch'.plans = <<>> /\ batch'.ring = <<>> /\ batch'.handed = 0 /\ batch'.done = 0
       /\ batch'.start = start /\ batch'.hist = scratch.hist /\ batch'.defs = StartDefs(start)
       /\ batch' \in BatchSet
  BY <1>1, <1>9, EmptyRuns
<1>11. TypeInv'
  BY <1>1, <1>3, <1>6, <1>10 DEF TypeInv
<1>12. DecInv' /\ TaskInv' /\ IdInv'
  BY <1>1, <1>3, CellsRetired
<1>13. ApartInv'
  <2>1. QueueCells' = QueueCells /\ DOMAIN batch'.ring = {}
    BY <1>1, <1>10 DEF QueueCells
  <2>2. RingCells' = {}
    BY <2>1 DEF RingCells
  <2> QED BY <1>1, <2>1, <2>2 DEF ApartInv
<1>14. ModeInv'
  <2>1. "plan" \in BatchPlaces /\ main'.pc = "plan" /\ main'.mode = "batch" /\ main'.end <= Len(input)
    BY <1>1, <1>4, <1>6 DEF BatchPlaces
  <2> QED BY <1>1, <1>2, <2>1 DEF ModeInv
<1>15. QueueInv' /\ \A H, F, S : QueueLine(H, F, S)'
  BY <1>1, <1>2, NoChainAfter
<1>16. BatchInv' /\ FreshInv'
  <2>1. main'.pc = "plan" /\ main'.pc \notin Stage3Places \union {"raw"}
    BY <1>1, <1>5, <1>6
  <2>2. DOMAIN batch'.plans = {} /\ Len(batch'.plans) = 0 /\ Len(batch'.ring) = 0
    BY <1>10
  <2>3. Len(consumed) \in Nat
    BY DEF TypeInv
  <2>4. \A j \in batch'.done + 1 .. batch'.done + Len(batch'.ring) : FALSE
    BY <1>10, <2>2
  <2> QED BY <1>1, <1>10, <2>1, <2>2, <2>3, <2>4 DEF BatchInv, FreshInv
<1>17. StageInv'
  <2>1. main'.pc \notin Stage3Places \union {"raw"}
    BY <1>1, <1>5, <1>6
  <2> QED BY <2>1, Zenon DEF StageInv
<1>18. Reference' = Reference
  BY <1>1 DEF Reference
<1>19. GhostInv'
  <2>1. PICK H, F \in [Nat -> Nat] : CellsOk(cell, next_id, H, F)
    BY GhostIs
  <2>2. scratch.huf \in Nat /\ scratch.fse \in Nat
    BY <1>3 DEF ScratchSet
  <2>3. PICK G, E \in [Nat -> Nat] : /\ G[next_id] = scratch.huf /\ Extends(next_id, H, G)
                                     /\ E[next_id] = scratch.fse /\ Extends(next_id, F, E)
    BY <1>3, <2>2, NamesTable
  <2>4. CellsOk(cell, next_id', G, E)
    <3>1. next_id' \in Nat /\ next_id <= next_id'
      BY <1>1, <1>3
    <3> QED BY <1>3, <2>1, <2>3, <3>1, CellsLater
  <2>5. TableInv(G, E)'
    <3>1. main'.pc \notin Stage3Places
      BY <1>1, <1>5, <1>6
    <3> QED BY <2>4, <3>1, <1>1, TableCells
  <2>6. DefsOk(next_id + 1, G, E, StartDefs(start), batch'.blocks, start, scratch)
    BY <1>3, <2>3, StartLine DEF start
  <2>7. DefsOk(next_id', G, E, batch'.defs, batch'.blocks, batch'.start, scratch)
    BY <1>1, <1>10, <2>6, Zenon
  <2>8. batch'.start.id \in 0 .. next_id' - 1 /\ next_id' \in Nat
    <3>1. batch'.start.id = next_id /\ next_id' = next_id + 1 /\ next_id \in Nat
      BY <1>1, <1>3, <1>7, <1>10
    <3>2. PICK N, M : N = next_id /\ M = next_id'
      OBVIOUS
    <3>3. N \in 0 .. M - 1 /\ M \in Nat
      BY ONLY <3>1, <3>2
    <3> QED BY ONLY <3>1, <3>2, <3>3
  <2>9. PICK T : Line(next_id', G, E, T, batch'.plans, batch') /\ T[1] = scratch
    BY <1>3, <1>10, <2>7, <2>8, LineEmpty
  <2>10. Named(batch'.defs.huf, batch') /\ Named(batch'.defs.fse, batch')
    BY <1>7, <1>10 DEF Named
  <2>11. DOMAIN batch'.plans = {} /\ batch'.done + 1 = 1
    BY <1>10
  <2>12. BatchLine(G, E, T)'
    <3>1. /\ batch'.start.init = scratch' /\ T[1] = scratch' /\ T[batch'.done + 1] = Reference'.s
          /\ batch'.hist = Reference'.s.hist
      BY <1>1, <1>2, <1>7, <1>10, <1>18, <2>9, <2>11
    <3>2. G[batch'.start.id] = scratch'.huf /\ E[batch'.start.id] = scratch'.fse
      BY <1>1, <1>7, <1>10, <2>3
    <3> QED BY <2>9, <2>10, <2>11, <3>1, <3>2 DEF BatchLine
  <2> QED BY <1>15, <2>5, <2>12 DEF GhostInv
<1>20. SerialInv'
  BY <1>1, <1>6, <1>18 DEF SerialInv, OutputIsSerial, FailuresAreReal
<1> QED BY <1>11, <1>12, <1>13, <1>14, <1>15, <1>16, <1>17, <1>19, <1>20, Zenon DEF IInv, CellsInv

(* The caller's next input differs in a block not decoded.                 *)
LEMMA ResubmitStep ==
  ASSUME IInv, NEW p \in DOMAIN input, Resubmit(p)
  PROVE  IInv'
<1> USE InvParts
<1>1. /\ main.pc = "driver" /\ p > Len(consumed) /\ input[p].v = 0 /\ main' = Driver(FALSE, FALSE)
      /\ consumed' = consumed /\ out' = out /\ scratch' = scratch /\ chain' = chain
      /\ batch' = batch /\ next_id' = next_id /\ calls' = calls /\ free' = free
      /\ ncells' = ncells /\ cell' = cell /\ tasks' = tasks /\ worker' = worker /\ dec' = dec
  BY Zenon DEF Resubmit
<1>2. PICK b \in Variant(input[p]) : input' = [input EXCEPT ![p] = b]
  BY DEF Resubmit
<1>3. input \in Seq(BlockSet) /\ next_id \in Nat
  BY DEF TypeInv
<1>4. b \in BlockSet /\ b.v = 1
  <2>1. input[p] \in FrameBlocks
    BY <1>1 DEF ModeInv
  <2> QED BY <1>2, <2>1, FramesAssumption
<1>5. /\ input' \in Seq(BlockSet) /\ Len(input') = Len(input) /\ DOMAIN input' = DOMAIN input
      /\ input'[p] = b /\ \A q \in DOMAIN input : q # p => input'[q] = input[q]
  BY <1>2, <1>3, <1>4
<1>6. main' \in MainSet /\ main'.pc = "driver" /\ main'.mode = "none" /\ main'.end = 0 /\ ~main'.broke
  BY <1>1, DriverType
<1>7. TypeInv'
  BY <1>1, <1>5, <1>6, Zenon DEF TypeInv
<1>8. DecInv' /\ TaskInv' /\ IdInv'
  BY <1>1, <1>3, CellsRetired
<1>9. ApartInv'
  <2>1. QueueCells' = QueueCells /\ RingCells' = RingCells
    BY <1>1 DEF QueueCells, RingCells
  <2> QED BY <1>1, <2>1 DEF ApartInv
<1>10. main.mode = "none" /\ batch = NoBatch
  BY <1>1 DEF ModeInv
<1>11. ModeInv'
  <2>1. \A q \in DOMAIN input' : input'[q].v = 0 => input'[q] \in FrameBlocks
    BY <1>4, <1>5 DEF ModeInv
  <2>2. main'.end <= Len(input') /\ Len(consumed) <= Len(input)
    BY <1>3, <1>5, <1>6 DEF ModeInv
  <2> QED BY <1>1, <1>5, <1>6, <1>10, <2>1, <2>2 DEF ModeInv, BatchPlaces
<1>12. QueueInv'
  BY <1>1, <1>6, Zenon DEF QueueInv, Live
<1>13. main'.mode # "batch" /\ main'.pc # "raw" /\ main'.pc \notin Stage3Places
  BY <1>6 DEF Stage3Places
<1>14. BatchInv' /\ FreshInv' /\ StageInv' /\ \A H, F, S : BatchLine(H, F, S)'
  BY <1>13, NoBatchAfter
<1>15. GhostInv'
  <2>1. PICK H, F \in [Nat -> Nat] :
          \E S : CellsOk(cell, next_id, H, F) /\ QueueLine(H, F, S)
    BY GhostIs
  <2>2. PICK S : CellsOk(cell, next_id, H, F) /\ QueueLine(H, F, S)
    BY <2>1
  <2>3. QueueLine(H, F, S)'
    BY <2>2, <1>1 DEF QueueLine, Reference
  <2>4. TableInv(H, F)'
    BY <2>2, <1>1, <1>13, TableCells
  <2> QED BY <2>3, <2>4, <1>14 DEF GhostInv
<1>16. SerialInv'
  BY <1>1, <1>6, <1>10 DEF SerialInv, OutputIsSerial, FailuresAreReal, Reference
<1> QED BY <1>7, <1>8, <1>9, <1>11, <1>12, <1>14, <1>15, <1>16, Zenon DEF IInv, CellsInv

(* The chain's run has planned what it can.                                *)
LEMMA FillEnds ==
  ASSUME IInv, Kept, tasks' = tasks, worker' = worker, dec' = dec, cell' = cell,
         main.pc = "fill",
         \/ main' = [main EXCEPT !.pc = "front"]
         \/ main' = [main EXCEPT !.blocked = TRUE]
  PROVE  IInv'
<1> USE InvParts
<1>1. main \in MainSet /\ "front" \in Places
  BY DEF TypeInv, Places
<1>2. main' \in MainSet /\ main'.pc \in {"fill", "front"} /\ Control(main, main')
  BY <1>1, MovesOn, MovesBlocked
<1>3. /\ input' = input /\ consumed' = consumed /\ out' = out /\ scratch' = scratch
      /\ chain' = chain /\ batch' = batch
  BY DEF Kept
<1>4. main.mode = "chain"
  BY DEF ModeInv
<1>5. ModeInv'
  BY <1>2, <1>3, <1>4 DEF ModeInv, Control, BatchPlaces
<1>6. main'.pc \notin Stage3Places /\ main'.pc # "raw" /\ main'.mode # "batch"
  BY <1>2, <1>4 DEF Stage3Places, Control
<1>7. BatchInv'
  BY <1>6, NoBatchAfter
<1>8. SerialInv'
  <2>1. chain.on /\ ~main.broke
    BY <1>4 DEF ModeInv, SerialInv
  <2> QED BY <1>2, <1>3, <2>1 DEF SerialInv, OutputIsSerial, FailuresAreReal, Reference, Control
<1> QED BY <1>2, <1>5, <1>6, <1>7, <1>8, MainMoves DEF Control

(* There is nothing more to plan.                                          *)
LEMMA FilledStep ==
  ASSUME IInv, Filled
  PROVE  IInv'
<1> USE InvParts
<1>1. /\ main.pc = "fill" /\ main' = [main EXCEPT !.pc = "front"] /\ Kept
      /\ tasks' = tasks /\ worker' = worker /\ dec' = dec /\ cell' = cell
  BY Zenon DEF Filled, Kept
<1> QED BY <1>1, FillEnds

-----------------------------------------------------------------------------
(* Giving up a chain.                                                      *)

(* The tables in use, handed back to the serial decoder.                   *)
LEMMA SyncIs ==
  ASSUME NEW N, NEW H, NEW F, NEW defs, NEW blocks, NEW start, NEW s \in ScratchSet,
         DefsOk(N, H, F, defs, blocks, start, s), start.init = scratch
  PROVE  SyncScratch(s.hist, defs, start, blocks) = s
<1>1. s = [huf |-> s.huf, fse |-> s.fse, hist |-> s.hist]
  BY DEF ScratchSet
<1>2. s.huf = IF defs.huf \in {NoId, start.id} THEN scratch.huf ELSE blocks.huf
  BY DEF DefsOk, InUse
<1>3. s.fse = IF defs.fse \in {NoId, start.id} THEN scratch.fse ELSE blocks.fse
  BY DEF DefsOk, InUse
<1> QED BY <1>1, <1>2, <1>3 DEF SyncScratch

(* Whatever the chain planned, what it hands back is the serial decoder's. *)
LEMMA HandedBackIs ==
  ASSUME IInv, main.mode # "batch", main.pc # "left"
  PROVE  HandedBack = Reference.s /\ (chain.on => chain.hist = Reference.s.hist)
         /\ Reference.s \in ScratchSet
<1> USE InvParts
<1>1. CASE ~chain.on
  <2>1. scratch \in ScratchSet
    BY DEF TypeInv
  <2> QED BY <1>1, <2>1 DEF HandedBack, SerialInv
<1>2. CASE chain.on
  <2>1. PICK H, F \in [Nat -> Nat] : \E S : QueueLine(H, F, S)
    BY GhostIs
  <2>2. PICK S : QueueLine(H, F, S)
    BY <2>1
  <2>3. /\ Line(next_id, H, F, S, chain.queue, chain) /\ chain.start.init = scratch
        /\ S[1] = Reference.s /\ chain.hist = S[1].hist
        /\ \A i \in DOMAIN chain.queue :
              DefsOk(next_id, H, F, chain.queue[i].before, chain.queue[i].blocks, chain.start,
                     S[i])
    BY <1>2, <2>2 DEF QueueLine
  <2>4. chain.queue \in Seq(EntrySet)
    BY DEF TypeInv, ChainSet
  <2>5. S[1] \in ScratchSet
    <3>1. S \in [1 .. Len(chain.queue) + 1 -> ScratchSet]
      BY <2>3 DEF Line
    <3>2. 1 \in 1 .. Len(chain.queue) + 1
      BY <2>4
    <3> QED BY <3>1, <3>2
  <2>6. CASE chain.queue = <<>>
    <3>1. Len(chain.queue) + 1 = 1
      BY <2>6
    <3>2. DefsOk(next_id, H, F, chain.defs, chain.blocks, chain.start, S[1])
      BY <2>3, <3>1 DEF Line
    <3>3. SyncScratch(S[1].hist, chain.defs, chain.start, chain.blocks) = S[1]
      BY <2>3, <2>5, <3>2, SyncIs
    <3> QED BY <1>2, <2>3, <2>5, <2>6, <3>3 DEF HandedBack
  <2>7. CASE chain.queue # <<>>
    <3>1. 1 \in DOMAIN chain.queue
      BY <2>4, <2>7
    <3>2. DefsOk(next_id, H, F, chain.queue[1].before, chain.queue[1].blocks, chain.start, S[1])
      BY <2>3, <3>1
    <3>3. SyncScratch(S[1].hist, chain.queue[1].before, chain.start, chain.queue[1].blocks) = S[1]
      BY <2>3, <2>5, <3>2, SyncIs
    <3> QED BY <1>2, <2>3, <2>5, <2>7, <3>3 DEF HandedBack
  <2> QED BY <2>6, <2>7
<1> QED BY <1>1, <1>2

(* The blocks planned are given up, and their cells free.                  *)
LEMMA GivenUp ==
  ASSUME IInv, main.mode # "batch",
         cell' = Retire(chain.queue), free' = free \o CellsOf(chain.queue),
         chain'.queue = <<>>, batch' = batch, ncells' = ncells
  PROVE  /\ cell' \in [Cells -> CellSet] /\ free' \in Seq(Nat)
         /\ \A c \in Cells : cell'[c] = cell[c] \/ RetiredTo(cell[c], cell'[c])
         /\ ApartInv'
<1> USE InvParts
<1>1. cell \in [Cells -> CellSet] /\ free \in Seq(Nat) /\ chain.queue \in Seq(EntrySet)
      /\ ncells \in Nat
  BY DEF TypeInv, ChainSet
<1>2. ASSUME NEW c \in Cells, cell'[c] # cell[c]
      PROVE  cell'[c] \in CellSet /\ RetiredTo(cell[c], cell'[c])
  <2> DEFINE n == [cell[c] EXCEPT !.claim = @ + 1, !.job = NoJob]
  <2>1. /\ cell'[c] = n
        /\ \E i \in DOMAIN chain.queue :
              chain.queue[i].cell = c /\ cell[c].claim = Planned(chain.queue[i].job.id)
    BY <1>2 DEF Retire
  <2>2. /\ n \in CellSet /\ n.claim = cell[c].claim + 1 /\ n.done = cell[c].done
        /\ n.job = NoJob /\ SameSeqs(cell[c], n) /\ SameLits(cell[c], n)
    BY <1>1, RetireCell, EmptyTypes
  <2> HIDE DEF n
  <2>3. PICK i \in DOMAIN chain.queue :
          chain.queue[i].cell = c /\ cell[c].claim = Planned(chain.queue[i].job.id)
    BY <2>1
  <2>4. c # 0
    BY DepthType DEF Cells
  <2>5. chain.queue[i].job.id \in Nat
    <3>1. chain.queue[i].job # NoJob
      BY <2>3, <2>4 DEF QueueInv
    <3> QED BY <3>1, QueueCell
  <2>6. cell[c].claim + 1 = Taken(chain.queue[i].job.id)
    BY <2>3, <2>5, ClaimsApart
  <2> QED BY <2>1, <2>2, <2>3, <2>5, <2>6 DEF RetiredTo
<1>3. cell' \in [Cells -> CellSet]
  <2>1. \A c \in Cells : cell'[c] \in CellSet
    BY <1>1, <1>2
  <2>2. cell' = [c \in Cells |-> cell'[c]]
    BY DEF Retire
  <2> QED BY <2>1, <2>2
<1> DEFINE more == CellsOf(chain.queue)
<1>4. /\ more \in Seq(Nat)
      /\ \A k \in DOMAIN more :
            \E i \in DOMAIN chain.queue : chain.queue[i].cell # 0 /\ more[k] = chain.queue[i].cell
      /\ \A j, k \in DOMAIN more : more[j] = more[k] => j = k
  <2>1. \A i, j \in DOMAIN chain.queue :
          chain.queue[i].cell = chain.queue[j].cell /\ chain.queue[i].cell # 0 => i = j
    BY DEF ApartInv
  <2> QED BY <1>1, <2>1, CellsOfIs
<1>5. free' = free \o more
  OBVIOUS
<1> HIDE DEF more
<1>6. /\ free' \in Seq(Nat) /\ Len(free') = Len(free) + Len(more)
      /\ \A k \in DOMAIN free' : \/ k \in DOMAIN free /\ free'[k] = free[k]
                                 \/ k - Len(free) \in DOMAIN more /\ free'[k] = more[k - Len(free)]
                                    /\ k \notin DOMAIN free
  BY <1>1, <1>4, <1>5
<1>7. DOMAIN batch.ring = {}
  BY EmptyRuns DEF ModeInv
<1>8. \A k \in DOMAIN more : more[k] \in QueueCells /\ more[k] \in 1 .. ncells
  BY <1>4, QueueCell DEF QueueCells
<1>9. ApartInv'
  <2>1. QueueCells' = {} /\ RingCells' = {} /\ DOMAIN chain'.queue = {} /\ DOMAIN batch'.ring = {}
    <3>1. DOMAIN chain'.queue = {} /\ DOMAIN batch'.ring = {}
      BY <1>7
    <3> QED BY <3>1 DEF QueueCells, RingCells
  <2>2. \A k \in DOMAIN free' : free'[k] \in 1 .. ncells
    BY <1>6, <1>8 DEF ApartInv
  <2>3. ASSUME NEW j \in DOMAIN free', NEW k \in DOMAIN free', free'[j] = free'[k]
        PROVE  j = k
    <3>1. CASE j \in DOMAIN free /\ k \in DOMAIN free
      <4>1. free'[j] = free[j] /\ free'[k] = free[k]
        BY <3>1, <1>6
      <4> QED BY <3>1, <4>1, <2>3 DEF ApartInv
    <3>2. CASE j \notin DOMAIN free /\ k \notin DOMAIN free
      <4>1. j - Len(free) = k - Len(free)
        BY <3>2, <2>3, <1>4, <1>6
      <4>2. j \in Int /\ k \in Int /\ Len(free) \in Int
        BY <1>1, <1>6
      <4> QED BY <4>1, <4>2
    <3>3. CASE j \in DOMAIN free /\ k \notin DOMAIN free
      <4>1. free'[j] \notin QueueCells /\ free'[k] \in QueueCells
        BY <3>3, <1>6, <1>8 DEF ApartInv
      <4> QED BY <4>1, <2>3
    <3>4. CASE j \notin DOMAIN free /\ k \in DOMAIN free
      <4>1. free'[k] \notin QueueCells /\ free'[j] \in QueueCells
        BY <3>4, <1>6, <1>8 DEF ApartInv
      <4> QED BY <4>1, <2>3
    <3> QED BY <3>1, <3>2, <3>3, <3>4
  <2> QED BY <2>1, <2>2, <2>3 DEF ApartInv
<1> QED BY <1>2, <1>3, <1>6, <1>9

(* The chain ends with the step, the executing thread between calls.       *)
LEMMA ChainEnds ==
  ASSUME IInv, main.pc \in {"driver", "failed"}, Outdate, main' \in MainSet, main'.mode = "none",
         main'.pc \in {"driver", "left", "failed"}, main'.end = 0,
         input' = input, batch' = batch, next_id' = next_id, calls' = calls,
         ncells' = ncells, tasks' = tasks, worker' = worker, dec' = dec,
         consumed' \in Seq(BlockSet), scratch' \in ScratchSet, Len(consumed') <= Len(input),
         SerialInv'
  PROVE  IInv'
<1> USE InvParts
<1>1. cell' = Retire(chain.queue) /\ free' = free \o CellsOf(chain.queue) /\ chain' = NoChain
  BY DEF Outdate
<1>2. main.mode = "none" /\ batch = NoBatch
  BY DEF ModeInv
<1>3. /\ cell' \in [Cells -> CellSet] /\ free' \in Seq(Nat) /\ ApartInv'
      /\ \A c \in Cells : cell'[c] = cell[c] \/ RetiredTo(cell[c], cell'[c])
  BY <1>1, <1>2, GivenUp, EmptyRuns
<1>4. next_id \in Nat /\ chain' \in ChainSet /\ main.pc \notin {"lits", "wait"}
  BY <1>1, EmptyRuns DEF TypeInv
<1>5. TypeInv'
  BY <1>3, <1>4, Zenon DEF TypeInv
<1>6. /\ DecInv' /\ TaskInv' /\ IdInv'
      /\ \A N, H, F : CellsOk(cell, N, H, F) => CellsOk(cell', N, H, F)
  <2>1. next_id' \in Nat /\ next_id <= next_id'
    BY <1>4
  <2> QED BY <1>3, <1>4, <2>1, CellsRetired
<1>7. QueueInv' /\ \A H, F, S : QueueLine(H, F, S)'
  BY <1>1, NoChainAfter
<1>8. main'.mode # "batch" /\ main'.pc # "raw" /\ main'.pc \notin Stage3Places
      /\ main'.pc \notin BatchPlaces /\ main'.pc # "fill"
  BY DEF Stage3Places, BatchPlaces
<1>9. BatchInv' /\ FreshInv' /\ StageInv' /\ \A H, F, S : BatchLine(H, F, S)'
  BY <1>8, NoBatchAfter
<1>10. ModeInv'
  <2>1. ~chain'.on /\ main'.end <= Len(input)
    BY <1>1, EmptyRuns DEF TypeInv
  <2> QED BY <1>1, <1>2, <1>8, <2>1 DEF ModeInv
<1>11. GhostInv'
  <2>1. PICK H, F \in [Nat -> Nat] : CellsOk(cell, next_id, H, F)
    BY GhostIs
  <2>2. TableInv(H, F)'
    BY <2>1, <1>6, <1>8, TableCells
  <2> QED BY <2>2, <1>7, <1>9 DEF GhostInv
<1> QED BY <1>3, <1>5, <1>6, <1>7, <1>9, <1>10, <1>11, Zenon DEF IInv, CellsInv

(* The decoder leaves the frame.                                           *)
LEMMA LeaveStep ==
  ASSUME IInv, Leave
  PROVE  IInv'
<1> USE InvParts
<1>1. /\ main.pc \in {"driver", "failed"} /\ Outdate /\ main' = Left
      /\ input' = input /\ consumed' = consumed /\ out' = out /\ scratch' = scratch
      /\ batch' = batch /\ next_id' = next_id /\ calls' = calls /\ ncells' = ncells
      /\ tasks' = tasks /\ worker' = worker /\ dec' = dec
  BY Zenon DEF Leave
<1>2. main' \in MainSet /\ main'.pc = "left" /\ main'.mode = "none" /\ main'.end = 0 /\ ~main'.broke
  BY <1>1, MovesLeft
<1>3. consumed \in Seq(BlockSet) /\ scratch \in ScratchSet /\ Len(consumed) <= Len(input)
  BY DEF TypeInv, ModeInv
<1>4. SerialInv'
  BY <1>1, <1>2 DEF SerialInv, OutputIsSerial, FailuresAreReal, Reference
<1> QED BY <1>1, <1>2, <1>3, <1>4, ChainEnds

(* The serial decoder takes a block.                                       *)
LEMMA SerialBlockStep ==
  ASSUME IInv, SerialBlock
  PROVE  IInv'
<1> USE InvParts
<1>1. /\ main.pc = "driver" /\ Unread /\ Outdate
      /\ input' = input /\ batch' = batch /\ next_id' = next_id /\ calls' = calls
      /\ ncells' = ncells /\ tasks' = tasks /\ worker' = worker /\ dec' = dec
  BY Zenon DEF SerialBlock
<1>2. \/ /\ SerialFails(NextBlock, HandedBack) /\ main' = Failed /\ scratch' = HandedBack
         /\ consumed' = consumed /\ out' = out
      \/ /\ out' = Append(out, SerialOutput(NextBlock, HandedBack))
         /\ consumed' = Append(consumed, NextBlock)
         /\ scratch' = SerialAfter(NextBlock, HandedBack)
         /\ main' = Left \/ main' = Driver(FALSE, FALSE)
  BY Zenon DEF SerialBlock
<1>3. main.mode = "none"
  BY <1>1 DEF ModeInv
<1>4. HandedBack = Reference.s /\ Reference.s \in ScratchSet
  BY <1>1, <1>3, HandedBackIs
<1>5. /\ consumed \in Seq(BlockSet) /\ input \in Seq(BlockSet) /\ Len(consumed) < Len(input)
      /\ NextBlock \in BlockSet
  <2>1. /\ consumed \in Seq(BlockSet) /\ input \in Seq(BlockSet) /\ Len(consumed) < Len(input)
    BY <1>1 DEF TypeInv, Unread
  <2>2. Len(consumed) + 1 \in DOMAIN input
    BY <2>1
  <2> QED BY <2>1, <2>2 DEF NextBlock
<1>6. ~chain'.on
  BY <1>1, EmptyRuns DEF Outdate
<1>7. CASE /\ SerialFails(NextBlock, HandedBack) /\ main' = Failed /\ scratch' = HandedBack
           /\ consumed' = consumed /\ out' = out
  <2>1. main' \in MainSet /\ main'.pc = "failed" /\ main'.mode = "none" /\ main'.end = 0 /\ ~main'.broke
    BY <1>7, MovesLeft
  <2>2. Reference' = Reference /\ NextBlock' = NextBlock
    BY <1>1, <1>7 DEF Reference, NextBlock
  <2>3. SerialInv'
    BY <1>1, <1>4, <1>5, <1>7, <2>1, <2>2 DEF SerialInv, OutputIsSerial, FailuresAreReal
  <2>4. Len(consumed) <= Len(input)
    BY <1>5
  <2> QED BY <1>1, <1>4, <1>5, <1>7, <2>1, <2>3, <2>4, ChainEnds
<1>8. CASE /\ out' = Append(out, SerialOutput(NextBlock, HandedBack))
           /\ consumed' = Append(consumed, NextBlock)
           /\ scratch' = SerialAfter(NextBlock, HandedBack)
           /\ main' = Left \/ main' = Driver(FALSE, FALSE)
  <2>1. /\ main' \in MainSet /\ main'.pc \in {"left", "driver"} /\ main'.mode = "none"
        /\ main'.end = 0 /\ ~main'.broke
    BY <1>8, MovesLeft, DriverType
  <2>2. /\ Reference'.s = SerialAfter(NextBlock, Reference.s)
        /\ Reference'.out = Append(Reference.out, SerialOutput(NextBlock, Reference.s))
    BY <1>5, <1>8, RunAppend DEF Reference
  <2>3. SerialInv'
    <3>1. out' = Reference'.out
      BY <1>4, <1>8, <2>2 DEF SerialInv, OutputIsSerial
    <3>2. scratch' = Reference'.s
      BY <1>4, <1>8, <2>2
    <3>3. main'.pc # "failed"
      BY <2>1
    <3> QED BY <2>1, <3>1, <3>2, <3>3 DEF SerialInv, OutputIsSerial, FailuresAreReal
  <2>4. scratch' \in ScratchSet
    BY <1>4, <1>5, <1>8, SerialTypes
  <2>5. consumed' \in Seq(BlockSet) /\ Len(consumed') <= Len(input)
    BY <1>5, <1>8
  <2> QED BY <1>1, <2>1, <2>3, <2>4, <2>5, ChainEnds
<1> QED BY <1>2, <1>7, <1>8

-----------------------------------------------------------------------------
(* Planning ahead in a chain.                                              *)

(* A sequence, one longer.                                                 *)
LEMMA OneMore ==
  ASSUME NEW X, NEW s \in Seq(X), NEW e \in X, NEW t, t = Append(s, e)
  PROVE  /\ Len(t) = Len(s) + 1 /\ t[Len(s) + 1] = e
         /\ \A i \in DOMAIN s : t[i] = s[i]
         /\ DOMAIN t = DOMAIN s \union {Len(s) + 1}
<1>1. Len(s) \in Nat /\ DOMAIN s = 1 .. Len(s)
  OBVIOUS
<1>2. Len(t) = Len(s) + 1 /\ t[Len(s) + 1] = e /\ DOMAIN t = 1 .. Len(s) + 1
  OBVIOUS
<1>3. \A i \in DOMAIN s : t[i] = s[i]
  OBVIOUS
<1>4. 1 .. Len(s) + 1 = (1 .. Len(s)) \union {Len(s) + 1}
  BY ONLY <1>1
<1> QED BY <1>1, <1>2, <1>3, <1>4

(* A block planned joins the queue.                                        *)
LEMMA QueueGrows ==
  ASSUME IInv, main' = main, main.pc = "fill", input' = input, consumed' = consumed,
         calls' = calls, next_id' \in Nat, next_id <= next_id', NEW e \in EntrySet,
         chain'.queue = Append(chain.queue, e), PlanOk(next_id', e), e.cell = 0 <=> e.job = NoJob,
         e.job # NoJob => Live(e.cell, e.job)', e.seen = calls,
         Located(Len(consumed) + Len(chain.queue) + 1),
         e.blk = input[Len(consumed) + Len(chain.queue) + 1],
         \A c \in QueueCells : cell'[c] = cell[c]
  PROVE  QueueInv'
<1> USE InvParts
<1>1. chain.queue \in Seq(EntrySet) /\ next_id \in Nat /\ consumed \in Seq(BlockSet)
      /\ input \in Seq(BlockSet) /\ main.end \in Nat
  BY DEF TypeInv, ChainSet, MainSet
<1> DEFINE n == Len(chain.queue) + 1
<1>2. /\ DOMAIN chain'.queue = 1 .. n /\ chain'.queue[n] = e /\ DOMAIN chain.queue = 1 .. n - 1
      /\ n \in Nat /\ \A i \in 1 .. n - 1 : chain'.queue[i] = chain.queue[i]
  BY <1>1
<1>3. e.job # NoJob => Live(e.cell, e.job)'
  OBVIOUS
<1>4. Len(consumed) + n <= Len(input) /\ e.blk = input[Len(consumed) + n]
  <2>1. Len(consumed) + n = Len(consumed) + Len(chain.queue) + 1 /\ Len(consumed) + n \in Nat
    BY <1>1
  <2>2. Len(consumed) + n <= main.end /\ main.end <= Len(input)
    BY <2>1 DEF Located, ModeInv
  <2> QED BY <1>1, <2>1, <2>2
<1> HIDE DEF n
<1>5. ASSUME NEW i \in DOMAIN chain'.queue, NEW p, p = chain'.queue[i]
      PROVE  /\ PlanOk(next_id', p)
             /\ p.cell = 0 <=> p.job = NoJob
             /\ p.job # NoJob => Live(p.cell, p.job)'
             /\ p.seen <= calls
             /\ p.seen = calls /\ main.mode = "chain" =>
                   /\ Len(consumed) + i <= Len(input)
                   /\ Holds(p, input[Len(consumed) + i])
  <2>1. CASE i = n
    <3>1. p = e /\ calls \in Nat
      BY <1>2, <1>5, <2>1 DEF TypeInv
    <3>2. Holds(e, input[Len(consumed) + n])
      BY <1>4 DEF Holds
    <3>3. e.seen <= calls
      BY <3>1
    <3> QED BY <1>3, <1>4, <2>1, <3>1, <3>2, <3>3
  <2>2. CASE i # n
    <3>1. i \in DOMAIN chain.queue /\ p = chain.queue[i]
      BY <1>2, <1>5, <2>2
    <3>2. /\ PlanOk(next_id, p)
          /\ p.cell = 0 <=> p.job = NoJob
          /\ p.job # NoJob => Live(p.cell, p.job)
          /\ p.seen <= calls
          /\ p.seen = calls /\ main.mode = "chain" =>
                /\ Len(consumed) + i <= Len(input)
                /\ Holds(p, input[Len(consumed) + i])
      BY <3>1, Zenon DEF QueueInv
    <3>3. PlanOk(next_id', p)
      <4>1. ASSUME p.job # NoJob PROVE p.job.id \in 1 .. next_id' - 1
        <5>1. p.job.id \in 1 .. next_id - 1
          BY <4>1, <3>2 DEF PlanOk
        <5> QED BY ONLY <5>1, <1>1, next_id' \in Nat, next_id <= next_id'
      <4> QED BY <3>2, <4>1 DEF PlanOk
    <3>4. p.job # NoJob => p.cell \in QueueCells
      BY <3>1, <3>2 DEF QueueCells
    <3>5. p.job # NoJob => cell'[p.cell] = cell[p.cell]
      BY <3>4
    <3>6. p.job # NoJob => Live(p.cell, p.job)'
      BY <3>2, <3>5 DEF Live
    <3> QED BY <3>2, <3>3, <3>6
  <2> QED BY <2>1, <2>2
<1>6. ASSUME NEW i \in DOMAIN chain'.queue
      PROVE  LET p == chain'.queue[i]
             IN /\ PlanOk(next_id', p)
                /\ p.cell = 0 <=> p.job = NoJob
                /\ p.job # NoJob => /\ cell'[p.cell].job = p.job
                                    /\ cell'[p.cell].claim \in {Planned(p.job.id), Taken(p.job.id)}
                /\ p.seen <= calls'
                /\ p.seen = calls' /\ main'.mode = "chain" =>
                      /\ Len(consumed') + i <= Len(input')
                      /\ Holds(p, input'[Len(consumed') + i])
  BY <1>5 DEF Live
<1> QED BY <1>6, Zenon DEF QueueInv, Live

(* The tables in use after it.                                             *)
LEMMA QueueLineGrows ==
  ASSUME IInv, chain.on, scratch' = scratch, consumed' = consumed, NEW H, NEW F, NEW G, NEW E,
         NEW S, QueueLine(H, F, S), next_id' \in Nat, next_id <= next_id',
         Extends(next_id, H, G), Extends(next_id, F, E), NEW e \in EntrySet,
         CanPlan(e.blk, chain.defs),
         \/ e.blk.kind = "raw" /\ e.job = NoJob
         \/ /\ next_id' = next_id + 1 /\ G[next_id] = Tok(e.blk) /\ E[next_id] = Tok(e.blk)
            /\ e.job = Job(e.blk, next_id, chain.start, chain.defs, chain.blocks),
         e.before = chain.defs, e.blocks = chain.blocks,
         chain'.queue = Append(chain.queue, e), chain'.start = chain.start,
         chain'.hist = chain.hist,
         chain'.defs.huf = IF e.blk.huf = "own" THEN next_id ELSE chain.defs.huf,
         chain'.defs.fse = IF e.blk.fse = "own" THEN next_id ELSE chain.defs.fse,
         chain'.blocks.huf = IF e.blk.huf = "own" THEN Tok(e.blk) ELSE chain.blocks.huf,
         chain'.blocks.fse = IF e.blk.fse = "own" THEN Tok(e.blk) ELSE chain.blocks.fse
  PROVE  \E T : /\ QueueLine(G, E, T)'
                /\ e.job # NoJob => JobOk(next_id', G, E, e.job)
<1> USE InvParts
<1>1. /\ chain.queue \in Seq(EntrySet) /\ next_id \in Nat /\ chain.start \in StartSet
      /\ chain.defs \in DefsSet /\ chain.blocks \in BlocksSet /\ e.blk \in BlockSet
  BY DEF TypeInv, ChainSet, EntrySet
<1>2. /\ Line(next_id, H, F, S, chain.queue, chain) /\ chain.start.init = scratch
      /\ S[1] = Reference.s /\ chain.hist = S[1].hist
      /\ \A i \in DOMAIN chain.queue :
            DefsOk(next_id, H, F, chain.queue[i].before, chain.queue[i].blocks, chain.start, S[i])
  BY DEF QueueLine
<1>3. \A i \in DOMAIN chain.queue :
        chain.queue[i].job # NoJob => chain.queue[i].job.blk = chain.queue[i].blk
  BY DEF QueueInv, PlanOk
<1>4. PICK T : /\ Line(next_id', G, E, T, Append(chain.queue, e), chain')
               /\ \A i \in 1 .. Len(chain.queue) + 1 : T[i] = S[i]
  <2>1. PICK M, t, b : M = next_id' /\ t = chain' /\ b = e.blk
    OBVIOUS
  <2>2. /\ M \in Nat /\ next_id <= M /\ CanPlan(b, chain.defs) /\ b \in BlockSet
        /\ e \in EntrySet /\ e.blk = b /\ t.start = chain.start
    BY <1>1, <2>1
  <2>3. /\ t.defs.huf = IF b.huf = "own" THEN next_id ELSE chain.defs.huf
        /\ t.defs.fse = IF b.fse = "own" THEN next_id ELSE chain.defs.fse
        /\ t.blocks.huf = IF b.huf = "own" THEN Tok(b) ELSE chain.blocks.huf
        /\ t.blocks.fse = IF b.fse = "own" THEN Tok(b) ELSE chain.blocks.fse
    BY <2>1
  <2>4. \/ b.kind = "raw" /\ e.job = NoJob
        \/ /\ M = next_id + 1 /\ G[next_id] = Tok(b) /\ E[next_id] = Tok(b)
           /\ e.job = Job(b, next_id, chain.start, chain.defs, chain.blocks)
    BY <2>1
  <2>5. Extends(next_id, H, G) /\ Extends(next_id, F, E)
    OBVIOUS
  <2>6. \E T : /\ Line(M, G, E, T, Append(chain.queue, e), t)
               /\ \A i \in 1 .. Len(chain.queue) + 1 : T[i] = S[i]
    <3> HIDE DEF Line, Extends, CanPlan, Job, Tok
    <3>1. PICK N, q, r : N = next_id /\ q = chain.queue /\ r = chain
      OBVIOUS
    <3>2. /\ N \in Nat /\ N <= M /\ q \in Seq(EntrySet) /\ Line(N, H, F, S, q, r)
          /\ r.start \in StartSet /\ r.defs \in DefsSet /\ r.blocks \in BlocksSet
          /\ \A i \in DOMAIN q : q[i].job # NoJob => q[i].job.blk = q[i].blk
          /\ CanPlan(b, r.defs) /\ t.start = r.start
          /\ Extends(N, H, G) /\ Extends(N, F, E)
      BY <1>1, <1>2, <1>3, <2>2, <2>5, <3>1
    <3>3. /\ t.defs.huf = IF b.huf = "own" THEN N ELSE r.defs.huf
          /\ t.defs.fse = IF b.fse = "own" THEN N ELSE r.defs.fse
          /\ t.blocks.huf = IF b.huf = "own" THEN Tok(b) ELSE r.blocks.huf
          /\ t.blocks.fse = IF b.fse = "own" THEN Tok(b) ELSE r.blocks.fse
      BY <2>3, <3>1
    <3>4. \/ b.kind = "raw" /\ e.job = NoJob
          \/ /\ M = N + 1 /\ G[N] = Tok(b) /\ E[N] = Tok(b)
             /\ e.job = Job(b, N, r.start, r.defs, r.blocks)
      BY <2>4, <3>1
    <3>5. \E T : Line(M, G, E, T, Append(q, e), t) /\ \A i \in 1 .. Len(q) + 1 : T[i] = S[i]
      BY ONLY <2>2, <3>2, <3>3, <3>4, LineAppend
    <3> QED BY <3>1, <3>5
  <2> QED BY <2>1, <2>6
<1> DEFINE n == Len(chain.queue) + 1
<1>5. /\ DOMAIN chain'.queue = 1 .. n /\ chain'.queue[n] = e /\ DOMAIN chain.queue = 1 .. n - 1
      /\ n \in Nat /\ n >= 1 /\ \A i \in 1 .. n - 1 : chain'.queue[i] = chain.queue[i]
  BY <1>1
<1>6. DefsOk(next_id, H, F, chain.defs, chain.blocks, chain.start, S[n])
  BY <1>2 DEF Line
<1>7. \A i \in 1 .. n : T[i] = S[i]
  BY <1>4
<1> HIDE DEF n
<1>8. ASSUME NEW i \in DOMAIN chain'.queue
      PROVE  DefsOk(next_id', G, E, chain'.queue[i].before, chain'.queue[i].blocks, chain'.start,
                    T[i])
  <2>1. DefsOk(next_id, H, F, chain'.queue[i].before, chain'.queue[i].blocks, chain.start, S[i])
    <3>1. CASE i = n
      BY <3>1, <1>5, <1>6
    <3>2. CASE i # n
      <4>1. i \in DOMAIN chain.queue /\ chain'.queue[i] = chain.queue[i]
        BY <3>2, <1>5
      <4> QED BY <4>1, <1>2
    <3> QED BY <3>1, <3>2
  <2>2. T[i] = S[i]
    BY <1>5, <1>7
  <2> QED BY <1>1, <2>1, <2>2, DefsLater
<1>9. T[1] = S[1] /\ Reference' = Reference
  <2>1. 1 \in 1 .. n
    BY <1>5
  <2> QED BY <1>7, <2>1 DEF Reference
<1>10. QueueLine(G, E, T)'
  BY <1>2, <1>4, <1>8, <1>9 DEF QueueLine
<1>11. e.job # NoJob => JobOk(next_id', G, E, e.job)
  <2>1. n \in DOMAIN Append(chain.queue, e) /\ Append(chain.queue, e)[n] = e
    BY <1>5, chain'.queue = Append(chain.queue, e)
  <2>2. UsesOk(next_id', G, E, Append(chain.queue, e)[n], T[n])
    BY <1>4, <2>1 DEF Line
  <2> QED BY <2>1, <2>2 DEF UsesOk
<1> QED BY <1>10, <1>11

(* A raw block is planned.                                                 *)
LEMMA FillRaw ==
  ASSUME IInv, main' = main, main.pc = "fill", Fillable, input' = input, consumed' = consumed,
         out' = out, scratch' = scratch, batch' = batch, calls' = calls, worker' = worker,
         dec' = dec, next_id' = next_id, free' = free, ncells' = ncells, cell' = cell,
         tasks' = tasks, NEW b, b = input[Len(consumed) + Len(chain.queue) + 1],
         b.kind = "raw", CanPlan(b, chain.defs), NEW e,
         e = [blk |-> b, job |-> NoJob, cell |-> 0, before |-> chain.defs,
              blocks |-> chain.blocks, seen |-> calls],
         chain' = [chain EXCEPT !.queue = Append(@, e)]
  PROVE  IInv'
<1> USE InvParts
<1>1. /\ chain \in ChainSet /\ next_id \in Nat /\ calls \in Nat /\ main.mode = "chain" /\ chain.on
      /\ chain.queue \in Seq(EntrySet) /\ chain.defs \in DefsSet /\ chain.blocks \in BlocksSet
      /\ input \in Seq(BlockSet) /\ consumed \in Seq(BlockSet) /\ main.end \in Nat
  BY DEF TypeInv, ChainSet, ModeInv, MainSet
<1>2. Located(Len(consumed) + Len(chain.queue) + 1)
  BY DEF Fillable
<1>3. b \in BlockSet
  <2>1. Len(consumed) + Len(chain.queue) + 1 \in DOMAIN input
    BY <1>1, <1>2 DEF Located, ModeInv
  <2> QED BY <1>1, <2>1
<1>4. /\ e \in EntrySet /\ e.blk = b /\ e.job = NoJob /\ e.cell = 0 /\ e.before = chain.defs
      /\ e.blocks = chain.blocks /\ e.seen = calls
  BY <1>1, <1>3, EmptyTypes DEF EntrySet
<1>5. /\ chain' \in ChainSet /\ chain'.queue = Append(chain.queue, e) /\ chain'.on = chain.on
      /\ chain'.start = chain.start /\ chain'.hist = chain.hist /\ chain'.defs = chain.defs
      /\ chain'.blocks = chain.blocks
  <2>1. Append(chain.queue, e) \in Seq(EntrySet)
    BY <1>1, <1>4
  <2> QED BY ONLY <1>1, <2>1, chain' = [chain EXCEPT !.queue = Append(@, e)] DEF ChainSet
<1>6. TypeInv'
  BY <1>5, Zenon DEF TypeInv
<1>7. DecInv' /\ TaskInv' /\ IdInv'
  BY <1>1, CellsRetired
<1>8. /\ Len(chain'.queue) = Len(chain.queue) + 1 /\ chain'.queue[Len(chain.queue) + 1] = e
      /\ \A i \in DOMAIN chain.queue : chain'.queue[i] = chain.queue[i]
      /\ DOMAIN chain'.queue = DOMAIN chain.queue \union {Len(chain.queue) + 1}
  BY ONLY <1>1, <1>4, <1>5, OneMore
<1>9. ApartInv'
  <2>1. QueueCells' = QueueCells
    <3>1. \A c : c \in QueueCells' <=> c \in QueueCells
      BY <1>4, <1>8 DEF QueueCells
    <3> QED BY <3>1
  <2>2. RingCells' = RingCells
    BY DEF RingCells
  <2>3. ncells \in Nat
    BY DEF TypeInv
  <2>4. \A k \in DOMAIN chain'.queue : chain'.queue[k].cell <= ncells
    BY <1>4, <1>8, <2>3 DEF ApartInv
  <2>5. \A j, k \in DOMAIN chain'.queue :
          chain'.queue[j].cell = chain'.queue[k].cell /\ chain'.queue[j].cell # 0 => j = k
    BY <1>4, <1>8 DEF ApartInv
  <2> QED BY <2>1, <2>2, <2>4, <2>5 DEF ApartInv
<1>10. ModeInv'
  BY <1>1, <1>5 DEF ModeInv
<1>11. QueueInv'
  <2>1. PlanOk(next_id', e)
    BY <1>4 DEF PlanOk
  <2>2. next_id' \in Nat /\ next_id <= next_id'
    BY <1>1
  <2> QED BY <1>2, <1>4, <1>5, <2>1, <2>2, QueueGrows
<1>12. main'.mode # "batch" /\ main'.pc \notin Stage3Places /\ main'.pc # "raw"
  BY <1>1 DEF Stage3Places
<1>13. BatchInv' /\ FreshInv' /\ StageInv' /\ \A H, F, S : BatchLine(H, F, S)'
  BY <1>12, NoBatchAfter
<1>14. GhostInv'
  <2>1. PICK H, F \in [Nat -> Nat] :
          \E S : CellsOk(cell, next_id, H, F) /\ QueueLine(H, F, S)
    BY GhostIs
  <2>2. PICK S : CellsOk(cell, next_id, H, F) /\ QueueLine(H, F, S)
    BY <2>1
  <2>3. \E T : QueueLine(H, F, T)'
    <3>1. Extends(next_id, H, H) /\ Extends(next_id, F, F)
      BY ExtendsSame
    <3>2. e.blk.huf # "own" /\ e.blk.fse # "own"
      BY <1>3, <1>4, TokType
    <3>3. next_id' \in Nat /\ next_id <= next_id'
      BY <1>1
    <3>4. /\ CanPlan(e.blk, chain.defs) /\ e.blk.kind = "raw"
          /\ scratch' = scratch /\ consumed' = consumed
      BY <1>4
    <3>5. /\ chain'.defs.huf = IF e.blk.huf = "own" THEN next_id ELSE chain.defs.huf
          /\ chain'.defs.fse = IF e.blk.fse = "own" THEN next_id ELSE chain.defs.fse
          /\ chain'.blocks.huf = IF e.blk.huf = "own" THEN Tok(e.blk) ELSE chain.blocks.huf
          /\ chain'.blocks.fse = IF e.blk.fse = "own" THEN Tok(e.blk) ELSE chain.blocks.fse
      BY <1>5, <3>2
    <3> QED BY ONLY IInv, <1>1, <1>4, <1>5, <2>2, <3>1, <3>3, <3>4, <3>5, QueueLineGrows
  <2>4. TableInv(H, F)'
    BY <2>2, <1>12, TableCells
  <2> QED BY <2>3, <2>4, <1>13 DEF GhostInv
<1>15. SerialInv'
  BY <1>1, <1>5 DEF SerialInv, OutputIsSerial, FailuresAreReal, Reference
<1> QED BY <1>6, <1>7, <1>9, <1>10, <1>11, <1>13, <1>14, <1>15, Zenon DEF IInv, CellsInv

(* A compressed block is planned, and handed to a task.                    *)
LEMMA FillHanded ==
  ASSUME IInv, main' = main, main.pc = "fill", Fillable, input' = input, consumed' = consumed,
         out' = out, scratch' = scratch, batch' = batch, calls' = calls, worker' = worker,
         dec' = dec, next_id' = next_id + 1,
         NEW b, b = input[Len(consumed) + Len(chain.queue) + 1],
         b.kind # "raw", CanPlan(b, chain.defs),
         NEW t, t = TakeCell(free, ncells, 2 * Depth), t.cell # 0,
         free' = t.free, ncells' = t.ncells,
         NEW j, j = Job(b, next_id, chain.start, chain.defs, chain.blocks), NEW e,
         e = [blk |-> b, job |-> j, cell |-> t.cell, before |-> chain.defs,
              blocks |-> chain.blocks, seen |-> calls],
         chain' = [chain EXCEPT !.queue = Append(@, e),
                                !.defs = DefsAfter(b, next_id, chain.defs),
                                !.blocks = BlocksAfter(b, chain.blocks)],
         cell' = [cell EXCEPT ![t.cell] = Hand(@, j, chain.queue = <<>>)],
         tasks' = Append(tasks, [cell |-> t.cell, ticket |-> next_id])
  PROVE  IInv'
<1> USE InvParts
<1>1. /\ chain \in ChainSet /\ next_id \in Nat /\ calls \in Nat /\ main.mode = "chain" /\ chain.on
      /\ chain.queue \in Seq(EntrySet) /\ chain.defs \in DefsSet /\ chain.blocks \in BlocksSet
      /\ chain.start \in StartSet
      /\ input \in Seq(BlockSet) /\ consumed \in Seq(BlockSet) /\ main.end \in Nat
      /\ ncells \in Nat /\ cell \in [Cells -> CellSet]
  BY DEF TypeInv, ChainSet, ModeInv, MainSet
<1>2. Located(Len(consumed) + Len(chain.queue) + 1)
  BY DEF Fillable
<1>3. b \in BlockSet
  <2>1. Len(consumed) + Len(chain.queue) + 1 \in DOMAIN input
    BY <1>1, <1>2 DEF Located, ModeInv
  <2> QED BY <1>1, <2>1
<1>4. j \in JobSet /\ j # NoJob /\ j.blk = b /\ j.id = next_id
  BY <1>1, <1>3, JobTypes
<1>5. main.pc \notin {"lits", "wait"}
  OBVIOUS
<1>6. /\ t.cell \in Cells /\ t.cell \in 1 .. t.ncells
      /\ t.ncells \in Nat /\ ncells <= t.ncells /\ t.ncells <= MaxCells
      /\ Quiet(t.cell) /\ t.cell \notin QueueCells /\ t.cell \notin RingCells
      /\ t.free \in Seq(Nat)
      /\ \A k \in DOMAIN t.free : /\ t.free[k] \in 1 .. ncells /\ t.free[k] # t.cell
                                  /\ t.free[k] \notin QueueCells /\ t.free[k] \notin RingCells
      /\ \A i, k \in DOMAIN t.free : t.free[i] = t.free[k] => i = k
  <2>1. 2 * Depth \in Nat /\ 2 * Depth <= MaxCells
    BY DepthType
  <2> QED BY <1>5, <2>1, TakenCell
<1>7. PICK c : c = t.cell
  OBVIOUS
<1>8. /\ e \in EntrySet /\ e.blk = b /\ e.job = j /\ e.cell = c /\ e.before = chain.defs
      /\ e.blocks = chain.blocks /\ e.seen = calls /\ c # 0 /\ c \in Nat
  <2>1. c \in Nat /\ c # 0
    BY <1>6, <1>7
  <2> QED BY ONLY <1>1, <1>3, <1>4, <1>7, <2>1,
             e = [blk |-> b, job |-> j, cell |-> t.cell, before |-> chain.defs,
                  blocks |-> chain.blocks, seen |-> calls] DEF EntrySet
<1>9. DefsAfter(b, next_id, chain.defs) \in DefsSet /\ BlocksAfter(b, chain.blocks) \in BlocksSet
  BY <1>1, <1>3, DefsTypes
<1>10. /\ chain' \in ChainSet /\ chain'.queue = Append(chain.queue, e) /\ chain'.on = chain.on
       /\ chain'.start = chain.start /\ chain'.hist = chain.hist
       /\ chain'.defs = DefsAfter(b, next_id, chain.defs)
       /\ chain'.blocks = BlocksAfter(b, chain.blocks)
  <2>1. Append(chain.queue, e) \in Seq(EntrySet)
    BY <1>1, <1>8
  <2> QED BY ONLY <1>1, <1>9, <2>1,
             chain' = [chain EXCEPT !.queue = Append(@, e),
                                    !.defs = DefsAfter(b, next_id, chain.defs),
                                    !.blocks = BlocksAfter(b, chain.blocks)] DEF ChainSet
<1>11. next_id' \in Nat /\ next_id <= next_id' /\ j.id < next_id' /\ j.id \in Nat
  BY <1>1, <1>4
<1>12. /\ cell' \in [Cells -> CellSet] /\ tasks' \in Seq(TaskSet)
       /\ DecInv' /\ TaskInv' /\ IdInv'
       /\ cell'[c].job = j /\ cell'[c].claim = Planned(j.id)
       /\ \A x \in Cells : x # c => cell'[x] = cell[x]
       /\ \A N, H, F : CellsOk(cell, N, H, F) /\ JobOk(N, H, F, j) => CellsOk(cell', N, H, F)
  <2>1. PICK next \in BOOLEAN : next = (chain.queue = <<>>)
    OBVIOUS
  <2>2. /\ cell' = [cell EXCEPT ![c] = Hand(@, j, next)]
        /\ tasks' = Append(tasks, [cell |-> c, ticket |-> j.id])
    BY <1>4, <1>7, <2>1
  <2>3. cell[c].done # j.id /\ cell[c].lit_done # j.id
    <3>1. cell[c].done \in -1 .. next_id - 1 /\ cell[c].lit_done \in -1 .. next_id - 1
      BY <1>6, <1>7 DEF IdInv
    <3> QED BY ONLY <3>1, <1>1, <1>4
  <2>4. c \in Cells /\ Quiet(c) /\ c \in 1 .. ncells' /\ ncells' \in Nat /\ ncells <= ncells'
        /\ ncells' <= MaxCells
    BY <1>6, <1>7
  <2>5. dec' = dec /\ worker' = worker /\ j \in JobSet
    BY <1>4
  <2> QED BY ONLY IInv, <1>5, <1>11, <2>2, <2>3, <2>4, <2>5, HandsInto
<1>13. TypeInv'
  BY <1>6, <1>10, <1>11, <1>12, Zenon DEF TypeInv
<1>14. /\ Len(chain'.queue) = Len(chain.queue) + 1 /\ chain'.queue[Len(chain.queue) + 1] = e
       /\ \A i \in DOMAIN chain.queue : chain'.queue[i] = chain.queue[i]
       /\ DOMAIN chain'.queue = DOMAIN chain.queue \union {Len(chain.queue) + 1}
  BY ONLY <1>1, <1>8, <1>10, OneMore
<1>15. ApartInv'
  <2>1. QueueCells' = QueueCells \union {c}
    <3>1. \A x : x \in QueueCells' <=> x \in QueueCells \/ x = c
      BY <1>8, <1>14 DEF QueueCells
    <3> QED BY <3>1
  <2>2. RingCells' = RingCells /\ batch'.ring = batch.ring /\ RingCells = {}
    BY <1>1, EmptyRuns DEF RingCells, ModeInv
  <2>3. \A k \in DOMAIN chain'.queue : chain'.queue[k].cell <= ncells'
    <3>1. c <= ncells' /\ ncells <= ncells' /\ ncells' \in Nat
      BY <1>6, <1>7
    <3>2. \A k \in DOMAIN chain.queue : chain.queue[k].cell <= ncells /\ chain.queue[k].cell \in Nat
      <4>1. ASSUME NEW k \in DOMAIN chain.queue PROVE chain.queue[k].cell \in Nat
        <5>1. chain.queue[k] \in EntrySet
          BY <1>1
        <5> QED BY <5>1 DEF EntrySet
      <4> QED BY <4>1 DEF ApartInv
    <3>3. \A k \in DOMAIN chain.queue : chain.queue[k].cell <= ncells'
      BY <1>1, <3>1, <3>2
    <3> QED BY <1>8, <1>14, <3>1, <3>3
  <2>4. ASSUME NEW i \in DOMAIN chain'.queue, NEW k \in DOMAIN chain'.queue,
               chain'.queue[i].cell = chain'.queue[k].cell, chain'.queue[i].cell # 0
        PROVE  i = k
    <3>1. \A x \in DOMAIN chain.queue : chain.queue[x].cell # c
      BY <1>6, <1>7, <1>8 DEF QueueCells
    <3> QED BY <1>8, <1>14, <2>4, <3>1 DEF ApartInv
  <2>5. \A k \in DOMAIN free' : /\ free'[k] \in 1 .. ncells'
                                /\ free'[k] \notin QueueCells' /\ free'[k] \notin RingCells'
    <3>1. ncells' \in Nat /\ ncells <= ncells'
      BY <1>6
    <3>2. \A k \in DOMAIN t.free : t.free[k] \in 1 .. ncells'
      BY <1>1, <1>6, <3>1
    <3> QED BY <1>6, <1>7, <2>1, <2>2, <3>2
  <2>6. DOMAIN batch'.ring = {}
    BY <1>1, EmptyRuns DEF ModeInv
  <2> QED BY <1>6, <2>3, <2>4, <2>5, <2>6 DEF ApartInv
<1>16. ModeInv'
  BY <1>1, <1>10 DEF ModeInv
<1>17. QueueInv'
  <2>1. PlanOk(next_id', e)
    <3>1. j.id \in 1 .. next_id' - 1
      <4>1. chain.start.id \in 0 .. next_id - 1
        <5>1. PICK H, F \in [Nat -> Nat] : \E S : QueueLine(H, F, S)
          BY GhostIs
        <5> QED BY <1>1, <5>1 DEF QueueLine, Line
      <4> QED BY ONLY <4>1, <1>1, <1>4, next_id' = next_id + 1
    <3>2. e.blk.kind # "raw" /\ e.job # NoJob /\ e.job.blk = e.blk
      BY <1>4, <1>8
    <3> QED BY <1>8, <3>1, <3>2 DEF PlanOk
  <2>2. Live(e.cell, e.job)'
    BY <1>8, <1>12 DEF Live
  <2>3. \A x \in QueueCells : cell'[x] = cell[x]
    <3>1. QueueCells \subseteq Cells
      BY QueueCell DEF QueueCells
    <3> QED BY <1>6, <1>7, <1>12, <3>1
  <2> QED BY <1>2, <1>4, <1>8, <1>10, <1>11, <2>1, <2>2, <2>3, QueueGrows
<1>18. main'.mode # "batch" /\ main'.pc \notin Stage3Places /\ main'.pc # "raw"
  BY <1>1 DEF Stage3Places
<1>19. BatchInv' /\ FreshInv' /\ StageInv' /\ \A H, F, S : BatchLine(H, F, S)'
  BY <1>18, NoBatchAfter
<1>20. GhostInv'
  <2>1. PICK H, F \in [Nat -> Nat] :
          \E S : CellsOk(cell, next_id, H, F) /\ QueueLine(H, F, S)
    BY GhostIs
  <2>2. PICK S : CellsOk(cell, next_id, H, F) /\ QueueLine(H, F, S)
    BY <2>1
  <2>3. PICK G, E \in [Nat -> Nat] : /\ G[next_id] = Tok(b) /\ Extends(next_id, H, G)
                                     /\ E[next_id] = Tok(b) /\ Extends(next_id, F, E)
    BY <1>1, <1>3, TokType, NamesTable
  <2>4. PICK T : QueueLine(G, E, T)' /\ (e.job # NoJob => JobOk(next_id', G, E, e.job))
    <3>1. /\ e.job = Job(e.blk, next_id, chain.start, chain.defs, chain.blocks)
          /\ G[next_id] = Tok(e.blk) /\ E[next_id] = Tok(e.blk) /\ CanPlan(e.blk, chain.defs)
          /\ scratch' = scratch /\ consumed' = consumed /\ next_id' = next_id + 1
      BY <1>8, <2>3
    <3>2. /\ chain'.defs.huf = IF e.blk.huf = "own" THEN next_id ELSE chain.defs.huf
          /\ chain'.defs.fse = IF e.blk.fse = "own" THEN next_id ELSE chain.defs.fse
          /\ chain'.blocks.huf = IF e.blk.huf = "own" THEN Tok(e.blk) ELSE chain.blocks.huf
          /\ chain'.blocks.fse = IF e.blk.fse = "own" THEN Tok(e.blk) ELSE chain.blocks.fse
      BY <1>8, <1>10 DEF DefsAfter, BlocksAfter
    <3> QED BY ONLY IInv, <1>1, <1>8, <1>10, <1>11, <2>2, <2>3, <3>1, <3>2, QueueLineGrows
  <2>5. CellsOk(cell', next_id', G, E)
    <3>1. CellsOk(cell, next_id', G, E)
      BY <1>1, <1>11, <2>2, <2>3, CellsLater
    <3> QED BY <1>4, <1>8, <1>12, <2>4, <3>1
  <2>6. TableInv(G, E)'
    BY <2>5, <1>18, TableCells
  <2> QED BY <2>4, <2>6, <1>19 DEF GhostInv
<1>21. SerialInv'
  BY <1>1, <1>10 DEF SerialInv, OutputIsSerial, FailuresAreReal, Reference
<1> QED BY <1>12, <1>13, <1>15, <1>16, <1>17, <1>19, <1>20, <1>21, Zenon DEF IInv, CellsInv

(* One round of fill.                                                      *)
LEMMA FillStep ==
  ASSUME IInv, Fill
  PROVE  IInv'
<1>1. PICK b, t, j, e, f :
        /\ b = input[Len(consumed) + Len(chain.queue) + 1]
        /\ t = TakeCell(free, ncells, 2 * Depth)
        /\ j = Job(b, next_id, chain.start, chain.defs, chain.blocks)
        /\ e = [blk |-> b, job |-> j, cell |-> t.cell, before |-> chain.defs,
                blocks |-> chain.blocks, seen |-> calls]
        /\ f = [blk |-> b, job |-> NoJob, cell |-> 0, before |-> chain.defs,
                blocks |-> chain.blocks, seen |-> calls]
  OBVIOUS
<1>2. /\ main.pc = "fill" /\ Fillable /\ input' = input /\ consumed' = consumed
      /\ out' = out /\ scratch' = scratch /\ batch' = batch /\ calls' = calls
      /\ worker' = worker /\ dec' = dec
  BY Zenon DEF Fill
<1>3. \/ /\ main' = [main EXCEPT !.blocked = TRUE] \/ main' = [main EXCEPT !.pc = "front"]
         /\ UNCHANGED <<chain, next_id, free, ncells, cell, tasks>>
      \/ /\ CanPlan(b, chain.defs) /\ b.kind = "raw"
         /\ chain' = [chain EXCEPT !.queue = Append(@, f)]
         /\ UNCHANGED <<main, next_id, free, ncells, cell, tasks>>
      \/ /\ CanPlan(b, chain.defs) /\ b.kind # "raw" /\ t.cell # 0
         /\ chain' = [chain EXCEPT !.queue = Append(@, e),
                                   !.defs = DefsAfter(b, next_id, chain.defs),
                                   !.blocks = BlocksAfter(b, chain.blocks)]
         /\ next_id' = next_id + 1
         /\ free' = t.free /\ ncells' = t.ncells
         /\ cell' = [cell EXCEPT ![t.cell] = Hand(@, j, chain.queue = <<>>)]
         /\ tasks' = Append(tasks, [cell |-> t.cell, ticket |-> next_id])
         /\ UNCHANGED main
  BY <1>1, Zenon DEF Fill
<1>4. CASE /\ main' = [main EXCEPT !.blocked = TRUE] \/ main' = [main EXCEPT !.pc = "front"]
           /\ UNCHANGED <<chain, next_id, free, ncells, cell, tasks>>
  BY <1>2, <1>4, FillEnds DEF Kept
<1>5. CASE /\ CanPlan(b, chain.defs) /\ b.kind = "raw"
           /\ chain' = [chain EXCEPT !.queue = Append(@, f)]
           /\ UNCHANGED <<main, next_id, free, ncells, cell, tasks>>
  BY <1>1, <1>2, <1>5, FillRaw
<1>6. CASE /\ CanPlan(b, chain.defs) /\ b.kind # "raw" /\ t.cell # 0
           /\ chain' = [chain EXCEPT !.queue = Append(@, e),
                                     !.defs = DefsAfter(b, next_id, chain.defs),
                                     !.blocks = BlocksAfter(b, chain.blocks)]
           /\ next_id' = next_id + 1
           /\ free' = t.free /\ ncells' = t.ncells
           /\ cell' = [cell EXCEPT ![t.cell] = Hand(@, j, chain.queue = <<>>)]
           /\ tasks' = Append(tasks, [cell |-> t.cell, ticket |-> next_id])
           /\ UNCHANGED main
  BY ONLY IInv, <1>1, <1>2, <1>6, FillHanded
<1> QED BY <1>3, <1>4, <1>5, <1>6

(* Outside a batch, nothing is said of one.                                *)
LEMMA NoBatchThen ==
  ASSUME main'.mode # "batch"
  PROVE  BatchInv' /\ FreshInv' /\ \A H, F, S : BatchLine(H, F, S)'
<1>1. BatchInv' /\ FreshInv'
  BY DEF BatchInv, FreshInv
<1>2. ASSUME NEW H, NEW F, NEW S PROVE BatchLine(H, F, S)'
  BY DEF BatchLine
<1> QED BY <1>1, <1>2

(* The executing thread is about to take a block, or to copy it.           *)
LEMMA TablesFront ==
  ASSUME NEW H, NEW F, dec' = dec, CellsOk(cell', next_id', H, F),
         main'.pc \notin {"runs", "runs_wait", "finish"}
  PROVE  TableInv(H, F)'
BY DEF CellsOk, TableInv

(* The call returns to the driver.                                         *)
LEMMA RunReturns ==
  ASSUME IInv, Kept, tasks' = tasks, worker' = worker, dec' = dec, cell' = cell,
         main.pc = "front", main.mode = "chain", main' = Returned(FALSE)
  PROVE  IInv'
<1> USE InvParts
<1>1. main \in MainSet
  BY DEF TypeInv
<1>2. main' \in MainSet /\ main'.pc = "driver" /\ main'.mode = "none" /\ main'.end = 0 /\ ~main'.broke
  <2>1. PICK s \in BOOLEAN : s = (~main.any /\ Len(consumed) < main.end)
    OBVIOUS
  <2>2. main' = Driver(s, FALSE)
    BY <2>1 DEF Returned
  <2> QED BY <2>2, DriverType
<1>3. /\ input' = input /\ consumed' = consumed /\ out' = out /\ scratch' = scratch
      /\ chain' = chain /\ batch' = batch
  BY DEF Kept
<1>4. batch = NoBatch /\ chain.on
  BY DEF ModeInv
<1>5. ModeInv'
  <2>1. 0 <= Len(input)
    BY DEF TypeInv
  <2> QED BY <1>2, <1>3, <1>4, <2>1 DEF ModeInv, BatchPlaces
<1>6. main'.pc \notin Stage3Places /\ main'.pc # "raw" /\ main'.mode # "batch"
  BY <1>2 DEF Stage3Places
<1>7. BatchInv'
  BY <1>6, NoBatchThen
<1>8. SerialInv'
  BY <1>2, <1>3, <1>4 DEF SerialInv, OutputIsSerial, FailuresAreReal, Reference
<1> QED BY <1>2, <1>5, <1>6, <1>7, <1>8, MainMoves

(* The queue is given up, and planned again.                               *)
LEMMA RewindStep ==
  ASSUME IInv, Rewind, main.pc = "front", main.mode = "chain", chain.queue # <<>>,
         main' = [main EXCEPT !.pc = "fill"],
         input' = input, consumed' = consumed, out' = out, scratch' = scratch, batch' = batch,
         next_id' = next_id, calls' = calls, ncells' = ncells, tasks' = tasks,
         worker' = worker, dec' = dec
  PROVE  IInv'
<1> USE InvParts
<1>1. /\ main \in MainSet /\ chain \in ChainSet /\ "fill" \in Places /\ chain.on /\ batch = NoBatch
      /\ next_id \in Nat /\ chain.queue \in Seq(EntrySet)
  BY DEF TypeInv, Places, ModeInv, ChainSet
<1>2. main' \in MainSet /\ main'.pc = "fill" /\ Control(main, main')
  BY <1>1, MovesOn
<1>3. 1 \in DOMAIN chain.queue /\ chain.queue[1].before \in DefsSet /\ chain.queue[1].blocks \in BlocksSet
  <2>1. 1 \in DOMAIN chain.queue
    BY <1>1
  <2>2. chain.queue[1] \in EntrySet
    BY <1>1, <2>1
  <2> QED BY <2>1, <2>2 DEF EntrySet
<1>4. /\ chain' \in ChainSet /\ chain'.queue = <<>> /\ chain'.on = chain.on
      /\ chain'.start = chain.start /\ chain'.hist = chain.hist
      /\ chain'.defs = chain.queue[1].before /\ chain'.blocks = chain.queue[1].blocks
  <2>1. chain' = [chain EXCEPT !.defs = chain.queue[1].before,
                               !.blocks = chain.queue[1].blocks, !.queue = <<>>]
    BY DEF Rewind
  <2>2. <<>> \in Seq(EntrySet)
    OBVIOUS
  <2> QED BY ONLY <1>1, <1>3, <2>1, <2>2 DEF ChainSet
<1>5. cell' = Retire(chain.queue) /\ free' = free \o CellsOf(chain.queue)
  BY DEF Rewind
<1>6. /\ cell' \in [Cells -> CellSet] /\ free' \in Seq(Nat) /\ ApartInv'
      /\ \A c \in Cells : cell'[c] = cell[c] \/ RetiredTo(cell[c], cell'[c])
  BY <1>4, <1>5, GivenUp
<1>7. TypeInv'
  BY <1>2, <1>4, <1>6, Zenon DEF TypeInv
<1>8. /\ DecInv' /\ TaskInv' /\ IdInv'
      /\ \A N, H, F : CellsOk(cell, N, H, F) => CellsOk(cell', N, H, F)
  <2>1. next_id' \in Nat /\ next_id <= next_id' /\ main.pc \notin {"lits", "wait"}
    BY <1>1
  <2> QED BY <1>6, <2>1, CellsRetired
<1>9. ModeInv'
  BY <1>1, <1>2, <1>4 DEF ModeInv, Control, BatchPlaces
<1>10. QueueInv'
  <2>1. DOMAIN chain'.queue = {}
    BY <1>4
  <2> QED BY <2>1 DEF QueueInv
<1>11. main'.mode # "batch" /\ main'.pc \notin Stage3Places /\ main'.pc # "raw"
  BY <1>2 DEF Stage3Places, Control
<1>12. BatchInv' /\ FreshInv' /\ StageInv' /\ \A H, F, S : BatchLine(H, F, S)'
  BY <1>11, NoBatchAfter
<1>13. GhostInv'
  <2>1. PICK H, F \in [Nat -> Nat] :
          \E S : CellsOk(cell, next_id, H, F) /\ QueueLine(H, F, S)
    BY GhostIs
  <2>2. PICK S : CellsOk(cell, next_id, H, F) /\ QueueLine(H, F, S)
    BY <2>1
  <2>3. /\ Line(next_id, H, F, S, chain.queue, chain) /\ chain.start.init = scratch
        /\ S[1] = Reference.s /\ chain.hist = S[1].hist
        /\ DefsOk(next_id, H, F, chain.queue[1].before, chain.queue[1].blocks, chain.start, S[1])
    BY <1>1, <1>3, <2>2 DEF QueueLine
  <2>4. S[1] \in ScratchSet /\ chain.start.id \in 0 .. next_id - 1
    <3>1. S \in [1 .. Len(chain.queue) + 1 -> ScratchSet] /\ chain.start.id \in 0 .. next_id - 1
      BY <2>3 DEF Line
    <3>2. 1 \in 1 .. Len(chain.queue) + 1
      <4>1. Len(chain.queue) \in Nat
        BY ONLY <1>1
      <4> QED BY ONLY <4>1
    <3> QED BY <3>1, <3>2
  <2>5. PICK T : Line(next_id, H, F, T, chain'.queue, chain') /\ T[1] = S[1]
    BY <1>1, <1>4, <2>3, <2>4, LineEmpty
  <2>6. QueueLine(H, F, T)'
    <3>1. DOMAIN chain'.queue = {} /\ Reference' = Reference
      BY <1>4 DEF Reference
    <3> QED BY <1>4, <2>3, <2>5, <3>1 DEF QueueLine
  <2>7. TableInv(H, F)'
    BY <2>2, <1>8, <1>11, TableCells
  <2> QED BY <2>6, <2>7, <1>12 DEF GhostInv
<1>14. SerialInv'
  <2>1. ~main.broke /\ ~main'.broke
    BY <1>2 DEF SerialInv, Control
  <2> QED BY <1>1, <1>2, <1>4, <2>1 DEF SerialInv, OutputIsSerial, FailuresAreReal, Reference, Control
<1> QED BY <1>6, <1>7, <1>8, <1>9, <1>10, <1>12, <1>13, <1>14, Zenon DEF IInv, CellsInv

(* The block is as the input holds it: to be executed, or the call ends.   *)
LEMMA SeenStep ==
  ASSUME IInv, main.pc = "front", main.mode = "chain", chain.queue # <<>>,
         Located(Len(consumed) + 1),
         chain.queue[1].seen = calls \/ Holds(chain.queue[1], NextBlock),
         chain' = [chain EXCEPT !.queue[1].seen = calls],
         \/ main' = [main EXCEPT !.pc = IF NextBlock.kind = "raw" THEN "raw" ELSE "take"]
         \/ main' = Returned(FALSE),
         cell' = cell, free' = free,
         input' = input, consumed' = consumed, out' = out, scratch' = scratch, batch' = batch,
         next_id' = next_id, calls' = calls, ncells' = ncells, tasks' = tasks,
         worker' = worker, dec' = dec
  PROVE  IInv'
<1> USE InvParts
<1>1. /\ main \in MainSet /\ chain \in ChainSet /\ chain.on /\ batch = NoBatch
      /\ next_id \in Nat /\ chain.queue \in Seq(EntrySet) /\ calls \in Nat
      /\ input \in Seq(BlockSet) /\ consumed \in Seq(BlockSet) /\ main.end \in Nat
      /\ main.end <= Len(input)
  BY DEF TypeInv, ModeInv, ChainSet, MainSet
<1>2. 1 \in DOMAIN chain.queue /\ chain.queue[1] \in EntrySet
  <2>1. 1 \in DOMAIN chain.queue
    BY <1>1
  <2> QED BY <1>1, <2>1
<1>3. PICK e : e = [chain.queue[1] EXCEPT !.seen = calls]
  OBVIOUS
<1>4. /\ e \in EntrySet /\ e.blk = chain.queue[1].blk /\ e.job = chain.queue[1].job
      /\ e.cell = chain.queue[1].cell /\ e.before = chain.queue[1].before
      /\ e.blocks = chain.queue[1].blocks /\ e.seen = calls
  BY ONLY <1>1, <1>2, <1>3 DEF EntrySet
<1>5. PICK q : q = [chain.queue EXCEPT ![1] = e]
  OBVIOUS
<1>6. /\ q \in Seq(EntrySet) /\ Len(q) = Len(chain.queue) /\ DOMAIN q = DOMAIN chain.queue
      /\ q[1] = e /\ \A i \in DOMAIN q : i # 1 => q[i] = chain.queue[i]
  BY <1>1, <1>2, <1>4, <1>5
<1>7. /\ chain' \in ChainSet /\ chain'.queue = q /\ chain'.on = chain.on
      /\ chain'.start = chain.start /\ chain'.hist = chain.hist
      /\ chain'.defs = chain.defs /\ chain'.blocks = chain.blocks
  <2>1. chain' = [chain EXCEPT !.queue = q]
    BY <1>3, <1>5
  <2> QED BY ONLY <1>1, <1>6, <2>1 DEF ChainSet
<1>8. /\ main' \in MainSet /\ main'.pc \in {"raw", "take", "driver"} /\ ~main'.broke
      /\ main'.pc = "driver" => main'.mode = "none"
      /\ main'.pc # "driver" => main'.mode = "chain"
      /\ main'.end <= Len(input)
      /\ main'.pc # "driver" => (main'.pc = "raw" <=> NextBlock.kind = "raw")
  <2>1. CASE main' = [main EXCEPT !.pc = IF NextBlock.kind = "raw" THEN "raw" ELSE "take"]
    <3>1. PICK p : p = IF NextBlock.kind = "raw" THEN "raw" ELSE "take"
      OBVIOUS
    <3>2. p \in Places
      BY <3>1 DEF Places, Stage3Places
    <3>3. main' \in MainSet /\ main'.pc = p /\ Control(main, main')
      BY <1>1, <2>1, <3>1, <3>2, MovesOn
    <3>4. ~main.broke
      BY DEF SerialInv
    <3>5. p # "driver" /\ p \in {"raw", "take"} /\ (p = "raw" <=> NextBlock.kind = "raw")
      BY <3>1
    <3> QED BY <1>1, <3>3, <3>4, <3>5 DEF Control
  <2>2. CASE main' = Returned(FALSE)
    <3>1. PICK s \in BOOLEAN : s = (~main.any /\ Len(consumed) < main.end)
      OBVIOUS
    <3>2. main' = Driver(s, FALSE)
      BY <2>2, <3>1 DEF Returned
    <3>3. 0 <= Len(input)
      BY <1>1
    <3> QED BY <3>2, <3>3, DriverType
  <2> QED BY <2>1, <2>2
<1>9. TypeInv'
  BY <1>7, <1>8, Zenon DEF TypeInv
<1>10. DecInv' /\ TaskInv' /\ IdInv'
  <2>1. next_id' \in Nat /\ next_id <= next_id' /\ main.pc \notin {"lits", "wait"}
    BY <1>1
  <2> QED BY <2>1, CellsRetired
<1>11. \A i \in DOMAIN q : /\ q[i].cell = chain.queue[i].cell /\ q[i].job = chain.queue[i].job
                           /\ q[i].blk = chain.queue[i].blk /\ q[i].before = chain.queue[i].before
                           /\ q[i].blocks = chain.queue[i].blocks
  BY <1>4, <1>6
<1>12. ApartInv'
  <2>1. QueueCells' = QueueCells
    BY <1>6, <1>7, <1>11 DEF QueueCells
  <2>2. RingCells' = RingCells
    BY DEF RingCells
  <2> QED BY <1>6, <1>7, <1>11, <2>1, <2>2 DEF ApartInv
<1>13. ModeInv'
  BY <1>1, <1>7, <1>8 DEF ModeInv, BatchPlaces
<1>14. Len(consumed) + 1 <= Len(input) /\ Holds(e, input[Len(consumed) + 1])
  <2>1. Len(consumed) + 1 <= Len(input)
    BY <1>1 DEF Located
  <2>2. Holds(chain.queue[1], NextBlock)
    BY <1>2 DEF QueueInv, NextBlock
  <2> QED BY <1>4, <2>1, <2>2 DEF Holds, NextBlock
<1>15. QueueInv'
  <2>1. ASSUME NEW i \in DOMAIN q, NEW p, p = q[i]
        PROVE  /\ PlanOk(next_id, p)
               /\ p.cell = 0 <=> p.job = NoJob
               /\ p.job # NoJob => Live(p.cell, p.job)'
               /\ p.seen <= calls
               /\ p.seen = calls => /\ Len(consumed) + i <= Len(input)
                                    /\ Holds(p, input[Len(consumed) + i])
    <3> DEFINE o == chain.queue[i]
    <3>1. /\ PlanOk(next_id, o)
          /\ o.cell = 0 <=> o.job = NoJob
          /\ o.job # NoJob => Live(o.cell, o.job)
          /\ o.seen <= calls
          /\ o.seen = calls => /\ Len(consumed) + i <= Len(input)
                               /\ Holds(o, input[Len(consumed) + i])
      BY <1>6, Zenon DEF QueueInv
    <3>2. p.cell = o.cell /\ p.job = o.job /\ p.blk = o.blk
      BY <1>11, <2>1
    <3>3. /\ PlanOk(next_id, p)
          /\ p.cell = 0 <=> p.job = NoJob
          /\ p.job # NoJob => Live(p.cell, p.job)'
      BY <3>1, <3>2 DEF PlanOk, Live
    <3>4. CASE i = 1
      BY <1>1, <1>4, <1>6, <1>14, <2>1, <3>3, <3>4
    <3>5. CASE i # 1
      <4>1. p = o
        BY <1>6, <2>1, <3>5
      <4> QED BY <3>1, <3>3, <4>1
    <3> QED BY <3>4, <3>5
  <2>2. ASSUME NEW i \in DOMAIN chain'.queue
        PROVE  LET p == chain'.queue[i]
               IN /\ PlanOk(next_id', p)
                  /\ p.cell = 0 <=> p.job = NoJob
                  /\ p.job # NoJob => /\ cell'[p.cell].job = p.job
                                      /\ cell'[p.cell].claim \in {Planned(p.job.id), Taken(p.job.id)}
                  /\ p.seen <= calls'
                  /\ p.seen = calls' /\ main'.mode = "chain" =>
                        /\ Len(consumed') + i <= Len(input')
                        /\ Holds(p, input'[Len(consumed') + i])
    BY <1>7, <2>1 DEF Live
  <2> QED BY <2>2, Zenon DEF QueueInv, Live
<1>16. BatchInv' /\ FreshInv' /\ \A H, F, S : BatchLine(H, F, S)'
  BY <1>8, NoBatchThen
<1>17. StageInv'
  <2>1. ASSUME main'.pc \in Stage3Places \union {"raw"}
        PROVE  /\ main'.pc \in {"raw", "take"} /\ main'.mode = "chain"
               /\ (main'.pc = "raw" <=> e.job = NoJob)
    <3>1. main'.pc # "driver"
      BY <2>1 DEF Stage3Places
    <3>2. chain.queue[1].job = NoJob <=> chain.queue[1].blk.kind = "raw"
      BY <1>2 DEF QueueInv, PlanOk
    <3>3. e.blk.kind = NextBlock.kind
      BY <1>14 DEF Holds, NextBlock
    <3> QED BY <1>4, <1>8, <3>1, <3>2, <3>3
  <2>2. chain'.queue # <<>> /\ chain'.queue[1] = e
    BY <1>2, <1>6, <1>7
  <2>3. Len(consumed) < Len(input)
    BY <1>1, <1>14
  <2> QED BY <1>4, <2>1, <2>2, <2>3 DEF StageInv, CurEntry
<1>18. GhostInv'
  <2>1. PICK H, F \in [Nat -> Nat] :
          \E S : CellsOk(cell, next_id, H, F) /\ QueueLine(H, F, S)
    BY GhostIs
  <2>2. PICK S : CellsOk(cell, next_id, H, F) /\ QueueLine(H, F, S)
    BY <2>1
  <2>3. /\ Line(next_id, H, F, S, chain.queue, chain) /\ chain.start.init = scratch
        /\ S[1] = Reference.s /\ chain.hist = S[1].hist
        /\ \A i \in DOMAIN chain.queue :
              DefsOk(next_id, H, F, chain.queue[i].before, chain.queue[i].blocks, chain.start, S[i])
    BY <1>1, <2>2 DEF QueueLine
  <2>4. Line(next_id, H, F, S, q, chain')
    <3>1. Extends(next_id, H, H) /\ Extends(next_id, F, F) /\ next_id <= next_id
      <4>1. next_id <= next_id
        BY ONLY <1>1
      <4> QED BY ONLY <4>1, ExtendsSame
    <3>2. \A i \in DOMAIN chain.queue :
            chain.queue[i].job # NoJob => chain.queue[i].job.blk = chain.queue[i].blk
      BY DEF QueueInv, PlanOk
    <3>3. PICK t : t = chain'
      OBVIOUS
    <3>4. t.start = chain.start /\ t.defs = chain.defs /\ t.blocks = chain.blocks
      BY <1>7, <3>3
    <3>5. Line(next_id, H, F, S, q, t)
      BY ONLY <1>1, <1>6, <1>11, <2>3, <3>1, <3>2, <3>4, LineLater
    <3> QED BY <3>3, <3>5
  <2>5. QueueLine(H, F, S)'
    <3>1. Reference' = Reference
      BY DEF Reference
    <3> QED BY <1>6, <1>7, <1>11, <2>3, <2>4, <3>1 DEF QueueLine
  <2>6. TableInv(H, F)'
    BY <2>2, <1>8, TablesFront
  <2> QED BY <2>5, <2>6, <1>16 DEF GhostInv
<1>19. SerialInv'
  BY <1>1, <1>7, <1>8 DEF SerialInv, OutputIsSerial, FailuresAreReal, Reference
<1> QED BY <1>9, <1>10, <1>12, <1>13, <1>15, <1>16, <1>17, <1>18, <1>19, Zenon DEF IInv, CellsInv

(* The next block of the chain.                                            *)
LEMMA RunFrontStep ==
  ASSUME IInv, RunFront
  PROVE  IInv'
<1>1. /\ main.pc = "front" /\ main.mode = "chain"
      /\ input' = input /\ consumed' = consumed /\ out' = out /\ scratch' = scratch
      /\ batch' = batch /\ next_id' = next_id /\ calls' = calls /\ ncells' = ncells
      /\ tasks' = tasks /\ worker' = worker /\ dec' = dec
  BY Zenon DEF RunFront
<1>2. \/ main' = Returned(FALSE) /\ chain' = chain /\ cell' = cell /\ free' = free
      \/ chain.queue # <<>> /\ Rewind /\ main' = [main EXCEPT !.pc = "fill"]
      \/ /\ chain.queue # <<>> /\ Located(Len(consumed) + 1)
         /\ chain.queue[1].seen = calls \/ Holds(chain.queue[1], NextBlock)
         /\ chain' = [chain EXCEPT !.queue[1].seen = calls]
         /\ \/ main' = [main EXCEPT !.pc = IF NextBlock.kind = "raw" THEN "raw" ELSE "take"]
            \/ main' = Returned(FALSE)
         /\ cell' = cell /\ free' = free
  BY Zenon DEF RunFront
<1>3. CASE main' = Returned(FALSE) /\ chain' = chain /\ cell' = cell /\ free' = free
  BY <1>1, <1>3, RunReturns DEF Kept
<1>4. CASE chain.queue # <<>> /\ Rewind /\ main' = [main EXCEPT !.pc = "fill"]
  BY <1>1, <1>4, RewindStep
<1>5. CASE /\ chain.queue # <<>> /\ Located(Len(consumed) + 1)
           /\ chain.queue[1].seen = calls \/ Holds(chain.queue[1], NextBlock)
           /\ chain' = [chain EXCEPT !.queue[1].seen = calls]
           /\ \/ main' = [main EXCEPT !.pc = IF NextBlock.kind = "raw" THEN "raw" ELSE "take"]
              \/ main' = Returned(FALSE)
           /\ cell' = cell /\ free' = free
  BY ONLY IInv, <1>1, <1>5, SeenStep
<1> QED BY <1>2, <1>3, <1>4, <1>5

-----------------------------------------------------------------------------
(* A batch: planned, given its cells, spawned.                             *)

(* The executing thread goes on, with the batch as it is.                  *)
LEMMA BatchPasses ==
  ASSUME IInv, Kept, tasks' = tasks, worker' = worker, dec' = dec, cell' = cell,
         main.mode = "batch", main.pc \notin {"lits", "wait", "scope"},
         main' \in MainSet, main'.mode = "batch", main'.end = main.end,
         main'.pc \in {"ring", "spawn", "front", "scope"},
         main'.pc # "ring" /\ Len(batch.plans) # 0 => Len(batch.ring) # 0,
         main'.pc = "ring" => batch.handed = 0,
         main'.pc \in {"ring", "spawn"} => batch.done = 0,
         main'.pc = "spawn" => batch.handed <= Len(batch.ring),
         main'.pc = "front" => batch.handed = IF batch.done = 0 THEN Len(batch.ring)
                                              ELSE batch.done + Len(batch.ring) - 1,
         SerialInv'
  PROVE  IInv'
<1> USE InvParts
<1>1. /\ input' = input /\ consumed' = consumed /\ out' = out /\ scratch' = scratch
      /\ chain' = chain /\ batch' = batch /\ next_id' = next_id /\ ncells' = ncells
  BY DEF Kept
<1>2. ModeInv'
  BY <1>1 DEF ModeInv, BatchPlaces
<1>3. main'.pc \notin Stage3Places /\ main'.pc # "raw"
  BY DEF Stage3Places
<1>4. BatchInv'
  <2>1. \A i \in DOMAIN batch'.plans :
          /\ PlanOk(next_id', batch'.plans[i])
          /\ Len(consumed') - batch'.done + i \in DOMAIN input'
          /\ batch'.plans[i].blk = input'[Len(consumed') - batch'.done + i]
    BY <1>1 DEF BatchInv
  <2>2. /\ batch'.done <= Len(batch'.plans) /\ batch'.done <= Len(consumed')
        /\ Len(batch'.ring) <= Len(batch'.plans)
    BY <1>1 DEF BatchInv
  <2>3. (\A j \in batch.done + 1 .. batch.done + Len(batch.ring) :
            IF Handed(j) THEN Live(RingCell(batch.ring, j), batch.plans[j].job)
            ELSE Quiet(RingCell(batch.ring, j)))'
    <3>1. \A j \in batch.done + 1 .. batch.done + Len(batch.ring) :
            IF Handed(j) THEN Live(RingCell(batch.ring, j), batch.plans[j].job)
            ELSE Quiet(RingCell(batch.ring, j))
      BY Zenon DEF BatchInv
    <3> QED BY <1>1, <3>1, Zenon DEF Handed, Live, Quiet
  <2>4. main'.pc \notin Stage3Places \union {"raw"} /\ main'.pc # "plan"
    BY <1>3
  <2> QED BY <1>1, <2>1, <2>2, <2>3, <2>4 DEF BatchInv
<1> QED BY <1>2, <1>3, <1>4, MainMoves

(* The batch's blocks, one more planned.                                   *)
LEMMA PlansGrow ==
  ASSUME IInv, main.mode = "batch", NEW p \in PlanSet, batch'.plans = Append(batch.plans, p)
  PROVE  /\ Len(batch'.plans) = Len(batch.plans) + 1 /\ Len(batch.plans) \in Nat
         /\ batch'.plans[Len(batch.plans) + 1] = p
         /\ \A i \in DOMAIN batch.plans : i \in DOMAIN batch'.plans /\ batch'.plans[i] = batch.plans[i]
         /\ DOMAIN batch'.plans = DOMAIN batch.plans \union {Len(batch.plans) + 1}
         /\ batch'.plans \in Seq(PlanSet)
<1>1. batch.plans \in Seq(PlanSet)
  BY InvParts DEF TypeInv, BatchSet
<1> QED BY <1>1

(* The tables in use after it.                                             *)
LEMMA BatchLineGrows ==
  ASSUME IInv, main.mode = "batch", main'.mode = "batch", scratch' = scratch,
         consumed' = consumed, next_id' = next_id + 1,
         NEW H, NEW F, NEW G, NEW E, NEW S, BatchLine(H, F, S),
         Extends(next_id, H, G), Extends(next_id, F, E), NEW p \in PlanSet,
         CanPlan(p.blk, batch.defs), G[next_id] = Tok(p.blk), E[next_id] = Tok(p.blk),
         \/ p.blk.kind = "raw" /\ p.job = NoJob
         \/ p.job = Job(p.blk, next_id, batch.start, batch.defs, batch.blocks),
         batch'.plans = Append(batch.plans, p), batch'.start = batch.start,
         batch'.hist = batch.hist, batch'.done = batch.done,
         batch'.defs = DefsAfter(p.blk, next_id, batch.defs),
         batch'.blocks = BlocksAfter(p.blk, batch.blocks)
  PROVE  \E T : BatchLine(G, E, T)'
<1> USE InvParts
<1>1. /\ batch.plans \in Seq(PlanSet) /\ next_id \in Nat /\ batch.start \in StartSet
      /\ batch.defs \in DefsSet /\ batch.blocks \in BlocksSet /\ p.blk \in BlockSet
      /\ batch.done \in Nat
  BY DEF TypeInv, BatchSet, PlanSet
<1>2. /\ Line(next_id, H, F, S, batch.plans, batch) /\ batch.start.init = scratch
      /\ S[1] = scratch /\ S[batch.done + 1] = Reference.s /\ batch.hist = Reference.s.hist
      /\ Named(batch.defs.huf, batch) /\ Named(batch.defs.fse, batch)
      /\ \A i \in DOMAIN batch.plans : /\ Named(batch.plans[i].job.huf_def, batch)
                                       /\ Named(batch.plans[i].job.fse_def, batch)
  BY DEF BatchLine
<1>3. /\ \A i \in DOMAIN batch.plans :
            batch.plans[i].job # NoJob => batch.plans[i].job.blk = batch.plans[i].blk
      /\ batch.done <= Len(batch.plans)
  BY DEF BatchInv, PlanOk
<1>4. /\ batch'.defs.huf = IF p.blk.huf = "own" THEN next_id ELSE batch.defs.huf
      /\ batch'.defs.fse = IF p.blk.fse = "own" THEN next_id ELSE batch.defs.fse
      /\ batch'.blocks.huf = IF p.blk.huf = "own" THEN Tok(p.blk) ELSE batch.blocks.huf
      /\ batch'.blocks.fse = IF p.blk.fse = "own" THEN Tok(p.blk) ELSE batch.blocks.fse
  BY DEF DefsAfter, BlocksAfter
<1>5. PICK T : /\ Line(next_id', G, E, T, Append(batch.plans, p), batch')
               /\ \A i \in 1 .. Len(batch.plans) + 1 : T[i] = S[i]
  <2>1. PICK N, M, q, r, t, b : /\ N = next_id /\ M = next_id' /\ q = batch.plans /\ r = batch
                                /\ t = batch' /\ b = p.blk
    OBVIOUS
  <2>2. /\ N \in Nat /\ M = N + 1 /\ q \in Seq(PlanSet) /\ Line(N, H, F, S, q, r)
        /\ r.start \in StartSet /\ r.defs \in DefsSet /\ r.blocks \in BlocksSet
        /\ \A i \in DOMAIN q : q[i].job # NoJob => q[i].job.blk = q[i].blk
        /\ CanPlan(b, r.defs) /\ t.start = r.start /\ b \in BlockSet /\ p \in PlanSet /\ p.blk = b
        /\ Extends(N, H, G) /\ Extends(N, F, E)
    BY <1>1, <1>2, <1>3, <2>1
  <2>3. /\ t.defs.huf = IF b.huf = "own" THEN N ELSE r.defs.huf
        /\ t.defs.fse = IF b.fse = "own" THEN N ELSE r.defs.fse
        /\ t.blocks.huf = IF b.huf = "own" THEN Tok(b) ELSE r.blocks.huf
        /\ t.blocks.fse = IF b.fse = "own" THEN Tok(b) ELSE r.blocks.fse
    BY <1>4, <2>1
  <2>4. \/ b.kind = "raw" /\ p.job = NoJob
        \/ /\ M = N + 1 /\ G[N] = Tok(b) /\ E[N] = Tok(b)
           /\ p.job = Job(b, N, r.start, r.defs, r.blocks)
    BY <2>1, <2>2
  <2>5. M \in Nat /\ N <= M
    BY ONLY <2>2
  <2>6. \E T : Line(M, G, E, T, Append(q, p), t) /\ \A i \in 1 .. Len(q) + 1 : T[i] = S[i]
    BY ONLY <2>2, <2>3, <2>4, <2>5, LineAppend
  <2> QED BY <2>1, <2>6
<1>6. /\ batch'.plans[Len(batch.plans) + 1] = p
      /\ \A i \in DOMAIN batch.plans : i \in DOMAIN batch'.plans /\ batch'.plans[i] = batch.plans[i]
      /\ DOMAIN batch'.plans = DOMAIN batch.plans \union {Len(batch.plans) + 1}
  BY PlansGrow
<1>7. T[1] = S[1] /\ T[batch.done + 1] = S[batch.done + 1] /\ Reference' = Reference
  <2>1. 1 \in 1 .. Len(batch.plans) + 1 /\ batch.done + 1 \in 1 .. Len(batch.plans) + 1
    <3>1. Len(batch.plans) \in Nat
      BY ONLY <1>1
    <3> QED BY ONLY <1>1, <1>3, <3>1
  <2> QED BY <1>5, <2>1 DEF Reference
<1>8. \A d : Named(d, batch) => Named(d, batch')
  BY <1>6 DEF Named
<1>9. p.job # NoJob => Named(next_id, batch')
  <2>1. p.job # NoJob => p.job.id = next_id
    BY <1>1, JobTypes
  <2> QED BY <1>6, <2>1 DEF Named
<1>10. p.blk.kind = "raw" => p.blk.huf = "none" /\ p.blk.fse = "none"
  BY <1>1, TokType
<1>11. p.job = Job(p.blk, next_id, batch.start, batch.defs, batch.blocks) => p.job # NoJob
  BY <1>1, JobTypes
<1>12. Named(batch'.defs.huf, batch') /\ Named(batch'.defs.fse, batch')
  BY <1>2, <1>4, <1>8, <1>9, <1>10, <1>11
<1>13. Named(p.job.huf_def, batch') /\ Named(p.job.fse_def, batch')
  <2>1. Named(NoId, batch')
    BY DEF Named
  <2>2. CASE p.job = NoJob
    BY <2>1, <2>2, EmptyTypes
  <2>3. CASE p.job # NoJob
    <3>1. p.job = Job(p.blk, next_id, batch.start, batch.defs, batch.blocks)
      BY <2>3
    <3>2. /\ p.job.huf_def = IF p.blk.huf = "none" THEN NoId ELSE batch'.defs.huf
          /\ p.job.fse_def = IF HasSeqs(p.blk) THEN batch'.defs.fse ELSE NoId
      BY <1>1, <3>1, JobTypes
    <3> QED BY <1>12, <2>1, <3>2
  <2> QED BY <2>2, <2>3
<1>14. \A i \in DOMAIN batch'.plans : /\ Named(batch'.plans[i].job.huf_def, batch')
                                      /\ Named(batch'.plans[i].job.fse_def, batch')
  BY <1>2, <1>6, <1>8, <1>13
<1>15. G[batch'.start.id] = scratch'.huf /\ E[batch'.start.id] = scratch'.fse
  <2>1. H[batch.start.id] = scratch.huf /\ F[batch.start.id] = scratch.fse
    BY DEF BatchLine
  <2>2. batch.start.id \in 0 .. next_id - 1
    BY <1>2 DEF Line
  <2> QED BY <2>1, <2>2 DEF Extends
<1>16. BatchLine(G, E, T)'
  BY <1>2, <1>5, <1>7, <1>12, <1>14, <1>15 DEF BatchLine
<1> QED BY <1>16

(* What a step of a batch leaves alone.                                    *)
LEMMA BatchGoes ==
  ASSUME IInv, main.mode = "batch", main'.mode = "batch", chain' = chain, input' = input,
         consumed' = consumed, out' = out, scratch' = scratch, main'.end = main.end,
         ~main'.broke, main'.pc \notin {"left", "failed", "driver", "fill"},
         TypeInv', DecInv', TaskInv', IdInv', ApartInv', BatchInv', FreshInv', StageInv',
         \E H, F \in [Nat -> Nat] : TableInv(H, F)' /\ \E S : BatchLine(H, F, S)'
  PROVE  IInv'
<1> USE InvParts
<1>1. chain = NoChain /\ ~chain.on
  BY DEF ModeInv
<1>2. QueueInv' /\ \A H, F, S : QueueLine(H, F, S)'
  BY <1>1, NoChainAfter
<1>3. ModeInv'
  BY <1>1 DEF ModeInv
<1>4. SerialInv'
  BY DEF SerialInv, OutputIsSerial, FailuresAreReal, Reference
<1>5. GhostInv'
  BY <1>2 DEF GhostInv
<1> QED BY <1>2, <1>3, <1>4, <1>5, Zenon DEF IInv, CellsInv

(* The ring's cells, unchanged.                                            *)
LEMMA ApartSame ==
  ASSUME IInv, free' = free, ncells' = ncells, chain' = chain, batch'.ring = batch.ring
  PROVE  ApartInv'
<1>1. QueueCells' = QueueCells /\ RingCells' = RingCells
  BY DEF QueueCells, RingCells
<1> QED BY <1>1, InvParts DEF ApartInv

(* The tables of a batch whose plans stay.                                 *)
LEMMA BatchLineSame ==
  ASSUME main.mode = "batch", consumed' = consumed, scratch' = scratch, next_id' = next_id,
         batch'.start = batch.start, batch'.hist = batch.hist, batch'.defs = batch.defs,
         batch'.blocks = batch.blocks, batch'.plans = batch.plans, batch'.done = batch.done,
         NEW H, NEW F, NEW S, BatchLine(H, F, S)
  PROVE  BatchLine(H, F, S)'
<1>1. Line(next_id', H, F, S, batch'.plans, batch')
  BY DEF BatchLine, Line
<1>2. \A d : Named(d, batch') <=> Named(d, batch)
  BY DEF Named
<1>3. Reference' = Reference
  BY DEF Reference
<1> QED BY <1>1, <1>2, <1>3 DEF BatchLine

(* One round of plan_blocks.                                               *)
LEMMA PlanBlockStep ==
  ASSUME IInv, PlanBlock
  PROVE  IInv'
<1> USE InvParts
<1>1. PICK b, j, p : /\ b = input[Len(consumed) + Len(batch.plans) + 1]
                     /\ j = IF b.kind = "raw" THEN NoJob
                            ELSE Job(b, next_id, batch.start, batch.defs, batch.blocks)
                     /\ p = [blk |-> b, job |-> j]
  OBVIOUS
<1>2. /\ main.pc = "plan" /\ input' = input /\ consumed' = consumed /\ out' = out
      /\ scratch' = scratch /\ chain' = chain /\ calls' = calls /\ free' = free
      /\ ncells' = ncells /\ cell' = cell /\ tasks' = tasks /\ worker' = worker /\ dec' = dec
  BY Zenon DEF PlanBlock
<1>3. \/ /\ Plannable
         /\ batch' = [batch EXCEPT !.plans = Append(@, p), !.defs = DefsAfter(b, next_id, @),
                                   !.blocks = BlocksAfter(b, @)]
         /\ next_id' = next_id + 1 /\ main' = main
      \/ main' = [main EXCEPT !.pc = "ring"] /\ batch' = batch /\ next_id' = next_id
  BY <1>1, Zenon DEF PlanBlock
<1>4. /\ main \in MainSet /\ batch \in BatchSet /\ next_id \in Nat /\ input \in Seq(BlockSet)
      /\ consumed \in Seq(BlockSet) /\ batch.plans \in Seq(PlanSet) /\ batch.start \in StartSet
      /\ batch.defs \in DefsSet /\ batch.blocks \in BlocksSet /\ main.end \in Nat
  BY DEF TypeInv, BatchSet, MainSet
<1> DEFINE n == Len(batch.plans) + 1
<1>5. next_id \in Nat
  BY <1>4
<1>6. Len(consumed) \in Nat /\ Len(batch.plans) \in Nat /\ DOMAIN batch.plans = 1 .. Len(batch.plans)
  BY <1>4
<1>7. main.mode = "batch" /\ batch.ring = <<>> /\ batch.handed = 0 /\ batch.done = 0 /\ ~main.broke
      /\ main.end <= Len(input)
  BY <1>2 DEF ModeInv, BatchPlaces, BatchInv, SerialInv
<1>8. CASE main' = [main EXCEPT !.pc = "ring"] /\ batch' = batch /\ next_id' = next_id
  <2>1. "ring" \in Places
    BY DEF Places, BatchPlaces
  <2>2. main' \in MainSet /\ main'.pc = "ring" /\ Control(main, main')
    BY <1>4, <1>8, <2>1, MovesOn
  <2>3. SerialInv'
    BY <1>2, <1>7, <2>2 DEF SerialInv, OutputIsSerial, FailuresAreReal, Reference, Control
  <2> QED BY <1>2, <1>7, <1>8, <2>2, <2>3, BatchPasses DEF Kept, Control
<1>9. CASE /\ Plannable
           /\ batch' = [batch EXCEPT !.plans = Append(@, p), !.defs = DefsAfter(b, next_id, @),
                                     !.blocks = BlocksAfter(b, @)]
           /\ next_id' = next_id + 1 /\ main' = main
  <2>1. /\ Len(consumed) + Len(batch.plans) + 1 \in DOMAIN input
        /\ CanPlan(b, batch.defs) /\ b \in BlockSet
    <3>1. Located(Len(consumed) + Len(batch.plans) + 1) /\ CanPlan(b, batch.defs)
      BY <1>1, <1>9 DEF Plannable
    <3>2. Len(consumed) + Len(batch.plans) + 1 \in DOMAIN input
      BY <1>4, <1>7, <3>1 DEF Located
    <3> QED BY <1>1, <1>4, <3>1, <3>2
  <2>2. /\ j \in JobSet
        /\ b.kind = "raw" => j = NoJob
        /\ b.kind # "raw" => /\ j = Job(b, next_id, batch.start, batch.defs, batch.blocks)
                             /\ j # NoJob /\ j.blk = b /\ j.id = next_id
    BY <1>1, <1>4, <2>1, JobTypes, EmptyTypes
  <2>3. p \in PlanSet /\ p.blk = b /\ p.job = j
    BY ONLY <1>1, <2>1, <2>2 DEF PlanSet
  <2>4. DefsAfter(b, next_id, batch.defs) \in DefsSet /\ BlocksAfter(b, batch.blocks) \in BlocksSet
    BY <1>4, <2>1, DefsTypes
  <2>5. /\ batch' \in BatchSet /\ batch'.plans = Append(batch.plans, p)
        /\ batch'.start = batch.start /\ batch'.hist = batch.hist
        /\ batch'.defs = DefsAfter(b, next_id, batch.defs)
        /\ batch'.blocks = BlocksAfter(b, batch.blocks) /\ batch'.ring = batch.ring
        /\ batch'.handed = batch.handed /\ batch'.done = batch.done
    <3>1. Append(batch.plans, p) \in Seq(PlanSet)
      BY <1>4, <2>3
    <3>2. batch' = [batch EXCEPT !.plans = Append(@, p), !.defs = DefsAfter(b, next_id, @),
                                 !.blocks = BlocksAfter(b, @)]
      BY <1>9
    <3> QED BY ONLY <1>4, <2>4, <3>1, <3>2 DEF BatchSet
  <2>6. /\ Len(batch'.plans) = n /\ Len(batch.plans) \in Nat
        /\ batch'.plans[n] = p
        /\ \A i \in DOMAIN batch.plans : i \in DOMAIN batch'.plans /\ batch'.plans[i] = batch.plans[i]
        /\ DOMAIN batch'.plans = DOMAIN batch.plans \union {n}
    BY <1>7, <2>3, <2>5, PlansGrow
  <2>7. next_id' = next_id + 1 /\ next_id' \in Nat /\ next_id <= next_id' /\ main' = main
    BY <1>4, <1>9
  <2>8. TypeInv'
    BY <1>2, <2>5, <2>7, Zenon DEF TypeInv
  <2>9. DecInv' /\ TaskInv' /\ IdInv'
    <3>1. main.pc \notin {"lits", "wait"}
      BY <1>2
    <3> QED BY <1>2, <2>7, <3>1, CellsRetired
  <2>10. ApartInv'
    BY <1>2, <2>5, ApartSame
  <2>11. PICK H, F \in [Nat -> Nat] :
          \E S : CellsOk(cell, next_id, H, F) /\ BatchLine(H, F, S)
    BY GhostIs
  <2>12. PICK S : CellsOk(cell, next_id, H, F) /\ BatchLine(H, F, S)
    BY <2>11
  <2>13. next_id >= 1
    <3>1. batch.start.id \in 0 .. next_id - 1
      BY <1>7, <2>12 DEF BatchLine, Line
    <3> QED BY ONLY <3>1, <1>5
  <2>14. PlanOk(next_id', p)
    <3>1. p.job # NoJob => p.job.id \in 1 .. next_id' - 1
      <4>1. p.job # NoJob => p.job.id = next_id
        BY <2>2, <2>3
      <4> QED BY ONLY <4>1, <1>5, <2>7, <2>13
    <3> QED BY <2>2, <2>3, <3>1 DEF PlanOk
  <2>15. \A i \in DOMAIN batch.plans : PlanOk(next_id, batch.plans[i])
    BY <1>7 DEF BatchInv
  <2>16. \A i \in DOMAIN batch.plans : PlanOk(next_id', batch.plans[i])
    <3>1. ASSUME NEW i \in DOMAIN batch.plans, batch.plans[i].job # NoJob
          PROVE  batch.plans[i].job.id \in 1 .. next_id' - 1
      <4>1. batch.plans[i].job.id \in 1 .. next_id - 1
        BY <2>15, <3>1 DEF PlanOk
      <4> QED BY ONLY <4>1, <1>5, <2>7
    <3> QED BY <2>15, <3>1 DEF PlanOk
  <2>17. BatchInv'
    <3>1. main'.pc = "plan" /\ main'.pc \notin Stage3Places \union {"raw"}
      BY <1>2, <2>7 DEF Stage3Places
    <3>2. ASSUME NEW i \in DOMAIN batch'.plans
          PROVE  /\ PlanOk(next_id', batch'.plans[i])
                 /\ Len(consumed) - 0 + i \in DOMAIN input
                 /\ batch'.plans[i].blk = input[Len(consumed) - 0 + i]
      <4>1. CASE i = n
        <5>1. Len(consumed) - 0 + n = Len(consumed) + Len(batch.plans) + 1
          BY ONLY <1>6
        <5> QED BY <1>1, <2>1, <2>3, <2>6, <2>14, <4>1, <5>1
      <4>2. CASE i # n
        <5>1. i \in DOMAIN batch.plans /\ batch'.plans[i] = batch.plans[i]
          BY <2>6, <4>2
        <5> QED BY <1>7, <2>16, <5>1 DEF BatchInv
      <4> QED BY <4>1, <4>2
    <3>3. 0 <= Len(batch'.plans) /\ 0 <= Len(consumed) /\ Len(batch'.ring) = 0
      <4>1. Len(batch'.ring) = 0
        BY <1>7, <2>5
      <4>2. batch'.plans \in Seq(PlanSet)
        BY <2>5 DEF BatchSet
      <4>3. 0 <= Len(batch'.plans)
        BY ONLY <4>2
      <4>4. 0 <= Len(consumed)
        BY ONLY <1>6
      <4> QED BY <4>1, <4>3, <4>4
    <3>4. batch'.done = 0 /\ batch'.handed = 0 /\ batch'.ring = <<>>
      BY <1>7, <2>5
    <3>5. \A k \in batch'.done + 1 .. batch'.done + Len(batch'.ring) : FALSE
      BY ONLY <3>3, <3>4
    <3> QED BY <1>2, <3>1, <3>2, <3>3, <3>4, <3>5 DEF BatchInv
  <2>18. FreshInv'
    <3>1. ASSUME NEW i \in DOMAIN batch.plans, batch.plans[i].job # NoJob
          PROVE  batch.plans[i].job.id \in 1 .. next_id - 1
      BY <2>15, <3>1 DEF PlanOk
    <3>2. NoJob.id = -1 /\ -1 \notin 1 .. next_id - 1 /\ next_id \notin 1 .. next_id - 1
          /\ next_id # -1
      BY <1>4, EmptyTypes
    <3>3. ASSUME NEW i \in DOMAIN batch'.plans, NEW k \in DOMAIN batch'.plans,
                 batch'.plans[i].job.id = batch'.plans[k].job.id, batch'.plans[i].job # NoJob
          PROVE  i = k
      <4>1. CASE i = n /\ k # n
        <5>1. batch'.plans[i].job.id = next_id /\ batch'.plans[k] = batch.plans[k]
              /\ k \in DOMAIN batch.plans
          BY <2>2, <2>3, <2>6, <3>3, <4>1
        <5> QED BY <3>1, <3>2, <3>3, <5>1
      <4>2. CASE i # n /\ k = n
        <5>1. /\ batch'.plans[k].job.id \in {next_id, -1} /\ batch'.plans[i] = batch.plans[i]
              /\ i \in DOMAIN batch.plans
          BY <2>2, <2>3, <2>6, <3>2, <4>2
        <5> QED BY <3>1, <3>2, <3>3, <5>1
      <4>3. CASE i # n /\ k # n
        BY <1>7, <2>6, <3>3, <4>3 DEF FreshInv
      <4> QED BY <4>1, <4>2, <4>3
    <3>4. ASSUME NEW k \in DOMAIN batch'.plans, batch'.plans[k].job # NoJob, NEW c \in Cells
          PROVE  /\ cell[c].done # batch'.plans[k].job.id
                 /\ cell[c].lit_done # batch'.plans[k].job.id
                 /\ cell[c].job.id # batch'.plans[k].job.id
      <4>1. CASE k = n
        <5>1. batch'.plans[k].job.id = next_id
          BY <2>2, <2>3, <2>6, <3>4, <4>1
        <5>2. /\ cell[c].done \in -1 .. next_id - 1 /\ cell[c].lit_done \in -1 .. next_id - 1
              /\ cell[c].job.id \in -1 .. next_id - 1
          BY DEF IdInv
        <5>3. next_id \notin -1 .. next_id - 1
          BY ONLY <1>4
        <5> QED BY <5>1, <5>2, <5>3
      <4>2. CASE k # n
        <5>1. k \in DOMAIN batch.plans /\ batch'.plans[k] = batch.plans[k] /\ k > batch.handed
          <6>1. k \in DOMAIN batch.plans /\ batch'.plans[k] = batch.plans[k]
            BY <2>6, <4>2
          <6>2. k > 0
            BY ONLY <6>1, <1>6
          <6> QED BY <1>7, <6>1, <6>2
        <5> QED BY <1>7, <3>4, <5>1 DEF FreshInv
      <4> QED BY <4>1, <4>2
    <3> QED BY <1>2, <3>3, <3>4 DEF FreshInv
  <2>19. StageInv'
    <3>1. main'.pc \notin Stage3Places \union {"raw"}
      BY <1>2, <2>7 DEF Stage3Places
    <3> QED BY <3>1, Zenon DEF StageInv
  <2>20. PICK G, E \in [Nat -> Nat] : /\ G[next_id] = Tok(b) /\ Extends(next_id, H, G)
                                      /\ E[next_id] = Tok(b) /\ Extends(next_id, F, E)
    BY <1>4, <2>1, TokType, NamesTable
  <2>21. \E T : BatchLine(G, E, T)'
    <3>1. /\ CanPlan(p.blk, batch.defs) /\ G[next_id] = Tok(p.blk) /\ E[next_id] = Tok(p.blk)
          /\ batch'.defs = DefsAfter(p.blk, next_id, batch.defs)
          /\ batch'.blocks = BlocksAfter(p.blk, batch.blocks)
      BY <2>1, <2>3, <2>5, <2>20
    <3>2. \/ p.blk.kind = "raw" /\ p.job = NoJob
          \/ p.job = Job(p.blk, next_id, batch.start, batch.defs, batch.blocks)
      BY <2>2, <2>3
    <3>3. main'.mode = "batch" /\ scratch' = scratch /\ consumed' = consumed
      BY <1>2, <1>7, <2>7
    <3> QED BY ONLY IInv, <1>7, <2>3, <2>5, <2>7, <2>12, <2>20, <3>1, <3>2, <3>3, BatchLineGrows
  <2>22. TableInv(G, E)'
    <3>1. CellsOk(cell, next_id', G, E)
      BY <1>4, <2>7, <2>12, <2>20, CellsLater
    <3>2. main'.pc \notin {"runs", "runs_wait", "finish"}
      BY <1>2, <2>7
    <3> QED BY <1>2, <3>1, <3>2, TablesFront
  <2>23. main'.pc \notin {"left", "failed", "driver", "fill"} /\ ~main'.broke
    BY <1>2, <1>7, <2>7
  <2> QED BY <1>2, <1>7, <2>7, <2>8, <2>9, <2>10, <2>17, <2>18, <2>19, <2>21, <2>22, <2>23, BatchGoes
<1> QED BY <1>3, <1>8, <1>9

(* The first turn of the ring.                                             *)
LEMMA RingAt ==
  ASSUME NEW ring \in Seq(Nat), NEW k \in DOMAIN ring
  PROVE  RingCell(ring, k) = ring[k]
<1>1. Len(ring) \in Nat \ {0} /\ k \in 1 .. Len(ring)
  OBVIOUS
<1>2. PICK n \in Nat \ {0}, a \in Nat : n = Len(ring) /\ a = k - 1 /\ a < n
  BY ONLY <1>1
<1>3. a % n \in 0 .. n - 1 /\ a \div n \in Int /\ a = n * (a \div n) + (a % n)
  BY <1>2, DivMod
<1>4. PICK q \in Int : q = a \div n
  BY <1>3
<1>5. ~(0 < n * q /\ n * q < n) /\ ~(0 < n * (-q) /\ n * (-q) < n)
  <2>1. -q \in Int
    BY <1>4
  <2> QED BY <1>2, <1>4, <2>1, NoMultiple
<1>6. n * (-q) = -(n * q) /\ n * q \in Int
  BY <1>2, <1>4
<1>7. PICK m \in Int, r \in Int : m = n * q /\ r = a % n
  BY <1>3, <1>6
<1>8. a = m + r /\ r \in 0 .. n - 1 /\ ~(0 < m /\ m < n) /\ ~(0 < -m /\ -m < n)
  BY <1>3, <1>4, <1>5, <1>6, <1>7
<1>9. r = a
  BY ONLY <1>8, <1>2, m \in Int, r \in Int
<1>10. ((k - 1) % Len(ring)) + 1 = k
  <2>1. (k - 1) % Len(ring) = k - 1
    BY <1>2, <1>7, <1>9
  <2> QED BY <1>1, <2>1
<1> QED BY <1>10 DEF RingCell

(* A cell for the ring.                                                    *)
LEMMA TakeRingStep ==
  ASSUME IInv, TakeRing
  PROVE  IInv'
<1> USE InvParts
<1>1. PICK t : t = TakeCell(free, ncells, MaxCells)
  OBVIOUS
<1>2. /\ main.pc = "ring" /\ input' = input /\ consumed' = consumed /\ out' = out
      /\ scratch' = scratch /\ chain' = chain /\ next_id' = next_id /\ calls' = calls
      /\ cell' = cell /\ tasks' = tasks /\ worker' = worker /\ dec' = dec
  BY Zenon DEF TakeRing
<1>3. \/ /\ Len(batch.ring) < Depth /\ Len(batch.ring) < Len(batch.plans) /\ t.cell # 0
         /\ free' = t.free /\ ncells' = t.ncells
         /\ batch' = [batch EXCEPT !.ring = Append(@, t.cell)] /\ main' = main
      \/ /\ ~(Len(batch.ring) < Depth /\ Len(batch.ring) < Len(batch.plans))
         /\ main' = [main EXCEPT !.pc = "spawn"]
         /\ free' = free /\ ncells' = ncells /\ batch' = batch
  BY <1>1, Zenon DEF TakeRing
<1>4. /\ main \in MainSet /\ batch \in BatchSet /\ next_id \in Nat /\ ncells \in Nat
      /\ batch.ring \in Seq(Nat) /\ batch.plans \in Seq(PlanSet)
  BY DEF TypeInv, BatchSet
<1>5. Len(batch.ring) \in Nat /\ Len(batch.plans) \in Nat
  BY <1>4
<1>6. main.mode = "batch" /\ batch.handed = 0 /\ batch.done = 0 /\ ~main.broke
      /\ Len(batch.ring) <= Len(batch.plans)
  BY <1>2 DEF ModeInv, BatchPlaces, BatchInv, SerialInv
<1>7. CASE /\ ~(Len(batch.ring) < Depth /\ Len(batch.ring) < Len(batch.plans))
           /\ main' = [main EXCEPT !.pc = "spawn"]
           /\ free' = free /\ ncells' = ncells /\ batch' = batch
  <2>1. "spawn" \in Places
    BY DEF Places, BatchPlaces
  <2>2. main' \in MainSet /\ main'.pc = "spawn" /\ Control(main, main')
    BY <1>4, <1>7, <2>1, MovesOn
  <2>3. SerialInv'
    BY <1>2, <1>6, <2>2 DEF SerialInv, OutputIsSerial, FailuresAreReal, Reference, Control
  <2>4. Len(batch.plans) # 0 => Len(batch.ring) # 0
    <3>1. Depth >= 1 /\ Depth \in Nat
      BY DepthType
    <3> QED BY ONLY <1>5, <1>7, <3>1
  <2>5. batch.handed <= Len(batch.ring)
    BY <1>5, <1>6
  <2> QED BY <1>2, <1>6, <1>7, <2>2, <2>3, <2>4, <2>5, BatchPasses DEF Kept, Control
<1>8. CASE /\ Len(batch.ring) < Depth /\ Len(batch.ring) < Len(batch.plans) /\ t.cell # 0
           /\ free' = t.free /\ ncells' = t.ncells
           /\ batch' = [batch EXCEPT !.ring = Append(@, t.cell)] /\ main' = main
  <2>1. /\ t.cell \in Cells /\ t.cell \in 1 .. t.ncells
        /\ t.ncells \in Nat /\ ncells <= t.ncells /\ t.ncells <= MaxCells
        /\ Quiet(t.cell) /\ t.cell \notin QueueCells /\ t.cell \notin RingCells
        /\ t.free \in Seq(Nat)
        /\ \A k \in DOMAIN t.free : /\ t.free[k] \in 1 .. ncells /\ t.free[k] # t.cell
                                    /\ t.free[k] \notin QueueCells /\ t.free[k] \notin RingCells
        /\ \A i, k \in DOMAIN t.free : t.free[i] = t.free[k] => i = k
    <3>1. MaxCells \in Nat /\ MaxCells <= MaxCells /\ main.pc \notin {"lits", "wait"}
      BY <1>2, DepthType
    <3> QED BY <1>1, <1>8, <3>1, TakenCell
  <2>2. PICK c : c = t.cell
    OBVIOUS
  <2>3. c \in Nat /\ c \in 1 .. ncells' /\ ncells' \in Nat /\ ncells <= ncells' /\ ncells' <= MaxCells
    BY <1>8, <2>1, <2>2
  <2>4. /\ batch' \in BatchSet /\ batch'.ring = Append(batch.ring, c)
        /\ batch'.plans = batch.plans /\ batch'.start = batch.start /\ batch'.hist = batch.hist
        /\ batch'.defs = batch.defs /\ batch'.blocks = batch.blocks
        /\ batch'.handed = batch.handed /\ batch'.done = batch.done
    <3>1. Append(batch.ring, c) \in Seq(Nat)
      BY <1>4, <2>3
    <3>2. batch' = [batch EXCEPT !.ring = Append(@, c)]
      BY <1>8, <2>2
    <3> QED BY ONLY <1>4, <3>1, <3>2 DEF BatchSet
  <2> DEFINE n == Len(batch.ring) + 1
  <2>5. /\ batch'.ring \in Seq(Nat) /\ Len(batch'.ring) = n /\ batch'.ring[n] = c
        /\ DOMAIN batch'.ring = DOMAIN batch.ring \union {n}
        /\ \A k \in DOMAIN batch.ring : batch'.ring[k] = batch.ring[k]
    BY <1>4, <2>3, <2>4
  <2>6. TypeInv'
    BY <1>2, <1>8, <2>1, <2>4, Zenon DEF TypeInv
  <2>7. DecInv' /\ TaskInv' /\ IdInv'
    <3>1. DecInv'
      <4>1. ASSUME NEW th \in Threads, dec[th] # NoDecode PROVE dec[th].cell \in 1 .. ncells'
        <5>1. dec[th].cell \in 1 .. ncells
          BY <4>1 DEF DecInv
        <5> QED BY ONLY <5>1, <1>4, <2>3
      <4> QED BY <1>2, <1>8, <4>1 DEF DecInv
    <3>2. IdInv'
      BY <1>2 DEF IdInv
    <3>3. TaskInv'
      <4>1. \A i \in DOMAIN tasks : tasks[i].cell \in 1 .. ncells'
        <5>1. \A i \in DOMAIN tasks : tasks[i].cell \in 1 .. ncells
          BY DEF TaskInv
        <5> QED BY ONLY <5>1, <1>4, <2>3
      <4>2. ASSUME NEW w \in Workers PROVE worker[w].cell <= ncells'
        <5>1. worker[w].cell <= ncells /\ worker[w].cell \in Nat
          BY DEF TaskInv, TypeInv, TaskSet
        <5> QED BY ONLY <5>1, <1>4, <2>3
      <4>3. \A i \in DOMAIN tasks : tasks[i].ticket \in Nat
        BY DEF TaskInv
      <4>4. \A x \in Cells : \A k \in Nat : cell[x].claim = Planned(k) =>
              /\ cell[x].done # k /\ cell[x].job.id = k
              /\ \E i \in DOMAIN tasks : tasks[i].cell = x /\ tasks[i].ticket = k
        BY DEF TaskInv
      <4> QED BY <1>2, <2>3, <4>1, <4>2, <4>3, <4>4 DEF TaskInv
    <3> QED BY <3>1, <3>2, <3>3
  <2>8. ApartInv'
    <3>1. RingCells' = RingCells \union {c}
      <4>1. \A x : x \in RingCells' <=> x \in RingCells \/ x = c
        BY <2>5 DEF RingCells
      <4> QED BY <4>1
    <3>2. DOMAIN chain.queue = {} /\ QueueCells' = QueueCells /\ chain' = chain
      <4>1. chain = NoChain
        BY <1>6 DEF ModeInv
      <4>2. DOMAIN chain.queue = {}
        BY <4>1, EmptyRuns
      <4> QED BY <1>2, <4>2 DEF QueueCells
    <3>3. \A k \in DOMAIN free' : /\ free'[k] \in 1 .. ncells'
                                  /\ free'[k] \notin QueueCells' /\ free'[k] \notin RingCells'
      <4>1. \A k \in DOMAIN t.free : t.free[k] \in 1 .. ncells'
        BY <1>4, <2>1, <2>3
      <4> QED BY <1>8, <2>1, <2>2, <3>1, <3>2, <4>1
    <3>4. \A k \in DOMAIN batch'.ring : batch'.ring[k] \in 1 .. ncells'
      <4>1. \A k \in DOMAIN batch.ring : batch.ring[k] \in 1 .. ncells
        BY DEF ApartInv
      <4>2. \A k \in DOMAIN batch.ring : batch.ring[k] \in 1 .. ncells'
        BY <1>4, <2>3, <4>1
      <4> QED BY <2>3, <2>5, <4>2
    <3>5. ASSUME NEW j \in DOMAIN batch'.ring, NEW k \in DOMAIN batch'.ring,
                 batch'.ring[j] = batch'.ring[k]
          PROVE  j = k
      <4>1. \A x \in DOMAIN batch.ring : batch.ring[x] # c
        BY <2>1, <2>2 DEF RingCells
      <4> QED BY <2>5, <3>5, <4>1 DEF ApartInv
    <3> QED BY <1>8, <2>1, <3>2, <3>3, <3>4, <3>5 DEF ApartInv
  <2>9. BatchInv'
    <3>1. \A k \in DOMAIN batch'.ring : Quiet(batch'.ring[k])
      <4>1. ASSUME NEW k \in DOMAIN batch.ring PROVE Quiet(batch.ring[k])
        <5>1. k \in batch.done + 1 .. batch.done + Len(batch.ring) /\ ~(k <= batch.handed)
          <6>1. k \in 1 .. Len(batch.ring)
            BY <1>4
          <6> QED BY ONLY <6>1, <1>5, <1>6
        <5>2. Quiet(RingCell(batch.ring, k))
          BY <1>2, <1>6, <5>1 DEF BatchInv, Handed
        <5> QED BY <1>4, <5>2, RingAt
      <4> QED BY <2>1, <2>2, <2>5, <4>1
    <3>2. ASSUME NEW k \in 1 .. n
          PROVE  Quiet(RingCell(batch'.ring, k))
      <4>1. k \in DOMAIN batch'.ring
        BY <2>5
      <4>2. RingCell(batch'.ring, k) = batch'.ring[k]
        BY <2>5, <4>1, RingAt
      <4> QED BY <3>1, <4>1, <4>2
    <3>3. (\A j \in batch.done + 1 .. batch.done + Len(batch.ring) :
              IF Handed(j) THEN Live(RingCell(batch.ring, j), batch.plans[j].job)
              ELSE Quiet(RingCell(batch.ring, j)))'
      <4>1. ASSUME NEW j \in batch'.done + 1 .. batch'.done + Len(batch'.ring)
            PROVE  Quiet(RingCell(batch'.ring, j)) /\ ~Handed(j)'
        <5>1. batch'.done = 0 /\ batch'.handed = 0
          BY <1>6, <2>4
        <5>2. j \in 1 .. n /\ ~(j <= 0)
          BY ONLY <1>5, <2>5, <4>1, <5>1
        <5> QED BY <3>2, <5>1, <5>2 DEF Handed
      <4> QED BY <1>2, <4>1 DEF Quiet
    <3>4. main'.pc = "ring" /\ main'.pc \notin Stage3Places \union {"raw"}
      BY <1>2, <1>8 DEF Stage3Places
    <3>5. /\ \A i \in DOMAIN batch'.plans :
                /\ PlanOk(next_id', batch'.plans[i])
                /\ Len(consumed') - batch'.done + i \in DOMAIN input'
                /\ batch'.plans[i].blk = input'[Len(consumed') - batch'.done + i]
          /\ batch'.done <= Len(batch'.plans) /\ batch'.done <= Len(consumed')
      BY <1>2, <1>6, <2>4 DEF BatchInv
    <3>6. Len(batch'.ring) <= Len(batch'.plans)
      <4>1. Len(batch'.ring) = Len(batch.ring) + 1 /\ Len(batch'.plans) = Len(batch.plans)
            /\ Len(batch.ring) < Len(batch.plans)
        BY <1>8, <2>4, <2>5
      <4> QED BY ONLY <1>5, <4>1
    <3>7. batch'.handed = 0 /\ batch'.done = 0
      BY <1>6, <2>4
    <3> QED BY <3>3, <3>4, <3>5, <3>6, <3>7 DEF BatchInv
  <2>10. FreshInv'
    BY <1>2, <1>6, <2>4 DEF FreshInv
  <2>11. StageInv'
    <3>1. main'.pc \notin Stage3Places \union {"raw"}
      BY <1>2, <1>8 DEF Stage3Places
    <3> QED BY <3>1, Zenon DEF StageInv
  <2>12. PICK H, F \in [Nat -> Nat] : \E S : CellsOk(cell, next_id, H, F) /\ BatchLine(H, F, S)
    BY GhostIs
  <2>13. PICK S : CellsOk(cell, next_id, H, F) /\ BatchLine(H, F, S)
    BY <2>12
  <2>14. BatchLine(H, F, S)'
    BY <1>2, <1>6, <2>4, <2>13, BatchLineSame
  <2>15. TableInv(H, F)'
    BY <1>2, <1>8, <2>13, TablesFront
  <2>16. main'.pc \notin {"left", "failed", "driver", "fill"} /\ ~main'.broke /\ main'.mode = "batch"
         /\ main'.end = main.end
    BY <1>2, <1>6, <1>8
  <2> QED BY <1>2, <1>6, <2>6, <2>7, <2>8, <2>9, <2>10, <2>11, <2>14, <2>15, <2>16, BatchGoes
<1> QED BY <1>3, <1>7, <1>8

(* The cells that hold the batch's blocks, one more handed out.            *)
LEMMA SpawnedCells ==
  ASSUME IInv, main.mode = "batch", main.pc # "scope", Len(batch.ring) # 0,
         NEW i, i = batch.handed + 1, i \in batch.done + 1 .. batch.done + Len(batch.ring),
         NEW c, c = RingCell(batch.ring, i), NEW job, job = batch.plans[i].job,
         dec' = dec, batch'.ring = batch.ring,
         batch'.plans = batch.plans, batch'.done = batch.done, batch'.handed = i,
         \A x \in Cells : x # c => cell'[x] = cell[x],
         i <= Len(batch.plans) /\ job # NoJob => Live(c, job)',
         ~(i <= Len(batch.plans) /\ job # NoJob) => cell'[c] = cell[c]
  PROVE  (\A j \in batch.done + 1 .. batch.done + Len(batch.ring) :
              IF Handed(j) THEN Live(RingCell(batch.ring, j), batch.plans[j].job)
              ELSE Quiet(RingCell(batch.ring, j)))'
<1> USE InvParts
<1>1. batch.handed \in Nat /\ batch.done \in Nat
  BY DEF TypeInv, BatchSet
<1>2. Len(batch.ring) \in Nat \ {0} /\ Len(batch.plans) \in Nat /\ i \in Nat \ {0}
      /\ batch.ring \in Seq(Nat)
  <2>1. batch.ring \in Seq(Nat) /\ batch.plans \in Seq(PlanSet)
    BY DEF TypeInv, BatchSet
  <2> QED BY <1>1, <2>1
<1>3. \A j \in batch.done + 1 .. batch.done + Len(batch.ring) :
        IF Handed(j) THEN Live(RingCell(batch.ring, j), batch.plans[j].job)
        ELSE Quiet(RingCell(batch.ring, j))
  BY Zenon DEF BatchInv
<1>4. ASSUME NEW j \in batch.done + 1 .. batch.done + Len(batch.ring), j # i,
             NEW x, x = RingCell(batch.ring, j), NEW k, k = batch.plans[j].job
      PROVE  IF Handed(j)' THEN Live(x, k)' ELSE Quiet(x)'
  <2>1. j \in Nat \ {0} /\ (i < j \/ j < i) /\ i < j + Len(batch.ring) /\ j < i + Len(batch.ring)
    BY ONLY <1>1, <1>2, <1>4, i \in batch.done + 1 .. batch.done + Len(batch.ring)
  <2>2. x # c /\ x \in Cells
    <3>1. \A u, v \in DOMAIN batch.ring : batch.ring[u] = batch.ring[v] => u = v
      BY DEF ApartInv
    <3>2. x # c
      <4>1. \A a, b \in Nat \ {0} : a < b /\ b < a + Len(batch.ring) =>
              RingCell(batch.ring, a) # RingCell(batch.ring, b)
        <5>1. ASSUME NEW a \in Nat \ {0}
              PROVE  \A b \in Nat : a < b /\ b < a + Len(batch.ring) =>
                        RingCell(batch.ring, a) # RingCell(batch.ring, b)
          BY ONLY <1>2, <3>1, <5>1, RingTurns
        <5> QED BY <5>1
      <4> QED BY <1>2, <1>4, <2>1, <4>1
    <3>3. x \in Cells
      BY <1>2, <1>4, <2>1, BatchCell
    <3> QED BY <3>2, <3>3
  <2>3. j <= i <=> j <= batch.handed
    BY ONLY <1>1, <1>4, <2>1, i = batch.handed + 1
  <2>4. Handed(j)' <=> Handed(j)
    BY <2>3 DEF Handed
  <2>5. Live(x, k)' <=> Live(x, k)
    BY <2>2 DEF Live
  <2>6. Quiet(x)' <=> Quiet(x)
    BY <2>2 DEF Quiet
  <2>7. IF Handed(j) THEN Live(x, k) ELSE Quiet(x)
    BY <1>3, <1>4
  <2> QED BY <2>4, <2>5, <2>6, <2>7
<1>5. IF Handed(i)' THEN Live(c, job)' ELSE Quiet(c)'
  <2>1. Handed(i)' <=> i <= Len(batch.plans) /\ job # NoJob
    BY <1>2 DEF Handed
  <2>2. ~Handed(i)
    <3>1. ~(i <= batch.handed)
      BY ONLY <1>1, i = batch.handed + 1
    <3> QED BY <3>1 DEF Handed
  <2>3. Quiet(c)
    BY <1>3, <2>2
  <2>4. cell'[c] = cell[c] => Quiet(c)'
    BY <2>3 DEF Quiet
  <2> QED BY <2>1, <2>4
<1>6. \A j \in batch.done + 1 .. batch.done + Len(batch.ring) :
        \A x, k : x = RingCell(batch.ring, j) /\ k = batch.plans[j].job =>
            IF Handed(j)' THEN Live(x, k)' ELSE Quiet(x)'
  BY <1>4, <1>5
<1> QED BY <1>6 DEF Live, Quiet, Handed

(* The batch's next block is handed its cell, and the thread goes on.      *)
LEMMA SpawnDecodeStep ==
  ASSUME IInv, SpawnDecode, main.mode = "batch", main.pc \in {"spawn", "front"},
         Len(batch.ring) # 0,
         batch.handed + 1 \in batch.done + 1 .. batch.done + Len(batch.ring),
         main' \in MainSet, main'.mode = "batch", main'.end = main.end, ~main'.broke,
         main'.pc \in {"spawn", "raw", "take"}, main'.pc = "spawn" => main.pc = "spawn",
         main'.pc # "spawn" => /\ batch.handed + 1 = batch.done + Len(batch.ring)
                               /\ batch.done < Len(batch.plans),
         StageInv',
         input' = input, consumed' = consumed, out' = out, scratch' = scratch, chain' = chain,
         next_id' = next_id, calls' = calls, free' = free, ncells' = ncells,
         worker' = worker, dec' = dec
  PROVE  IInv'
<1> USE InvParts
<1>1. PICK i, c, j : /\ i = batch.handed + 1 /\ c = RingCell(batch.ring, i)
                     /\ j = batch.plans[i].job
  OBVIOUS
<1>2. /\ batch' = [batch EXCEPT !.handed = i]
      /\ \/ /\ i <= Len(batch.plans) /\ j # NoJob
            /\ cell' = [cell EXCEPT ![c] = Hand(@, j, i = 1)]
            /\ tasks' = Append(tasks, [cell |-> c, ticket |-> j.id])
         \/ /\ ~(i <= Len(batch.plans) /\ j # NoJob)
            /\ cell' = cell /\ tasks' = tasks
  BY <1>1 DEF SpawnDecode
<1>3. /\ batch \in BatchSet /\ cell \in [Cells -> CellSet] /\ tasks \in Seq(TaskSet)
  BY DEF TypeInv
<1>4. batch.handed \in Nat /\ batch.done \in Nat /\ next_id \in Nat /\ ncells \in Nat /\ ncells <= MaxCells
  BY DEF TypeInv, BatchSet, TaskInv
<1>5. Len(batch.ring) \in Nat \ {0} /\ Len(batch.plans) \in Nat /\ i \in Nat \ {0}
      /\ DOMAIN batch.plans = 1 .. Len(batch.plans)
  <2>1. batch.ring \in Seq(Nat) /\ batch.plans \in Seq(PlanSet)
    BY <1>3 DEF BatchSet
  <2> QED BY <1>1, <1>4, <2>1
<1>6. /\ batch' \in BatchSet /\ batch'.ring = batch.ring
      /\ batch'.plans = batch.plans /\ batch'.start = batch.start /\ batch'.hist = batch.hist
      /\ batch'.defs = batch.defs /\ batch'.blocks = batch.blocks
      /\ batch'.handed = i /\ batch'.done = batch.done
  <2>1. batch' = [batch EXCEPT !.handed = i] /\ i \in Nat
    BY <1>2, <1>5
  <2> QED BY ONLY <1>3, <2>1 DEF BatchSet
<1>7. c \in Cells /\ c \in 1 .. ncells
  BY <1>1, <1>5, BatchCell
<1>8. Quiet(c)
  <2>1. ~Handed(i)
    <3>1. ~(i <= batch.handed)
      BY ONLY <1>1, <1>4
    <3> QED BY <3>1 DEF Handed
  <2> QED BY <1>1, <2>1 DEF BatchInv
<1>9. PICK H, F \in [Nat -> Nat] : \E S : CellsOk(cell, next_id, H, F) /\ BatchLine(H, F, S)
  BY GhostIs
<1>10. PICK S : CellsOk(cell, next_id, H, F) /\ BatchLine(H, F, S)
  BY <1>9
<1>11. main.pc \notin {"lits", "wait"} /\ next_id <= next_id' /\ next_id' \in Nat
  <2>1. next_id <= next_id' /\ next_id' \in Nat
    BY ONLY <1>4, next_id' = next_id
  <2> QED BY <2>1
<1>12. /\ cell' \in [Cells -> CellSet] /\ tasks' \in Seq(TaskSet)
       /\ DecInv' /\ TaskInv' /\ IdInv'
       /\ \A x \in Cells : x # c => cell'[x] = cell[x]
       /\ i <= Len(batch.plans) /\ j # NoJob => Live(c, j)'
       /\ ~(i <= Len(batch.plans) /\ j # NoJob) => cell'[c] = cell[c]
       /\ cell'[c].done = cell[c].done /\ cell'[c].lit_done = cell[c].lit_done
       /\ CellsOk(cell', next_id', H, F)
  <2>1. CASE /\ i <= Len(batch.plans) /\ j # NoJob
             /\ cell' = [cell EXCEPT ![c] = Hand(@, j, i = 1)]
             /\ tasks' = Append(tasks, [cell |-> c, ticket |-> j.id])
    <3>1. PICK next : next = (i = 1)
      OBVIOUS
    <3>2. i \in DOMAIN batch.plans
      BY ONLY <1>5, <2>1
    <3>3. j \in JobSet
      <4>1. batch.plans \in Seq(PlanSet)
        BY <1>3 DEF BatchSet
      <4>2. batch.plans[i] \in PlanSet
        BY ONLY <3>2, <4>1
      <4> QED BY <1>1, <4>2 DEF PlanSet
    <3>4. j.id \in Nat /\ j.id \in 1 .. next_id - 1
      BY <1>1, <2>1, <3>2, BatchJob
    <3>5. j.id < next_id'
      BY ONLY <1>4, <3>4, next_id' = next_id
    <3>6. cell[c].done # j.id /\ cell[c].lit_done # j.id
      <4>1. i > batch.handed
        BY ONLY <1>1, <1>4
      <4> QED BY <1>1, <1>7, <2>1, <3>2, <4>1 DEF FreshInv
    <3>7. /\ cell' = [cell EXCEPT ![c] = Hand(@, j, next)] /\ next \in BOOLEAN
          /\ tasks' = Append(tasks, [cell |-> c, ticket |-> j.id])
      BY <2>1, <3>1
    <3>8. /\ ncells' \in Nat /\ ncells <= ncells' /\ ncells' <= MaxCells /\ c \in 1 .. ncells'
          /\ dec' = dec /\ worker' = worker
      BY <1>4, <1>7
    <3>9. /\ cell' \in [Cells -> CellSet] /\ tasks' \in Seq(TaskSet)
          /\ DecInv' /\ TaskInv' /\ IdInv'
          /\ cell'[c].job = j /\ cell'[c].claim = Planned(j.id)
          /\ cell'[c].done = cell[c].done /\ cell'[c].lit_done = cell[c].lit_done
          /\ \A x \in Cells : x # c => cell'[x] = cell[x]
          /\ \A N, A, B : CellsOk(cell, N, A, B) /\ JobOk(N, A, B, j) => CellsOk(cell', N, A, B)
      BY ONLY IInv, <1>7, <1>8, <1>11, <3>3, <3>4, <3>5, <3>6, <3>7, <3>8, HandsInto
    <3>10. JobOk(next_id, H, F, j)
      <4>1. UsesOk(next_id, H, F, batch.plans[i], S[i])
        BY <1>10, <3>2 DEF BatchLine, Line
      <4> QED BY <1>1, <2>1, <4>1 DEF UsesOk
    <3>11. Live(c, j)'
      BY <3>9 DEF Live
    <3>12. CellsOk(cell', next_id', H, F)
      BY <1>10, <3>9, <3>10
    <3> QED BY <2>1, <3>9, <3>11, <3>12
  <2>2. CASE /\ ~(i <= Len(batch.plans) /\ j # NoJob)
             /\ cell' = cell /\ tasks' = tasks
    <3>1. DecInv' /\ TaskInv' /\ IdInv'
      BY <1>11, <2>2, CellsRetired
    <3> QED BY <1>3, <1>10, <2>2, <3>1
  <2> QED BY <1>2, <2>1, <2>2
<1>13. TypeInv'
  BY <1>6, <1>12, Zenon DEF TypeInv
<1>14. ApartInv'
  BY <1>6, ApartSame
<1>15. BatchInv'
  <2>1. (\A k \in batch.done + 1 .. batch.done + Len(batch.ring) :
              IF Handed(k) THEN Live(RingCell(batch.ring, k), batch.plans[k].job)
              ELSE Quiet(RingCell(batch.ring, k)))'
    <3>1. main.pc # "scope"
      OBVIOUS
    <3>2. /\ i <= Len(batch.plans) /\ j # NoJob => Live(c, j)'
          /\ ~(i <= Len(batch.plans) /\ j # NoJob) => cell'[c] = cell[c]
      BY <1>12
    <3>3. i \in batch.done + 1 .. batch.done + Len(batch.ring)
      BY <1>1
    <3>4. \A x \in Cells : x # c => cell'[x] = cell[x]
      BY <1>12
    <3>5. dec' = dec /\ main.mode = "batch" /\ Len(batch.ring) # 0
      OBVIOUS
    <3> QED BY ONLY IInv, <1>1, <1>6, <3>1, <3>2, <3>3, <3>4, <3>5, SpawnedCells
  <2>2. /\ \A k \in DOMAIN batch'.plans :
              /\ PlanOk(next_id', batch'.plans[k])
              /\ Len(consumed') - batch'.done + k \in DOMAIN input'
              /\ batch'.plans[k].blk = input'[Len(consumed') - batch'.done + k]
        /\ batch'.done <= Len(batch'.plans) /\ batch'.done <= Len(consumed')
        /\ Len(batch'.ring) <= Len(batch'.plans)
    BY <1>6 DEF BatchInv
  <2>3. /\ main'.pc # "front" /\ main'.pc \notin {"plan", "ring"} /\ Len(batch'.ring) # 0
        /\ main'.pc = "spawn" => batch'.done = 0 /\ batch'.handed <= Len(batch'.ring)
    <3>1. main'.pc = "spawn" => batch.done = 0
      BY DEF BatchInv
    <3>2. batch.done = 0 => i <= Len(batch.ring)
      BY ONLY <1>1, <1>5, batch.handed + 1 \in batch.done + 1 .. batch.done + Len(batch.ring)
    <3> QED BY <1>6, <3>1, <3>2
  <2>4. main'.pc \in Stage3Places \union {"raw"} =>
          batch'.handed = batch'.done + Len(batch'.ring) /\ batch'.done < Len(batch'.plans)
    <3>1. main'.pc \in Stage3Places \union {"raw"} => main'.pc # "spawn"
      BY DEF Stage3Places
    <3> QED BY <1>1, <1>6, <3>1
  <2> QED BY <2>1, <2>2, <2>3, <2>4 DEF BatchInv
<1>16. FreshInv'
  <2>1. ASSUME NEW k \in DOMAIN batch.plans, k > i, batch.plans[k].job # NoJob, NEW x \in Cells
        PROVE  /\ cell'[x].done # batch.plans[k].job.id
               /\ cell'[x].lit_done # batch.plans[k].job.id
               /\ cell'[x].job.id # batch.plans[k].job.id
    <3>1. k > batch.handed /\ k # i
      <4>1. k > i /\ k \in Nat /\ i \in Nat
        BY <1>5, <2>1
      <4> QED BY ONLY <1>1, <1>4, <4>1
    <3>2. /\ cell[x].done # batch.plans[k].job.id /\ cell[x].lit_done # batch.plans[k].job.id
          /\ cell[x].job.id # batch.plans[k].job.id
      BY <2>1, <3>1 DEF FreshInv
    <3>3. CASE x # c \/ cell'[c] = cell[c]
      <4>1. cell'[x] = cell[x]
        BY <1>12, <3>3
      <4> QED BY <3>2, <4>1
    <3>4. CASE x = c /\ cell'[c] # cell[c]
      <4>1. i <= Len(batch.plans) /\ j # NoJob /\ cell'[c].job = j
        BY <1>12, <3>4 DEF Live
      <4>2. i \in DOMAIN batch.plans
        BY ONLY <1>5, <4>1
      <4>3. j.id # batch.plans[k].job.id
        BY <1>1, <2>1, <3>1, <4>1, <4>2 DEF FreshInv
      <4> QED BY <1>12, <3>2, <3>4, <4>1, <4>3
    <3> QED BY <3>3, <3>4
  <2>2. \A k, m \in DOMAIN batch.plans :
          batch.plans[k].job.id = batch.plans[m].job.id /\ batch.plans[k].job # NoJob => k = m
    BY DEF FreshInv
  <2>3. \A k \in DOMAIN batch'.plans : k > batch'.handed /\ batch'.plans[k].job # NoJob =>
          \A x \in Cells : /\ cell'[x].done # batch'.plans[k].job.id
                           /\ cell'[x].lit_done # batch'.plans[k].job.id
                           /\ cell'[x].job.id # batch'.plans[k].job.id
    BY <1>6, <2>1
  <2>4. \A k, m \in DOMAIN batch'.plans :
          batch'.plans[k].job.id = batch'.plans[m].job.id /\ batch'.plans[k].job # NoJob => k = m
    BY <1>6, <2>2
  <2> QED BY <2>3, <2>4, Zenon DEF FreshInv
<1>17. BatchLine(H, F, S)'
  BY <1>6, <1>10, BatchLineSame
<1>18. TableInv(H, F)'
  BY <1>12, TablesFront
<1>19. main'.pc \notin {"left", "failed", "driver", "fill"}
  OBVIOUS
<1> QED BY <1>12, <1>13, <1>14, <1>15, <1>16, <1>17, <1>18, <1>19, BatchGoes

(* run_batch spawns the ring's decodes.                                    *)
LEMMA SpawnRingStep ==
  ASSUME IInv, SpawnRing
  PROVE  IInv'
<1> USE InvParts
<1>1. /\ main.pc = "spawn" /\ input' = input /\ consumed' = consumed /\ out' = out
      /\ scratch' = scratch /\ chain' = chain /\ next_id' = next_id /\ calls' = calls
      /\ free' = free /\ ncells' = ncells /\ worker' = worker /\ dec' = dec
  BY Zenon DEF SpawnRing
<1>2. \/ batch.handed < Len(batch.ring) /\ SpawnDecode /\ main' = main
      \/ /\ ~(batch.handed < Len(batch.ring)) /\ main' = [main EXCEPT !.pc = "front"]
         /\ batch' = batch /\ cell' = cell /\ tasks' = tasks
  BY Zenon DEF SpawnRing
<1>3. /\ main \in MainSet /\ batch.handed \in Nat /\ batch.ring \in Seq(Nat)
  BY DEF TypeInv, BatchSet
<1>4. Len(batch.ring) \in Nat
  BY <1>3
<1>5. main.mode = "batch" /\ batch.done = 0 /\ ~main.broke /\ batch.handed <= Len(batch.ring)
      /\ (Len(batch.plans) # 0 => Len(batch.ring) # 0)
  BY <1>1 DEF ModeInv, BatchPlaces, BatchInv, SerialInv
<1>6. CASE batch.handed < Len(batch.ring) /\ SpawnDecode /\ main' = main
  <2>1. Len(batch.ring) # 0 /\ batch.handed + 1 \in batch.done + 1 .. batch.done + Len(batch.ring)
    BY ONLY <1>3, <1>4, <1>5, <1>6
  <2>2. StageInv'
    <3>1. main'.pc \notin Stage3Places \union {"raw"}
      BY <1>1, <1>6 DEF Stage3Places
    <3> QED BY <3>1, Zenon DEF StageInv
  <2> QED BY <1>1, <1>3, <1>5, <1>6, <2>1, <2>2, SpawnDecodeStep
<1>7. CASE /\ ~(batch.handed < Len(batch.ring)) /\ main' = [main EXCEPT !.pc = "front"]
           /\ batch' = batch /\ cell' = cell /\ tasks' = tasks
  <2>1. "front" \in Places
    BY DEF Places
  <2>2. main' \in MainSet /\ main'.pc = "front" /\ Control(main, main')
    BY <1>3, <1>7, <2>1, MovesOn
  <2>3. SerialInv'
    BY <1>1, <1>5, <2>2 DEF SerialInv, OutputIsSerial, FailuresAreReal, Reference, Control
  <2>4. batch.handed = Len(batch.ring)
    BY ONLY <1>3, <1>4, <1>5, <1>7
  <2> QED BY <1>1, <1>5, <1>7, <2>2, <2>3, <2>4, BatchPasses DEF Kept, Control
<1> QED BY <1>2, <1>6, <1>7

(* The block to be executed is the input's next.                           *)
LEMMA BatchNext ==
  ASSUME IInv, main.mode = "batch", batch.done < Len(batch.plans)
  PROVE  /\ batch.done + 1 \in DOMAIN batch.plans /\ Len(consumed) + 1 \in DOMAIN input
         /\ Len(consumed) < Len(input) /\ batch.plans[batch.done + 1].blk = NextBlock
         /\ batch.plans[batch.done + 1].job = NoJob <=> NextBlock.kind = "raw"
         /\ PlanOk(next_id, batch.plans[batch.done + 1])
<1> USE InvParts
<1>1. batch.done \in Nat /\ Len(consumed) \in Nat /\ Len(input) \in Nat /\ Len(batch.plans) \in Nat
      /\ DOMAIN batch.plans = 1 .. Len(batch.plans) /\ DOMAIN input = 1 .. Len(input)
  <2>1. batch.done \in Nat /\ batch.plans \in Seq(PlanSet)
    BY DEF TypeInv, BatchSet
  <2>2. consumed \in Seq(BlockSet) /\ input \in Seq(BlockSet)
    BY DEF TypeInv
  <2> QED BY <2>1, <2>2
<1>2. batch.done + 1 \in DOMAIN batch.plans /\ Len(consumed) - batch.done + (batch.done + 1) = Len(consumed) + 1
  BY ONLY <1>1, batch.done < Len(batch.plans)
<1>3. /\ PlanOk(next_id, batch.plans[batch.done + 1]) /\ Len(consumed) + 1 \in DOMAIN input
      /\ batch.plans[batch.done + 1].blk = input[Len(consumed) + 1]
  <2>1. \A i \in DOMAIN batch.plans :
              /\ PlanOk(next_id, batch.plans[i])
              /\ Len(consumed) - batch.done + i \in DOMAIN input
              /\ batch.plans[i].blk = input[Len(consumed) - batch.done + i]
    BY DEF BatchInv
  <2> QED BY <1>2, <2>1
<1>4. Len(consumed) < Len(input)
  BY ONLY <1>1, <1>3
<1> QED BY <1>2, <1>3, <1>4 DEF NextBlock, PlanOk

(* The executing thread is about to take it, or to copy it.                *)
LEMMA BatchStage ==
  ASSUME IInv, main.mode = "batch", batch.done < Len(batch.plans), input' = input,
         consumed' = consumed, batch'.plans = batch.plans, batch'.done = batch.done,
         main'.mode = "batch", main'.pc = IF NextBlock.kind = "raw" THEN "raw" ELSE "take"
  PROVE  StageInv'
<1>1. /\ Len(consumed) < Len(input)
      /\ batch.plans[batch.done + 1].job = NoJob <=> NextBlock.kind = "raw"
  BY BatchNext
<1>2. main'.pc \in {"raw", "take"} /\ (main'.pc = "raw" <=> NextBlock.kind = "raw")
  OBVIOUS
<1>3. CurEntry' = batch.plans[batch.done + 1]
  BY DEF CurEntry
<1> QED BY <1>1, <1>2, <1>3 DEF StageInv

(* The first block of the batch, its ring spawned.                         *)
LEMMA FirstFront ==
  ASSUME IInv, Kept, tasks' = tasks, worker' = worker, dec' = dec, cell' = cell,
         main.mode = "batch", main.pc = "front", batch.done = 0, 0 < Len(batch.plans),
         main' \in MainSet, main'.mode = "batch", main'.end = main.end, ~main'.broke,
         main'.pc = IF NextBlock.kind = "raw" THEN "raw" ELSE "take"
  PROVE  IInv'
<1> USE InvParts
<1>1. /\ input' = input /\ consumed' = consumed /\ out' = out /\ scratch' = scratch
      /\ chain' = chain /\ batch' = batch /\ next_id' = next_id /\ calls' = calls
      /\ free' = free /\ ncells' = ncells
  BY DEF Kept
<1>2. TypeInv'
  BY <1>1, Zenon DEF TypeInv
<1>3. DecInv' /\ TaskInv' /\ IdInv'
  <2>1. next_id \in Nat
    BY DEF TypeInv
  <2>2. next_id' \in Nat /\ next_id <= next_id'
    BY ONLY <1>1, <2>1
  <2> QED BY <1>1, <2>2, CellsRetired
<1>4. ApartInv'
  BY <1>1, ApartSame
<1>5. StageInv'
  BY <1>1, BatchStage
<1>6. main'.pc \in {"raw", "take"}
  OBVIOUS
<1>7. BatchInv'
  <2>1. \A i \in DOMAIN batch'.plans :
          /\ PlanOk(next_id', batch'.plans[i])
          /\ Len(consumed') - batch'.done + i \in DOMAIN input'
          /\ batch'.plans[i].blk = input'[Len(consumed') - batch'.done + i]
    BY <1>1 DEF BatchInv
  <2>2. /\ batch'.done <= Len(batch'.plans) /\ batch'.done <= Len(consumed')
        /\ Len(batch'.ring) <= Len(batch'.plans)
    BY <1>1 DEF BatchInv
  <2>3. (\A j \in batch.done + 1 .. batch.done + Len(batch.ring) :
            IF Handed(j) THEN Live(RingCell(batch.ring, j), batch.plans[j].job)
            ELSE Quiet(RingCell(batch.ring, j)))'
    <3>1. \A j \in batch.done + 1 .. batch.done + Len(batch.ring) :
            IF Handed(j) THEN Live(RingCell(batch.ring, j), batch.plans[j].job)
            ELSE Quiet(RingCell(batch.ring, j))
      BY Zenon DEF BatchInv
    <3> QED BY <1>1, <3>1, Zenon DEF Handed, Live, Quiet
  <2>4. Len(batch.plans) # 0 => Len(batch.ring) # 0
    BY DEF BatchInv
  <2>5. batch'.handed = batch'.done + Len(batch'.ring) /\ batch'.done < Len(batch'.plans)
    <3>1. batch.handed = Len(batch.ring) /\ batch.done = 0
      BY DEF BatchInv
    <3>2. batch.ring \in Seq(Nat)
      BY DEF TypeInv, BatchSet
    <3>3. Len(batch.ring) \in Nat
      BY ONLY <3>2
    <3>4. batch.handed = batch.done + Len(batch.ring)
      BY ONLY <3>1, <3>3
    <3> QED BY <1>1, <3>4
  <2> QED BY <1>1, <1>6, <2>1, <2>2, <2>3, <2>4, <2>5 DEF BatchInv
<1>8. FreshInv'
  BY <1>1 DEF FreshInv
<1>9. PICK H, F \in [Nat -> Nat] : \E S : CellsOk(cell, next_id, H, F) /\ BatchLine(H, F, S)
  BY GhostIs
<1>10. PICK S : CellsOk(cell, next_id, H, F) /\ BatchLine(H, F, S)
  BY <1>9
<1>11. BatchLine(H, F, S)'
  BY <1>1, <1>10, BatchLineSame
<1>12. TableInv(H, F)'
  BY <1>1, <1>6, <1>10, TablesFront
<1> QED BY <1>1, <1>2, <1>3, <1>4, <1>5, <1>6, <1>7, <1>8, <1>11, <1>12, BatchGoes

(* The caller has enough: the decodes no task has started are taken.       *)
LEMMA BatchStops ==
  ASSUME IInv, main.mode = "batch", main.pc = "front", main' = [main EXCEPT !.pc = "scope"],
         NEW W \in SUBSET Nat,
         cell' = [c \in Cells |->
                    IF \E j \in W : /\ RingCell(batch.ring, j) = c /\ j \in DOMAIN batch.plans
                                    /\ cell[c].claim = Planned(batch.plans[j].job.id)
                    THEN [cell[c] EXCEPT !.claim = @ + 1] ELSE cell[c]],
         input' = input, consumed' = consumed, out' = out, scratch' = scratch, chain' = chain,
         batch' = batch, next_id' = next_id, calls' = calls, free' = free, ncells' = ncells,
         tasks' = tasks, worker' = worker, dec' = dec
  PROVE  IInv'
<1> USE InvParts
<1>1. main \in MainSet /\ "scope" \in Places /\ cell \in [Cells -> CellSet] /\ next_id \in Nat
      /\ ~main.broke
  BY DEF TypeInv, Places, BatchPlaces, SerialInv
<1>2. main' \in MainSet /\ main'.pc = "scope" /\ Control(main, main')
  BY <1>1, MovesOn
<1>3. ASSUME NEW c \in Cells, cell'[c] # cell[c]
      PROVE  /\ cell'[c] \in CellSet /\ RetiredTo(cell[c], cell'[c])
             /\ cell'[c].job = cell[c].job /\ cell'[c].lit_done = cell[c].lit_done
             /\ cell'[c].done = cell[c].done
  <2>1. /\ cell'[c] = [cell[c] EXCEPT !.claim = @ + 1]
        /\ \E j \in W : j \in DOMAIN batch.plans /\ cell[c].claim = Planned(batch.plans[j].job.id)
    BY <1>3
  <2>2. PICK j \in DOMAIN batch.plans : cell[c].claim = Planned(batch.plans[j].job.id)
    BY <2>1
  <2>3. cell[c] \in CellSet /\ cell[c].claim \in Nat
    BY <1>1 DEF CellSet
  <2>4. batch.plans[j].job.id \in Nat
    <3>1. CASE batch.plans[j].job = NoJob
      <4>1. cell[c].claim = 2 * (-1)
        BY <2>2, <3>1, EmptyTypes DEF Planned
      <4> QED BY <2>3, <4>1
    <3>2. CASE batch.plans[j].job # NoJob
      BY <3>2, BatchJob
    <3> QED BY <3>1, <3>2
  <2>5. PICK n, k : n = [cell[c] EXCEPT !.claim = k] /\ k = cell[c].claim + 1
    OBVIOUS
  <2>6. n = cell'[c] /\ k = Taken(batch.plans[j].job.id) /\ k \in Nat
    BY <2>1, <2>2, <2>3, <2>4, <2>5, ClaimsApart
  <2>7. /\ n \in CellSet /\ n.claim = k /\ n.done = cell[c].done
        /\ SameJob(cell[c], n) /\ SameSeqs(cell[c], n) /\ SameLits(cell[c], n)
    BY <2>3, <2>5, <2>6, ClaimCell
  <2>8. RetiredTo(cell[c], n)
    BY <2>2, <2>4, <2>6, <2>7 DEF RetiredTo, SameJob
  <2> QED BY <2>6, <2>7, <2>8 DEF SameJob, SameLits
<1>4. \A c \in Cells : /\ cell'[c] \in CellSet /\ cell'[c].done = cell[c].done
                       /\ cell'[c].lit_done = cell[c].lit_done /\ cell'[c].job = cell[c].job
                       /\ cell'[c] = cell[c] \/ RetiredTo(cell[c], cell'[c])
  BY <1>1, <1>3
<1>5. cell' \in [Cells -> CellSet]
  <2>1. cell' = [c \in Cells |-> cell'[c]]
    OBVIOUS
  <2> QED BY <1>4, <2>1
<1>6. TypeInv'
  BY <1>2, <1>5, Zenon DEF TypeInv
<1>7. /\ DecInv' /\ TaskInv' /\ IdInv'
      /\ \A N, H, F : CellsOk(cell, N, H, F) => CellsOk(cell', N, H, F)
  <2>1. next_id' \in Nat /\ next_id <= next_id' /\ main.pc \notin {"lits", "wait"}
    BY <1>1
  <2> QED BY <1>4, <2>1, CellsRetired
<1>8. ApartInv'
  BY ApartSame
<1>9. BatchInv'
  <2>1. main'.pc \notin Stage3Places \union {"raw"}
    BY <1>2 DEF Stage3Places
  <2>2. /\ \A i \in DOMAIN batch'.plans :
              /\ PlanOk(next_id', batch'.plans[i])
              /\ Len(consumed') - batch'.done + i \in DOMAIN input'
              /\ batch'.plans[i].blk = input'[Len(consumed') - batch'.done + i]
        /\ batch'.done <= Len(batch'.plans) /\ batch'.done <= Len(consumed')
        /\ Len(batch'.ring) <= Len(batch'.plans)
        /\ Len(batch'.plans) # 0 => Len(batch'.ring) # 0
    BY DEF BatchInv
  <2> QED BY <1>2, <2>1, <2>2 DEF BatchInv
<1>10. FreshInv'
  BY <1>4 DEF FreshInv
<1>11. StageInv'
  <2>1. main'.pc \notin Stage3Places \union {"raw"}
    BY <1>2 DEF Stage3Places
  <2> QED BY <2>1, Zenon DEF StageInv
<1>12. PICK H, F \in [Nat -> Nat] : \E S : CellsOk(cell, next_id, H, F) /\ BatchLine(H, F, S)
  BY GhostIs
<1>13. PICK S : CellsOk(cell, next_id, H, F) /\ BatchLine(H, F, S)
  BY <1>12
<1>14. BatchLine(H, F, S)'
  BY <1>13, BatchLineSame
<1>15. TableInv(H, F)'
  BY <1>2, <1>7, <1>13, TablesFront
<1>16. /\ main'.pc \notin {"left", "failed", "driver", "fill"} /\ ~main'.broke
       /\ main'.mode = "batch" /\ main'.end = main.end
  BY <1>1, <1>2 DEF Control
<1> QED BY <1>6, <1>7, <1>8, <1>9, <1>10, <1>11, <1>14, <1>15, <1>16, BatchGoes

(* The next block of the batch.                                            *)
LEMMA BatchFrontStep ==
  ASSUME IInv, BatchFront
  PROVE  IInv'
<1> USE InvParts
<1>1. /\ main.pc = "front" /\ main.mode = "batch" /\ input' = input /\ consumed' = consumed
      /\ out' = out /\ scratch' = scratch /\ chain' = chain /\ next_id' = next_id
      /\ calls' = calls /\ free' = free /\ ncells' = ncells /\ worker' = worker /\ dec' = dec
  BY Zenon DEF BatchFront
<1>2. PICK W : W = {j \in batch.done + 1 .. Len(batch.plans) : j < batch.done + 1 + Len(batch.ring)}
  OBVIOUS
<1>3. \/ /\ main' = [main EXCEPT !.pc = "scope"]
         /\ batch' = batch /\ cell' = cell /\ tasks' = tasks
      \/ /\ main' = [main EXCEPT !.pc = "scope"]
         /\ cell' = [c \in Cells |->
                IF \E j \in W : /\ RingCell(batch.ring, j) = c
                                /\ cell[c].claim = Planned(batch.plans[j].job.id)
                THEN [cell[c] EXCEPT !.claim = @ + 1] ELSE cell[c]]
         /\ batch' = batch /\ tasks' = tasks
      \/ /\ batch.done + 1 <= Len(batch.plans)
         /\ main' = [main EXCEPT !.pc = IF NextBlock.kind = "raw" THEN "raw" ELSE "take"]
         /\ \/ batch.done + 1 = 1 /\ batch' = batch /\ cell' = cell /\ tasks' = tasks
            \/ batch.done + 1 # 1 /\ SpawnDecode
  BY <1>2 DEF BatchFront
<1>4. main \in MainSet /\ ~main.broke
  BY <1>1 DEF TypeInv, SerialInv
<1>5. batch.done \in Nat /\ Len(batch.plans) \in Nat /\ Len(batch.ring) \in Nat
      /\ DOMAIN batch.plans = 1 .. Len(batch.plans)
  <2>1. batch.done \in Nat /\ batch.plans \in Seq(PlanSet) /\ batch.ring \in Seq(Nat)
    BY DEF TypeInv, BatchSet
  <2> QED BY <2>1
<1>6. /\ Len(batch.plans) # 0 => Len(batch.ring) # 0
      /\ batch.handed = IF batch.done = 0 THEN Len(batch.ring)
                        ELSE batch.done + Len(batch.ring) - 1
  BY <1>1 DEF BatchInv
<1>7. CASE /\ main' = [main EXCEPT !.pc = "scope"]
           /\ batch' = batch /\ cell' = cell /\ tasks' = tasks
  <2>1. "scope" \in Places
    BY DEF Places, BatchPlaces
  <2>2. main' \in MainSet /\ main'.pc = "scope" /\ Control(main, main')
    BY <1>4, <1>7, <2>1, MovesOn
  <2>3. SerialInv'
    BY <1>1, <1>4, <2>2 DEF SerialInv, OutputIsSerial, FailuresAreReal, Reference, Control
  <2> QED BY <1>1, <1>6, <1>7, <2>2, <2>3, BatchPasses DEF Kept, Control
<1>8. CASE /\ main' = [main EXCEPT !.pc = "scope"]
           /\ cell' = [c \in Cells |->
                IF \E j \in W : /\ RingCell(batch.ring, j) = c
                                /\ cell[c].claim = Planned(batch.plans[j].job.id)
                THEN [cell[c] EXCEPT !.claim = @ + 1] ELSE cell[c]]
           /\ batch' = batch /\ tasks' = tasks
  <2>1. W \in SUBSET Nat /\ \A j \in W : j \in DOMAIN batch.plans
    BY ONLY <1>2, <1>5
  <2>2. cell' = [c \in Cells |->
                    IF \E j \in W : /\ RingCell(batch.ring, j) = c /\ j \in DOMAIN batch.plans
                                    /\ cell[c].claim = Planned(batch.plans[j].job.id)
                    THEN [cell[c] EXCEPT !.claim = @ + 1] ELSE cell[c]]
    BY <1>8, <2>1
  <2> QED BY <1>1, <1>8, <2>1, <2>2, BatchStops
<1>9. CASE /\ batch.done + 1 <= Len(batch.plans)
           /\ main' = [main EXCEPT !.pc = IF NextBlock.kind = "raw" THEN "raw" ELSE "take"]
           /\ \/ batch.done + 1 = 1 /\ batch' = batch /\ cell' = cell /\ tasks' = tasks
              \/ batch.done + 1 # 1 /\ SpawnDecode
  <2>1. PICK p : p = IF NextBlock.kind = "raw" THEN "raw" ELSE "take"
    OBVIOUS
  <2>2. p \in Places /\ p \in {"raw", "take"}
    BY <2>1 DEF Places, Stage3Places
  <2>3. main' \in MainSet /\ main'.pc = p /\ main'.mode = "batch" /\ main'.end = main.end /\ ~main'.broke
    BY <1>1, <1>4, <1>9, <2>1, <2>2, MovesOn DEF Control
  <2>4. batch.done < Len(batch.plans) /\ Len(batch.plans) # 0
    BY ONLY <1>5, <1>9
  <2>5. CASE batch.done + 1 = 1 /\ batch' = batch /\ cell' = cell /\ tasks' = tasks
    <3>1. batch.done = 0
      BY ONLY <1>5, <2>5
    <3> QED BY <1>1, <2>1, <2>3, <2>4, <2>5, <3>1, FirstFront DEF Kept
  <2>6. CASE batch.done + 1 # 1 /\ SpawnDecode
    <3>1. batch.done # 0
      BY ONLY <1>5, <2>6
    <3>2. Len(batch.ring) # 0 /\ batch.handed = batch.done + Len(batch.ring) - 1
      BY <1>6, <2>4, <3>1
    <3>3. /\ batch.handed + 1 \in batch.done + 1 .. batch.done + Len(batch.ring)
          /\ batch.handed + 1 = batch.done + Len(batch.ring)
      BY ONLY <1>5, <3>2
    <3>4. batch'.plans = batch.plans /\ batch'.done = batch.done
      <4>1. batch \in BatchSet
        BY DEF TypeInv
      <4>2. batch' = [batch EXCEPT !.handed = batch.handed + 1]
        BY <2>6 DEF SpawnDecode
      <4> QED BY ONLY <4>1, <4>2 DEF BatchSet
    <3>5. StageInv'
      BY <1>1, <2>1, <2>3, <2>4, <3>4, BatchStage
    <3>6. main'.pc # "spawn" /\ main'.pc \in {"spawn", "raw", "take"}
      BY <2>2, <2>3
    <3> QED BY <1>1, <2>3, <2>4, <2>6, <3>2, <3>3, <3>5, <3>6, SpawnDecodeStep
  <2> QED BY <1>9, <2>5, <2>6
<1> QED BY <1>3, <1>7, <1>8, <1>9

(* What does not change from a place on is the same at the end.            *)
LEMMA StaysFrom ==
  ASSUME NEW n \in Nat, NEW m \in 0 .. n, NEW V, \A k \in m + 1 .. n : V[k + 1] = V[k]
  PROVE  V[n + 1] = V[m + 1]
<1> DEFINE X == {k \in 1 .. n + 1 : k >= m + 1 /\ V[k] = V[m + 1]}
<1>1. m \in Nat /\ m <= n /\ m + 1 \in X /\ n + 1 \in Nat
  OBVIOUS
<1>2. Max(X) \in X /\ \A y \in X : y <= Max(X)
  <2>1. X \in SUBSET (1 .. n + 1) /\ X # {}
    BY <1>1
  <2> HIDE DEF X
  <2> QED BY <1>1, <2>1, MaxIsLargest
<1>3. PICK k : k = Max(X)
  OBVIOUS
<1>4. k \in 1 .. n + 1 /\ k >= m + 1 /\ V[k] = V[m + 1] /\ \A y \in X : y <= k
  BY <1>2, <1>3
<1>5. k \in Nat /\ k <= n + 1
  BY <1>4
<1>6. CASE k = n + 1
  BY <1>4, <1>6
<1>7. CASE k # n + 1
  <2>1. k \in m + 1 .. n
    BY <1>1, <1>4, <1>5, <1>7
  <2>2. V[k + 1] = V[k]
    BY <2>1
  <2>3. k + 1 \in 1 .. n + 1 /\ k + 1 >= m + 1
    BY ONLY <1>1, <1>5, <2>1
  <2>4. k + 1 \in X
    BY <1>4, <2>2, <2>3
  <2>5. k + 1 <= k
    BY <1>4, <2>4
  <2> QED BY ONLY <1>5, <2>5
<1> QED BY <1>6, <1>7

\* The table in use, V, stays over a block that uses none; one that uses the
\* one named D leaves that in use.
TableGoes(n, D, V, H) ==
    \A i \in 1 .. n : /\ D[i] = NoId => V[i + 1] = V[i]
                      /\ D[i] # NoId => V[i + 1] = H[D[i]]

(* The table in use after some blocks is the one the last block that used  *)
(* one used.                                                               *)
LEMMA LastUsed ==
  ASSUME NEW n \in Nat, NEW D, NEW V, NEW H, TableGoes(n, D, V, H),
         NEW used, used = {i \in 1 .. n : D[i] # NoId}
  PROVE  /\ used = {} => V[n + 1] = V[1]
         /\ used # {} => Max(used) \in used /\ V[n + 1] = H[D[Max(used)]]
<1>3. \A i \in 1 .. n : /\ D[i] = NoId => V[i + 1] = V[i]
                        /\ D[i] # NoId => V[i + 1] = H[D[i]]
  BY DEF TableGoes
<1>1. CASE used = {}
  <2>1. \A k \in 0 + 1 .. n : V[k + 1] = V[k]
    BY <1>1, <1>3
  <2>2. V[n + 1] = V[0 + 1]
    <3>1. 0 \in 0 .. n
      OBVIOUS
    <3> QED BY ONLY <2>1, <3>1, n \in Nat, StaysFrom
  <2> QED BY <1>1, <2>2
<1>2. CASE used # {}
  <2>1. Max(used) \in used /\ \A y \in used : y <= Max(used)
    <3>1. used \in SUBSET (1 .. n)
      OBVIOUS
    <3> QED BY <1>2, <3>1, MaxIsLargest
  <2>2. PICK m : m = Max(used)
    OBVIOUS
  <2>3. m \in 1 .. n /\ D[m] # NoId /\ \A y \in used : y <= m
    BY <2>1, <2>2
  <2>4. \A k \in m + 1 .. n : V[k + 1] = V[k]
    <3> SUFFICES ASSUME NEW k \in m + 1 .. n PROVE V[k + 1] = V[k]
      OBVIOUS
    <3>1. k \in 1 .. n /\ ~(k <= m)
      BY <2>3
    <3>2. D[k] = NoId
      BY <2>3, <3>1
    <3> QED BY <1>3, <3>1, <3>2
  <2>5. V[n + 1] = V[m + 1]
    <3>1. m \in 0 .. n
      BY <2>3
    <3> QED BY ONLY <2>4, <3>1, n \in Nat, StaysFrom
  <2>6. V[m + 1] = H[D[m]]
    BY <1>3, <2>3
  <2> QED BY <1>2, <2>1, <2>2, <2>5, <2>6
<1> QED BY <1>1, <1>2

(* What a planned block does to the tables in use.                         *)
LEMMA PlanUses ==
  ASSUME NEW N, NEW H, NEW F, NEW p \in PlanSet, NEW s, UsesOk(N, H, F, p, s), PlanOk(N, p)
  PROVE  /\ p.job.huf_def = NoId => HufAfter(p.blk, s) = s.huf
         /\ p.job.huf_def # NoId => HufAfter(p.blk, s) = H[p.job.huf_def]
         /\ p.job.fse_def = NoId => FseAfter(p.blk, s) = s.fse
         /\ p.job.fse_def # NoId => FseAfter(p.blk, s) = F[p.job.fse_def]
<1>1. p.blk \in BlockSet
  BY DEF PlanSet
<1>2. CASE p.job = NoJob
  <2>1. p.blk.huf = "none" /\ p.blk.fse = "none"
    BY <1>1, <1>2, TokType DEF PlanOk
  <2> QED BY <1>2, <2>1, EmptyTypes DEF HufAfter, FseAfter
<1>3. CASE p.job # NoJob
  <2>1. p.job.blk = p.blk /\ JobOk(N, H, F, p.job)
    BY <1>3 DEF PlanOk, UsesOk
  <2>2. /\ p.job.huf_def = NoId <=> p.blk.huf = "none"
        /\ p.job.fse_def = NoId <=> p.blk.fse = "none"
    BY <2>1 DEF JobOk
  <2>3. /\ p.blk.huf # "none" => H[p.job.huf_def] = HufAfter(p.blk, s)
        /\ p.blk.fse # "none" => F[p.job.fse_def] = FseAfter(p.blk, s)
    BY <1>3 DEF UsesOk, HasSeqs
  <2> QED BY <2>2, <2>3 DEF HufAfter, FseAfter
<1> QED BY <1>2, <1>3

(* The description decode_scoped finds for a table is the table's.         *)
LEMMA BatchTokIs ==
  ASSUME IInv, main.mode = "batch", NEW H, NEW F, NEW S, BatchLine(H, F, S),
         NEW d, d # NoId, d # batch.start.id, Named(d, batch)
  PROVE  BatchTok(d) = H[d] /\ BatchTok(d) = F[d]
<1> USE InvParts
<1>1. batch.plans \in Seq(PlanSet)
  BY DEF TypeInv, BatchSet
<1>2. PICK q : q = batch.plans
  OBVIOUS
<1> DEFINE of == {i \in DOMAIN q : q[i].job.id = d}
<1>3. Len(q) \in Nat /\ DOMAIN q = 1 .. Len(q)
  BY <1>1, <1>2
<1>4. of # {}
  BY <1>2 DEF Named
<1>5. Max(of) \in of
  <2>1. of \in SUBSET (1 .. Len(q))
    BY <1>3
  <2> HIDE DEF of
  <2> QED BY <1>3, <1>4, <2>1, MaxIsLargest
<1>6. BatchTok(d) = Tok(q[Max(of)].blk)
  BY <1>2, <1>4 DEF BatchTok
<1>7. PICK m : m = Max(of)
  OBVIOUS
<1>8. m \in DOMAIN q /\ q[m].job.id = d /\ q[m].job # NoJob
  BY <1>5, <1>7, EmptyTypes DEF NoId
<1>9. UsesOk(next_id, H, F, q[m], S[m]) /\ PlanOk(next_id, q[m])
  BY <1>2, <1>8 DEF BatchLine, Line, BatchInv
<1>10. q[m].job.blk = q[m].blk /\ JobOk(next_id, H, F, q[m].job)
  BY <1>8, <1>9 DEF UsesOk, PlanOk
<1> QED BY <1>6, <1>7, <1>8, <1>10 DEF JobOk

(* decode_scoped hands the serial decoder the tables in use.               *)
LEMMA BatchSyncs ==
  ASSUME IInv, main.mode = "batch"
  PROVE  SyncScratch(batch.hist, BatchDefs, batch.start,
                     [huf |-> BatchTok(BatchDefs.huf), fse |-> BatchTok(BatchDefs.fse)])
            = Reference.s
<1> USE InvParts
<1>1. PICK H, F : \E S : BatchLine(H, F, S)
  BY DEF GhostInv
<1>2. PICK S : BatchLine(H, F, S)
  BY <1>1
<1>3. /\ batch.plans \in Seq(PlanSet) /\ batch.done \in Nat /\ scratch \in ScratchSet
      /\ consumed \in Seq(BlockSet)
  BY DEF TypeInv, BatchSet
<1>4. PICK q, n, r : q = batch.plans /\ n = batch.done /\ r = batch
  OBVIOUS
<1>5. /\ Line(next_id, H, F, S, q, r) /\ H[batch.start.id] = scratch.huf
      /\ F[batch.start.id] = scratch.fse /\ S[1] = scratch /\ S[n + 1] = Reference.s
      /\ batch.hist = Reference.s.hist
      /\ \A i \in DOMAIN q : Named(q[i].job.huf_def, batch) /\ Named(q[i].job.fse_def, batch)
  BY <1>2, <1>4 DEF BatchLine
<1>6. n \in Nat /\ \A i \in 1 .. n : i \in DOMAIN q
  <2>1. q \in Seq(PlanSet) /\ n \in Nat
    BY <1>3, <1>4
  <2>3. Len(q) \in Nat /\ DOMAIN q = 1 .. Len(q)
    BY ONLY <2>1
  <2>2. n <= Len(q)
    BY <1>4 DEF BatchInv
  <2> QED BY ONLY <2>1, <2>2, <2>3
<1>7. \A i \in DOMAIN q : q[i] \in PlanSet /\ PlanOk(next_id, q[i])
  <2>1. \A i \in DOMAIN q : PlanOk(next_id, q[i])
    BY <1>4 DEF BatchInv
  <2>2. q \in Seq(PlanSet)
    BY <1>3, <1>4
  <2>3. \A i \in DOMAIN q : q[i] \in PlanSet
    BY ONLY <2>2
  <2> QED BY <2>1, <2>3
<1>8. \A i \in 1 .. n : /\ S[i + 1] = SerialAfter(q[i].blk, S[i])
                        /\ UsesOk(next_id, H, F, q[i], S[i])
  BY <1>5, <1>6 DEF Line
<1>9. Reference.s \in ScratchSet
  <2>1. S \in [1 .. Len(q) + 1 -> ScratchSet]
    BY <1>5 DEF Line
  <2>2. q \in Seq(PlanSet)
    BY <1>3, <1>4
  <2>3. Len(q) \in Nat /\ DOMAIN q = 1 .. Len(q)
    BY ONLY <2>2
  <2>4. n <= Len(q)
    BY <1>4 DEF BatchInv
  <2>5. n + 1 \in 1 .. Len(q) + 1
    BY ONLY <1>6, <2>3, <2>4
  <2>6. S[n + 1] \in ScratchSet
    BY ONLY <2>1, <2>5
  <2> QED BY <1>5, <2>6
<1> DEFINE Dh == [i \in 1 .. n |-> q[i].job.huf_def]
           Df == [i \in 1 .. n |-> q[i].job.fse_def]
           Vh == [i \in 1 .. n + 1 |-> S[i].huf]
           Vf == [i \in 1 .. n + 1 |-> S[i].fse]
           uh == {i \in 1 .. n : Dh[i] # NoId}
           uf == {i \in 1 .. n : Df[i] # NoId}
<1>10. \A i \in 1 .. n : i \in 1 .. n + 1 /\ i + 1 \in 1 .. n + 1
  BY ONLY <1>6
<1>11. \A i \in 1 .. n : /\ Dh[i] = NoId => Vh[i + 1] = Vh[i]
                         /\ Dh[i] # NoId => Vh[i + 1] = H[Dh[i]]
                         /\ Df[i] = NoId => Vf[i + 1] = Vf[i]
                         /\ Df[i] # NoId => Vf[i + 1] = F[Df[i]]
  <2> SUFFICES ASSUME NEW i \in 1 .. n
               PROVE  /\ Dh[i] = NoId => Vh[i + 1] = Vh[i]
                      /\ Dh[i] # NoId => Vh[i + 1] = H[Dh[i]]
                      /\ Df[i] = NoId => Vf[i + 1] = Vf[i]
                      /\ Df[i] # NoId => Vf[i + 1] = F[Df[i]]
    OBVIOUS
  <2>1. /\ Dh[i] = q[i].job.huf_def /\ Vh[i] = S[i].huf /\ Vh[i + 1] = S[i + 1].huf
        /\ Df[i] = q[i].job.fse_def /\ Vf[i] = S[i].fse /\ Vf[i + 1] = S[i + 1].fse
    BY <1>10
  <2>2. S[i + 1].huf = HufAfter(q[i].blk, S[i]) /\ S[i + 1].fse = FseAfter(q[i].blk, S[i])
    <3>1. S[i + 1] = SerialAfter(q[i].blk, S[i])
      BY <1>8
    <3> QED BY ONLY <3>1 DEF SerialAfter
  <2>3. /\ q[i].job.huf_def = NoId => HufAfter(q[i].blk, S[i]) = S[i].huf
        /\ q[i].job.huf_def # NoId => HufAfter(q[i].blk, S[i]) = H[q[i].job.huf_def]
        /\ q[i].job.fse_def = NoId => FseAfter(q[i].blk, S[i]) = S[i].fse
        /\ q[i].job.fse_def # NoId => FseAfter(q[i].blk, S[i]) = F[q[i].job.fse_def]
    <3>1. PICK p, s, N : p = q[i] /\ s = S[i] /\ N = next_id
      OBVIOUS
    <3>2. p \in PlanSet /\ UsesOk(N, H, F, p, s) /\ PlanOk(N, p)
      BY <1>6, <1>7, <1>8, <3>1
    <3>3. /\ p.job.huf_def = NoId => HufAfter(p.blk, s) = s.huf
          /\ p.job.huf_def # NoId => HufAfter(p.blk, s) = H[p.job.huf_def]
          /\ p.job.fse_def = NoId => FseAfter(p.blk, s) = s.fse
          /\ p.job.fse_def # NoId => FseAfter(p.blk, s) = F[p.job.fse_def]
      BY ONLY <3>2, PlanUses
    <3> QED BY ONLY <3>1, <3>3
  <2> QED BY ONLY <2>1, <2>2, <2>3
<1>12. Vh[n + 1] = S[n + 1].huf /\ Vf[n + 1] = S[n + 1].fse /\ Vh[1] = S[1].huf /\ Vf[1] = S[1].fse
  BY <1>6
<1>13. /\ uh = {i \in 1 .. batch.done : batch.plans[i].job.huf_def # NoId}
       /\ uf = {i \in 1 .. batch.done : batch.plans[i].job.fse_def # NoId}
  BY <1>4
<1>14. /\ \A i \in uh : i \in DOMAIN q /\ Dh[i] = q[i].job.huf_def /\ Dh[i] # NoId
       /\ \A i \in uf : i \in DOMAIN q /\ Df[i] = q[i].job.fse_def /\ Df[i] # NoId
  BY <1>6
<1>15. /\ uh = {} => Vh[n + 1] = Vh[1]
       /\ uh # {} => Max(uh) \in uh /\ Vh[n + 1] = H[Dh[Max(uh)]]
  <2>1. \A i \in 1 .. n : /\ Dh[i] = NoId => Vh[i + 1] = Vh[i]
                          /\ Dh[i] # NoId => Vh[i + 1] = H[Dh[i]]
    BY <1>11
  <2>2. PICK D, V, U : D = Dh /\ V = Vh /\ U = uh
    OBVIOUS
  <2>3. TableGoes(n, D, V, H)
    BY ONLY <2>1, <2>2 DEF TableGoes
  <2>4. U = {i \in 1 .. n : D[i] # NoId}
    BY ONLY <2>2
  <2>5. n \in Nat
    BY <1>6
  <2>6. /\ U = {} => V[n + 1] = V[1]
        /\ U # {} => Max(U) \in U /\ V[n + 1] = H[D[Max(U)]]
    BY ONLY <2>3, <2>4, <2>5, LastUsed
  <2> QED BY <2>2, <2>6
<1>16. /\ uf = {} => Vf[n + 1] = Vf[1]
       /\ uf # {} => Max(uf) \in uf /\ Vf[n + 1] = F[Df[Max(uf)]]
  <2>1. \A i \in 1 .. n : /\ Df[i] = NoId => Vf[i + 1] = Vf[i]
                          /\ Df[i] # NoId => Vf[i + 1] = F[Df[i]]
    BY <1>11
  <2>2. PICK D, V, U : D = Df /\ V = Vf /\ U = uf
    OBVIOUS
  <2>3. TableGoes(n, D, V, F)
    BY ONLY <2>1, <2>2 DEF TableGoes
  <2>4. U = {i \in 1 .. n : D[i] # NoId}
    BY ONLY <2>2
  <2>5. n \in Nat
    BY <1>6
  <2>6. /\ U = {} => V[n + 1] = V[1]
        /\ U # {} => Max(U) \in U /\ V[n + 1] = F[D[Max(U)]]
    BY ONLY <2>3, <2>4, <2>5, LastUsed
  <2> QED BY <2>2, <2>6
<1> HIDE DEF Dh, Df, Vh, Vf, uh, uf
<1>17. /\ BatchDefs.huf = LastOf(uh).huf_def
       /\ BatchDefs.fse = LastOf(uf).fse_def
  BY <1>13 DEF BatchDefs
<1>18. LET d == BatchDefs.huf
       IN (IF d \in {NoId, batch.start.id} THEN scratch.huf ELSE BatchTok(d)) = Reference.s.huf
  <2>1. CASE uh = {}
    <3>1. BatchDefs.huf = NoId
      BY <1>17, <2>1, EmptyTypes DEF LastOf
    <3> QED BY <1>5, <1>12, <1>15, <2>1, <3>1
  <2>2. CASE uh # {}
    <3>1. PICK m : m = Max(uh)
      OBVIOUS
    <3>2. m \in DOMAIN q /\ Dh[m] = q[m].job.huf_def /\ Dh[m] # NoId /\ Vh[n + 1] = H[Dh[m]]
      BY <1>14, <1>15, <2>2, <3>1
    <3>3. BatchDefs.huf = Dh[m]
      BY <1>4, <1>17, <2>2, <3>1, <3>2 DEF LastOf
    <3>4. Named(Dh[m], batch)
      BY <1>5, <3>2
    <3>5. CASE Dh[m] = batch.start.id
      BY <1>5, <1>12, <3>2, <3>3, <3>5
    <3>6. CASE Dh[m] # batch.start.id
      <4>1. BatchTok(Dh[m]) = H[Dh[m]]
        BY <1>2, <3>2, <3>4, <3>6, BatchTokIs
      <4> QED BY <1>5, <1>12, <3>2, <3>3, <3>6, <4>1
    <3> QED BY <3>5, <3>6
  <2> QED BY <2>1, <2>2
<1>19. LET d == BatchDefs.fse
       IN (IF d \in {NoId, batch.start.id} THEN scratch.fse ELSE BatchTok(d)) = Reference.s.fse
  <2>1. CASE uf = {}
    <3>1. BatchDefs.fse = NoId
      BY <1>17, <2>1, EmptyTypes DEF LastOf
    <3> QED BY <1>5, <1>12, <1>16, <2>1, <3>1
  <2>2. CASE uf # {}
    <3>1. PICK m : m = Max(uf)
      OBVIOUS
    <3>2. m \in DOMAIN q /\ Df[m] = q[m].job.fse_def /\ Df[m] # NoId /\ Vf[n + 1] = F[Df[m]]
      BY <1>14, <1>16, <2>2, <3>1
    <3>3. BatchDefs.fse = Df[m]
      BY <1>4, <1>17, <2>2, <3>1, <3>2 DEF LastOf
    <3>4. Named(Df[m], batch)
      BY <1>5, <3>2
    <3>5. CASE Df[m] = batch.start.id
      BY <1>5, <1>12, <3>2, <3>3, <3>5
    <3>6. CASE Df[m] # batch.start.id
      <4>1. BatchTok(Df[m]) = F[Df[m]]
        BY <1>2, <3>2, <3>4, <3>6, BatchTokIs
      <4> QED BY <1>5, <1>12, <3>2, <3>3, <3>6, <4>1
    <3> QED BY <3>5, <3>6
  <2> QED BY <2>1, <2>2
<1>20. PICK s : s = Reference.s
  OBVIOUS
<1>21. s = [huf |-> s.huf, fse |-> s.fse, hist |-> s.hist]
  BY <1>9, <1>20 DEF ScratchSet
<1> QED BY <1>5, <1>18, <1>19, <1>20, <1>21 DEF SyncScratch

\* Two sequences of cells joined, with no cell twice in them.
Joins(f, a, b) ==
    /\ a \in Seq(Nat) /\ b \in Seq(Nat) /\ f = a \o b
    /\ \A j, k \in DOMAIN a : a[j] = a[k] => j = k
    /\ \A j, k \in DOMAIN b : b[j] = b[k] => j = k
    /\ \A j \in DOMAIN a : \A k \in DOMAIN b : a[j] # b[k]

(* No cell is twice in what they make.                                     *)
LEMMA JoinApart ==
  ASSUME NEW a, NEW b, NEW f, Joins(f, a, b)
  PROVE  /\ f \in Seq(Nat)
         /\ \A k \in DOMAIN f : \/ \E j \in DOMAIN a : f[k] = a[j]
                                \/ \E j \in DOMAIN b : f[k] = b[j]
         /\ \A j, k \in DOMAIN f : f[j] = f[k] => j = k
<1>1. /\ a \in Seq(Nat) /\ b \in Seq(Nat) /\ f = a \o b
      /\ \A j, k \in DOMAIN a : a[j] = a[k] => j = k
      /\ \A j, k \in DOMAIN b : b[j] = b[k] => j = k
      /\ \A j \in DOMAIN a : \A k \in DOMAIN b : a[j] # b[k]
  BY DEF Joins
<1>2. Len(a) \in Nat /\ Len(b) \in Nat /\ DOMAIN a = 1 .. Len(a) /\ DOMAIN b = 1 .. Len(b)
  BY <1>1
<1>3. /\ f \in Seq(Nat)
      /\ \A k \in DOMAIN f : \/ k \in DOMAIN a /\ f[k] = a[k]
                             \/ k - Len(a) \in DOMAIN b /\ f[k] = b[k - Len(a)]
                                /\ k \notin DOMAIN a
  BY <1>1
<1>4. \A k \in DOMAIN f : k \in Int
  BY <1>3
<1>5. ASSUME NEW j \in DOMAIN f, NEW k \in DOMAIN f, f[j] = f[k] PROVE j = k
  <2>1. CASE j \notin DOMAIN a /\ k \notin DOMAIN a
    <3>1. j - Len(a) = k - Len(a)
      BY <1>1, <1>3, <1>5, <2>1
    <3>2. j \in Int /\ k \in Int
      BY <1>4
    <3> QED BY ONLY <1>2, <3>1, <3>2
  <2>2. CASE j \in DOMAIN a /\ k \in DOMAIN a
    BY <1>1, <1>3, <1>5, <2>2
  <2>3. CASE j \in DOMAIN a /\ k \notin DOMAIN a
    BY <1>1, <1>3, <1>5, <2>3
  <2>4. CASE j \notin DOMAIN a /\ k \in DOMAIN a
    BY <1>1, <1>3, <1>5, <2>4
  <2> QED BY <2>1, <2>2, <2>3, <2>4
<1> QED BY <1>3, <1>5

(* The scope ends.                                                         *)
LEMMA EndScopeStep ==
  ASSUME IInv, EndScope
  PROVE  IInv'
<1> USE InvParts
<1> DEFINE ended == batch.done > 0 /\ consumed[Len(consumed)].last
           synced == SyncScratch(batch.hist, BatchDefs, batch.start,
                                 [huf |-> BatchTok(BatchDefs.huf), fse |-> BatchTok(BatchDefs.fse)])
<1>1. /\ main.pc = "scope" /\ free' = free \o batch.ring
      /\ scratch' = IF batch.done = 0 \/ ended THEN scratch ELSE synced
      /\ main' = IF ended THEN Left ELSE Returned(main.broke)
      /\ batch' = NoBatch
      /\ input' = input /\ consumed' = consumed /\ out' = out /\ chain' = chain
      /\ next_id' = next_id /\ calls' = calls /\ ncells' = ncells /\ cell' = cell
      /\ tasks' = tasks /\ worker' = worker /\ dec' = dec
  BY Zenon DEF EndScope
<1>2. main.mode = "batch" /\ chain = NoChain /\ ~chain.on
  <2>1. "scope" \in BatchPlaces
    BY DEF BatchPlaces
  <2> QED BY <1>1, <2>1 DEF ModeInv
<1>3. synced = Reference.s
  BY <1>2, BatchSyncs
<1> HIDE DEF synced
<1>4. /\ scratch \in ScratchSet /\ next_id \in Nat /\ free \in Seq(Nat) /\ ncells \in Nat
      /\ batch.ring \in Seq(Nat) /\ main \in MainSet
  BY DEF TypeInv, BatchSet
<1>5. PICK H, F \in [Nat -> Nat] : \E S : CellsOk(cell, next_id, H, F) /\ BatchLine(H, F, S)
  BY GhostIs
<1>6. PICK S : CellsOk(cell, next_id, H, F) /\ BatchLine(H, F, S)
  BY <1>5
<1>7. /\ S[1] = scratch /\ S[batch.done + 1] = Reference.s
  BY <1>2, <1>6 DEF BatchLine
<1>8. Reference.s \in ScratchSet
  <2>1. PICK q, n, r : q = batch.plans /\ n = batch.done /\ r = batch
    OBVIOUS
  <2>2. q \in Seq(PlanSet) /\ n \in Nat
    BY <2>1 DEF TypeInv, BatchSet
  <2>3. n <= Len(q)
    BY <1>2, <2>1 DEF BatchInv
  <2>4. Len(q) \in Nat
    BY ONLY <2>2
  <2>5. S \in [1 .. Len(q) + 1 -> ScratchSet]
    BY <1>2, <1>6, <2>1 DEF BatchLine, Line
  <2>6. n + 1 \in 1 .. Len(q) + 1
    BY ONLY <2>2, <2>3, <2>4
  <2>7. S[n + 1] \in ScratchSet
    BY ONLY <2>5, <2>6
  <2> QED BY <1>7, <2>1, <2>7
<1>9. scratch' \in ScratchSet /\ (~ended => scratch' = Reference.s)
  <2>1. batch.done = 0 => scratch = Reference.s
    BY <1>7
  <2> QED BY <1>1, <1>3, <1>4, <1>8, <2>1
<1>10. /\ main' \in MainSet /\ main'.pc = (IF ended THEN "left" ELSE "driver")
       /\ main'.mode = "none" /\ main'.end = 0
       /\ main'.broke => ~ended /\ main.broke
  <2>1. CASE ended
    <3>1. main' = Left
      BY <1>1, <2>1
    <3> QED BY <2>1, <3>1, MovesLeft
  <2>2. CASE ~ended
    <3>1. PICK s \in BOOLEAN : s = (~main.any /\ Len(consumed) < main.end)
      OBVIOUS
    <3>2. main' = Driver(s, main.broke) /\ main.broke \in BOOLEAN
      BY <1>1, <1>4, <2>2, <3>1 DEF Returned, MainSet
    <3> QED BY <2>2, <3>2, DriverType
  <2> QED BY <2>1, <2>2
<1> HIDE DEF ended
<1>11. /\ main'.pc \in {"driver", "left"} /\ main'.mode # "batch" /\ main'.pc # "raw"
       /\ main'.pc \notin Stage3Places /\ main'.pc \notin BatchPlaces /\ main'.pc # "fill"
  BY <1>10 DEF Stage3Places, BatchPlaces
<1>12. /\ free' \in Seq(Nat)
       /\ \A k \in DOMAIN free' : free'[k] \in 1 .. ncells
       /\ \A j, k \in DOMAIN free' : free'[j] = free'[k] => j = k
  <2>1. /\ \A j \in DOMAIN free : \A k \in DOMAIN batch.ring : free[j] # batch.ring[k]
        /\ \A j, k \in DOMAIN free : free[j] = free[k] => j = k
        /\ \A j, k \in DOMAIN batch.ring : batch.ring[j] = batch.ring[k] => j = k
    BY DEF ApartInv, RingCells
  <2>2. PICK a, b, f : a = free /\ b = batch.ring /\ f = free'
    OBVIOUS
  <2>3. Joins(f, a, b)
    BY <1>1, <1>4, <2>1, <2>2 DEF Joins
  <2>4. /\ f \in Seq(Nat)
        /\ \A k \in DOMAIN f : \/ \E j \in DOMAIN a : f[k] = a[j]
                               \/ \E j \in DOMAIN b : f[k] = b[j]
        /\ \A j, k \in DOMAIN f : f[j] = f[k] => j = k
    BY ONLY <2>3, JoinApart
  <2>5. /\ \A j \in DOMAIN a : a[j] \in 1 .. ncells
        /\ \A j \in DOMAIN b : b[j] \in 1 .. ncells
    BY <2>2 DEF ApartInv
  <2>6. \A k \in DOMAIN f : f[k] \in 1 .. ncells
    BY ONLY <2>4, <2>5
  <2> QED BY ONLY <2>2, <2>4, <2>6
<1>13. TypeInv'
  BY <1>1, <1>4, <1>9, <1>10, <1>12, EmptyRuns, Zenon DEF TypeInv
<1>14. DecInv' /\ TaskInv' /\ IdInv'
  <2>1. main.pc \notin {"lits", "wait"} /\ next_id' \in Nat /\ next_id <= next_id'
    BY <1>1, <1>4
  <2> QED BY <1>1, <2>1, CellsRetired
<1>15. ApartInv'
  <2>1. DOMAIN chain'.queue = {} /\ DOMAIN batch'.ring = {}
    BY <1>1, <1>2, EmptyRuns
  <2>2. QueueCells' = {} /\ RingCells' = {}
    BY <2>1 DEF QueueCells, RingCells
  <2> QED BY <1>1, <1>12, <2>1, <2>2 DEF ApartInv
<1>16. QueueInv' /\ \A I, E, T : QueueLine(I, E, T)'
  BY <1>1, <1>2, NoChainAfter
<1>17. BatchInv' /\ FreshInv' /\ StageInv' /\ \A I, E, T : BatchLine(I, E, T)'
  BY <1>11, NoBatchAfter
<1>18. ModeInv'
  <2>1. main'.end <= Len(input')
    <3>1. input' \in Seq(BlockSet)
      BY <1>13 DEF TypeInv
    <3>2. 0 <= Len(input')
      BY ONLY <3>1
    <3> QED BY <1>10, <3>2
  <2> QED BY <1>1, <1>2, <1>10, <1>11, <2>1 DEF ModeInv
<1>19. GhostInv'
  <2>1. TableInv(H, F)'
    BY <1>1, <1>6, <1>11, TableCells
  <2> QED BY <2>1, <1>16, <1>17 DEF GhostInv
<1>20. SerialInv'
  <2>1. Reference' = Reference /\ NextBlock' = NextBlock
    BY <1>1 DEF Reference, NextBlock
  <2>2. main'.pc # "left" => scratch' = Reference'.s
    BY <1>9, <1>10, <2>1
  <2> QED BY <1>1, <1>10, <1>11, <2>1, <2>2 DEF SerialInv, OutputIsSerial, FailuresAreReal
<1> QED BY <1>13, <1>14, <1>15, <1>16, <1>17, <1>18, <1>19, <1>20, Zenon DEF IInv, CellsInv

-----------------------------------------------------------------------------
(* A block executed.                                                       *)

(* The block to be executed is the input's next, for a raw one by kind.    *)
LEMMA CurIs ==
  ASSUME IInv, main.pc \in Stage3Places \union {"raw"}
  PROVE  /\ main.mode \in {"chain", "batch"}
         /\ Len(consumed) < Len(input) /\ NextBlock \in BlockSet /\ CurEntry.blk \in BlockSet
         /\ CurEntry.blk.kind = NextBlock.kind
         /\ CurEntry.job # NoJob => CurEntry.blk = NextBlock
         /\ CurEntry.job = NoJob <=> NextBlock.kind = "raw"
         /\ main.pc = "raw" <=> CurEntry.job = NoJob
<1> USE InvParts
<1>1. main.mode \in {"chain", "batch"}
  <2>1. main.pc \notin {"driver", "left", "failed"}
    BY StagePlaces
  <2> QED BY <2>1 DEF ModeInv, TypeInv, MainSet
<1>2. /\ main.mode = "chain" => chain.queue # <<>> /\ chain.queue[1].seen = calls
      /\ Len(consumed) < Len(input)
      /\ main.pc = "raw" <=> CurEntry.job = NoJob
  BY DEF StageInv
<1>3. NextBlock \in BlockSet
  <2>1. input \in Seq(BlockSet) /\ consumed \in Seq(BlockSet)
    BY DEF TypeInv
  <2>2. Len(consumed) + 1 \in DOMAIN input
    BY ONLY <1>2, <2>1
  <2> QED BY <2>1, <2>2 DEF NextBlock
<1>4. CASE main.mode = "chain"
  <2>1. CurEntry = chain.queue[1]
    BY <1>4 DEF CurEntry
  <2>2. 1 \in DOMAIN chain.queue
    <3>1. chain.queue \in Seq(EntrySet) /\ chain.queue # <<>>
      BY <1>2, <1>4 DEF TypeInv, ChainSet
    <3> QED BY ONLY <3>1
  <2>3. chain.queue[1].blk \in BlockSet
    <3>1. chain.queue[1] \in EntrySet
      BY <2>2, QueueCell
    <3> QED BY <3>1 DEF EntrySet
  <2>4. PlanOk(next_id, chain.queue[1]) /\ Holds(chain.queue[1], NextBlock)
    BY <1>2, <1>4, <2>2 DEF QueueInv, NextBlock
  <2> QED BY <1>1, <1>2, <1>3, <2>1, <2>3, <2>4 DEF PlanOk, Holds
<1>5. CASE main.mode = "batch"
  <2>1. CurEntry = batch.plans[batch.done + 1]
    BY <1>5 DEF CurEntry
  <2>2. batch.done < Len(batch.plans)
    BY <1>5 DEF BatchInv
  <2>3. /\ batch.plans[batch.done + 1].blk = NextBlock
        /\ batch.plans[batch.done + 1].job = NoJob <=> NextBlock.kind = "raw"
    BY <1>5, <2>2, BatchNext
  <2> QED BY <1>1, <1>2, <1>3, <2>1, <2>3
<1> QED BY <1>1, <1>4, <1>5

(* The serial decoder's tables and repeat offsets where it is executed.    *)
LEMMA CurSerial ==
  ASSUME IInv, main.pc \in Stage3Places \union {"raw"}, NEW H, NEW F, NEW S,
         QueueLine(H, F, S), BatchLine(H, F, S)
  PROVE  /\ UsesOk(next_id, H, F, CurEntry, Reference.s)
         /\ CurHist = Reference.s.hist /\ Reference.s \in ScratchSet
<1> USE InvParts
<1>1. CASE main.mode = "chain"
  <2>1. chain.on /\ chain.queue # <<>>
    BY <1>1 DEF ModeInv, StageInv
  <2>2. PICK q, r : q = chain.queue /\ r = chain
    OBVIOUS
  <2>3. /\ Line(next_id, H, F, S, q, r) /\ S[1] = Reference.s /\ chain.hist = S[1].hist
    BY <2>1, <2>2 DEF QueueLine
  <2>4. q \in Seq(EntrySet) /\ q # <<>>
    BY <2>1, <2>2 DEF TypeInv, ChainSet
  <2>5. 1 \in DOMAIN q /\ 1 \in 1 .. Len(q) + 1
    BY ONLY <2>4
  <2>6. UsesOk(next_id, H, F, q[1], S[1]) /\ S[1] \in ScratchSet
    BY <2>3, <2>5 DEF Line
  <2> QED BY <1>1, <2>2, <2>3, <2>6 DEF CurEntry, CurHist
<1>2. CASE main.mode = "batch"
  <2>1. batch.done < Len(batch.plans)
    BY <1>2 DEF BatchInv
  <2>2. PICK q, r, n : q = batch.plans /\ r = batch /\ n = batch.done
    OBVIOUS
  <2>3. Line(next_id, H, F, S, q, r) /\ S[n + 1] = Reference.s /\ batch.hist = Reference.s.hist
    BY <1>2, <2>2 DEF BatchLine
  <2>4. q \in Seq(PlanSet) /\ n \in Nat /\ n < Len(q)
    BY <2>1, <2>2 DEF TypeInv, BatchSet
  <2>5. n + 1 \in DOMAIN q /\ n + 1 \in 1 .. Len(q) + 1
    <3>1. Len(q) \in Nat /\ DOMAIN q = 1 .. Len(q)
      BY ONLY <2>4
    <3> QED BY ONLY <2>4, <3>1
  <2>6. UsesOk(next_id, H, F, q[n + 1], S[n + 1]) /\ S[n + 1] \in ScratchSet
    BY <2>3, <2>5 DEF Line
  <2> QED BY <1>2, <2>2, <2>3, <2>6 DEF CurEntry, CurHist
<1> QED BY <1>1, <1>2, CurIs

(* A block planned and the input's do the same to the serial decoder.      *)
LEMMA CurAfter ==
  ASSUME IInv, main.pc \in Stage3Places \union {"raw"}, NEW s \in ScratchSet
  PROVE  /\ SerialAfter(CurEntry.blk, s) = SerialAfter(NextBlock, s)
         /\ main.pc = "raw" => /\ SerialAfter(NextBlock, s).hist = s.hist
                               /\ SerialOutput(NextBlock, FreshScratch) = SerialOutput(NextBlock, s)
<1>1. PICK p, b : p = CurEntry.blk /\ b = NextBlock
  OBVIOUS
<1>2. /\ p \in BlockSet /\ b \in BlockSet /\ p.kind = b.kind
      /\ main.pc = "raw" <=> b.kind = "raw"
      /\ b.kind # "raw" => p = b
  BY <1>1, CurIs
<1>3. b.kind = "raw" => p.huf = "none" /\ p.fse = "none" /\ b.huf = "none" /\ b.fse = "none"
  BY <1>2, TokType
<1>4. SerialAfter(p, s) = SerialAfter(b, s)
  BY <1>2, <1>3 DEF SerialAfter, HufAfter, FseAfter, HasSeqs
<1>5. b.kind = "raw" => /\ SerialAfter(b, s).hist = s.hist
                        /\ SerialOutput(b, FreshScratch) = SerialOutput(b, s)
  BY <1>3 DEF SerialAfter, HufAfter, FseAfter, HasSeqs, SerialOutput
<1> QED BY <1>1, <1>2, <1>4, <1>5

(* Two sequences, as the serial decoder would have them.                   *)
LEMMA PairIs ==
  ASSUME NEW x, NEW y, NEW R, R = [i \in 1 .. NumSequences |-> IF i = 1 THEN x ELSE y]
  PROVE  <<x, y>> = R
<1>1. DOMAIN R = 1 .. 2 /\ R[1] = x /\ R[2] = y
  BY DEF NumSequences
<1>2. \A i \in 1 .. 2 : i = 1 \/ i = 2
  OBVIOUS
<1>3. R = [i \in 1 .. 2 |-> R[i]]
  BY DEF NumSequences
<1>4. DOMAIN <<x, y>> = 1 .. 2 /\ <<x, y>>[1] = x /\ <<x, y>>[2] = y
  OBVIOUS
<1> QED BY <1>1, <1>2, <1>3, <1>4

(* What the executing thread makes of a block whose decode is done is what *)
(* the serial decoder makes of it, failures included.                      *)
LEMMA FinishIs ==
  ASSUME IInv, main.pc = "finish", NEW c, c = cell[CurCell], c.done = CurJob.id
  PROVE  /\ main.err \/ ~c.ok => SerialFails(NextBlock, Reference.s)
         /\ ~main.err /\ c.ok =>
              /\ [blk |-> Tok(NextBlock), lits |-> c.lits, seqs |-> main.got,
                  hist |-> IF HasSeqs(CurJob.blk) THEN CurHist ELSE <<>>]
                    = SerialOutput(NextBlock, Reference.s)
              /\ (IF HasSeqs(CurJob.blk) THEN Append(CurHist, main.end_reps) ELSE CurHist)
                    = SerialAfter(NextBlock, Reference.s).hist
<1> USE InvParts
<1>1. main.pc \in Stage3Places /\ main.pc # "raw"
  BY DEF Stage3Places
<1>2. PICK H, F \in [Nat -> Nat] : \E S : TableInv(H, F) /\ QueueLine(H, F, S) /\ BatchLine(H, F, S)
  BY DEF GhostInv
<1>3. PICK S : TableInv(H, F) /\ QueueLine(H, F, S) /\ BatchLine(H, F, S)
  BY <1>2
<1>4. PICK j, b, s, h, m : j = CurJob /\ b = NextBlock /\ s = Reference.s /\ h = CurHist /\ m = main
  OBVIOUS
<1>5. /\ c.job = j /\ j # NoJob /\ j.blk = b /\ b \in BlockSet
  <2>1. c.job = j /\ j # NoJob
    BY <1>1, <1>4, CurTaken
  <2>2. j = CurEntry.job /\ j.blk = CurEntry.blk
    BY <1>1, <1>4, CurBlock
  <2>3. b \in BlockSet /\ CurEntry.blk = b
    BY <1>1, <1>4, <2>1, <2>2, CurIs
  <2> QED BY <2>1, <2>2, <2>3
<1>6. CellOk(next_id, H, F, c) /\ ReadOk(F, m, c, j)
  <2>1. CellOk(next_id, H, F, c)
    BY <1>1, <1>3, CurTaken
  <2>2. ReadOk(F, m, c, j)
    BY <1>1, <1>3, <1>4 DEF TableInv
  <2> QED BY <2>1, <2>2
<1>7. /\ UsesOk(next_id, H, F, CurEntry, s) /\ h = s.hist /\ s \in ScratchSet
  BY <1>1, <1>3, <1>4, CurSerial
<1>8. /\ b.huf # "none" => H[j.huf_def] = HufAfter(b, s)
      /\ HasSeqs(b) => F[j.fse_def] = FseAfter(b, s)
      /\ j.huf_def = NoId <=> b.huf = "none"
  <2>1. CurEntry.job = j /\ CurEntry.blk = b /\ j # NoJob
    BY <1>1, <1>4, <1>5, CurBlock
  <2>2. JobOk(next_id, H, F, j)
    BY <1>7, <2>1 DEF UsesOk
  <2> QED BY <1>5, <1>7, <2>1, <2>2 DEF UsesOk, JobOk
<1>9. SeqsDone(c) /\ LitsOk(H, c)
  BY <1>4, <1>5, <1>6 DEF CellOk
<1>10. m.err \/ ~c.ok => SerialFails(b, s)
  <2>1. m.err => b.fault # "none"
    BY <1>1, <1>4, <1>5, <1>6 DEF ReadOk
  <2>2. ~c.ok => b.fault = "seq"
    BY <1>5, <1>9 DEF SeqsDone
  <2> QED BY <2>1, <2>2 DEF SerialFails
<1>11. c.lits = IF b.huf = "none" THEN NoTable ELSE HufAfter(b, s)
  <2>1. c.lit_done = c.job.id
    BY <1>5, <1>6 DEF ReadOk
  <2> QED BY <1>5, <1>8, <1>9, <2>1 DEF LitsOk, LitsOf
<1>12. ~m.err => m.got = (IF HasSeqs(b)
                          THEN [i \in 1..NumSequences |-> RelSeq(b, i, FseAfter(b, s))]
                          ELSE <<>>)
                 /\ (HasSeqs(b) => m.end_reps = Tok(b))
  <2>1. CASE ~HasSeqs(b)
    BY <1>5, <1>6, <2>1 DEF ReadOk
  <2>2. CASE HasSeqs(b) /\ ~m.err
    <3>1. /\ m.at = 2 /\ m.got = <<SeqsOf(F, j, 1), SeqsOf(F, j, 2)>> /\ m.end_reps = Tok(b)
      BY <1>1, <1>4, <1>5, <1>6, <2>2 DEF ReadOk
    <3>2. PICK x, y : x = RelSeq(b, 1, FseAfter(b, s)) /\ y = RelSeq(b, 2, FseAfter(b, s))
      OBVIOUS
    <3>3. SeqsOf(F, j, 1) = x /\ SeqsOf(F, j, 2) = y
      BY <1>5, <1>8, <2>2, <3>2 DEF SeqsOf
    <3>4. PICK R : R = [i \in 1..NumSequences |-> RelSeq(b, i, FseAfter(b, s))]
      OBVIOUS
    <3>5. R = [i \in 1..NumSequences |-> IF i = 1 THEN x ELSE y]
      BY <3>2, <3>4 DEF NumSequences
    <3>6. <<x, y>> = R
      BY ONLY <3>5, PairIs
    <3>7. m.got = R
      BY ONLY <3>1, <3>3, <3>6
    <3> QED BY <2>2, <3>1, <3>4, <3>7, Zenon
  <2> QED BY <2>1, <2>2
<1>13. SerialAfter(b, s).hist = IF HasSeqs(b) THEN Append(s.hist, Tok(b)) ELSE s.hist
  BY <1>5, <1>7, SerialTypes
<1>14. ~m.err => [blk |-> Tok(b), lits |-> c.lits, seqs |-> m.got,
                  hist |-> IF HasSeqs(b) THEN h ELSE <<>>] = SerialOutput(b, s)
  BY <1>7, <1>11, <1>12 DEF SerialOutput
<1>15. ~m.err => (IF HasSeqs(b) THEN Append(h, m.end_reps) ELSE h) = SerialAfter(b, s).hist
  BY <1>7, <1>12, <1>13
<1> QED BY <1>4, <1>5, <1>10, <1>14, <1>15

(* The serial decoder, one block on.                                       *)
LEMMA OneBlockOn ==
  ASSUME IInv, main.pc \in Stage3Places \union {"raw"},
         consumed' = Append(consumed, NextBlock)
  PROVE  /\ Reference'.s = SerialAfter(NextBlock, Reference.s)
         /\ Reference'.out = Append(Reference.out, SerialOutput(NextBlock, Reference.s))
         /\ SerialAfter(NextBlock, Reference.s) = SerialAfter(CurEntry.blk, Reference.s)
         /\ SerialAfter(NextBlock, Reference.s).hist \in Seq(Nat)
         /\ consumed' \in Seq(BlockSet) /\ Len(consumed') = Len(consumed) + 1
         /\ Len(consumed') <= Len(input) /\ Len(consumed) \in Nat /\ Len(input) \in Nat
<1> USE InvParts
<1>1. consumed \in Seq(BlockSet) /\ input \in Seq(BlockSet)
  BY DEF TypeInv
<1>2. Len(consumed) < Len(input) /\ NextBlock \in BlockSet
  BY CurIs
<1>3. PICK H, F \in [Nat -> Nat] : \E S : QueueLine(H, F, S) /\ BatchLine(H, F, S)
  BY DEF GhostInv
<1>4. Reference.s \in ScratchSet
  BY <1>3, CurSerial
<1>5. /\ Reference'.s = SerialAfter(NextBlock, Reference.s)
      /\ Reference'.out = Append(Reference.out, SerialOutput(NextBlock, Reference.s))
  BY <1>1, <1>2, RunAppend DEF Reference
<1>6. SerialAfter(NextBlock, Reference.s) = SerialAfter(CurEntry.blk, Reference.s)
  BY <1>4, CurAfter
<1>7. SerialAfter(NextBlock, Reference.s).hist \in Seq(Nat)
  <2>1. SerialAfter(NextBlock, Reference.s) \in ScratchSet
    BY <1>2, <1>4, SerialTypes
  <2> QED BY <2>1 DEF ScratchSet
<1>8. /\ consumed' \in Seq(BlockSet) /\ Len(consumed') = Len(consumed) + 1
      /\ Len(consumed) \in Nat /\ Len(input) \in Nat
  <2>1. PICK X, c, i, b, d : /\ X = BlockSet /\ c = consumed /\ i = input /\ b = NextBlock
                             /\ d = consumed'
    OBVIOUS
  <2>2. c \in Seq(X) /\ i \in Seq(X) /\ b \in X /\ d = Append(c, b)
    BY <1>1, <1>2, <2>1
  <2>3. d \in Seq(X)
    BY ONLY <2>2
  <2>4. Len(d) = Len(c) + 1
    BY ONLY <2>2, OneMore
  <2>5. Len(c) \in Nat /\ Len(i) \in Nat
    BY <2>2, LenProperties, Zenon
  <2> QED BY ONLY <2>1, <2>3, <2>4, <2>5
<1>9. Len(consumed') <= Len(input)
  BY ONLY <1>2, <1>8
<1> QED BY <1>5, <1>6, <1>7, <1>8, <1>9

(* A cell whose block is executed is no decode's.                          *)
LEMMA ExecutedQuiet ==
  ASSUME IInv, main.pc = "finish", cell[CurCell].done = CurJob.id
  PROVE  Quiet(CurCell)
<1> USE InvParts
<1>1. main.pc \in Stage3Places /\ main.pc # "take"
  BY DEF Stage3Places
<1>2. /\ CurCell \in Cells /\ CurJob.id \in Nat /\ cell[CurCell].claim = Taken(CurJob.id)
  BY <1>1, CurTaken
<1>3. \A t \in Nat : cell[CurCell].claim # Planned(t)
  BY <1>2, ClaimsApart
<1>4. ASSUME NEW th \in Threads, dec[th].cell = CurCell PROVE FALSE
  <2>1. dec[th] # NoDecode
    <3>1. CurCell # 0
      BY <1>2, DepthType DEF Cells
    <3> QED BY <1>4, <3>1, EmptyTypes
  <2>2. /\ dec[th].ticket \in Nat /\ cell[CurCell].claim = Taken(dec[th].ticket)
        /\ cell[CurCell].done # dec[th].ticket
    BY <1>4, <2>1 DEF DecInv
  <2>3. dec[th].ticket = CurJob.id
    BY ONLY <1>2, <2>2, ClaimsApart
  <2> QED BY <2>2, <2>3
<1> QED BY <1>3, <1>4 DEF Quiet

(* The ring turns by one block.                                            *)
LEMMA RingGoesOn ==
  ASSUME IInv, main.mode = "batch", main.pc \in {"raw", "finish"},
         main.pc = "finish" => cell[CurCell].done = CurJob.id,
         cell' = cell, dec' = dec, batch'.ring = batch.ring, batch'.plans = batch.plans,
         batch'.handed = batch.handed, batch'.done = batch.done + 1
  PROVE  (\A j \in batch.done + 1 .. batch.done + Len(batch.ring) :
              IF Handed(j) THEN Live(RingCell(batch.ring, j), batch.plans[j].job)
              ELSE Quiet(RingCell(batch.ring, j)))'
<1> USE InvParts
<1>1. main.pc \in Stage3Places \union {"raw"} /\ main.pc # "scope"
  BY DEF Stage3Places
<1>2. /\ batch.handed = batch.done + Len(batch.ring) /\ batch.done < Len(batch.plans)
      /\ Len(batch.plans) # 0 => Len(batch.ring) # 0
  BY <1>1 DEF BatchInv
<1>3. batch.ring \in Seq(Nat) /\ batch.done \in Nat
  BY DEF TypeInv, BatchSet
<1>4. PICK n, d : n = Len(batch.ring) /\ d = batch.done
  OBVIOUS
<1>5. n \in Nat /\ d \in Nat /\ n # 0
  <2>1. n \in Nat
    BY ONLY <1>3, <1>4
  <2>2. batch.plans \in Seq(PlanSet)
    BY DEF TypeInv, BatchSet
  <2>3. Len(batch.plans) \in Nat
    BY ONLY <2>2
  <2> QED BY ONLY <1>2, <1>3, <1>4, <2>1, <2>3
<1>6. \A j \in d + 1 .. d + n :
         IF Handed(j) THEN Live(RingCell(batch.ring, j), batch.plans[j].job)
         ELSE Quiet(RingCell(batch.ring, j))
  BY <1>1, <1>4 DEF BatchInv
<1>7. RingCell(batch.ring, d + 1) = CurCell
  BY <1>4 DEF CurCell
<1>8. Quiet(CurCell)
  <2>1. CASE main.pc = "finish"
    BY <2>1, ExecutedQuiet
  <2>2. CASE main.pc = "raw"
    <3>1. batch.plans[d + 1].job = NoJob
      BY <1>4, <2>2 DEF StageInv, CurEntry
    <3>2. d + 1 \in d + 1 .. d + n
      BY ONLY <1>5
    <3>3. ~Handed(d + 1)
      BY <3>1 DEF Handed
    <3> QED BY <1>6, <1>7, <3>2, <3>3
  <2> QED BY <2>1, <2>2
<1>9. RingCell(batch.ring, d + 1 + n) = CurCell
  <2>1. d + 1 \in Nat \ {0}
    BY ONLY <1>5
  <2> QED BY <1>3, <1>4, <1>5, <1>7, <2>1, RingTurns
<1>10. ~Handed(d + 1 + n)
  <2>1. ~(d + 1 + n <= batch.handed)
    BY ONLY <1>2, <1>4, <1>5
  <2> QED BY <2>1 DEF Handed
<1>11. \A j \in d + 2 .. d + 1 + n :
         IF Handed(j) THEN Live(RingCell(batch.ring, j), batch.plans[j].job)
         ELSE Quiet(RingCell(batch.ring, j))
  <2> SUFFICES ASSUME NEW j \in d + 2 .. d + 1 + n
               PROVE  IF Handed(j) THEN Live(RingCell(batch.ring, j), batch.plans[j].job)
                      ELSE Quiet(RingCell(batch.ring, j))
    OBVIOUS
  <2>1. j \in d + 1 .. d + n \/ j = d + 1 + n
    BY ONLY <1>5, j \in d + 2 .. d + 1 + n
  <2>2. CASE j \in d + 1 .. d + n
    BY <1>6, <2>2
  <2>3. CASE j = d + 1 + n
    BY <1>8, <1>9, <1>10, <2>3
  <2> QED BY <2>1, <2>2, <2>3
<1>12. batch'.done + 1 = d + 2 /\ batch'.done + Len(batch'.ring) = d + 1 + n
  BY ONLY <1>4, <1>5, batch'.ring = batch.ring, batch'.done = batch.done + 1
<1>13. (\A j \in d + 2 .. d + 1 + n :
          IF Handed(j) THEN Live(RingCell(batch.ring, j), batch.plans[j].job)
          ELSE Quiet(RingCell(batch.ring, j)))'
  BY <1>11, Zenon DEF Handed, Live, Quiet
<1> QED BY <1>12, <1>13, Zenon

(* A block of a batch counts.                                              *)
LEMMA CommitBatch ==
  ASSUME IInv, main.mode = "batch", main.pc \in {"raw", "finish"},
         main.pc = "finish" => cell[CurCell].done = CurJob.id,
         NEW hist, hist = SerialAfter(NextBlock, Reference.s).hist,
         out' = Append(out, SerialOutput(NextBlock, Reference.s)),
         consumed' = Append(consumed, NextBlock),
         batch' = [batch EXCEPT !.done = @ + 1, !.hist = hist],
         main' = [main EXCEPT !.pc = "front", !.any = TRUE],
         chain' = chain, free' = free, input' = input, scratch' = scratch,
         next_id' = next_id, calls' = calls, ncells' = ncells, cell' = cell, tasks' = tasks,
         worker' = worker, dec' = dec
  PROVE  IInv'
<1> USE InvParts
<1>1. main.pc \in Stage3Places \union {"raw"} /\ main.pc \notin {"lits", "wait", "scope", "driver"}
  BY DEF Stage3Places
<1>2. /\ Reference'.s = SerialAfter(NextBlock, Reference.s)
      /\ Reference'.out = Append(Reference.out, SerialOutput(NextBlock, Reference.s))
      /\ SerialAfter(NextBlock, Reference.s) = SerialAfter(CurEntry.blk, Reference.s)
      /\ hist \in Seq(Nat)
      /\ consumed' \in Seq(BlockSet) /\ Len(consumed') = Len(consumed) + 1
      /\ Len(consumed') <= Len(input) /\ Len(consumed) \in Nat /\ Len(input) \in Nat
  BY <1>1, OneBlockOn
<1>3. /\ batch \in BatchSet /\ batch.done \in Nat /\ main \in MainSet /\ next_id \in Nat
      /\ batch.plans \in Seq(PlanSet) /\ batch.ring \in Seq(Nat)
  BY DEF TypeInv, BatchSet
<1>4. /\ batch' \in BatchSet /\ batch'.done = batch.done + 1 /\ batch'.hist = hist
      /\ batch'.start = batch.start /\ batch'.defs = batch.defs /\ batch'.blocks = batch.blocks
      /\ batch'.plans = batch.plans /\ batch'.ring = batch.ring /\ batch'.handed = batch.handed
  <2>1. batch.done + 1 \in Nat
    BY <1>3
  <2> QED BY ONLY <1>2, <1>3, <2>1, batch' = [batch EXCEPT !.done = @ + 1, !.hist = hist]
             DEF BatchSet
<1>5. ~main.broke
  BY <1>1 DEF SerialInv
<1>6. /\ main' \in MainSet /\ main'.pc = "front" /\ main'.mode = "batch" /\ main'.end = main.end
      /\ ~main'.broke
  <2>1. "front" \in Places
    BY DEF Places
  <2> QED BY <1>3, <1>5, <2>1, MovesAny DEF Control
<1>7. TypeInv'
  BY <1>2, <1>4, <1>6, Zenon DEF TypeInv
<1>8. DecInv' /\ TaskInv' /\ IdInv'
  <2>1. next_id' \in Nat /\ next_id <= next_id'
    BY <1>3
  <2> QED BY <1>1, <2>1, CellsRetired
<1>9. ApartInv'
  BY <1>4, ApartSame
<1>10. chain = NoChain /\ ~chain.on
  BY DEF ModeInv
<1>11. QueueInv' /\ \A H, F, S : QueueLine(H, F, S)'
  BY <1>10, NoChainAfter
<1>12. "front" \notin Stage3Places \union {"raw"} /\ "front" \notin BatchPlaces
  BY DEF Stage3Places, BatchPlaces
<1>13. ModeInv'
  BY <1>2, <1>6, <1>10, <1>12 DEF ModeInv
<1>14. /\ batch.handed = batch.done + Len(batch.ring) /\ batch.done < Len(batch.plans)
  BY <1>1 DEF BatchInv
<1>15. Len(batch.plans) \in Nat /\ Len(batch.ring) \in Nat
  BY <1>3, LenProperties, Zenon
<1>16. BatchInv'
  <2>1. Len(consumed') - batch'.done = Len(consumed) - batch.done
    BY ONLY <1>2, <1>3, <1>4
  <2>2. \A i \in DOMAIN batch'.plans :
          /\ PlanOk(next_id', batch'.plans[i])
          /\ Len(consumed') - batch'.done + i \in DOMAIN input'
          /\ batch'.plans[i].blk = input'[Len(consumed') - batch'.done + i]
    BY <1>4, <2>1 DEF BatchInv
  <2>3. /\ batch'.done <= Len(batch'.plans) /\ batch'.done <= Len(consumed')
        /\ Len(batch'.ring) <= Len(batch'.plans)
    <3>1. batch.done <= Len(consumed) /\ Len(batch.ring) <= Len(batch.plans)
      BY DEF BatchInv
    <3>2. batch.done + 1 <= Len(batch.plans) /\ batch.done + 1 <= Len(consumed) + 1
      BY ONLY <1>2, <1>3, <1>14, <1>15, <3>1
    <3> QED BY <1>2, <1>4, <3>1, <3>2
  <2>4. batch'.handed = IF batch'.done = 0 THEN Len(batch'.ring)
                        ELSE batch'.done + Len(batch'.ring) - 1
    <3>1. batch.done + 1 # 0 /\ batch.done + Len(batch.ring) = batch.done + 1 + Len(batch.ring) - 1
      BY ONLY <1>3, <1>15
    <3> QED BY <1>4, <1>14, <3>1
  <2>5. Len(batch'.plans) # 0 => Len(batch'.ring) # 0
    BY <1>1, <1>4 DEF BatchInv
  <2>6. (\A j \in batch.done + 1 .. batch.done + Len(batch.ring) :
            IF Handed(j) THEN Live(RingCell(batch.ring, j), batch.plans[j].job)
            ELSE Quiet(RingCell(batch.ring, j)))'
    BY <1>4, RingGoesOn
  <2> QED BY <1>6, <1>12, <2>2, <2>3, <2>4, <2>5, <2>6 DEF BatchInv
<1>17. FreshInv'
  BY <1>4 DEF FreshInv
<1>18. StageInv'
  BY <1>6, <1>12 DEF StageInv
<1>19. GhostInv'
  <2>1. PICK H, F \in [Nat -> Nat] : \E S : CellsOk(cell, next_id, H, F) /\ BatchLine(H, F, S)
    BY GhostIs
  <2>2. PICK S : CellsOk(cell, next_id, H, F) /\ BatchLine(H, F, S)
    BY <2>1
  <2>3. TableInv(H, F)'
    BY <1>6, <2>2, TablesFront
  <2>4. S[batch.done + 2] = Reference'.s
    <3>1. PICK q, r, n : q = batch.plans /\ r = batch /\ n = batch.done
      OBVIOUS
    <3>2. Line(next_id, H, F, S, q, r) /\ S[n + 1] = Reference.s /\ CurEntry = q[n + 1]
      BY <2>2, <3>1 DEF BatchLine, CurEntry
    <3>3. n + 1 \in DOMAIN q /\ n + 1 + 1 = n + 2
      <4>1. DOMAIN q = 1 .. Len(q)
        BY <1>3, <3>1, LenProperties, Zenon
      <4>2. Len(q) \in Nat /\ n \in Nat /\ n < Len(q)
        BY <1>3, <1>14, <1>15, <3>1
      <4> QED BY ONLY <4>1, <4>2
    <3>4. S[n + 1 + 1] = SerialAfter(q[n + 1].blk, S[n + 1])
      BY <3>2, <3>3 DEF Line
    <3> QED BY <1>2, <3>1, <3>2, <3>3, <3>4
  <2>5. batch'.done + 1 = batch.done + 2
    <3>1. batch.done \in Nat /\ batch'.done = batch.done + 1
      BY <1>3, <1>4
    <3> QED BY ONLY <3>1
  <2>6. Line(next_id', H, F, S, batch'.plans, batch')
    BY <1>4, <2>2 DEF BatchLine, Line
  <2>7. \A d : Named(d, batch') <=> Named(d, batch)
    BY <1>4 DEF Named
  <2>8. /\ batch'.start.init = scratch' /\ S[1] = scratch' /\ S[batch'.done + 1] = Reference'.s
        /\ batch'.hist = Reference'.s.hist
        /\ H[batch'.start.id] = scratch'.huf /\ F[batch'.start.id] = scratch'.fse
    BY <1>2, <1>4, <2>2, <2>4, <2>5 DEF BatchLine
  <2>9. /\ Named(batch'.defs.huf, batch') /\ Named(batch'.defs.fse, batch')
        /\ \A i \in DOMAIN batch'.plans : /\ Named(batch'.plans[i].job.huf_def, batch')
                                          /\ Named(batch'.plans[i].job.fse_def, batch')
    BY <1>4, <2>2, <2>7 DEF BatchLine
  <2>10. BatchLine(H, F, S)'
    BY <2>6, <2>8, <2>9, Zenon DEF BatchLine
  <2> QED BY <1>11, <2>3, <2>10 DEF GhostInv
<1>20. SerialInv'
  <2>1. out' = Reference'.out
    BY <1>2 DEF SerialInv, OutputIsSerial
  <2> QED BY <1>6, <2>1 DEF SerialInv, OutputIsSerial, FailuresAreReal
<1> QED BY <1>7, <1>8, <1>9, <1>11, <1>13, <1>16, <1>17, <1>18, <1>19, <1>20, Zenon
        DEF IInv, CellsInv

(* The cells of a chain whose first block counts.                          *)
LEMMA CommitCells ==
  ASSUME IInv, main.mode = "chain", main.pc \in Stage3Places \union {"raw"},
         chain'.queue = Tail(chain.queue) \/ chain'.queue = <<>>,
         free' = IF CurCell = 0 THEN free ELSE Append(free, CurCell),
         batch' = batch, ncells' = ncells
  PROVE  free' \in Seq(Nat) /\ ApartInv'
<1> USE InvParts
<1>1. PICK q, f, g : q = chain.queue /\ f = free /\ g = free'
  OBVIOUS
<1>2. /\ q \in Seq(EntrySet) /\ q # <<>> /\ f \in Seq(Nat) /\ ncells \in Nat
      /\ CurCell = q[1].cell
  BY <1>1 DEF TypeInv, ChainSet, StageInv, CurCell
<1>3. PICK t : t = chain'.queue
  OBVIOUS
<1>4. /\ \A k \in DOMAIN t : k + 1 \in DOMAIN q /\ t[k] = q[k + 1]
      /\ \A k \in DOMAIN t : k \in Nat /\ k + 1 # 1
      /\ 1 \in DOMAIN q
  <2>1. t = Tail(q) \/ t = <<>>
    BY <1>1, <1>3
  <2>2. CASE t = <<>>
    BY ONLY <1>2, <2>2
  <2>3. CASE t = Tail(q)
    BY ONLY <1>2, <2>3
  <2> QED BY <2>1, <2>2, <2>3
<1>5. batch = NoBatch /\ DOMAIN batch.ring = {}
  BY EmptyRuns DEF ModeInv
<1>6. RingCells' = {} /\ DOMAIN batch'.ring = {}
  BY <1>5 DEF RingCells
<1>7. /\ \A j, k \in DOMAIN q : q[j].cell = q[k].cell /\ q[j].cell # 0 => j = k
      /\ \A k \in DOMAIN q : q[k].cell <= ncells /\ q[k].cell \in Nat
      /\ \A k \in DOMAIN f : f[k] \in 1 .. ncells /\ \A j \in DOMAIN q : f[k] # q[j].cell
      /\ \A j, k \in DOMAIN f : f[j] = f[k] => j = k
  <2>1. \A k \in DOMAIN q : q[k].cell \in Nat
    BY <1>1, QueueCell DEF EntrySet
  <2>2. \A k \in DOMAIN f : f[k] \in 1 .. ncells /\ f[k] \notin QueueCells
    BY <1>1 DEF ApartInv
  <2>3. \A k \in DOMAIN f : f[k] # 0
    BY ONLY <2>2, <1>2
  <2>4. \A k \in DOMAIN f : \A j \in DOMAIN q : f[k] # q[j].cell
    BY <1>1, <2>2, <2>3 DEF QueueCells
  <2> QED BY <1>1, <2>1, <2>2, <2>4 DEF ApartInv
<1>8. PICK c : c = q[1].cell
  OBVIOUS
<1>9. /\ g \in Seq(Nat)
      /\ \A k \in DOMAIN g : \/ k \in DOMAIN f /\ g[k] = f[k]
                             \/ c # 0 /\ g[k] = c /\ k = Len(f) + 1
  <2>1. CASE c = 0
    BY <1>1, <1>2, <1>8, <2>1
  <2>2. CASE c # 0
    <3>1. g = Append(f, c) /\ c \in Nat
      BY <1>1, <1>2, <1>4, <1>7, <1>8, <2>2
    <3>2. g \in Seq(Nat) /\ Len(g) = Len(f) + 1 /\ g[Len(f) + 1] = c
      /\ (\A i \in DOMAIN f : g[i] = f[i]) /\ DOMAIN g = DOMAIN f \union {Len(f) + 1}
      BY ONLY <1>2, <3>1, OneMore
    <3> QED BY <2>2, <3>2
  <2> QED BY <2>1, <2>2
<1>10. \A k \in DOMAIN t : t[k].cell # c \/ c = 0
  BY <1>4, <1>7, <1>8
<1>11. \A x \in QueueCells' : \E k \in DOMAIN t : x = t[k].cell /\ x # 0
  BY <1>3 DEF QueueCells
<1>12. \A k \in DOMAIN g : g[k] \in 1 .. ncells /\ g[k] \notin QueueCells'
  <2> SUFFICES ASSUME NEW k \in DOMAIN g PROVE g[k] \in 1 .. ncells /\ g[k] \notin QueueCells'
    OBVIOUS
  <2>1. g[k] \in 1 .. ncells
    <3>1. CASE k \in DOMAIN f /\ g[k] = f[k]
      BY <1>7, <3>1
    <3>2. CASE c # 0 /\ g[k] = c
      <4>1. c <= ncells /\ c \in Nat
        BY <1>4, <1>7, <1>8
      <4> QED BY ONLY <1>2, <3>2, <4>1
    <3> QED BY <1>9, <3>1, <3>2
  <2>2. ASSUME NEW x \in QueueCells' PROVE g[k] # x
    <3>1. PICK i \in DOMAIN t : x = t[i].cell /\ x # 0
      BY <1>11
    <3>2. i + 1 \in DOMAIN q /\ x = q[i + 1].cell
      BY <1>4, <3>1
    <3> QED BY <1>7, <1>9, <1>10, <3>1, <3>2
  <2> QED BY <2>1, <2>2
<1>13. \A j, k \in DOMAIN g : g[j] = g[k] => j = k
  <2>1. \A k \in DOMAIN f : f[k] # c
    BY <1>4, <1>7, <1>8
  <2> QED BY <1>7, <1>9, <2>1
<1>14. \A j, k \in DOMAIN t : t[j].cell = t[k].cell /\ t[j].cell # 0 => j = k
  <2> SUFFICES ASSUME NEW j \in DOMAIN t, NEW k \in DOMAIN t, t[j].cell = t[k].cell, t[j].cell # 0
               PROVE  j = k
    OBVIOUS
  <2>1. j + 1 = k + 1
    BY <1>4, <1>7
  <2>2. j \in Nat /\ k \in Nat
    BY <1>4
  <2> QED BY ONLY <2>1, <2>2
<1>15. \A k \in DOMAIN t : t[k].cell <= ncells
  BY <1>4, <1>7
<1>16. ApartInv'
  BY <1>1, <1>3, <1>6, <1>12, <1>13, <1>14, <1>15 DEF ApartInv
<1> QED BY <1>1, <1>9, <1>16

(* The chain's blocks, the first of them executed.                         *)
LEMMA QueueShrinks ==
  ASSUME IInv, chain.queue # <<>>, NEW t, t = Tail(chain.queue)
  PROVE  /\ t \in Seq(EntrySet) /\ Len(chain.queue) = Len(t) + 1 /\ Len(t) \in Nat
         /\ \A i \in DOMAIN t : i \in Nat \ {0} /\ i + 1 \in DOMAIN chain.queue
                                /\ t[i] = chain.queue[i + 1]
         /\ \A i \in DOMAIN t : i \in 1 .. Len(chain.queue)
<1>1. PICK q : q = chain.queue
  OBVIOUS
<1>2. q \in Seq(EntrySet) /\ q # <<>> /\ t = Tail(q)
  BY <1>1, InvParts DEF TypeInv, ChainSet
<1>3. /\ t \in Seq(EntrySet) /\ Len(q) = Len(t) + 1 /\ Len(t) \in Nat
      /\ \A i \in DOMAIN t : i \in Nat \ {0} /\ i + 1 \in DOMAIN q /\ t[i] = q[i + 1]
      /\ \A i \in DOMAIN t : i \in 1 .. Len(q)
  BY ONLY <1>2
<1> QED BY <1>1, <1>3

(* They are in their cells still, and the input's.                         *)
LEMMA CommitQueue ==
  ASSUME IInv, main.mode = "chain", chain.queue # <<>>, chain'.queue = Tail(chain.queue),
         main'.mode = "chain", input' = input, Len(consumed') = Len(consumed) + 1,
         cell' = cell, calls' = calls, next_id' = next_id
  PROVE  QueueInv'
<1> USE InvParts
<1>1. ASSUME NEW i \in DOMAIN chain'.queue, NEW p, p = chain'.queue[i]
      PROVE  /\ PlanOk(next_id', p)
             /\ p.cell = 0 <=> p.job = NoJob
             /\ p.job # NoJob => /\ cell'[p.cell].job = p.job
                                 /\ cell'[p.cell].claim \in {Planned(p.job.id), Taken(p.job.id)}
             /\ p.seen <= calls'
             /\ p.seen = calls' =>
                   /\ Len(consumed') + i <= Len(input')
                   /\ Holds(p, input'[Len(consumed') + i])
  <2>1. i \in Nat \ {0} /\ i + 1 \in DOMAIN chain.queue /\ p = chain.queue[i + 1]
    BY <1>1, QueueShrinks
  <2>2. /\ PlanOk(next_id, p)
        /\ p.cell = 0 <=> p.job = NoJob
        /\ p.job # NoJob => Live(p.cell, p.job)
        /\ p.seen <= calls
        /\ p.seen = calls => /\ Len(consumed) + (i + 1) <= Len(input)
                             /\ Holds(p, input[Len(consumed) + (i + 1)])
    BY <2>1 DEF QueueInv
  <2>3. Len(consumed') + i = Len(consumed) + (i + 1)
    <3>1. consumed \in Seq(BlockSet)
      BY DEF TypeInv
    <3>2. Len(consumed) \in Nat
      BY ONLY <3>1
    <3> QED BY ONLY <2>1, <3>2, Len(consumed') = Len(consumed) + 1
  <2> QED BY <2>2, <2>3 DEF Live
<1>2. \A i \in DOMAIN chain'.queue :
        LET p == chain'.queue[i]
        IN /\ PlanOk(next_id', p)
           /\ p.cell = 0 <=> p.job = NoJob
           /\ p.job # NoJob => /\ cell'[p.cell].job = p.job
                               /\ cell'[p.cell].claim \in {Planned(p.job.id), Taken(p.job.id)}
           /\ p.seen <= calls'
           /\ p.seen = calls' /\ main'.mode = "chain" =>
                 /\ Len(consumed') + i <= Len(input')
                 /\ Holds(p, input'[Len(consumed') + i])
  BY <1>1
<1> QED BY <1>2, Zenon DEF QueueInv, Live

(* The tables in use, the first block executed.                            *)
LEMMA CommitLine ==
  ASSUME IInv, main.mode = "chain", main.pc \in Stage3Places \union {"raw"},
         consumed' = Append(consumed, NextBlock), scratch' = scratch, next_id' = next_id,
         chain'.queue = Tail(chain.queue), chain'.start = chain.start,
         chain'.defs = chain.defs, chain'.blocks = chain.blocks,
         chain'.hist = SerialAfter(NextBlock, Reference.s).hist,
         NEW H, NEW F, NEW S, QueueLine(H, F, S)
  PROVE  \E T : QueueLine(H, F, T)'
<1> USE InvParts
<1>1. chain.on /\ chain.queue # <<>> /\ CurEntry = chain.queue[1]
  BY DEF ModeInv, StageInv, CurEntry
<1>2. PICK q, r, t, N : q = chain.queue /\ r = chain /\ t = chain' /\ N = next_id
  OBVIOUS
<1>3. /\ Line(N, H, F, S, q, r) /\ r.start.init = scratch
      /\ S[1] = Reference.s
      /\ \A i \in DOMAIN q : DefsOk(N, H, F, q[i].before, q[i].blocks, r.start, S[i])
  BY <1>1, <1>2 DEF QueueLine
<1>4. q \in Seq(EntrySet) /\ q # <<>>
  BY <1>1, <1>2 DEF TypeInv, ChainSet
<1>5. t.start = r.start /\ t.defs = r.defs /\ t.blocks = r.blocks /\ t.queue = Tail(q)
  BY <1>2
<1> DEFINE T == [i \in 1 .. Len(q) |-> S[i + 1]]
<1>6. Line(N, H, F, T, Tail(q), t) /\ \A i \in 1 .. Len(q) : T[i] = S[i + 1]
  BY ONLY <1>3, <1>4, <1>5, LineTail
<1> HIDE DEF T
<1>7. 1 \in DOMAIN q /\ 1 \in 1 .. Len(q)
  BY ONLY <1>4
<1>8. S[1 + 1] = SerialAfter(q[1].blk, S[1])
  BY <1>3, <1>7 DEF Line
<1>9. T[1] = Reference'.s
  <2>1. Reference'.s = SerialAfter(q[1].blk, S[1])
    BY <1>1, <1>2, <1>3, OneBlockOn
  <2> QED BY <1>6, <1>7, <1>8, <2>1
<1>10. t.hist = T[1].hist
  BY <1>2, <1>9, OneBlockOn
<1>11. \A i \in DOMAIN t.queue :
         DefsOk(N, H, F, t.queue[i].before, t.queue[i].blocks, t.start, T[i])
  <2> SUFFICES ASSUME NEW i \in DOMAIN t.queue
               PROVE  DefsOk(N, H, F, t.queue[i].before, t.queue[i].blocks, t.start, T[i])
    OBVIOUS
  <2>1. i + 1 \in DOMAIN q /\ t.queue[i] = q[i + 1] /\ i \in 1 .. Len(q)
    BY <1>1, <1>2, <1>5, QueueShrinks
  <2>2. T[i] = S[i + 1]
    BY <1>6, <2>1
  <2> QED BY <1>3, <1>5, <2>1, <2>2
<1>12. QueueLine(H, F, T)'
  BY <1>2, <1>3, <1>5, <1>6, <1>9, <1>10, <1>11, Zenon DEF QueueLine
<1> QED BY <1>12

(* A block of a chain counts.                                              *)
LEMMA CommitChain ==
  ASSUME IInv, main.mode = "chain", main.pc \in {"raw", "finish"},
         NEW hist, hist = SerialAfter(NextBlock, Reference.s).hist,
         out' = Append(out, SerialOutput(NextBlock, Reference.s)),
         consumed' = Append(consumed, NextBlock),
         chain' = (IF NextBlock.last THEN NoChain
                   ELSE [chain EXCEPT !.queue = Tail(@), !.hist = hist]),
         free' = IF CurCell = 0 THEN free ELSE Append(free, CurCell),
         main' = (IF NextBlock.last THEN Left ELSE [main EXCEPT !.pc = "fill", !.any = TRUE]),
         batch' = batch, input' = input, scratch' = scratch,
         next_id' = next_id, calls' = calls, ncells' = ncells, cell' = cell, tasks' = tasks,
         worker' = worker, dec' = dec
  PROVE  IInv'
<1> USE InvParts
<1>1. main.pc \in Stage3Places \union {"raw"} /\ main.pc \notin {"lits", "wait", "scope", "driver"}
  BY DEF Stage3Places
<1>2. /\ Reference'.s = SerialAfter(NextBlock, Reference.s)
      /\ Reference'.out = Append(Reference.out, SerialOutput(NextBlock, Reference.s))
      /\ hist \in Seq(Nat)
      /\ consumed' \in Seq(BlockSet) /\ Len(consumed') = Len(consumed) + 1
      /\ Len(consumed') <= Len(input) /\ Len(consumed) \in Nat /\ Len(input) \in Nat
  BY <1>1, OneBlockOn
<1>3. chain \in ChainSet /\ main \in MainSet /\ next_id \in Nat /\ chain.on
  BY DEF TypeInv, ModeInv
<1>4. chain.queue # <<>>
  BY <1>1 DEF StageInv
<1>5. batch = NoBatch
  BY DEF ModeInv
<1>6. ~NextBlock.last =>
        /\ chain' \in ChainSet /\ chain'.on = chain.on /\ chain'.queue = Tail(chain.queue)
        /\ chain'.hist = hist /\ chain'.start = chain.start /\ chain'.defs = chain.defs
        /\ chain'.blocks = chain.blocks
  <2>1. Tail(chain.queue) \in Seq(EntrySet)
    BY <1>4, QueueShrinks
  <2> SUFFICES ASSUME ~NextBlock.last
               PROVE  /\ chain' \in ChainSet /\ chain'.on = chain.on
                      /\ chain'.queue = Tail(chain.queue)
                      /\ chain'.hist = hist /\ chain'.start = chain.start
                      /\ chain'.defs = chain.defs /\ chain'.blocks = chain.blocks
    OBVIOUS
  <2>2. chain' = [chain EXCEPT !.queue = Tail(@), !.hist = hist]
    OBVIOUS
  <2> QED BY ONLY <1>2, <1>3, <2>1, <2>2 DEF ChainSet
<1>7. NextBlock.last => chain' = NoChain /\ chain' \in ChainSet /\ ~chain'.on /\ chain'.queue = <<>>
  BY EmptyRuns
<1>8. ~main.broke
  BY <1>1 DEF SerialInv
<1>9. /\ main' \in MainSet /\ main'.pc = (IF NextBlock.last THEN "left" ELSE "fill")
      /\ main'.mode = (IF NextBlock.last THEN "none" ELSE "chain")
      /\ main'.end = (IF NextBlock.last THEN 0 ELSE main.end)
      /\ ~main'.broke
  <2>1. CASE NextBlock.last
    BY <2>1, MovesLeft
  <2>2. CASE ~NextBlock.last
    <3>1. "fill" \in Places
      BY DEF Places
    <3>2. main' = [main EXCEPT !.pc = "fill", !.any = TRUE]
      BY <2>2
    <3>3. main' \in MainSet /\ main'.pc = "fill" /\ Control(main, main')
      BY ONLY <1>3, <3>1, <3>2, MovesAny
    <3> QED BY <1>8, <2>2, <3>3 DEF Control
  <2> QED BY <2>1, <2>2
<1>10. /\ main'.pc \in {"left", "fill"} /\ main'.mode # "batch" /\ main'.pc # "raw"
       /\ main'.pc \notin Stage3Places /\ main'.pc \notin BatchPlaces
  BY <1>9 DEF Stage3Places, BatchPlaces
<1>11. free' \in Seq(Nat) /\ ApartInv'
  BY <1>1, <1>6, <1>7, CommitCells
<1>12. TypeInv'
  <2>1. chain' \in ChainSet
    BY <1>6, <1>7
  <2> QED BY <1>2, <1>9, <1>11, <2>1, Zenon DEF TypeInv
<1>13. DecInv' /\ TaskInv' /\ IdInv'
  <2>1. next_id' \in Nat /\ next_id <= next_id'
    BY <1>3
  <2> QED BY <1>1, <2>1, CellsRetired
<1>14. ModeInv'
  <2>1. main'.end <= Len(input)
    BY <1>2, <1>9 DEF ModeInv
  <2> QED BY <1>2, <1>3, <1>5, <1>6, <1>7, <1>9, <1>10, <2>1 DEF ModeInv
<1>15. QueueInv'
  <2>1. CASE NextBlock.last
    BY <1>7, <2>1, NoChainAfter
  <2>2. CASE ~NextBlock.last
    BY <1>2, <1>4, <1>6, <1>9, <2>2, CommitQueue
  <2> QED BY <2>1, <2>2
<1>16. BatchInv' /\ FreshInv' /\ StageInv' /\ \A H, F, S : BatchLine(H, F, S)'
  BY <1>10, NoBatchAfter
<1>17. GhostInv'
  <2>1. PICK H, F \in [Nat -> Nat] : \E S : CellsOk(cell, next_id, H, F) /\ QueueLine(H, F, S)
    BY GhostIs
  <2>2. PICK S : CellsOk(cell, next_id, H, F) /\ QueueLine(H, F, S)
    BY <2>1
  <2>3. TableInv(H, F)'
    BY <1>10, <2>2, TableCells
  <2>4. \E T : QueueLine(H, F, T)'
    <3>1. CASE NextBlock.last
      BY <1>7, <3>1, NoChainAfter
    <3>2. CASE ~NextBlock.last
      BY <1>1, <1>6, <2>2, <3>2, CommitLine
    <3> QED BY <3>1, <3>2
  <2> QED BY <1>16, <2>3, <2>4 DEF GhostInv
<1>18. SerialInv'
  <2>1. out' = Reference'.out
    BY <1>2 DEF SerialInv, OutputIsSerial
  <2>2. main'.pc # "left" => chain'.on
    BY <1>3, <1>6, <1>9
  <2> QED BY <1>9, <1>10, <2>1, <2>2 DEF SerialInv, OutputIsSerial, FailuresAreReal
<1> QED BY <1>11, <1>12, <1>13, <1>14, <1>15, <1>16, <1>17, <1>18, Zenon DEF IInv, CellsInv

(* A block counts, in a chain or a batch.                                  *)
LEMMA CommitStep ==
  ASSUME IInv, main.mode \in {"chain", "batch"}, main.pc \in {"raw", "finish"},
         main.pc = "finish" => cell[CurCell].done = CurJob.id,
         NEW hist, hist = SerialAfter(NextBlock, Reference.s).hist,
         Commit(SerialOutput(NextBlock, Reference.s), hist),
         input' = input, scratch' = scratch,
         next_id' = next_id, calls' = calls, ncells' = ncells, cell' = cell, tasks' = tasks,
         worker' = worker, dec' = dec
  PROVE  IInv'
<1>1. out' = Append(out, SerialOutput(NextBlock, Reference.s)) /\ consumed' = Append(consumed, NextBlock)
  BY Zenon DEF Commit
<1>2. CASE main.mode = "batch"
  <2>1. /\ batch' = [batch EXCEPT !.done = @ + 1, !.hist = hist]
        /\ main' = [main EXCEPT !.pc = "front", !.any = TRUE]
        /\ chain' = chain /\ free' = free
    BY <1>2, Zenon DEF Commit
  <2> QED BY ONLY IInv, <1>1, <1>2, <2>1, main.pc \in {"raw", "finish"},
             main.pc = "finish" => cell[CurCell].done = CurJob.id,
             hist = SerialAfter(NextBlock, Reference.s).hist,
             input' = input, scratch' = scratch,
             next_id' = next_id, calls' = calls, ncells' = ncells, cell' = cell, tasks' = tasks,
             worker' = worker, dec' = dec, CommitBatch
<1>3. CASE main.mode = "chain"
  <2>1. main.mode # "batch"
    BY <1>3
  <2>2. /\ chain' = (IF NextBlock.last THEN NoChain
                     ELSE [chain EXCEPT !.queue = Tail(@), !.hist = hist])
        /\ free' = (IF CurCell = 0 THEN free ELSE Append(free, CurCell))
        /\ main' = (IF NextBlock.last THEN Left
                    ELSE [main EXCEPT !.pc = "fill", !.any = TRUE])
        /\ batch' = batch
    BY <2>1, Zenon DEF Commit
  <2> QED BY ONLY IInv, <1>1, <1>3, <2>2, main.pc \in {"raw", "finish"},
             hist = SerialAfter(NextBlock, Reference.s).hist,
             input' = input, scratch' = scratch,
             next_id' = next_id, calls' = calls, ncells' = ncells, cell' = cell, tasks' = tasks,
             worker' = worker, dec' = dec, CommitChain
<1> QED BY <1>2, <1>3

(* A block fails, for the serial decoder too.                              *)
LEMMA BlockFails ==
  ASSUME IInv, main.pc = "finish", main.mode \in {"chain", "batch"}, Len(consumed) < Len(input),
         SerialFails(NextBlock, Reference.s),
         input' = input, consumed' = consumed, out' = out, scratch' = scratch, chain' = chain,
         batch' = batch, next_id' = next_id, calls' = calls, free' = free, ncells' = ncells,
         cell' = cell, tasks' = tasks, worker' = worker, dec' = dec,
         main' = IF main.mode = "batch" THEN [main EXCEPT !.pc = "scope", !.broke = TRUE]
                 ELSE Returned(TRUE)
  PROVE  IInv'
<1> USE InvParts
<1>1. Kept
  BY DEF Kept
<1>2. main \in MainSet /\ main.pc \in Stage3Places \union {"raw"} /\ main.pc \notin {"lits", "wait", "scope"}
  BY DEF TypeInv, Stage3Places
<1>3. Reference' = Reference /\ NextBlock' = NextBlock
  BY DEF Reference, NextBlock
<1>4. CASE main.mode = "batch"
  <2>1. "scope" \in Places
    BY DEF Places, BatchPlaces
  <2>2. main' = [main EXCEPT !.pc = "scope", !.broke = TRUE]
    BY <1>4
  <2>3. /\ main' \in MainSet /\ main'.pc = "scope" /\ main'.mode = "batch" /\ main'.end = main.end
        /\ main'.broke
    BY ONLY <1>2, <1>4, <2>1, <2>2, MovesBroke
  <2>4. SerialInv'
    BY <1>3, <2>3 DEF SerialInv, OutputIsSerial, FailuresAreReal
  <2>5. Len(batch.plans) # 0 => Len(batch.ring) # 0
    BY <1>2, <1>4 DEF BatchInv
  <2>6. main'.pc \in {"ring", "spawn", "front", "scope"} /\ main'.pc \notin {"ring", "spawn", "front"}
    BY <2>3
  <2> QED BY <1>1, <1>2, <1>4, <2>3, <2>4, <2>5, <2>6, BatchPasses
<1>5. CASE main.mode = "chain"
  <2>1. PICK s \in BOOLEAN : s = (~main.any /\ Len(consumed) < main.end)
    OBVIOUS
  <2>2. main' = Driver(s, TRUE)
    BY <1>5, <2>1 DEF Returned
  <2>3. main' \in MainSet /\ main'.pc = "driver" /\ main'.mode = "none" /\ main'.end = 0 /\ main'.broke
    BY <2>2, DriverType
  <2>4. batch = NoBatch /\ chain.on
    BY <1>5 DEF ModeInv
  <2>5. ModeInv'
    <3>1. input \in Seq(BlockSet)
      BY DEF TypeInv
    <3>2. 0 <= Len(input)
      BY ONLY <3>1
    <3> QED BY <2>3, <2>4, <3>2 DEF ModeInv, BatchPlaces
  <2>6. main'.pc \notin Stage3Places /\ main'.pc # "raw" /\ main'.mode # "batch"
    BY <2>3 DEF Stage3Places
  <2>7. BatchInv'
    BY <2>6, NoBatchThen
  <2>8. SerialInv'
    BY <1>3, <2>3, <2>4 DEF SerialInv, OutputIsSerial, FailuresAreReal
  <2> QED BY <1>1, <1>2, <2>3, <2>5, <2>6, <2>7, <2>8, MainMoves
<1> QED BY <1>4, <1>5

(* A raw block is executed.                                                *)
LEMMA ExecuteRawStep ==
  ASSUME IInv, ExecuteRaw
  PROVE  IInv'
<1> USE InvParts
<1>1. main.pc = "raw" /\ main.pc \in Stage3Places \union {"raw"} /\ main.pc # "finish"
  BY DEF ExecuteRaw
<1>2. PICK H, F \in [Nat -> Nat] : \E S : QueueLine(H, F, S) /\ BatchLine(H, F, S)
  BY DEF GhostInv
<1>3. CurHist = Reference.s.hist /\ Reference.s \in ScratchSet
  BY <1>1, <1>2, CurSerial
<1>4. /\ SerialAfter(NextBlock, Reference.s).hist = CurHist
      /\ SerialOutput(NextBlock, FreshScratch) = SerialOutput(NextBlock, Reference.s)
  BY <1>1, <1>3, CurAfter
<1>5. /\ Commit(SerialOutput(NextBlock, Reference.s), CurHist)
      /\ input' = input /\ scratch' = scratch /\ next_id' = next_id /\ calls' = calls
      /\ ncells' = ncells /\ cell' = cell /\ tasks' = tasks /\ worker' = worker /\ dec' = dec
  BY <1>4, Zenon DEF ExecuteRaw
<1>6. main.mode \in {"chain", "batch"}
  BY <1>1, CurIs
<1> QED BY <1>1, <1>4, <1>5, <1>6, CommitStep

(* A block is executed, or fails.                                          *)
LEMMA FinishBlockStep ==
  ASSUME IInv, FinishBlock
  PROVE  IInv'
<1> USE InvParts
<1> DEFINE c == cell[CurCell]
           output == [blk |-> Tok(NextBlock), lits |-> c.lits, seqs |-> main.got,
                      hist |-> IF HasSeqs(CurJob.blk) THEN CurHist ELSE <<>>]
           hist == IF HasSeqs(CurJob.blk) THEN Append(CurHist, main.end_reps) ELSE CurHist
<1>1. /\ main.pc = "finish" /\ c.done = CurJob.id
      /\ input' = input /\ scratch' = scratch /\ next_id' = next_id /\ calls' = calls
      /\ ncells' = ncells /\ cell' = cell /\ tasks' = tasks /\ worker' = worker /\ dec' = dec
  BY Zenon DEF FinishBlock
<1>2. main.pc \in Stage3Places \union {"raw"} /\ main.pc \in Stage3Places
  BY <1>1 DEF Stage3Places
<1>3. main.mode \in {"chain", "batch"} /\ Len(consumed) < Len(input)
  BY <1>2, CurIs
<1>4. /\ main.err \/ ~c.ok => SerialFails(NextBlock, Reference.s)
      /\ ~main.err /\ c.ok => /\ output = SerialOutput(NextBlock, Reference.s)
                              /\ hist = SerialAfter(NextBlock, Reference.s).hist
  BY <1>1, FinishIs
<1>5. CASE ~(main.err \/ ~c.ok)
  <2>1. Commit(output, hist)
    BY <1>5, Zenon DEF FinishBlock
  <2>2. /\ output = SerialOutput(NextBlock, Reference.s)
        /\ hist = SerialAfter(NextBlock, Reference.s).hist
    BY <1>4, <1>5
  <2>3. Commit(SerialOutput(NextBlock, Reference.s), hist)
    BY <2>1, <2>2, Zenon
  <2> HIDE DEF hist, output
  <2> QED BY <1>1, <1>3, <2>2, <2>3, CommitStep
<1>6. CASE main.err \/ ~c.ok
  <2>1. /\ out' = out /\ consumed' = consumed /\ chain' = chain /\ batch' = batch /\ free' = free
        /\ main' = IF main.mode = "batch" THEN [main EXCEPT !.pc = "scope", !.broke = TRUE]
                   ELSE Returned(TRUE)
    BY <1>6, Zenon DEF FinishBlock
  <2>2. SerialFails(NextBlock, Reference.s)
    BY <1>4, <1>6
  <2> HIDE DEF hist, output, c
  <2> QED BY <1>1, <1>3, <2>1, <2>2, BlockFails
<1> QED BY <1>5, <1>6

-----------------------------------------------------------------------------
(* The theorems.                                                           *)

(* Nothing happens.                                                        *)
LEMMA StutterStep ==
  ASSUME IInv, UNCHANGED vars
  PROVE  IInv'
<1>1. /\ input' = input /\ consumed' = consumed /\ out' = out /\ scratch' = scratch
      /\ chain' = chain /\ batch' = batch /\ next_id' = next_id /\ calls' = calls
      /\ free' = free /\ ncells' = ncells /\ cell' = cell /\ tasks' = tasks
      /\ worker' = worker /\ dec' = dec /\ main' = main
  BY DEF vars
<1>2. Kept
  BY <1>1 DEF Kept
<1>3. TypeInv /\ TaskInv
  BY DEF IInv, CellsInv
<1>4. worker' \in [Workers -> TaskSet] /\ tasks' \in Seq(TaskSet)
  BY <1>1, <1>3 DEF TypeInv
<1>5. \A w \in Workers : worker'[w].cell <= ncells
  BY <1>1, <1>3 DEF TaskInv
<1>6. \A w \in Workers : dec[w] # NoDecode => worker'[w].cell = worker[w].cell
  BY <1>1
<1>7. \A k \in DOMAIN tasks' : \E i \in DOMAIN tasks : tasks'[k] = tasks[i]
  BY <1>1
<1>8. \A i \in DOMAIN tasks : \/ cell'[tasks[i].cell].claim # Planned(tasks[i].ticket)
                              \/ \E k \in DOMAIN tasks' : tasks'[k] = tasks[i]
  BY <1>1
<1> QED
  BY <1>1, <1>2, <1>4, <1>5, <1>6, <1>7, <1>8, PoolMoves

(* A step of the caller between calls, or of the serial decoder.           *)
LEMMA DriverStepStep ==
  ASSUME IInv, DriverStep
  PROVE  IInv'
<1>1. CASE \E e \in 0 .. Len(input) :
               e >= Len(consumed) /\ (CallDetached(e) \/ CallScoped(e))
  BY <1>1, CallDetachedStep, CallScopedStep
<1>2. CASE \E p \in DOMAIN input : Resubmit(p)
  BY <1>2, ResubmitStep
<1>3. CASE SerialBlock
  BY <1>3, SerialBlockStep
<1>4. CASE Leave
  BY <1>4, LeaveStep
<1> QED
  BY <1>1, <1>2, <1>3, <1>4 DEF DriverStep

(* A step of the executing thread in a call.                               *)
LEMMA MainStepStep ==
  ASSUME IInv, MainStep
  PROVE  IInv'
<1>1. CASE SerialBlock
  BY <1>1, SerialBlockStep
<1>2. CASE Fill \/ Filled \/ RunFront
  BY <1>2, FillStep, FilledStep, RunFrontStep
<1>3. CASE PlanBlock \/ TakeRing \/ SpawnRing \/ BatchFront \/ EndScope
  BY <1>3, PlanBlockStep, TakeRingStep, SpawnRingStep, BatchFrontStep, EndScopeStep
<1>4. CASE TakeFront \/ MainClaimsLiterals \/ MainDecodesLiterals \/ WaitStartable
  BY <1>4, TakeFrontStep, MainClaimsLiteralsStep, MainDecodesLiteralsStep, WaitStartableStep
<1>5. CASE ExecuteBlock \/ ReadyRun \/ WaitRun \/ ExecuteRaw \/ FinishBlock
  BY <1>5, ExecuteBlockStep, ReadyRunStep, WaitRunStep, ExecuteRawStep, FinishBlockStep
<1>6. CASE DecodeStep(Main)
  BY <1>6, MainApart, DecodeStepStep
<1> QED
  BY <1>1, <1>2, <1>3, <1>4, <1>5, <1>6 DEF MainStep

(* Whatever the threads do.                                                *)
LEMMA NextStep ==
  ASSUME IInv, [Next]_vars
  PROVE  IInv'
<1>1. CASE DriverStep
  BY <1>1, DriverStepStep
<1>2. CASE MainStep
  BY <1>2, MainStepStep
<1>3. CASE \E w \in Workers : StartTask(w) \/ EndTask(w) \/ DecodeStep(w)
  BY <1>3, MainApart, StartTaskStep, EndTaskStep, DecodeStepStep
<1>4. CASE UNCHANGED vars
  BY <1>4, StutterStep
<1> QED
  BY <1>1, <1>2, <1>3, <1>4 DEF Next, Finished

(* What a call hands back.                                                 *)
LEMMA ScratchFrom == IInv => ScratchIsSerial
<1> SUFFICES ASSUME IInv, main.pc = "driver"
             PROVE  /\ HandedBack = Reference.s
                    /\ chain.on => chain.hist = Reference.s.hist
  BY DEF ScratchIsSerial
<1>1. ModeInv
  BY DEF IInv, CellsInv
<1>2. main.mode # "batch" /\ main.pc # "left"
  BY <1>1 DEF ModeInv
<1> QED
  BY <1>2, HandedBackIs

(* A cell is one decode's.                                                 *)
LEMMA ExclusiveFrom == IInv => CellsExclusive
<1> SUFFICES ASSUME IInv PROVE CellsExclusive
  OBVIOUS
<1>1. DecInv /\ StageInv
  BY DEF IInv, CellsInv
<1>2. \A t \in Threads : dec[t] # NoDecode =>
          /\ cell[dec[t].cell].claim = Taken(dec[t].ticket)
          /\ \A u \in Threads \ {t} : dec[u].cell # dec[t].cell
  BY <1>1 DEF DecInv
<1>3. Executing => cell[CurCell].claim = Taken(CurJob.id)
  BY <1>1 DEF StageInv, Executing, Stage3Places
<1> QED
  BY <1>2, <1>3 DEF CellsExclusive

(* The inductive invariant of decode_detached and decode_scoped: every     *)
(* cell's tables and sequences are what its tags and tickets say, and the  *)
(* plans name the tables the serial decoder would use, in every state the  *)
(* executing thread, the caller and the pool reach together.               *)
THEOREM ParallelInvariant == Spec => []IInv
<1>1. Init => IInv
  BY InitInv
<1>2. IInv /\ [Next]_vars => IInv'
  BY NextStep
<1> QED
  BY <1>1, <1>2, PTL DEF Spec

(* Stage 3 executes each block with its own literals, its own sequences,   *)
(* the tables in use and the right repeat offsets: the frame decodes to    *)
(* what decompress_block makes of the blocks consumed.                     *)
THEOREM DecodesAsSerial == Spec => []OutputIsSerial
<1>1. IInv => OutputIsSerial
  BY DEF IInv, SerialInv
<1> QED
  BY <1>1, ParallelInvariant, PTL

(* Whenever decompress_block may take the next block, sync_scratch and     *)
(* hand_back have left it the serial decoder's tables and repeat offsets.  *)
THEOREM HandsBackScratch == Spec => []ScratchIsSerial
BY ScratchFrom, ParallelInvariant, PTL

(* execute_block, PublishedRuns and fill stop a run only at a block that   *)
(* decompress_block fails at too.                                          *)
THEOREM FailsAsSerial == Spec => []FailuresAreReal
<1>1. IInv => FailuresAreReal
  BY DEF IInv, SerialInv
<1> QED
  BY <1>1, ParallelInvariant, PTL

(* Cell::hand, Cell::take and idle_cell keep a cell to one decode and one  *)
(* block at a time, also while stage 3 reads what stage 2 publishes.       *)
THEOREM CellsAreExclusive == Spec => []CellsExclusive
BY ExclusiveFrom, ParallelInvariant, PTL
=============================================================================
