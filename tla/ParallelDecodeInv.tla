------------------------- MODULE ParallelDecodeInv -------------------------
(***************************************************************************)
(* The inductive invariant of ParallelDecode: what holds of the cells, the *)
(* threads, the tables and the blocks planned between any two steps.       *)
(***************************************************************************)
EXTENDS ParallelDecode

-----------------------------------------------------------------------------
(* Types.                                                                  *)

AnyBlock == BlockSet \union {NoBlock}
Triples == Nat \X Nat \X Nat

ScratchSet == [huf : Nat, fse : Nat, hist : Seq(Nat)]
StartSet == [id : Int, init : ScratchSet]
DefsSet == [huf : Int, fse : Int]
BlocksSet == [huf : Nat, fse : Nat]
DefSet == [id : Int, tok : Nat]
JobSet == [blk : AnyBlock, id : Int, huf_def : Int, fse_def : Int,
           defs : [huf : DefSet, fse : DefSet], start : StartSet]
EntrySet == [blk : BlockSet, job : JobSet, cell : Nat, before : DefsSet,
             blocks : BlocksSet, seen : Nat]
PlanSet == [blk : BlockSet, job : JobSet]
ChainSet == [on : BOOLEAN, start : StartSet, hist : Seq(Nat), defs : DefsSet,
             blocks : BlocksSet, queue : Seq(EntrySet)]
BatchSet == [start : StartSet, hist : Seq(Nat), defs : DefsSet, blocks : BlocksSet,
             plans : Seq(PlanSet), ring : Seq(Nat), handed : Nat, done : Nat]
CellSet == [claim : Nat, done : Int, lit_claim : Nat, lit_done : Int,
            sequences_first : BOOLEAN, progress : 0..2, seqs : Seq(Triples), end : Nat,
            fse_from : Int, fse : Nat, ok : BOOLEAN, job : JobSet,
            huf_from : Int, huf : Nat, lits : Nat, lits_ok : BOOLEAN]
TaskSet == [cell : Nat, ticket : Int]
DecSet == [pc : {"idle", "lits", "litting", "seqs", "seqs2", "mark"}, cell : Nat, ticket : Int]

Stage3Places == {"take", "lits", "litting", "wait", "exec", "runs", "runs_wait", "finish"}
BatchPlaces == {"plan", "ring", "spawn", "scope"}
Places == {"driver", "left", "failed", "fill", "front", "raw"} \union Stage3Places
              \union BatchPlaces
MainSet == [pc : Places, mode : {"none", "chain", "batch"}, end : Nat, any : BOOLEAN,
            blocked : BOOLEAN, stalled : BOOLEAN, broke : BOOLEAN, at : 0..2,
            got : Seq(Triples), end_reps : Nat, err : BOOLEAN, saw_done : BOOLEAN]

TypeInv ==
    /\ input \in Seq(BlockSet) /\ consumed \in Seq(BlockSet)
    /\ scratch \in ScratchSet /\ chain \in ChainSet /\ batch \in BatchSet
    /\ next_id \in Nat /\ calls \in Nat /\ ncells \in Nat
    /\ free \in Seq(Nat)
    /\ cell \in [Cells -> CellSet]
    /\ tasks \in Seq(TaskSet)
    /\ worker \in [Workers -> TaskSet]
    /\ dec \in [Threads -> DecSet]
    /\ main \in MainSet

-----------------------------------------------------------------------------
(* The inductive invariant: cells and threads.                             *)

\* A thread that decodes has taken the block in its cell, alone.
DecInv ==
    /\ \A th \in Threads : dec[th] # NoDecode =>
          /\ dec[th].pc # "idle"
          /\ dec[th].cell \in 1 .. ncells /\ dec[th].ticket \in Nat
          /\ cell[dec[th].cell].claim = Taken(dec[th].ticket)
          /\ cell[dec[th].cell].done # dec[th].ticket
          /\ cell[dec[th].cell].job.id = dec[th].ticket
          /\ \A u \in Threads \ {th} : dec[u].cell # dec[th].cell
    /\ \A w \in Workers : dec[w] # NoDecode => worker[w].cell = dec[w].cell
    /\ dec[Main] # NoDecode => main.pc \in {"lits", "wait"}

\* A planned block has a task, which will find it in its cell.
TaskInv ==
    /\ ncells <= MaxCells
    /\ \A i \in DOMAIN tasks : tasks[i].cell \in 1 .. ncells /\ tasks[i].ticket \in Nat
    /\ \A w \in Workers : worker[w].cell <= ncells
    /\ \A c \in Cells : \A t \in Nat : cell[c].claim = Planned(t) =>
          /\ cell[c].done # t
          /\ cell[c].job.id = t
          /\ \E i \in DOMAIN tasks : tasks[i].cell = c /\ tasks[i].ticket = t

\* The tickets in use have been given out.
IdInv ==
    \A c \in Cells : /\ cell[c].done \in -1 .. next_id - 1
                     /\ cell[c].lit_done \in -1 .. next_id - 1
                     /\ cell[c].job.id \in -1 .. next_id - 1

\* No cell is in two places: free, the queue's, the ring's.
QueueCells == {chain.queue[i].cell : i \in DOMAIN chain.queue} \ {0}
RingCells == {batch.ring[i] : i \in DOMAIN batch.ring}

ApartInv ==
    /\ \A k \in DOMAIN free : /\ free[k] \in 1 .. ncells
                              /\ free[k] \notin QueueCells /\ free[k] \notin RingCells
    /\ \A j, k \in DOMAIN free : free[j] = free[k] => j = k
    /\ \A k \in DOMAIN chain.queue : chain.queue[k].cell <= ncells
    /\ \A j, k \in DOMAIN chain.queue :
          chain.queue[j].cell = chain.queue[k].cell /\ chain.queue[j].cell # 0 => j = k
    /\ \A k \in DOMAIN batch.ring : batch.ring[k] \in 1 .. ncells
    /\ \A j, k \in DOMAIN batch.ring : batch.ring[j] = batch.ring[k] => j = k

\* Where the executing thread is, and which of chain and batch it runs.
ModeInv ==
    /\ ~chain.on => chain = NoChain
    /\ main.mode # "batch" => batch = NoBatch
    /\ main.mode = "batch" => ~chain.on
    /\ main.mode = "chain" => chain.on
    /\ main.mode = "none" <=> main.pc \in {"driver", "left", "failed"}
    /\ main.pc \in BatchPlaces => main.mode = "batch"
    /\ main.pc = "fill" => main.mode = "chain"
    /\ main.pc \in {"left", "failed"} => ~chain.on
    /\ main.end <= Len(input)
    /\ Len(consumed) <= Len(input)
    /\ \A p \in DOMAIN input : input[p].v = 0 => input[p] \in FrameBlocks

\* A block's cell holds its job, planned or taken.
Live(c, j) ==
    /\ cell[c].job = j
    /\ cell[c].claim \in {Planned(j.id), Taken(j.id)}

\* What is planned: a compressed block has a job, and a cell that holds it.
PlanOk(N, p) ==
    /\ p.job = NoJob <=> p.blk.kind = "raw"
    /\ p.job # NoJob => p.job.blk = p.blk /\ p.job.id \in 1 .. N - 1

QueueInv ==
    \A i \in DOMAIN chain.queue :
        LET p == chain.queue[i]
        IN /\ PlanOk(next_id, p)
           /\ p.cell = 0 <=> p.job = NoJob
           /\ p.job # NoJob => Live(p.cell, p.job)
           /\ p.seen <= calls
           /\ p.seen = calls /\ main.mode = "chain" =>
                 /\ Len(consumed) + i <= Len(input)
                 /\ Holds(p, input[Len(consumed) + i])

\* No thread decodes into a cell and no task may start to.
Quiet(c) ==
    /\ \A t \in Nat : cell[c].claim # Planned(t)
    /\ \A th \in Threads : dec[th].cell # c

Handed(j) == j <= batch.handed /\ j <= Len(batch.plans) /\ batch.plans[j].job # NoJob

BatchInv ==
    main.mode = "batch" =>
        /\ \A i \in DOMAIN batch.plans :
              /\ PlanOk(next_id, batch.plans[i])
              /\ Len(consumed) - batch.done + i \in DOMAIN input
              /\ batch.plans[i].blk = input[Len(consumed) - batch.done + i]
        /\ batch.done <= Len(batch.plans) /\ batch.done <= Len(consumed)
        /\ Len(batch.ring) <= Len(batch.plans)
        /\ main.pc \notin {"plan", "ring"} /\ Len(batch.plans) # 0 => Len(batch.ring) # 0
        /\ main.pc = "plan" => batch.ring = <<>>
        /\ main.pc \in {"plan", "ring"} => batch.handed = 0
        /\ main.pc \in {"plan", "ring", "spawn"} => batch.done = 0
        /\ main.pc = "spawn" => batch.handed <= Len(batch.ring)
        /\ main.pc = "front" => batch.handed = IF batch.done = 0 THEN Len(batch.ring)
                                               ELSE batch.done + Len(batch.ring) - 1
        /\ main.pc \in Stage3Places \union {"raw"} =>
              batch.handed = batch.done + Len(batch.ring) /\ batch.done < Len(batch.plans)
        /\ main.pc # "scope" =>
              \A j \in batch.done + 1 .. batch.done + Len(batch.ring) :
                  IF Handed(j) THEN Live(RingCell(batch.ring, j), batch.plans[j].job)
                  ELSE Quiet(RingCell(batch.ring, j))

\* A block planned in a batch is in no cell before it is handed one.
FreshInv ==
    main.mode = "batch" =>
        /\ \A i, j \in DOMAIN batch.plans :
              batch.plans[i].job.id = batch.plans[j].job.id /\ batch.plans[i].job # NoJob => i = j
        /\ \A j \in DOMAIN batch.plans : j > batch.handed /\ batch.plans[j].job # NoJob =>
              \A c \in Cells : /\ cell[c].done # batch.plans[j].job.id
                               /\ cell[c].lit_done # batch.plans[j].job.id
                               /\ cell[c].job.id # batch.plans[j].job.id

\* The block being executed.
CurEntry == IF main.mode = "chain" THEN chain.queue[1] ELSE batch.plans[batch.done + 1]

StageInv ==
    main.pc \in Stage3Places \union {"raw"} =>
        /\ main.mode = "chain" => chain.queue # <<>>
        /\ main.mode = "chain" => chain.queue[1].seen = calls
        /\ Len(consumed) < Len(input)
        /\ main.pc = "raw" <=> CurEntry.job = NoJob
        /\ main.pc \notin {"raw", "take"} => cell[CurCell].claim = Taken(CurJob.id)

CellsInv ==
    /\ TypeInv /\ DecInv /\ TaskInv /\ IdInv /\ ApartInv /\ ModeInv /\ QueueInv
    /\ BatchInv /\ FreshInv /\ StageInv

-----------------------------------------------------------------------------
(* The inductive invariant: tables and content.  H and F give each block   *)
(* and start named so far the Huffman and sequence table it stands for.    *)

\* What a job needs to find the table named d, of N names given.
UsesTable(N, H, d, id, def, sid, init) ==
    d # NoId => /\ d \in 0 .. N - 1
                /\ d = sid => init = H[d]
                /\ d \notin {id, sid} => def.id = d /\ def.tok = H[d]

JobOk(N, H, F, j) ==
    /\ j.blk \in BlockSet
    /\ j.id \in 1 .. N - 1
    /\ H[j.id] = Tok(j.blk) /\ F[j.id] = Tok(j.blk)
    /\ j.huf_def = NoId <=> j.blk.huf = "none"
    /\ j.fse_def = NoId <=> j.blk.fse = "none"
    /\ UsesTable(N, H, j.huf_def, j.id, j.defs.huf, j.start.id, j.start.init.huf)
    /\ UsesTable(N, F, j.fse_def, j.id, j.defs.fse, j.start.id, j.start.init.fse)

LitsOf(H, j) == IF j.huf_def = NoId THEN NoTable ELSE H[j.huf_def]
SeqsOf(F, j, i) == RelSeq(j.blk, i, F[j.fse_def])

\* The sequences of a cell's block are decoded.
SeqsDone(c) ==
    /\ c.ok <=> c.job.blk.fault # "seq"
    /\ c.ok /\ HasSeqs(c.job.blk) => c.progress = 2

\* A cell's tables are what they are tagged with, and what it has published
\* is its block's.
TagOk(N, T, from, table) == from # NoId => from \in 0 .. N - 1 /\ table = T[from]

LitsOk(H, c) ==
    c.lit_done = c.job.id => /\ c.lits = LitsOf(H, c.job)
                             /\ c.lits_ok <=> c.job.blk.fault # "lit"

RunsOk(F, c) ==
    /\ c.progress # 0 => HasSeqs(c.job.blk) /\ c.seqs[1] = SeqsOf(F, c.job, 1)
    /\ c.progress = 2 => /\ c.seqs[2] = SeqsOf(F, c.job, 2) /\ c.end = Tok(c.job.blk)
                         /\ c.job.blk.fault # "seq"

CellOk(N, H, F, c) ==
    /\ Len(c.seqs) = 2
    /\ TagOk(N, H, c.huf_from, c.huf) /\ TagOk(N, F, c.fse_from, c.fse)
    /\ c.job # NoJob => /\ JobOk(N, H, F, c.job) /\ LitsOk(H, c) /\ RunsOk(F, c)
                        /\ c.done = c.job.id => SeqsDone(c)

\* Where a decode stands, and what it has left behind.
DecOk(d, c) ==
    /\ d.pc = "seqs2" => c.progress = 1
    /\ d.pc = "mark" => SeqsDone(c)
    /\ d.pc \in {"lits", "litting"} /\ c.sequences_first => SeqsDone(c)

\* What the executing thread has read of the block's sequences.
ReadOk(F, m, c, j) ==
    /\ c.lit_done = j.id
    /\ m.at = 0 => m.got = <<>>
    /\ m.at = 1 => m.got = <<SeqsOf(F, j, 1)>>
    /\ m.at = 2 => m.got = <<SeqsOf(F, j, 1), SeqsOf(F, j, 2)>> /\ m.end_reps = Tok(j.blk)
    /\ ~HasSeqs(j.blk) => m.at = 0
    /\ m.pc \in {"runs", "runs_wait"} => c.lits_ok /\ HasSeqs(j.blk) /\ m.at < 2
    /\ m.pc = "runs_wait" /\ m.saw_done => c.done = j.id
    /\ m.pc = "finish" /\ m.err => j.blk.fault # "none"
    /\ m.pc = "finish" /\ ~m.err => c.lits_ok /\ (HasSeqs(j.blk) => m.at = 2)

TableInv(H, F) ==
    /\ \A c \in Cells : CellOk(next_id, H, F, cell[c])
    /\ \A th \in Threads : dec[th] # NoDecode => DecOk(dec[th], cell[dec[th].cell])
    /\ main.pc \in {"runs", "runs_wait", "finish"} => ReadOk(F, main, cell[CurCell], CurJob)

\* A table in use: the one named d, held by the start or described by the
\* block of token tok, is val.
InUse(N, H, d, tok, sid, init, val) ==
    /\ d = NoId <=> val = NoTable
    /\ d # NoId => d \in 0 .. N - 1 /\ val = H[d]
    /\ d \in {NoId, sid} => init = val
    /\ d \notin {NoId, sid} => tok = val

DefsOk(N, H, F, defs, blocks, start, s) ==
    /\ InUse(N, H, defs.huf, blocks.huf, start.id, start.init.huf, s.huf)
    /\ InUse(N, F, defs.fse, blocks.fse, start.id, start.init.fse, s.fse)

\* A planned block's job finds the tables the serial decoder would have.
UsesOk(N, H, F, p, s) ==
    p.job # NoJob => /\ JobOk(N, H, F, p.job)
                     /\ p.blk.huf # "none" => H[p.job.huf_def] = HufAfter(p.blk, s)
                     /\ HasSeqs(p.blk) => F[p.job.fse_def] = FseAfter(p.blk, s)

\* The states S the serial decoder goes through over the blocks q planned,
\* and the tables in use after them.
Line(N, H, F, S, q, r) ==
    /\ r.start.id \in 0 .. N - 1
    /\ S \in [1 .. Len(q) + 1 -> ScratchSet]
    /\ \A i \in DOMAIN q : /\ S[i + 1] = SerialAfter(q[i].blk, S[i])
                           /\ UsesOk(N, H, F, q[i], S[i])
    /\ DefsOk(N, H, F, r.defs, r.blocks, r.start, S[Len(q) + 1])

QueueLine(H, F, S) ==
    chain.on =>
        /\ Line(next_id, H, F, S, chain.queue, chain)
        /\ chain.start.init = scratch
        /\ S[1] = Reference.s /\ chain.hist = S[1].hist
        /\ \A i \in DOMAIN chain.queue :
              DefsOk(next_id, H, F, chain.queue[i].before, chain.queue[i].blocks, chain.start,
                     S[i])

\* The block or start that described a table of the batch is its own.
Named(d, r) == d \in {NoId, r.start.id} \/ \E i \in DOMAIN r.plans : r.plans[i].job.id = d

BatchLine(H, F, S) ==
    main.mode = "batch" =>
        /\ Line(next_id, H, F, S, batch.plans, batch)
        /\ batch.start.init = scratch
        /\ H[batch.start.id] = scratch.huf /\ F[batch.start.id] = scratch.fse
        /\ S[1] = scratch /\ S[batch.done + 1] = Reference.s /\ batch.hist = Reference.s.hist
        /\ Named(batch.defs.huf, batch) /\ Named(batch.defs.fse, batch)
        /\ \A i \in DOMAIN batch.plans : /\ Named(batch.plans[i].job.huf_def, batch)
                                         /\ Named(batch.plans[i].job.fse_def, batch)

GhostInv ==
    \E H, F \in [Nat -> Nat] : \E S : TableInv(H, F) /\ QueueLine(H, F, S) /\ BatchLine(H, F, S)

\* What the serial decoder would have made of the blocks consumed.
SerialInv ==
    /\ OutputIsSerial
    /\ main.pc # "left" /\ ~chain.on /\ main.mode # "batch" => scratch = Reference.s
    /\ FailuresAreReal
    /\ main.broke => main.pc \in {"driver", "scope"}
    /\ main.broke \/ main.pc = "failed" => Len(consumed) < Len(input)

IInv == CellsInv /\ GhostInv /\ SerialInv
=============================================================================
