--------------------------- MODULE ParallelDecode ---------------------------
(***************************************************************************)
(* The multi-threaded block decoder of a frame (decode.rs, mod parallel).  *)
(*                                                                         *)
(* The executing thread plans blocks ahead, pool tasks decode their        *)
(* literals and sequences (stage 2) into cells, and the executing thread   *)
(* executes the blocks in order (stage 3) while stage 2 still publishes.   *)
(* A chain of planned blocks survives the call that planned it, a batch    *)
(* lives in one rayon scope, and the serial decoder may take over between  *)
(* any two blocks.                                                         *)
(*                                                                         *)
(* A block's content is a token; a Huffman or sequence table is the token  *)
(* of the block that describes it, so decoding with the wrong table, with  *)
(* another block's sequences or from the wrong repeat offsets shows in the *)
(* output.  One sequence table stands for the LL, OF and ML tables, which  *)
(* the code treats alike, and a block with sequences has two of them,      *)
(* published one by one (PUBLISH_EVERY is 1).                              *)
(***************************************************************************)
EXTENDS Integers, Sequences, FiniteSets, SequencesExt

CONSTANTS
    Workers,    \* the threads of the rayon pool
    Frames,     \* the frames decoded: sequences of blocks
    Variant(_), \* what a later call's input may hold instead of an unread block
    Ahead,      \* blocks planned ahead for each thread of the pool, the code's 2
    MaxCalls,   \* bound on the calls whose input holds no whole block
    MaxCells    \* bound on the cells a batch's ring is taken from

Main == "main"
Threads == Workers \union {Main}

\* rayon::current_num_threads() workers, so many blocks planned ahead.
Depth == Ahead * Cardinality(Workers)

ASSUME PoolAssumption ==
    /\ IsFiniteSet(Workers) /\ Workers # {} /\ Main \notin Workers
    /\ Ahead \in Nat \ {0} /\ MaxCalls \in Nat
    /\ MaxCells \in Nat /\ MaxCells >= 2 * Depth

\* A chain allocates at most 2 * Depth cells, a batch as many as it needs.
Cells == 1 .. MaxCells

\* The blocks a frame is made of; a raw one describes and uses no table.
BlockSet ==
    {b \in [at : Nat \ {0}, v : {0, 1}, kind : {"raw", "comp", "reserved"},
            huf : {"none", "own", "repeat"}, fse : {"none", "own", "repeat"},
            fault : {"none", "lit", "seq", "exec"}, last : BOOLEAN] :
        b.kind = "raw" => b.huf = "none" /\ b.fse = "none"}

FrameBlocks == UNION {Range(f) : f \in Frames}

\* A block that took another's place says so.
ASSUME FramesAssumption ==
    /\ Frames \subseteq Seq(BlockSet)
    /\ \A b \in FrameBlocks : Variant(b) \subseteq {c \in BlockSet : c.v = 1}

NoId == -1     \* None, of a block id or ticket
NoTable == 0   \* no table in use

NumSequences == 2
NoSequence == <<0, 0, 0>>

VARIABLES
    input,      \* the frame's blocks, as the caller presents them
    consumed,   \* the blocks decoded, as they were
    out,        \* what they decoded to
    scratch,    \* the serial decoder's tables and repeat offsets
    chain,      \* the chain running, if any
    batch,      \* the batch running in a scope, if any
    next_id, calls, free, ncells,
    cell,       \* the cells
    tasks,      \* spawned tasks no worker has started, first in first out
    worker,     \* the task each worker runs
    dec,        \* where each thread stands in Cell::decode
    main        \* where the executing thread stands, with its locals

vars == <<input, consumed, out, scratch, chain, batch, next_id, calls, free,
          ncells, cell, tasks, worker, dec, main>>

----------------------------------------------------------------------------
(* Blocks and the serial decoder. *)

Tok(b) == 2 * b.at + b.v

HasSeqs(b) == b.fse # "none"

HufAfter(b, s) == IF b.huf = "own" THEN Tok(b) ELSE s.huf
FseAfter(b, s) == IF b.fse = "own" THEN Tok(b) ELSE s.fse

RelSeq(b, i, table) == <<Tok(b), i, table>>

\* A block fails: a reserved type, a table repeated where none is in use,
\* corrupt literals or sequences, or a match out of reach when executed.
SerialFails(b, s) ==
    \/ b.kind = "reserved"
    \/ b.fault # "none"
    \/ b.huf = "repeat" /\ s.huf = NoTable
    \/ b.fse = "repeat" /\ s.fse = NoTable

\* What a block decodes to with the tables and repeat offsets s.
SerialOutput(b, s) ==
    [blk  |-> Tok(b),
     lits |-> IF b.huf = "none" THEN NoTable ELSE HufAfter(b, s),
     seqs |-> IF HasSeqs(b)
              THEN [i \in 1..NumSequences |-> RelSeq(b, i, FseAfter(b, s))]
              ELSE <<>>,
     hist |-> IF HasSeqs(b) THEN s.hist ELSE <<>>]

\* The scratch decompress_block leaves: the tables the block describes and
\* the repeat offsets after its sequences.
SerialAfter(b, s) ==
    [huf  |-> HufAfter(b, s),
     fse  |-> FseAfter(b, s),
     hist |-> IF HasSeqs(b) THEN Append(s.hist, Tok(b)) ELSE s.hist]

FreshScratch == [huf |-> NoTable, fse |-> NoTable, hist |-> <<>>]

----------------------------------------------------------------------------
(* Stage 1: plans. *)

\* FrameStart::defs: the start's id for each table it has one of.
StartDefs(start) ==
    [huf |-> IF start.init.huf # NoTable THEN start.id ELSE NoId,
     fse |-> IF start.init.fse # NoTable THEN start.id ELSE NoId]

\* The tables in use after block b, named id, given those before it.
DefsAfter(b, id, defs) ==
    [huf |-> IF b.huf = "own" THEN id ELSE defs.huf,
     fse |-> IF b.fse = "own" THEN id ELSE defs.fse]

\* plan_compressed, or a raw block's plan: it fails where a table is
\* repeated that none described; a reserved block type is not located.
CanPlan(b, defs) ==
    /\ b.kind # "reserved"
    /\ b.huf = "repeat" => defs.huf # NoId
    /\ b.fse = "repeat" => defs.fse # NoId

NoDef == [id |-> NoId, tok |-> NoTable]

\* job_defs: the earlier block of the run whose description a job needs a
\* copy of; none for the block's own or the start's.
JobDef(d, id, start, tok) ==
    IF d \in {NoId, id, start.id} THEN NoDef ELSE [id |-> d, tok |-> tok]

\* The stage 2 of a compressed block, owning all it reads.
Job(b, id, start, defs, blocks) ==
    LET after == DefsAfter(b, id, defs)
        huf == IF b.huf = "none" THEN NoId ELSE after.huf
        fse == IF HasSeqs(b) THEN after.fse ELSE NoId
    IN [blk |-> b, id |-> id, huf_def |-> huf, fse_def |-> fse,
        defs |-> [huf |-> JobDef(huf, id, start, blocks.huf),
                  fse |-> JobDef(fse, id, start, blocks.fse)],
        start |-> start]

NoStart == [id |-> NoId, init |-> FreshScratch]

NoBlock == [at |-> 0, v |-> 0, kind |-> "raw", huf |-> "none", fse |-> "none",
            fault |-> "none", last |-> FALSE]

NoJob == [blk |-> NoBlock, id |-> NoId, huf_def |-> NoId, fse_def |-> NoId,
          defs |-> [huf |-> NoDef, fse |-> NoDef], start |-> NoStart]

NoDefs == [huf |-> NoId, fse |-> NoId]
NoBlocks == [huf |-> NoTable, fse |-> NoTable]

\* The content of the blocks that described the tables in use.
BlocksAfter(b, blocks) ==
    [huf |-> IF b.huf = "own" THEN Tok(b) ELSE blocks.huf,
     fse |-> IF b.fse = "own" THEN Tok(b) ELSE blocks.fse]

NoChain == [on |-> FALSE, start |-> NoStart, hist |-> <<>>, defs |-> NoDefs,
            blocks |-> NoBlocks, queue |-> <<>>]

NoBatch == [start |-> NoStart, hist |-> <<>>, defs |-> NoDefs, blocks |-> NoBlocks,
            plans |-> <<>>, ring |-> <<>>, handed |-> 0, done |-> 0]

----------------------------------------------------------------------------
(* Cells. *)

\* A cell's claims are 2 * ticket while planned, one more once taken; of
\* what its two locked slots hold, huf_from to lits_ok are the literals'.
NewCell ==
    [claim |-> 1, done |-> NoId, lit_claim |-> 1, lit_done |-> NoId,
     sequences_first |-> FALSE,
     progress |-> 0, seqs |-> <<NoSequence, NoSequence>>, end |-> NoTable,
     fse_from |-> NoId, fse |-> NoTable, ok |-> TRUE, job |-> NoJob,
     huf_from |-> NoId, huf |-> NoTable, lits |-> NoTable, lits_ok |-> TRUE]

Planned(t) == 2 * t
Taken(t) == 2 * t + 1

\* Cell::hand, after the job is put in the slot.
Hand(c, job, next) ==
    [c EXCEPT !.job = job,
              !.progress = 0,
              !.sequences_first = next,
              !.lit_claim = Planned(job.id),
              !.claim = Planned(job.id)]

\* Cell::startable: the executing thread can start on the block.
Startable(c, t) ==
    \/ c.done = t
    \/ c.progress # 0 /\ c.lit_done = t

\* The tasks spawned and not ended that hold cell c.
Held(c) ==
    \/ \E i \in DOMAIN tasks : tasks[i].cell = c
    \/ \E w \in Workers : worker[w].cell = c

\* Mutant of IdleIndex: a free cell is taken while a task holds it.
IdleIndexAny(fr) == Len(fr)

\* idle_cell: a free cell no task holds, most recently freed first (its
\* index in free), or a new one below cap; 0 when there is none.
IdleIndex(fr) ==
    LET idle == {k \in DOMAIN fr : ~Held(fr[k])}
    IN IF idle = {} THEN 0 ELSE Max(idle)

SwapRemove(s, k) == SubSeq([s EXCEPT ![k] = s[Len(s)]], 1, Len(s) - 1)

TakeCell(fr, n, cap) ==
    LET k == IdleIndex(fr)
    IN IF k # 0 THEN [cell |-> fr[k], free |-> SwapRemove(fr, k), ncells |-> n]
       ELSE IF n < cap THEN [cell |-> n + 1, free |-> fr, ncells |-> n + 1]
       ELSE [cell |-> 0, free |-> fr, ncells |-> n]

NoDecode == [pc |-> "idle", cell |-> 0, ticket |-> NoId]
NoTask == [cell |-> 0, ticket |-> NoId]

\* Cell::decode entered with the ticket taken: sequences or literals first.
Entered(c, t) ==
    [pc |-> IF cell[c].sequences_first THEN "seqs" ELSE "lits", cell |-> c, ticket |-> t]

----------------------------------------------------------------------------
(* Stage 2, on whichever thread took the block. *)

\* The Huffman table decode_literals decodes job's literals with, and the
\* tag it leaves: the block's own, the start's, or one rebuilt from its
\* description unless the cell's table is already that block's.
HufTable(c, job) ==
    IF job.huf_def = NoId THEN [huf |-> c.huf, from |-> c.huf_from]
    ELSE IF job.huf_def = job.id THEN [huf |-> Tok(job.blk), from |-> job.id]
    ELSE IF c.huf_from = job.huf_def THEN [huf |-> c.huf, from |-> c.huf_from]
    ELSE IF job.huf_def = job.start.id
    THEN [huf |-> job.start.init.huf, from |-> job.start.id]
    ELSE [huf |-> job.defs.huf.tok, from |-> job.defs.huf.id]

\* decode_literals into the cell's literals, done then for ticket t; corrupt
\* ones leave them failed, and the block's own table untagged.
DecodeLiterals(c, job, t) ==
    LET h == HufTable(c, job)
        ok == job.blk.fault # "lit"
    IN [c EXCEPT !.huf_from = IF ~ok /\ job.huf_def = job.id THEN NoId ELSE h.from,
                 !.huf = h.huf,
                 !.lits = IF job.huf_def = NoId THEN NoTable ELSE h.huf,
                 !.lits_ok = ok,
                 !.lit_done = t]

\* The sequence table decode_block_sequences uses, and what it leaves in the
\* slot; the start's table is used where it is.
FseTable(c, job) ==
    IF job.fse_def = job.id THEN [fse |-> Tok(job.blk), from |-> job.id]
    ELSE IF job.fse_def \in {job.start.id, c.fse_from} THEN [fse |-> c.fse, from |-> c.fse_from]
    ELSE [fse |-> job.defs.fse.tok, from |-> job.defs.fse.id]

UsedFse(c, job) ==
    IF job.fse_def = job.start.id THEN job.start.init.fse ELSE FseTable(c, job).fse

\* decode_block_sequences without sequences: the bitstream is checked.
NoSequences(c) == [c EXCEPT !.ok = (c.job.blk.fault # "seq")]

\* Up to the first publication: tables, room, the first sequence.
PublishFirst(c) ==
    [c EXCEPT !.fse = FseTable(c, c.job).fse,
              !.fse_from = FseTable(c, c.job).from,
              !.seqs = <<RelSeq(c.job.blk, 1, UsedFse(c, c.job)), NoSequence>>,
              !.progress = 1]

\* The last sequence: written, and published with the repeat offsets after
\* it once the bitstream is checked.
PublishLast(c) ==
    LET ok == c.job.blk.fault # "seq"
    IN [c EXCEPT !.seqs = <<@[1], RelSeq(c.job.blk, 2, UsedFse(c, c.job))>>,
                 !.ok = ok,
                 !.progress = IF ok THEN NumSequences ELSE @,
                 !.end = IF ok THEN Tok(c.job.blk) ELSE @]

Goto(th, pc) == dec' = [dec EXCEPT ![th].pc = pc]

AfterLiterals(th) == IF cell[dec[th].cell].sequences_first THEN "mark" ELSE "seqs"

\* Cell::literals: claim the literals, unless someone has.
ClaimLiterals(th) ==
    LET d == dec[th]
    IN /\ d.pc = "lits"
       /\ IF cell[d.cell].lit_claim = Planned(d.ticket)
          THEN /\ cell' = [cell EXCEPT ![d.cell].lit_claim = Taken(d.ticket)]
               /\ Goto(th, "litting")
          ELSE /\ Goto(th, AfterLiterals(th))
               /\ UNCHANGED cell
       /\ UNCHANGED <<input, consumed, out, scratch, chain, batch, next_id, calls,
                      free, ncells, tasks, worker, main>>

\* The claimed literals decoded, then marked done.
EndLiterals(th) ==
    LET d == dec[th]
    IN /\ d.pc = "litting"
       /\ cell' = [cell EXCEPT ![d.cell] = DecodeLiterals(@, @.job, d.ticket)]
       /\ Goto(th, AfterLiterals(th))
       /\ UNCHANGED <<input, consumed, out, scratch, chain, batch, next_id, calls,
                      free, ncells, tasks, worker, main>>

\* The block's sequences, if any, up to the first publication.
FirstSequences(th) ==
    LET d == dec[th]
        c == cell[d.cell]
        ok == c.job.blk.fault # "seq"
    IN /\ d.pc = "seqs"
       /\ IF HasSeqs(c.job.blk)
          THEN /\ cell' = [cell EXCEPT ![d.cell] = PublishFirst(@)]
               /\ Goto(th, "seqs2")
          ELSE /\ cell' = [cell EXCEPT ![d.cell] = NoSequences(@)]
               /\ Goto(th, IF c.sequences_first /\ ok THEN "lits" ELSE "mark")
       /\ UNCHANGED <<input, consumed, out, scratch, chain, batch, next_id, calls,
                      free, ncells, tasks, worker, main>>

\* The last of them; a block that fails leaves its literals.
LastSequences(th) ==
    LET d == dec[th]
        c == cell[d.cell]
        ok == c.job.blk.fault # "seq"
    IN /\ d.pc = "seqs2"
       /\ cell' = [cell EXCEPT ![d.cell] = PublishLast(@)]
       /\ Goto(th, IF c.sequences_first /\ ok THEN "lits" ELSE "mark")
       /\ UNCHANGED <<input, consumed, out, scratch, chain, batch, next_id, calls,
                      free, ncells, tasks, worker, main>>

\* MarkDone of Cell::decode: the result is in the slot, its lock released.
MarkDone(th) ==
    LET d == dec[th]
    IN /\ d.pc = "mark"
       /\ cell' = [cell EXCEPT ![d.cell].done = d.ticket]
       /\ dec' = [dec EXCEPT ![th] = NoDecode]
       /\ UNCHANGED <<input, consumed, out, scratch, chain, batch, next_id, calls,
                      free, ncells, tasks, worker, main>>

DecodeStep(th) ==
    ClaimLiterals(th) \/ EndLiterals(th) \/ FirstSequences(th) \/ LastSequences(th)
        \/ MarkDone(th)

\* Cell::take by thread th of the block of ticket t: the decode, entered.
TakeBlock(th, c, t) ==
    /\ cell[c].claim = Planned(t)
    /\ cell' = [cell EXCEPT ![c].claim = Taken(t)]
    /\ dec' = [dec EXCEPT ![th] = Entered(c, t)]

----------------------------------------------------------------------------
(* The pool. *)

\* run_job: a worker starts the first task, and decodes its block unless
\* someone took it or the cell holds another block.
StartTask(w) ==
    /\ worker[w] = NoTask
    /\ tasks # <<>>
    /\ worker' = [worker EXCEPT ![w] = Head(tasks)]
    /\ tasks' = Tail(tasks)
    /\ \/ TakeBlock(w, Head(tasks).cell, Head(tasks).ticket)
       \/ /\ cell[Head(tasks).cell].claim # Planned(Head(tasks).ticket)
          /\ UNCHANGED <<cell, dec>>
    /\ UNCHANGED <<input, consumed, out, scratch, chain, batch, next_id, calls,
                   free, ncells, main>>

\* The task's closure is dropped, and with it its hold on the cell.
EndTask(w) ==
    /\ worker[w] # NoTask
    /\ dec[w] = NoDecode
    /\ worker' = [worker EXCEPT ![w] = NoTask]
    /\ UNCHANGED <<input, consumed, out, scratch, chain, batch, next_id, calls,
                   free, ncells, cell, tasks, dec, main>>

----------------------------------------------------------------------------
(* The executing thread: the driver between calls. *)

NextBlock == input[Len(consumed) + 1]

Unread == Len(consumed) < Len(input)

Driver(stalled, broke) ==
    [pc |-> "driver", mode |-> "none", end |-> 0, any |-> FALSE, blocked |-> FALSE,
     stalled |-> stalled, broke |-> broke,
     at |-> 0, got |-> <<>>, end_reps |-> NoTable, err |-> FALSE, saw_done |-> FALSE]

Left == [Driver(FALSE, FALSE) EXCEPT !.pc = "left"]
Failed == [Driver(FALSE, FALSE) EXCEPT !.pc = "failed"]

\* Pipeline::start and a call of run whose input holds the blocks up to e.
CallDetached(e) ==
    /\ main.pc = "driver" /\ ~main.stalled /\ Unread
    /\ e > Len(consumed) \/ calls < MaxCalls
    /\ calls' = calls + 1
    /\ IF chain.on
       THEN UNCHANGED <<chain, next_id>>
       ELSE LET start == [id |-> next_id, init |-> scratch]
            IN /\ chain' = [NoChain EXCEPT !.on = TRUE, !.start = start,
                                           !.hist = scratch.hist, !.defs = StartDefs(start)]
               /\ next_id' = next_id + 1
    /\ main' = [Driver(FALSE, FALSE) EXCEPT !.pc = "fill", !.mode = "chain", !.end = e]
    /\ UNCHANGED <<input, consumed, out, scratch, batch, free, ncells, cell, tasks,
                   worker, dec>>

\* The caller's next input holds another block where it held this one.
Resubmit(p) ==
    /\ main.pc = "driver" /\ ~main.stalled
    /\ p > Len(consumed) /\ input[p].v = 0
    /\ \E b \in Variant(input[p]) : input' = [input EXCEPT ![p] = b]
    /\ main' = Driver(FALSE, FALSE)
    /\ UNCHANGED <<consumed, out, scratch, chain, batch, next_id, calls, free, ncells,
                   cell, tasks, worker, dec>>

\* retire, of every block of a queue: its decode is taken if no task has,
\* so that the task returns at once.
Retire(queue) ==
    [c \in Cells |->
        IF \E i \in DOMAIN queue : queue[i].cell = c /\ cell[c].claim = Planned(queue[i].job.id)
        THEN [cell[c] EXCEPT !.claim = @ + 1, !.job = NoJob]
        ELSE cell[c]]

\* The cells of the compressed blocks of a queue, in order.
CellsOf(queue) ==
    LET cells[n \in 0 .. Len(queue)] ==
            IF n = 0 THEN <<>>
            ELSE IF queue[n].cell = 0 THEN cells[n - 1]
            ELSE Append(cells[n - 1], queue[n].cell)
    IN cells[Len(queue)]

\* Pipeline::outdate, for the blocks still planned.
Outdate ==
    /\ cell' = Retire(chain.queue)
    /\ free' = free \o CellsOf(chain.queue)
    /\ chain' = NoChain

\* sync_scratch: the repeat offsets after a run of blocks, and the tables
\* its blocks described rebuilt from their descriptions.
SyncScratch(hist, defs, start, blocks) ==
    [huf |-> IF defs.huf \in {NoId, start.id} THEN scratch.huf ELSE blocks.huf,
     fse |-> IF defs.fse \in {NoId, start.id} THEN scratch.fse ELSE blocks.fse,
     hist |-> hist]

\* Mutant of HandedBack: the tables in use after the blocks planned.
HandedBackPlanned ==
    IF ~chain.on THEN scratch
    ELSE SyncScratch(chain.hist, chain.defs, chain.start, chain.blocks)

\* hand_back_chain: the tables in use before the first block not executed.
HandedBack ==
    IF ~chain.on THEN scratch
    ELSE IF chain.queue = <<>>
    THEN SyncScratch(chain.hist, chain.defs, chain.start, chain.blocks)
    ELSE SyncScratch(chain.hist, chain.queue[1].before, chain.start, chain.queue[1].blocks)

\* FrameDecoder::process, or decode_serially, on a block the chain executed
\* none of or with no chain: the chain ends, the serial decoder decodes.
SerialBlock ==
    /\ main.pc = "driver" /\ Unread
    /\ main.stalled \/ ~chain.on
    /\ Outdate
    /\ IF SerialFails(NextBlock, HandedBack)
       THEN /\ main' = Failed
            /\ scratch' = HandedBack
            /\ UNCHANGED <<consumed, out>>
       ELSE /\ out' = Append(out, SerialOutput(NextBlock, HandedBack))
            /\ consumed' = Append(consumed, NextBlock)
            /\ scratch' = SerialAfter(NextBlock, HandedBack)
            /\ main' = IF NextBlock.last THEN Left ELSE Driver(FALSE, FALSE)
    /\ UNCHANGED <<input, batch, next_id, calls, ncells, tasks, worker, dec>>

\* leave_frame, by a reset or a drop: the pipeline's tasks may run on.
Leave ==
    /\ main.pc \in {"driver", "failed"} /\ ~main.stalled
    /\ Outdate
    /\ main' = Left
    /\ UNCHANGED <<input, consumed, out, scratch, batch, next_id, calls, ncells, tasks,
                   worker, dec>>

----------------------------------------------------------------------------
(* The executing thread: Pipeline::run. *)

\* Input::block, locate_block: the input holds block i whole and its header
\* parses, which a reserved block type's does not.
Located(i) == i <= main.end /\ input[i].kind # "reserved"

Fillable ==
    /\ ~main.blocked
    /\ Len(chain.queue) < Depth
    /\ chain.queue # <<>> => ~Last(chain.queue).blk.last
    /\ Located(Len(consumed) + Len(chain.queue) + 1)

\* One round of fill: plan the block after the queue, and hand a compressed
\* one to a task; it is blocked at a block it cannot plan and returns where
\* there is no idle cell.
Fill ==
    LET b == input[Len(consumed) + Len(chain.queue) + 1]
        taken == TakeCell(free, ncells, 2 * Depth)
        job == Job(b, next_id, chain.start, chain.defs, chain.blocks)
        planned(j, c) == [blk |-> b, job |-> j, cell |-> c, before |-> chain.defs,
                          blocks |-> chain.blocks, seen |-> calls]
    IN /\ main.pc = "fill" /\ Fillable
       /\ IF ~CanPlan(b, chain.defs)
          THEN /\ main' = [main EXCEPT !.blocked = TRUE]
               /\ UNCHANGED <<chain, next_id, free, ncells, cell, tasks>>
          ELSE IF b.kind = "raw"
          THEN /\ chain' = [chain EXCEPT !.queue = Append(@, planned(NoJob, 0))]
               /\ UNCHANGED <<main, next_id, free, ncells, cell, tasks>>
          ELSE IF taken.cell = 0
          THEN /\ main' = [main EXCEPT !.pc = "front"]
               /\ UNCHANGED <<chain, next_id, free, ncells, cell, tasks>>
          ELSE /\ chain' = [chain EXCEPT
                      !.queue = Append(@, planned(job, taken.cell)),
                      !.defs = DefsAfter(b, next_id, chain.defs),
                      !.blocks = BlocksAfter(b, chain.blocks)]
               /\ next_id' = next_id + 1
               /\ free' = taken.free /\ ncells' = taken.ncells
               /\ cell' = [cell EXCEPT ![taken.cell] = Hand(@, job, chain.queue = <<>>)]
               /\ tasks' = Append(tasks, [cell |-> taken.cell, ticket |-> next_id])
               /\ UNCHANGED main
       /\ UNCHANGED <<input, consumed, out, scratch, batch, calls, worker, dec>>

Filled ==
    /\ main.pc = "fill" /\ ~Fillable
    /\ main' = [main EXCEPT !.pc = "front"]
    /\ UNCHANGED <<input, consumed, out, scratch, chain, batch, next_id, calls, free,
                   ncells, cell, tasks, worker, dec>>

\* run returns: None, for the serial decoder to take the block, if it
\* executed none.
Returned(broke) == Driver(~main.any /\ Len(consumed) < main.end, broke)

\* Mutant of Holds: the headers are compared alone.
HoldsHeader(p, b) == p.blk.kind = b.kind /\ p.blk.last = b.last

\* Planned::holds: the same header, and a compressed block's content.
Holds(p, b) ==
    /\ p.blk.kind = b.kind /\ p.blk.last = b.last
    /\ p.job # NoJob => p.blk = b

\* rewind: give up the queue, to plan again from the tables in use before it.
Rewind ==
    /\ chain' = [chain EXCEPT !.defs = chain.queue[1].before,
                              !.blocks = chain.queue[1].blocks, !.queue = <<>>]
    /\ cell' = Retire(chain.queue)
    /\ free' = free \o CellsOf(chain.queue)

\* The next block of the chain: none, or not the input's, or next(out)
\* says stop, or it is to be executed.
RunFront ==
    /\ main.pc = "front" /\ main.mode = "chain"
    /\ IF chain.queue = <<>> \/ ~Located(Len(consumed) + 1)
       THEN /\ main' = Returned(FALSE)
            /\ UNCHANGED <<chain, cell, free>>
       ELSE IF chain.queue[1].seen # calls /\ ~Holds(chain.queue[1], NextBlock)
       THEN /\ Rewind
            /\ main' = [main EXCEPT !.pc = "fill"]
       ELSE /\ chain' = [chain EXCEPT !.queue[1].seen = calls]
            /\ \/ main' = [main EXCEPT !.pc = IF NextBlock.kind = "raw" THEN "raw" ELSE "take"]
               \/ main.any /\ main' = Returned(FALSE)
            /\ UNCHANGED <<cell, free>>
    /\ UNCHANGED <<input, consumed, out, scratch, batch, next_id, calls, ncells, tasks,
                   worker, dec>>

----------------------------------------------------------------------------
(* The executing thread: run_batch, in one scope. *)

\* decode_scoped: plan the blocks the input holds, up to e, from the tables
\* in use.
CallScoped(e) ==
    LET start == [id |-> next_id, init |-> scratch]
    IN /\ main.pc = "driver" /\ ~main.stalled /\ ~chain.on
       /\ e > Len(consumed)
       /\ next_id' = next_id + 1
       /\ batch' = [NoBatch EXCEPT !.start = start, !.hist = scratch.hist,
                                   !.defs = StartDefs(start)]
       /\ main' = [Driver(FALSE, FALSE) EXCEPT !.pc = "plan", !.mode = "batch", !.end = e]
       /\ UNCHANGED <<input, consumed, out, scratch, chain, calls, free, ncells, cell,
                      tasks, worker, dec>>

\* The block after the ones planned, if it can be planned too.
Plannable ==
    LET i == Len(consumed) + Len(batch.plans) + 1
    IN /\ batch.plans # <<>> => ~Last(batch.plans).blk.last
       /\ Located(i)
       /\ CanPlan(input[i], batch.defs)

\* One round of plan_blocks: a raw block too takes an id.
PlanBlock ==
    LET b == input[Len(consumed) + Len(batch.plans) + 1]
        job == IF b.kind = "raw" THEN NoJob
               ELSE Job(b, next_id, batch.start, batch.defs, batch.blocks)
    IN /\ main.pc = "plan"
       /\ IF Plannable
          THEN /\ batch' = [batch EXCEPT !.plans = Append(@, [blk |-> b, job |-> job]),
                                         !.defs = DefsAfter(b, next_id, @),
                                         !.blocks = BlocksAfter(b, @)]
               /\ next_id' = next_id + 1
               /\ UNCHANGED main
          ELSE /\ main' = [main EXCEPT !.pc = "ring"]
               /\ UNCHANGED <<batch, next_id>>
       /\ UNCHANGED <<input, consumed, out, scratch, chain, calls, free, ncells, cell,
                      tasks, worker, dec>>

\* Pipeline::ring: a cell for each block planned, up to Depth, idle ones
\* first.
TakeRing ==
    LET taken == TakeCell(free, ncells, MaxCells)
    IN /\ main.pc = "ring"
       /\ IF Len(batch.ring) < Depth /\ Len(batch.ring) < Len(batch.plans)
          THEN /\ taken.cell # 0
               /\ free' = taken.free /\ ncells' = taken.ncells
               /\ batch' = [batch EXCEPT !.ring = Append(@, taken.cell)]
               /\ UNCHANGED main
          ELSE /\ main' = [main EXCEPT !.pc = "spawn"]
               /\ UNCHANGED <<free, ncells, batch>>
       /\ UNCHANGED <<input, consumed, out, scratch, chain, next_id, calls, cell, tasks,
                      worker, dec>>

RingCell(ring, i) == ring[((i - 1) % Len(ring)) + 1]

\* spawn_decode of the batch's next block: a compressed one is handed its
\* cell, and a task.
SpawnDecode ==
    LET i == batch.handed + 1
        c == RingCell(batch.ring, i)
    IN /\ batch' = [batch EXCEPT !.handed = i]
       /\ IF i <= Len(batch.plans) /\ batch.plans[i].job # NoJob
          THEN /\ cell' = [cell EXCEPT ![c] = Hand(@, batch.plans[i].job, i = 1)]
               /\ tasks' = Append(tasks, [cell |-> c, ticket |-> batch.plans[i].job.id])
          ELSE UNCHANGED <<cell, tasks>>

\* run_batch spawns the ring's decodes.
SpawnRing ==
    /\ main.pc = "spawn"
    /\ IF batch.handed < Len(batch.ring)
       THEN SpawnDecode /\ UNCHANGED main
       ELSE /\ main' = [main EXCEPT !.pc = "front"]
            /\ UNCHANGED <<batch, cell, tasks>>
    /\ UNCHANGED <<input, consumed, out, scratch, chain, next_id, calls, free, ncells,
                   worker, dec>>

\* The next block of the batch: none, or next(out) says stop and the
\* decodes no task has started are taken, or the cell of the block before
\* is handed its next and the block is to be executed.
BatchFront ==
    LET i == batch.done + 1
        waiting == {j \in i .. Len(batch.plans) : j < i + Len(batch.ring)}
    IN /\ main.pc = "front" /\ main.mode = "batch"
       /\ \/ /\ i > Len(batch.plans)
             /\ main' = [main EXCEPT !.pc = "scope"]
             /\ UNCHANGED <<batch, cell, tasks>>
          \/ /\ i \in 2 .. Len(batch.plans)
             /\ main' = [main EXCEPT !.pc = "scope"]
             /\ cell' = [c \in Cells |->
                    IF \E j \in waiting : /\ RingCell(batch.ring, j) = c
                                          /\ cell[c].claim = Planned(batch.plans[j].job.id)
                    THEN [cell[c] EXCEPT !.claim = @ + 1] ELSE cell[c]]
             /\ UNCHANGED <<batch, tasks>>
          \/ /\ i <= Len(batch.plans)
             /\ main' = [main EXCEPT !.pc = IF NextBlock.kind = "raw" THEN "raw" ELSE "take"]
             /\ IF i = 1 THEN UNCHANGED <<batch, cell, tasks>> ELSE SpawnDecode
       /\ UNCHANGED <<input, consumed, out, scratch, chain, next_id, calls, free, ncells,
                      worker, dec>>

\* The job of the last of the blocks used.
LastOf(used) == IF used = {} THEN NoJob ELSE batch.plans[Max(used)].job

\* The tables in use after the blocks the batch executed, as decode_scoped
\* collects them from their plans, and the content of the block that
\* described one (Batch::def).
BatchDefs ==
    [huf |-> LastOf({i \in 1 .. batch.done : batch.plans[i].job.huf_def # NoId}).huf_def,
     fse |-> LastOf({i \in 1 .. batch.done : batch.plans[i].job.fse_def # NoId}).fse_def]

BatchTok(d) ==
    LET of == {i \in DOMAIN batch.plans : batch.plans[i].job.id = d}
    IN IF d = NoId \/ of = {} THEN NoTable ELSE Tok(batch.plans[Max(of)].blk)

\* The scope ends once its tasks have: the ring's cells are free again, and
\* the scratch is as the serial decoder leaves it.
EndScope ==
    LET ended == batch.done > 0 /\ consumed[Len(consumed)].last
    IN /\ main.pc = "scope"
       /\ \A i \in DOMAIN batch.ring : ~Held(batch.ring[i])
       /\ free' = free \o batch.ring
       /\ scratch' = IF batch.done = 0 \/ ended THEN scratch
                     ELSE SyncScratch(batch.hist, BatchDefs, batch.start,
                                      [huf |-> BatchTok(BatchDefs.huf),
                                       fse |-> BatchTok(BatchDefs.fse)])
       /\ main' = IF ended THEN Left ELSE Returned(main.broke)
       /\ batch' = NoBatch
       /\ UNCHANGED <<input, consumed, out, chain, next_id, calls, ncells, cell, tasks,
                      worker, dec>>

----------------------------------------------------------------------------
(* The executing thread: stage 3, in a chain or a batch. *)

CurJob == IF main.mode = "chain" THEN chain.queue[1].job ELSE batch.plans[batch.done + 1].job

CurCell ==
    IF main.mode = "chain" THEN chain.queue[1].cell ELSE RingCell(batch.ring, batch.done + 1)

\* The block after it and its cell: {} unless it is compressed.
NextDecode ==
    IF main.mode = "chain"
    THEN {<<chain.queue[i].cell, chain.queue[i].job.id>> :
             i \in {j \in {2} \intersect DOMAIN chain.queue : chain.queue[j].job # NoJob}}
    ELSE {<<RingCell(batch.ring, i), batch.plans[i].job.id>> :
             i \in {j \in {batch.done + 2} \intersect DOMAIN batch.plans :
                        batch.plans[j].job # NoJob}}

UnchangedByStage3 ==
    UNCHANGED <<input, consumed, out, scratch, chain, batch, next_id, calls, free, ncells,
                tasks, worker>>

\* Decode the block here unless a task has taken it.
TakeFront ==
    /\ main.pc = "take"
    /\ main' = [main EXCEPT !.pc = "lits"]
    /\ \/ TakeBlock(Main, CurCell, CurJob.id)
       \/ /\ cell[CurCell].claim # Planned(CurJob.id)
          /\ UNCHANGED <<cell, dec>>
    /\ UnchangedByStage3

\* Then its literals, unless they are taken: claimed, then decoded.
MainClaimsLiterals ==
    LET free_lits == cell[CurCell].lit_claim = Planned(CurJob.id)
    IN /\ main.pc = "lits" /\ dec[Main] = NoDecode
       /\ main' = [main EXCEPT !.pc = IF free_lits THEN "litting" ELSE "wait"]
       /\ cell' = IF free_lits THEN [cell EXCEPT ![CurCell].lit_claim = Taken(CurJob.id)]
                  ELSE cell
       /\ UNCHANGED dec /\ UnchangedByStage3

MainDecodesLiterals ==
    /\ main.pc = "litting"
    /\ cell' = [cell EXCEPT ![CurCell] = DecodeLiterals(@, CurJob, CurJob.id)]
    /\ main' = [main EXCEPT !.pc = "wait"]
    /\ UNCHANGED dec /\ UnchangedByStage3

\* While the block is not startable, decode the one after it if no task has
\* started it.
WaitStartable ==
    /\ main.pc = "wait" /\ dec[Main] = NoDecode
    /\ IF Startable(cell[CurCell], CurJob.id)
       THEN main' = [main EXCEPT !.pc = "exec"] /\ UNCHANGED <<cell, dec>>
       ELSE /\ \E n \in NextDecode : TakeBlock(Main, n[1], n[2])
            /\ UNCHANGED main
    /\ UnchangedByStage3

\* execute_block, once the literals are done.
ExecuteBlock ==
    LET c == cell[CurCell]
    IN /\ main.pc = "exec"
       /\ c.lit_done = CurJob.id
       /\ main' = [main EXCEPT
              !.pc = IF c.lits_ok /\ HasSeqs(CurJob.blk) THEN "runs" ELSE "finish",
              !.err = ~c.lits_ok, !.at = 0, !.got = <<>>, !.end_reps = NoTable]
       /\ UNCHANGED <<cell, dec>> /\ UnchangedByStage3

\* PublishedRuns::ready, and the run of sequences executed; else wait loads
\* whether the decode is done, before it loads the count again.
ReadyRun ==
    LET c == cell[CurCell]
    IN /\ main.pc = "runs"
       /\ main' = IF c.progress <= main.at
                  THEN [main EXCEPT !.pc = "runs_wait", !.saw_done = (c.done = CurJob.id)]
                  ELSE [main EXCEPT
                      !.pc = IF c.progress = NumSequences \/ CurJob.blk.fault = "exec"
                             THEN "finish" ELSE "runs",
                      !.err = (CurJob.blk.fault = "exec"),
                      !.got = @ \o SubSeq(c.seqs, main.at + 1, c.progress),
                      !.end_reps = c.end,
                      !.at = c.progress]
       /\ UNCHANGED <<cell, dec>> /\ UnchangedByStage3

\* Mutant of WaitRun: it waits for sequences a failed decode never publishes.
WaitRunForever ==
    /\ main.pc = "runs_wait"
    /\ main' = [main EXCEPT !.pc = "runs"]
    /\ UNCHANGED <<cell, dec>> /\ UnchangedByStage3

\* Mutant of WaitRun: whether the decode is done is loaded after the count.
WaitRunDoneLast ==
    LET done == cell[CurCell].done = CurJob.id
    IN /\ main.pc = "runs_wait"
       /\ main' = [main EXCEPT !.pc = IF done THEN "finish" ELSE "runs", !.err = done]
       /\ UNCHANGED <<cell, dec>> /\ UnchangedByStage3

\* PublishedRuns::wait: no more published though the decode was done before
\* the count was loaded, the decode failed; else there may be more.
WaitRun ==
    /\ main.pc = "runs_wait"
    /\ main' = [main EXCEPT
           !.pc = IF cell[CurCell].progress <= main.at /\ main.saw_done THEN "finish" ELSE "runs",
           !.err = cell[CurCell].progress <= main.at /\ main.saw_done]
    /\ UNCHANGED <<cell, dec>> /\ UnchangedByStage3

\* The block counts: output, accounting, and the queue or batch moves on;
\* leave_frame drops the pipeline after the frame's last block.
Commit(output, hist) ==
    /\ out' = Append(out, output)
    /\ consumed' = Append(consumed, NextBlock)
    /\ IF main.mode = "batch"
       THEN /\ batch' = [batch EXCEPT !.done = @ + 1, !.hist = hist]
            /\ main' = [main EXCEPT !.pc = "front", !.any = TRUE]
            /\ UNCHANGED <<chain, free>>
       ELSE /\ chain' = IF NextBlock.last THEN NoChain
                        ELSE [chain EXCEPT !.queue = Tail(@), !.hist = hist]
            /\ free' = IF CurCell = 0 THEN free ELSE Append(free, CurCell)
            /\ main' = IF NextBlock.last THEN Left
                       ELSE [main EXCEPT !.pc = "fill", !.any = TRUE]
            /\ UNCHANGED batch

CurHist == IF main.mode = "chain" THEN chain.hist ELSE batch.hist

\* A raw block is copied from the input it is executed from.
ExecuteRaw ==
    /\ main.pc = "raw"
    /\ Commit(SerialOutput(NextBlock, FreshScratch), CurHist)
    /\ UNCHANGED <<input, scratch, next_id, calls, ncells, cell, tasks, worker, dec>>

\* The decode is done: its error, or the execution's, stops the run before
\* the block; else the block and its repeat offsets count.
FinishBlock ==
    LET c == cell[CurCell]
    IN /\ main.pc = "finish"
       /\ c.done = CurJob.id
       /\ IF main.err \/ ~c.ok
          THEN /\ main' = IF main.mode = "batch"
                          THEN [main EXCEPT !.pc = "scope", !.broke = TRUE]
                          ELSE Returned(TRUE)
               /\ UNCHANGED <<out, consumed, chain, batch, free>>
          ELSE Commit([blk |-> Tok(NextBlock), lits |-> c.lits, seqs |-> main.got,
                       hist |-> IF HasSeqs(CurJob.blk) THEN CurHist ELSE <<>>],
                      IF HasSeqs(CurJob.blk) THEN Append(CurHist, main.end_reps) ELSE CurHist)
       /\ UNCHANGED <<input, scratch, next_id, calls, ncells, cell, tasks, worker, dec>>

----------------------------------------------------------------------------
Init ==
    /\ input \in Frames
    /\ consumed = <<>> /\ out = <<>>
    /\ scratch = FreshScratch
    /\ chain = NoChain /\ batch = NoBatch
    /\ next_id = 0 /\ calls = 0
    /\ free = <<>> /\ ncells = 0
    /\ cell = [c \in Cells |-> NewCell]
    /\ tasks = <<>>
    /\ worker = [w \in Workers |-> NoTask]
    /\ dec = [th \in Threads |-> NoDecode]
    /\ main = Driver(FALSE, FALSE)

DriverStep ==
    \/ \E e \in 0 .. Len(input) : e >= Len(consumed) /\ (CallDetached(e) \/ CallScoped(e))
    \/ \E p \in DOMAIN input : Resubmit(p)
    \/ ~main.stalled /\ SerialBlock
    \/ Leave

\* A step of a call in progress, or of the block the serial decoder takes.
MainStep ==
    \/ main.stalled /\ SerialBlock
    \/ Fill \/ Filled \/ RunFront
    \/ PlanBlock \/ TakeRing \/ SpawnRing \/ BatchFront \/ EndScope
    \/ TakeFront \/ MainClaimsLiterals \/ MainDecodesLiterals \/ WaitStartable
    \/ ExecuteBlock \/ ReadyRun \/ WaitRun \/ ExecuteRaw \/ FinishBlock
    \/ DecodeStep(Main)

PoolIdle == tasks = <<>> /\ \A w \in Workers : worker[w] = NoTask

\* The decoder left the frame and its last task ended.
Finished == main.pc = "left" /\ PoolIdle /\ UNCHANGED vars

Next ==
    \/ DriverStep
    \/ MainStep
    \/ \E w \in Workers : StartTask(w) \/ EndTask(w) \/ DecodeStep(w)
    \/ Finished

Spec == Init /\ [][Next]_vars

\* A thread in the middle of a decode runs on; no task need ever start while
\* a chain runs, but a scope's tasks do, for it waits for them.
Fairness ==
    /\ WF_vars(MainStep)
    /\ \A w \in Workers : WF_vars(DecodeStep(w)) /\ WF_vars(EndTask(w))
    /\ \A w \in Workers : WF_vars(main.pc = "scope" /\ StartTask(w))

FairSpec == Spec /\ Fairness

----------------------------------------------------------------------------
(* Properties. *)

\* The serial decoder run over the blocks bs: its scratch and output.
SerialRun(bs) ==
    LET run[n \in 0 .. Len(bs)] ==
            IF n = 0 THEN [s |-> FreshScratch, out |-> <<>>]
            ELSE [s |-> SerialAfter(bs[n], run[n - 1].s),
                  out |-> Append(run[n - 1].out, SerialOutput(bs[n], run[n - 1].s))]
    IN run[Len(bs)]

Reference == SerialRun(consumed)

\* Whichever threads decoded them, and however often the caller's input
\* changed or a chain was given up, the blocks decode to what the serial
\* decoder makes of the blocks consumed: with the tables in use, in order,
\* with their own sequences and from the right repeat offsets.
OutputIsSerial == out = Reference.out

\* Whenever the serial decoder may decode the next block, its scratch is as
\* the serial decoder would have left it after the blocks before, those a
\* scope or a chain decoded included (sync_scratch, hand_back).
ScratchIsSerial ==
    main.pc = "driver" => /\ HandedBack = Reference.s
                          /\ chain.on => chain.hist = Reference.s.hist

\* A run stops before a block, or the frame fails at one, only if the serial
\* decoder fails there too: no race between the executing thread and the
\* task that publishes the block's sequences makes a good block fail.
FailuresAreReal ==
    main.broke \/ main.pc = "failed" => SerialFails(NextBlock, Reference.s)

\* Where the executing thread reads a cell's published sequences.
Executing == main.pc \in {"exec", "runs", "runs_wait", "finish"}

\* A cell is one decode's at a time: no two threads decode into one cell,
\* none decodes into it under a ticket it no longer holds, and none is
\* handed another block while the executing thread reads it.
CellsExclusive ==
    /\ \A t \in Threads : dec[t] # NoDecode =>
          /\ cell[dec[t].cell].claim = Taken(dec[t].ticket)
          /\ \A u \in Threads \ {t} : dec[u].cell # dec[t].cell
    /\ Executing => cell[CurCell].claim = Taken(CurJob.id)

\* A call ends even if the pool never starts another task of a chain: the
\* executing thread decodes what no task has taken, and waits only for
\* decodes under way.
CallReturns == main.pc \notin {"driver", "left", "failed"} ~> main.pc \in {"driver", "left", "failed"}
=============================================================================
