# rust-zstd in TLA+

A verification project for the Rust port of zstd in this repository: TLA+
modules that model its stateful core, its decoders and its coders, TLC
configurations that check them on small instances, and TLAPS proofs for every
value of the constants. Paths are relative to the repository; `compress/`
stands for `src/compress/`.

## The system and its parts

| part | code | state | operations | hard because |
|---|---|---|---|---|
| match window, workspace, match state | `compress/matchstate.rs` | base, low, dict_limit, next_src, loaded_dict_end, corrections; one allocation of table words, how many of them are vouched for; next_to_update | reset, enter a prefix, dictionary or block, attach or copy a dictionary, correct indices, start a block, skip a pass, rebase | tables are reused without zeroing across inputs and layouts; indices wrap; positions move under them |
| block cursor | `compress/block.rs` `JobBlocks` | job start, bytes done, first chunk end, savings | next block, ready, last, wrote, rebase | must not depend on how input arrives |
| streaming session | `compress/stream.rs` | stage, pledged size, pending output, a frame's input buffer | compress_stream, set_pledged_src_size, set_prefix, reset_stream | any order of calls, rooms and errors |
| jobs and contexts | `compress/mod.rs` | job queue (next, prepared, slots), context pool, IN_JOB | run_jobs, publish, run, take, give_back | threads, work stealing, unwinding |
| block compressor | `compress/block.rs`, `seqstore.rs`, `split.rs`, `entropy.rs` | repeat offsets, entropy tables, scratch | build sequences, entropy code, emit, pipelined loop | encoder and decoder state must agree; stages overlap |
| long distance matcher | `compress/ldm.rs`, `OptLdm` of `opt.rs` | its own window, hash table, raw sequences and the place blocks have reached in them | load, generate, cut, skip, rebase | sequences outlive the block they start in; the window's rules apply per chunk |
| dictionaries | `compress/dict.rs`, `decode/dict.rs` | content, entropy, match state | choose attach, copy or load; preload | index spaces of two states meet |
| match finders | `fast.rs`, `dfast.rs`, `lazy.rs`, `lazy/dms.rs`, `bt.rs`, `common.rs` | the tables, repeat offsets, what is put aside | search, insert, store | a lookup may give anything; two segments; offsets out of reach |
| optimal parser | `opt.rs` | prices, statistics, a path | search, choose | data |
| entropy coders | `fse.rs`, `huf.rs`, `bitstream.rs` | tables, bit containers | normalise, build, describe, encode, decode | arithmetic at its edges; unrolled and fast loops |
| decoder | `decode.rs` | frame and block state, tables, history | parse, decode, execute | malformed input, overshooting copies |
| parallel block decoder | `decode.rs` `mod parallel` | a chain or batch of planned blocks, cells with tickets and claims, published runs | plan, hand, decode, publish, execute, rewind, hand back | the executing thread and pool tasks share cells; plans outlive calls |
| streaming decompressor | `decode/stream.rs` | unit gathered, stage, output ring | decompress_stream, finish, reset | history must stay in reach across wraps |
| parameters, constants, checksum, errors | `params.rs`, `constants.rs`, `xxhash.rs`, `error.rs` | none | pure | |

How they interact: `Compressor::compress` cuts a frame into jobs (`run_jobs`),
a streaming frame is one job fed by `Frame::accept`. A job takes a context
from the pool, resets its match state, loads a prefix or a dictionary and
compresses the blocks `JobBlocks` cuts. Contexts, and with them match states,
live on: the next frame or job resets them. Streaming buffers, match states and
the long distance matcher share positions, so a moved buffer rebases them all.
A block is searched by a finder (between the long matches, if there are any),
its sequences and literals coded by the two section coders with tables the
block state keeps, and the decoder keeps the same tables and offsets. On the
other side `Decompressor` gathers units for `FrameDecoder`, which decodes
blocks into the ring one at a time, or many at once through `mod parallel`;
either way the sequences are executed by the same copies.

What makes each modelled part correct:

- *match state*: a table entry that looks like a candidate is one, whatever
  the tables held before; a window of history is always reachable; indices fit
  `u32`; corrections keep chains and trees intact.
- *block cursor and session*: the frame codes exactly the input, equals the
  one-shot frame unless it was flushed, is complete exactly when a call says
  0, and a caller that repeats its call gets it done.
- *jobs and contexts*: each job runs once, after its prepare, one per thread;
  a call returns complete or resumes a panic; contexts are bounded.
- *block compressor*: whatever mix of raw, RLE, compressed and split blocks is
  written, the decoder resolves every match to the offset it was found at and
  decodes every section with the table it was coded with; the pipelined loop
  writes what the plain loop writes.
- *finders*: whatever the tables hold, each match stored is one, and the
  decoder's repeat offsets are the ones the finder goes on with.
- *long distance matcher*: every match stored, offered or still waiting in the
  sequences is one, however the blocks cut them.
- *coders*: what is written reads back, fits its bound, loses no bit of a
  container; damaged streams get one verdict from every decoder.
- *parallel decoder*: output, tables and failures are the serial decoder's.
- *streaming decompressor*: content is delivered in order, history is intact,
  frames are reported once, verdicts are the one-shot decoder's.

## Modules

### Compression

`MatchWindow` is `struct Window`: one operator per method over a record.
Positions and `base` are integers; what the code computes in `u32` is computed
modulo `U32`.

`MatchState` (extends it) is `MatchState` with its `Workspace` over the life
of a context. `words` is the allocation; each word has its index (`idx`) and,
as history, the position its byte has in the current input (`at`), `Gone` once
that byte is of an earlier input or was dropped. A layout is the set of words
each table takes, so layouts of different shapes overlap as the code's do. The
finders are `Insert` (store an index of the window), `InsertMark` (an
unsorted mark in btlazy2's chain table) and `StoreTags`; the rest is the code:

| action | code |
|---|---|
| `Reset` | `reset_needing` with `Workspace::reserve` and `Workspace::reset` |
| `EnterPrefix`, `EnterDict` | `enter_content`, then `fill_tables` as `Insert` steps |
| `CopyDict`, `Attach` | `copy_dict`, `attach_dict`, over a dictionary state built from the same operators |
| `EnterBlock` | `enter_block`: extend, correct, check the dictionary, enforce the distance, raise next_to_update |
| `StartBlock` | `start_block` |
| `SkipWindow` | `skip_window` after btultra2's first pass |
| `MoveBuffer` | `Frame::accept` moving its buffer, `MatchState::rebase` |

`JobBlocks` is the block cursor; whether the pre-splitter cuts a block and
what a block gains are arguments.

`CompressStream` (extends it) is the session. Input bytes are named by their
place in the frame (a prefix's are negative), the buffer holds these names, so
a wrong move shows up as wrong bytes. Output is a sequence of items: header,
blocks with the bytes they code, epilogue; an item is a unit of the caller's
room. A call is `Call`, the iterations of `stream_loop` (`FlushTo`, one `Step`
per arm of its match, `WriteBlock` per block), and a return. A frame with long
distance matching (`Ldms`) also keeps the end of that matcher's window, which
`Context::rebase` needs.

`JobQueue` is `run_jobs` on a rayon pool. A thread is a stack of activities:
one that waits in a join or at the end of a scope may start its queued runner
of any frame, or a call of another Compressor, on top. `prepare` and jobs may
unwind. rayon's part (`Waiting`, `TakeRunner`, `Leave`) is external and
modelled from the guarantees the code relies on.

`RepCodes` (pure) is the arithmetic of repeat offsets on both sides:
`update_rep`, `resolve_off_codes` with its two histories, what a block
compressor keeps of the history while it searches (two offsets, saved while
out of reach, or all three), and the decoder's `decode_sequence`. A search is
a fold over *moves*, each saying what the next sequence is; a sequence carries
the offset its match was found at, which is not written.

`EntropySlots` (pure) is `Slots`: two tables, which one the decoder holds and
how freely it may be repeated, and which codings the literals and sequence
coders may choose. A table is the set of symbols it codes. The literal and
match length tables are not modelled apart: they go the way of the offset
table without its demotion.

`SerialBlocks` (extends both and `JobBlocks`) is `compress_blocks`' plain loop
with the decoder's state (`dec`) beside the encoder's (`st`):

| action | code |
|---|---|
| `Call`, `Return` | `compress_blocks` entered and left (`input_ended`) |
| `CutAndFind` | `blocks.next`, `enter_block`, `build_seq_store` |
| `Derive` | `splitter.derive`, the start of `emit_block` |
| `Emit` | one block written: `resolve_off_codes`, `entropy_and_emit`, `end_block` |
| `BlockWritten` | `blocks.wrote` |

What depends on the bytes is chosen freely within what the code guarantees:
moves, where the splitters cut, whether a unit is one repeated byte, the bound
on its sections and a size within it, the literals, and the tables tried.

`BlockPipeline` (extends it) is `compress_blocks_pipelined`: `PipelinedDerive`
decides on the overlap from what it can prove of the block (`ProvenRepAfter`,
`CompressedGainBound`, `NextUnwritten`), `FindAhead` and `EmitBeside` are the
sides of the join in any order, `Join` accounts the block, `TakeFollowing`
swaps the stores. `SerialBlocks` is its abstract specification: `Plain` maps
`overlap` to `emit` and `joined` to `cut`, hides what was found ahead, and
`PipelineIsSerial` says the rest is the plain loop.

`FinderWindow` (bytes, comparisons, the state of a search), `FastFinder`,
`DoubleFastFinder` and `LazyFinder` are the block compressors with two repeat
offsets: the plain loops, those over a loaded dictionary and, of the first two,
those for an attached one. A step is one round of a loop. The tables are not
kept: a lookup gives any index whatever, so a stale or colliding entry is just
another outcome, and what is checked holds for every hash function. What a
search inserts is recorded. The sizes of a match, a long match and a hashed
word, the step's growth and the search strength are scaled down (`MinMatch` 3,
`LongMatch` 4, `HashReadSize` 4, `StepIncr` 3, `SearchStrength` 4). Beside the
search runs the decoder, which resolves and checks each sequence as stored.

`LongDistance` (extends `MatchWindow`) is `LdmState`, `RawSeqStore`, the loop
of `block_compress` and `OptLdm`. Where the gear hash stops, and the bucket and
checksum of a word, are functions of the hashed word given as parameters.

### Coding and decoding

`BitStreams` is the bit writer with its container and the backward reader with
its reload states; `Fse` normalisation, headers, both sides' tables and the
coding of Huffman weights; `SequencesSection` the three code streams, their
tables' choice and description, writing and reading; `HuffmanEncoder` sorting,
tree, length limit, codes, description and the streams; `HuffmanDecoder`
weights, single and double symbol tables, the careful and the fast loops;
`LiteralsSection` the section both ways. These are at the code's own sizes. A
writer reports as `fits` whether any bit fell out of a container.

`SeqExec` is sequence execution: memory is a function from addresses, a copy a
sequence of chunks loaded and stored whole, one definition per copy routine
(portable, AVX2, and their short-offset variants), `exec_sequence` and its
out-of-segment paths around them.

`ParallelDecode` is `mod parallel`. A block's content is a token and a table
the token of the block that describes it, so a wrong table, order or offset
history shows in the output. `MainStep` is the executing thread: a chain's
fill and front, a batch's plan, ring, spawn and front, one block or cell at a
time, then for both the published runs executed and the block finished.
`StartTask`, `DecodeStep` and `EndTask` are the pool's tasks, at the grain of
the code's atomic operations and locks; `DriverStep` is the caller, who may
change input that was not consumed, and the serial decoder. rayon's spawning
is external. A batch's ring takes cells without limit, the model's up to
`MaxCells`. `FramesAssumption` says what blocks a frame is made of and that a
block that took another's place is marked, so that its content differs;
`PoolAssumption` that there is a worker and a block planned ahead for it.

`DecodeStream` is `Decompressor` over `FrameDecoder`'s stages. A stream is a
sequence of frames cut into units; a decoded byte is a token. `Call`, `Reset`,
`CallFailed` are the caller's; `Top`, `Gather`, `Header`, `BlockHeader`,
`BlockContent`, `Checksum` the unit loop; `Batch` and `NextOfBatch` whole
blocks decoded at once; `WriteByte` writes a byte into the ring, overshooting.
The streams are a constant. `StreamsAssumption` says what every stream the
units can come from satisfies: a header is no shorter than its prefix, a frame
that is not skippable has a last block, and a block that decodes does so within
the frame's block size, since else its header or its decoding fails.

`MC*` modules hold the instances. `MCCodecs`,
`MCFinders` and `MCLongDistance` run the pure modules: an initial
state is an algorithm and an input, a step computes a result, or one round of
a search. The modules whose names end in `Proofs` hold the theorems: see
Proofs.

Operators whose comment says "Mutant of" are plausible mistakes in the
definition they precede; no specification uses them. Substituting one for its
original must make TLC report the property it is listed with.

## Runs

| run | instance | what it shows |
|---|---|---|
| `match_state` | fast, row-hash, btlazy2 and btultra2 layouts over two words (a tag table lies on chain tables), window 2, `CurrentMax` 9, `U32` 17, blocks up to 2 and content up to 3 | `NoStaleHit`, `VouchedBelowEnd`, `WindowIntact`, `IndexFits`, `DictOnlyWithinWindow`; of steps `CorrectionKeepsTables` |
| `match_state_large_prefix` | units of 256 MiB, a prefix of 18 | `IndexFits` is violated: see Findings |
| `compress_stream` | window and block 2, buffer 8, inputs up to 13 in calls of 0, 1 or 6, room 1 or plenty, prefixes, a pledge, job sizes, two contents | `SameAsOneShot`, `WellFormedFrame`, `HistoryKept`, `ReturnIsExact` |
| `compress_stream_live` | window and block 1, inputs up to 5, room 0, 1 or plenty | `RepeatingCompletes` |
| `compress_stream_ldm` | as `compress_stream`, frames with long distance matching | `RebaseWithinWindows` is violated: see Findings |
| `job_queue` | three threads, one Compressor, frames of 1 and 4 jobs, two calls, two panics | `ClaimedJobIsReady`, `CallComplete`, `ContextsBounded` |
| `job_queue_live` | two threads, two Compressors, one panic | `OneJobPerThread`, `CallsReturn` |
| `block_pipeline` | four blocks of 8 in up to three calls, flushed or left open, each pipelined or not; a split and a pre-split each, bounds and sizes at the edge of the block-type decision; a finder that only uses repcodes | `ProofsHold` (the three assertions after the join), `PipelineIsSerial`, `CallReturns` |
| `serial_blocks` | two instances. First: finders of two offsets and of three with long distance matches, two sequences a block, first, dictionary and later jobs, split blocks. *Coders*: both tables from a dictionary, chosen by the heuristic | `MatchesDecodeAsFound`, `CommittedTablesAreTheDecoders`, `SectionsAreDecodable` |
| `parallel_decode` | two pool threads, one block ahead for each, eight frames of two and three blocks (own, repeated and mixed tables, raw, no sequences, four kinds of corruption); the second block may change between calls | `OutputIsSerial`, `ScratchIsSerial`, `FailuresAreReal`, `CellsExclusive`, `CallReturns` |
| `decode_stream` | sixteen streams (reserved block types, wrong sizes, checksums and content among their faults), blocks up to 2 bytes, copies overshooting by 1, windows up to 4, input in pieces of 1, 3 or all, room 0, 1 or 4, a dictionary or none, batches or none, one reset | `Delivered`, `HistoryIntact`, `FramesReported`, `VerdictIsOneShot`, `Completes` |
| `codecs` | bounded inputs for each pure algorithm, below | `ExecutesAsDefined`, `NormalizedTablesAgree`, `SequencesRoundTrip`, `HuffmanTablesAgree`, `StreamVerdictsAgree`, `LiteralsRoundTrip`, `ParsesDecode`, `LongMatchesHold` |

The inputs of the last. *Execution*: blocks of one or two sequences with
lengths and offsets around every chunk size, in a first segment, with a
dictionary and in a ring, for all four copy routines, against a byte by byte
copy. *Normalisation*: all small counts, and wide ones that need the second
method or long runs in the header. *Sequences*: short lists and long ones, up
to the largest lengths and offsets, after blocks that left tables or none.
*Huffman*: flat, skewed, doubling and Fibonacci counts at every limit, and
counts that share a bucket of the sort, more than the eight up to which an
insertion sort takes the quicksort's place (the cutoff is 158 + 7 = 165, where
the comment of huf.rs:153 has 166, and is one of ranks, so the bucket of count
164 is sorted as well); streams whole, cut, lengthened, flipped and with the wrong jump table. *Literals*: the
sizes around each header format, kept tables of each mode. *Parses*: every text
of five three-letter words over two letters in a window with an input alone, a
loaded and an attached dictionary; every lookup result. *Long matches*: texts
of five pieces, about 34 bytes, in a window of 12 with chunks of 13, units of
11 and 22 and blocks cut at any of three lengths, so that a unit spans chunks,
a block spans matches and matches span blocks; indices are corrected twice; the
optimal parser may look at any later position.

Why the bounds are enough. Match state: with `CurrentMax` 9 a correction
happens after two or three blocks and again after that (two corrections of a
window are allowed), a window of 2 is no larger than a block, so low moves in
every block, and two words are enough for an index table to lie where another
layout has a tag, a chain or nothing; resets are unbounded. Session: an input
of 13 moves the buffer of 8 twice, with a prefix once more. Job queue: four
jobs on three threads make a thread claim twice and a runner find nothing; two
frames on two threads are the least in which threads wait inside each other's
jobs. Blocks: three are the least in which a table is committed, another built
and dropped, and the first repeated; a split into two with one side RAW is the
least in which the histories of finder and decoder differ. Reaches are any, so
offsets go out of the window at any block. Parallel decoding: with a depth of
two, a cell is handed to the third block while a task of the first may still be
queued. Streaming: seven blocks of a frame with a window of 2 wrap the ring
more than once, and a second frame finds the first one's ring. Named bounds
(`MaxPos`, `MaxCorrections`, `MaxInput`, `MaxCalls`, `MaxPanics`, `MaxSeqs`,
`MaxResets`) are guards. The match state, block, job queue and codec runs say
`CHECK_DEADLOCK FALSE` because their bounds, or the end of an algorithm, end
behaviours; the session, parallel and streaming decoder runs check deadlock.

Fairness. A compress_stream call runs to its end on its caller's thread, so
`LoopStep` is weakly fair; `RepeatingCompletes` is about a caller that
repeats, so that caller's calls are weakly fair too. In `JobQueue` each
thread's steps are weakly fair: operating system threads run, rayon starts
what it queued on a thread that idles or waits, jobs and prepares end. Calls
are not fair. In `BlockPipeline` the steps of a call are weakly fair: the loop
runs on its caller's thread and `rayon::join` runs both its sides. In
`ParallelDecode` the executing thread and every task that has started are
weakly fair, but the start of a task is fair only while a scope waits for it:
a chain's tasks need never start. In `DecodeStream` a call's steps are weakly
fair, and the caller's calls with some room strongly fair, since the reader
adapter calls until it is given content.

## Proofs

Every theorem is about every value of the constants. Its assumptions are the
`ASSUME`s of the modules it extends and, for `MatchState`, the hypothesis
`CorrectionRoom`.

| module | theorem | states |
|---|---|---|
| `MatchStateProofs` | `TypeCorrect` | `Spec => []TypeOK` |
| | `IndicesFit` | `Spec => []IndexFits` |
| | `VouchedWords` | `Spec => []VouchedBelowEnd` |
| | `StaleFree` | `Spec => []NoStaleHit` |
| | `WindowKept` | `Spec => []WindowIntact` |
| | `DictWithinWindow` | `Spec => []DictOnlyWithinWindow` |
| | `TablesSurviveCorrection` | `Spec => CorrectionKeepsTables` (of steps) |
| `JobQueueProofs` | `JobsStartPrepared` | `Spec => []ClaimedJobIsReady` |
| | `CallsComplete` | `Spec => []CallComplete` |
| | `OneJobAtATime` | `Spec => []OneJobPerThread` |
| | `ContextsStayBounded` | `Spec => ContextsBounded` (of steps) |
| `CompressStreamProofs` | `HistoryIsKept` | `Spec => []HistoryKept` |
| | `FramesAreWellFormed` | `Spec => []WellFormedFrame` |
| | `ReturnsAreExact` | `Spec => []ReturnIsExact` |
| | `StreamsAreOneShot` | `Spec => []SameAsOneShot` |
| `SerialBlocksProofs` | `OffsetsAgree` | `SerialSpec => []MatchesDecodeAsFound` |
| | `TablesAgree` | `SerialSpec => []CommittedTablesAreTheDecoders` |
| | `SectionsDecode` | `SerialSpec => []SectionsAreDecodable` |
| `BlockPipelineProofs` | `OverlapIsSound` | `Spec => []ProofsHold` |
| | `PipelineImplementsSerial` | `Spec => PipelineIsSerial`, a refinement |
| `DecodeStreamProofs` | `DeliversContent` | `Spec => []Delivered` |
| | `KeepsHistory` | `Spec => []HistoryIntact` |
| | `ReportsFrames` | `Spec => []FramesReported` |
| | `TakesOneShotVerdict` | `Spec => []VerdictIsOneShot` |
| `ParallelDecodeProofs` | `DecodesAsSerial` | `Spec => []OutputIsSerial` |
| | `HandsBackScratch` | `Spec => []ScratchIsSerial` |
| | `FailsAsSerial` | `Spec => []FailuresAreReal` |
| | `CellsAreExclusive` | `Spec => []CellsExclusive` |

**Match state.** `Shape` is what every window satisfies: `WindowStart <= low <=
dictLimit <= end`, and low names a position. Each window operation keeps it
and moves the end by a known amount (the `Shape...` lemmas). `CorrectionExact`
is the heart of the arithmetic: with room, the truncated `u32` computation of
`correct_overflow` is the exact distance, it is positive and the corrected
range ends at or below `CurrentMax`. `IndInv` joins `TypeOK`, `Shape`, how
high indices get in each phase (`IndexBound`), and `TablesVouched`: the
workspace vouches for at least the index tables, for none of the tags, and the
padding between tables is zero. `NoStaleHit` alone is not inductive: a reset
lays a new layout over words that were cells, padding or unused before, and
only `VouchedBelowEnd` says they lie below the next window; that in turn needs
the tags to lie above what is vouched for. `Fit` restates the part about tables
for any words and window, so that the proof of a composed action (extend,
correct, check, enforce) is a chain of lemmas.

`CorrectionRoom` (below `CurrentMax` there is room for a cycle, the window and
what is indexed at once; above it, in `u32`, for the content and a block) is a
hypothesis because the code does not check it: the `match_state_large_prefix`
run shows what happens without it. `MCMatchState` assumes it, so TLC evaluates
it on the passing instances.

`WindowIntact` speaks of a block's start only, where the low limit has just
been enforced. `ReachInv` says it of every phase: the low limit is no higher
than a window below the end of what was indexed (`LowReach`), insertion
resumes inside the window (`UpdateReach`), and a dictionary still referenced is
within a window (`DictReach`).

**Job queue.** The threads' stacks are read as one function, `act`, from
places to activities, so that a step changes one place of it. `StackInv` says
how activities lie on each other: what waits below is a scope or a job, a
runner that claims lies on no job, `IN_JOB` is set on the threads with a job
that marks it, and no two activities hold the same job. `FrameInv` says what a
frame's counters account for: how far the caller has prepared at each of its
steps, that unclaimed jobs keep their slots and a started job is prepared
(`Knows`), that a claimed job is written or held unless something unwound
(`Accounted`), and that an unwinding costs a job that nobody will run
(`Costs`). Neither half is inductive without the other: that the job an
activity was about to start is still its own is a fact about all the stacks.
For the pool, `Pooled` bounds a frame's contexts, in jobs and free, by the
capacity its pool was given, which is at most a context per thread.

**Session.** `Core` is what every theorem needs: the types, where a call is
(`CallInv`), and that the buffer is the end of the history, placed where the
cursor expects it (`Buffered`), with no more than a block unwritten between
calls (`BufferInv`). The last is what makes `HistoryKept` inductive: a move
keeps a window because the blocks before it are written, and a buffer that is
full has one to write. `ItemsInv` says which items are written at each stage,
`CodedInv` that the blocks code the input up to the cursor, `ReturnInv` what
the last call found. For `SameAsOneShot`, a one-shot frame is a `Chain` of
states, one per block, for an input of n bytes. A stream does not know n, so
`SameInv` says that the frame has come to some state of the chain of *every* n
it may still have (`Following`): a block is cut only when more than a block of
input is at hand, and then its end is the same for all of them (`SameEnd`,
over cursors that a buffer move has shifted). Once an End fixes n, the rest of
the chain is written. `FlattenSeq` and the chain are recursions over data;
as below, they are functions that exist and are unique by `SetInduction`.

**Serial blocks.** `IInv` says where the block in hand is (`PlaceInv`), that
the decoder holds the repeat offsets committed and what is left of the block
was found from them (`RepInv`), and that a table with a mode is the decoder's
and a valid one codes every symbol (`EntInv`). The last needs that a valid
offset table is a dictionary's and the block the first. The repeat offsets are
folds over sequences of any length, and the prover cannot instantiate the
library's induction over an operator. `RepCodesProofs` therefore turns a fold
into a path, a function of the values it went through, whose existence and
uniqueness follow by induction over a set (`SetInduction`), and reasons about
one step of it. The proof shows why `resolve_off_codes` walks two histories: a
partition stored raw leaves the decoder's behind the one the matches were
found with. A block is cut into at most two units, as the model's splitter
does.

**Pipeline.** `PInv` adds to `IInv` that what the overlapped loop proved of a
block before writing it comes true: the repeat offsets it foresaw are those of
the block as written (`OverlapInv`), the search begun beside it is the search
the plain loop would begin (`SearchInv`), and after the join both agree
(`JoinedInv`). The gain it foresaw is a lower bound of the block's, since each
unit gains at least `MinGain` when compressed, and the splitter's decision
depends only on whether the savings reach a threshold that the bound has
passed (`ProvenLeads`). The refinement maps the loop's `pc` to the plain one's
(`PlainPc`): `FindAhead` stutters, `EmitBeside` is `Emit`, `Join` is
`BlockWritten`, `TakeFollowing` is `CutAndFind`; every other step is itself.

**Streaming decompressor.** The units of a stream, its bytes and its content
are flattened sequences and sums, so the first half of the proof says what
follows each unit (`Linked`), where in the bytes and in the content it stands
(`LensAre`, `ContentPos`) and where the blocks of a batch lie (`BlockBytesAre`).
None of the four properties is inductive alone, and `IInv` has a part for each
thing they lean on: the stage is the one of the unit the decoder is at
(`PlaceInv`); a unit is never whole when a call has returned (`RestInv`); bytes
read are accounted for, those of a batch too (`BytesInv`, `BatchInv`); what is
written out and what waits in the buffer are the content up to the unit
(`DeliverInv`). `RingInv` is the heart: a window before the next byte is in the
segment or at the end of the one before, whose end lies more than a window and
an overshoot past the start (`RingFor`), so that neither a block nor its
overshoot reaches what is still history (`WriteHistory`). That holds of a wrap
because the full length leaves a window and an overshoot before a block's
room, and a frame whose content is within a window never wraps (`WrapsLate`). The verdict follows by
counting bytes: an input that ends inside a unit leaves the stage or the unit's
bytes to show it.

**Parallel decoder.** `IInv`, in `ParallelDecodeInv`, has three parts. `CellsInv` is the protocol of
cells and tickets: a thread that decodes has taken the block in its cell, alone
(`DecInv`); a planned decode has a task that will find it (`TaskInv`), so a
cell that no task holds is planned for nobody and may be handed out; no cell is
free, queued and in a ring at once (`ApartInv`); a planned block's cell holds
its job until it is executed (`QueueInv`, `BatchInv`), and a batch's block is
in no cell before it is handed one (`FreshInv`), without which a `done` left by
an earlier block could be taken for its own. `GhostInv` says what the data is.
A table is known by an id, and ids outlive the blocks and cells that use them,
so it names two functions, `H` and `F`, from every id given out to the Huffman
and sequence table it stands for, and a sequence `S` of the states the serial
decoder goes through over the blocks planned: every cell's table is the one its
tag names and its published sequences are its block's (`TableInv`), a decode in
progress has published what its place says (`DecOk`), what the executing thread
has read is a prefix of it (`ReadOk`), and the plans use and leave the tables
of `S` (`Line`). `SerialInv` ties the output, the scratch and the failures to
the serial decoder's on the blocks consumed. A step that gives out an id
extends `H` and `F` there; one that rewinds or hands back cuts `S`; one that
executes a block moves it on. `WaitRun` is where the order of two loads
matters: `saw_done` without more sequences is a failure only because the done
mark was read first (`ReadOk`). `SerialRun`, a recursion over the blocks, is
used through one step of it, as above.

Only model-checked: the properties of the coders, finders and the long distance
matcher, whose modules declare recursive operators and whose claims
need induction over data, both out of the prover's reach; and all liveness,
which the prover does not do.

## Findings

`match_state_large_prefix`: `correct_overflow` computes in `u32`, and a prefix
or dictionary enters whole, however long. Once its indices pass 2^32 the
correction is short by 2^32 and `start_block`'s assertion on the block's end
fails, while `compress/matchstate.rs` says of the corrections "so inputs of
any size compress". Inputs do; prefixes above about 4 GiB do not.

`compress_stream_ldm`: a full input buffer is moved down by `Frame::accept`,
and `Context::rebase` rebases the match state and, with long distance
matching, that matcher's window. `Window::rebase` asserts that the window
reaches the first byte kept ("rebase past the window's end"), but no block
moves the end of the matcher's window: `extend_to` is called for a match
state's and for a loaded dictionary only. So a stream with long distance
matching (asked for, or by default at the largest windows) that fills the
buffer, content and twice a window and a block, panics, where
`compress/stream.rs` promises "the same matches as the one-shot frame". The
other runs of `CompressStream` are about frames without it, and their results
hold for frames with it up to that first move.

## What is left out, and the plan

Not modelled, and why: the prices and path of the optimal parser and the
searches inside `search_max` (hash chains, rows, the binary tree, and their
dictionary variants in `lazy/dms.rs`) decide which of the valid matches is
taken, which no property here depends on; whether those they return are valid
is the comparisons' matter, modelled with the finders. The choice of
parameters, of attaching, copying or loading a dictionary, and of job sizes is
table lookup and clamping without state. XXH64 and the gear hash are mixing
arithmetic. Frame and dictionary headers enter as parsed values. The
`std::io` adapters add no state. Error texts and constant tables are left out,
register-wide kernels are modelled by what they store.

Plan, in order:

1. The attached-dictionary loop of the lazy finder; the binary tree's
   insertion, whose order `MatchState` takes for granted.
2. Dictionary selection and job sizing as operators against a reference.
