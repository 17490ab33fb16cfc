--------------------------- MODULE CompressStream ---------------------------
(***************************************************************************)
(* The streaming session of a Compressor (src/src/compress/stream.rs): the *)
(* input buffer of a frame, the blocks cut from it as it arrives, pending  *)
(* output and the stage the session is in.                                 *)
(*                                                                         *)
(* Bytes are named by where they come from: byte i of the frame's input is *)
(* i, and the bytes of a prefix before it are negative.  The buffer holds  *)
(* these names, so that moving it is modelled by what it does to its       *)
(* contents.  Output is a sequence of items, each one unit of the caller's *)
(* room: the frame header, the blocks with the bytes they code, and the    *)
(* epilogue.  What a block's bytes decide, whether the pre-splitter cuts   *)
(* it and whether it saves space, is the oracle's, keyed by its first      *)
(* byte, so that equal blocks are treated equally.                         *)
(*                                                                         *)
(* A compress_stream call is a Call, then the iterations of stream_loop as *)
(* steps ("flush", "match", "blocks"), then a return.                      *)
(***************************************************************************)
EXTENDS JobBlocks, Sequences, SequencesExt

CONSTANTS
    WindowSize,     \* 1 << window_log of the frame's parameters
    BlockSizeMax,   \* block_size_max
    HeaderLen,      \* header_len of the sizing
    NoChunk,        \* chunk_size of a frame that is not multithreaded
    JobSizeMin,     \* JOBSIZE_MIN
    JobSizes,       \* values of opts.job_size.is_some() to consider
    Ldms,           \* whether a frame's parameters enable long distance matching
    Oracles,        \* what the bytes decide: [cut: set, gain: set] of bytes
    PrefixLens,     \* lengths of prefixes, 0 for none
    Pledges,        \* sizes a caller may pledge, beside none
    MaxInput,       \* bound on the input of a frame
    SrcLens,        \* lengths of the input of a call
    Rooms,          \* output room of a call
    Persistent      \* the caller repeats a Flush or End until it is complete

NoSize == -1

ASSUME StreamConstants ==
    /\ WindowSize \in Nat \ {0} /\ BlockSizeMax \in 1..WindowSize
    /\ HeaderLen \in Nat /\ JobSizeMin \in Nat /\ JobSizes \subseteq BOOLEAN
    /\ Ldms \subseteq BOOLEAN
    /\ PrefixLens \subseteq Nat /\ Pledges \subseteq Nat
    /\ MaxInput \in Nat /\ SrcLens \subseteq Nat /\ Rooms \subseteq Nat
    /\ Persistent \in BOOLEAN
    /\ NoChunk \in Nat /\ NoChunk > MaxInput

VARIABLES
    stage,      \* Session::stage
    pledged,    \* Session::pledged, NoSize for None
    out,        \* Session::out[flushed..]
    prefix,     \* length of Compressor::prefix
    fr,         \* the Frame of stage "Frame"
    pool,       \* free contexts and capacity of the ContextPool
    call,       \* the compress_stream call in progress
    ret,        \* what the last call returned
    jobSize,    \* opts.job_size is set
    oracle,
    sent,       \* history: items the caller received of this frame
    flushed     \* history: the frame was cut by a Flush

vars == <<stage, pledged, out, prefix, fr, pool, call, ret, jobSize, oracle,
          sent, flushed>>

Directives == {"Continue", "Flush", "End"}
Errors == {"None", "StageWrong", "SrcSizeWrong", "Unsupported"}

Header(size) == [item |-> "header", size |-> size, bytes |-> <<>>, last |-> FALSE]
Block(bytes, last) == [item |-> "block", size |-> NoSize, bytes |-> bytes, last |-> last]
Epilogue == [item |-> "epilogue", size |-> NoSize, bytes |-> <<>>, last |-> FALSE]

NoInput == [kind |-> "None", end |-> 0]

NoCall == [pc |-> "idle", src |-> 0, room |-> 0, op |-> "Continue",
           input |-> NoInput]

NoReturn == [op |-> "Continue", err |-> "None", left |-> 0, src |-> 0]

NoFrame == [jb |-> NewJobBlocks([blockSizeMax |-> BlockSizeMax, split |-> TRUE,
                                 chunkSize |-> NoChunk, headerLen |-> HeaderLen],
                                0, TRUE, TRUE),
            buf |-> <<>>, cap |-> 0, content |-> 0, pledged |-> NoSize,
            consumed |-> 0, header |-> FALSE, ldmEnd |-> NoSize]

Init ==
    /\ stage = "Idle" /\ pledged = NoSize /\ out = <<>> /\ prefix = 0
    /\ fr = NoFrame
    /\ pool = [free |-> 0, capacity |-> 0]
    /\ call = NoCall
    /\ ret = NoReturn
    /\ jobSize \in JobSizes
    /\ oracle \in Oracles
    /\ sent = <<>> /\ flushed = FALSE

-----------------------------------------------------------------------------
(* ContextPool *)

Expand(p, workers) == [p EXCEPT !.capacity = IF @ >= workers THEN @ ELSE workers]

Take(p) == [p EXCEPT !.free = IF @ > 0 THEN @ - 1 ELSE 0]

GiveBack(p) == [p EXCEPT !.free = IF @ < p.capacity THEN @ + 1 ELSE @]

-----------------------------------------------------------------------------
(* Frame *)

Bytes(from, n) == [i \in 1..n |-> from + i]

\* A prefix under HASH_READ_SIZE bytes is dropped when it is loaded; here
\* prefix lengths are those that are kept.
Content(len) == [i \in 1..len |-> i - len - 1]

\* ldmEnd is the end of the long distance matcher's window (next_src): its
\* origin, or the end of the content it loaded.  No block extends it.
Begin(size, len, ldm) ==
    [NoFrame EXCEPT !.jb.jobStart = len, !.buf = Content(len),
                    !.cap = len + 2 * (WindowSize + BlockSizeMax),
                    !.content = len, !.pledged = size, !.header = TRUE,
                    !.ldmEnd = IF ldm THEN len ELSE NoSize]

\* Mutant of HoldsInput: a last byte is not seen.
HoldsInputBeyondOne(f) == NextStart(f.jb) + 1 < Len(f.buf)

HoldsInput(f) == NextStart(f.jb) < Len(f.buf)

InputHint(f) ==
    LET held == Len(f.buf) - NextStart(f.jb)
    IN  IF BlockSizeMax + 1 > held THEN BlockSizeMax + 1 - held ELSE 1

\* Mutant of Moved: a byte less than a window is kept.
MovedTooFar(f) ==
    LET shift == NextStart(f.jb) - WindowSize + 1
    IN  IF Len(f.buf) = f.cap
        THEN [f EXCEPT !.buf = SubSeq(@, shift + 1, Len(@)),
                       !.jb = RebaseBlocks(@, shift),
                       !.ldmEnd = IF @ = NoSize THEN @ ELSE @ - shift]
        ELSE f

Shift(f) == NextStart(f.jb) - WindowSize

\* Context::rebase panics unless both windows reach the first byte kept; the
\* match state's reaches the last block's end.
CanMove(f) ==
    Len(f.buf) = f.cap =>
        /\ Shift(f) <= NextStart(f.jb)
        /\ f.ldmEnd # NoSize => Shift(f) <= f.ldmEnd

\* A full buffer first moves its last window down.
Moved(f) ==
    LET shift == Shift(f)
    IN  IF Len(f.buf) = f.cap
        THEN [f EXCEPT !.buf = SubSeq(@, shift + 1, Len(@)),
                       !.jb = RebaseBlocks(@, shift),
                       !.ldmEnd = IF @ = NoSize THEN @ ELSE @ - shift]
        ELSE f

Accepted(f, n) == Least(n, f.cap - Len(Moved(f).buf))

Accept(f, n) ==
    LET take == Accepted(f, n)
        m    == Moved(f)
    IN  [m EXCEPT !.buf = @ \o Bytes(f.consumed, take),
                  !.consumed = @ + take]

\* The header goes out before the first block.
HeaderItems(f) == IF f.header THEN <<Header(f.pledged)>> ELSE <<>>

NextBlock(f, input) ==
    LET start == NextStart(f.jb)
        end   == NextBlockEnd(f.jb, input, f.buf[start + 1] \in oracle.cut)
    IN  [bytes |-> SubSeq(f.buf, start + 1, end), end |-> end]

Gain(bytes) == IF Head(bytes) \in oracle.gain THEN 4 ELSE 0 - 3

-----------------------------------------------------------------------------
(* The caller *)

Multithreaded(size) == jobSize /\ (size = NoSize \/ size > JobSizeMin)

Incomplete == ret.err = "None" /\ ret.op \in {"Flush", "End"} /\ ret.left > 0

\* A first End call whose frame is cut into jobs is not a streaming frame.
JobFrame(n, op) == stage # "Frame" /\ op = "End" /\ Multithreaded(n)

Call(n, room, op) ==
    /\ call.pc = "idle"
    /\ fr.consumed + n <= MaxInput
    /\ ~JobFrame(n, op)
    /\ Persistent /\ Incomplete => op = ret.op /\ n = ret.src /\ room > 0
    /\ call' = [NoCall EXCEPT !.pc = "flush", !.src = n, !.room = room, !.op = op]
    /\ UNCHANGED <<stage, pledged, out, prefix, fr, pool, ret, jobSize, oracle,
                   sent, flushed>>

SetPledgedSrcSize(size) ==
    /\ call.pc = "idle" /\ ~(Persistent /\ Incomplete)
    /\ stage = "Idle"
    /\ pledged' = size
    /\ UNCHANGED <<stage, out, prefix, fr, pool, call, ret, jobSize, oracle,
                   sent, flushed>>

SetPrefix(len) ==
    /\ call.pc = "idle" /\ ~(Persistent /\ Incomplete)
    /\ stage = "Idle"
    /\ prefix' = len
    /\ UNCHANGED <<stage, pledged, out, fr, pool, call, ret, jobSize, oracle,
                   sent, flushed>>

ResetStream ==
    /\ call.pc = "idle" /\ ~(Persistent /\ Incomplete)
    /\ stage' = "Idle" /\ pledged' = NoSize /\ out' = <<>>
    /\ pool' = IF stage = "Frame" THEN GiveBack(pool) ELSE pool
    /\ fr' = NoFrame /\ sent' = <<>> /\ flushed' = FALSE
    /\ ret' = NoReturn
    /\ UNCHANGED <<prefix, call, jobSize, oracle>>

-----------------------------------------------------------------------------
(* stream_loop *)

\* Mutant of Left: never zero.
LeftAtLeastOne(pending, src) == IF pending > 0 THEN pending ELSE 1

\* The value a call that breaks out of the loop returns; stage, src and out
\* are those at the break.
Left(pending, src) ==
    LET more == IF pending > 0 THEN pending ELSE 1
    IN  IF stage = "Frame" /\ call.op = "Continue" /\ pending = 0 THEN InputHint(fr)
        ELSE IF stage = "Frame" /\ call.op = "End" THEN more
        ELSE IF stage = "Frame" /\ call.op = "Flush" /\ (src > 0 \/ HoldsInput(fr)) THEN more
        ELSE IF src > 0 THEN more
        ELSE pending

Return(left, src) ==
    /\ ret' = [op |-> call.op, err |-> "None", left |-> left, src |-> src]
    /\ call' = NoCall

\* compress_stream: an error abandons the frame and gives its context back.
Fail(error) ==
    /\ ret' = [op |-> call.op, err |-> error, left |-> 0, src |-> call.src]
    /\ call' = NoCall
    /\ stage' = "Failed"
    /\ pool' = IF stage = "Frame" THEN GiveBack(pool) ELSE pool
    /\ fr' = NoFrame
    /\ UNCHANGED <<pledged, out, prefix, jobSize, oracle, sent, flushed>>

\* flush_to: all pending output goes to the caller, or as much as fits.
FlushTo ==
    LET n == Least(call.room, Len(out))
    IN  /\ call.pc = "flush"
        /\ sent' = sent \o SubSeq(out, 1, n)
        /\ out' = SubSeq(out, n + 1, Len(out))
        /\ IF out' # <<>>
           THEN Return(Left(Len(out'), call.src), call.src)
           ELSE /\ call' = [call EXCEPT !.pc = "match", !.room = @ - n]
                /\ UNCHANGED ret
        /\ UNCHANGED <<stage, pledged, prefix, fr, pool, jobSize, oracle, flushed>>

StepFailed == call.pc = "match" /\ stage = "Failed" /\ Fail("StageWrong")

StepEnded ==
    /\ call.pc = "match" /\ stage = "Ended"
    /\ stage' = "Idle" /\ pledged' = NoSize /\ fr' = NoFrame
    /\ IF call.op = "End" /\ call.src = 0
       THEN Return(0, 0)
       ELSE call' = [call EXCEPT !.pc = "flush"] /\ UNCHANGED ret
    /\ UNCHANGED <<out, prefix, pool, jobSize, oracle, sent, flushed>>

\* Compressing the blocks of f that input makes ready, the frame header
\* before the first; they follow as WriteBlock steps.
StartBlocks(c, f, input) ==
    LET ready == HasReady(f.jb, input)
    IN  /\ call' = [c EXCEPT !.pc = IF ready THEN "blocks" ELSE "flush",
                             !.input = input]
        /\ out' = IF ready THEN HeaderItems(f) ELSE <<>>
        /\ fr' = IF ready THEN [f EXCEPT !.header = FALSE] ELSE f

\* Frame::finish, and compress_frame for a first End call: with no input
\* left, an empty last block.
Finish(c, f) ==
    LET end == [kind |-> "JobEnd", end |-> Len(f.buf)]
    IN  /\ call' = [c EXCEPT !.pc = "blocks", !.input = end]
        /\ out' = HeaderItems(f)
                    \o (IF HasReady(f.jb, end) THEN <<>> ELSE <<Block(<<>>, TRUE)>>)
        /\ fr' = [f EXCEPT !.header = FALSE]

\* The first call ends the frame: its whole input as one frame.
StepIdleEnd ==
    /\ call.pc = "match" /\ stage = "Idle" /\ call.op = "End"
    /\ IF pledged # NoSize /\ pledged # call.src
       THEN Fail("SrcSizeWrong")
       ELSE /\ \E ldm \in Ldms :
                 Finish([call EXCEPT !.src = 0],
                        [Begin(call.src, prefix, ldm)
                           EXCEPT !.buf = @ \o Bytes(0, call.src), !.consumed = call.src])
            /\ stage' = "Frame"
            /\ pool' = Take(Expand(pool, 1))
            /\ prefix' = 0 /\ sent' = <<>> /\ flushed' = FALSE
            /\ UNCHANGED <<pledged, ret, jobSize, oracle>>

StepIdle ==
    /\ call.pc = "match" /\ stage = "Idle" /\ call.op # "End"
    /\ IF Multithreaded(pledged)
       THEN Fail("Unsupported")
       ELSE /\ \E ldm \in Ldms : fr' = Begin(pledged, prefix, ldm)
            /\ stage' = "Frame"
            /\ pool' = Take(Expand(pool, 1))
            /\ prefix' = 0 /\ sent' = <<>> /\ flushed' = FALSE
            /\ call' = [call EXCEPT !.pc = "flush"]
            /\ UNCHANGED <<pledged, out, ret, jobSize, oracle>>

StepAccept ==
    /\ call.pc = "match" /\ stage = "Frame" /\ call.src > 0
    /\ IF fr.pledged # NoSize /\ fr.consumed + call.src > fr.pledged
       THEN Fail("SrcSizeWrong")
       ELSE LET f     == Accept(fr, call.src)
                input == [kind |-> "Open", end |-> Len(f.buf)]
            IN  /\ CanMove(fr)
                /\ StartBlocks([call EXCEPT !.src = @ - Accepted(fr, call.src)], f, input)
                /\ UNCHANGED <<stage, pledged, prefix, pool, ret, jobSize, oracle,
                               sent, flushed>>

StepContinue ==
    /\ call.pc = "match" /\ stage = "Frame" /\ call.src = 0
    /\ call.op = "Continue" \/ (call.op = "Flush" /\ ~HoldsInput(fr))
    /\ Return(Left(0, 0), 0)
    /\ UNCHANGED <<stage, pledged, out, prefix, fr, pool, jobSize, oracle, sent, flushed>>

StepFlush ==
    /\ call.pc = "match" /\ stage = "Frame" /\ call.src = 0
    /\ call.op = "Flush" /\ HoldsInput(fr)
    /\ StartBlocks(call, fr, [kind |-> "Chunk", end |-> Len(fr.buf)])
    /\ flushed' = TRUE
    /\ UNCHANGED <<stage, pledged, prefix, pool, ret, jobSize, oracle, sent>>

StepEnd ==
    /\ call.pc = "match" /\ stage = "Frame" /\ call.src = 0 /\ call.op = "End"
    /\ IF fr.pledged # NoSize /\ fr.pledged # fr.consumed
       THEN Fail("SrcSizeWrong")
       ELSE /\ Finish(call, fr)
            /\ UNCHANGED <<stage, pledged, prefix, pool, ret, jobSize, oracle, sent, flushed>>

-----------------------------------------------------------------------------
(* compress_blocks, a block at a time *)

WriteBlock ==
    LET b == NextBlock(fr, call.input)
    IN  /\ call.pc = "blocks" /\ HasReady(fr.jb, call.input)
        /\ out' = Append(out, Block(b.bytes, IsLast(fr.jb, b.end, call.input)))
        /\ fr' = [fr EXCEPT !.jb = Wrote(@, b.end, Gain(b.bytes))]
        /\ UNCHANGED <<stage, pledged, prefix, pool, call, ret, jobSize, oracle,
                       sent, flushed>>

\* No block is ready any more; the job's end is the frame's.
BlocksDone ==
    /\ call.pc = "blocks" /\ ~HasReady(fr.jb, call.input)
    /\ fr' = [fr EXCEPT !.jb = InputEnded(@, call.input)]
    /\ call' = [call EXCEPT !.pc = "flush", !.input = NoInput]
    /\ IF call.input.kind = "JobEnd"
       THEN /\ out' = Append(out, Epilogue)
            /\ stage' = "Ended"
            /\ pool' = GiveBack(pool)
       ELSE UNCHANGED <<out, stage, pool>>
    /\ UNCHANGED <<pledged, prefix, ret, jobSize, oracle, sent, flushed>>

-----------------------------------------------------------------------------

LoopStep ==
    \/ FlushTo \/ StepFailed \/ StepEnded \/ StepIdleEnd \/ StepIdle
    \/ StepAccept \/ StepContinue \/ StepFlush \/ StepEnd
    \/ WriteBlock \/ BlocksDone

AnyCall == \E n \in SrcLens, room \in Rooms, op \in Directives : Call(n, room, op)

Next ==
    \/ AnyCall
    \/ \E size \in Pledges \cup {NoSize} : SetPledgedSrcSize(size)
    \/ \E len \in PrefixLens : SetPrefix(len)
    \/ ResetStream
    \/ LoopStep

Spec == Init /\ [][Next]_vars

(* A call runs to its end.  A persistent caller comes back while what it   *)
(* asked for is incomplete.                                                *)
FairSpec == Spec /\ WF_vars(LoopStep) /\ WF_vars(Incomplete /\ AnyCall)

-----------------------------------------------------------------------------
(* Correctness *)

Items == sent \o out

\* The bytes the blocks code; a header and an epilogue code none.
Coded(items) == FlattenSeq([i \in 1..Len(items) |-> items[i].bytes])

\* The blocks of a one-shot frame of n bytes: one compress_blocks call.
OneShotBlocks(n) ==
    LET end == [kind |-> "JobEnd", end |-> n]
        Cut(st) ==
            IF ~HasReady(st.jb, end) THEN st
            ELSE LET start == NextStart(st.jb)
                     to    == NextBlockEnd(st.jb, end, start + 1 \in oracle.cut)
                     bytes == Bytes(start, to - start)
                 IN  [jb |-> Wrote(st.jb, to, Gain(bytes)),
                      blocks |-> Append(st.blocks, Block(bytes, IsLast(st.jb, to, end)))]
        cut[i \in 0..n] ==
            IF i = 0 THEN [jb |-> NoFrame.jb, blocks |-> <<>>] ELSE Cut(cut[i - 1])
    IN  IF n = 0 THEN <<Block(<<>>, TRUE)>> ELSE cut[n].blocks

\* The blocks so far code the input up to the cursor, each byte once.
BlocksCodeTheInput ==
    /\ Coded(Items) = Bytes(0, fr.jb.done)
    /\ stage = "Ended" => fr.jb.done = fr.consumed

OneShotFrame(n) == <<Header(fr.pledged)>> \o OneShotBlocks(n)

\* The inputs that what was consumed may still become.
Inputs == fr.consumed..(IF call.input.kind = "JobEnd" THEN fr.consumed ELSE MaxInput)

(* However the input is cut into calls, and whatever room the calls have,  *)
(* the blocks of a frame code its input, in order; and "without Flush, the *)
(* frame is the one Compressor::compress writes for the same input": a     *)
(* block is written only when no later input can change it, so what is     *)
(* written so far begins the one-shot frame of every longer input.         *)
SameAsOneShot ==
    stage \in {"Frame", "Ended"} =>
        /\ BlocksCodeTheInput
        /\ ~flushed =>
              IF stage = "Ended" THEN Items = Append(OneShotFrame(fr.consumed), Epilogue)
              ELSE \A n \in Inputs : IsPrefix(Items, OneShotFrame(n))

(* A frame that ended is one header, blocks of which the last alone is     *)
(* marked last, and one epilogue, with the size it pledged.                *)
WellFormedFrame ==
    stage = "Ended" =>
        LET n == Len(Items)
        IN  /\ n >= 3 /\ Items[1].item = "header" /\ Items[n].item = "epilogue"
            /\ \A i \in 2..(n - 1) : Items[i].item = "block" /\ (Items[i].last <=> i = n - 1)
            /\ Items[1].size # NoSize => Items[1].size = fr.consumed

(* Moving the buffer never drops a byte a match may reference: before the  *)
(* next block lie at least a window, or all there was, and all of the      *)
(* prefix until more than a window of input follows it.                    *)
HistoryKept ==
    stage = "Frame" =>
        LET history == Content(fr.content) \o Bytes(0, fr.jb.done)
            held    == SubSeq(fr.buf, 1, NextStart(fr.jb))
        IN  /\ NextStart(fr.jb) \in 0..Len(fr.buf)
            /\ IsSuffix(held, history)
            /\ Len(held) >= Least(Len(history), WindowSize)
            /\ fr.jb.done <= WindowSize => held = history

(* "when full, moves its last window down to the start (Context::rebase    *)
(* keeps every index)": accept never moves the buffer past the end of a    *)
(* window (assert!(shift <= self.next_src, "rebase past the window's       *)
(* end")), the match state's or the long distance matcher's.               *)
RebaseWithinWindows ==
    stage = "Frame" /\ call.pc = "match" /\ call.src > 0
      /\ (fr.pledged = NoSize \/ fr.consumed + call.src <= fr.pledged)
        => CanMove(fr)

(* What a call returns is exact.  A Flush that returned 0 has delivered    *)
(* every byte consumed, and an End that returned 0 the whole frame ("0     *)
(* once the flush, or the frame, is complete"); Continue returns "the      *)
(* input that would complete the next block": that much more makes a block *)
(* ready, and no less does.                                                *)
ReturnIsExact ==
    call.pc = "idle" /\ ret.err = "None" =>
        IF ret.op = "Continue"
        THEN stage = "Frame" /\ out = <<>> =>
                \A more \in 0..ret.left :
                    HasReady(fr.jb, [kind |-> "Open", end |-> Len(fr.buf) + more])
                        <=> more = ret.left
        ELSE ret.left = 0 =>
                /\ ret.src = 0 /\ out = <<>>
                /\ stage = "Frame" => Coded(sent) = Bytes(0, fr.consumed)
                /\ ret.op = "End" => stage = "Idle" /\ sent[Len(sent)] = Epilogue

(* Every call returns, since each iteration of stream_loop makes progress, *)
(* also with a full buffer and with no room; and repeating a Flush or End  *)
(* with room completes it.                                                 *)
RepeatingCompletes ==
    /\ (call.pc # "idle") ~> (call.pc = "idle")
    /\ Incomplete ~> ~Incomplete
=============================================================================
