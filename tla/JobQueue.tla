------------------------------ MODULE JobQueue ------------------------------
(***************************************************************************)
(* The jobs of a frame on the threads of a rayon pool: run_jobs, JobQueue, *)
(* IN_JOB and ContextPool of src/src/compress/mod.rs.                      *)
(*                                                                         *)
(* Several Compressors share the pool.  What a thread is doing is a stack: *)
(* a thread that waits, in the rayon::join of a job or at the end of a     *)
(* scope, may start anything rayon hands it on top: its queued runner of   *)
(* any frame, or a task of the program that compresses another frame.      *)
(* Only the top of a stack takes steps.  A runner that waits on the        *)
(* condition variable blocks its thread.                                   *)
(*                                                                         *)
(* prepare and the job function may unwind; nothing else does.             *)
(***************************************************************************)
EXTENDS Integers, FiniteSets, Sequences, SequencesExt

CONSTANTS
    Threads,      \* the workers of the pool
    Frames,       \* Compressors, each compressing a frame at a time
    JobCounts,    \* numbers of jobs of a frame
    MaxCalls,     \* bound on the frames of a Compressor
    MaxPanics     \* bound on unwinding prepares and jobs

ASSUME JobQueueConstants ==
    /\ IsFiniteSet(Threads) /\ Threads # {}
    /\ JobCounts \subseteq Nat \ {0}
    /\ MaxCalls \in Nat /\ MaxPanics \in Nat

VARIABLES
    stack,      \* per thread: its activities, the running one last
    inJob,      \* per thread: IN_JOB
    queued,     \* per frame: the threads whose broadcast runner is queued
    njobs,      \* per frame: jobs.len()
    next,       \* per frame: JobQueue::next
    prepared,   \* per frame: JobQueue::prepared, Unwound for None
    slots,      \* per frame: the jobs whose slot is not taken
    pool,       \* per frame: ContextPool, how many are free and its capacity
    outcome,    \* per frame: of its call
    unwound,    \* per frame: a task of the scope unwound
    ready,      \* history, per frame: how many jobs prepare returned for
    outputs,    \* history, per frame: how often each job wrote its output
    calls,      \* history, per frame: calls so far
    panics      \* history: unwinds so far

vars == <<stack, inJob, queued, njobs, next, prepared, slots, pool, outcome,
          unwound, ready, outputs, calls, panics>>

Unwound == -1

Activity == [frame: Frames, role: {"caller", "runner"}, parallel: BOOLEAN,
             pc: {"begin", "prepare", "publish", "notify", "claim", "check",
                  "wait", "start", "job", "scope"},
             job: Nat, saved: BOOLEAN]

Init ==
    /\ stack = [t \in Threads |-> <<>>]
    /\ inJob = [t \in Threads |-> FALSE]
    /\ queued = [f \in Frames |-> {}]
    /\ njobs = [f \in Frames |-> 0] /\ next = [f \in Frames |-> 0]
    /\ prepared = [f \in Frames |-> 0]
    /\ slots = [f \in Frames |-> {}]
    /\ pool = [f \in Frames |-> [free |-> 0, capacity |-> 0]]
    /\ outcome = [f \in Frames |-> "none"]
    /\ unwound = [f \in Frames |-> FALSE]
    /\ ready = [f \in Frames |-> 0]
    /\ outputs = [f \in Frames |-> <<>>]
    /\ calls = [f \in Frames |-> 0] /\ panics = 0

-----------------------------------------------------------------------------
(* Threads *)

Idle(t) == stack[t] = <<>>

Top(t) == Last(stack[t])

At(t, pc) == ~Idle(t) /\ Top(t).pc = pc

\* In a join of a job that overlaps blocks, or at the end of a scope.
Waiting(t) == (At(t, "job") /\ Top(t).parallel) \/ At(t, "scope")

Push(t, a) == stack' = [stack EXCEPT ![t] = Append(@, a)]

Become(t, a) == stack' = [stack EXCEPT ![t] = Append(Front(@), a)]

Goto(t, pc) == Become(t, [Top(t) EXCEPT !.pc = pc])

\* The activity returns, or unwinds to the task it is: a runner is done, the
\* calling task leaves the closure of its scope.
Leave(t) ==
    IF Top(t).role = "caller" THEN Goto(t, "scope")
    ELSE stack' = [stack EXCEPT ![t] = Front(@)]

Activities(f) ==
    UNION {{<<t, i>> : i \in {i \in 1..Len(stack[t]) : stack[t][i].frame = f}} : t \in Threads}

Runners(f) ==
    {x \in Activities(f) : stack[x[1]][x[2]].role = "runner"}

-----------------------------------------------------------------------------
(* ContextPool *)

Expand(p, workers) == [p EXCEPT !.capacity = IF @ >= workers THEN @ ELSE workers]

Take(p) == [p EXCEPT !.free = IF @ > 0 THEN @ - 1 ELSE 0]

GiveBack(p) == [p EXCEPT !.free = IF @ < p.capacity THEN @ + 1 ELSE @]

-----------------------------------------------------------------------------
(* run_jobs *)

\* A frame of n jobs, on rayon if it has several, or one that overlaps
\* blocks.  A runner is broadcast to every thread if there are several.
Call(t, f, n, parallel) ==
    /\ Idle(t) \/ Waiting(t)
    /\ outcome[f] # "running" /\ calls[f] < MaxCalls
    /\ n > 1 => parallel
    /\ outcome' = [outcome EXCEPT ![f] = "running"]
    /\ calls' = [calls EXCEPT ![f] = @ + 1]
    /\ pool' = [pool EXCEPT ![f] = Expand(@, IF parallel THEN Cardinality(Threads) ELSE 1)]
    /\ njobs' = [njobs EXCEPT ![f] = n]
    /\ next' = [next EXCEPT ![f] = 0]
    /\ prepared' = [prepared EXCEPT ![f] = 0]
    /\ slots' = [slots EXCEPT ![f] = 0..(n - 1)]
    /\ queued' = [queued EXCEPT ![f] = IF n > 1 THEN Threads ELSE {}]
    /\ unwound' = [unwound EXCEPT ![f] = FALSE]
    /\ ready' = [ready EXCEPT ![f] = 0]
    /\ outputs' = [outputs EXCEPT ![f] = [k \in 1..n |-> 0]]
    /\ Push(t, [frame |-> f, role |-> "caller", parallel |-> parallel,
                pc |-> "prepare", job |-> 0, saved |-> FALSE])
    /\ UNCHANGED <<inJob, panics>>

\* prepare_all: prepare job k, then release it to the runners.  A serial
\* frame goes straight to its job.
Prepare(t) ==
    LET f == Top(t).frame
    IN  /\ At(t, "prepare") /\ ready[f] < njobs[f]
        /\ ready' = [ready EXCEPT ![f] = @ + 1]
        /\ Goto(t, IF Top(t).parallel THEN "publish" ELSE "start")
        /\ UNCHANGED <<inJob, queued, njobs, next, prepared, slots, pool, outcome,
                       unwound, outputs, calls, panics>>

\* Mutant of PrepareUnwinds: the runners are not told.
PrepareUnwindsQuietly(t) ==
    LET f == Top(t).frame
    IN  /\ At(t, "prepare") /\ ready[f] < njobs[f] /\ panics < MaxPanics
        /\ panics' = panics + 1
        /\ unwound' = [unwound EXCEPT ![f] = TRUE]
        /\ Goto(t, "scope")
        /\ UNCHANGED <<inJob, queued, njobs, next, prepared, slots, pool, outcome,
                       ready, outputs, calls>>

\* prepare unwinds: so does the closure of the scope, once Unwinding has
\* told the runners.
PrepareUnwinds(t) ==
    LET f == Top(t).frame
    IN  /\ At(t, "prepare") /\ ready[f] < njobs[f] /\ panics < MaxPanics
        /\ panics' = panics + 1
        /\ unwound' = [unwound EXCEPT ![f] = TRUE]
        /\ Goto(t, IF Top(t).parallel THEN "publish" ELSE "scope")
        /\ UNCHANGED <<inJob, queued, njobs, next, prepared, slots, pool, outcome,
                       ready, outputs, calls>>

\* The count a publish releases: None when its prepare unwound, which is
\* when the caller is not one job ahead of it.
Published(f) == IF ready[f] = prepared[f] THEN Unwound ELSE ready[f]

PublishSet(t) ==
    LET f == Top(t).frame
    IN  /\ At(t, "publish")
        /\ prepared' = [prepared EXCEPT ![f] = Published(f)]
        /\ Goto(t, "notify")
        /\ UNCHANGED <<inJob, queued, njobs, next, slots, pool, outcome, unwound,
                       ready, outputs, calls, panics>>

\* notify_all wakes the threads waiting on the frame's condition variable.
PublishNotify(t) ==
    LET f == Top(t).frame
        Woken(s) == stack[s] # <<>> /\ Top(s).frame = f /\ Top(s).pc = "wait"
    IN  /\ At(t, "notify")
        /\ stack' = [s \in Threads |->
                        IF s = t THEN [stack[s] EXCEPT ![Len(stack[s])].pc =
                                IF prepared[f] = Unwound THEN "scope"
                                ELSE IF ready[f] < njobs[f] THEN "prepare" ELSE "claim"]
                        ELSE IF Woken(s) THEN [stack[s] EXCEPT ![Len(stack[s])].pc = "check"]
                        ELSE stack[s]]
        /\ UNCHANGED <<inJob, queued, njobs, next, prepared, slots, pool, outcome,
                       unwound, ready, outputs, calls, panics>>

\* rayon hands a thread its queued runner, which starts inside whatever the
\* thread waits in.
TakeRunner(t, f) ==
    /\ Idle(t) \/ Waiting(t)
    /\ t \in queued[f]
    /\ queued' = [queued EXCEPT ![f] = @ \ {t}]
    /\ Push(t, [frame |-> f, role |-> "runner", parallel |-> TRUE, pc |-> "begin",
                job |-> 0, saved |-> FALSE])
    /\ UNCHANGED <<inJob, njobs, next, prepared, slots, pool, outcome, unwound,
                   ready, outputs, calls, panics>>

\* Mutant of Begin: a runner claims jobs wherever it starts.
BeginAnywhere(t) ==
    /\ At(t, "begin")
    /\ Goto(t, "claim")
    /\ UNCHANGED <<inJob, queued, njobs, next, prepared, slots, pool, outcome,
                   unwound, ready, outputs, calls, panics>>

\* A runner that starts inside a job claims nothing.
Begin(t) ==
    /\ At(t, "begin")
    /\ IF inJob[t] THEN Leave(t) ELSE Goto(t, "claim")
    /\ UNCHANGED <<inJob, queued, njobs, next, prepared, slots, pool, outcome,
                   unwound, ready, outputs, calls, panics>>

-----------------------------------------------------------------------------
(* JobQueue::run *)

Claim(t) ==
    LET f == Top(t).frame
    IN  /\ At(t, "claim")
        /\ next' = [next EXCEPT ![f] = @ + 1]
        /\ IF next[f] < njobs[f]
           THEN Become(t, [Top(t) EXCEPT !.pc = "check", !.job = next[f]])
           ELSE Leave(t)
        /\ UNCHANGED <<inJob, queued, njobs, prepared, slots, pool, outcome, unwound,
                       ready, outputs, calls, panics>>

\* Mutant of Check: a job runs when the one before it is prepared.
CheckOneEarly(t) ==
    LET p == prepared[Top(t).frame]
    IN  /\ At(t, "check")
        /\ IF p = Unwound THEN Leave(t)
           ELSE Goto(t, IF p >= Top(t).job THEN "start" ELSE "wait")
        /\ UNCHANGED <<inJob, queued, njobs, next, prepared, slots, pool, outcome,
                       unwound, ready, outputs, calls, panics>>

\* Under the lock: go on, give up, or wait for the next publish.
Check(t) ==
    LET p == prepared[Top(t).frame]
    IN  /\ At(t, "check")
        /\ IF p = Unwound THEN Leave(t)
           ELSE Goto(t, IF p > Top(t).job THEN "start" ELSE "wait")
        /\ UNCHANGED <<inJob, queued, njobs, next, prepared, slots, pool, outcome,
                       unwound, ready, outputs, calls, panics>>

\* Take the slot and a context and enter the job.  Serial jobs do not mark
\* their thread.
StartJob(t) ==
    LET a == Top(t)
    IN  /\ At(t, "start")
        /\ slots' = [slots EXCEPT ![a.frame] = @ \ {a.job}]
        /\ pool' = [pool EXCEPT ![a.frame] = Take(@)]
        /\ inJob' = [inJob EXCEPT ![t] = @ \/ a.parallel]
        /\ Become(t, [a EXCEPT !.pc = "job", !.saved = inJob[t]])
        /\ UNCHANGED <<queued, njobs, next, prepared, outcome, unwound, ready,
                       outputs, calls, panics>>

FinishJob(t) ==
    LET a == Top(t)
    IN  /\ At(t, "job")
        /\ outputs' = [outputs EXCEPT ![a.frame][a.job + 1] = @ + 1]
        /\ pool' = [pool EXCEPT ![a.frame] = GiveBack(@)]
        /\ inJob' = [inJob EXCEPT ![t] = a.saved]
        /\ Goto(t, IF a.parallel THEN "claim" ELSE "scope")
        /\ UNCHANGED <<queued, njobs, next, prepared, slots, outcome, unwound,
                       ready, calls, panics>>

\* The context is dropped, and the scope keeps the panic.
JobUnwinds(t) ==
    LET a == Top(t)
    IN  /\ At(t, "job") /\ panics < MaxPanics
        /\ panics' = panics + 1
        /\ unwound' = [unwound EXCEPT ![a.frame] = TRUE]
        /\ inJob' = [inJob EXCEPT ![t] = a.saved]
        /\ Leave(t)
        /\ UNCHANGED <<queued, njobs, next, prepared, slots, pool, outcome, ready,
                       outputs, calls>>

\* Mutant of Return: the scope does not wait for runners that started.
ReturnEarly(t) ==
    LET f == Top(t).frame
    IN  /\ At(t, "scope") /\ queued[f] = {}
        /\ outcome' = [outcome EXCEPT ![f] = IF unwound[f] THEN "panic" ELSE "ok"]
        /\ stack' = [stack EXCEPT ![t] = Front(@)]
        /\ UNCHANGED <<inJob, queued, njobs, next, prepared, slots, pool, unwound,
                       ready, outputs, calls, panics>>

\* The scope ends when its runners have: the call returns, or resumes a
\* panic of any of them.
Return(t) ==
    LET f == Top(t).frame
    IN  /\ At(t, "scope")
        /\ queued[f] = {} /\ Runners(f) = {}
        /\ outcome' = [outcome EXCEPT ![f] = IF unwound[f] THEN "panic" ELSE "ok"]
        /\ stack' = [stack EXCEPT ![t] = Front(@)]
        /\ UNCHANGED <<inJob, queued, njobs, next, prepared, slots, pool, unwound,
                       ready, outputs, calls, panics>>

-----------------------------------------------------------------------------

ThreadStep(t) ==
    \/ Prepare(t) \/ PrepareUnwinds(t) \/ PublishSet(t) \/ PublishNotify(t)
    \/ \E f \in Frames : TakeRunner(t, f)
    \/ Begin(t) \/ Claim(t) \/ Check(t)
    \/ StartJob(t) \/ FinishJob(t) \/ JobUnwinds(t) \/ Return(t)

Next ==
    \E t \in Threads :
        \/ \E f \in Frames, n \in JobCounts, parallel \in BOOLEAN : Call(t, f, n, parallel)
        \/ ThreadStep(t)

Spec == Init /\ [][Next]_vars

(* A thread that can go on does: it runs what rayon queued for it when it  *)
(* idles or waits, and jobs and prepares end.                              *)
FairSpec == Spec /\ \A t \in Threads : WF_vars(ThreadStep(t))

-----------------------------------------------------------------------------
(* Correctness *)

Running(f, t) == {i \in 1..Len(stack[t]) : stack[t][i].frame = f /\ stack[t][i].pc = "job"}

InUse(f) == {a \in Activities(f) : stack[a[1]][a[2]].pc = "job"}

(* "A thread thus runs one of the frame's jobs at a time": also one that   *)
(* waits in a job and is handed a runner of the frame, or the frame's      *)
(* caller itself.  IN_JOB, which this rests on, says whether the thread is *)
(* inside a job through nesting and unwinding.                             *)
OneJobPerThread ==
    \A t \in Threads :
        /\ \A f \in Frames : Cardinality(Running(f, t)) <= 1
        /\ inJob[t] <=> \E i \in 1..Len(stack[t]) :
                           stack[t][i].pc = "job" /\ stack[t][i].parallel

Contexts(f) == pool[f].free + Cardinality(InUse(f))

(* "the frame holds at most one context per worker thread", "and the pool  *)
(* keeps no more than that across frames"; nor is a context thrown away:   *)
(* they only become fewer when a job unwinds.                              *)
ContextsBounded ==
    [][\A f \in Frames :
        /\ Contexts(f)' <= Cardinality(Threads)
        /\ Contexts(f)' < Contexts(f) => panics' > panics]_vars

(* A job starts once, with its slot still there ("job claimed twice") and  *)
(* after its own prepare, whichever runner claims it and whenever.         *)
ClaimedJobIsReady ==
    \A t \in Threads : At(t, "start") =>
        /\ Top(t).job \in slots[Top(t).frame]
        /\ Top(t).job < ready[Top(t).frame]

(* The call returns with every job's output written once, or resumes the   *)
(* panic of a prepare or a job; and no thread is still in its queue, which *)
(* lives on the caller's stack.                                            *)
CallComplete ==
    \A f \in Frames : outcome[f] \in {"ok", "panic"} =>
        /\ Activities(f) = {} /\ queued[f] = {}
        /\ outcome[f] = "ok" => \A k \in 1..njobs[f] : outputs[f][k] = 1
        /\ outcome[f] = "panic" => \E k \in 1..njobs[f] : outputs[f][k] = 0

(* Every call returns: no runner waits for a job nobody will prepare, and  *)
(* no two frames wait for each other's threads.                            *)
CallsReturn ==
    \A f \in Frames : outcome[f] = "running" ~> outcome[f] # "running"
=============================================================================
