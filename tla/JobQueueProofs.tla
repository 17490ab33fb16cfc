--------------------------- MODULE JobQueueProofs ---------------------------
(***************************************************************************)
(* Proofs about JobQueue, for any number of threads, Compressors, jobs and *)
(* calls.                                                                  *)
(*                                                                         *)
(* The stacks are read as one function, act, from the places of the stacks *)
(* to the activities there: a step replaces, adds or removes the top of    *)
(* one stack, or wakes what waits.  The inductive invariant IndInv has two *)
(* halves: StackInv, how activities lie on the stacks and exclude each     *)
(* other, and FrameInv, what the counters of a frame account for and what  *)
(* its activities may rely on.                                             *)
(***************************************************************************)
EXTENDS JobQueue, FiniteSetTheorems, SequenceTheorems, TLAPS

Acts == UNION {{<<t, i>> : i \in 1..Len(stack[t])} : t \in Threads}

act == [x \in Acts |-> stack[x[1]][x[2]]]

TopOf(t) == <<t, Len(stack[t])>>

Lower(y, x) == y[1] = x[1] /\ y[2] < x[2]

Holding(a) == a.pc \in {"check", "wait", "start", "job"}

\* In a job that marks its thread.
Marking(a) == a.pc = "job" /\ a.parallel

TypeOK ==
    /\ stack \in [Threads -> Seq(Activity)]
    /\ inJob \in [Threads -> BOOLEAN]
    /\ queued \in [Frames -> SUBSET Threads]
    /\ njobs \in [Frames -> Nat] /\ next \in [Frames -> Nat] /\ ready \in [Frames -> Nat]
    /\ prepared \in [Frames -> Int]
    /\ slots \in [Frames -> SUBSET Nat]
    /\ pool \in [Frames -> [free: Nat, capacity: Nat]]
    /\ outcome \in [Frames -> {"none", "running", "ok", "panic"}]
    /\ unwound \in [Frames -> BOOLEAN]
    /\ \A f \in Frames : outputs[f] \in [1..njobs[f] -> Nat]
    /\ outputs = [f \in Frames |-> outputs[f]]
    /\ calls \in [Frames -> Nat] /\ panics \in Nat

-----------------------------------------------------------------------------
(* How activities lie on the stacks *)

(* Which program counters an activity may have.                            *)
RoleOK(a) ==
    /\ a.role = "runner" =>
          a.parallel /\ (Holding(a) \/ a.pc \in {"begin", "claim"})
    /\ a.role = "caller" => a.pc # "begin"
    /\ ~a.parallel => a.pc \in {"prepare", "start", "job", "scope"}

(* Activities of a frame that exclude each other.                          *)
Apart(x, y) ==
    act[x].frame = act[y].frame =>
        /\ act[x].role = "caller" /\ act[y].role = "caller" => x = y
        /\ ~act[x].parallel => x = y
        /\ Holding(act[x]) /\ Holding(act[y]) /\ act[x].job = act[y].job => x = y

(* What lies below the top of a stack waits, a frame's caller lies below   *)
(* its runners, a runner that claims lies on no job, and a job knows       *)
(* whether it lies on one.                                                 *)
Stacked(x) ==
    /\ x[2] # Len(stack[x[1]]) => act[x].pc = "scope" \/ Marking(act[x])
    /\ \A y \in Acts : Lower(y, x) =>
          /\ act[x].role = "caller" => act[y].frame # act[x].frame
          /\ act[x].role = "runner" /\ act[x].pc # "begin" => ~Marking(act[y])
    /\ act[x].pc = "job" =>
          (act[x].saved <=> \E y \in Acts : Lower(y, x) /\ Marking(act[y]))

Marked(t) == inJob[t] <=> \E y \in Acts : y[1] = t /\ Marking(act[y])

StackInv ==
    /\ \A x \in Acts : RoleOK(act[x]) /\ Stacked(x)
    /\ \A x, y \in Acts : Apart(x, y)
    /\ \A t \in Threads : Marked(t)

-----------------------------------------------------------------------------
(* What the counters of a frame account for *)

(* The caller of a parallel frame: how far it has prepared.                *)
CallerKnows(a, f) ==
    \/ a.pc = "prepare" /\ prepared[f] = ready[f] /\ ready[f] < njobs[f]
    \/ /\ a.pc = "publish"
       /\ \/ ready[f] = prepared[f] + 1
          \/ ready[f] = prepared[f] /\ ready[f] < njobs[f] /\ unwound[f]
    \/ /\ a.pc = "notify"
       /\ \/ prepared[f] = ready[f]
          \/ prepared[f] = Unwound /\ ready[f] < njobs[f] /\ unwound[f]
    \/ (a.pc = "claim" \/ Holding(a)) /\ ready[f] = njobs[f]
    \/ a.pc = "scope" /\ (unwound[f] \/ next[f] >= njobs[f])

(* The caller of a serial frame, which has one job.                        *)
SerialKnows(a, f) ==
    /\ njobs[f] = 1 /\ a.job = 0 /\ queued[f] = {}
    /\ \/ a.pc = "prepare" /\ ready[f] = 0 /\ slots[f] = {0}
       \/ a.pc = "start" /\ ready[f] = 1 /\ slots[f] = {0}
       \/ a.pc = "job" /\ ready[f] = 1 /\ slots[f] = {}
       \/ a.pc = "scope" /\ (unwound[f] \/ outputs[f][1] = 1)

(* The unclaimed jobs of a parallel frame have their slots, and its pool   *)
(* has room for a context per thread.                                      *)
Shared(f) ==
    /\ \A k \in 0..(njobs[f] - 1) : k >= next[f] => k \in slots[f]
    /\ pool[f].capacity = Cardinality(Threads)

(* The job an activity holds is its own: claimed, its slot there until it  *)
(* starts, prepared when it does, not written while it runs.               *)
HoldsJob(a, f) ==
    /\ Holding(a) => a.job < njobs[f] /\ (a.parallel => a.job < next[f])
    /\ a.pc \in {"check", "wait", "start"} => a.job \in slots[f]
    /\ a.pc \in {"start", "job"} => a.job < ready[f]
    /\ a.pc = "job" => a.job \notin slots[f] /\ outputs[f][a.job + 1] = 0

(* What the activity at x may rely on.                                     *)
Knows(x, f) ==
    /\ outcome[f] = "running"
    /\ pool[f].capacity >= 1
    /\ act[x].parallel => Shared(f)
    /\ ~act[x].parallel => SerialKnows(act[x], f)
    /\ act[x].role = "caller" /\ act[x].parallel => CallerKnows(act[x], f)
    /\ HoldsJob(act[x], f)

(* The caller prepares nothing any more.                                   *)
Stopped(f) ==
    \A x \in Acts :
        act[x].frame = f /\ act[x].role = "caller" =>
            \/ act[x].pc = "scope"
            \/ act[x].pc = "publish" /\ ready[f] = prepared[f]
            \/ act[x].pc = "notify" /\ prepared[f] = Unwound

(* A job that nobody will run: it unwound, or its prepare did.             *)
Dead(f, k) ==
    /\ outputs[f][k + 1] = 0
    /\ \/ /\ k \notin slots[f]
          /\ \A x \in Acts : ~(act[x].frame = f /\ act[x].pc = "job" /\ act[x].job = k)
       \/ k >= ready[f] /\ Stopped(f)

Counters(f) ==
    /\ -1 <= prepared[f] /\ prepared[f] <= ready[f] /\ ready[f] <= njobs[f]
    /\ prepared[f] = Unwound => unwound[f]
    /\ slots[f] \subseteq 0..(njobs[f] - 1)
    /\ \A k \in slots[f] : outputs[f][k + 1] = 0
    /\ \A k \in 0..(njobs[f] - 1) :
          /\ outputs[f][k + 1] \in {0, 1}
          /\ outputs[f][k + 1] = 1 => k < ready[f]
    /\ pool[f].capacity <= Cardinality(Threads)
    /\ queued[f] # {} => outcome[f] = "running" /\ Shared(f)
    /\ outcome[f] = "ok" => \A k \in 0..(njobs[f] - 1) : outputs[f][k + 1] = 1
    /\ outcome[f] = "panic" => unwound[f]

(* A claimed job is written, held, or lost to an unwinding.                *)
Accounted(f) ==
    ~unwound[f] => \A k \in 0..(njobs[f] - 1) :
        k < next[f] /\ outputs[f][k + 1] = 0 =>
            \E x \in Acts : act[x].frame = f /\ Holding(act[x]) /\ act[x].job = k

(* An unwinding costs a job.                                               *)
Costs(f) == unwound[f] => \E k \in 0..(njobs[f] - 1) : Dead(f, k)

FrameInv(f) ==
    /\ \A x \in Acts : act[x].frame = f => Knows(x, f)
    /\ Counters(f) /\ Accounted(f) /\ Costs(f)

IndInv == TypeOK /\ StackInv /\ \A f \in Frames : FrameInv(f)

-----------------------------------------------------------------------------
(* Steps of a stack *)

(* The places of the stacks.                                               *)
LEMMA Places ==
    ASSUME TypeOK
    PROVE  /\ act \in [Acts -> Activity]
           /\ \A x \in Acts : /\ x = <<x[1], x[2]>> /\ x[1] \in Threads /\ x[2] \in Nat
                              /\ 1 <= x[2] /\ x[2] <= Len(stack[x[1]])
           /\ \A t \in Threads : \A i \in 1..Len(stack[t]) :
                 <<t, i>> \in Acts /\ act[<<t, i>>] = stack[t][i]
           /\ \A t \in Threads : /\ Len(stack[t]) \in Nat /\ <<t, Len(stack[t]) + 1>> \notin Acts
                                 /\ Idle(t) <=> Len(stack[t]) = 0
           /\ \A t \in Threads : ~Idle(t) => TopOf(t) \in Acts /\ act[TopOf(t)] = Top(t)
                                                /\ Top(t) \in Activity
<1>1. \A t \in Threads : stack[t] \in Seq(Activity)
  BY DEF TypeOK
<1>2. \A t \in Threads : Len(stack[t]) \in Nat /\ (Idle(t) <=> Len(stack[t]) = 0)
  BY <1>1 DEF Idle
<1>3. \A t \in Threads : \A i \in 1..Len(stack[t]) : stack[t][i] \in Activity
  BY <1>1
<1>4. \A x : x \in Acts <=> \E t \in Threads : \E i \in 1..Len(stack[t]) : x = <<t, i>>
  BY DEF Acts
<1>5. \A x \in Acts : /\ x = <<x[1], x[2]>> /\ x[1] \in Threads /\ x[2] \in Nat
                      /\ 1 <= x[2] /\ x[2] <= Len(stack[x[1]])
  BY <1>2, <1>4
<1>6. act \in [Acts -> Activity]
  BY <1>2, <1>3, <1>5 DEF act
<1>7. \A t \in Threads : \A i \in 1..Len(stack[t]) :
         <<t, i>> \in Acts /\ act[<<t, i>>] = stack[t][i]
  BY <1>4 DEF act
<1>8. \A t \in Threads : <<t, Len(stack[t]) + 1>> \notin Acts
  BY <1>2, <1>5
<1>9. ASSUME NEW t \in Threads, ~Idle(t)
      PROVE  TopOf(t) \in Acts /\ act[TopOf(t)] = Top(t) /\ Top(t) \in Activity
  <2>1. Len(stack[t]) \in 1..Len(stack[t])
    BY <1>2, <1>9
  <2> QED
    BY <2>1, <1>3, <1>7 DEF TopOf, Top, Last
<1> QED
  BY <1>2, <1>5, <1>6, <1>7, <1>8, <1>9

(* All but the last of a sequence.                                         *)
LEMMA FrontFacts ==
    ASSUME NEW S, NEW q \in Seq(S), Len(q) >= 1
    PROVE  /\ Front(q) \in Seq(S) /\ Len(Front(q)) = Len(q) - 1
           /\ \A i \in 1..(Len(q) - 1) : Front(q)[i] = q[i]
<1>1. Len(q) \in Nat /\ \A i \in 1..(Len(q) - 1) : q[i] \in S
  BY LenProperties
<1> DEFINE n == Len(q) - 1
<1>2. n \in Int /\ n >= 0
  BY <1>1
<1>3. \A i \in 1..n : q[i] \in S
  BY <1>1
<1> HIDE DEF n
<1>4. /\ SubSeq(q, 1, n) \in Seq(S)
      /\ Len(SubSeq(q, 1, n)) = IF 1 <= n THEN n - 1 + 1 ELSE 0
      /\ \A i \in 1..(n - 1 + 1) : SubSeq(q, 1, n)[i] = q[1 + i - 1]
  BY <1>2, <1>3, SubSeqProperties
<1>5. Len(SubSeq(q, 1, n)) = n /\ \A i \in 1..n : SubSeq(q, 1, n)[i] = q[i]
  <2>1. n - 1 + 1 = n
    BY <1>2
  <2>2. \A i \in 1..n : 1 + i - 1 = i
    OBVIOUS
  <2> QED
    BY <2>1, <2>2, <1>2, <1>4
<1> QED
  BY <1>4, <1>5 DEF Front, n

(* Replacing the top of a stack.                                           *)
LEMMA BecomeActs ==
    ASSUME TypeOK, NEW t \in Threads, ~Idle(t), NEW a \in Activity, Become(t, a)
    PROVE  /\ stack' \in [Threads -> Seq(Activity)]
           /\ Acts' = Acts /\ act' = [act EXCEPT ![TopOf(t)] = a]
           /\ \A s \in Threads : Len(stack'[s]) = Len(stack[s])
<1> DEFINE s1 == Append(Front(stack[t]), a)
           n == Len(stack[t])
<1>1. stack \in [Threads -> Seq(Activity)] /\ stack[t] \in Seq(Activity) /\ n \in Nat /\ n >= 1
  BY DEF TypeOK, Idle
<1>2. s1 \in Seq(Activity) /\ Len(s1) = n /\ s1[n] = a /\ \A i \in 1..(n - 1) : s1[i] = stack[t][i]
  <2>1. Front(stack[t]) \in Seq(Activity) /\ Len(Front(stack[t])) = n - 1
        /\ \A i \in 1..(n - 1) : Front(stack[t])[i] = stack[t][i]
    BY <1>1, FrontFacts
  <2> QED
    BY <2>1, <1>1
<1>3. stack' = [stack EXCEPT ![t] = s1]
  BY DEF Become
<1> HIDE DEF s1
<1>4. stack' \in [Threads -> Seq(Activity)] /\ \A s \in Threads : Len(stack'[s]) = Len(stack[s])
  BY <1>1, <1>2, <1>3
<1>5. Acts' = Acts
  BY <1>4 DEF Acts
<1>6. \A x \in Acts : stack'[x[1]][x[2]] = IF x = TopOf(t) THEN a ELSE stack[x[1]][x[2]]
  <2> TAKE x \in Acts
  <2>1. x = <<x[1], x[2]>> /\ x[1] \in Threads /\ x[2] \in 1..Len(stack[x[1]])
    BY Places
  <2>2. CASE x[1] = t
    BY <2>1, <2>2, <1>1, <1>2, <1>3 DEF TopOf
  <2>3. CASE x[1] # t
    BY <2>1, <2>3, <1>1, <1>3 DEF TopOf
  <2> QED
    BY <2>2, <2>3
<1>7. act' = [x \in Acts |-> stack'[x[1]][x[2]]]
  BY <1>5 DEF act
<1>8. act' = [act EXCEPT ![TopOf(t)] = a]
  BY <1>6, <1>7 DEF act
<1> QED
  BY <1>4, <1>5, <1>8

(* Adding an activity on top of a stack.                                   *)
LEMMA PushActs ==
    ASSUME TypeOK, NEW t \in Threads, NEW a \in Activity, Push(t, a)
    PROVE  LET new == <<t, Len(stack[t]) + 1>>
           IN  /\ stack' \in [Threads -> Seq(Activity)]
               /\ Acts' = Acts \cup {new} /\ new \notin Acts
               /\ act' = [x \in Acts \cup {new} |-> IF x = new THEN a ELSE act[x]]
               /\ \A s \in Threads :
                     Len(stack'[s]) = IF s = t THEN Len(stack[s]) + 1 ELSE Len(stack[s])
<1> DEFINE s1 == Append(stack[t], a)
           n == Len(stack[t])
           new == <<t, n + 1>>
<1>1. stack \in [Threads -> Seq(Activity)] /\ stack[t] \in Seq(Activity) /\ n \in Nat
  BY DEF TypeOK
<1>2. /\ s1 \in Seq(Activity) /\ Len(s1) = n + 1 /\ s1[n + 1] = a
      /\ \A i \in 1..n : s1[i] = stack[t][i]
  BY <1>1
<1>3. stack' = [stack EXCEPT ![t] = s1]
  BY DEF Push
<1> HIDE DEF s1
<1>4. /\ stack' \in [Threads -> Seq(Activity)]
      /\ \A s \in Threads : Len(stack'[s]) = IF s = t THEN Len(stack[s]) + 1 ELSE Len(stack[s])
  BY <1>1, <1>2, <1>3
<1>5. \A s \in Threads : Len(stack[s]) \in Nat
  BY <1>1
<1>6. Acts' = Acts \cup {new}
  <2>1. \A x : x \in Acts <=> \E s \in Threads : \E i \in 1..Len(stack[s]) : x = <<s, i>>
    BY DEF Acts
  <2>2. \A x : x \in Acts' <=> \E s \in Threads : \E i \in 1..Len(stack'[s]) : x = <<s, i>>
    BY DEF Acts
  <2>3. \A s \in Threads : \A i : i \in 1..Len(stack'[s])
           <=> i \in 1..Len(stack[s]) \/ (s = t /\ i = n + 1)
    BY <1>4, <1>5
  <2> QED
    BY <2>1, <2>2, <2>3
<1>7. new \notin Acts
  BY Places
<1>8. \A x \in Acts \cup {new} : stack'[x[1]][x[2]] = IF x = new THEN a ELSE act[x]
  <2> TAKE x \in Acts \cup {new}
  <2>1. CASE x = new
    BY <2>1, <1>1, <1>2, <1>3
  <2>2. CASE x # new
    <3>1. /\ x \in Acts /\ x = <<x[1], x[2]>> /\ x[1] \in Threads /\ x[2] \in 1..Len(stack[x[1]])
          /\ act[x] = stack[x[1]][x[2]]
      BY <2>2, Places DEF act
    <3> QED
      BY <3>1, <2>2, <1>1, <1>2, <1>3
  <2> QED
    BY <2>1, <2>2
<1>9. act' = [x \in Acts \cup {new} |-> stack'[x[1]][x[2]]]
  BY <1>6 DEF act
<1>10. act' = [x \in Acts \cup {new} |-> IF x = new THEN a ELSE act[x]]
  BY <1>8, <1>9
<1> QED
  BY <1>4, <1>6, <1>7, <1>10

(* Removing the top of a stack.                                            *)
LEMMA PopActs ==
    ASSUME TypeOK, NEW t \in Threads, ~Idle(t), stack' = [stack EXCEPT ![t] = Front(@)]
    PROVE  /\ stack' \in [Threads -> Seq(Activity)]
           /\ Acts' = Acts \ {TopOf(t)}
           /\ act' = [x \in Acts \ {TopOf(t)} |-> act[x]]
           /\ \A s \in Threads :
                 Len(stack'[s]) = IF s = t THEN Len(stack[s]) - 1 ELSE Len(stack[s])
<1> DEFINE s1 == Front(stack[t])
           n == Len(stack[t])
<1>1. stack \in [Threads -> Seq(Activity)] /\ stack[t] \in Seq(Activity) /\ n \in Nat /\ n >= 1
  BY DEF TypeOK, Idle
<1>2. s1 \in Seq(Activity) /\ Len(s1) = n - 1 /\ \A i \in 1..(n - 1) : s1[i] = stack[t][i]
  BY <1>1, FrontFacts
<1>3. stack' = [stack EXCEPT ![t] = s1]
  OBVIOUS
<1> HIDE DEF s1
<1>4. /\ stack' \in [Threads -> Seq(Activity)]
      /\ \A s \in Threads : Len(stack'[s]) = IF s = t THEN Len(stack[s]) - 1 ELSE Len(stack[s])
  BY <1>1, <1>2, <1>3
<1>5. \A s \in Threads : Len(stack[s]) \in Nat
  BY <1>1
<1>6. Acts' = Acts \ {TopOf(t)}
  <2>1. \A x : x \in Acts <=> \E s \in Threads : \E i \in 1..Len(stack[s]) : x = <<s, i>>
    BY DEF Acts
  <2>2. \A x : x \in Acts' <=> \E s \in Threads : \E i \in 1..Len(stack'[s]) : x = <<s, i>>
    BY DEF Acts
  <2>3. \A s \in Threads : \A i : i \in 1..Len(stack'[s])
           <=> i \in 1..Len(stack[s]) /\ ~(s = t /\ i = n)
    BY <1>1, <1>4, <1>5
  <2>4. \A s, i : <<s, i>> = TopOf(t) <=> s = t /\ i = n
    BY DEF TopOf
  <2>5. \A x : x \in Acts' <=> x \in Acts /\ x # TopOf(t)
    <3> TAKE x
    <3>1. ASSUME x \in Acts' PROVE x \in Acts /\ x # TopOf(t)
      <4>1. PICK s \in Threads : \E i \in 1..Len(stack'[s]) : x = <<s, i>>
        BY <3>1, <2>2
      <4>2. PICK i \in 1..Len(stack'[s]) : x = <<s, i>>
        BY <4>1
      <4> QED
        BY <4>2, <2>1, <2>3, <2>4
    <3>2. ASSUME x \in Acts, x # TopOf(t) PROVE x \in Acts'
      <4>1. PICK s \in Threads : \E i \in 1..Len(stack[s]) : x = <<s, i>>
        BY <3>2, <2>1
      <4>2. PICK i \in 1..Len(stack[s]) : x = <<s, i>>
        BY <4>1
      <4>3. i \in 1..Len(stack'[s])
        BY <4>2, <3>2, <2>3, <2>4
      <4> QED
        BY <4>2, <4>3, <2>2
    <3> QED
      BY <3>1, <3>2
  <2> QED
    BY <2>5
<1>7. \A x \in Acts \ {TopOf(t)} : stack'[x[1]][x[2]] = act[x]
  <2> TAKE x \in Acts \ {TopOf(t)}
  <2>1. /\ x = <<x[1], x[2]>> /\ x[1] \in Threads /\ x[2] \in 1..Len(stack[x[1]])
        /\ act[x] = stack[x[1]][x[2]] /\ ~(x[1] = t /\ x[2] = n)
    BY Places DEF act, TopOf
  <2> QED
    BY <2>1, <1>1, <1>2, <1>3
<1>8. act' = [x \in Acts \ {TopOf(t)} |-> stack'[x[1]][x[2]]]
  BY <1>6 DEF act
<1>9. act' = [x \in Acts \ {TopOf(t)} |-> act[x]]
  BY <1>7, <1>8
<1> QED
  BY <1>4, <1>6, <1>9

(* The top of a stack lies above the rest of it.                           *)
LEMMA TopIsHighest ==
    ASSUME TypeOK, NEW t \in Threads, ~Idle(t)
    PROVE  /\ TopOf(t) \in Acts /\ TopOf(t)[1] = t /\ TopOf(t)[2] = Len(stack[t])
           /\ \A y \in Acts : y[1] = t /\ y # TopOf(t) => Lower(y, TopOf(t))
           /\ \A x, y \in Acts : Lower(y, x) => y # TopOf(t)
           /\ \A y \in Acts : Lower(y, TopOf(t)) => y[1] = t /\ y # TopOf(t)
<1>1. TopOf(t) \in Acts /\ TopOf(t)[1] = t /\ TopOf(t)[2] = Len(stack[t]) /\ Len(stack[t]) \in Nat
  BY Places DEF TopOf
<1>2. \A y \in Acts : /\ y[2] \in Nat /\ y[1] \in Threads /\ y[2] <= Len(stack[y[1]])
                      /\ y = <<y[1], y[2]>> /\ Len(stack[y[1]]) \in Nat
  BY Places
<1>3. \A y \in Acts : y[1] = t /\ y # TopOf(t) => y[2] # Len(stack[t])
  BY <1>2 DEF TopOf
<1>4. \A y \in Acts : y[1] = t /\ y # TopOf(t) => Lower(y, TopOf(t))
  BY <1>1, <1>2, <1>3 DEF Lower
<1>5. \A x, y \in Acts : Lower(y, x) => y # TopOf(t)
  BY <1>1, <1>2 DEF Lower
<1> QED
  BY <1>1, <1>4, <1>5 DEF Lower

(* The top of a stack goes on to a: it may go on to hold a job nobody else *)
(* holds, to claim if its thread is in no job, into a job and out of it.   *)
LEMMA BecomeStack ==
    ASSUME TypeOK, StackInv, NEW t \in Threads, ~Idle(t), NEW a \in Activity, Become(t, a),
           a.frame = Top(t).frame, a.role = Top(t).role, a.parallel = Top(t).parallel,
           RoleOK(a),
           Holding(a) /\ a.parallel =>
              \/ Holding(Top(t)) /\ a.job = Top(t).job
              \/ \A y \in Acts : act[y].frame = a.frame /\ Holding(act[y]) => act[y].job # a.job,
           a.role = "runner" /\ a.pc # "begin" => Top(t).pc # "begin" \/ ~inJob[t],
           a.pc = "job" => Top(t).pc # "job" /\ a.saved = inJob[t],
           inJob' = [inJob EXCEPT ![t] = IF a.pc = "job" THEN @ \/ a.parallel
                                         ELSE IF Top(t).pc = "job" THEN Top(t).saved ELSE @]
    PROVE  StackInv'
<1> DEFINE x0 == TopOf(t)
           b == act[x0]
<1>1. /\ x0 \in Acts /\ b = Top(t) /\ Acts' = Acts /\ act' = [act EXCEPT ![x0] = a]
      /\ act \in [Acts -> Activity] /\ b \in Activity
      /\ \A s \in Threads : Len(stack'[s]) = Len(stack[s])
  BY Places, BecomeActs
<1>2. /\ x0[1] = t /\ x0[2] = Len(stack[t])
      /\ \A y \in Acts : y[1] = t /\ y # x0 => Lower(y, x0)
      /\ \A x, y \in Acts : Lower(y, x) => y # x0
      /\ \A y \in Acts : Lower(y, x0) => y[1] = t
      /\ \A x \in Acts : x[1] \in Threads
  BY TopIsHighest, Places
<1>3. act'[x0] = a /\ \A y \in Acts : y # x0 => act'[y] = act[y]
  BY <1>1
<1>4. /\ RoleOK(b) /\ Stacked(x0) /\ inJob \in [Threads -> BOOLEAN]
      /\ inJob[t] <=> \E y \in Acts : y[1] = t /\ Marking(act[y])
  BY <1>1 DEF StackInv, Marked, TypeOK
<1> HIDE DEF x0, b
<1>5. \A x \in Acts : RoleOK(act'[x])
  BY <1>1, <1>3 DEF StackInv
<1>6. ASSUME NEW x \in Acts PROVE Stacked(x)'
  <2>1. CASE x # x0
    <3>1. Stacked(x) /\ x[1] \in Threads
      BY <1>2 DEF StackInv
    <3>2. act'[x] = act[x] /\ \A y \in Acts : Lower(y, x) => act'[y] = act[y]
      BY <2>1, <1>2, <1>3
    <3>3. Len(stack'[x[1]]) = Len(stack[x[1]])
      BY <3>1, <1>1
    <3> QED
      BY <3>1, <3>2, <3>3, <1>1 DEF Stacked, Lower
  <2>2. CASE x = x0
    <3>1. \A y \in Acts : Lower(y, x) => act'[y] = act[y] /\ y[1] = t /\ y # x0
      BY <2>2, <1>2, <1>3
    <3>2. act'[x] = a /\ x[2] = Len(stack'[x[1]])
      BY <2>2, <1>1, <1>2, <1>3
    <3>3. \A y \in Acts : Lower(y, x) => (a.role = "caller" => act[y].frame # a.frame)
      BY <2>2, <1>1, <1>4 DEF Stacked, b
    <3>4. ASSUME NEW y \in Acts, Lower(y, x), a.role = "runner", a.pc # "begin"
          PROVE  ~Marking(act[y])
      <4>1. CASE b.pc # "begin"
        BY <4>1, <3>4, <2>2, <1>1, <1>4 DEF Stacked, b
      <4>2. CASE ~inJob[t]
        BY <4>2, <3>1, <3>4, <1>4
      <4> QED
        BY <4>1, <4>2, <3>4, <1>1
    <3>5. ASSUME a.pc = "job"
          PROVE  a.saved <=> \E y \in Acts : Lower(y, x) /\ Marking(act[y])
      <4>1. ~Marking(b) /\ a.saved = inJob[t]
        BY <3>5, <1>1 DEF Marking
      <4>2. \A y \in Acts : y[1] = t /\ Marking(act[y]) <=> Lower(y, x) /\ Marking(act[y])
        BY <4>1, <3>1, <2>2, <1>2 DEF b
      <4> QED
        BY <4>1, <4>2, <1>4
    <3> QED
      BY <3>1, <3>2, <3>3, <3>4, <3>5, <1>1 DEF Stacked, Lower
  <2> QED
    BY <2>1, <2>2
<1>7. ASSUME NEW x \in Acts, NEW y \in Acts PROVE Apart(x, y)'
  <2>1. Apart(x, y) /\ Apart(x, x0) /\ Apart(x0, x) /\ Apart(x0, y)
    BY <1>1 DEF StackInv
  <2>2. CASE x = x0 /\ y = x0
    BY <2>2 DEF Apart
  <2>3. CASE x # x0 /\ y # x0
    BY <2>1, <2>3, <1>3 DEF Apart
  <2>4. CASE x = x0 /\ y # x0
    BY <2>1, <2>4, <1>1, <1>3 DEF Apart, b
  <2>5. CASE x # x0 /\ y = x0
    BY <2>1, <2>5, <1>1, <1>3 DEF Apart, b
  <2> QED
    BY <2>2, <2>3, <2>4, <2>5
<1>8. ASSUME NEW s \in Threads PROVE Marked(s)'
  <2>1. CASE s # t
    <3>1. inJob'[s] = inJob[s] /\ Marked(s)
      BY <2>1, <1>4 DEF StackInv
    <3>2. \A y \in Acts : y[1] = s => act'[y] = act[y]
      BY <2>1, <1>2, <1>3
    <3> QED
      BY <3>1, <3>2, <1>1 DEF Marked
  <2>2. CASE s = t /\ a.pc = "job"
    <3>1. inJob'[t] = (inJob[t] \/ a.parallel) /\ ~Marking(b)
      BY <2>2, <1>1, <1>4 DEF Marking
    <3>2. Marking(a) <=> a.parallel
      BY <2>2 DEF Marking
    <3>3. \A y \in Acts : y # x0 => (Marking(act'[y]) <=> Marking(act[y]))
      BY <1>3
    <3>4. (\E y \in Acts : y[1] = t /\ Marking(act'[y])) <=> inJob[t] \/ a.parallel
      BY <3>1, <3>2, <3>3, <1>1, <1>2, <1>3, <1>4 DEF b
    <3> QED
      BY <3>1, <3>4, <2>2, <1>1 DEF Marked
  <2>3. CASE s = t /\ a.pc # "job" /\ b.pc = "job"
    <3>1. inJob'[t] = b.saved /\ ~Marking(a)
      BY <2>3, <1>1, <1>4 DEF Marking
    <3>2. b.saved <=> \E y \in Acts : Lower(y, x0) /\ Marking(act[y])
      BY <2>3, <1>4 DEF Stacked, b
    <3>3. \A y \in Acts : y[1] = t /\ Marking(act'[y]) <=> Lower(y, x0) /\ Marking(act[y])
      BY <3>1, <1>1, <1>2, <1>3
    <3> QED
      BY <3>1, <3>2, <3>3, <2>3, <1>1 DEF Marked
  <2>4. CASE s = t /\ a.pc # "job" /\ b.pc # "job"
    <3>1. inJob'[t] = inJob[t] /\ ~Marking(a) /\ ~Marking(b)
      BY <2>4, <1>1, <1>4 DEF Marking
    <3>2. \A y \in Acts : Marking(act'[y]) <=> Marking(act[y])
      BY <3>1, <1>1, <1>3 DEF b
    <3> QED
      BY <3>1, <3>2, <2>4, <1>1, <1>4 DEF Marked
  <2> QED
    BY <2>1, <2>2, <2>3, <2>4
<1> QED
  BY <1>1, <1>5, <1>6, <1>7, <1>8 DEF StackInv

(* The top of a stack is done.                                             *)
LEMMA PopStack ==
    ASSUME TypeOK, StackInv, NEW t \in Threads, ~Idle(t), stack' = [stack EXCEPT ![t] = Front(@)],
           inJob' = [inJob EXCEPT ![t] = IF Top(t).pc = "job" THEN Top(t).saved ELSE @]
    PROVE  StackInv'
<1> DEFINE x0 == TopOf(t)
           b == act[x0]
<1>1. /\ x0 \in Acts /\ b = Top(t) /\ Acts' = Acts \ {x0} /\ act' = [x \in Acts \ {x0} |-> act[x]]
      /\ act \in [Acts -> Activity] /\ b \in Activity
      /\ \A s \in Threads : Len(stack'[s]) = IF s = t THEN Len(stack[s]) - 1 ELSE Len(stack[s])
  BY Places, PopActs
<1>2. /\ x0[1] = t /\ x0[2] = Len(stack[t])
      /\ \A y \in Acts : y[1] = t /\ y # x0 => Lower(y, x0)
      /\ \A x, y \in Acts : Lower(y, x) => y # x0
      /\ \A y \in Acts : Lower(y, x0) => y[1] = t
      /\ \A x \in Acts : x[1] \in Threads
  BY TopIsHighest, Places
<1>3. \A y \in Acts' : y \in Acts /\ y # x0 /\ act'[y] = act[y]
  BY <1>1
<1>4. /\ Stacked(x0) /\ inJob \in [Threads -> BOOLEAN]
      /\ inJob[t] <=> \E y \in Acts : y[1] = t /\ Marking(act[y])
  BY <1>1 DEF StackInv, Marked, TypeOK
<1> HIDE DEF x0, b
<1>5. \A x \in Acts' : RoleOK(act'[x])
  BY <1>3 DEF StackInv
<1>6. ASSUME NEW x \in Acts' PROVE Stacked(x)'
  <2>1. Stacked(x) /\ x[1] \in Threads /\ x \in Acts /\ x # x0 /\ act'[x] = act[x]
    BY <1>2, <1>3 DEF StackInv
  <2>2. x[2] # Len(stack[x[1]])  \/ x[1] # t
    <3>1. x = <<x[1], x[2]>>
      BY <2>1, Places
    <3> QED
      BY <3>1, <2>1 DEF x0, TopOf
  <2>3. x[2] # Len(stack'[x[1]]) => act'[x].pc = "scope" \/ Marking(act'[x])
    BY <2>1, <2>2, <1>1 DEF Stacked
  <2>4. \A y \in Acts : Lower(y, x) => y \in Acts' /\ act'[y] = act[y]
    BY <2>1, <1>1, <1>2, <1>3
  <2>5. \A y \in Acts' : y \in Acts /\ act'[y] = act[y]
    BY <1>3
  <2> QED
    BY <2>1, <2>3, <2>4, <2>5 DEF Stacked, Lower
<1>7. ASSUME NEW x \in Acts', NEW y \in Acts' PROVE Apart(x, y)'
  BY <1>3 DEF StackInv, Apart
<1>8. ASSUME NEW s \in Threads PROVE Marked(s)'
  <2>1. CASE s # t
    <3>1. inJob'[s] = inJob[s] /\ Marked(s)
      BY <2>1, <1>4 DEF StackInv
    <3>2. \A y \in Acts : y[1] = s => y \in Acts' /\ act'[y] = act[y]
      BY <2>1, <1>1, <1>2, <1>3
    <3> QED
      BY <3>1, <3>2, <1>3 DEF Marked
  <2>2. CASE s = t /\ b.pc = "job"
    <3>1. inJob'[t] = b.saved
      BY <2>2, <1>1, <1>4
    <3>2. b.saved <=> \E y \in Acts : Lower(y, x0) /\ Marking(act[y])
      BY <2>2, <1>4 DEF Stacked, b
    <3>3. (\E y \in Acts : Lower(y, x0) /\ Marking(act[y]))
             <=> \E y \in Acts' : y[1] = t /\ Marking(act'[y])
      BY <1>1, <1>2, <1>3
    <3> QED
      BY <3>1, <3>2, <3>3, <2>2 DEF Marked
  <2>3. CASE s = t /\ b.pc # "job"
    <3>1. inJob'[t] = inJob[t] /\ ~Marking(b)
      BY <2>3, <1>1, <1>4 DEF Marking
    <3>2. (\E y \in Acts : y[1] = t /\ Marking(act[y]))
             <=> \E y \in Acts' : y[1] = t /\ Marking(act'[y])
      BY <3>1, <1>1, <1>3 DEF b
    <3> QED
      BY <3>1, <3>2, <2>3, <1>4 DEF Marked
  <2> QED
    BY <2>1, <2>2, <2>3
<1> QED
  BY <1>5, <1>6, <1>7, <1>8 DEF StackInv

(* A call or a runner starts on a stack that is empty or waits.            *)
LEMMA PushStack ==
    ASSUME TypeOK, StackInv, NEW t \in Threads, Idle(t) \/ Waiting(t), NEW a \in Activity, Push(t, a),
           RoleOK(a), a.pc \in {"begin", "prepare"},
           a.role = "caller" => \A y \in Acts : act[y].frame # a.frame,
           a.role = "runner" => \A y \in Acts : act[y].frame = a.frame => act[y].parallel,
           a.role = "runner" => a.pc = "begin",
           inJob' = inJob
    PROVE  StackInv'
<1> DEFINE x0 == <<t, Len(stack[t]) + 1>>
<1>1. /\ Acts' = Acts \cup {x0} /\ x0 \notin Acts
      /\ act' = [x \in Acts \cup {x0} |-> IF x = x0 THEN a ELSE act[x]]
      /\ act \in [Acts -> Activity]
      /\ \A s \in Threads : Len(stack'[s]) = IF s = t THEN Len(stack[s]) + 1 ELSE Len(stack[s])
  <2>1. act \in [Acts -> Activity]
    BY Places
  <2> QED
    BY <2>1, PushActs
<1>2. act'[x0] = a /\ \A y \in Acts : act'[y] = act[y] /\ y # x0
  BY <1>1
<1>3. \A x \in Acts : /\ x = <<x[1], x[2]>> /\ x[1] \in Threads /\ x[2] \in Nat /\ 1 <= x[2]
                      /\ x[2] <= Len(stack[x[1]]) /\ Len(stack[x[1]]) \in Nat
  BY Places
<1>4. x0[1] = t /\ x0[2] = Len(stack'[t]) /\ x0[2] = Len(stack[t]) + 1
  BY <1>1
<1>5. \A x \in Acts : ~Lower(x0, x)
  BY <1>3, <1>4 DEF Lower
<1>6. ~Marking(a) /\ ~Holding(a) /\ a.role \in {"caller", "runner"}
  BY DEF Marking, Holding, Activity
<1> HIDE DEF x0
<1>7. \A x \in Acts' : RoleOK(act'[x])
  BY <1>1, <1>2 DEF StackInv
<1>8. ASSUME NEW x \in Acts' PROVE Stacked(x)'
  <2>1. CASE x = x0
    <3>1. act'[x] = a /\ x[2] = Len(stack'[x[1]]) /\ a.pc # "job"
      BY <2>1, <1>2, <1>4
    <3>2. \A y \in Acts' : Lower(y, x) => y \in Acts /\ act'[y] = act[y]
      BY <2>1, <1>1, <1>2, <1>4 DEF Lower
    <3> QED
      BY <3>1, <3>2 DEF Stacked, Lower
  <2>2. CASE x # x0
    <3>1. x \in Acts /\ act'[x] = act[x] /\ Stacked(x)
      BY <2>2, <1>1, <1>2 DEF StackInv
    <3>2. \A y \in Acts' : Lower(y, x) <=> y \in Acts /\ Lower(y, x)
      BY <3>1, <1>1, <1>5
    <3>3. ASSUME x[2] = Len(stack[x[1]]), x[1] = t
          PROVE  act[x].pc = "scope" \/ Marking(act[x])
      <4>1. x = TopOf(t) /\ Len(stack[t]) # 0
        BY <3>1, <3>3, <1>3 DEF TopOf
      <4>2. Waiting(t) /\ act[x] = Top(t)
        <5>1. ~Idle(t)
          BY <4>1, Places
        <5> QED
          BY <5>1, <4>1, Places
      <4> QED
        BY <4>2 DEF Waiting, At, Marking
    <3>4. act'[x].pc = "scope" \/ Marking(act'[x]) \/ x[2] = Len(stack'[x[1]])
      BY <3>1, <3>3, <1>1, <1>3 DEF Stacked
    <3>5. \A y \in Acts : y \in Acts' /\ act'[y] = act[y]
      BY <1>1, <1>2
    <3> QED
      BY <3>1, <3>2, <3>4, <3>5 DEF Stacked, Lower
  <2> QED
    BY <2>1, <2>2
<1>9. ASSUME NEW x \in Acts', NEW y \in Acts' PROVE Apart(x, y)'
  <2>1. CASE x = x0 /\ y = x0
    BY <2>1 DEF Apart
  <2>2. CASE x # x0 /\ y # x0
    <3>1. x \in Acts /\ y \in Acts /\ act'[x] = act[x] /\ act'[y] = act[y]
      BY <2>2, <1>1, <1>2
    <3> QED
      BY <3>1 DEF StackInv, Apart
  <2>3. CASE x = x0 /\ y # x0
    <3>1. y \in Acts /\ act'[x] = a /\ act'[y] = act[y]
      BY <2>3, <1>1, <1>2
    <3> QED
      BY <3>1, <1>6 DEF Apart, RoleOK
  <2>4. CASE x # x0 /\ y = x0
    <3>1. x \in Acts /\ act'[y] = a /\ act'[x] = act[x]
      BY <2>4, <1>1, <1>2
    <3> QED
      BY <3>1, <1>6 DEF Apart, RoleOK
  <2> QED
    BY <2>1, <2>2, <2>3, <2>4
<1>10. ASSUME NEW s \in Threads PROVE Marked(s)'
  <2>1. (\E y \in Acts' : y[1] = s /\ Marking(act'[y]))
           <=> \E y \in Acts : y[1] = s /\ Marking(act[y])
    BY <1>1, <1>2, <1>6
  <2> QED
    BY <2>1 DEF StackInv, Marked
<1> QED
  BY <1>7, <1>8, <1>9, <1>10 DEF StackInv

-----------------------------------------------------------------------------
(* Frames *)

(* A step that is not about frame g.                                       *)
Untouched(g) ==
    /\ queued'[g] = queued[g] /\ njobs'[g] = njobs[g] /\ next'[g] = next[g]
    /\ prepared'[g] = prepared[g] /\ slots'[g] = slots[g] /\ pool'[g] = pool[g]
    /\ outcome'[g] = outcome[g] /\ unwound'[g] = unwound[g] /\ ready'[g] = ready[g]
    /\ outputs'[g] = outputs[g]
    /\ \A x \in Acts : act[x].frame = g => x \in Acts' /\ act'[x] = act[x]
    /\ \A x \in Acts' : act'[x].frame = g => x \in Acts /\ act'[x] = act[x]

(* Such a step keeps what the frame accounts for.                          *)
LEMMA FrameKept ==
    ASSUME NEW g \in Frames, FrameInv(g), Untouched(g)
    PROVE  FrameInv(g)'
<1>1. ASSUME NEW x \in Acts', act'[x].frame = g PROVE Knows(x, g)'
  <2>1. x \in Acts /\ act'[x] = act[x] /\ Knows(x, g)
    BY <1>1 DEF FrameInv, Untouched
  <2> QED
    BY <2>1 DEF Knows, Shared, SerialKnows, CallerKnows, HoldsJob, Untouched
<1>2. Counters(g)'
  BY DEF FrameInv, Counters, Shared, Untouched
<1>3. Accounted(g)'
  BY DEF FrameInv, Accounted, Untouched
<1>4. Costs(g)'
  <2> SUFFICES ASSUME unwound[g] PROVE \E k \in 0..(njobs[g] - 1) : Dead(g, k)'
    BY DEF Costs, Untouched
  <2>1. PICK k \in 0..(njobs[g] - 1) : Dead(g, k)
    BY DEF FrameInv, Costs
  <2>2. Stopped(g) => Stopped(g)'
    BY DEF Stopped, Untouched
  <2>3. Dead(g, k)'
    BY <2>1, <2>2 DEF Dead, Untouched
  <2> QED
    BY <2>3
<1> QED
  BY <1>1, <1>2, <1>3, <1>4 DEF FrameInv

(* What is known of the running activity.                                  *)
LEMMA TopKnows ==
    ASSUME IndInv, NEW t \in Threads, ~Idle(t)
    PROVE  /\ TypeOK /\ StackInv /\ TopOf(t) \in Acts /\ act[TopOf(t)] = Top(t)
           /\ Top(t) \in Activity /\ RoleOK(Top(t))
           /\ Top(t).frame \in Frames /\ FrameInv(Top(t).frame)
           /\ Knows(TopOf(t), Top(t).frame)
<1>1. /\ TypeOK /\ StackInv /\ TopOf(t) \in Acts /\ act[TopOf(t)] = Top(t) /\ Top(t) \in Activity
  BY Places DEF IndInv
<1>2. Top(t).frame \in Frames
  BY <1>1 DEF Activity
<1> QED
  BY <1>1, <1>2 DEF IndInv, StackInv, FrameInv

(* An activity with another program counter.                               *)
LEMMA GotoFields ==
    ASSUME NEW b \in Activity,
           NEW pc \in {"begin", "prepare", "publish", "notify", "claim", "check",
                       "wait", "start", "job", "scope"}
    PROVE  LET a == [b EXCEPT !.pc = pc]
           IN  /\ a \in Activity /\ a.pc = pc /\ a.frame = b.frame /\ a.role = b.role
               /\ a.parallel = b.parallel /\ a.job = b.job /\ a.saved = b.saved
BY DEF Activity

(* The running activity of a frame goes on.                                *)
LEMMA GoesOn ==
    ASSUME IndInv, NEW t \in Threads, ~Idle(t), NEW a \in Activity, Become(t, a),
           a.frame = Top(t).frame, StackInv', TypeOK',
           \A g \in Frames \ {a.frame} :
              /\ queued'[g] = queued[g] /\ njobs'[g] = njobs[g] /\ next'[g] = next[g]
              /\ prepared'[g] = prepared[g] /\ slots'[g] = slots[g] /\ pool'[g] = pool[g]
              /\ outcome'[g] = outcome[g] /\ unwound'[g] = unwound[g] /\ ready'[g] = ready[g]
              /\ outputs'[g] = outputs[g],
           FrameInv(a.frame)'
    PROVE  IndInv'
<1>1. /\ TypeOK /\ TopOf(t) \in Acts /\ act[TopOf(t)] = Top(t)
      /\ Acts' = Acts /\ act' = [act EXCEPT ![TopOf(t)] = a] /\ act \in [Acts -> Activity]
  BY TopKnows, BecomeActs, Places
<1>2. ASSUME NEW g \in Frames, g # a.frame PROVE FrameInv(g)'
  <2>1. Untouched(g)
    BY <1>1, <1>2 DEF Untouched
  <2> QED
    BY <2>1, FrameKept DEF IndInv
<1> QED
  BY <1>2 DEF IndInv

(* The running activity of a frame is done.                                *)
LEMMA IsDone ==
    ASSUME IndInv, NEW t \in Threads, ~Idle(t), stack' = [stack EXCEPT ![t] = Front(@)],
           NEW f \in Frames, f = Top(t).frame, StackInv', TypeOK',
           \A g \in Frames \ {f} :
              /\ queued'[g] = queued[g] /\ njobs'[g] = njobs[g] /\ next'[g] = next[g]
              /\ prepared'[g] = prepared[g] /\ slots'[g] = slots[g] /\ pool'[g] = pool[g]
              /\ outcome'[g] = outcome[g] /\ unwound'[g] = unwound[g] /\ ready'[g] = ready[g]
              /\ outputs'[g] = outputs[g],
           FrameInv(f)'
    PROVE  IndInv'
<1>1. /\ TypeOK /\ TopOf(t) \in Acts /\ act[TopOf(t)] = Top(t)
      /\ Acts' = Acts \ {TopOf(t)} /\ act' = [x \in Acts \ {TopOf(t)} |-> act[x]]
  BY TopKnows, PopActs
<1>2. ASSUME NEW g \in Frames, g # f PROVE FrameInv(g)'
  <2>1. Untouched(g)
    BY <1>1, <1>2 DEF Untouched
  <2> QED
    BY <2>1, FrameKept DEF IndInv
<1> QED
  BY <1>2 DEF IndInv

-----------------------------------------------------------------------------
(* One lemma per action *)

(* A prepare that returns releases nothing yet.                            *)
LEMMA PrepareInv ==
    ASSUME IndInv, NEW t \in Threads, Prepare(t)
    PROVE  IndInv'
<1>0. PICK b \in Activity, x0 \in Acts : b = Top(t) /\ x0 = TopOf(t)
  BY TopKnows DEF Prepare, At
<1> DEFINE f == b.frame
           pc == IF b.parallel THEN "publish" ELSE "start"
           a == [b EXCEPT !.pc = pc]
<1>1. ~Idle(t) /\ b.pc = "prepare" /\ ready[f] < njobs[f]
  BY <1>0 DEF Prepare, At
<1>2. /\ TypeOK /\ StackInv /\ x0 \in Acts /\ act[x0] = b /\ b \in Activity /\ RoleOK(b)
      /\ f \in Frames /\ FrameInv(f) /\ Knows(x0, f)
  BY <1>0, <1>1, TopKnows
<1>3. /\ a \in Activity /\ a.frame = f /\ a.role = b.role /\ a.parallel = b.parallel
      /\ a.job = b.job /\ a.pc = pc
  <2>1. pc \in {"begin", "prepare", "publish", "notify", "claim", "check",
                 "wait", "start", "job", "scope"}
    OBVIOUS
  <2> HIDE DEF pc
  <2> QED
    BY <2>1 DEF Activity
<1>4. /\ Become(t, a) /\ ready' = [ready EXCEPT ![f] = @ + 1]
      /\ UNCHANGED <<inJob, queued, njobs, next, prepared, slots, pool, outcome,
                     unwound, outputs, calls, panics>>
  BY <1>0 DEF Prepare, Goto
<1>5. b.role = "caller"
  BY <1>1, <1>2 DEF RoleOK, Holding, Activity
<1> HIDE DEF f, a
<1>6. /\ stack' \in [Threads -> Seq(Activity)] /\ Acts' = Acts
      /\ act' = [act EXCEPT ![x0] = a] /\ act \in [Acts -> Activity]
  BY <1>0, <1>1, <1>2, <1>3, <1>4, BecomeActs, Places
<1>7. act'[x0] = a /\ \A x \in Acts : x # x0 => act'[x] = act[x]
  BY <1>2, <1>6
<1>8. /\ ready'[f] = ready[f] + 1 /\ ready' \in [Frames -> Nat] /\ ready[f] \in Nat /\ njobs[f] \in Nat
      /\ prepared[f] \in Int
  BY <1>2, <1>4 DEF TypeOK
<1>9. TypeOK'
  BY <1>2, <1>4, <1>6, <1>8 DEF TypeOK
<1>10. StackInv'
  <2>1. RoleOK(a) /\ a.pc # "job"
    BY <1>2, <1>3, <1>5 DEF RoleOK, Holding
  <2>2. ~(Holding(a) /\ a.parallel)
    BY <1>3 DEF Holding
  <2>3. inJob' = [inJob EXCEPT ![t] = @]
    BY <1>2, <1>4 DEF TypeOK
  <2> QED
    BY <2>1, <2>2, <2>3, <1>0, <1>1, <1>2, <1>3, <1>4, <1>5, BecomeStack DEF f
<1>11. FrameInv(f)'
  <2>1. ASSUME NEW x \in Acts, act'[x].frame = f PROVE Knows(x, f)'
    <3>1. CASE x = x0
      BY <3>1, <1>1, <1>2, <1>3, <1>4, <1>5, <1>7, <1>8
      DEF Knows, Shared, SerialKnows, CallerKnows, HoldsJob, Holding
    <3>2. CASE x # x0
      <4>1. act'[x] = act[x] /\ Knows(x, f) /\ act[x].frame = f /\ act[x] \in Activity
        BY <3>2, <2>1, <1>2, <1>6, <1>7 DEF FrameInv
      <4>2. act[x].parallel /\ act[x].role # "caller" /\ act[x].job \in Nat
        BY <4>1, <3>2, <1>2, <1>5 DEF StackInv, Apart, Activity, f
      <4> QED
        BY <4>1, <4>2, <1>4, <1>8 DEF Knows, Shared, HoldsJob
    <3> QED
      BY <3>1, <3>2
  <2>2. Counters(f)'
    BY <1>1, <1>2, <1>4, <1>8 DEF FrameInv, Counters, Shared
  <2>3. Accounted(f)'
    <3>1. \A x \in Acts : Holding(act[x]) => x # x0
      BY <1>1, <1>2 DEF Holding
    <3> QED
      BY <3>1, <1>2, <1>4, <1>6, <1>7 DEF FrameInv, Accounted
  <2>4. Costs(f)'
    <3> SUFFICES ASSUME unwound[f] PROVE \E k \in 0..(njobs[f] - 1) : Dead(f, k)'
      BY <1>4 DEF Costs
    <3>1. PICK k \in 0..(njobs[f] - 1) : Dead(f, k)
      BY <1>2 DEF FrameInv, Costs
    <3>2. ~Stopped(f)
      BY <1>1, <1>2, <1>5 DEF Stopped, f
    <3>3. \A x \in Acts : act'[x].frame = f /\ act'[x].pc = "job" => act[x] = act'[x]
      BY <1>3, <1>7
    <3>4. Dead(f, k)'
      BY <3>1, <3>2, <3>3, <1>4, <1>6 DEF Dead
    <3> QED
      BY <3>4
  <2> QED
    BY <2>1, <2>2, <2>3, <2>4, <1>6 DEF FrameInv
<1>12. \A g \in Frames \ {f} : ready'[g] = ready[g]
  BY <1>2, <1>4 DEF TypeOK
<1> QED
  BY <1>0, <1>1, <1>2, <1>3, <1>4, <1>9, <1>10, <1>11, <1>12, GoesOn DEF f

(* A prepare that unwinds costs its job, whoever has claimed it.           *)
LEMMA PrepareUnwindsInv ==
    ASSUME IndInv, NEW t \in Threads, PrepareUnwinds(t)
    PROVE  IndInv'
<1>0. PICK b \in Activity, x0 \in Acts : b = Top(t) /\ x0 = TopOf(t)
  BY TopKnows DEF PrepareUnwinds, At
<1> DEFINE f == b.frame
           pc == IF b.parallel THEN "publish" ELSE "scope"
           a == [b EXCEPT !.pc = pc]
<1>1. ~Idle(t) /\ b.pc = "prepare" /\ ready[f] < njobs[f]
  BY <1>0 DEF PrepareUnwinds, At
<1>2. /\ TypeOK /\ StackInv /\ x0 \in Acts /\ act[x0] = b /\ b \in Activity /\ RoleOK(b)
      /\ f \in Frames /\ FrameInv(f) /\ Knows(x0, f)
  BY <1>0, <1>1, TopKnows
<1>3. /\ a \in Activity /\ a.frame = f /\ a.role = b.role /\ a.parallel = b.parallel
      /\ a.job = b.job /\ a.pc = pc
  <2>1. pc \in {"begin", "prepare", "publish", "notify", "claim", "check",
                 "wait", "start", "job", "scope"}
    OBVIOUS
  <2> HIDE DEF pc
  <2> QED
    BY <2>1 DEF Activity
<1>4. /\ Become(t, a) /\ panics' = panics + 1 /\ unwound' = [unwound EXCEPT ![f] = TRUE]
      /\ UNCHANGED <<inJob, queued, njobs, next, prepared, slots, pool, outcome,
                     ready, outputs, calls>>
  BY <1>0 DEF PrepareUnwinds, Goto
<1>5. b.role = "caller"
  BY <1>1, <1>2 DEF RoleOK, Holding, Activity
<1> HIDE DEF f, a
<1>6. /\ stack' \in [Threads -> Seq(Activity)] /\ Acts' = Acts
      /\ act' = [act EXCEPT ![x0] = a] /\ act \in [Acts -> Activity]
  BY <1>0, <1>1, <1>2, <1>3, <1>4, BecomeActs, Places
<1>7. act'[x0] = a /\ \A x \in Acts : x # x0 => act'[x] = act[x]
  BY <1>2, <1>6
<1>8. /\ unwound'[f] /\ unwound' \in [Frames -> BOOLEAN] /\ panics' \in Nat
      /\ ready[f] \in Nat /\ njobs[f] \in Nat /\ prepared[f] \in Int
  BY <1>2, <1>4 DEF TypeOK
<1>9. TypeOK'
  BY <1>2, <1>4, <1>6, <1>8 DEF TypeOK
<1>10. StackInv'
  <2>1. RoleOK(a) /\ a.pc # "job" /\ ~Holding(a)
    BY <1>2, <1>3, <1>5 DEF RoleOK, Holding
  <2>2. inJob' = [inJob EXCEPT ![t] = @]
    BY <1>2, <1>4 DEF TypeOK
  <2> QED
    BY <2>1, <2>2, <1>0, <1>1, <1>2, <1>3, <1>4, <1>5, BecomeStack DEF f
<1>11. FrameInv(f)'
  <2>1. ASSUME NEW x \in Acts, act'[x].frame = f PROVE Knows(x, f)'
    <3>1. CASE x = x0
      BY <3>1, <1>1, <1>2, <1>3, <1>4, <1>5, <1>7, <1>8
      DEF Knows, Shared, SerialKnows, CallerKnows, HoldsJob, Holding
    <3>2. CASE x # x0
      <4>1. act'[x] = act[x] /\ Knows(x, f) /\ act[x].frame = f
        BY <3>2, <2>1, <1>2, <1>6, <1>7 DEF FrameInv
      <4>2. act[x].parallel /\ act[x].role # "caller"
        BY <4>1, <3>2, <1>2, <1>5 DEF StackInv, Apart, f
      <4> QED
        BY <4>1, <4>2, <1>4 DEF Knows, Shared, HoldsJob
    <3> QED
      BY <3>1, <3>2
  <2>2. Counters(f)'
    BY <1>2, <1>4, <1>8 DEF FrameInv, Counters, Shared
  <2>3. Accounted(f)'
    BY <1>8 DEF Accounted
  <2>4. Costs(f)'
    <3>1. Stopped(f)'
      <4> SUFFICES ASSUME NEW x \in Acts, act'[x].frame = f, act'[x].role = "caller"
                   PROVE  act'[x].pc = "scope" \/ (act'[x].pc = "publish" /\ ready[f] = prepared[f])
        BY <1>4, <1>6 DEF Stopped
      <4>1. x = x0
        <5>1. x # x0 => act[x].frame = f /\ act[x].role = "caller"
          BY <1>7
        <5> QED
          BY <5>1, <1>2, <1>5 DEF StackInv, Apart, f
      <4> QED
        BY <4>1, <1>1, <1>2, <1>3, <1>5, <1>7 DEF Knows, CallerKnows, Holding
    <3>2. ready[f] \in 0..(njobs[f] - 1) /\ outputs[f][ready[f] + 1] = 0
      BY <1>1, <1>2, <1>8 DEF FrameInv, Counters
    <3>3. PICK k \in 0..(njobs[f] - 1) : k = ready[f]
      BY <3>2
    <3>4. Dead(f, k)'
      BY <3>1, <3>2, <3>3, <1>4, <1>8 DEF Dead
    <3> QED
      BY <3>4, <1>4 DEF Costs
  <2> QED
    BY <2>1, <2>2, <2>3, <2>4, <1>6 DEF FrameInv
<1>12. \A g \in Frames \ {f} : unwound'[g] = unwound[g]
  BY <1>2, <1>4 DEF TypeOK
<1> QED
  BY <1>0, <1>1, <1>2, <1>3, <1>4, <1>9, <1>10, <1>11, <1>12, GoesOn DEF f

(* What is published is what was prepared, or that a prepare unwound.      *)
LEMMA PublishSetInv ==
    ASSUME IndInv, NEW t \in Threads, PublishSet(t)
    PROVE  IndInv'
<1>0. PICK b \in Activity, x0 \in Acts : b = Top(t) /\ x0 = TopOf(t)
  BY TopKnows DEF PublishSet, At
<1> DEFINE f == b.frame
           a == [b EXCEPT !.pc = "notify"]
<1>1. ~Idle(t) /\ b.pc = "publish"
  BY <1>0 DEF PublishSet, At
<1>2. /\ TypeOK /\ StackInv /\ x0 \in Acts /\ act[x0] = b /\ b \in Activity /\ RoleOK(b)
      /\ f \in Frames /\ FrameInv(f) /\ Knows(x0, f)
  BY <1>0, <1>1, TopKnows
<1>3. /\ a \in Activity /\ a.frame = f /\ a.role = b.role /\ a.parallel = b.parallel
      /\ a.job = b.job /\ a.pc = "notify"
  BY GotoFields
<1>4. /\ Become(t, a) /\ prepared' = [prepared EXCEPT ![f] = Published(f)]
      /\ UNCHANGED <<inJob, queued, njobs, next, slots, pool, outcome, unwound,
                     ready, outputs, calls, panics>>
  BY <1>0 DEF PublishSet, Goto
<1>5. b.role = "caller" /\ b.parallel
  BY <1>1, <1>2 DEF RoleOK, Holding, Activity
<1> HIDE DEF f, a
<1>6. /\ stack' \in [Threads -> Seq(Activity)] /\ Acts' = Acts
      /\ act' = [act EXCEPT ![x0] = a] /\ act \in [Acts -> Activity]
  BY <1>0, <1>1, <1>2, <1>3, <1>4, BecomeActs, Places
<1>7. act'[x0] = a /\ \A x \in Acts : x # x0 => act'[x] = act[x]
  BY <1>2, <1>6
<1>8. /\ prepared'[f] = Published(f) /\ prepared \in [Frames -> Int]
      /\ ready[f] \in Nat /\ njobs[f] \in Nat /\ prepared[f] \in Int
  BY <1>2, <1>4 DEF TypeOK
<1>9. \/ ready[f] = prepared[f] + 1 /\ prepared'[f] = ready[f]
      \/ ready[f] = prepared[f] /\ ready[f] < njobs[f] /\ unwound[f] /\ prepared'[f] = Unwound
  BY <1>1, <1>2, <1>5, <1>8 DEF Knows, CallerKnows, Holding, Published
<1>10. TypeOK'
  <2>1. prepared' \in [Frames -> Int]
    BY <1>2, <1>4, <1>8, <1>9 DEF Unwound
  <2> QED
    BY <2>1, <1>2, <1>4, <1>6 DEF TypeOK
<1>11. StackInv'
  <2>1. RoleOK(a) /\ a.pc # "job" /\ ~Holding(a)
    BY <1>2, <1>3, <1>5 DEF RoleOK, Holding
  <2>2. inJob' = [inJob EXCEPT ![t] = @]
    BY <1>2, <1>4 DEF TypeOK
  <2> QED
    BY <2>1, <2>2, <1>0, <1>1, <1>2, <1>3, <1>4, <1>5, BecomeStack DEF f
<1>12. \A x \in Acts : x # x0 /\ act[x].frame = f => act[x].parallel /\ act[x].role # "caller"
  BY <1>2, <1>5 DEF StackInv, Apart, f
<1>13. FrameInv(f)'
  <2>1. ASSUME NEW x \in Acts, act'[x].frame = f PROVE Knows(x, f)'
    <3>1. CASE x = x0
      BY <3>1, <1>2, <1>3, <1>4, <1>5, <1>7, <1>9
      DEF Knows, Shared, CallerKnows, HoldsJob, Holding
    <3>2. CASE x # x0
      <4>1. act'[x] = act[x] /\ Knows(x, f) /\ act[x].frame = f
        BY <3>2, <2>1, <1>2, <1>6, <1>7 DEF FrameInv
      <4> QED
        BY <4>1, <3>2, <1>4, <1>12 DEF Knows, Shared, HoldsJob
    <3> QED
      BY <3>1, <3>2
  <2>2. Counters(f)'
    BY <1>2, <1>4, <1>8, <1>9 DEF FrameInv, Counters, Shared, Unwound
  <2>3. Accounted(f)'
    <3>1. \A x \in Acts : Holding(act[x]) => x # x0
      BY <1>1, <1>2 DEF Holding
    <3> QED
      BY <3>1, <1>2, <1>4, <1>6, <1>7 DEF FrameInv, Accounted
  <2>4. Costs(f)'
    <3> SUFFICES ASSUME unwound[f] PROVE \E k \in 0..(njobs[f] - 1) : Dead(f, k)'
      BY <1>4 DEF Costs
    <3>1. PICK k \in 0..(njobs[f] - 1) : Dead(f, k)
      BY <1>2 DEF FrameInv, Costs
    <3>2. Stopped(f) => Stopped(f)'
      <4> SUFFICES ASSUME Stopped(f), NEW x \in Acts, act'[x].frame = f, act'[x].role = "caller"
                   PROVE  x = x0 /\ prepared'[f] = Unwound
        BY <1>3, <1>4, <1>6, <1>7 DEF Stopped
      <4>1. x = x0
        BY <1>7, <1>12
      <4>2. ready[f] = prepared[f]
        BY <1>1, <1>2, <1>5 DEF Stopped, f
      <4> QED
        BY <4>1, <4>2, <1>8, <1>9
    <3>3. \A x \in Acts : act'[x].frame = f /\ act'[x].pc = "job" => act[x] = act'[x]
      BY <1>3, <1>7
    <3>4. Dead(f, k)'
      BY <3>1, <3>2, <3>3, <1>4, <1>6 DEF Dead
    <3> QED
      BY <3>4
  <2> QED
    BY <2>1, <2>2, <2>3, <2>4, <1>6 DEF FrameInv
<1>14. \A g \in Frames \ {f} : prepared'[g] = prepared[g]
  BY <1>2, <1>4 DEF TypeOK
<1> QED
  BY <1>0, <1>1, <1>2, <1>3, <1>4, <1>10, <1>11, <1>13, <1>14, GoesOn DEF f

(* A wait wakes to check again, and nothing else changes.                  *)
LEMMA NotifyActs ==
    ASSUME TypeOK, StackInv, NEW t \in Threads, PublishNotify(t)
    PROVE  LET b == Top(t)
               f == b.frame
               pc == IF prepared[f] = Unwound THEN "scope"
                     ELSE IF ready[f] < njobs[f] THEN "prepare" ELSE "claim"
           IN  /\ stack' \in [Threads -> Seq(Activity)] /\ Acts' = Acts
               /\ \A s \in Threads : Len(stack'[s]) = Len(stack[s])
               /\ act'[TopOf(t)] = [b EXCEPT !.pc = pc]
               /\ \A x \in Acts : x # TopOf(t) =>
                     act'[x] = IF act[x].frame = f /\ act[x].pc = "wait"
                               THEN [act[x] EXCEPT !.pc = "check"] ELSE act[x]
<1> DEFINE b == Top(t)
           f == b.frame
           pc == IF prepared[f] = Unwound THEN "scope"
                 ELSE IF ready[f] < njobs[f] THEN "prepare" ELSE "claim"
           Woken(s) == stack[s] # <<>> /\ Top(s).frame = f /\ Top(s).pc = "wait"
           new(s) == IF s = t THEN [stack[s] EXCEPT ![Len(stack[s])].pc = pc]
                     ELSE IF Woken(s) THEN [stack[s] EXCEPT ![Len(stack[s])].pc = "check"]
                     ELSE stack[s]
<1>1. ~Idle(t) /\ stack' = [s \in Threads |-> new(s)]
  BY DEF PublishNotify, At
<1> DEFINE PCs == {"begin", "prepare", "publish", "notify", "claim", "check",
                    "wait", "start", "job", "scope"}
<1>2. pc \in PCs /\ "check" \in PCs
  OBVIOUS
<1> HIDE DEF pc
<1>3. ASSUME NEW q \in Seq(Activity), Len(q) >= 1,
             NEW c \in PCs
      PROVE  LET r == [q EXCEPT ![Len(q)].pc = c]
             IN  /\ r \in Seq(Activity) /\ Len(r) = Len(q)
                 /\ r[Len(q)] = [q[Len(q)] EXCEPT !.pc = c]
                 /\ \A i \in 1..Len(q) : i # Len(q) => r[i] = q[i]
  <2> DEFINE n == Len(q)
             u == [q[n] EXCEPT !.pc = c]
             r == [q EXCEPT ![n] = u]
  <2>1. n \in Nat /\ n \in 1..Len(q) /\ q[n] \in Activity
    BY <1>3, LenProperties, ElementOfSeq
  <2>2. u \in Activity
    BY <2>1 DEF Activity
  <2> HIDE DEF u
  <2>3. r \in Seq(Activity) /\ Len(r) = Len(q) /\ \A i \in 1..Len(q) : r[i] = IF i = n THEN u ELSE q[i]
    BY <2>1, <2>2, ExceptSeq
  <2> QED
    BY <2>1, <2>3 DEF u
<1> HIDE DEF PCs
<1>4. \A s \in Threads : stack[s] \in Seq(Activity) /\ Len(stack[s]) \in Nat
                            /\ (stack[s] # <<>> => Len(stack[s]) >= 1)
  BY DEF TypeOK
<1>5. Len(stack[t]) >= 1
  BY <1>1, <1>4 DEF Idle
<1>6. ASSUME NEW s \in Threads
      PROVE  /\ new(s) \in Seq(Activity) /\ Len(new(s)) = Len(stack[s])
             /\ \A i \in 1..Len(stack[s]) : i # Len(stack[s]) => new(s)[i] = stack[s][i]
             /\ s = t => new(s)[Len(stack[s])] = [stack[s][Len(stack[s])] EXCEPT !.pc = pc]
             /\ s # t /\ Woken(s) =>
                   new(s)[Len(stack[s])] = [stack[s][Len(stack[s])] EXCEPT !.pc = "check"]
             /\ s # t /\ ~Woken(s) => new(s) = stack[s]
  <2>1. CASE s = t
    <3>1. stack[t] \in Seq(Activity) /\ Len(stack[t]) >= 1
      BY <1>4, <1>5
    <3>2. new(t) = [stack[t] EXCEPT ![Len(stack[t])].pc = pc]
      OBVIOUS
    <3> HIDE DEF new
    <3>3. PICK q \in Seq(Activity) : q = stack[t]
      BY <3>1
    <3>4. PICK c \in PCs : c = pc
      BY <1>2
    <3>5. Len(q) >= 1 /\ new(t) = [q EXCEPT ![Len(q)].pc = c]
      BY <3>1, <3>2, <3>3, <3>4
    <3>6. LET r == [q EXCEPT ![Len(q)].pc = c]
          IN  /\ r \in Seq(Activity) /\ Len(r) = Len(q)
              /\ r[Len(q)] = [q[Len(q)] EXCEPT !.pc = c]
              /\ \A i \in 1..Len(q) : i # Len(q) => r[i] = q[i]
      BY <3>5, <1>3
    <3>7. /\ new(t) \in Seq(Activity) /\ Len(new(t)) = Len(q)
          /\ new(t)[Len(q)] = [q[Len(q)] EXCEPT !.pc = c]
          /\ \A i \in 1..Len(q) : i # Len(q) => new(t)[i] = q[i]
      BY <3>5, <3>6
    <3> QED
      BY <3>3, <3>4, <3>7, <2>1
  <2>2. CASE s # t /\ Woken(s)
    BY <2>2, <1>2, <1>3, <1>4
  <2>3. CASE s # t /\ ~Woken(s)
    BY <2>3, <1>4
  <2> QED
    BY <2>1, <2>2, <2>3
<1> HIDE DEF new
<1>7. stack' \in [Threads -> Seq(Activity)] /\ \A s \in Threads : stack'[s] = new(s)
  BY <1>1, <1>6
<1>8. \A s \in Threads : Len(stack'[s]) = Len(stack[s])
  BY <1>6, <1>7
<1>9. Acts' = Acts /\ act' = [x \in Acts |-> stack'[x[1]][x[2]]]
  BY <1>8 DEF Acts, act
<1>10. act'[TopOf(t)] = [b EXCEPT !.pc = pc]
  <2>1. TopOf(t) \in Acts /\ TopOf(t)[1] = t /\ TopOf(t)[2] = Len(stack[t])
    BY <1>1, TopIsHighest
  <2>2. act'[TopOf(t)] = new(t)[Len(stack[t])]
    BY <2>1, <1>7, <1>9
  <2> QED
    BY <2>2, <1>6 DEF Top, Last
<1>11. ASSUME NEW x \in Acts, x # TopOf(t)
       PROVE  act'[x] = IF act[x].frame = f /\ act[x].pc = "wait"
                        THEN [act[x] EXCEPT !.pc = "check"] ELSE act[x]
  <2>1. /\ x = <<x[1], x[2]>> /\ x[1] \in Threads /\ x[2] \in Nat /\ 1 <= x[2]
        /\ x[2] <= Len(stack[x[1]]) /\ act[x] = stack[x[1]][x[2]]
    BY Places DEF act
  <2>2. act'[x] = new(x[1])[x[2]]
    BY <2>1, <1>7, <1>9
  <2>3. CASE x[2] # Len(stack[x[1]])
    <3>1. act'[x] = act[x]
      <4>1. x[2] \in 1..Len(stack[x[1]]) /\ x[1] \in Threads
        BY <2>1, <1>4
      <4>2. new(x[1])[x[2]] = stack[x[1]][x[2]]
        BY <4>1, <2>3, <1>6
      <4> QED
        BY <4>2, <2>1, <2>2
    <3>2. act[x].pc # "wait"
      BY <2>3 DEF StackInv, Stacked, Marking
    <3> QED
      BY <3>1, <3>2
  <2>4. CASE x[2] = Len(stack[x[1]])
    <3>1. x[1] # t
      BY <2>1, <2>4, <1>11 DEF TopOf
    <3>2. stack[x[1]] # <<>> /\ act[x] = Top(x[1])
      BY <2>1, <2>4, <1>4 DEF Top, Last
    <3>3. Woken(x[1]) <=> act[x].frame = f /\ act[x].pc = "wait"
      BY <3>2
    <3>4. x[1] \in Threads /\ x[2] \in 1..Len(stack[x[1]])
      BY <2>1, <1>4
    <3>5. CASE Woken(x[1])
      <4>1. new(x[1])[Len(stack[x[1]])] = [stack[x[1]][Len(stack[x[1]])] EXCEPT !.pc = "check"]
        <5> HIDE DEF Woken
        <5> QED
          BY <3>1, <3>4, <3>5, <1>6
      <4> QED
        BY <4>1, <3>3, <3>5, <2>1, <2>2, <2>4
    <3>6. CASE ~Woken(x[1])
      <4>1. new(x[1]) = stack[x[1]]
        BY <3>1, <3>4, <3>6, <1>6
      <4> QED
        BY <4>1, <3>3, <3>6, <2>1, <2>2
    <3> QED
      BY <3>5, <3>6
  <2> QED
    BY <2>3, <2>4
<1> QED
  BY <1>7, <1>8, <1>9, <1>10, <1>11 DEF pc

(* A publish sends its caller on and wakes the frame's runners.            *)
LEMMA PublishNotifyInv ==
    ASSUME IndInv, NEW t \in Threads, PublishNotify(t)
    PROVE  IndInv'
<1>0. PICK b \in Activity, x0 \in Acts : b = Top(t) /\ x0 = TopOf(t)
  BY TopKnows DEF PublishNotify, At
<1> DEFINE f == b.frame
           pc == IF prepared[f] = Unwound THEN "scope"
                 ELSE IF ready[f] < njobs[f] THEN "prepare" ELSE "claim"
           a == [b EXCEPT !.pc = pc]
<1>1. ~Idle(t) /\ b.pc = "notify"
  BY <1>0 DEF PublishNotify, At
<1>2. /\ TypeOK /\ StackInv /\ x0 \in Acts /\ act[x0] = b /\ b \in Activity /\ RoleOK(b)
      /\ f \in Frames /\ FrameInv(f) /\ Knows(x0, f)
  BY <1>0, <1>1, TopKnows
<1>3. /\ a \in Activity /\ a.frame = f /\ a.role = b.role /\ a.parallel = b.parallel
      /\ a.job = b.job /\ a.saved = b.saved /\ a.pc = pc
  <2>1. pc \in {"begin", "prepare", "publish", "notify", "claim", "check",
                 "wait", "start", "job", "scope"}
    OBVIOUS
  <2> HIDE DEF pc
  <2> QED
    BY <2>1 DEF Activity
<1>4. UNCHANGED <<inJob, queued, njobs, next, prepared, slots, pool, outcome,
                  unwound, ready, outputs, calls, panics>>
  BY DEF PublishNotify
<1>5. b.role = "caller" /\ b.parallel
  BY <1>1, <1>2 DEF RoleOK, Holding, Activity
<1>6. /\ stack' \in [Threads -> Seq(Activity)] /\ Acts' = Acts
      /\ \A s \in Threads : Len(stack'[s]) = Len(stack[s])
      /\ act'[x0] = a
      /\ \A x \in Acts : x # x0 =>
            act'[x] = IF act[x].frame = f /\ act[x].pc = "wait"
                      THEN [act[x] EXCEPT !.pc = "check"] ELSE act[x]
  <2>1. LET c == Top(t)
            g == c.frame
            pd == IF prepared[g] = Unwound THEN "scope"
                  ELSE IF ready[g] < njobs[g] THEN "prepare" ELSE "claim"
        IN  /\ stack' \in [Threads -> Seq(Activity)] /\ Acts' = Acts
            /\ \A s \in Threads : Len(stack'[s]) = Len(stack[s])
            /\ act'[TopOf(t)] = [c EXCEPT !.pc = pd]
            /\ \A x \in Acts : x # TopOf(t) =>
                  act'[x] = IF act[x].frame = g /\ act[x].pc = "wait"
                            THEN [act[x] EXCEPT !.pc = "check"] ELSE act[x]
    BY <1>2, NotifyActs
  <2> QED
    BY <2>1, <1>0
<1> HIDE DEF f, a, pc
<1>7. ASSUME NEW x \in Acts, x # x0
      PROVE  /\ act'[x].frame = act[x].frame /\ act'[x].role = act[x].role
             /\ act'[x].parallel = act[x].parallel /\ act'[x].job = act[x].job
             /\ act'[x].saved = act[x].saved
             /\ act'[x].pc = act[x].pc \/ (act[x].pc = "wait" /\ act'[x].pc = "check")
             /\ act[x].frame # f => act'[x] = act[x]
  <2>1. act[x] \in Activity
    BY <1>2, Places
  <2>2. PICK c \in Activity : c = act[x]
    BY <2>1
  <2>3. CASE c.frame = f /\ c.pc = "wait"
    <3>1. act'[x] = [c EXCEPT !.pc = "check"]
      BY <2>2, <2>3, <1>6, <1>7
    <3> QED
      BY <3>1, <2>2, <2>3, GotoFields
  <2>4. CASE ~(c.frame = f /\ c.pc = "wait")
    BY <2>2, <2>4, <1>6, <1>7
  <2> QED
    BY <2>3, <2>4
<1>8. pc \in {"scope", "prepare", "claim"}
  BY DEF pc
<1>9. \A x \in Acts :
         /\ act'[x].frame = act[x].frame /\ act'[x].role = act[x].role
         /\ act'[x].parallel = act[x].parallel /\ act'[x].job = act[x].job
         /\ act'[x].saved = act[x].saved
         /\ Holding(act'[x]) <=> Holding(act[x])
         /\ Marking(act'[x]) <=> Marking(act[x])
         /\ act'[x].pc = "job" <=> act[x].pc = "job"
         /\ act'[x].pc = "begin" <=> act[x].pc = "begin"
  BY <1>1, <1>2, <1>3, <1>6, <1>7, <1>8 DEF Holding, Marking, f
<1>10. TypeOK'
  BY <1>2, <1>4, <1>6 DEF TypeOK
<1>11. StackInv'
  <2>1. ASSUME NEW x \in Acts PROVE RoleOK(act'[x])
    <3>1. RoleOK(act[x])
      BY <1>2 DEF StackInv
    <3>2. CASE x = x0
      BY <3>2, <1>3, <1>5, <1>6, <1>8 DEF RoleOK
    <3>3. CASE x # x0
      BY <3>1, <3>3, <1>7 DEF RoleOK, Holding
    <3> QED
      BY <3>2, <3>3
  <2>2. ASSUME NEW x \in Acts PROVE Stacked(x)'
    <3>1. Stacked(x) /\ x[1] \in Threads
      BY <1>2, Places DEF StackInv
    <3>2. Len(stack'[x[1]]) = Len(stack[x[1]])
      BY <3>1, <1>6
    <3>3. x[2] # Len(stack[x[1]]) => act'[x].pc = "scope" \/ Marking(act'[x])
      <4>1. x0[2] = Len(stack[x0[1]])
        BY <1>0, <1>1, <1>2, TopIsHighest
      <4> QED
        BY <4>1, <3>1, <1>7, <1>9 DEF Stacked
    <3> QED
      BY <3>1, <3>2, <3>3, <1>6, <1>9 DEF Stacked, Lower
  <2>3. ASSUME NEW x \in Acts, NEW y \in Acts PROVE Apart(x, y)'
    BY <1>2, <1>9 DEF StackInv, Apart
  <2>4. ASSUME NEW s \in Threads PROVE Marked(s)'
    BY <1>2, <1>4, <1>6, <1>9 DEF StackInv, Marked
  <2> QED
    BY <2>1, <2>2, <2>3, <2>4, <1>6 DEF StackInv
<1>12. \A x \in Acts : x # x0 /\ act[x].frame = f => act[x].parallel /\ act[x].role # "caller"
  BY <1>2, <1>5 DEF StackInv, Apart, f
<1>13. ready[f] \in Nat /\ njobs[f] \in Nat /\ prepared[f] \in Int
  BY <1>2 DEF TypeOK
<1>14. FrameInv(f)'
  <2>1. ASSUME NEW x \in Acts, act'[x].frame = f PROVE Knows(x, f)'
    <3>1. CASE x = x0
      <4>1. \/ pc = "scope" /\ unwound[f]
            \/ pc = "prepare" /\ prepared[f] = ready[f] /\ ready[f] < njobs[f]
            \/ pc = "claim" /\ ready[f] = njobs[f]
        BY <1>1, <1>2, <1>5, <1>13
        DEF Knows, CallerKnows, FrameInv, Counters, Holding, Unwound, pc
      <4> QED
        BY <4>1, <3>1, <1>2, <1>3, <1>4, <1>5, <1>6
        DEF Knows, Shared, CallerKnows, HoldsJob, Holding
    <3>2. CASE x # x0
      <4>1. Knows(x, f) /\ act[x].frame = f
        BY <3>2, <2>1, <1>2, <1>7 DEF FrameInv
      <4> QED
        BY <4>1, <3>2, <1>4, <1>7, <1>12 DEF Knows, Shared, HoldsJob, Holding
    <3> QED
      BY <3>1, <3>2
  <2>2. Counters(f)'
    BY <1>2, <1>4 DEF FrameInv, Counters, Shared
  <2>3. Accounted(f)'
    BY <1>2, <1>4, <1>6, <1>9 DEF FrameInv, Accounted
  <2>4. Costs(f)'
    <3> SUFFICES ASSUME unwound[f] PROVE \E k \in 0..(njobs[f] - 1) : Dead(f, k)'
      BY <1>4 DEF Costs
    <3>1. PICK k \in 0..(njobs[f] - 1) : Dead(f, k)
      BY <1>2 DEF FrameInv, Costs
    <3>2. Stopped(f) => Stopped(f)'
      <4> SUFFICES ASSUME Stopped(f), NEW x \in Acts, act'[x].frame = f, act'[x].role = "caller"
                   PROVE  act'[x].pc = "scope"
        BY <1>4, <1>6 DEF Stopped
      <4>1. x = x0
        BY <1>7, <1>12
      <4>2. prepared[f] = Unwound
        BY <1>1, <1>2, <1>5 DEF Stopped, f
      <4> QED
        BY <4>1, <4>2, <1>3, <1>6 DEF pc
    <3>3. Dead(f, k)'
      BY <3>1, <3>2, <1>4, <1>6, <1>9 DEF Dead
    <3> QED
      BY <3>3
  <2> QED
    BY <2>1, <2>2, <2>3, <2>4, <1>6 DEF FrameInv
<1>15. ASSUME NEW g \in Frames, g # f PROVE FrameInv(g)'
  <2>1. Untouched(g)
    BY <1>15, <1>2, <1>3, <1>4, <1>6, <1>7, <1>9 DEF Untouched, f
  <2> QED
    BY <2>1, FrameKept DEF IndInv
<1> QED
  BY <1>10, <1>11, <1>14, <1>15 DEF IndInv

(* The running activity returns, or unwinds to its task: a caller leaves   *)
(* only when all is claimed or something unwound, and an activity that     *)
(* holds a job gives it up only when something unwound.                    *)
LEMMA LeaveInv ==
    ASSUME IndInv, NEW t \in Threads, ~Idle(t), Leave(t),
           NEW b \in Activity, b = Top(t), NEW f \in Frames, f = b.frame,
           b.pc \in {"begin", "claim", "check", "job"},
           inJob' = [inJob EXCEPT ![t] = IF b.pc = "job" THEN b.saved ELSE @],
           next' \in [Frames -> Nat], unwound' \in [Frames -> BOOLEAN], panics' \in Nat,
           next'[f] >= next[f], next'[f] # next[f] => next[f] >= njobs[f],
           unwound[f] => unwound'[f], unwound'[f] => unwound[f] \/ b.pc = "job",
           b.role = "caller" => unwound'[f] \/ next'[f] >= njobs[f],
           Holding(b) => unwound'[f],
           \A g \in Frames \ {f} : next'[g] = next[g] /\ unwound'[g] = unwound[g],
           UNCHANGED <<queued, njobs, prepared, slots, pool, outcome, ready, outputs, calls>>
    PROVE  IndInv'
<1> DEFINE a == [b EXCEPT !.pc = "scope"]
<1>0. PICK x0 \in Acts : x0 = TopOf(t)
  BY TopKnows
<1>1. /\ TypeOK /\ StackInv /\ x0 \in Acts /\ act[x0] = b /\ RoleOK(b)
      /\ FrameInv(f) /\ Knows(x0, f) /\ act \in [Acts -> Activity]
  BY <1>0, TopKnows, Places
<1>2. /\ a \in Activity /\ a.frame = f /\ a.role = b.role /\ a.parallel = b.parallel
      /\ a.job = b.job /\ a.pc = "scope" /\ b.role \in {"caller", "runner"} /\ b.job \in Nat
  BY GotoFields, ZenonT(30) DEF Activity
<1> HIDE DEF a
<1>3. /\ stack' \in [Threads -> Seq(Activity)] /\ StackInv'
      /\ \A x \in Acts : x # x0 => x \in Acts' /\ act'[x] = act[x]
      /\ \A x \in Acts' : x \in Acts /\ (x = x0 => act'[x] = a /\ b.role = "caller")
  <2>1. CASE b.role = "caller"
    <3>1. Become(t, a)
      BY <2>1 DEF Leave, Goto, a
    <3>2. stack' \in [Threads -> Seq(Activity)] /\ Acts' = Acts /\ act' = [act EXCEPT ![x0] = a]
      BY <3>1, <1>0, <1>1, <1>2, BecomeActs
    <3>3. act'[x0] = a /\ \A x \in Acts : x # x0 => act'[x] = act[x]
      BY <3>2, <1>1
    <3>4. StackInv'
      <4>1. RoleOK(a) /\ a.pc # "job" /\ ~Holding(a)
        BY <2>1, <1>2 DEF RoleOK, Holding
      <4> QED
        BY <4>1, <3>1, <2>1, <1>1, <1>2, BecomeStack
    <3> QED
      BY <3>2, <3>3, <3>4, <2>1
  <2>2. CASE b.role = "runner"
    <3>1. stack' = [stack EXCEPT ![t] = Front(@)]
      BY <2>2 DEF Leave
    <3>2. /\ stack' \in [Threads -> Seq(Activity)] /\ Acts' = Acts \ {x0}
          /\ act' = [x \in Acts \ {x0} |-> act[x]]
      BY <3>1, <1>0, <1>1, PopActs
    <3>3. StackInv'
      BY <3>1, <1>1, PopStack
    <3> QED
      BY <3>2, <3>3
  <2> QED
    BY <2>1, <2>2, <1>2
<1>4. TypeOK'
  <2>1. inJob' \in [Threads -> BOOLEAN]
    BY <1>1 DEF TypeOK, Activity
  <2> QED
    BY <2>1, <1>1, <1>3 DEF TypeOK
<1>5. /\ next[f] \in Nat /\ next'[f] \in Nat /\ ready[f] \in Nat /\ njobs[f] \in Nat
      /\ prepared[f] \in Int
  BY <1>1 DEF TypeOK
<1>6. ASSUME NEW x \in Acts, x # x0, act[x].frame = f
      PROVE  /\ act[x].parallel /\ Knows(x, f) /\ act[x].job \in Nat /\ act[x] \in Activity
             /\ Holding(b) /\ Holding(act[x]) => act[x].job # b.job
             /\ ~(b.role = "caller" /\ act[x].role = "caller")
  <2>1. Apart(x, x0) /\ Knows(x, f) /\ act[x] \in Activity
    BY <1>1, <1>6 DEF StackInv, FrameInv
  <2> QED
    BY <2>1, <1>1, <1>6 DEF Apart, Activity
<1>7. FrameInv(f)'
  <2>1. Shared(f) => Shared(f)'
    BY <1>5 DEF Shared
  <2>2. ASSUME NEW x \in Acts', act'[x].frame = f PROVE Knows(x, f)'
    <3>1. CASE x = x0
      <4>1. act'[x] = a /\ b.role = "caller"
        BY <3>1, <1>3
      <4>2. ~a.parallel => SerialKnows(a, f)'
        <5>1. ~a.parallel => b.pc = "job"
          BY <1>1, <1>2 DEF RoleOK
        <5> QED
          BY <5>1, <1>1, <1>2 DEF Knows, SerialKnows, Holding
      <4>3. a.parallel => CallerKnows(a, f)'
        BY <4>1, <1>2 DEF CallerKnows
      <4>4. HoldsJob(a, f)'
        BY <1>2 DEF HoldsJob, Holding
      <4> QED
        BY <4>1, <4>2, <4>3, <4>4, <2>1, <1>1, <1>2 DEF Knows
    <3>2. CASE x # x0
      <4>1. x \in Acts /\ act'[x] = act[x] /\ act[x].frame = f
        BY <3>2, <2>2, <1>3
      <4>2. act[x].parallel /\ Knows(x, f) /\ act[x].job \in Nat
        BY <4>1, <3>2, <1>6
      <4>3. ASSUME NEW c, c.job \in Nat
            PROVE  /\ CallerKnows(c, f) => CallerKnows(c, f)'
                   /\ HoldsJob(c, f) => HoldsJob(c, f)'
        BY <4>3, <1>5 DEF CallerKnows, HoldsJob
      <4> QED
        BY <4>1, <4>2, <4>3, <2>1 DEF Knows
    <3> QED
      BY <3>1, <3>2
  <2>3. Counters(f)'
    BY <2>1, <1>1 DEF FrameInv, Counters
  <2>4. Accounted(f)'
    <3> SUFFICES ASSUME ~unwound'[f], NEW k \in 0..(njobs[f] - 1), k < next'[f], outputs[f][k + 1] = 0
                 PROVE  \E x \in Acts' : act'[x].frame = f /\ Holding(act'[x]) /\ act'[x].job = k
      BY DEF Accounted
    <3>1. k < next[f]
      BY <1>5
    <3>2. PICK x \in Acts : act[x].frame = f /\ Holding(act[x]) /\ act[x].job = k
      BY <3>1, <1>1 DEF FrameInv, Accounted
    <3>3. x # x0
      BY <3>2, <1>1
    <3> QED
      BY <3>2, <3>3, <1>3
  <2>5. Costs(f)'
    <3> SUFFICES ASSUME unwound'[f] PROVE \E k \in 0..(njobs[f] - 1) : Dead(f, k)'
      BY DEF Costs
    <3>1. CASE unwound[f]
      <4>1. PICK k \in 0..(njobs[f] - 1) : Dead(f, k)
        BY <3>1, <1>1 DEF FrameInv, Costs
      <4>2. Stopped(f) => Stopped(f)'
        BY <1>2, <1>3 DEF Stopped
      <4>3. \A x \in Acts' : act'[x].pc = "job" => x \in Acts /\ act'[x] = act[x]
        BY <1>2, <1>3
      <4>4. Dead(f, k)'
        BY <4>1, <4>2, <4>3 DEF Dead
      <4> QED
        BY <4>4
    <3>2. CASE b.pc = "job"
      <4>1. /\ Holding(b) /\ b.job < njobs[f] /\ b.job \notin slots[f] /\ outputs[f][b.job + 1] = 0
        BY <3>2, <1>1 DEF Knows, HoldsJob, Holding
      <4>2. b.job \in 0..(njobs[f] - 1)
        BY <4>1, <1>2, <1>5
      <4>3. \A x \in Acts' : ~(act'[x].frame = f /\ act'[x].pc = "job" /\ act'[x].job = b.job)
        BY <4>1, <1>2, <1>3, <1>6 DEF Holding
      <4>4. Dead(f, b.job)'
        BY <4>1, <4>3 DEF Dead
      <4> QED
        BY <4>2, <4>4
    <3> QED
      BY <3>1, <3>2
  <2> QED
    BY <2>2, <2>3, <2>4, <2>5 DEF FrameInv
<1>8. ASSUME NEW g \in Frames, g # f PROVE FrameInv(g)'
  <2>1. Untouched(g)
    BY <1>1, <1>2, <1>3, <1>8 DEF Untouched
  <2> QED
    BY <2>1, FrameKept DEF IndInv
<1> QED
  BY <1>3, <1>4, <1>7, <1>8 DEF IndInv

(* An activity of a parallel frame goes on outside its jobs: it keeps the  *)
(* job it holds, and claims the next one if it claims.                     *)
LEMMA QueueStepInv ==
    ASSUME IndInv, NEW t \in Threads, ~Idle(t),
           NEW b \in Activity, b = Top(t), NEW f \in Frames, f = b.frame,
           NEW a \in Activity, Become(t, a), a.frame = f, a.role = b.role,
           a.parallel = b.parallel, b.parallel, StackInv',
           a.pc # "job", b.pc # "job", b.pc \notin {"scope", "publish", "notify"},
           Holding(b) => Holding(a) /\ a.job = b.job,
           next' \in [Frames -> Nat],
           \/ next'[f] = next[f]
           \/ next'[f] = next[f] + 1 /\ Holding(a) /\ a.job = next[f],
           HoldsJob(a, f)', a.role = "caller" => CallerKnows(a, f)',
           \A g \in Frames \ {f} : next'[g] = next[g],
           UNCHANGED <<inJob, queued, njobs, prepared, slots, pool, outcome, unwound,
                       ready, outputs, calls, panics>>
    PROVE  IndInv'
<1>0. PICK x0 \in Acts : x0 = TopOf(t)
  BY TopKnows
<1>1. /\ TypeOK /\ StackInv /\ x0 \in Acts /\ act[x0] = b /\ RoleOK(b)
      /\ FrameInv(f) /\ Knows(x0, f)
  BY <1>0, TopKnows
<1>2. /\ stack' \in [Threads -> Seq(Activity)] /\ Acts' = Acts
      /\ act' = [act EXCEPT ![x0] = a] /\ act \in [Acts -> Activity]
  BY <1>0, <1>1, BecomeActs, Places
<1>3. act'[x0] = a /\ \A x \in Acts : x # x0 => act'[x] = act[x]
  BY <1>1, <1>2
<1>4. TypeOK'
  BY <1>1, <1>2 DEF TypeOK
<1>5. next[f] \in Nat /\ next'[f] \in Nat /\ ready[f] \in Nat /\ njobs[f] \in Nat
  BY <1>1 DEF TypeOK
<1>6. ASSUME NEW x \in Acts, x # x0, act[x].frame = f
      PROVE  act[x].parallel /\ Knows(x, f) /\ act[x].job \in Nat
  <2>1. Apart(x, x0) /\ Knows(x, f) /\ act[x] \in Activity
    BY <1>1, <1>2, <1>6 DEF StackInv, FrameInv
  <2> QED
    BY <2>1, <1>1, <1>6 DEF Apart, Activity
<1>7. FrameInv(f)'
  <2>1. Shared(f) => Shared(f)'
    BY <1>5 DEF Shared
  <2>2. ASSUME NEW x \in Acts, act'[x].frame = f PROVE Knows(x, f)'
    <3>1. CASE x = x0
      BY <3>1, <2>1, <1>1, <1>3 DEF Knows
    <3>2. CASE x # x0
      <4>1. act'[x] = act[x] /\ act[x].frame = f
        BY <3>2, <2>2, <1>3
      <4>2. act[x].parallel /\ Knows(x, f) /\ act[x].job \in Nat
        BY <4>1, <3>2, <1>6
      <4>3. ASSUME NEW c, c.job \in Nat
            PROVE  /\ CallerKnows(c, f) => CallerKnows(c, f)'
                   /\ HoldsJob(c, f) => HoldsJob(c, f)'
        BY <4>3, <1>5 DEF CallerKnows, HoldsJob
      <4> QED
        BY <4>1, <4>2, <4>3, <2>1 DEF Knows
    <3> QED
      BY <3>1, <3>2
  <2>3. Counters(f)'
    BY <2>1, <1>1 DEF FrameInv, Counters
  <2>4. Accounted(f)'
    <3> SUFFICES ASSUME ~unwound[f], NEW k \in 0..(njobs[f] - 1), k < next'[f], outputs[f][k + 1] = 0
                 PROVE  \E x \in Acts : act'[x].frame = f /\ Holding(act'[x]) /\ act'[x].job = k
      BY <1>2 DEF Accounted
    <3>1. CASE k < next[f]
      <4>1. PICK x \in Acts : act[x].frame = f /\ Holding(act[x]) /\ act[x].job = k
        BY <3>1, <1>1 DEF FrameInv, Accounted
      <4> QED
        BY <4>1, <1>1, <1>3
    <3>2. CASE ~(k < next[f])
      BY <3>2, <1>1, <1>3, <1>5
    <3> QED
      BY <3>1, <3>2
  <2>5. Costs(f)'
    <3> SUFFICES ASSUME unwound[f] PROVE \E k \in 0..(njobs[f] - 1) : Dead(f, k)'
      BY DEF Costs
    <3>1. PICK k \in 0..(njobs[f] - 1) : Dead(f, k)
      BY <1>1 DEF FrameInv, Costs
    <3>2. Stopped(f) => Stopped(f)'
      BY <1>1, <1>2, <1>3 DEF Stopped
    <3>3. \A x \in Acts : act'[x].pc = "job" => act'[x] = act[x]
      BY <1>3
    <3>4. Dead(f, k)'
      BY <3>1, <3>2, <3>3, <1>2 DEF Dead
    <3> QED
      BY <3>4
  <2> QED
    BY <2>2, <2>3, <2>4, <2>5, <1>2 DEF FrameInv
<1> QED
  BY <1>1, <1>4, <1>7, GoesOn

(* A runner claims only when its thread is in no job.                      *)
LEMMA BeginInv ==
    ASSUME IndInv, NEW t \in Threads, Begin(t)
    PROVE  IndInv'
<1>0. PICK b \in Activity : b = Top(t)
  BY TopKnows DEF Begin, At
<1>1. ~Idle(t) /\ b.pc = "begin" /\ UNCHANGED <<inJob, queued, njobs, next, prepared, slots,
         pool, outcome, unwound, ready, outputs, calls, panics>>
  BY <1>0 DEF Begin, At
<1>2. TypeOK /\ StackInv /\ RoleOK(b)
  BY <1>0, <1>1, TopKnows
<1>3. b.role = "runner" /\ b.parallel
  BY <1>1, <1>2 DEF RoleOK, Activity
<1>4. PICK f \in Frames : f = b.frame
  BY DEF Activity
<1>5. inJob' = [inJob EXCEPT ![t] = @] /\ inJob \in [Threads -> BOOLEAN]
  BY <1>1, <1>2 DEF TypeOK
<1>6. CASE inJob[t]
  <2>1. Leave(t) /\ ~Holding(b)
    BY <1>1, <1>6 DEF Begin, Holding
  <2>2. /\ next' \in [Frames -> Nat] /\ unwound' \in [Frames -> BOOLEAN] /\ panics' \in Nat
        /\ next'[f] >= next[f]
    BY <1>1, <1>2 DEF TypeOK
  <2>3. inJob' = [inJob EXCEPT ![t] = IF b.pc = "job" THEN b.saved ELSE @]
    BY <1>1, <1>5
  <2> QED
    BY <2>1, <2>2, <2>3, <1>0, <1>1, <1>3, <1>4, LeaveInv
<1>7. CASE ~inJob[t]
  <2> DEFINE a == [b EXCEPT !.pc = "claim"]
  <2>1. /\ a \in Activity /\ a.frame = f /\ a.role = b.role /\ a.parallel = b.parallel
        /\ a.pc = "claim"
    BY <1>4, GotoFields
  <2>2. Become(t, a)
    BY <1>0, <1>7 DEF Begin, Goto
  <2> HIDE DEF a
  <2>3. RoleOK(a) /\ ~Holding(a) /\ ~Holding(b)
    BY <2>1, <1>1, <1>3 DEF RoleOK, Holding
  <2>4. StackInv'
    BY <2>1, <2>2, <2>3, <1>0, <1>1, <1>2, <1>3, <1>4, <1>5, <1>7, BecomeStack
  <2>5. HoldsJob(a, f)'
    BY <2>1, <2>3 DEF HoldsJob, Holding
  <2> QED
    BY <2>1, <2>2, <2>3, <2>4, <2>5, <1>0, <1>1, <1>2, <1>3, <1>4, QueueStepInv DEF TypeOK
<1> QED
  BY <1>5, <1>6, <1>7

(* A job is claimed once.                                                  *)
LEMMA ClaimInv ==
    ASSUME IndInv, NEW t \in Threads, Claim(t)
    PROVE  IndInv'
<1>0. PICK b \in Activity, x0 \in Acts : b = Top(t) /\ x0 = TopOf(t)
  BY TopKnows DEF Claim, At
<1>1. PICK f \in Frames : f = b.frame
  BY DEF Activity
<1>2. /\ ~Idle(t) /\ b.pc = "claim" /\ next' = [next EXCEPT ![f] = @ + 1]
      /\ IF next[f] < njobs[f]
         THEN Become(t, [b EXCEPT !.pc = "check", !.job = next[f]]) ELSE Leave(t)
      /\ UNCHANGED <<inJob, queued, njobs, prepared, slots, pool, outcome, unwound,
                     ready, outputs, calls, panics>>
  BY <1>0, <1>1 DEF Claim, At
<1>3. /\ TypeOK /\ StackInv /\ RoleOK(b) /\ act[x0] = b /\ FrameInv(f) /\ Knows(x0, f)
      /\ act \in [Acts -> Activity]
  BY <1>0, <1>1, <1>2, TopKnows, Places
<1>4. b.parallel /\ ~Holding(b)
  BY <1>2, <1>3 DEF RoleOK, Holding, Activity
<1>5. PICK n \in Nat : n = next[f]
  BY <1>3 DEF TypeOK
<1>6. /\ next' \in [Frames -> Nat] /\ next'[f] = n + 1 /\ njobs[f] \in Nat
      /\ \A g \in Frames \ {f} : next'[g] = next[g]
  BY <1>2, <1>3, <1>5 DEF TypeOK
<1>7. CASE n < njobs[f]
  <2> DEFINE a == [b EXCEPT !.pc = "check", !.job = n]
  <2>1. /\ a \in Activity /\ a.frame = f /\ a.role = b.role /\ a.parallel = b.parallel
        /\ a.pc = "check" /\ a.job = n
    BY <1>1 DEF Activity
  <2>2. Become(t, a)
    BY <1>2, <1>5, <1>7
  <2> HIDE DEF a
  <2>3. RoleOK(a) /\ Holding(a)
    BY <2>1, <1>3, <1>4 DEF RoleOK, Holding
  <2>4. ASSUME NEW y \in Acts, act[y].frame = f, Holding(act[y]) PROVE act[y].job # n
    <3>1. Knows(y, f) /\ y # x0 /\ Apart(y, x0) /\ act[y] \in Activity
      BY <2>4, <1>3, <1>4 DEF FrameInv, StackInv
    <3>2. act[y].parallel
      BY <3>1, <2>4, <1>1, <1>3 DEF Apart
    <3>3. act[y].job < n /\ act[y].job \in Nat
      BY <3>1, <3>2, <2>4, <1>5 DEF Knows, HoldsJob, Activity
    <3> QED
      BY <3>3
  <2>5. StackInv'
    <3>1. inJob' = [inJob EXCEPT ![t] = @]
      BY <1>2, <1>3 DEF TypeOK
    <3> QED
      BY <3>1, <2>1, <2>2, <2>3, <2>4, <1>0, <1>1, <1>2, <1>3, BecomeStack
  <2>6. HoldsJob(a, f)'
    <3>1. n \in slots[f]
      BY <1>3, <1>4, <1>5, <1>6, <1>7 DEF Knows, Shared
    <3> QED
      BY <3>1, <2>1, <1>2, <1>6, <1>7 DEF HoldsJob, Holding
  <2>7. a.role = "caller" => CallerKnows(a, f)'
    BY <2>1, <2>3, <1>2, <1>3, <1>4 DEF Knows, CallerKnows
  <2> QED
    BY <2>1, <2>2, <2>3, <2>5, <2>6, <2>7, <1>0, <1>1, <1>2, <1>4, <1>5, <1>6, QueueStepInv
<1>8. CASE ~(n < njobs[f])
  <2>1. Leave(t)
    BY <1>2, <1>5, <1>8
  <2>2. /\ unwound' \in [Frames -> BOOLEAN] /\ panics' \in Nat
        /\ next'[f] >= next[f] /\ next[f] >= njobs[f] /\ next'[f] >= njobs[f]
    BY <1>2, <1>3, <1>5, <1>6, <1>8 DEF TypeOK
  <2>3. inJob' = [inJob EXCEPT ![t] = IF b.pc = "job" THEN b.saved ELSE @]
    BY <1>2, <1>3 DEF TypeOK
  <2> QED
    BY <2>1, <2>2, <2>3, <1>0, <1>1, <1>2, <1>4, <1>6, LeaveInv
<1> QED
  BY <1>7, <1>8

(* A job starts once it is prepared, or is given up after an unwinding.    *)
LEMMA CheckInv ==
    ASSUME IndInv, NEW t \in Threads, Check(t)
    PROVE  IndInv'
<1>0. PICK b \in Activity, x0 \in Acts : b = Top(t) /\ x0 = TopOf(t)
  BY TopKnows DEF Check, At
<1>1. PICK f \in Frames : f = b.frame
  BY DEF Activity
<1>2. /\ ~Idle(t) /\ b.pc = "check"
      /\ IF prepared[f] = Unwound THEN Leave(t)
         ELSE Become(t, [b EXCEPT !.pc = IF prepared[f] > b.job THEN "start" ELSE "wait"])
      /\ UNCHANGED <<inJob, queued, njobs, next, prepared, slots, pool, outcome, unwound,
                     ready, outputs, calls, panics>>
  BY <1>0, <1>1 DEF Check, At, Goto
<1>3. /\ TypeOK /\ StackInv /\ RoleOK(b) /\ act[x0] = b /\ FrameInv(f) /\ Knows(x0, f)
  BY <1>0, <1>1, <1>2, TopKnows
<1>4. b.parallel /\ Holding(b) /\ b.job \in Nat
  BY <1>2, <1>3 DEF RoleOK, Holding, Activity
<1>5. /\ next' \in [Frames -> Nat] /\ next[f] \in Nat /\ ready[f] \in Nat /\ prepared[f] \in Int
      /\ unwound' \in [Frames -> BOOLEAN] /\ panics' \in Nat
  BY <1>2, <1>3 DEF TypeOK
<1>6. CASE prepared[f] = Unwound
  <2>1. Leave(t) /\ unwound[f]
    BY <1>2, <1>3, <1>6 DEF FrameInv, Counters
  <2>2. inJob' = [inJob EXCEPT ![t] = IF b.pc = "job" THEN b.saved ELSE @]
    BY <1>2, <1>3 DEF TypeOK
  <2> QED
    BY <2>1, <2>2, <1>0, <1>1, <1>2, <1>5, LeaveInv
<1>7. CASE prepared[f] # Unwound
  <2>1. PICK pc \in {"start", "wait"} : pc = IF prepared[f] > b.job THEN "start" ELSE "wait"
    OBVIOUS
  <2> DEFINE a == [b EXCEPT !.pc = pc]
  <2>2. /\ a \in Activity /\ a.frame = f /\ a.role = b.role /\ a.parallel = b.parallel
        /\ a.pc = pc /\ a.job = b.job
    BY <1>1 DEF Activity
  <2>3. Become(t, a)
    BY <2>1, <1>2, <1>7
  <2> HIDE DEF a
  <2>4. RoleOK(a) /\ Holding(a)
    BY <2>1, <2>2, <1>3, <1>4 DEF RoleOK, Holding
  <2>5. StackInv'
    <3>1. inJob' = [inJob EXCEPT ![t] = @]
      BY <1>2, <1>3 DEF TypeOK
    <3> QED
      BY <3>1, <2>1, <2>2, <2>3, <2>4, <1>0, <1>1, <1>2, <1>3, <1>4, BecomeStack
  <2>6. HoldsJob(a, f)'
    <3>1. /\ b.job < njobs[f] /\ b.job < next[f] /\ b.job \in slots[f]
          /\ pc = "start" => b.job < ready[f]
      BY <2>1, <1>2, <1>3, <1>4, <1>5 DEF Knows, HoldsJob, FrameInv, Counters
    <3> QED
      BY <3>1, <2>1, <2>2, <1>2 DEF HoldsJob
  <2>7. a.role = "caller" => CallerKnows(a, f)'
    BY <2>2, <2>4, <1>2, <1>3, <1>4 DEF Knows, CallerKnows
  <2> QED
    BY <2>1, <2>2, <2>3, <2>4, <2>5, <2>6, <2>7, <1>0, <1>1, <1>2, <1>4, <1>5, QueueStepInv
<1> QED
  BY <1>6, <1>7

(* A job that unwinds costs itself.                                        *)
LEMMA JobUnwindsInv ==
    ASSUME IndInv, NEW t \in Threads, JobUnwinds(t)
    PROVE  IndInv'
<1>0. PICK b \in Activity : b = Top(t)
  BY TopKnows DEF JobUnwinds, At
<1>1. PICK f \in Frames : f = b.frame
  BY DEF Activity
<1>2. /\ ~Idle(t) /\ b.pc = "job" /\ Leave(t) /\ panics' = panics + 1
      /\ unwound' = [unwound EXCEPT ![f] = TRUE] /\ inJob' = [inJob EXCEPT ![t] = b.saved]
      /\ UNCHANGED <<queued, njobs, next, prepared, slots, pool, outcome, ready, outputs, calls>>
  BY <1>0, <1>1 DEF JobUnwinds, At
<1>3. TypeOK
  BY DEF IndInv
<1>4. /\ next' \in [Frames -> Nat] /\ next'[f] >= next[f] /\ panics' \in Nat
      /\ unwound' \in [Frames -> BOOLEAN] /\ unwound'[f]
      /\ \A g \in Frames \ {f} : next'[g] = next[g] /\ unwound'[g] = unwound[g]
  BY <1>2, <1>3 DEF TypeOK
<1>5. inJob' = [inJob EXCEPT ![t] = IF b.pc = "job" THEN b.saved ELSE @]
  BY <1>2
<1> QED
  BY <1>0, <1>1, <1>2, <1>4, <1>5, LeaveInv

(* The slot of a job is taken once, by the activity that holds the job.    *)
LEMMA StartJobInv ==
    ASSUME IndInv, NEW t \in Threads, StartJob(t)
    PROVE  IndInv'
<1>0. PICK b \in Activity, x0 \in Acts : b = Top(t) /\ x0 = TopOf(t)
  BY TopKnows DEF StartJob, At
<1>1. PICK f \in Frames : f = b.frame
  BY DEF Activity
<1>2. /\ ~Idle(t) /\ b.pc = "start"
      /\ slots' = [slots EXCEPT ![f] = @ \ {b.job}]
      /\ pool' = [pool EXCEPT ![f] = Take(@)]
      /\ inJob' = [inJob EXCEPT ![t] = @ \/ b.parallel]
      /\ Become(t, [b EXCEPT !.pc = "job", !.saved = inJob[t]])
      /\ UNCHANGED <<queued, njobs, next, prepared, outcome, unwound, ready, outputs,
                     calls, panics>>
  BY <1>0, <1>1 DEF StartJob, At
<1>3. /\ TypeOK /\ StackInv /\ RoleOK(b) /\ act[x0] = b /\ FrameInv(f) /\ Knows(x0, f)
  BY <1>0, <1>1, <1>2, TopKnows
<1>4. PICK v \in BOOLEAN : v = inJob[t]
  BY <1>3 DEF TypeOK
<1> DEFINE a == [b EXCEPT !.pc = "job", !.saved = v]
<1>5. /\ a \in Activity /\ a.frame = f /\ a.role = b.role /\ a.parallel = b.parallel
      /\ a.pc = "job" /\ a.job = b.job /\ a.saved = v /\ b.job \in Nat
  BY <1>1 DEF Activity
<1>6. Become(t, a)
  BY <1>2, <1>4
<1> HIDE DEF a
<1>7. RoleOK(a) /\ Holding(a) /\ Holding(b)
  BY <1>2, <1>3, <1>5 DEF RoleOK, Holding
<1>8. StackInv'
  <2>1. inJob' = [inJob EXCEPT ![t] = IF a.pc = "job" THEN @ \/ a.parallel
                                      ELSE IF b.pc = "job" THEN b.saved ELSE @]
    BY <1>2, <1>5
  <2> QED
    BY <2>1, <1>0, <1>1, <1>2, <1>3, <1>4, <1>5, <1>6, <1>7, BecomeStack
<1>9. /\ stack' \in [Threads -> Seq(Activity)] /\ Acts' = Acts
      /\ act' = [act EXCEPT ![x0] = a] /\ act \in [Acts -> Activity]
  BY <1>0, <1>2, <1>3, <1>5, <1>6, BecomeActs, Places
<1>10. act'[x0] = a /\ \A x \in Acts : x # x0 => act'[x] = act[x]
  BY <1>9
<1>11. /\ slots'[f] = slots[f] \ {b.job} /\ pool'[f].capacity = pool[f].capacity
       /\ \A g \in Frames \ {f} : slots'[g] = slots[g] /\ pool'[g] = pool[g]
       /\ pool' \in [Frames -> [free: Nat, capacity: Nat]] /\ slots' \in [Frames -> SUBSET Nat]
  <2>1. pool[f] \in [free: Nat, capacity: Nat]
    BY <1>3 DEF TypeOK
  <2>2. Take(pool[f]) \in [free: Nat, capacity: Nat] /\ Take(pool[f]).capacity = pool[f].capacity
    BY <2>1 DEF Take
  <2> QED
    BY <2>2, <1>2, <1>3 DEF TypeOK
<1>12. TypeOK'
  <2>1. inJob' \in [Threads -> BOOLEAN]
    BY <1>2, <1>3 DEF TypeOK, Activity
  <2> QED
    BY <2>1, <1>2, <1>3, <1>9, <1>11 DEF TypeOK
<1>13. ASSUME NEW x \in Acts, x # x0, act[x].frame = f
       PROVE  /\ b.parallel /\ act[x].parallel /\ Knows(x, f)
              /\ Holding(act[x]) => act[x].job # b.job
  <2>1. Apart(x, x0) /\ Apart(x0, x) /\ Knows(x, f)
    BY <1>3, <1>13 DEF StackInv, FrameInv
  <2> QED
    BY <2>1, <1>1, <1>3, <1>7, <1>13 DEF Apart
<1>14. /\ b.job < njobs[f] /\ b.job \in slots[f] /\ b.job < ready[f] /\ outputs[f][b.job + 1] = 0
       /\ b.parallel => b.job < next[f]
  BY <1>2, <1>3, <1>7 DEF Knows, HoldsJob, FrameInv, Counters
<1>15. next[f] \in Nat
  BY <1>3 DEF TypeOK
<1>16. FrameInv(f)'
  <2>1. b.parallel /\ Shared(f) => Shared(f)'
    BY <1>2, <1>5, <1>11, <1>14, <1>15 DEF Shared
  <2>2. ASSUME NEW x \in Acts, act'[x].frame = f PROVE Knows(x, f)'
    <3>1. CASE x = x0
      <4>1. HoldsJob(a, f)'
        BY <1>2, <1>5, <1>11, <1>14 DEF HoldsJob
      <4>2. ~a.parallel => SerialKnows(a, f)'
        BY <1>2, <1>3, <1>5, <1>11 DEF Knows, SerialKnows
      <4>3. a.role = "caller" /\ a.parallel => CallerKnows(a, f)'
        BY <1>2, <1>3, <1>5, <1>7 DEF Knows, CallerKnows
      <4> QED
        BY <4>1, <4>2, <4>3, <3>1, <2>1, <1>2, <1>3, <1>5, <1>10, <1>11 DEF Knows
    <3>2. CASE x # x0
      <4>1. act'[x] = act[x] /\ act[x].frame = f
        BY <3>2, <2>2, <1>10
      <4>2. /\ b.parallel /\ act[x].parallel /\ Knows(x, f)
            /\ Holding(act[x]) => act[x].job # b.job
        BY <4>1, <3>2, <1>13
      <4>3. ASSUME NEW c, Holding(c) => c.job # b.job
            PROVE  /\ CallerKnows(c, f) => CallerKnows(c, f)'
                   /\ HoldsJob(c, f) => HoldsJob(c, f)'
        <5>1. CallerKnows(c, f) => CallerKnows(c, f)'
          BY <1>2 DEF CallerKnows
        <5>2. HoldsJob(c, f) => HoldsJob(c, f)'
          BY <4>3, <1>2, <1>11 DEF HoldsJob, Holding
        <5> QED
          BY <5>1, <5>2
      <4> QED
        BY <4>1, <4>2, <4>3, <2>1, <1>2, <1>11 DEF Knows
    <3> QED
      BY <3>1, <3>2
  <2>3. Counters(f)'
    <3>1. queued[f] # {} => b.parallel
      BY <1>3 DEF Knows, SerialKnows
    <3> QED
      BY <3>1, <2>1, <1>2, <1>3, <1>11 DEF FrameInv, Counters
  <2>4. Accounted(f)'
    <3>1. \A x \in Acts : /\ Holding(act[x]) => Holding(act'[x])
                          /\ act'[x].job = act[x].job /\ act'[x].frame = act[x].frame
      BY <1>1, <1>3, <1>5, <1>7, <1>10
    <3> QED
      BY <3>1, <1>2, <1>3, <1>9 DEF FrameInv, Accounted
  <2>5. Costs(f)'
    <3> SUFFICES ASSUME unwound[f] PROVE \E k \in 0..(njobs[f] - 1) : Dead(f, k)'
      BY <1>2 DEF Costs
    <3>1. PICK k \in 0..(njobs[f] - 1) : Dead(f, k)
      BY <1>3 DEF FrameInv, Costs
    <3>2. Stopped(f) => Stopped(f)'
      BY <1>1, <1>2, <1>3, <1>5, <1>9, <1>10 DEF Stopped
    <3>3. CASE k \notin slots[f] /\
                 \A x \in Acts : ~(act[x].frame = f /\ act[x].pc = "job" /\ act[x].job = k)
      <4>1. k # b.job
        BY <3>3, <1>14
      <4>2. \A x \in Acts : ~(act'[x].frame = f /\ act'[x].pc = "job" /\ act'[x].job = k)
        BY <4>1, <3>3, <1>5, <1>10
      <4>3. Dead(f, k)'
        BY <4>2, <3>1, <3>3, <1>2, <1>9, <1>11 DEF Dead
      <4> QED
        BY <4>3
    <3>4. CASE k >= ready[f] /\ Stopped(f)
      <4>1. Dead(f, k)'
        BY <3>1, <3>2, <3>4, <1>2 DEF Dead
      <4> QED
        BY <4>1
    <3> QED
      BY <3>1, <3>3, <3>4 DEF Dead
  <2> QED
    BY <2>2, <2>3, <2>4, <2>5, <1>9 DEF FrameInv
<1> QED
  BY <1>0, <1>1, <1>2, <1>5, <1>6, <1>8, <1>11, <1>12, <1>16, GoesOn

(* A job's output is written by the activity that runs it, once.           *)
LEMMA FinishJobInv ==
    ASSUME IndInv, NEW t \in Threads, FinishJob(t)
    PROVE  IndInv'
<1>0. PICK b \in Activity, x0 \in Acts : b = Top(t) /\ x0 = TopOf(t)
  BY TopKnows DEF FinishJob, At
<1>1. PICK f \in Frames : f = b.frame
  BY DEF Activity
<1>2. /\ ~Idle(t) /\ b.pc = "job"
      /\ outputs' = [outputs EXCEPT ![f][b.job + 1] = @ + 1]
      /\ pool' = [pool EXCEPT ![f] = GiveBack(@)]
      /\ inJob' = [inJob EXCEPT ![t] = b.saved]
      /\ Become(t, [b EXCEPT !.pc = IF b.parallel THEN "claim" ELSE "scope"])
      /\ UNCHANGED <<queued, njobs, next, prepared, slots, outcome, unwound, ready, calls, panics>>
  BY <1>0, <1>1 DEF FinishJob, At, Goto
<1>3. /\ TypeOK /\ StackInv /\ RoleOK(b) /\ act[x0] = b /\ FrameInv(f) /\ Knows(x0, f)
  BY <1>0, <1>1, <1>2, TopKnows
<1>4. PICK pc \in {"claim", "scope"} : pc = IF b.parallel THEN "claim" ELSE "scope"
  OBVIOUS
<1> DEFINE a == [b EXCEPT !.pc = pc]
<1>5. /\ a \in Activity /\ a.frame = f /\ a.role = b.role /\ a.parallel = b.parallel
      /\ a.pc = pc /\ a.job = b.job /\ b.job \in Nat
  BY <1>1 DEF Activity
<1>6. Become(t, a)
  BY <1>2, <1>4
<1> HIDE DEF a
<1>7. RoleOK(a) /\ ~Holding(a) /\ Holding(b) /\ a.pc # "job"
  BY <1>2, <1>3, <1>4, <1>5 DEF RoleOK, Holding
<1>8. StackInv'
  <2>1. inJob' = [inJob EXCEPT ![t] = IF a.pc = "job" THEN @ \/ a.parallel
                                      ELSE IF b.pc = "job" THEN b.saved ELSE @]
    BY <1>2, <1>7
  <2> QED
    BY <2>1, <1>0, <1>1, <1>2, <1>3, <1>4, <1>5, <1>6, <1>7, BecomeStack
<1>9. /\ stack' \in [Threads -> Seq(Activity)] /\ Acts' = Acts
      /\ act' = [act EXCEPT ![x0] = a] /\ act \in [Acts -> Activity]
  BY <1>0, <1>2, <1>3, <1>5, <1>6, BecomeActs, Places
<1>10. act'[x0] = a /\ \A x \in Acts : x # x0 => act'[x] = act[x]
  BY <1>9
<1>11. /\ pool'[f].capacity = pool[f].capacity
       /\ \A g \in Frames \ {f} : pool'[g] = pool[g]
       /\ pool' \in [Frames -> [free: Nat, capacity: Nat]]
  <2>1. pool[f] \in [free: Nat, capacity: Nat]
    BY <1>3 DEF TypeOK
  <2>2. GiveBack(pool[f]) \in [free: Nat, capacity: Nat]
        /\ GiveBack(pool[f]).capacity = pool[f].capacity
    BY <2>1 DEF GiveBack
  <2> QED
    BY <2>2, <1>2, <1>3 DEF TypeOK
<1>12. /\ b.job < njobs[f] /\ b.job \notin slots[f] /\ b.job < ready[f]
       /\ outputs[f][b.job + 1] = 0 /\ njobs[f] \in Nat /\ ready[f] \in Nat
       /\ outputs[f] \in [1..njobs[f] -> Nat] /\ outputs = [g \in Frames |-> outputs[g]]
  BY <1>2, <1>3, <1>7 DEF Knows, HoldsJob, TypeOK
<1>13. /\ outputs'[f] = [outputs[f] EXCEPT ![b.job + 1] = 1]
       /\ \A g \in Frames \ {f} : outputs'[g] = outputs[g]
       /\ outputs' = [g \in Frames |-> outputs'[g]]
  <2> DEFINE u == [outputs[f] EXCEPT ![b.job + 1] = outputs[f][b.job + 1] + 1]
  <2>1. outputs' = [outputs EXCEPT ![f] = u]
    BY <1>2
  <2>2. u = [outputs[f] EXCEPT ![b.job + 1] = 1]
    BY <1>12
  <2>3. DOMAIN outputs = Frames
    BY <1>12
  <2> HIDE DEF u
  <2>4. outputs' = [g \in Frames |-> IF g = f THEN u ELSE outputs[g]]
    BY <2>1, <2>3
  <2> QED
    BY <2>2, <2>4
<1>14. /\ outputs'[f] \in [1..njobs[f] -> Nat] /\ outputs'[f][b.job + 1] = 1
       /\ \A k \in 0..(njobs[f] - 1) : k # b.job => outputs'[f][k + 1] = outputs[f][k + 1]
  <2>1. b.job + 1 \in 1..njobs[f]
    BY <1>5, <1>12
  <2> QED
    BY <2>1, <1>5, <1>12, <1>13
<1>15. TypeOK'
  <2>1. inJob' \in [Threads -> BOOLEAN]
    BY <1>2, <1>3 DEF TypeOK, Activity
  <2>2. \A g \in Frames : outputs'[g] \in [1..njobs'[g] -> Nat]
    BY <1>2, <1>3, <1>13, <1>14 DEF TypeOK
  <2> QED
    BY <2>1, <2>2, <1>2, <1>3, <1>9, <1>11, <1>13 DEF TypeOK
<1>16. ASSUME NEW x \in Acts, x # x0, act[x].frame = f
       PROVE  /\ act[x].parallel /\ Knows(x, f) /\ act[x].job \in Nat
              /\ Holding(act[x]) => act[x].job # b.job
  <2>1. Apart(x, x0) /\ Knows(x, f) /\ act[x] \in Activity
    BY <1>3, <1>9, <1>16 DEF StackInv, FrameInv
  <2> QED
    BY <2>1, <1>1, <1>3, <1>7, <1>16 DEF Apart, Activity
<1>17. FrameInv(f)'
  <2>1. Shared(f) => Shared(f)'
    BY <1>2, <1>11 DEF Shared
  <2>2. ASSUME NEW x \in Acts, act'[x].frame = f PROVE Knows(x, f)'
    <3>1. CASE x = x0
      <4>1. HoldsJob(a, f)'
        BY <1>4, <1>5, <1>7 DEF HoldsJob
      <4>2. ~a.parallel => SerialKnows(a, f)'
        BY <1>2, <1>3, <1>4, <1>5, <1>14 DEF Knows, SerialKnows
      <4>3. a.role = "caller" /\ a.parallel => CallerKnows(a, f)'
        BY <1>2, <1>3, <1>4, <1>5, <1>7 DEF Knows, CallerKnows
      <4> QED
        BY <4>1, <4>2, <4>3, <3>1, <2>1, <1>2, <1>3, <1>5, <1>10, <1>11 DEF Knows
    <3>2. CASE x # x0
      <4>1. act'[x] = act[x] /\ act[x].frame = f
        BY <3>2, <2>2, <1>10
      <4>2. /\ act[x].parallel /\ Knows(x, f) /\ act[x].job \in Nat
            /\ Holding(act[x]) => act[x].job # b.job
        BY <4>1, <3>2, <1>16
      <4>3. ASSUME NEW c, c.job \in Nat, Holding(c) => c.job # b.job
            PROVE  /\ CallerKnows(c, f) => CallerKnows(c, f)'
                   /\ HoldsJob(c, f) => HoldsJob(c, f)'
        <5>1. CallerKnows(c, f) => CallerKnows(c, f)'
          BY <1>2 DEF CallerKnows
        <5>2. HoldsJob(c, f) => HoldsJob(c, f)'
          BY <4>3, <1>2, <1>12, <1>14, SMTT(30) DEF HoldsJob, Holding
        <5> QED
          BY <5>1, <5>2
      <4> QED
        BY <4>1, <4>2, <4>3, <2>1, <1>2, <1>11 DEF Knows
    <3> QED
      BY <3>1, <3>2
  <2>3. Counters(f)'
    <3>1. outcome[f] = "running"
      BY <1>3 DEF Knows
    <3>2. \A k \in slots[f] : outputs'[f][k + 1] = 0
      BY <1>3, <1>12, <1>14 DEF FrameInv, Counters
    <3>3. \A k \in 0..(njobs[f] - 1) :
            /\ outputs'[f][k + 1] \in {0, 1}
            /\ outputs'[f][k + 1] = 1 => k < ready[f]
      BY <1>3, <1>12, <1>14 DEF FrameInv, Counters
    <3> QED
      BY <3>1, <3>2, <3>3, <2>1, <1>2, <1>3, <1>11 DEF FrameInv, Counters
  <2>4. Accounted(f)'
    <3> SUFFICES ASSUME ~unwound[f], NEW k \in 0..(njobs[f] - 1), k < next[f], outputs'[f][k + 1] = 0
                 PROVE  \E x \in Acts : act'[x].frame = f /\ Holding(act'[x]) /\ act'[x].job = k
      BY <1>2, <1>9 DEF Accounted
    <3>1. k # b.job /\ outputs[f][k + 1] = 0
      BY <1>14
    <3>2. PICK x \in Acts : act[x].frame = f /\ Holding(act[x]) /\ act[x].job = k
      BY <3>1, <1>3 DEF FrameInv, Accounted
    <3>3. x # x0
      BY <3>1, <3>2, <1>3
    <3> QED
      BY <3>2, <3>3, <1>10
  <2>5. Costs(f)'
    <3> SUFFICES ASSUME unwound[f] PROVE \E k \in 0..(njobs[f] - 1) : Dead(f, k)'
      BY <1>2 DEF Costs
    <3>1. PICK k \in 0..(njobs[f] - 1) : Dead(f, k)
      BY <1>3 DEF FrameInv, Costs
    <3>2. Stopped(f) => Stopped(f)'
      BY <1>1, <1>2, <1>3, <1>5, <1>9, <1>10 DEF Stopped
    <3>3. k # b.job
      BY <3>1, <1>1, <1>2, <1>3, <1>12 DEF Dead
    <3>4. \A x \in Acts : act'[x].pc = "job" => act'[x] = act[x]
      BY <1>7, <1>10
    <3>5. Dead(f, k)'
      BY <3>1, <3>2, <3>3, <3>4, <1>2, <1>9, <1>14 DEF Dead
    <3> QED
      BY <3>5
  <2> QED
    BY <2>2, <2>3, <2>4, <2>5, <1>9 DEF FrameInv
<1> QED
  BY <1>0, <1>1, <1>2, <1>5, <1>6, <1>8, <1>11, <1>13, <1>15, <1>17, GoesOn

(* The places of a frame's activities, as Activities collects them.        *)
LEMMA ActivitiesActs ==
    ASSUME TypeOK, NEW f
    PROVE  /\ Activities(f) = {x \in Acts : act[x].frame = f}
           /\ \A x \in Acts : stack[x[1]][x[2]] = act[x]
<1>1. \A x \in Acts : stack[x[1]][x[2]] = act[x]
  BY DEF act
<1>2. \A x : x \in Activities(f) <=>
         \E t \in Threads : \E i \in 1..Len(stack[t]) : stack[t][i].frame = f /\ x = <<t, i>>
  BY DEF Activities
<1>3. \A x : x \in Acts <=> \E t \in Threads : \E i \in 1..Len(stack[t]) : x = <<t, i>>
  BY DEF Acts
<1>4. ASSUME NEW x PROVE x \in Activities(f) <=> x \in Acts /\ act[x].frame = f
  <2>1. ASSUME x \in Activities(f) PROVE x \in Acts /\ act[x].frame = f
    <3>0. PICK t \in Threads : \E i \in 1..Len(stack[t]) : stack[t][i].frame = f /\ x = <<t, i>>
      BY <2>1, <1>2
    <3>1. PICK i \in 1..Len(stack[t]) : stack[t][i].frame = f /\ x = <<t, i>>
      BY <3>0
    <3>2. <<t, i>> \in Acts /\ act[<<t, i>>] = stack[t][i]
      BY <3>1, Places
    <3> QED
      BY <3>1, <3>2
  <2>2. ASSUME x \in Acts, act[x].frame = f PROVE x \in Activities(f)
    <3>0. PICK t \in Threads : \E i \in 1..Len(stack[t]) : x = <<t, i>>
      BY <2>2, <1>3
    <3>1. PICK i \in 1..Len(stack[t]) : x = <<t, i>>
      BY <3>0
    <3>2. act[x] = stack[t][i]
      BY <3>1, Places
    <3> QED
      BY <3>1, <3>2, <2>2, <1>2
  <2> QED
    BY <2>1, <2>2
<1> QED
  BY <1>1, <1>4

(* The scope ends when nobody is left in it but its caller.                *)
LEMMA ReturnInv ==
    ASSUME IndInv, NEW t \in Threads, Return(t)
    PROVE  IndInv'
<1>0. PICK b \in Activity, x0 \in Acts : b = Top(t) /\ x0 = TopOf(t)
  BY TopKnows DEF Return, At
<1>1. PICK f \in Frames : f = b.frame
  BY DEF Activity
<1>2. /\ ~Idle(t) /\ b.pc = "scope" /\ queued[f] = {} /\ Runners(f) = {}
      /\ outcome' = [outcome EXCEPT ![f] = IF unwound[f] THEN "panic" ELSE "ok"]
      /\ stack' = [stack EXCEPT ![t] = Front(@)]
      /\ UNCHANGED <<inJob, queued, njobs, next, prepared, slots, pool, unwound, ready,
                     outputs, calls, panics>>
  BY <1>0, <1>1 DEF Return, At
<1>3. /\ TypeOK /\ StackInv /\ RoleOK(b) /\ act[x0] = b /\ FrameInv(f) /\ Knows(x0, f)
      /\ act \in [Acts -> Activity]
  BY <1>0, <1>1, <1>2, TopKnows, Places
<1>4. b.role = "caller" /\ ~Holding(b)
  BY <1>2, <1>3 DEF RoleOK, Holding, Activity
<1>5. /\ stack' \in [Threads -> Seq(Activity)] /\ Acts' = Acts \ {x0}
      /\ act' = [x \in Acts \ {x0} |-> act[x]]
  BY <1>0, <1>2, <1>3, PopActs
<1>6. StackInv'
  <2>1. inJob' = [inJob EXCEPT ![t] = IF b.pc = "job" THEN b.saved ELSE @]
    BY <1>2, <1>3 DEF TypeOK
  <2> QED
    BY <2>1, <1>0, <1>2, <1>3, PopStack
<1>7. \A x \in Acts : act[x].frame = f => x = x0
  <2>1. \A x \in Acts : act[x].frame = f => act[x].role # "runner"
    BY <1>2, <1>3, ActivitiesActs DEF Runners
  <2>2. ASSUME NEW x \in Acts, act[x].frame = f PROVE x = x0
    <3>1. act[x].role = "caller" /\ Apart(x, x0)
      BY <2>1, <2>2, <1>3 DEF Activity, StackInv
    <3> QED
      BY <3>1, <2>2, <1>1, <1>3, <1>4 DEF Apart
  <2> QED
    BY <2>2
<1>8. \A x \in Acts' : act'[x].frame # f
  BY <1>5, <1>7
<1>9. /\ outcome' \in [Frames -> {"none", "running", "ok", "panic"}]
      /\ outcome'[f] = IF unwound[f] THEN "panic" ELSE "ok"
      /\ \A g \in Frames \ {f} : outcome'[g] = outcome[g]
      /\ njobs[f] \in Nat /\ next[f] \in Nat
  BY <1>2, <1>3 DEF TypeOK
<1>10. TypeOK'
  BY <1>2, <1>3, <1>5, <1>9 DEF TypeOK
<1>11. ~unwound[f] => \A k \in 0..(njobs[f] - 1) : outputs[f][k + 1] = 1
  <2> SUFFICES ASSUME ~unwound[f], NEW k \in 0..(njobs[f] - 1) PROVE outputs[f][k + 1] = 1
    OBVIOUS
  <2>1. CASE b.parallel
    <3>1. next[f] >= njobs[f]
      BY <2>1, <1>2, <1>3, <1>4 DEF Knows, CallerKnows
    <3>2. k < next[f]
      BY <3>1, <1>9
    <3>3. outputs[f][k + 1] # 0
      BY <3>2, <1>3, <1>4, <1>7 DEF FrameInv, Accounted
    <3> QED
      BY <3>3, <1>3 DEF FrameInv, Counters
  <2>2. CASE ~b.parallel
    <3>1. njobs[f] = 1 /\ outputs[f][1] = 1
      BY <2>2, <1>2, <1>3 DEF Knows, SerialKnows
    <3>2. k = 0
      BY <3>1
    <3> QED
      BY <3>1, <3>2
  <2> QED
    BY <2>1, <2>2
<1>12. FrameInv(f)'
  <2>1. Counters(f)'
    BY <1>2, <1>3, <1>9, <1>11 DEF FrameInv, Counters
  <2>2. Accounted(f)'
    BY <1>2, <1>11 DEF Accounted
  <2>3. Costs(f)'
    <3> SUFFICES ASSUME unwound[f] PROVE \E k \in 0..(njobs[f] - 1) : Dead(f, k)'
      BY <1>2 DEF Costs
    <3>1. PICK k \in 0..(njobs[f] - 1) : Dead(f, k)
      BY <1>3 DEF FrameInv, Costs
    <3>2. Stopped(f)'
      BY <1>8 DEF Stopped
    <3>3. Dead(f, k)'
      BY <3>1, <3>2, <1>2, <1>8 DEF Dead
    <3> QED
      BY <3>3
  <2> QED
    BY <2>1, <2>2, <2>3, <1>8 DEF FrameInv
<1> QED
  BY <1>0, <1>1, <1>2, <1>6, <1>9, <1>10, <1>12, IsDone

(* An activity of frame f starts.                                          *)
LEMMA Starts ==
    ASSUME IndInv, NEW t \in Threads, NEW a \in Activity, Push(t, a), NEW f \in Frames,
           f = a.frame, StackInv', TypeOK',
           \A g \in Frames \ {f} :
              /\ queued'[g] = queued[g] /\ njobs'[g] = njobs[g] /\ next'[g] = next[g]
              /\ prepared'[g] = prepared[g] /\ slots'[g] = slots[g] /\ pool'[g] = pool[g]
              /\ outcome'[g] = outcome[g] /\ unwound'[g] = unwound[g] /\ ready'[g] = ready[g]
              /\ outputs'[g] = outputs[g],
           FrameInv(f)'
    PROVE  IndInv'
<1> DEFINE x0 == <<t, Len(stack[t]) + 1>>
<1>1. /\ Acts' = Acts \cup {x0} /\ x0 \notin Acts
      /\ act' = [x \in Acts \cup {x0} |-> IF x = x0 THEN a ELSE act[x]]
  BY PushActs DEF IndInv
<1> HIDE DEF x0
<1>2. ASSUME NEW g \in Frames, g # f PROVE FrameInv(g)'
  <2>1. Untouched(g)
    BY <1>1, <1>2 DEF Untouched
  <2> QED
    BY <2>1, FrameKept DEF IndInv
<1> QED
  BY <1>2 DEF IndInv

(* A pool has a thread.                                                    *)
LEMMA SomeThread == Cardinality(Threads) \in Nat /\ Cardinality(Threads) >= 1
<1>1. IsFiniteSet(Threads) /\ Threads # {}
  BY JobQueueConstants
<1>2. Cardinality(Threads) \in Nat /\ (Cardinality(Threads) = 0 <=> Threads = {})
  BY <1>1, FS_CardinalityType, FS_EmptySet
<1> QED
  BY <1>1, <1>2

(* A runner that starts finds its frame running.                           *)
LEMMA TakeRunnerInv ==
    ASSUME IndInv, NEW t \in Threads, NEW f \in Frames, TakeRunner(t, f)
    PROVE  IndInv'
<1> DEFINE a == [frame |-> f, role |-> "runner", parallel |-> TRUE, pc |-> "begin",
                 job |-> 0, saved |-> FALSE]
           x0 == <<t, Len(stack[t]) + 1>>
<1>1. /\ Idle(t) \/ Waiting(t)
      /\ t \in queued[f] /\ queued' = [queued EXCEPT ![f] = @ \ {t}] /\ Push(t, a)
      /\ UNCHANGED <<inJob, njobs, next, prepared, slots, pool, outcome, unwound, ready,
                     outputs, calls, panics>>
  BY DEF TakeRunner
<1>2. TypeOK /\ StackInv /\ FrameInv(f) /\ act \in [Acts -> Activity]
  BY Places DEF IndInv
<1>3. /\ a \in Activity /\ a.frame = f /\ a.role = "runner" /\ a.parallel /\ a.pc = "begin"
  BY DEF Activity
<1> HIDE DEF a
<1>4. /\ stack' \in [Threads -> Seq(Activity)] /\ Acts' = Acts \cup {x0} /\ x0 \notin Acts
      /\ act' = [x \in Acts \cup {x0} |-> IF x = x0 THEN a ELSE act[x]]
  BY <1>1, <1>2, <1>3, PushActs
<1>5. PICK y0 : y0 = x0
  OBVIOUS
<1>6. /\ Acts' = Acts \cup {y0} /\ y0 \notin Acts /\ act'[y0] = a
      /\ \A x \in Acts : act'[x] = act[x]
  BY <1>4, <1>5
<1> HIDE DEF x0
<1>7. /\ queued' \in [Frames -> SUBSET Threads] /\ queued'[f] \subseteq queued[f]
      /\ \A g \in Frames \ {f} : queued'[g] = queued[g]
  BY <1>1, <1>2 DEF TypeOK
<1>8. TypeOK'
  BY <1>1, <1>2, <1>4, <1>7 DEF TypeOK
<1>9. /\ outcome[f] = "running" /\ Shared(f) /\ pool[f].capacity >= 1
  BY <1>1, <1>2, SomeThread DEF FrameInv, Counters, Shared
<1>10. \A y \in Acts : act[y].frame = f => act[y].parallel
  BY <1>1, <1>2 DEF FrameInv, Knows, SerialKnows
<1>11. RoleOK(a) /\ ~Holding(a)
  BY <1>3 DEF RoleOK, Holding
<1>12. StackInv'
  BY <1>1, <1>2, <1>3, <1>10, <1>11, PushStack
<1>13. FrameInv(f)'
  <2>1. ASSUME NEW x \in Acts', act'[x].frame = f PROVE Knows(x, f)'
    <3>1. CASE x = y0
      <4>1. HoldsJob(a, f)'
        BY <1>3, <1>11 DEF HoldsJob
      <4> QED
        BY <4>1, <3>1, <1>1, <1>3, <1>6, <1>9 DEF Knows, Shared
    <3>2. CASE x # y0
      <4>1. x \in Acts /\ act'[x] = act[x] /\ act[x].frame = f
        BY <3>2, <2>1, <1>6
      <4>2. Knows(x, f) /\ act[x].parallel
        BY <4>1, <1>2, <1>10 DEF FrameInv
      <4> QED
        BY <4>1, <4>2, <1>1 DEF Knows, Shared, CallerKnows, HoldsJob
    <3> QED
      BY <3>1, <3>2
  <2>2. Counters(f)'
    BY <1>1, <1>2, <1>9 DEF FrameInv, Counters, Shared
  <2>3. Accounted(f)'
    BY <1>1, <1>2, <1>6 DEF FrameInv, Accounted
  <2>4. Costs(f)'
    <3> SUFFICES ASSUME unwound[f] PROVE \E k \in 0..(njobs[f] - 1) : Dead(f, k)'
      BY <1>1 DEF Costs
    <3>1. PICK k \in 0..(njobs[f] - 1) : Dead(f, k)
      BY <1>2 DEF FrameInv, Costs
    <3>2. Stopped(f) => Stopped(f)'
      BY <1>1, <1>3, <1>6 DEF Stopped
    <3>3. \A x \in Acts' : act'[x].pc = "job" => x \in Acts /\ act'[x] = act[x]
      BY <1>3, <1>6
    <3>4. Dead(f, k)'
      BY <3>1, <3>2, <3>3, <1>1 DEF Dead
    <3> QED
      BY <3>4
  <2> QED
    BY <2>1, <2>2, <2>3, <2>4 DEF FrameInv
<1> QED
  BY <1>1, <1>3, <1>7, <1>8, <1>12, <1>13, Starts

(* A call starts on a frame nobody is in.                                  *)
LEMMA CallInv ==
    ASSUME IndInv, NEW t \in Threads, NEW f \in Frames, NEW n \in JobCounts,
           NEW parallel \in BOOLEAN, Call(t, f, n, parallel)
    PROVE  IndInv'
<1> DEFINE a == [frame |-> f, role |-> "caller", parallel |-> parallel, pc |-> "prepare",
                 job |-> 0, saved |-> FALSE]
           x0 == <<t, Len(stack[t]) + 1>>
<1>1. /\ Idle(t) \/ Waiting(t)
      /\ outcome[f] # "running" /\ (n > 1 => parallel)
      /\ outcome' = [outcome EXCEPT ![f] = "running"]
      /\ calls' = [calls EXCEPT ![f] = @ + 1]
      /\ pool' = [pool EXCEPT ![f] = Expand(@, IF parallel THEN Cardinality(Threads) ELSE 1)]
      /\ njobs' = [njobs EXCEPT ![f] = n]
      /\ next' = [next EXCEPT ![f] = 0]
      /\ prepared' = [prepared EXCEPT ![f] = 0]
      /\ slots' = [slots EXCEPT ![f] = 0..(n - 1)]
      /\ queued' = [queued EXCEPT ![f] = IF n > 1 THEN Threads ELSE {}]
      /\ unwound' = [unwound EXCEPT ![f] = FALSE]
      /\ ready' = [ready EXCEPT ![f] = 0]
      /\ outputs' = [outputs EXCEPT ![f] = [k \in 1..n |-> 0]]
      /\ Push(t, a) /\ UNCHANGED <<inJob, panics>>
  BY DEF Call
<1>2. TypeOK /\ StackInv /\ FrameInv(f) /\ act \in [Acts -> Activity]
  BY Places DEF IndInv
<1>3. /\ a \in Activity /\ a.frame = f /\ a.role = "caller" /\ a.parallel = parallel
      /\ a.pc = "prepare" /\ a.job = 0
  BY DEF Activity
<1>4. n \in Nat /\ n >= 1
  BY JobQueueConstants
<1> HIDE DEF a
<1>5. /\ stack' \in [Threads -> Seq(Activity)] /\ Acts' = Acts \cup {x0} /\ x0 \notin Acts
      /\ act' = [x \in Acts \cup {x0} |-> IF x = x0 THEN a ELSE act[x]]
  BY <1>1, <1>2, <1>3, PushActs
<1>6. PICK y0 : y0 = x0
  OBVIOUS
<1>7. /\ Acts' = Acts \cup {y0} /\ y0 \notin Acts /\ act'[y0] = a
      /\ \A x \in Acts : act'[x] = act[x]
  BY <1>5, <1>6
<1> HIDE DEF x0
<1>8. \A x \in Acts : act[x].frame # f
  BY <1>1, <1>2 DEF FrameInv, Knows
<1>9. /\ outcome'[f] = "running" /\ njobs'[f] = n /\ next'[f] = 0 /\ prepared'[f] = 0
      /\ slots'[f] = 0..(n - 1) /\ queued'[f] = (IF n > 1 THEN Threads ELSE {})
      /\ unwound'[f] = FALSE /\ ready'[f] = 0
  BY <1>1, <1>2 DEF TypeOK
<1>10. /\ outputs'[f] = [k \in 1..n |-> 0] /\ outputs' = [g \in Frames |-> outputs'[g]]
       /\ \A g \in Frames \ {f} : outputs'[g] = outputs[g]
  <2> DEFINE u == [k \in 1..n |-> 0]
  <2> HIDE DEF u
  <2>1. DOMAIN outputs = Frames
    BY <1>2 DEF TypeOK
  <2>2. outputs' = [g \in Frames |-> IF g = f THEN u ELSE outputs[g]]
    BY <2>1, <1>1 DEF u
  <2>3. outputs'[f] = u /\ \A g \in Frames \ {f} : outputs'[g] = outputs[g]
    BY <2>2
  <2>4. outputs' = [g \in Frames |-> outputs'[g]]
    BY <2>2
  <2> QED
    BY <2>3, <2>4 DEF u
<1>11. /\ pool' \in [Frames -> [free: Nat, capacity: Nat]]
       /\ \A g \in Frames \ {f} : pool'[g] = pool[g]
       /\ pool'[f].capacity >= 1 /\ pool'[f].capacity <= Cardinality(Threads)
       /\ parallel => pool'[f].capacity = Cardinality(Threads)
  <2> DEFINE w == IF parallel THEN Cardinality(Threads) ELSE 1
  <2>1. /\ w \in Nat /\ w >= 1 /\ w <= Cardinality(Threads) /\ (parallel => w = Cardinality(Threads))
        /\ Cardinality(Threads) \in Nat
    BY SomeThread
  <2>2. pool[f] \in [free: Nat, capacity: Nat] /\ pool[f].capacity <= Cardinality(Threads)
    BY <1>2 DEF TypeOK, FrameInv, Counters
  <2> HIDE DEF w
  <2>3. /\ Expand(pool[f], w) \in [free: Nat, capacity: Nat]
        /\ Expand(pool[f], w).capacity = IF pool[f].capacity >= w THEN pool[f].capacity ELSE w
    BY <2>1, <2>2 DEF Expand
  <2>4. pool' = [pool EXCEPT ![f] = Expand(pool[f], w)]
    BY <1>1 DEF w
  <2> QED
    BY <2>1, <2>2, <2>3, <2>4, <1>2 DEF TypeOK
<1>12. TypeOK'
  <2>1. \A g \in Frames : outputs'[g] \in [1..njobs'[g] -> Nat]
    BY <1>1, <1>2, <1>9, <1>10 DEF TypeOK
  <2>2. slots' \in [Frames -> SUBSET Nat] /\ queued' \in [Frames -> SUBSET Threads]
    BY <1>1, <1>2, <1>4 DEF TypeOK
  <2>3. /\ njobs' \in [Frames -> Nat] /\ next' \in [Frames -> Nat] /\ ready' \in [Frames -> Nat]
        /\ prepared' \in [Frames -> Int] /\ calls' \in [Frames -> Nat]
    BY <1>1, <1>2, <1>4 DEF TypeOK
  <2>4. /\ outcome' \in [Frames -> {"none", "running", "ok", "panic"}]
        /\ unwound' \in [Frames -> BOOLEAN] /\ inJob' \in [Threads -> BOOLEAN] /\ panics' \in Nat
    BY <1>1, <1>2 DEF TypeOK
  <2> QED
    BY <2>1, <2>2, <2>3, <2>4, <1>5, <1>10, <1>11 DEF TypeOK
<1>13. StackInv'
  <2>1. RoleOK(a)
    BY <1>3 DEF RoleOK
  <2> QED
    BY <2>1, <1>1, <1>2, <1>3, <1>8, PushStack
<1>14. FrameInv(f)'
  <2>1. parallel => Shared(f)'
    BY <1>9, <1>11 DEF Shared
  <2>2. ASSUME NEW x \in Acts', act'[x].frame = f PROVE Knows(x, f)'
    <3>1. x = y0 /\ act'[x] = a
      BY <2>2, <1>7, <1>8
    <3>2. ~parallel => n = 1
      BY <1>1, <1>4
    <3>3. ~a.parallel => SerialKnows(a, f)'
      <4>1. n = 1 => 0..(n - 1) = {0}
        BY <1>4
      <4> QED
        BY <4>1, <3>2, <1>3, <1>9 DEF SerialKnows
    <3>4. CallerKnows(a, f)' /\ HoldsJob(a, f)'
      BY <1>3, <1>4, <1>9 DEF CallerKnows, HoldsJob, Holding
    <3> QED
      BY <3>1, <3>3, <3>4, <2>1, <1>3, <1>9, <1>11 DEF Knows
  <2>3. Counters(f)'
    <3>1. \A k \in 0..(n - 1) : outputs'[f][k + 1] = 0
      BY <1>4, <1>10
    <3> QED
      BY <3>1, <2>1, <1>1, <1>4, <1>9, <1>11 DEF Counters, Unwound
  <2>4. Accounted(f)' /\ Costs(f)'
    BY <1>9 DEF Accounted, Costs
  <2> QED
    BY <2>2, <2>3, <2>4 DEF FrameInv
<1>15. \A g \in Frames \ {f} :
          /\ queued'[g] = queued[g] /\ njobs'[g] = njobs[g] /\ next'[g] = next[g]
          /\ prepared'[g] = prepared[g] /\ slots'[g] = slots[g]
          /\ outcome'[g] = outcome[g] /\ unwound'[g] = unwound[g] /\ ready'[g] = ready[g]
  BY <1>1, <1>2 DEF TypeOK
<1>16. Push(t, a)
  BY <1>1
<1> QED
  BY <1>3, <1>10, <1>11, <1>12, <1>13, <1>14, <1>15, <1>16, Starts

-----------------------------------------------------------------------------
(* The invariant, and what it says *)

(* Every step keeps the invariant.                                         *)
LEMMA NextInv == IndInv /\ [Next]_vars => IndInv'
<1> SUFFICES ASSUME IndInv, [Next]_vars PROVE IndInv'
  OBVIOUS
<1>1. CASE UNCHANGED vars
  <2>1. Acts' = Acts /\ act' = act
    BY <1>1 DEF vars, Acts, act
  <2>2. TypeOK'
    BY <1>1 DEF IndInv, TypeOK, vars
  <2>3. StackInv'
    BY <2>1, <1>1 DEF IndInv, StackInv, RoleOK, Stacked, Apart, Marked, vars
  <2>4. ASSUME NEW g \in Frames PROVE FrameInv(g)'
    <3>1. Untouched(g)
      BY <2>1, <1>1 DEF Untouched, vars
    <3> QED
      BY <3>1, FrameKept DEF IndInv
  <2> QED
    BY <2>2, <2>3, <2>4 DEF IndInv
<1>2. ASSUME NEW t \in Threads, NEW f \in Frames, NEW n \in JobCounts, NEW parallel \in BOOLEAN,
             Call(t, f, n, parallel)
      PROVE  IndInv'
  BY <1>2, CallInv
<1>3. ASSUME NEW t \in Threads, ThreadStep(t) PROVE IndInv'
  <2>1. CASE \E f \in Frames : TakeRunner(t, f)
    BY <2>1, TakeRunnerInv
  <2>2. CASE Prepare(t) \/ PrepareUnwinds(t) \/ PublishSet(t) \/ PublishNotify(t)
    BY <2>2, PrepareInv, PrepareUnwindsInv, PublishSetInv, PublishNotifyInv
  <2>3. CASE Begin(t) \/ Claim(t) \/ Check(t) \/ Return(t)
    BY <2>3, BeginInv, ClaimInv, CheckInv, ReturnInv
  <2>4. CASE StartJob(t) \/ FinishJob(t) \/ JobUnwinds(t)
    BY <2>4, StartJobInv, FinishJobInv, JobUnwindsInv
  <2> QED
    BY <2>1, <2>2, <2>3, <2>4, <1>3 DEF ThreadStep
<1> QED
  BY <1>1, <1>2, <1>3 DEF Next

(* It holds when nothing runs.                                             *)
LEMMA InitInv == Init => IndInv
<1> SUFFICES ASSUME Init PROVE IndInv
  OBVIOUS
<1>1. \A t \in Threads : stack[t] = <<>>
  BY DEF Init
<1>2. Acts = {}
  BY <1>1 DEF Acts
<1>3. TypeOK
  <2>1. stack \in [Threads -> Seq(Activity)]
    BY DEF Init
  <2>2. outputs = [f \in Frames |-> outputs[f]] /\ \A f \in Frames : outputs[f] = <<>>
    BY DEF Init
  <2>3. \A f \in Frames : njobs[f] = 0
    BY DEF Init
  <2>4. \A f \in Frames : outputs[f] \in [1..njobs[f] -> Nat]
    <3>1. <<>> \in Seq(Nat) /\ Len(<<>>) = 0
      OBVIOUS
    <3>2. <<>> \in [1..0 -> Nat]
      BY <3>1, LenProperties
    <3> QED
      BY <3>2, <2>2, <2>3
  <2>5. pool \in [Frames -> [free: Nat, capacity: Nat]]
    BY DEF Init
  <2> QED
    BY <2>1, <2>2, <2>4, <2>5 DEF Init, TypeOK
<1>4. StackInv
  <2>1. \A t \in Threads : ~inJob[t]
    BY DEF Init
  <2> QED
    BY <2>1, <1>2 DEF StackInv, Marked
<1>5. ASSUME NEW f \in Frames PROVE FrameInv(f)
  <2>1. /\ queued[f] = {} /\ njobs[f] = 0 /\ prepared[f] = 0 /\ ready[f] = 0 /\ slots[f] = {}
        /\ outcome[f] = "none" /\ ~unwound[f] /\ pool[f].capacity = 0
    BY DEF Init
  <2>2. Counters(f)
    BY <2>1, SomeThread DEF Counters, Unwound
  <2> QED
    BY <2>1, <2>2, <1>2 DEF FrameInv, Accounted, Costs
<1> QED
  BY <1>3, <1>4, <1>5 DEF IndInv

(* The invariant holds throughout.                                         *)
LEMMA InvHolds == Spec => []IndInv
BY InitInv, NextInv, PTL DEF Spec

(* A job starts with its slot still there and after its own prepare, on    *)
(* any number of threads and whatever frames share them.                   *)
THEOREM JobsStartPrepared == Spec => []ClaimedJobIsReady
<1>1. IndInv => ClaimedJobIsReady
  <2> SUFFICES ASSUME IndInv, NEW t \in Threads, At(t, "start")
               PROVE  /\ Top(t).job \in slots[Top(t).frame]
                      /\ Top(t).job < ready[Top(t).frame]
    BY DEF ClaimedJobIsReady
  <2>1. ~Idle(t) /\ Top(t).pc = "start"
    BY DEF At
  <2>2. Knows(TopOf(t), Top(t).frame) /\ act[TopOf(t)] = Top(t)
    BY <2>1, TopKnows
  <2> QED
    BY <2>1, <2>2 DEF Knows, HoldsJob
<1> QED
  BY <1>1, InvHolds, PTL

(* A call that returns left nobody in its queue, and wrote every output    *)
(* once or had a job or a prepare unwind.                                  *)
THEOREM CallsComplete == Spec => []CallComplete
<1>1. IndInv => CallComplete
  <2> SUFFICES ASSUME IndInv, NEW f \in Frames, outcome[f] \in {"ok", "panic"}
               PROVE  /\ Activities(f) = {} /\ queued[f] = {}
                      /\ outcome[f] = "ok" => \A k \in 1..njobs[f] : outputs[f][k] = 1
                      /\ outcome[f] = "panic" => \E k \in 1..njobs[f] : outputs[f][k] = 0
    BY DEF CallComplete
  <2>1. TypeOK /\ FrameInv(f) /\ njobs[f] \in Nat
    BY DEF IndInv, TypeOK
  <2>2. \A x \in Acts : act[x].frame # f
    BY <2>1 DEF FrameInv, Knows
  <2>3. Activities(f) = {}
    BY <2>1, <2>2, ActivitiesActs
  <2>4. queued[f] = {}
    BY <2>1 DEF FrameInv, Counters
  <2>5. ASSUME outcome[f] = "ok", NEW k \in 1..njobs[f] PROVE outputs[f][k] = 1
    <3>1. k - 1 \in 0..(njobs[f] - 1) /\ (k - 1) + 1 = k
      BY <2>1
    <3>2. outputs[f][(k - 1) + 1] = 1
      BY <3>1, <2>1, <2>5 DEF FrameInv, Counters
    <3> QED
      BY <3>1, <3>2
  <2>6. ASSUME outcome[f] = "panic" PROVE \E k \in 1..njobs[f] : outputs[f][k] = 0
    <3>1. PICK k \in 0..(njobs[f] - 1) : outputs[f][k + 1] = 0
      BY <2>1, <2>6 DEF FrameInv, Counters, Costs, Dead
    <3>2. k + 1 \in 1..njobs[f]
      BY <2>1
    <3> QED
      BY <3>1, <3>2
  <2> QED
    BY <2>3, <2>4, <2>5, <2>6
<1> QED
  BY <1>1, InvHolds, PTL

(* A thread is in one job of a frame at a time, and IN_JOB says whether it *)
(* is in a job, through any nesting of frames and any unwinding.           *)
THEOREM OneJobAtATime == Spec => []OneJobPerThread
<1>1. IndInv => OneJobPerThread
  <2> SUFFICES ASSUME IndInv, NEW t \in Threads
               PROVE  /\ \A f \in Frames : Cardinality(Running(f, t)) <= 1
                      /\ inJob[t] <=> \E i \in 1..Len(stack[t]) :
                                         stack[t][i].pc = "job" /\ stack[t][i].parallel
    BY DEF OneJobPerThread
  <2>1. TypeOK /\ StackInv /\ act \in [Acts -> Activity] /\ Len(stack[t]) \in Nat
    BY Places DEF IndInv
  <2>2. \A i \in 1..Len(stack[t]) : <<t, i>> \in Acts /\ act[<<t, i>>] = stack[t][i]
    BY <2>1, Places
  <2>3. \A y \in Acts : y[1] = t => y[2] \in 1..Len(stack[t]) /\ y = <<t, y[2]>>
    BY <2>1, Places
  <2>4. inJob[t] <=> \E i \in 1..Len(stack[t]) : stack[t][i].pc = "job" /\ stack[t][i].parallel
    <3>1. (\E y \in Acts : y[1] = t /\ Marking(act[y]))
             <=> \E i \in 1..Len(stack[t]) : stack[t][i].pc = "job" /\ stack[t][i].parallel
      <4>1. ASSUME NEW y \in Acts, y[1] = t, Marking(act[y])
            PROVE  \E i \in 1..Len(stack[t]) : stack[t][i].pc = "job" /\ stack[t][i].parallel
        <5>1. PICK i \in 1..Len(stack[t]) : y = <<t, i>>
          BY <4>1, <2>3
        <5> QED
          BY <5>1, <4>1, <2>2 DEF Marking
      <4>2. ASSUME NEW i \in 1..Len(stack[t]), stack[t][i].pc = "job", stack[t][i].parallel
            PROVE  \E y \in Acts : y[1] = t /\ Marking(act[y])
        <5>1. <<t, i>> \in Acts /\ Marking(act[<<t, i>>]) /\ <<t, i>>[1] = t
          BY <4>2, <2>2 DEF Marking
        <5> QED
          BY <5>1
      <4> QED
        BY <4>1, <4>2
    <3> QED
      BY <3>1, <2>1 DEF StackInv, Marked
  <2>5. ASSUME NEW f \in Frames PROVE Cardinality(Running(f, t)) <= 1
    <3>1. ASSUME NEW i \in Running(f, t), NEW j \in Running(f, t), i < j PROVE FALSE
      <4> DEFINE y == <<t, i>>
                 x == <<t, j>>
      <4>1. /\ y \in Acts /\ x \in Acts /\ i \in 1..Len(stack[t]) /\ j \in 1..Len(stack[t])
            /\ act[y].frame = f /\ act[y].pc = "job" /\ act[x].frame = f /\ act[x].pc = "job"
        BY <2>2 DEF Running
      <4>2. Lower(y, x) /\ x # y /\ y[2] # Len(stack[y[1]])
        BY <4>1, <3>1, <2>1 DEF Lower
      <4> HIDE DEF x, y
      <4>3. Stacked(x) /\ Stacked(y) /\ act[x] \in Activity
        BY <4>1, <2>1 DEF StackInv
      <4>4. Marking(act[y])
        BY <4>1, <4>2, <4>3 DEF Stacked
      <4>5. act[x].role = "runner"
        BY <4>1, <4>2, <4>3 DEF Stacked, Activity
      <4> QED
        BY <4>1, <4>2, <4>3, <4>4, <4>5 DEF Stacked
    <3>2. \A i, j \in Running(f, t) : i = j
      <4>1. \A i \in Running(f, t) : i \in Nat
        BY <2>1 DEF Running
      <4> QED
        BY <4>1, <3>1
    <3>3. CASE Running(f, t) = {}
      BY <3>3, FS_EmptySet
    <3>4. CASE Running(f, t) # {}
      <4>1. PICK i : Running(f, t) = {i}
        BY <3>2, <3>4
      <4>2. Cardinality({i}) = 1
        BY FS_Singleton
      <4>3. Cardinality(Running(f, t)) = 1
        BY <4>1, <4>2
      <4> QED
        BY <4>3
    <3> QED
      BY <3>3, <3>4
  <2> QED
    BY <2>4, <2>5
<1> QED
  BY <1>1, InvHolds, PTL

-----------------------------------------------------------------------------
(***************************************************************************)
(* The ContextPool of a frame: with jobs of one thread excluding each      *)
(* other, the contexts in jobs and the free ones never outnumber the       *)
(* pool's capacity, so give_back never drops one.                          *)
(***************************************************************************)

(* The free contexts and the ones in jobs fit into the pool.               *)
Pooled == \A f \in Frames : Contexts(f) <= pool[f].capacity

(* The places where a frame's jobs run.                                    *)
Jobs == \A f : InUse(f) = {x \in Acts : act[x].frame = f /\ act[x].pc = "job"}

(* They are the activities in a job.                                       *)
LEMMA InUseActs == TypeOK => Jobs
BY ActivitiesActs DEF InUse, Jobs

(* Two jobs of a frame run on two threads.                                 *)
LEMMA JobsOnThreads ==
    ASSUME IndInv, NEW f, NEW x \in InUse(f), NEW y \in InUse(f), x[1] = y[1]
    PROVE  x = y
<1>1. /\ x \in Acts /\ y \in Acts /\ act[x].frame = f /\ act[x].pc = "job"
      /\ act[y].frame = f /\ act[y].pc = "job" /\ StackInv
  BY InUseActs DEF IndInv, Jobs
<1>2. /\ x = <<x[1], x[2]>> /\ y = <<y[1], y[2]>> /\ x[2] \in Nat /\ y[2] \in Nat
      /\ x[2] <= Len(stack[x[1]]) /\ y[2] <= Len(stack[y[1]])
      /\ Len(stack[x[1]]) \in Nat /\ act[x] \in Activity /\ act[y] \in Activity
  BY <1>1, Places DEF IndInv
<1>3. ASSUME NEW u \in Acts, NEW v \in Acts, u[1] = v[1], u[2] < v[2],
             u[2] \in Nat, v[2] \in Nat, v[2] <= Len(stack[v[1]]), Len(stack[v[1]]) \in Nat,
             act[u].frame = f, act[v].frame = f, act[u].pc = "job", act[v].pc = "job",
             act[v] \in Activity
      PROVE  FALSE
  <2>1. Stacked(u) /\ Stacked(v) /\ Lower(u, v) /\ u[2] # Len(stack[u[1]])
    BY <1>1, <1>3 DEF StackInv, Lower
  <2>2. Marking(act[u])
    BY <2>1, <1>3 DEF Stacked
  <2>3. act[v].role = "runner"
    BY <2>1, <1>3 DEF Stacked, Activity
  <2> QED
    BY <2>1, <2>2, <2>3, <1>3 DEF Stacked
<1>4. ~(x[2] < y[2])
  BY <1>1, <1>2, <1>3
<1>5. ~(y[2] < x[2])
  BY <1>1, <1>2, <1>3
<1> QED
  BY <1>2, <1>4, <1>5

(* So a frame has at most a job per thread.                                *)
LEMMA InUseBound ==
    ASSUME IndInv, NEW f
    PROVE  /\ IsFiniteSet(InUse(f)) /\ Cardinality(InUse(f)) \in Nat
           /\ Cardinality(InUse(f)) <= Cardinality(Threads)
<1> DEFINE S == InUse(f)
           h == [x \in S |-> x[1]]
<1>1. \A x \in S : x[1] \in Threads
  BY InUseActs, Places DEF IndInv, Jobs
<1>2. h \in Injection(S, Threads)
  <2>1. h \in [S -> Threads]
    BY <1>1
  <2>2. \A x, y \in S : h[x] = h[y] => x = y
    BY JobsOnThreads
  <2> QED
    BY <2>1, <2>2 DEF Injection, IsInjective
<1> HIDE DEF h
<1>3. IsFiniteSet(Threads)
  BY JobQueueConstants
<1>4. IsFiniteSet(S) /\ Cardinality(S) <= Cardinality(Threads)
  BY <1>2, <1>3, FS_Injection
<1> QED
  BY <1>4, FS_CardinalityType

(* The jobs after the running activity goes on.                            *)
LEMMA InUseBecome ==
    ASSUME TypeOK, TypeOK', NEW t \in Threads, ~Idle(t), NEW a \in Activity, Become(t, a),
           a.frame = Top(t).frame, NEW f
    PROVE  /\ a.pc = "job" /\ f = a.frame => InUse(f)' = InUse(f) \cup {TopOf(t)}
           /\ a.pc # "job" => InUse(f)' = InUse(f) \ {TopOf(t)}
           /\ f # a.frame => InUse(f)' = InUse(f)
           /\ TopOf(t) \in InUse(f) <=> f = a.frame /\ Top(t).pc = "job"
<1>1. PICK x0 \in Acts : x0 = TopOf(t) /\ act[x0] = Top(t)
  BY Places
<1>2. Acts' = Acts /\ act' = [act EXCEPT ![x0] = a] /\ act \in [Acts -> Activity]
  BY <1>1, BecomeActs, Places
<1>3. act'[x0] = a /\ \A x \in Acts : x # x0 => act'[x] = act[x]
  BY <1>2
<1>4. InUse(f) = {x \in Acts : act[x].frame = f /\ act[x].pc = "job"}
  BY InUseActs DEF Jobs
<1>5. InUse(f)' = {x \in Acts' : act'[x].frame = f /\ act'[x].pc = "job"}
  <2>1. TypeOK' => Jobs'
    BY InUseActs, PTL
  <2> QED
    BY <2>1 DEF Jobs
<1> QED
  BY <1>1, <1>2, <1>3, <1>4, <1>5

(* The jobs after the running activity goes on outside its jobs.           *)
LEMMA GotoQuiet ==
    ASSUME TypeOK, TypeOK', NEW t \in Threads, ~Idle(t), Top(t).pc # "job",
           NEW a \in Activity, Become(t, a), a.frame = Top(t).frame, a.pc # "job", NEW f
    PROVE  InUse(f)' = InUse(f)
<1>1. InUse(f)' = InUse(f) \ {TopOf(t)} /\ TopOf(t) \notin InUse(f)
  BY InUseBecome
<1> QED
  BY <1>1

(* The jobs after the running activity is done.                            *)
LEMMA InUsePop ==
    ASSUME TypeOK, TypeOK', NEW t \in Threads, ~Idle(t), stack' = [stack EXCEPT ![t] = Front(@)],
           NEW f
    PROVE  /\ InUse(f)' = InUse(f) \ {TopOf(t)}
           /\ TopOf(t) \in InUse(f) <=> f = Top(t).frame /\ Top(t).pc = "job"
<1>1. PICK x0 \in Acts : x0 = TopOf(t) /\ act[x0] = Top(t)
  BY Places
<1>2. Acts' = Acts \ {x0} /\ \A x \in Acts' : act'[x] = act[x]
  BY <1>1, PopActs
<1>3. InUse(f) = {x \in Acts : act[x].frame = f /\ act[x].pc = "job"}
  BY InUseActs DEF Jobs
<1>4. InUse(f)' = {x \in Acts' : act'[x].frame = f /\ act'[x].pc = "job"}
  <2>1. TypeOK' => Jobs'
    BY InUseActs, PTL
  <2> QED
    BY <2>1 DEF Jobs
<1> QED
  BY <1>1, <1>2, <1>3, <1>4

(* The jobs after an activity returns or unwinds to its task.              *)
LEMMA InUseLeave ==
    ASSUME IndInv, IndInv', NEW t \in Threads, ~Idle(t), Leave(t), NEW f
    PROVE  /\ InUse(f)' = InUse(f) \ {TopOf(t)}
           /\ TopOf(t) \in InUse(f) <=> f = Top(t).frame /\ Top(t).pc = "job"
<1>1. TypeOK /\ TypeOK' /\ Top(t) \in Activity
  BY TopKnows DEF IndInv
<1>2. CASE Top(t).role = "caller"
  <2>1. PICK a \in Activity : a = [Top(t) EXCEPT !.pc = "scope"] /\ a.pc = "scope" /\ a.frame = Top(t).frame
    BY <1>1, GotoFields, ZenonT(30)
  <2>2. Become(t, a)
    BY <2>1, <1>2 DEF Leave, Goto
  <2> QED
    BY <2>1, <2>2, <1>1, InUseBecome
<1>3. CASE Top(t).role # "caller"
  BY <1>1, <1>3, InUsePop DEF Leave
<1> QED
  BY <1>2, <1>3

(* The jobs after an activity starts.                                      *)
LEMMA InUsePush ==
    ASSUME TypeOK, TypeOK', NEW t \in Threads, NEW a \in Activity, Push(t, a), a.pc # "job", NEW f
    PROVE  InUse(f)' = InUse(f)
<1> DEFINE x0 == <<t, Len(stack[t]) + 1>>
<1>1. /\ Acts' = Acts \cup {x0} /\ x0 \notin Acts
      /\ act' = [x \in Acts \cup {x0} |-> IF x = x0 THEN a ELSE act[x]]
  BY PushActs
<1> HIDE DEF x0
<1>2. act'[x0] = a /\ \A x \in Acts : act'[x] = act[x]
  BY <1>1
<1>3. InUse(f) = {x \in Acts : act[x].frame = f /\ act[x].pc = "job"}
  BY InUseActs DEF Jobs
<1>4. InUse(f)' = {x \in Acts' : act'[x].frame = f /\ act'[x].pc = "job"}
  <2>1. TypeOK' => Jobs'
    BY InUseActs, PTL
  <2> QED
    BY <2>1 DEF Jobs
<1> QED
  BY <1>1, <1>2, <1>3, <1>4

(* Neither a publish nor its wakes start or end a job.                     *)
LEMMA InUseNotify ==
    ASSUME IndInv, IndInv', NEW t \in Threads, PublishNotify(t), NEW f
    PROVE  InUse(f)' = InUse(f)
<1>1. TypeOK /\ TypeOK' /\ StackInv /\ ~Idle(t) /\ Top(t).pc = "notify"
  BY DEF IndInv, PublishNotify, At
<1>2. PICK b \in Activity, x0 \in Acts : b = Top(t) /\ x0 = TopOf(t) /\ act[x0] = b
  BY <1>1, TopKnows
<1>3. /\ Acts' = Acts
      /\ \A x \in Acts : x # x0 =>
            act'[x] = IF act[x].frame = b.frame /\ act[x].pc = "wait"
                      THEN [act[x] EXCEPT !.pc = "check"] ELSE act[x]
      /\ \E pc \in {"scope", "prepare", "claim"} : act'[x0] = [b EXCEPT !.pc = pc]
  <2>1. LET c == Top(t)
            g == c.frame
            pd == IF prepared[g] = Unwound THEN "scope"
                  ELSE IF ready[g] < njobs[g] THEN "prepare" ELSE "claim"
        IN  /\ stack' \in [Threads -> Seq(Activity)] /\ Acts' = Acts
            /\ \A s \in Threads : Len(stack'[s]) = Len(stack[s])
            /\ act'[TopOf(t)] = [c EXCEPT !.pc = pd]
            /\ \A x \in Acts : x # TopOf(t) =>
                  act'[x] = IF act[x].frame = g /\ act[x].pc = "wait"
                            THEN [act[x] EXCEPT !.pc = "check"] ELSE act[x]
    BY <1>1, NotifyActs
  <2> QED
    BY <2>1, <1>2
<1>4. act'[x0].pc # "job" /\ act[x0].pc # "job"
  BY <1>1, <1>2, <1>3 DEF Activity
<1>5. ASSUME NEW x \in Acts, x # x0
      PROVE  act'[x].frame = act[x].frame /\ (act'[x].pc = "job" <=> act[x].pc = "job")
  <2>1. PICK c \in Activity : c = act[x]
    BY <1>1, Places
  <2>2. CASE c.frame = b.frame /\ c.pc = "wait"
    <3>1. act'[x] = [c EXCEPT !.pc = "check"]
      BY <2>1, <2>2, <1>3, <1>5
    <3> QED
      BY <3>1, <2>1, <2>2, GotoFields
  <2>3. CASE ~(c.frame = b.frame /\ c.pc = "wait")
    BY <2>1, <2>3, <1>3, <1>5
  <2> QED
    BY <2>2, <2>3
<1>6. InUse(f) = {x \in Acts : act[x].frame = f /\ act[x].pc = "job"}
  BY <1>1, InUseActs DEF Jobs
<1>7. InUse(f)' = {x \in Acts' : act'[x].frame = f /\ act'[x].pc = "job"}
  <2>1. TypeOK' => Jobs'
    BY InUseActs, PTL
  <2> QED
    BY <2>1, <1>1 DEF Jobs
<1>8. Acts' = Acts
  BY <1>3
<1>9. \A x \in Acts : act'[x].frame = f /\ act'[x].pc = "job" <=> act[x].frame = f /\ act[x].pc = "job"
  BY <1>4, <1>5
<1> QED
  BY <1>6, <1>7, <1>8, <1>9

(* What a step does to the contexts of frame f when it neither starts nor  *)
(* ends one of its jobs.                                                   *)
Quiet(f) ==
    /\ InUse(f)' = InUse(f) /\ pool'[f].free = pool[f].free
    /\ pool'[f].capacity >= pool[f].capacity

(* Most steps are quiet.                                                   *)
LEMMA QuietSteps ==
    ASSUME IndInv, IndInv', NEW t \in Threads, NEW f \in Frames,
           \/ Prepare(t) \/ PrepareUnwinds(t) \/ PublishSet(t) \/ PublishNotify(t)
           \/ \E g \in Frames : TakeRunner(t, g)
           \/ Begin(t) \/ Claim(t) \/ Check(t) \/ Return(t)
    PROVE  Quiet(f)
<1>1. TypeOK /\ TypeOK' /\ pool[f] \in [free: Nat, capacity: Nat]
  BY DEF IndInv, TypeOK
<1>2. ASSUME ~Idle(t), Top(t).pc # "job",
             NEW pc \in {"begin", "prepare", "publish", "notify", "claim", "check",
                         "wait", "start", "scope"}, Goto(t, pc)
      PROVE  InUse(f)' = InUse(f)
  <2>1. Top(t) \in Activity
    BY <1>2, TopKnows
  <2>a. PICK b \in Activity : b = Top(t)
    BY <2>1
  <2>b. pc \in {"begin", "prepare", "publish", "notify", "claim", "check", "wait", "start",
               "job", "scope"}
    OBVIOUS
  <2>c. [b EXCEPT !.pc = pc] \in Activity /\ [b EXCEPT !.pc = pc].pc = pc
        /\ [b EXCEPT !.pc = pc].frame = b.frame
    BY <2>b, GotoFields, ZenonT(30)
  <2>2. PICK a \in Activity : a = [Top(t) EXCEPT !.pc = pc] /\ a.pc = pc /\ a.frame = Top(t).frame
    BY <2>a, <2>c
  <2>3. Become(t, a)
    BY <2>2, <1>2 DEF Goto
  <2> QED
    BY <2>2, <2>3, <1>1, <1>2, GotoQuiet
<1>3. ASSUME ~Idle(t), Top(t).pc # "job", Leave(t)
      PROVE  InUse(f)' = InUse(f)
  <2>1. InUse(f)' = InUse(f) \ {TopOf(t)} /\ TopOf(t) \notin InUse(f)
    BY <1>3, InUseLeave
  <2> QED
    BY <2>1
<1>4. pool' = pool
  BY DEF Prepare, PrepareUnwinds, PublishSet, PublishNotify, TakeRunner, Begin, Claim, Check, Return
<1>5. CASE Prepare(t)
  <2>1. PICK pc \in {"publish", "start"} : Goto(t, pc)
    BY <1>5 DEF Prepare
  <2> QED
    BY <2>1, <1>1, <1>2, <1>4, <1>5 DEF Prepare, At, Quiet
<1>6. CASE PrepareUnwinds(t)
  <2>1. PICK pc \in {"publish", "scope"} : Goto(t, pc)
    BY <1>6 DEF PrepareUnwinds
  <2> QED
    BY <2>1, <1>1, <1>2, <1>4, <1>6 DEF PrepareUnwinds, At, Quiet
<1>7. CASE PublishSet(t)
  BY <1>1, <1>2, <1>4, <1>7 DEF PublishSet, At, Quiet
<1>8. CASE PublishNotify(t)
  BY <1>1, <1>4, <1>8, InUseNotify DEF Quiet
<1>9. CASE \E g \in Frames : TakeRunner(t, g)
  <2>1. PICK g \in Frames : TakeRunner(t, g)
    BY <1>9
  <2>2. PICK a \in Activity : Push(t, a) /\ a.pc # "job"
    <3> DEFINE a == [frame |-> g, role |-> "runner", parallel |-> TRUE, pc |-> "begin",
                     job |-> 0, saved |-> FALSE]
    <3>1. a \in Activity /\ a.pc # "job"
      BY DEF Activity
    <3>2. Push(t, a)
      BY <2>1 DEF TakeRunner
    <3> QED
      BY <3>1, <3>2
  <2> QED
    BY <2>2, <1>1, <1>4, InUsePush DEF Quiet
<1>10. CASE Begin(t)
  BY <1>1, <1>2, <1>3, <1>4, <1>10 DEF Begin, At, Quiet
<1>11. CASE Claim(t)
  <2>1. ~Idle(t) /\ Top(t).pc = "claim" /\ Top(t) \in Activity
    BY <1>11, TopKnows DEF Claim, At
  <2>2. CASE Leave(t)
    BY <2>1, <2>2, <1>1, <1>3, <1>4 DEF Quiet
  <2>3. CASE Become(t, [Top(t) EXCEPT !.pc = "check", !.job = next[Top(t).frame]])
    <3>0. PICK b \in Activity, n \in Nat : b = Top(t) /\ n = next[Top(t).frame]
      BY <2>1, <1>1 DEF TypeOK, Activity
    <3>1. [b EXCEPT !.pc = "check", !.job = n] \in Activity
      BY DEF Activity
    <3>2. PICK a \in Activity : /\ a = [Top(t) EXCEPT !.pc = "check", !.job = next[Top(t).frame]]
                                /\ a.pc = "check" /\ a.frame = Top(t).frame
      BY <3>0, <3>1 DEF Activity
    <3>3. Become(t, a)
      BY <3>2, <2>3
    <3>4. InUse(f)' = InUse(f)
      BY <3>2, <3>3, <2>1, <1>1, GotoQuiet
    <3> QED
      BY <3>4, <1>1, <1>4 DEF Quiet
  <2> QED
    BY <2>2, <2>3, <1>11 DEF Claim
<1>12. CASE Check(t)
  <2>1. ~Idle(t) /\ Top(t).pc = "check"
    BY <1>12 DEF Check, At
  <2>2. CASE Leave(t)
    BY <2>1, <2>2, <1>1, <1>3, <1>4 DEF Quiet
  <2>3. CASE ~Leave(t)
    <3>1. PICK pc \in {"start", "wait"} : Goto(t, pc)
      BY <2>3, <1>12 DEF Check
    <3> QED
      BY <3>1, <2>1, <1>1, <1>2, <1>4 DEF Quiet
  <2> QED
    BY <2>2, <2>3
<1>13. CASE Return(t)
  <2>1. ~Idle(t) /\ Top(t).pc = "scope" /\ stack' = [stack EXCEPT ![t] = Front(@)]
    BY <1>13 DEF Return, At
  <2>2. InUse(f)' = InUse(f) \ {TopOf(t)} /\ TopOf(t) \notin InUse(f)
    BY <2>1, <1>1, InUsePop
  <2>3. InUse(f)' = InUse(f)
    BY <2>2
  <2> QED
    BY <2>3, <1>1, <1>4 DEF Quiet
<1> QED
  BY <1>5, <1>6, <1>7, <1>8, <1>9, <1>10, <1>11, <1>12, <1>13

(* So is a call: a new frame finds the contexts of the last one.           *)
LEMMA QuietCall ==
    ASSUME IndInv, IndInv', NEW t \in Threads, NEW f \in Frames, NEW g \in Frames,
           NEW n \in JobCounts, NEW parallel \in BOOLEAN, Call(t, g, n, parallel)
    PROVE  Quiet(f)
<1>1. TypeOK /\ TypeOK' /\ pool[f] \in [free: Nat, capacity: Nat] /\ pool \in [Frames -> [free: Nat, capacity: Nat]]
  BY DEF IndInv, TypeOK
<1>2. InUse(f)' = InUse(f)
  <2> DEFINE a == [frame |-> g, role |-> "caller", parallel |-> parallel, pc |-> "prepare",
                   job |-> 0, saved |-> FALSE]
  <2>1. a \in Activity /\ a.pc # "job"
    BY DEF Activity
  <2>2. Push(t, a)
    BY DEF Call
  <2> HIDE DEF a
  <2> QED
    BY <2>1, <2>2, <1>1, InUsePush
<1>3. pool'[f].free = pool[f].free /\ pool'[f].capacity >= pool[f].capacity
  <2> DEFINE w == IF parallel THEN Cardinality(Threads) ELSE 1
  <2>1. w \in Nat
    BY SomeThread
  <2>2. pool' = [pool EXCEPT ![g] = Expand(pool[g], w)]
    BY DEF Call
  <2> HIDE DEF w
  <2>3. pool[g] \in [free: Nat, capacity: Nat]
    BY <1>1
  <2>4. Expand(pool[g], w).free = pool[g].free /\ Expand(pool[g], w).capacity >= pool[g].capacity
    BY <2>1, <2>3 DEF Expand
  <2> QED
    BY <2>2, <2>4, <1>1
<1> QED
  BY <1>2, <1>3 DEF Quiet

(* What InUseBound says, of a state.                                       *)
Bounded ==
    \A f \in Frames : /\ IsFiniteSet(InUse(f)) /\ Cardinality(InUse(f)) \in Nat
                      /\ Cardinality(InUse(f)) <= Cardinality(Threads)

(* And it holds.                                                           *)
LEMMA InUseBounded == IndInv => Bounded
BY InUseBound DEF Bounded

(* The contexts of a frame stay the same in a quiet step.                  *)
LEMMA QuietContexts ==
    ASSUME IndInv, IndInv', Pooled, NEW f \in Frames, Quiet(f)
    PROVE  Contexts(f)' <= pool'[f].capacity /\ Contexts(f)' = Contexts(f)
<1>1. /\ pool[f] \in [free: Nat, capacity: Nat] /\ pool'[f] \in [free: Nat, capacity: Nat]
      /\ Cardinality(InUse(f)) \in Nat
  BY InUseBound DEF IndInv, TypeOK
<1>2. Contexts(f)' = Contexts(f)
  BY DEF Contexts, Quiet
<1> QED
  BY <1>1, <1>2 DEF Pooled, Quiet, Contexts

(* A job that starts takes a free context, or finds room for a new one: no *)
(* other job of the frame runs on its thread.                              *)
LEMMA StartJobContexts ==
    ASSUME IndInv, IndInv', Pooled, NEW f \in Frames, NEW t \in Threads, StartJob(t)
    PROVE  Contexts(f)' <= pool'[f].capacity /\ Contexts(f)' >= Contexts(f)
<1>0. PICK b \in Activity, x0 \in Acts : b = Top(t) /\ x0 = TopOf(t)
  BY TopKnows DEF StartJob, At
<1>1. PICK g \in Frames : g = b.frame
  BY DEF Activity
<1>2. /\ ~Idle(t) /\ b.pc = "start" /\ pool' = [pool EXCEPT ![g] = Take(@)]
      /\ Become(t, [b EXCEPT !.pc = "job", !.saved = inJob[t]])
  BY <1>0, <1>1 DEF StartJob, At
<1>3. /\ TypeOK /\ TypeOK' /\ StackInv /\ act[x0] = b /\ Knows(x0, g)
      /\ pool \in [Frames -> [free: Nat, capacity: Nat]]
  BY <1>0, <1>1, <1>2, TopKnows DEF IndInv, TypeOK
<1>4. PICK v \in BOOLEAN : v = inJob[t]
  BY <1>3 DEF TypeOK
<1>5. PICK a \in Activity : a = [b EXCEPT !.pc = "job", !.saved = v] /\ a.pc = "job" /\ a.frame = g
  <2>1. [b EXCEPT !.pc = "job", !.saved = v] \in Activity
    BY DEF Activity
  <2> QED
    BY <2>1, <1>1 DEF Activity
<1>6. Become(t, a)
  BY <1>2, <1>4, <1>5
<1>7. CASE f # g
  <2>1. InUse(f)' = InUse(f)
    BY <1>0, <1>1, <1>2, <1>3, <1>5, <1>6, <1>7, InUseBecome
  <2>2. pool'[f] = pool[f] /\ pool[f].capacity \in Nat
    BY <1>2, <1>3, <1>7
  <2>3. Quiet(f)
    BY <2>1, <2>2 DEF Quiet
  <2>4. Contexts(f) \in Int
    BY <1>3, InUseBound DEF Contexts
  <2> QED
    BY <2>3, <2>4, QuietContexts
<1>8. CASE f = g
  <2>1. InUse(f)' = InUse(f) \cup {x0} /\ x0 \notin InUse(f)
    BY <1>0, <1>1, <1>2, <1>3, <1>5, <1>6, <1>8, InUseBecome
  <2>2. IsFiniteSet(InUse(f)) /\ Cardinality(InUse(f)) \in Nat
    BY InUseBound
  <2>3. Cardinality(InUse(f)') = Cardinality(InUse(f)) + 1
    BY <2>1, <2>2, FS_AddElement
  <2>4. Cardinality(InUse(f)') <= Cardinality(Threads)
    <3>1. IndInv' => Bounded'
      BY InUseBounded, PTL
    <3> QED
      BY <3>1 DEF Bounded
  <2>5. Cardinality(InUse(f)) + 1 <= pool[f].capacity
    <3>1. CASE b.parallel
      <4>1. pool[f].capacity = Cardinality(Threads)
        BY <3>1, <1>3, <1>8 DEF Knows, Shared
      <4> QED
        BY <4>1, <2>3, <2>4
    <3>2. CASE ~b.parallel
      <4>1. \A x \in Acts : act[x].frame = f => x = x0
        BY <3>2, <1>1, <1>3, <1>8 DEF StackInv, Apart
      <4>2. InUse(f) = {}
        BY <4>1, <1>2, <1>3, InUseActs DEF Jobs
      <4>3. Cardinality(InUse(f)) = 0
        BY <4>2, FS_EmptySet
      <4> QED
        BY <4>3, <1>3, <1>8 DEF Knows
    <3> QED
      BY <3>1, <3>2
  <2>6. pool[f] \in [free: Nat, capacity: Nat] /\ pool'[f] = Take(pool[f])
    BY <1>2, <1>3, <1>8
  <2>7. /\ pool'[f].capacity = pool[f].capacity
        /\ pool'[f].free = IF pool[f].free > 0 THEN pool[f].free - 1 ELSE 0
    BY <2>6 DEF Take
  <2>8. pool[f].free + Cardinality(InUse(f)) <= pool[f].capacity
    BY DEF Pooled, Contexts
  <2>9. Contexts(f)' = pool'[f].free + Cardinality(InUse(f)')
    BY DEF Contexts
  <2> QED
    BY <2>2, <2>3, <2>5, <2>6, <2>7, <2>8, <2>9 DEF Contexts
<1> QED
  BY <1>7, <1>8

(* A job that ends puts its context back, for which there is room.         *)
LEMMA FinishJobContexts ==
    ASSUME IndInv, IndInv', Pooled, NEW f \in Frames, NEW t \in Threads, FinishJob(t)
    PROVE  Contexts(f)' <= pool'[f].capacity /\ Contexts(f)' >= Contexts(f)
<1>0. PICK b \in Activity, x0 \in Acts : b = Top(t) /\ x0 = TopOf(t)
  BY TopKnows DEF FinishJob, At
<1>1. PICK g \in Frames : g = b.frame
  BY DEF Activity
<1>2. /\ ~Idle(t) /\ b.pc = "job" /\ pool' = [pool EXCEPT ![g] = GiveBack(@)]
      /\ Become(t, [b EXCEPT !.pc = IF b.parallel THEN "claim" ELSE "scope"])
  BY <1>0, <1>1 DEF FinishJob, At, Goto
<1>3. /\ TypeOK /\ TypeOK' /\ pool \in [Frames -> [free: Nat, capacity: Nat]]
  BY DEF IndInv, TypeOK
<1>4. PICK pc \in {"claim", "scope"} : pc = IF b.parallel THEN "claim" ELSE "scope"
  OBVIOUS
<1>5. PICK a \in Activity : a = [b EXCEPT !.pc = pc] /\ a.pc # "job" /\ a.frame = g
  <2>1. [b EXCEPT !.pc = pc] \in Activity /\ [b EXCEPT !.pc = pc].pc = pc
        /\ [b EXCEPT !.pc = pc].frame = b.frame
    BY DEF Activity
  <2> QED
    BY <2>1, <1>1
<1>6. Become(t, a)
  BY <1>2, <1>4, <1>5
<1>7. CASE f # g
  <2>1. InUse(f)' = InUse(f)
    BY <1>0, <1>1, <1>2, <1>3, <1>5, <1>6, <1>7, InUseBecome
  <2>2. pool'[f] = pool[f] /\ pool[f].capacity \in Nat
    BY <1>2, <1>3, <1>7
  <2>3. Quiet(f)
    BY <2>1, <2>2 DEF Quiet
  <2>4. Contexts(f) \in Int
    BY <1>3, InUseBound DEF Contexts
  <2> QED
    BY <2>3, <2>4, QuietContexts
<1>8. CASE f = g
  <2>1. InUse(f)' = InUse(f) \ {x0} /\ x0 \in InUse(f)
    BY <1>0, <1>1, <1>2, <1>3, <1>5, <1>6, <1>8, InUseBecome
  <2>2. IsFiniteSet(InUse(f)) /\ Cardinality(InUse(f)) \in Nat
    BY InUseBound
  <2>3. Cardinality(InUse(f)') = Cardinality(InUse(f)) - 1
    BY <2>1, <2>2, FS_RemoveElement
  <2>4. Cardinality(InUse(f)) >= 1
    BY <2>1, <2>2, FS_EmptySet
  <2>5. pool[f] \in [free: Nat, capacity: Nat] /\ pool'[f] = GiveBack(pool[f])
    BY <1>2, <1>3, <1>8
  <2>6. /\ pool'[f].capacity = pool[f].capacity
        /\ pool'[f].free = IF pool[f].free < pool[f].capacity THEN pool[f].free + 1 ELSE pool[f].free
    BY <2>5 DEF GiveBack
  <2>7. pool[f].free + Cardinality(InUse(f)) <= pool[f].capacity
    BY DEF Pooled, Contexts
  <2>8. Contexts(f)' = pool'[f].free + Cardinality(InUse(f)')
    BY DEF Contexts
  <2> QED
    BY <2>2, <2>3, <2>4, <2>5, <2>6, <2>7, <2>8 DEF Contexts
<1> QED
  BY <1>7, <1>8

(* Only a job that unwinds drops a context.                                *)
LEMMA JobUnwindsContexts ==
    ASSUME IndInv, IndInv', Pooled, NEW f \in Frames, NEW t \in Threads, JobUnwinds(t)
    PROVE  Contexts(f)' <= pool'[f].capacity /\ panics' > panics
<1>1. ~Idle(t) /\ Leave(t) /\ pool' = pool /\ panics' = panics + 1 /\ panics \in Nat
      /\ pool[f] \in [free: Nat, capacity: Nat]
  BY DEF JobUnwinds, At, IndInv, TypeOK
<1>2. InUse(f)' = InUse(f) \ {TopOf(t)}
  BY <1>1, InUseLeave
<1>3. IsFiniteSet(InUse(f)) /\ Cardinality(InUse(f)) \in Nat
  BY InUseBound
<1>4. Cardinality(InUse(f)') \in Int /\ Cardinality(InUse(f)') <= Cardinality(InUse(f))
  BY <1>2, <1>3, FS_RemoveElement, SMTT(30)
<1>5. pool[f].free + Cardinality(InUse(f)) <= pool[f].capacity
  BY DEF Pooled, Contexts
<1>6. Contexts(f)' = pool'[f].free + Cardinality(InUse(f)')
  BY DEF Contexts
<1> QED
  BY <1>1, <1>3, <1>4, <1>5, <1>6

(* Every step keeps the contexts within the pool, and drops none unless a  *)
(* job unwinds.                                                            *)
LEMMA NextContexts ==
    ASSUME IndInv, IndInv', Pooled, [Next]_vars, NEW f \in Frames
    PROVE  /\ Contexts(f)' <= pool'[f].capacity
           /\ Contexts(f)' < Contexts(f) => panics' > panics
<1>1. Contexts(f) \in Int
  <2>1. Cardinality(InUse(f)) \in Nat
    BY InUseBound
  <2>2. pool[f].free \in Nat
    BY DEF IndInv, TypeOK
  <2> QED
    BY <2>1, <2>2 DEF Contexts
<1>2. CASE Quiet(f)
  BY <1>1, <1>2, QuietContexts
<1>3. CASE UNCHANGED vars
  <2>1. InUse(f)' = InUse(f) /\ pool' = pool
    BY <1>3 DEF vars, InUse, Activities
  <2>2. pool[f].capacity \in Nat
    BY DEF IndInv, TypeOK
  <2> QED
    BY <2>1, <2>2, <1>2 DEF Quiet
<1>4. ASSUME NEW t \in Threads, NEW g \in Frames, NEW n \in JobCounts, NEW parallel \in BOOLEAN,
             Call(t, g, n, parallel)
      PROVE  Quiet(f)
  BY <1>4, QuietCall
<1>5. ASSUME NEW t \in Threads, ThreadStep(t)
      PROVE  /\ Contexts(f)' <= pool'[f].capacity
             /\ Contexts(f)' < Contexts(f) => panics' > panics
  <2>1. Contexts(f)' \in Int
    <3>1. IndInv' => Bounded'
      BY InUseBounded, PTL
    <3>2. pool'[f].free \in Nat
      BY DEF IndInv, TypeOK
    <3> QED
      BY <3>1, <3>2 DEF Bounded, Contexts
  <2>2. CASE StartJob(t)
    BY <2>1, <2>2, <1>1, StartJobContexts
  <2>3. CASE FinishJob(t)
    BY <2>1, <2>3, <1>1, FinishJobContexts
  <2>4. CASE JobUnwinds(t)
    BY <2>4, JobUnwindsContexts
  <2>5. CASE ~(StartJob(t) \/ FinishJob(t) \/ JobUnwinds(t))
    <3>1. Quiet(f)
      BY <2>5, <1>5, QuietSteps DEF ThreadStep
    <3> QED
      BY <3>1, <1>2
  <2> QED
    BY <2>2, <2>3, <2>4, <2>5
<1> QED
  BY <1>2, <1>3, <1>4, <1>5 DEF Next

(* A frame holds at most a context per thread, in jobs and in its pool,    *)
(* and none is lost but to an unwinding job.                               *)
THEOREM ContextsStayBounded == Spec => ContextsBounded
<1> DEFINE Step == \A f \in Frames :
                      /\ Contexts(f)' <= Cardinality(Threads)
                      /\ Contexts(f)' < Contexts(f) => panics' > panics
<1>1. Init => Pooled
  <2> SUFFICES ASSUME Init, NEW f \in Frames PROVE Contexts(f) <= pool[f].capacity
    BY DEF Pooled
  <2>1. IndInv /\ Acts = {}
    <3>1. \A t \in Threads : stack[t] = <<>>
      BY DEF Init
    <3> QED
      BY <3>1, InitInv DEF Acts
  <2>2. InUse(f) = {}
    BY <2>1, InUseActs DEF IndInv, Jobs
  <2>3. Cardinality(InUse(f)) = 0
    BY <2>2, FS_EmptySet
  <2>4. pool[f].free = 0 /\ pool[f].capacity = 0
    BY DEF Init
  <2> QED
    BY <2>3, <2>4 DEF Contexts
<1>2. IndInv /\ IndInv' /\ Pooled /\ [Next]_vars => Pooled'
  BY NextContexts DEF Pooled
<1>3. IndInv /\ IndInv' /\ Pooled /\ [Next]_vars => [Step]_vars
  <2> SUFFICES ASSUME IndInv, IndInv', Pooled, [Next]_vars, NEW f \in Frames
               PROVE  /\ Contexts(f)' <= Cardinality(Threads)
                      /\ Contexts(f)' < Contexts(f) => panics' > panics
    OBVIOUS
  <2>1. /\ Contexts(f)' <= pool'[f].capacity /\ (Contexts(f)' < Contexts(f) => panics' > panics)
    BY NextContexts
  <2>2. pool'[f].capacity <= Cardinality(Threads) /\ pool'[f].capacity \in Nat
        /\ pool'[f].free \in Nat
    BY DEF IndInv, FrameInv, Counters, TypeOK
  <2>3. Contexts(f)' \in Int
    <3>1. IndInv' => Bounded'
      BY InUseBounded, PTL
    <3> QED
      BY <3>1, <2>2 DEF Bounded, Contexts
  <2> QED
    BY <2>1, <2>2, <2>3, SomeThread
<1>4. ContextsBounded <=> [][Step]_vars
  BY DEF ContextsBounded
<1> HIDE DEF Step
<1> QED
  BY <1>1, <1>2, <1>3, <1>4, InvHolds, PTL DEF Spec
=============================================================================
