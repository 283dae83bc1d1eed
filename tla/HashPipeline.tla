---------------------------- MODULE HashPipeline ----------------------------
(***************************************************************************)
(* tools/aura-hash/aura-hash.c: the pipelined checksum.  The files are     *)
(* dealt round robin to worker threads, each with its own engine, queue    *)
(* and slots; what one worker does with its share is modelled, as workers  *)
(* share nothing but the interrupt flag and the lock around stdout.        *)
(* Reads of one file complete in any order, the digest must be fed in      *)
(* file order: a chunk that arrives early stays in its slot (DONE) until   *)
(* those before it have been fed.                                          *)
(***************************************************************************)
EXTENDS Integers, Sequences, FiniteSets, SequencesExt

CONSTANTS
    Scenarios,      \* the command lines, with the CPUs of the machine
    ShortReads,     \* may a read return less than was asked?
    SectorSize,     \* SECTOR_SIZE
    MaxPipeline,    \* MAX_PIPELINE
    NoTask          \* a slot's task when it is NULL

VARIABLES
    config,         \* the command line
    pc,             \* where run_worker_pipeline and hash_pipeline are
    first,          \* is this the initial batch?
    at,             \* the slot the fill loop has reached
    feeding,        \* the task drain_completed is at work on
    task,           \* the worker's queue
    current,        \* queue.current, an index of task
    slot,           \* ctx.slots
    active_ops,     \* ctx.active_ops
    error,          \* ctx.error # 0
    interrupted,    \* g_interrupted
    ops,            \* the slots with a read in the kernel (external)
    printed         \* the digests written to stdout, per task

vars == <<config, pc, first, at, feeding, task, current, slot, active_ops,
          error, interrupted, ops, printed>>

parse_args(c) ==
    /\ c.depth \in 1..MaxPipeline
    /\ c.chunk > 0
    /\ Len(c.sources) >= 1
    /\ c.use_direct => c.chunk % SectorSize = 0

(***************************************************************************)
(* build_task_list: the first source that cannot be taken ends it; from a  *)
(* directory nftw_callback takes the regular files.                        *)
(***************************************************************************)
nftw_callback(s) == IF s.kind \in {"dir", "file"} THEN s.files ELSE <<>>

build_task_list(c) ==
    IF \E i \in DOMAIN c.sources :
            \/ c.sources[i].kind = "missing"
            \/ c.sources[i].kind = "dir" /\ ~c.recursive
    THEN <<>>
    ELSE FlattenSeq([i \in DOMAIN c.sources |-> nftw_callback(c.sources[i])])

(***************************************************************************)
(* run_multithreaded: no more workers than files, worker w gets the files  *)
(* whose position is w modulo the number of workers, in order.             *)
(***************************************************************************)
NumWorkers(c, files) ==
    IF c.cpus > Len(files) THEN Len(files) ELSE c.cpus

Share(files, n, w) ==
    [i \in 1 .. Cardinality({k \in DOMAIN files : (k - 1) % n = w}) |->
        files[(i - 1) * n + w + 1]]

add_file_task(size) ==
    [size |-> size, open |-> FALSE, read_offset |-> 0, hashed |-> <<>>,
     active |-> 0, reads_done |-> FALSE, done |-> FALSE]

FreeSlot == [state |-> "free", task |-> NoTask, offset |-> 0, bytes |-> 0]

Tasks == 1..Len(task)
Slots == 1..config.depth

Init ==
    /\ config \in {c \in Scenarios : parse_args(c)}
    /\ LET files == build_task_list(config)
           n     == NumWorkers(config, files)
       IN  IF files = <<>> THEN task = <<>>
           ELSE \E w \in 0 .. n - 1 :
                    task = [i \in DOMAIN Share(files, n, w) |->
                                add_file_task(Share(files, n, w)[i])]
    /\ pc = IF task = <<>> THEN "exited" ELSE "setup"
    /\ first = TRUE
    /\ at = 1
    /\ feeding = NoTask
    /\ current = 1
    /\ slot = [s \in Slots |-> FreeSlot]
    /\ active_ops = 0
    /\ error = FALSE
    /\ interrupted = FALSE
    /\ ops = {}
    /\ printed = [t \in Tasks |-> {}]

\* run_worker_pipeline up to hash_pipeline: the engine and the buffers.
Setup ==
    /\ pc = "setup"
    /\ \/ pc' = "fill" /\ UNCHANGED error
       \/ pc' = "exited" /\ error' = TRUE
    /\ UNCHANGED <<config, first, at, feeding, task, current, slot, active_ops,
                   interrupted, ops, printed>>

sigint_handler ==
    /\ pc # "exited"
    /\ ~interrupted
    /\ interrupted' = TRUE
    /\ UNCHANGED <<config, pc, first, at, feeding, task, current, slot,
                   active_ops, error, ops, printed>>

----------------------------------------------------------------------------
(***************************************************************************)
(* submit_next_read for slot `at`, one task of its recursion per step.     *)
(***************************************************************************)
finalize_task(t) == [printed EXCEPT ![t] = @ \union {task[t].hashed}]

NextTask ==
    LET open == {t \in Tasks : /\ t >= current
                               /\ ~task[t].reads_done /\ ~task[t].done}
    IN  IF open = {} THEN NoTask
        ELSE CHOOSE t \in open : \A u \in open : t <= u

Filling ==
    /\ pc = "fill"
    /\ at \in Slots
    /\ ~error /\ ~interrupted
    /\ first \/ slot[at].state = "free"

FillPassed ==
    /\ pc = "fill"
    /\ at \in Slots
    /\ first => Filling
    /\ Filling => NextTask = NoTask
    /\ at' = at + 1
    /\ UNCHANGED <<config, pc, first, feeding, task, current, slot, active_ops,
                   error, interrupted, ops, printed>>

OpenFails ==
    /\ Filling
    /\ NextTask # NoTask
    /\ ~task[NextTask].open
    /\ task' = [task EXCEPT ![NextTask].reads_done = TRUE,
                            ![NextTask].done = TRUE]
    /\ current' = NextTask + 1
    /\ UNCHANGED <<config, pc, first, at, feeding, slot, active_ops, error,
                   interrupted, ops, printed>>

SubmitEmpty ==
    /\ Filling
    /\ NextTask # NoTask
    /\ task[NextTask].size = 0
    /\ task' = [task EXCEPT ![NextTask].reads_done = TRUE,
                            ![NextTask].done = TRUE]
    /\ printed' = finalize_task(NextTask)
    /\ current' = NextTask + 1
    /\ UNCHANGED <<config, pc, first, at, feeding, slot, active_ops, error,
                   interrupted, ops>>

Chunk(t) ==
    IF task[t].read_offset + config.chunk > task[t].size
    THEN task[t].size - task[t].read_offset ELSE config.chunk

\* The counters move only after aura_read has returned; a full ring polls
\* for completions before that (pc = "draining").
ReadBegins ==
    LET t == NextTask
        n == Chunk(t)
        last == task[t].read_offset + n >= task[t].size
    IN  /\ Filling
        /\ t # NoTask
        /\ task[t].size > 0
        /\ slot' = [slot EXCEPT ![at] = [state |-> "reading", task |-> t,
                        offset |-> task[t].read_offset, bytes |-> n]]
        /\ task' = [task EXCEPT ![t].open = TRUE, ![t].read_offset = @ + n,
                                ![t].reads_done = last]
        /\ current' = IF last THEN t + 1 ELSE current
        /\ pc' = IF Cardinality(ops) < config.limit
                 THEN "reading" ELSE "draining"
        /\ UNCHANGED <<config, first, at, feeding, active_ops, error,
                       interrupted, ops, printed>>

ReadSubmitted ==
    LET t == slot[at].task
    IN  /\ pc \in {"reading", "draining"}
        /\ feeding = NoTask
        /\ Cardinality(ops) < config.limit
        /\ ops' = ops \union {at}
        /\ active_ops' = active_ops + 1
        /\ task' = [task EXCEPT ![t].active = @ + 1]
        /\ pc' = "fill"
        /\ at' = at + 1
        /\ UNCHANGED <<config, first, feeding, current, slot, error,
                       interrupted, printed>>

ReadRejected ==
    LET t == slot[at].task
    IN  /\ pc \in {"reading", "draining"}
        /\ feeding = NoTask
        /\ error' = TRUE
        /\ slot' = [slot EXCEPT ![at].state = "free", ![at].task = NoTask]
        /\ task' = [task EXCEPT ![t].read_offset = @ - slot[at].bytes]
        /\ pc' = "fill"
        /\ at' = at + 1
        /\ UNCHANGED <<config, first, feeding, current, active_ops,
                       interrupted, ops, printed>>

----------------------------------------------------------------------------
Polling == pc \in {"wait", "drain", "draining"} /\ feeding = NoTask

(***************************************************************************)
(* on_read_complete: a failed read, or one of a file cut short since it    *)
(* was stat'ed, which is no error, frees its slot; a good one makes it     *)
(* DONE and runs drain_completed on its task.                              *)
(***************************************************************************)
ReadFails ==
    \E s \in ops, result \in config.read_errors :
        LET t == slot[s].task
        IN  /\ Polling
            /\ error' = (error \/ result < 0)
            /\ slot' = [slot EXCEPT ![s].state = "free", ![s].task = NoTask]
            /\ active_ops' = active_ops - 1
            /\ task' = [task EXCEPT ![t].active = @ - 1]
            /\ ops' = ops \ {s}
            /\ UNCHANGED <<config, pc, first, at, feeding, current,
                           interrupted, printed>>

ReadSizes(s) == {slot[s].bytes} \union
                (IF ShortReads THEN 1..slot[s].bytes ELSE {})

ReadArrives ==
    \E s \in ops :
        /\ Polling
        /\ \E n \in ReadSizes(s) :
            slot' = [slot EXCEPT ![s].state = "done", ![s].bytes = n]
        /\ feeding' = slot[s].task
        /\ ops' = ops \ {s}
        /\ UNCHANGED <<config, pc, first, at, task, current, active_ops, error,
                       interrupted, printed>>

(***************************************************************************)
(* drain_completed: each round feeds the slot that holds the next bytes,   *)
(* until there is none; then the file may be complete.                     *)
(***************************************************************************)
\* Fault: whatever has arrived is fed.
Feedable_Any(t) == {s \in Slots : slot[s].state = "done" /\ slot[s].task = t}

Feedable(t) ==
    {s \in Slots : /\ slot[s].state = "done" /\ slot[s].task = t
                   /\ slot[s].offset = Len(task[t].hashed)}

Bytes(s) == [i \in 1..slot[s].bytes |-> slot[s].offset + i - 1]

\* Fault: a slot that was fed stays counted.
Retired_Never(n) == n

Retired(n) == n - 1

FeedChunk ==
    /\ feeding # NoTask
    /\ \E s \in Feedable(feeding) :
        /\ task' = [task EXCEPT ![feeding].hashed = @ \o Bytes(s),
                                ![feeding].active = @ - 1]
        /\ slot' = [slot EXCEPT ![s].state = "free", ![s].task = NoTask]
        /\ active_ops' = Retired(active_ops)
    /\ UNCHANGED <<config, pc, first, at, feeding, current, error, interrupted,
                   ops, printed>>

\* Fault: complete as soon as the last read has been submitted.
FullyHashed_Submitted(t) == task[t].reads_done /\ ~task[t].done

FullyHashed(t) == task[t].reads_done /\ task[t].active = 0 /\ ~task[t].done

FeedEnds ==
    /\ feeding # NoTask
    /\ Feedable(feeding) = {}
    /\ IF FullyHashed(feeding)
       THEN /\ printed' = finalize_task(feeding)
            /\ task' = [task EXCEPT ![feeding].open = FALSE,
                                    ![feeding].done = TRUE]
       ELSE UNCHANGED <<printed, task>>
    /\ feeding' = NoTask
    /\ UNCHANGED <<config, pc, first, at, current, slot, active_ops, error,
                   interrupted, ops>>

----------------------------------------------------------------------------
all_tasks_done == \A t \in Tasks : task[t].done

LoopHead ==
    /\ pc = "fill"
    /\ at \notin Slots \/ (first /\ (error \/ interrupted))
    /\ first' = FALSE
    /\ pc' = IF all_tasks_done \/ error \/ interrupted THEN "drain" ELSE "wait"
    /\ UNCHANGED <<config, at, feeding, task, current, slot, active_ops, error,
                   interrupted, ops, printed>>

WaitReturns ==
    /\ pc = "wait"
    /\ feeding = NoTask
    /\ \/ pc' = "fill" /\ at' = 1 /\ UNCHANGED error
       \/ pc' = "drain" /\ error' = TRUE /\ UNCHANGED at
    /\ UNCHANGED <<config, first, feeding, task, current, slot, active_ops,
                   interrupted, ops, printed>>

Exit ==
    /\ pc = "drain"
    /\ feeding = NoTask
    /\ active_ops <= 0
    /\ pc' = "exited"
    /\ UNCHANGED <<config, first, at, feeding, task, current, slot, active_ops,
                   error, interrupted, ops, printed>>

Callback == ReadFails \/ ReadArrives

Main ==
    \/ Setup \/ FillPassed \/ OpenFails \/ SubmitEmpty
    \/ ReadBegins \/ ReadSubmitted \/ ReadRejected
    \/ FeedChunk \/ FeedEnds \/ LoopHead \/ WaitReturns \/ Exit

Next == Main \/ Callback \/ sigint_handler

\* The worker keeps running and the kernel completes the reads it holds.
Fairness == WF_vars(Main) /\ SF_vars(Callback)

Spec == Init /\ [][Next]_vars /\ Fairness

----------------------------------------------------------------------------
(***************************************************************************)
(* The digest is fed the file in order and without a gap, whatever the     *)
(* order the reads complete in ("hash updates must be fed sequentially"),  *)
(* and no file gets two digests.                                           *)
(***************************************************************************)
FedInOrder ==
    \A t \in Tasks :
        /\ \A i \in DOMAIN task[t].hashed : task[t].hashed[i] = i - 1
        /\ Cardinality(printed[t]) <= 1

(***************************************************************************)
(* A run that ends without error has printed the digest of the whole of    *)
(* every file it opened.                                                   *)
(***************************************************************************)
DigestsWhole ==
    (pc = "exited" /\ ~error /\ ~interrupted) =>
        \A t \in Tasks : printed[t] # {} =>
            printed[t] = {[i \in 1..task[t].size |-> i - 1]}

(***************************************************************************)
(* The worker ends: "Drain remaining ops" leaves its loop.                 *)
(***************************************************************************)
HashEnds == <>(pc = "exited")

----------------------------------------------------------------------------
(* For the proofs: what is assumed of the constants, and the invariants.    *)

\* The command lines, and files whose sizes are natural numbers.
HashConstants ==
    /\ NoTask \notin Nat
    /\ MaxPipeline \in Nat
    /\ \A c \in Scenarios :
        /\ c.depth \in Nat /\ c.chunk \in Nat /\ c.limit \in Nat
        /\ c.cpus \in Nat \ {0}
        /\ c.read_errors \subseteq Int
        /\ build_task_list(c) \in Seq(Nat)

\* The conditions for whole digests: no file is cut short while it is read,
\* and the ring is never at its limit or every file is a single chunk.
WholeReads ==
    /\ ~ShortReads
    /\ \A c \in Scenarios :
        /\ \A r \in c.read_errors : r < 0
        /\ \/ c.limit >= c.depth
           \/ \A i \in DOMAIN build_task_list(c) : build_task_list(c)[i] <= c.chunk

TaskRecords ==
    [size : Nat, open : BOOLEAN, read_offset : Nat, hashed : Seq(Nat),
     active : Int, reads_done : BOOLEAN, done : BOOLEAN]

SlotRecords ==
    [state : {"free", "reading", "done"}, task : Nat \cup {NoTask},
     offset : Nat, bytes : Nat]

Submitting == pc \in {"reading", "draining"}

HashTypes ==
    /\ config \in Scenarios /\ parse_args(config)
    /\ pc \in {"setup", "fill", "reading", "draining", "wait", "drain", "exited"}
    /\ first \in BOOLEAN /\ error \in BOOLEAN /\ interrupted \in BOOLEAN
    /\ at \in Nat \ {0} /\ current \in Nat
    /\ task \in Seq(TaskRecords)
    /\ feeding \in Tasks \cup {NoTask}
    /\ slot \in [Slots -> SlotRecords]
    /\ active_ops \in Int
    /\ ops \subseteq Slots
    /\ printed \in [Tasks -> SUBSET Seq(Nat)]

\* A slot in use holds some bytes of a task, the first ones if the file is a
\* single chunk; one with a read in the kernel is waiting for it.
SlotSound(s) ==
    LET r == slot[s] IN
    /\ r.state = "free" => r.task = NoTask
    /\ r.state # "free" => /\ r.task \in Tasks /\ r.bytes > 0
                           /\ task[r.task].size <= config.chunk => r.offset = 0
    /\ s \in ops => r.state = "reading"

\* Reads go on as long as there are bytes to read; a digest was fed bytes 0,
\* 1, ... in order, and is printed only when the task is done.
TaskSound(t) ==
    LET r == task[t] IN
    /\ r.read_offset <= r.size
    /\ ~r.reads_done /\ r.size > 0 => r.read_offset < r.size
    /\ ~r.reads_done /\ r.size <= config.chunk => r.read_offset = 0
    /\ \A i \in DOMAIN r.hashed : r.hashed[i] = i - 1
    /\ ~r.done => printed[t] = {}
    /\ \A x, y \in printed[t] : x = y

\* The slot whose read is being submitted, the slots of the first round, and
\* the task that is fed: bytes of it have arrived.
StepSound ==
    /\ Submitting => /\ at \in Slots \ ops /\ slot[at].state = "reading"
                     /\ slot[at].offset + slot[at].bytes = task[slot[at].task].read_offset
    /\ first /\ pc = "fill" => \A s \in Slots : s >= at => slot[s].state = "free"
    /\ first /\ Submitting => \A s \in Slots : s > at => slot[s].state = "free"
    /\ pc \in {"wait", "drain"} => ~first
    /\ pc = "setup" => first /\ at = 1 /\ \A s \in Slots : slot[s].state = "free"
    /\ feeding # NoTask => /\ pc \in {"wait", "drain", "draining"}
                           /\ \/ task[feeding].hashed # <<>>
                              \/ \E s \in Slots : slot[s].state = "done" /\ slot[s].task = feeding
    /\ config.limit >= config.depth => pc # "draining"

OrderInv ==
    /\ HashTypes
    /\ \A s \in Slots : SlotSound(s)
    /\ \A t \in Tasks : TaskSound(t)
    /\ StepSound

\* The slots that have bytes of a task, and those the task counts.
Holding(t) == {s \in Slots : slot[s].task = t}
Counted(t) == {s \in Holding(t) : ~(Submitting /\ s = at)}

\* Up to its first error: the slots share out the bytes of a task that were
\* asked for and not fed, and are counted; a digest is that of the file.
Tiled(t) ==
    LET r == task[t] IN
    /\ Len(r.hashed) <= r.read_offset
    /\ \A s \in Holding(t) : /\ Len(r.hashed) <= slot[s].offset
                             /\ slot[s].offset + slot[s].bytes <= r.read_offset
    /\ \A s, u \in Holding(t) : s # u =>
         \/ slot[s].offset + slot[s].bytes <= slot[u].offset
         \/ slot[u].offset + slot[u].bytes <= slot[s].offset
    /\ \A k \in Len(r.hashed) .. r.read_offset - 1 :
         \E s \in Holding(t) : slot[s].offset <= k /\ k < slot[s].offset + slot[s].bytes
    /\ r.active = Cardinality(Counted(t))
    /\ r.reads_done /\ ~r.done => r.read_offset = r.size
    /\ printed[t] # {} => printed[t] = {[i \in 1..r.size |-> i - 1]}

WholeInv ==
    /\ OrderInv
    /\ config.limit >= config.depth \/ \A t \in Tasks : task[t].size <= config.chunk
    /\ ~error => \A t \in Tasks : Tiled(t)
=============================================================================
