--------------------------- MODULE CopyPipelineCpp ---------------------------
(***************************************************************************)
(* tools/auracp_cpp/auracp.cpp: the same copy over the C++ interface.  It  *)
(* differs from CopyPipeline where it matters: the fsync callback captures *)
(* the two descriptors and touches no slot, so a slot is free again as     *)
(* soon as its last write is done; a task is marked done when its fsync is *)
(* submitted; and a refused request is an exception, caught on the spot.   *)
(***************************************************************************)
EXTENDS Integers, Sequences, FiniteSets

LOCAL INSTANCE SequencesExt

CONSTANTS
    Scenarios,      \* the command lines: sources, target and options
    ShortReads,     \* may a read return less than was asked, or nothing?
    SectorSize,     \* SECTOR_SIZE
    MaxPipeline,    \* MAX_PIPELINE
    NoTask,         \* no task is left to read
    NoSlot          \* the slot of an fsync

VARIABLES
    config,         \* the command line
    pc,             \* where main and copy_pipeline are
    first,          \* is this the initial batch?
    at,             \* the slot the fill loop has reached
    task,           \* the queue: one record per file, in order
    current,        \* queue.current, an index of task
    slot,           \* ctx.slots
    active_ops,     \* ctx.active_ops
    error,          \* ctx.error # 0
    interrupted,    \* g_interrupted
    ops,            \* the requests the kernel holds (external)
    dst             \* the destination files: length and the units written

vars == <<config, pc, first, at, task, current, slot, active_ops, error,
          interrupted, ops, dst>>

round_up_sz(x, a) == ((x + a - 1) \div a) * a

(***************************************************************************)
(* What parse_args lets through.                                           *)
(***************************************************************************)
parse_args(c) ==
    /\ c.depth \in 1..MaxPipeline
    /\ c.chunk > 0
    /\ Len(c.sources) >= 1
    /\ c.use_direct => c.chunk % SectorSize = 0

(***************************************************************************)
(* build_task_list walks the sources in order and gives up at the first    *)
(* one it cannot take ("missing" stands for one that cannot be read or     *)
(* whose directory cannot be made); a special file is passed over.         *)
(***************************************************************************)
Refused(c, s) ==
    \/ s.kind = "missing"
    \/ s.kind = "dir" /\ ~c.recursive
    \/ s.kind = "same"

nftw_callback(s) == IF s.kind \in {"dir", "file"} THEN s.files ELSE <<>>

build_task_list(c) ==
    IF \/ Len(c.sources) > 1 /\ ~c.dst_is_dir
       \/ \E i \in DOMAIN c.sources : Refused(c, c.sources[i])
    THEN <<>>
    ELSE FlattenSeq([i \in DOMAIN c.sources |-> nftw_callback(c.sources[i])])

queue_push(size) ==
    [size |-> size, open |-> FALSE, read_offset |-> 0, bytes_written |-> 0,
     active |-> 0, reads_done |-> FALSE, done |-> FALSE]

FreeSlot == [state |-> "free", task |-> NoTask, offset |-> 0, bytes |-> 0,
             data |-> 0]

Tasks == 1..Len(task)
Slots == 1..config.depth

Init ==
    /\ config \in {c \in Scenarios : parse_args(c)}
    /\ task = [i \in 1..Len(build_task_list(config)) |->
                    queue_push(build_task_list(config)[i])]
    /\ pc = IF task = <<>> THEN "exited" ELSE "setup"
    /\ first = TRUE
    /\ at = 1
    /\ current = 1
    /\ slot = [s \in Slots |-> FreeSlot]
    /\ active_ops = 0
    /\ error = FALSE
    /\ interrupted = FALSE
    /\ ops = {}
    /\ dst = [t \in Tasks |-> [exists |-> FALSE, len |-> 0, units |-> {}]]

(***************************************************************************)
(* main up to copy_pipeline: the engine and the buffers.  A failure frees  *)
(* what there is and returns 1 before any file is touched.                 *)
(***************************************************************************)
Setup ==
    /\ pc = "setup"
    /\ \/ pc' = "fill"  /\ UNCHANGED error
       \/ pc' = "exited" /\ error' = TRUE
    /\ UNCHANGED <<config, first, at, task, current, slot, active_ops,
                   interrupted, ops, dst>>

sigint_handler ==
    /\ pc # "exited"
    /\ ~interrupted
    /\ interrupted' = TRUE
    /\ UNCHANGED <<config, first, pc, at, task, current, slot, active_ops,
                   error, ops, dst>>

----------------------------------------------------------------------------
(***************************************************************************)
(* finish_task(t): trim the padding of O_DIRECT, then fsync or close.  The *)
(* task gives its descriptors to the callback and is done from here on.    *)
(***************************************************************************)
Closed(tk, t) == [tk EXCEPT ![t].open = FALSE, ![t].done = TRUE]

Truncated(d, t) ==
    IF config.use_direct THEN [d EXCEPT ![t].len = task[t].size] ELSE d

FsyncOf(t) == [kind |-> "fsync", slot |-> NoSlot, task |-> t]

finish_task(t, tk, n, held, d, err) ==
    /\ \/ dst' = Truncated(d, t) /\ error' = err
       \/ config.use_direct /\ dst' = d /\ error' = TRUE
    /\ task' = Closed(tk, t)
    /\ \/ /\ ~config.no_fsync
          /\ active_ops' = n + 1
          /\ ops' = held \union {FsyncOf(t)}
       \/ /\ active_ops' = n
          /\ ops' = held

(***************************************************************************)
(* submit_next_read for slot `at`, one task of its recursion per step: the *)
(* tasks whose reads are all submitted are passed over; a file that cannot *)
(* be opened is skipped and an empty one finished at once, and in both     *)
(* cases the same slot goes on with the next task.                         *)
(***************************************************************************)
NeedsReads(t) == ~task[t].reads_done /\ ~task[t].done

NextTask ==
    LET open == {t \in Tasks : t >= current /\ NeedsReads(t)}
    IN  IF open = {} THEN NoTask
        ELSE CHOOSE t \in open : \A u \in open : t <= u

Filling ==
    /\ pc = "fill"
    /\ at \in Slots
    /\ ~error /\ ~interrupted
    /\ first \/ slot[at].state = "free"

FillPassed ==
    /\ pc = "fill"
    /\ at \in Slots
    /\ first => Filling
    /\ Filling => NextTask = NoTask
    /\ at' = at + 1
    /\ UNCHANGED <<config, first, pc, task, current, slot, active_ops, error,
                   interrupted, ops, dst>>

open_task_fails ==
    /\ Filling
    /\ NextTask # NoTask
    /\ ~task[NextTask].open
    /\ task' = [task EXCEPT ![NextTask].reads_done = TRUE,
                            ![NextTask].done = TRUE]
    /\ current' = NextTask + 1
    /\ UNCHANGED <<config, first, pc, at, slot, active_ops, error,
                   interrupted, ops, dst>>

SubmitEmpty ==
    /\ Filling
    /\ NextTask # NoTask
    /\ ~task[NextTask].open
    /\ task[NextTask].size = 0
    /\ LET tk == [task EXCEPT ![NextTask].open = TRUE,
                              ![NextTask].reads_done = TRUE]
           d  == [dst EXCEPT ![NextTask].exists = TRUE]
       IN  finish_task(NextTask, tk, active_ops, ops, d, error)
    /\ current' = NextTask + 1
    /\ UNCHANGED <<config, first, pc, at, slot, interrupted>>

Chunk(t) ==
    IF task[t].read_offset + config.chunk > task[t].size
    THEN task[t].size - task[t].read_offset ELSE config.chunk

IoLen(n) == IF config.use_direct THEN round_up_sz(n, SectorSize) ELSE n

\* A slot keeps its task_idx when it is freed.
Freed(s) == [slot EXCEPT ![s].state = "free"]

(***************************************************************************)
(* The bookkeeping of a read comes before aura_read is called, and the two *)
(* counters after it has returned.  In between, submit_begin finds the     *)
(* ring at its limit or not: pc = "draining" while it polls for room.      *)
(***************************************************************************)
ReadBegins ==
    LET t == NextTask
        n == Chunk(t)
        last == task[t].read_offset + n >= task[t].size
    IN  /\ Filling
        /\ t # NoTask
        /\ task[t].size > 0
        /\ slot' = [slot EXCEPT ![at] = [state |-> "reading", task |-> t,
                        offset |-> task[t].read_offset, bytes |-> IoLen(n),
                        data |-> n]]
        /\ task' = [task EXCEPT ![t].open = TRUE, ![t].read_offset = @ + n,
                                ![t].reads_done = last]
        /\ dst' = [dst EXCEPT ![t].exists = TRUE,
                       ![t].len = IF task[t].open THEN @ ELSE task[t].size]
        /\ current' = IF last THEN t + 1 ELSE t
        /\ pc' = IF Cardinality(ops) < config.limit
                 THEN "reading" ELSE "draining"
        /\ UNCHANGED <<config, first, at, active_ops, error, interrupted, ops>>

ReadSubmitted ==
    LET t == slot[at].task
    IN  /\ pc \in {"reading", "draining"}
        /\ Cardinality(ops) < config.limit
        /\ ops' = ops \union {[kind |-> "read", slot |-> at, task |-> t]}
        /\ active_ops' = active_ops + 1
        /\ task' = [task EXCEPT ![t].active = @ + 1]
        /\ pc' = "fill"
        /\ at' = at + 1
        /\ UNCHANGED <<config, first, current, slot, error, interrupted, dst>>

(***************************************************************************)
(* The read throws: the offset goes back, reads_done and current do not.   *)
(***************************************************************************)
ReadRejected ==
    LET t == slot[at].task
    IN  /\ pc \in {"reading", "draining"}
        /\ error' = TRUE
        /\ slot' = Freed(at)
        /\ task' = [task EXCEPT ![t].read_offset = @ - slot[at].data]
        /\ pc' = "fill"
        /\ at' = at + 1
        /\ UNCHANGED <<config, first, current, active_ops, interrupted, ops,
                       dst>>

----------------------------------------------------------------------------
(***************************************************************************)
(* The callbacks.  They find the task through the slot.                    *)
(***************************************************************************)
Polling == pc \in {"wait", "drain", "draining"}

ReadResults(s) ==
    {-1, slot[s].data} \union (IF ShortReads THEN 0..slot[s].data ELSE {})

on_read_complete ==
    \E op \in {o \in ops : o.kind = "read"} :
      \E result \in ReadResults(op.slot) :
        LET s == op.slot
            t == slot[s].task
            wlen == IoLen(result)
        IN  /\ Polling
            /\ \/ /\ result > 0
                  /\ slot' = [slot EXCEPT ![s].data = result,
                                          ![s].bytes = wlen,
                                          ![s].state = "writing"]
                  /\ ops' = (ops \ {op}) \union
                            {[kind |-> "write", slot |-> s, task |-> t]}
                  /\ UNCHANGED <<active_ops, task, error>>
               \/ \* a failed read, the end of the file, or a write refused
                  /\ error' = (error \/ result # 0)
                  /\ slot' = Freed(s)
                  /\ active_ops' = active_ops - 1
                  /\ task' = [task EXCEPT ![t].active = @ - 1]
                  /\ ops' = ops \ {op}
            /\ UNCHANGED <<config, first, pc, at, current, interrupted, dst>>

MaxOf(a, b) == IF a > b THEN a ELSE b

Written(t, s) ==
    [dst EXCEPT ![t].len = MaxOf(@, slot[s].offset + slot[s].bytes),
                ![t].units = @ \union
                    (slot[s].offset .. slot[s].offset + slot[s].data - 1)]

\* Fault: finished with requests of the file in flight.
FinishDue_Early(tk, t) == tk[t].reads_done /\ ~tk[t].done

FinishDue(tk, t) == tk[t].reads_done /\ tk[t].active = 0 /\ ~tk[t].done

on_write_complete ==
    \E op \in {o \in ops : o.kind = "write"}, good \in BOOLEAN :
        LET s  == op.slot
            t  == slot[s].task
            d  == IF good THEN Written(op.task, s) ELSE dst
            tk == [task EXCEPT ![t].active = @ - 1,
                               ![t].bytes_written =
                                    IF good THEN @ + slot[s].data ELSE @]
            n  == active_ops - 1
        IN  /\ Polling
            /\ slot' = Freed(s)
            /\ IF FinishDue(tk, t)
               THEN finish_task(t, tk, n, ops \ {op}, d, error \/ ~good)
               ELSE /\ error' = (error \/ ~good)
                    /\ task' = tk
                    /\ active_ops' = n
                    /\ ops' = ops \ {op}
                    /\ dst' = d
            /\ UNCHANGED <<config, first, pc, at, current, interrupted>>

\* The lambda of finish_task.
on_fsync_complete ==
    \E op \in {o \in ops : o.kind = "fsync"}, good \in BOOLEAN :
        /\ Polling
        /\ error' = (error \/ ~good)
        /\ active_ops' = active_ops - 1
        /\ ops' = ops \ {op}
        /\ UNCHANGED <<config, first, pc, at, task, current, slot, interrupted,
                       dst>>

----------------------------------------------------------------------------
all_tasks_done == \A t \in Tasks : task[t].done

(***************************************************************************)
(* copy_pipeline: the head of the loop, the return of aura_wait, and the   *)
(* drain that follows an error or an interrupt.                            *)
(***************************************************************************)
\* Fault: the loop is left only once every task is done.
LeavesLoop_AllDone == all_tasks_done

LeavesLoop == all_tasks_done \/ error \/ interrupted

LoopHead ==
    /\ pc = "fill"
    /\ at \notin Slots \/ (first /\ (error \/ interrupted))
    /\ first' = FALSE
    /\ pc' = IF LeavesLoop THEN "drain" ELSE "wait"
    /\ UNCHANGED <<config, at, task, current, slot, active_ops, error,
                   interrupted, ops, dst>>

WaitReturns ==
    /\ pc = "wait"
    /\ \/ pc' = "fill" /\ at' = 1 /\ UNCHANGED error
       \/ pc' = "drain" /\ error' = TRUE /\ UNCHANGED at
    /\ UNCHANGED <<config, first, task, current, slot, active_ops,
                   interrupted, ops, dst>>

(***************************************************************************)
(* The end of main: cleanup_partial_files on an error or an interrupt,     *)
(* then close_remaining_fds.                                               *)
(***************************************************************************)
cleanup_partial_files(d) ==
    IF (error \/ interrupted) /\ ~config.keep_partial
    THEN [t \in Tasks |-> IF task[t].done THEN d[t]
                          ELSE [d[t] EXCEPT !.exists = FALSE]]
    ELSE d

\* Fault: no drain once every task is done.
Drained_AllDone == all_tasks_done \/ active_ops <= 0

Drained == active_ops <= 0

Exit ==
    /\ pc = "drain"
    /\ Drained
    /\ pc' = "exited"
    /\ dst' = cleanup_partial_files(dst)
    /\ task' = [t \in Tasks |-> [task[t] EXCEPT !.open = FALSE]]
    /\ UNCHANGED <<config, first, at, current, slot, active_ops, error,
                   interrupted, ops>>

Callback == on_read_complete \/ on_write_complete \/ on_fsync_complete

Main ==
    \/ Setup \/ FillPassed \/ open_task_fails \/ SubmitEmpty
    \/ ReadBegins \/ ReadSubmitted \/ ReadRejected
    \/ LoopHead \/ WaitReturns \/ Exit

Next == Main \/ Callback \/ sigint_handler

(***************************************************************************)
(* main keeps running, and a request the kernel holds completes: while     *)
(* aura_wait can be polled for ever, some callback runs.                   *)
(***************************************************************************)
Fairness == WF_vars(Main) /\ SF_vars(Callback)

Spec == Init /\ [][Next]_vars /\ Fairness

----------------------------------------------------------------------------
(***************************************************************************)
(* A read or a write in flight owns its slot, and its task's descriptors   *)
(* stay with the task, also when the slot served an empty file before and  *)
(* the fsync of that file is still in flight.                              *)
(***************************************************************************)
StateOf == [read |-> "reading", write |-> "writing"]

SlotsExclusive ==
    \A op \in ops : op.kind # "fsync" =>
        /\ slot[op.slot].state = StateOf[op.kind]
        /\ slot[op.slot].task = op.task
        /\ task[op.task].open
        /\ \A other \in ops : other.slot = op.slot => other = op

(***************************************************************************)
(* A task is marked done before its fsync has run, so the loop may end     *)
(* with fsyncs in flight: the drain after it still waits for every one of  *)
(* them, and the program never ends on an unsynced file it calls copied.   *)
(***************************************************************************)
ExitSynced ==
    pc = "exited" =>
        /\ ops = {}
        /\ (~error /\ ~interrupted) => \A t \in Tasks : dst[t].exists =>
                /\ dst[t].len = task[t].size
                /\ dst[t].units = 0 .. task[t].size - 1

(***************************************************************************)
(* The copy ends, whatever fails and whenever the user interrupts it.      *)
(***************************************************************************)
CopyEnds == <>(pc = "exited")
=============================================================================
