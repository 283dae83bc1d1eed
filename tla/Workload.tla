------------------------------ MODULE Workload ------------------------------
(***************************************************************************)
(* tools/BFFIO/workload.c: the benchmark's job.  Each worker thread has a  *)
(* pool of I/O contexts, a lock-free free list, and keeps up to Depth      *)
(* requests in flight; the callback counts the request off and returns its *)
(* context.  The counter is loaded and stored, not incremented, as the     *)
(* callbacks are meant to run on the worker itself; the free list is       *)
(* pushed and popped with compare-and-swap.  All workers share one engine: *)
(* where its rings are not bound to threads (ring_select other than        *)
(* thread-local), aura_poll of one worker runs the callbacks of another.   *)
(* The statistics the callbacks record are left out.                       *)
(***************************************************************************)
EXTENDS Integers, Sequences, FiniteSets

CONSTANTS
    Threads,        \* the workers: 1 .. n
    Depth,          \* effective_depth: contexts of a worker's pool
    Files,          \* nrfiles
    Jobs            \* the jobs: [numjobs, quota, crossed, fsync_freq,
                    \* registered, faults]; quota is per_thread_size / bs

Main  == 0
Procs == Threads \cup {Main}
Slots == 0 .. Depth - 1
Nil   == -1

VARIABLES
    job,            \* the job file
    running,        \* the shared flag
    workers_done,   \* the shared counter
    free_head,      \* pool.free_head of each worker
    next_free,      \* slots[i].next_free
    buffer,         \* slots[i].buffer: "own", "null" or "freed"
    inflight,       \* stats.inflight
    pc,             \* where each thread is
    op,             \* what it is getting a context for: "io" or "fsync"
    idx,            \* the slot io_ctx_pool_get looks at, or holds
    tmp,            \* the value last loaded
    total,          \* requests submitted
    writes,         \* writes_since_fsync
    call,           \* the callback or put a thread is in
    flight,         \* requests in the engine: <<owner, slot>>
    created,        \* temporary files recorded in created_paths
    disk,           \* temporary files that exist
    unfilled        \* a file could not be filled

files == <<created, disk, unfilled>>
pools == <<free_head, next_free, buffer>>
locals == <<op, idx, tmp, total, writes>>
vars == <<job, running, workers_done, pools, inflight, pc, locals, call,
          flight, files>>

None == [at |-> "none", owner |-> Main, slot |-> Nil, val |-> 0]

\* io_ctx_pool_init: slot i points at slot i - 1, the head is the last.
io_ctx_pool_init ==
    /\ free_head = [t \in Threads |-> Depth - 1]
    /\ next_free = [t \in Threads |-> [s \in Slots |-> s - 1]]

Init ==
    /\ job \in Jobs
    /\ running = TRUE /\ workers_done = 0
    /\ io_ctx_pool_init
    /\ buffer = [t \in Threads |-> [s \in Slots |-> "own"]]
    /\ inflight = [t \in Threads |-> 0]
    /\ pc = [p \in Procs |-> IF p = Main THEN "open" ELSE "absent"]
    /\ op = [t \in Threads |-> "io"]
    /\ idx = [t \in Threads |-> Nil] /\ tmp = [t \in Threads |-> 0]
    /\ total = [t \in Threads |-> 0] /\ writes = [t \in Threads |-> 0]
    /\ call = [p \in Procs |-> None]
    /\ flight = {}
    /\ created = {} /\ disk = {} /\ unfilled = FALSE

Set(f, p, v) == [f EXCEPT ![p] = v]
At(p, label) == pc[p] = label /\ call[p].at = "none"
Goto(p, label) == pc' = Set(pc, p, label)

(***************************************************************************)
(* file_set_open: each file is created, filled and opened; an error closes *)
(* and unlinks those recorded so far, and a file is recorded once filled.  *)
(***************************************************************************)
Recorded(n) == created' = created \cup {n} /\ disk' = disk \cup {n}

\* Fault: the last file recorded is passed over.
file_set_close_Last ==
    /\ created' = {}
    /\ disk' = disk \ {n \in created : n + 1 \in created}

file_set_close == created' = {} /\ disk' = disk \ created

OpenFile ==
    /\ At(Main, "open") /\ Cardinality(created) < Files
    /\ Recorded(Cardinality(created) + 1)
    /\ UNCHANGED <<job, running, workers_done, pools, inflight, pc, locals,
                   call, flight, unfilled>>

OpenFails ==
    /\ At(Main, "open") /\ Cardinality(created) < Files /\ "open" \in job.faults
    /\ \/ file_set_close /\ UNCHANGED unfilled
       \/ /\ created' = {}
          /\ disk' = {Cardinality(created) + 1}
          /\ unfilled' = TRUE
    /\ Goto(Main, "returned")
    /\ UNCHANGED <<job, running, workers_done, pools, inflight, locals, call,
                   flight>>

Opened ==
    /\ At(Main, "open") /\ Cardinality(created) = Files
    /\ Goto(Main, "spawn")
    /\ UNCHANGED <<job, running, workers_done, pools, inflight, locals, call,
                   flight, files>>

\* A context, pool or buffer cannot be allocated: everything is given back.
Freed == [t \in Threads |-> [s \in Slots |->
            IF buffer[t][s] = "own" THEN "freed" ELSE buffer[t][s]]]

SetupFails ==
    /\ At(Main, "open") /\ Cardinality(created) = Files
    /\ "memory" \in job.faults
    /\ buffer' = Freed
    /\ file_set_close
    /\ Goto(Main, "returned")
    /\ UNCHANGED <<job, running, workers_done, free_head, next_free, inflight,
                   locals, call, flight, unfilled>>

(***************************************************************************)
(* io_ctx_pool_get: the head and its next_free are loaded, then the head   *)
(* is swapped; a swap that fails reloads the head.                         *)
(***************************************************************************)
GotNone(t) == IF op[t] = "io" THEN "poll" ELSE "fill"

GetHead(t) ==
    /\ At(t, "get")
    /\ idx' = Set(idx, t, free_head[t])
    /\ IF free_head[t] = Nil
       THEN Goto(t, GotNone(t)) /\ op' = Set(op, t, "io")
       ELSE Goto(t, "get_next") /\ UNCHANGED op
    /\ UNCHANGED <<job, running, workers_done, pools, inflight, tmp, total,
                   writes, call, flight, files>>

GetNext(t) ==
    /\ At(t, "get_next")
    /\ tmp' = Set(tmp, t, next_free[t][idx[t]])
    /\ Goto(t, "get_swap")
    /\ UNCHANGED <<job, running, workers_done, pools, inflight, op, idx,
                   total, writes, call, flight, files>>

\* Fault: the head is stored, not swapped.
GetSwap_Store(t) ==
    /\ At(t, "get_swap")
    /\ free_head' = Set(free_head, t, tmp[t])
    /\ Goto(t, "count")
    /\ UNCHANGED <<op, idx, next_free, job, running, workers_done, buffer,
                   inflight, tmp, total, writes, call, flight, files>>

GetSwap(t) ==
    /\ At(t, "get_swap")
    /\ IF free_head[t] = idx[t]
       THEN /\ free_head' = Set(free_head, t, tmp[t])
            /\ Goto(t, "count")
            /\ UNCHANGED <<op, idx>>
       ELSE \* the compare-and-swap has put the head it found into idx
            /\ idx' = Set(idx, t, free_head[t])
            /\ IF free_head[t] = Nil
               THEN Goto(t, GotNone(t)) /\ op' = Set(op, t, "io")
               ELSE Goto(t, "get_next") /\ UNCHANGED op
            /\ UNCHANGED free_head
    /\ UNCHANGED <<next_free, job, running, workers_done, buffer, inflight,
                   tmp, total, writes, call, flight, files>>

(***************************************************************************)
(* The worker's loop: fill up to Depth, poll, until it is told to stop or  *)
(* its share is done; then wait for what is in flight.                     *)
(***************************************************************************)
\* Fault: a worker with work left does not look at the flag.
More_Deaf(t) == total[t] < job.quota

More(t) == running /\ total[t] < job.quota

Loop(t) ==
    /\ At(t, "loop")
    /\ Goto(t, IF More(t) THEN "fill" ELSE "drain")
    /\ UNCHANGED <<job, running, workers_done, pools, inflight, locals, call,
                   flight, files>>

Fill(t) ==
    /\ At(t, "fill")
    /\ Goto(t, IF inflight[t] < Depth /\ More(t) THEN "get" ELSE "poll")
    /\ UNCHANGED <<job, running, workers_done, pools, inflight, locals, call,
                   flight, files>>

\* An fsync's context loses its buffer.  The counter is loaded ...
CountLoad(t) ==
    /\ At(t, "count")
    /\ buffer' = IF op[t] = "fsync" THEN [buffer EXCEPT ![t][idx[t]] = "null"]
                                    ELSE buffer
    /\ tmp' = Set(tmp, t, inflight[t])
    /\ Goto(t, "counted")
    /\ UNCHANGED <<job, running, workers_done, free_head, next_free, inflight,
                   op, idx, total, writes, call, flight, files>>

\* ... and stored.
CountStore(t) ==
    /\ At(t, "counted")
    /\ inflight' = Set(inflight, t, tmp[t] + 1)
    /\ Goto(t, "submit")
    /\ UNCHANGED <<job, running, workers_done, pools, locals, call, flight,
                   files>>

FsyncDue(t) == job.fsync_freq > 0 /\ writes[t] + 1 >= job.fsync_freq

\* aura_write or aura_fsync takes the request; a write may call for an fsync.
Submit(t) ==
    /\ At(t, "submit")
    /\ op[t] = "io" => job.registered \/ buffer[t][idx[t]] # "null"
    /\ flight' = flight \cup {<<t, idx[t]>>}
    /\ idx' = Set(idx, t, Nil)
    /\ IF op[t] = "fsync"
       THEN /\ op' = Set(op, t, "io") /\ Goto(t, "fill")
            /\ UNCHANGED <<total, writes>>
       ELSE /\ total' = Set(total, t, total[t] + 1)
            /\ IF FsyncDue(t)
               THEN op' = Set(op, t, "fsync") /\ Goto(t, "get")
               ELSE Goto(t, "fill") /\ UNCHANGED op
            /\ writes' = Set(writes, t, IF FsyncDue(t) THEN 0
                                                       ELSE writes[t] + 1)
    /\ UNCHANGED <<job, running, workers_done, pools, inflight, tmp, call,
                   files>>

\* It is refused, at the ring's capacity or for want of a buffer: the counter
\* goes back and the context into its pool, as in a callback.
Refuse(t) ==
    /\ At(t, "submit")
    /\ \/ "refuse" \in job.faults
       \/ op[t] = "io" /\ ~job.registered /\ buffer[t][idx[t]] = "null"
    /\ call' = Set(call, t, [at |-> "load", owner |-> t, slot |-> idx[t],
                             val |-> 0])
    /\ Goto(t, GotNone(t))
    /\ op' = Set(op, t, "io") /\ idx' = Set(idx, t, Nil)
    /\ UNCHANGED <<job, running, workers_done, pools, inflight, tmp, total,
                   writes, flight, files>>

Poll(t) ==
    /\ At(t, "poll") /\ Goto(t, "loop")
    /\ UNCHANGED <<job, running, workers_done, pools, inflight, locals, call,
                   flight, files>>

\* Fault: the worker leaves without waiting for its requests.
Drain_Skipped(t) ==
    /\ At(t, "drain")
    /\ Goto(t, "exited") /\ workers_done' = workers_done + 1
    /\ UNCHANGED <<job, running, pools, inflight, locals, call, flight,
                   files>>

\* aura_wait returns after a callback, or at once if the engine is idle.
Drain(t) ==
    /\ At(t, "drain")
    /\ IF inflight[t] > 0
       THEN Goto(t, "wait") /\ UNCHANGED workers_done
       ELSE Goto(t, "exited") /\ workers_done' = workers_done + 1
    /\ UNCHANGED <<job, running, pools, inflight, locals, call, flight,
                   files>>

Wait(t) ==
    /\ At(t, "wait") /\ Goto(t, "drain")
    /\ UNCHANGED <<job, running, workers_done, pools, inflight, locals, call,
                   flight, files>>

(***************************************************************************)
(* io_callback and fsync_callback: count off, then io_ctx_pool_put: load   *)
(* the head, link the context to it, swap it in.                           *)
(***************************************************************************)
Mine(p) == {r \in flight : r[1] = p \/ job.crossed \/ p = Main}

Callback(p) ==
    /\ call[p].at = "none" /\ pc[p] \in {"submit", "poll", "wait", "final"}
    /\ \E r \in Mine(p) :
        /\ flight' = flight \ {r}
        /\ call' = Set(call, p, [at |-> "load", owner |-> r[1],
                                 slot |-> r[2], val |-> 0])
    /\ UNCHANGED <<job, running, workers_done, pools, inflight, pc, locals,
                   files>>

Stage(p, at, v) == call' = [call EXCEPT ![p].at = at, ![p].val = v]

UncountLoad(p) ==
    /\ call[p].at = "load"
    /\ Stage(p, "store", inflight[call[p].owner])
    /\ UNCHANGED <<job, running, workers_done, pools, inflight, pc, locals,
                   flight, files>>

\* Fault: the counter is decremented twice.
UncountStore_Twice(p) ==
    /\ call[p].at = "store"
    /\ inflight' = Set(inflight, call[p].owner, call[p].val - 2)
    /\ Stage(p, "head", 0)
    /\ UNCHANGED <<job, running, workers_done, pools, pc, locals, flight,
                   files>>

UncountStore(p) ==
    /\ call[p].at = "store"
    /\ inflight' = Set(inflight, call[p].owner, call[p].val - 1)
    /\ Stage(p, "head", 0)
    /\ UNCHANGED <<job, running, workers_done, pools, pc, locals, flight,
                   files>>

PutHead(p) ==
    /\ call[p].at = "head"
    /\ Stage(p, "link", free_head[call[p].owner])
    /\ UNCHANGED <<job, running, workers_done, pools, inflight, pc, locals,
                   flight, files>>

PutLink(p) ==
    /\ call[p].at = "link"
    /\ next_free' = [next_free EXCEPT
                        ![call[p].owner][call[p].slot] = call[p].val]
    /\ Stage(p, "swap", call[p].val)
    /\ UNCHANGED <<job, running, workers_done, free_head, buffer, inflight,
                   pc, locals, flight, files>>

PutSwap(p) ==
    /\ call[p].at = "swap"
    /\ IF free_head[call[p].owner] = call[p].val
       THEN /\ free_head' = Set(free_head, call[p].owner, call[p].slot)
            /\ call' = Set(call, p, None)
       ELSE /\ Stage(p, "link", free_head[call[p].owner])
            /\ UNCHANGED free_head
    /\ UNCHANGED <<job, running, workers_done, next_free, buffer, inflight,
                   pc, locals, flight, files>>

(***************************************************************************)
(* workload_run: the threads are started; the timer loop ends on expiry,   *)
(* or when all workers are done, or after its last tick; then join, a      *)
(* final aura_drain, which may time out, and everything is released.       *)
(***************************************************************************)
Spawn ==
    /\ At(Main, "spawn")
    /\ \E t \in Threads :
        /\ t <= job.numjobs
        /\ pc[t] = "absent" /\ \A u \in Threads : u < t => pc[u] # "absent"
        /\ \/ pc' = [pc EXCEPT ![t] = "loop",
                     ![Main] = IF t = job.numjobs THEN "timer"
                                                  ELSE "spawn"]
              /\ UNCHANGED running
           \/ /\ "thread" \in job.faults
              /\ Goto(Main, "join_failed") /\ running' = FALSE
    /\ UNCHANGED <<job, workers_done, pools, inflight, locals, call, flight,
                   files>>

Timer ==
    /\ At(Main, "timer")
    /\ running' = FALSE
    /\ Goto(Main, "join")
    /\ UNCHANGED <<job, workers_done, pools, inflight, locals, call, flight,
                   files>>

Joined == \A t \in Threads : pc[t] \in {"absent", "exited"}

Join ==
    /\ At(Main, "join") /\ Joined
    /\ Goto(Main, "final")
    /\ UNCHANGED <<job, running, workers_done, pools, inflight, locals, call,
                   flight, files>>

Release ==
    /\ At(Main, "final")
    /\ flight = {} \/ "timeout" \in job.faults
    /\ buffer' = Freed
    /\ file_set_close
    /\ Goto(Main, "returned")
    /\ UNCHANGED <<job, running, workers_done, free_head, next_free, inflight,
                   locals, call, flight, unfilled>>

\* A thread could not be started: the pools and buffers are not released.
GiveUp ==
    /\ At(Main, "join_failed") /\ Joined
    /\ file_set_close
    /\ Goto(Main, "returned")
    /\ UNCHANGED <<job, running, workers_done, pools, inflight, locals, call,
                   flight, unfilled>>

workload_run ==
    \/ OpenFile \/ OpenFails \/ Opened \/ SetupFails \/ Spawn \/ Timer
    \/ Join \/ Release \/ GiveUp

worker_thread(t) ==
    \/ GetHead(t) \/ GetNext(t) \/ GetSwap(t)
    \/ Loop(t) \/ Fill(t) \/ CountLoad(t) \/ CountStore(t)
    \/ Submit(t) \/ Refuse(t) \/ Poll(t) \/ Drain(t) \/ Wait(t)

callback(p) ==
    \/ UncountLoad(p) \/ UncountStore(p)
    \/ PutHead(p) \/ PutLink(p) \/ PutSwap(p)

Next ==
    \/ workload_run
    \/ \E t \in Threads : worker_thread(t)
    \/ \E p \in Procs : Callback(p) \/ callback(p)

\* Threads run, the timer ticks, and a completed request's callback runs.
Fairness ==
    /\ WF_vars(workload_run)
    /\ \A t \in Threads : WF_vars(worker_thread(t))
    /\ \A p \in Procs : SF_vars(Callback(p)) /\ WF_vars(callback(p))

Spec == Init /\ [][Next]_vars /\ Fairness

----------------------------------------------------------------------------
(* Properties *)

\* The slots on the free list of t, in order.
FreeList(t) ==
    LET from[n \in 0 .. Depth] ==
            IF n = 0 THEN <<free_head[t]>>
            ELSE LET l == from[n - 1]
                 IN IF l[Len(l)] = Nil THEN l
                    ELSE Append(l, next_free[t][l[Len(l)]])
    IN from[Depth]

OnList(t, s) == Cardinality({i \in DOMAIN FreeList(t) : FreeList(t)[i] = s})

Holds(t, s) ==
    IF idx[t] = s /\ pc[t] \in {"count", "counted", "submit"} THEN 1 ELSE 0

InCall(t, s) ==
    Cardinality({p \in Procs : /\ call[p].at # "none"
                               /\ call[p].owner = t /\ call[p].slot = s})

InEngine(t, s) == IF <<t, s>> \in flight THEN 1 ELSE 0

(***************************************************************************)
(* Every I/O context is at one place: on its pool's free list once, in the *)
(* worker's hands, in flight, or in a callback; and the free list ends.    *)
(* io_ctx_pool_get, with its single consumer, and io_ctx_pool_put, from    *)
(* any thread, lose no context and give none out twice.                    *)
(***************************************************************************)
ContextsAtOnePlace ==
    \A t \in Threads :
        /\ FreeList(t)[Len(FreeList(t))] = Nil
        /\ \A s \in Slots :
            OnList(t, s) + Holds(t, s) + InCall(t, s) + InEngine(t, s) = 1

\* Requests of t the counter has to count.
Live(t) ==
    Cardinality({s \in Slots : InEngine(t, s) = 1})
    + Cardinality({p \in Procs : /\ call[p].at \in {"load", "store"}
                                 /\ call[p].owner = t})
    + IF pc[t] = "submit" THEN 1 ELSE 0

(***************************************************************************)
(* stats.inflight, which is loaded and stored by the worker and by the     *)
(* callbacks, counts the worker's live requests, as long as no thread runs *)
(* the callbacks of another.                                               *)
(***************************************************************************)
InflightExact == ~job.crossed => \A t \in Threads : inflight[t] = Live(t)

(***************************************************************************)
(* When workload_run has released buffers and pools, no request that uses  *)
(* them is in flight, even if the final aura_drain has timed out, as long  *)
(* as no thread runs the callbacks of another.                             *)
(***************************************************************************)
PoolsOutliveRequests == ~job.crossed /\ pc[Main] = "returned" => flight = {}

(***************************************************************************)
(* workload_run leaves no temporary file behind, but for one it could not  *)
(* fill.                                                                   *)
(***************************************************************************)
FilesRemoved == pc[Main] = "returned" /\ ~unfilled => disk = {}

\* Every buffer allocated for a context is given back when the job ends.
BuffersReturned ==
    pc[Main] = "returned" =>
        \A t \in Threads, s \in Slots : buffer[t][s] # "null"

(***************************************************************************)
(* The job ends: the workers see the flag, find their counters at zero and *)
(* are joined, as long as no thread runs the callbacks of another.         *)
(***************************************************************************)
JobEnds == <>(job.crossed \/ pc[Main] = "returned")
=============================================================================
