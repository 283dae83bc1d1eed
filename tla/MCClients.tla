----------------------------- MODULE MCClients ------------------------------
(***************************************************************************)
(* The programs built on the library, for TLC, side by side: the copy      *)
(* tools, aura-hash, atree and BFFIO. Every behaviour is one of one        *)
(* program, or of one part of atree, under the fairness its module         *)
(* assumes.                                                                *)
(***************************************************************************)
EXTENDS Integers, FiniteSets, Sequences, TLC

CONSTANTS
  Nothing   \* no task, no slot, no key

\* Command lines.  Sizes are in units of half a sector.
File(size) == [kind |-> "file", files |-> <<size>>]
Dir(sizes) == [kind |-> "dir", files |-> sizes]
Other(kind) == [kind |-> kind, files |-> <<>>]

CopyArgs ==
    [sources |-> <<Dir(<<3, 1>>)>>, dst_is_dir |-> TRUE, recursive |-> TRUE,
     depth |-> 2, chunk |-> 2, use_direct |-> TRUE, no_fsync |-> FALSE,
     keep_partial |-> FALSE, limit |-> 9]
Copies ==
    { CopyArgs,
      [CopyArgs EXCEPT !.use_direct = FALSE, !.no_fsync = TRUE,
                       !.sources = <<Dir(<<0, 4>>)>>],
      [CopyArgs EXCEPT !.sources = <<File(1), Other("special"), File(2), File(2)>>,
                       !.depth = 3, !.limit = 2],
      [CopyArgs EXCEPT !.sources = <<File(1), Other("same")>>] }
\* auracp writes to a slot it has given back when an empty file comes before
\* another one, so only auracp.cpp is given that order.
CCopies == Copies \cup {[CopyArgs EXCEPT !.sources = <<File(3), File(0)>>]}
CppCopies == Copies \cup {[CopyArgs EXCEPT !.sources = <<File(0), File(3)>>]}

HashArgs ==
    [sources |-> <<Dir(<<5, 0>>)>>, recursive |-> TRUE, depth |-> 3,
     chunk |-> 2, use_direct |-> TRUE, limit |-> 9, cpus |-> 1,
     read_errors |-> {}]
Hashes ==
    { HashArgs,
      [HashArgs EXCEPT !.sources = <<File(4), Dir(<<1, 3>>)>>, !.cpus = 2],
      [HashArgs EXCEPT !.sources = <<File(1), Other("special"), File(2), File(2)>>,
                       !.read_errors = {-1}, !.limit = 2],
      [HashArgs EXCEPT !.sources = <<File(1), Other("missing")>>] }

\* A tree in which e, below b, is b again by a bind mount.
Kids   == "r" :> {"a", "b"} @@ "a" :> {} @@ "b" :> {"e"} @@ "e" :> {}
Depths == "r" :> 0 @@ "a" :> 1 @@ "b" :> 1 @@ "e" :> 2
Inodes == "r" :> 1 @@ "a" :> 2 @@ "b" :> 3 @@ "e" :> 3

Job(numjobs, quota, crossed, fsync_freq, registered, faults) ==
    [numjobs |-> numjobs, quota |-> quota, crossed |-> crossed,
     fsync_freq |-> fsync_freq, registered |-> registered, faults |-> faults]
Jobs ==
    {Job(1, 3, FALSE, f, r, {"refuse", "open", "timeout"}) :
        f \in 0 .. 2, r \in BOOLEAN}
    \cup {Job(2, 1, FALSE, 0, TRUE, {"thread", "memory"})}
\* Two workers whose rings other threads may drain.
CrossedJobs == {Job(2, 2, TRUE, 0, TRUE, {})}

\* The component this behaviour is of; it never changes.
VARIABLE part

\* The value of the variables of the components that are not at work.
Off == "off"

-----------------------------------------------------------------------------
\* tools/auracp/auracp.c.
VARIABLES
    c_config, c_pc, c_first, c_at, c_task, c_current, c_slot, c_active_ops,
    c_error, c_interrupted, c_ops, c_dst

Cp == INSTANCE CopyPipeline WITH
    Scenarios <- CCopies, ShortReads <- FALSE, SectorSize <- 2,
    MaxPipeline <- 3, NoTask <- Nothing, config <- c_config, pc <- c_pc,
    first <- c_first, at <- c_at, task <- c_task, current <- c_current,
    slot <- c_slot, active_ops <- c_active_ops, error <- c_error,
    interrupted <- c_interrupted, ops <- c_ops, dst <- c_dst

c_vars == <<c_config, c_pc, c_first, c_at, c_task, c_current, c_slot,
            c_active_ops, c_error, c_interrupted, c_ops, c_dst>>

c_Off ==
    /\ c_config = Off /\ c_pc = Off /\ c_first = Off /\ c_at = Off
    /\ c_task = Off /\ c_current = Off /\ c_slot = Off /\ c_active_ops = Off
    /\ c_error = Off /\ c_interrupted = Off /\ c_ops = Off /\ c_dst = Off

-----------------------------------------------------------------------------
\* tools/auracp/auracp.cpp, on the same variables.
Cpp == INSTANCE CopyPipelineCpp WITH
    Scenarios <- CppCopies, ShortReads <- FALSE, SectorSize <- 2,
    MaxPipeline <- 3, NoTask <- Nothing, NoSlot <- Nothing,
    config <- c_config, pc <- c_pc, first <- c_first, at <- c_at,
    task <- c_task, current <- c_current, slot <- c_slot,
    active_ops <- c_active_ops, error <- c_error,
    interrupted <- c_interrupted, ops <- c_ops, dst <- c_dst

-----------------------------------------------------------------------------
\* tools/aura-hash/aura-hash.c.
VARIABLES
    h_config, h_pc, h_first, h_at, h_feeding, h_task, h_current, h_slot,
    h_active_ops, h_error, h_interrupted, h_ops, h_printed

Hash == INSTANCE HashPipeline WITH
    Scenarios <- Hashes, ShortReads <- FALSE, SectorSize <- 2,
    MaxPipeline <- 3, NoTask <- Nothing, config <- h_config, pc <- h_pc,
    first <- h_first, at <- h_at, feeding <- h_feeding, task <- h_task,
    current <- h_current, slot <- h_slot, active_ops <- h_active_ops,
    error <- h_error, interrupted <- h_interrupted, ops <- h_ops,
    printed <- h_printed

h_vars == <<h_config, h_pc, h_first, h_at, h_feeding, h_task, h_current,
            h_slot, h_active_ops, h_error, h_interrupted, h_ops, h_printed>>

h_Off ==
    /\ h_config = Off /\ h_pc = Off /\ h_first = Off /\ h_at = Off
    /\ h_feeding = Off /\ h_task = Off /\ h_current = Off /\ h_slot = Off
    /\ h_active_ops = Off /\ h_error = Off /\ h_interrupted = Off
    /\ h_ops = Off /\ h_printed = Off

-----------------------------------------------------------------------------
\* The scanning threads of atree, with every fault its code handles.
VARIABLES
    d_max_depth, d_queue, d_pending, d_done, d_visited, d_interrupted,
    d_listed, d_is_dir, d_stat, d_pc, d_batch, d_fds, d_flight, d_todo,
    d_skipped

Scan == INSTANCE DirScan WITH
    Workers <- {1, 2}, Dirs <- DOMAIN Kids, Root <- "r", Kids <- Kids,
    Depth <- Depths, Inode <- Inodes, NoInode <- 0, Typed <- TRUE,
    Limits <- {-1, 1}, DirsPerBatch <- 2,
    Faults <- {"submit", "open", "statx", "engine", "thread", "memory", "interrupt"},
    max_depth <- d_max_depth, queue <- d_queue, pending <- d_pending,
    done <- d_done, visited <- d_visited, interrupted <- d_interrupted,
    listed <- d_listed, is_dir <- d_is_dir, stat <- d_stat, pc <- d_pc,
    batch <- d_batch, fds <- d_fds, flight <- d_flight, todo <- d_todo,
    skipped <- d_skipped

d_vars == <<d_max_depth, d_queue, d_pending, d_done, d_visited,
            d_interrupted, d_listed, d_is_dir, d_stat, d_pc, d_batch, d_fds,
            d_flight, d_todo, d_skipped>>

d_Off ==
    /\ d_max_depth = Off /\ d_queue = Off /\ d_pending = Off /\ d_done = Off
    /\ d_visited = Off /\ d_interrupted = Off /\ d_listed = Off
    /\ d_is_dir = Off /\ d_stat = Off /\ d_pc = Off /\ d_batch = Off
    /\ d_fds = Off /\ d_flight = Off /\ d_todo = Off /\ d_skipped = Off

-----------------------------------------------------------------------------
\* The visited set of atree: two hashes that share their bucket, the last
\* one, so that probes wrap around.
VARIABLES
    v_hash, v_wants, v_buckets, v_keys, v_count, v_pc, v_idx, v_scan,
    v_steps, v_result

Visited == INSTANCE VisitedSet WITH
    Threads <- {1, 2, 3}, Keys <- {"k1", "k2"},
    Homes <- [{"k1", "k2"} -> {3, 7}],
    Inserts <- [{1, 2, 3} -> {"k1", "k2"}], Cap <- 4, Load <- 2,
    NoKey <- Nothing, hash <- v_hash, wants <- v_wants, buckets <- v_buckets,
    keys <- v_keys, count <- v_count, pc <- v_pc, idx <- v_idx,
    scan <- v_scan, steps <- v_steps, result <- v_result

v_vars == <<v_hash, v_wants, v_buckets, v_keys, v_count, v_pc, v_idx, v_scan,
            v_steps, v_result>>

v_Off ==
    /\ v_hash = Off /\ v_wants = Off /\ v_buckets = Off /\ v_keys = Off
    /\ v_count = Off /\ v_pc = Off /\ v_idx = Off /\ v_scan = Off
    /\ v_steps = Off /\ v_result = Off

-----------------------------------------------------------------------------
\* The single-threaded passes of atree over every tree of up to four nodes.
VARIABLES
    t_parent, t_is_dir, t_size, t_stat_err, t_max_depth, t_by_size,
    t_children, t_totals, t_walk, t_stack, t_cap, t_short, t_file_count,
    t_dir_count, t_freed

Tree == INSTANCE TreeTotals WITH
    MaxNodes <- 4, Sizes <- {1, 2}, Limits <- {-1, 1}, Cap <- 2,
    parent <- t_parent, is_dir <- t_is_dir, size <- t_size,
    stat_err <- t_stat_err, max_depth <- t_max_depth, by_size <- t_by_size,
    children <- t_children, totals <- t_totals, walk <- t_walk,
    stack <- t_stack, cap <- t_cap, short <- t_short,
    file_count <- t_file_count, dir_count <- t_dir_count, freed <- t_freed

t_vars == <<t_parent, t_is_dir, t_size, t_stat_err, t_max_depth, t_by_size,
            t_children, t_totals, t_walk, t_stack, t_cap, t_short,
            t_file_count, t_dir_count, t_freed>>

t_Off ==
    /\ t_parent = Off /\ t_is_dir = Off /\ t_size = Off /\ t_stat_err = Off
    /\ t_max_depth = Off /\ t_by_size = Off /\ t_children = Off
    /\ t_totals = Off /\ t_walk = Off /\ t_stack = Off /\ t_cap = Off
    /\ t_short = Off /\ t_file_count = Off /\ t_dir_count = Off
    /\ t_freed = Off

-----------------------------------------------------------------------------
\* BFFIO's workload.c.
VARIABLES
    w_job, w_running, w_workers_done, w_free_head, w_next_free, w_buffer,
    w_inflight, w_pc, w_op, w_idx, w_tmp, w_total, w_writes, w_call,
    w_flight, w_created, w_disk, w_unfilled

Job_ == INSTANCE Workload WITH
    Threads <- {1, 2}, Depth <- 2, Files <- 2, Jobs <- Jobs, job <- w_job,
    running <- w_running, workers_done <- w_workers_done,
    free_head <- w_free_head, next_free <- w_next_free, buffer <- w_buffer,
    inflight <- w_inflight, pc <- w_pc, op <- w_op, idx <- w_idx,
    tmp <- w_tmp, total <- w_total, writes <- w_writes, call <- w_call,
    flight <- w_flight, created <- w_created, disk <- w_disk,
    unfilled <- w_unfilled

w_vars == <<w_job, w_running, w_workers_done, w_free_head, w_next_free,
            w_buffer, w_inflight, w_pc, w_op, w_idx, w_tmp, w_total,
            w_writes, w_call, w_flight, w_created, w_disk, w_unfilled>>

w_Off ==
    /\ w_job = Off /\ w_running = Off /\ w_workers_done = Off
    /\ w_free_head = Off /\ w_next_free = Off /\ w_buffer = Off
    /\ w_inflight = Off /\ w_pc = Off /\ w_op = Off /\ w_idx = Off
    /\ w_tmp = Off /\ w_total = Off /\ w_writes = Off /\ w_call = Off
    /\ w_flight = Off /\ w_created = Off /\ w_disk = Off /\ w_unfilled = Off

-----------------------------------------------------------------------------
\* The same on an engine whose threads run each other's callbacks; safety
\* only.
Crossed == INSTANCE Workload WITH
    Threads <- {1, 2}, Depth <- 2, Files <- 2, Jobs <- CrossedJobs,
    job <- w_job, running <- w_running, workers_done <- w_workers_done,
    free_head <- w_free_head, next_free <- w_next_free, buffer <- w_buffer,
    inflight <- w_inflight, pc <- w_pc, op <- w_op, idx <- w_idx,
    tmp <- w_tmp, total <- w_total, writes <- w_writes, call <- w_call,
    flight <- w_flight, created <- w_created, disk <- w_disk,
    unfilled <- w_unfilled

-----------------------------------------------------------------------------
vars == <<part, c_vars, h_vars, d_vars, v_vars, t_vars, w_vars>>

Init ==
    \/ /\ part = "auracp" /\ Cp!Init
       /\ h_Off /\ d_Off /\ v_Off /\ t_Off /\ w_Off
    \/ /\ part = "auracp_cpp" /\ Cpp!Init
       /\ h_Off /\ d_Off /\ v_Off /\ t_Off /\ w_Off
    \/ /\ part = "aura_hash" /\ Hash!Init
       /\ c_Off /\ d_Off /\ v_Off /\ t_Off /\ w_Off
    \/ /\ part = "scan" /\ Scan!Init
       /\ c_Off /\ h_Off /\ v_Off /\ t_Off /\ w_Off
    \/ /\ part = "visited" /\ Visited!Init
       /\ c_Off /\ h_Off /\ d_Off /\ t_Off /\ w_Off
    \/ /\ part = "tree" /\ Tree!Init
       /\ c_Off /\ h_Off /\ d_Off /\ v_Off /\ w_Off
    \/ /\ part = "bffio" /\ Job_!Init
       /\ c_Off /\ h_Off /\ d_Off /\ v_Off /\ t_Off
    \/ /\ part = "bffio_crossed" /\ Crossed!Init
       /\ c_Off /\ h_Off /\ d_Off /\ v_Off /\ t_Off

\* What a step of each part leaves alone.
c_Rest == <<part, h_vars, d_vars, v_vars, t_vars, w_vars>>
h_Rest == <<part, c_vars, d_vars, v_vars, t_vars, w_vars>>
d_Rest == <<part, c_vars, h_vars, v_vars, t_vars, w_vars>>
v_Rest == <<part, c_vars, h_vars, d_vars, t_vars, w_vars>>
t_Rest == <<part, c_vars, h_vars, d_vars, v_vars, w_vars>>
w_Rest == <<part, c_vars, h_vars, d_vars, v_vars, t_vars>>

Next ==
    \/ part = "auracp" /\ Cp!Next /\ UNCHANGED c_Rest
    \/ part = "auracp_cpp" /\ Cpp!Next /\ UNCHANGED c_Rest
    \/ part = "aura_hash" /\ Hash!Next /\ UNCHANGED h_Rest
    \/ part = "scan" /\ Scan!Next /\ UNCHANGED d_Rest
    \/ part = "visited" /\ Visited!Next /\ UNCHANGED v_Rest
    \/ part = "tree" /\ Tree!Next /\ UNCHANGED t_Rest
    \/ part = "bffio" /\ Job_!Next /\ UNCHANGED w_Rest
    \/ part = "bffio_crossed" /\ Crossed!Next /\ UNCHANGED w_Rest

Is(p) == part = p

\* A behaviour is of one part only, so fairness conditions of several parts can
\* share a conjunct.  Weak fairness of every thread, strong fairness of the
\* callbacks: they run while their thread polls.
MainStep ==
    \/ Is("auracp")     /\ Cp!Main           /\ UNCHANGED c_Rest
    \/ Is("auracp_cpp") /\ Cpp!Main          /\ UNCHANGED c_Rest
    \/ Is("aura_hash")  /\ Hash!Main         /\ UNCHANGED h_Rest
    \/ Is("scan")       /\ Scan!scan_tree    /\ UNCHANGED d_Rest
    \/ Is("bffio")      /\ Job_!workload_run /\ UNCHANGED w_Rest
WorkerStep(w) ==
    \/ Is("scan")  /\ Scan!worker_fn(w)     /\ UNCHANGED d_Rest
    \/ Is("bffio") /\ Job_!worker_thread(w) /\ UNCHANGED w_Rest
BatchStep(p) ==
    \/ Is("scan")  /\ Scan!process_dir_batch(p) /\ UNCHANGED d_Rest
    \/ Is("bffio") /\ Job_!callback(p)          /\ UNCHANGED w_Rest
CallbackStep(p) ==
    \/ Is("auracp")     /\ p = 0 /\ Cp!Callback   /\ UNCHANGED c_Rest
    \/ Is("auracp_cpp") /\ p = 0 /\ Cpp!Callback  /\ UNCHANGED c_Rest
    \/ Is("aura_hash")  /\ p = 0 /\ Hash!Callback /\ UNCHANGED h_Rest
    \/ Is("bffio")      /\ Job_!Callback(p)       /\ UNCHANGED w_Rest

Fairness ==
    /\ WF_vars(MainStep)
    /\ \A w \in {1, 2} : WF_vars(WorkerStep(w))
    /\ \A p \in {0, 1, 2} : WF_vars(BatchStep(p)) /\ SF_vars(CallbackStep(p))

Spec == Init /\ [][Next]_vars /\ Fairness

-----------------------------------------------------------------------------
(* Properties *)

\* The constants of this instance are among those the theorems about the visited
\* set, the scan and the digests are for.
ASSUME PartsAsProved ==
    /\ Visited!VisitedConstants /\ Scan!ScanConstants
    /\ Hash!HashConstants /\ Hash!WholeReads

\* Both copy tools.  No buffer slot serves two requests, or a request and a
\* free slot, at once.  auracp closes no file while a request on it is in
\* flight, and when it exits with success every destination has its source's
\* length and content, O_DIRECT padding cut off.  The C++ auracp leaves its
\* pipeline only when the fsyncs it has submitted have completed.
CopySafe ==
    /\ Is("auracp") => /\ Cp!SlotsExclusive
                       /\ Cp!FilesOutliveRequests
                       /\ Cp!CleanExitCopied
    /\ Is("auracp_cpp") => Cpp!SlotsExclusive /\ Cpp!ExitSynced

\* aura-hash feeds every digest its file in order and without a gap, whatever
\* the order the reads complete in, and gives no file two digests; a run that
\* ends without error has printed the digest of the whole of every file it
\* opened.
HashSafe == Is("aura_hash") => Hash!FedInOrder /\ Hash!DigestsWhole

\* The scan of atree.  The pending counter of the work queue is exactly the
\* directories queued, in a worker's hands, or counted and about to be queued;
\* when wq_signal_done has declared the scan over nobody can queue another; a
\* scan without SIGINT and without a directory given up has entered every
\* directory within the depth limit in the visited set, and has no request in
\* flight whose completion context is gone.  In the lock-free visited set a
\* tag that is published has its key beside it, and of the threads that enter
\* the same directory one is told that it was the first: none is skipped.
ScanSafe ==
    /\ Is("scan") => Scan!ScanSafe
    /\ Is("visited") => Visited!VisitedSafe

\* The passes of atree over the finished tree.  After aggregate every
\* directory's totals are the files, directories and bytes under it; after
\* sort_tree the children of every directory are in the order asked for; the
\* counts at the foot are those of the root's own line, but for a directory
\* that could not be stat'ed; node_free frees no node twice and looks at none
\* it has freed, and when no allocation fails it frees them all.
TreeSafe ==
    Is("tree") => /\ Tree!TotalsRight
                  /\ Tree!AllSorted
                  /\ Tree!FootMatchesRoot
                  /\ Tree!FreedOnce

\* atree: the scan, its visited set and the passes over the tree.
AtreeSafe == ScanSafe /\ TreeSafe

\* BFFIO.  Every I/O context is at one place, also when threads run each
\* other's callbacks: on its pool's free list once, in the worker's hands, in
\* flight, or in a callback.  As long as no thread runs the callbacks of
\* another, stats.inflight counts the worker's live requests and workload_run
\* releases buffers and pools with no request in flight that uses them.  It
\* leaves no temporary file behind, but for one it could not fill.
BffioSafe ==
    /\ part \in {"bffio", "bffio_crossed"} => Job_!ContextsAtOnePlace
    /\ Is("bffio") => /\ Job_!InflightExact
                      /\ Job_!PoolsOutliveRequests
                      /\ Job_!FilesRemoved

\* The programs end.  auracp and the C++ auracp wait for no completion that
\* cannot come; the drain after the loop of aura-hash leaves nothing behind;
\* scan_tree returns whatever fails and when SIGINT comes, with no worker
\* asleep in wq_pop; the workers of a BFFIO job find their counters at zero
\* and are joined.
ClientsEnd ==
    <>(/\ part \in {"auracp", "auracp_cpp"} => c_pc = "exited"
       /\ Is("aura_hash") => h_pc = "exited"
       /\ Is("scan") => d_pc[0] \in {"returned", "failed"}
       /\ Is("bffio") => w_pc[0] = "returned")
=============================================================================
