------------------------------ MODULE MCEngine ------------------------------
(***************************************************************************)
(* The parts of the library that meet the others only through the calls    *)
(* they are given, side by side for TLC: every behaviour is one of one     *)
(* part, chosen at the start. What the parts promise each other is in      *)
(* their own modules.                                                      *)
(***************************************************************************)
EXTENDS Integers, FiniteSets, TLC

CONSTANTS
  Nil   \* nothing: no bucket, no activation

\* A ring with an owner that cancels while two threads come to share it, and a
\* ring that one thread claims and uses.
Callers == {[submitters |-> {"t2", "t3"}, owners |-> {"t1"}],
            [submitters |-> {"t1"}, owners |-> {}]}

\* Two tiers of two buckets; the latencies sit on the tiers' bounds.
Tiers == << [start |-> 0,  width |-> 10, count |-> 2, base |-> 0],
            [start |-> 20, width |-> 30, count |-> 2, base |-> 2] >>
Latencies == {-1, 20, 80}

\* The component this behaviour is of; it never changes.
VARIABLE part

\* The value of the variables of the components that are not at work.
Off == "off"

-----------------------------------------------------------------------------
\* Ring with callbacks that call back into the library, on three slots in
\* passthrough mode.
VARIABLES
    r_lock, r_free, r_pending_count, r_queued_sqes, r_fixed_inflight,
    r_in_pool, r_pending, r_op, r_target, r_fatal, r_shutting_down,
    r_eventfd, r_sq, r_kq, r_inflight, r_cq, r_canceled, r_pc, r_req, r_want,
    r_tgt, r_batch, r_retire, r_after, r_got, r_w_fatal, r_w_pending,
    r_asked, r_aimed

Nested == INSTANCE Ring WITH
    Threads <- {"el"}, EventLoop <- "el", MaxDepth <- 2, QueueDepth <- 3,
    PollBatch <- 2, Limits <- {2}, Passthrough <- TRUE, Thresholds <- {2},
    Kinds <- {"plain"}, FlushFaults <- {"transient"}, Sqpoll <- FALSE,
    Forever <- FALSE, NoAct <- Nil, lock <- r_lock, free <- r_free,
    pending_count <- r_pending_count, queued_sqes <- r_queued_sqes,
    fixed_inflight <- r_fixed_inflight, in_pool <- r_in_pool,
    pending <- r_pending, op <- r_op, target <- r_target, fatal <- r_fatal,
    shutting_down <- r_shutting_down, eventfd <- r_eventfd, sq <- r_sq,
    kq <- r_kq, inflight <- r_inflight, cq <- r_cq, canceled <- r_canceled,
    pc <- r_pc, req <- r_req, want <- r_want, tgt <- r_tgt, batch <- r_batch,
    retire <- r_retire, after <- r_after, got <- r_got, w_fatal <- r_w_fatal,
    w_pending <- r_w_pending, asked <- r_asked, aimed <- r_aimed

r_vars == <<r_lock, r_free, r_pending_count, r_queued_sqes, r_fixed_inflight,
            r_in_pool, r_pending, r_op, r_target, r_fatal, r_shutting_down,
            r_eventfd, r_sq, r_kq, r_inflight, r_cq, r_canceled, r_pc, r_req,
            r_want, r_tgt, r_batch, r_retire, r_after, r_got, r_w_fatal,
            r_w_pending, r_asked, r_aimed>>

r_Off ==
    /\ r_lock = Off /\ r_free = Off /\ r_pending_count = Off
    /\ r_queued_sqes = Off /\ r_fixed_inflight = Off /\ r_in_pool = Off
    /\ r_pending = Off /\ r_op = Off /\ r_target = Off /\ r_fatal = Off
    /\ r_shutting_down = Off /\ r_eventfd = Off /\ r_sq = Off /\ r_kq = Off
    /\ r_inflight = Off /\ r_cq = Off /\ r_canceled = Off /\ r_pc = Off
    /\ r_req = Off /\ r_want = Off /\ r_tgt = Off /\ r_batch = Off
    /\ r_retire = Off /\ r_after = Off /\ r_got = Off /\ r_w_fatal = Off
    /\ r_w_pending = Off /\ r_asked = Off /\ r_aimed = Off

-----------------------------------------------------------------------------
\* Ring on the same variables: registered-file and registered-buffer
\* operations, with a kernel thread that consumes the SQ.
Sqpoll == INSTANCE Ring WITH
    Threads <- {"el", "w"}, EventLoop <- "el", MaxDepth <- 1,
    QueueDepth <- 2, PollBatch <- 1, Limits <- {2}, Passthrough <- FALSE,
    Thresholds <- {2}, Kinds <- {"file", "buffer"}, FlushFaults <- {"fatal"},
    Sqpoll <- TRUE, Forever <- FALSE, NoAct <- Nil, lock <- r_lock,
    free <- r_free, pending_count <- r_pending_count,
    queued_sqes <- r_queued_sqes, fixed_inflight <- r_fixed_inflight,
    in_pool <- r_in_pool, pending <- r_pending, op <- r_op,
    target <- r_target, fatal <- r_fatal, shutting_down <- r_shutting_down,
    eventfd <- r_eventfd, sq <- r_sq, kq <- r_kq, inflight <- r_inflight,
    cq <- r_cq, canceled <- r_canceled, pc <- r_pc, req <- r_req,
    want <- r_want, tgt <- r_tgt, batch <- r_batch, retire <- r_retire,
    after <- r_after, got <- r_got, w_fatal <- r_w_fatal,
    w_pending <- r_w_pending, asked <- r_asked, aimed <- r_aimed

-----------------------------------------------------------------------------
\* Two rings; option values at and beside the limits.
VARIABLES
    c_options, c_todo, c_held, c_setup, c_config, c_misuse, c_result

Create == INSTANCE EngineCreate WITH
    NRings <- 2, DefaultDepth <- 8, MaxDepth <- 9,
    Depths <- {0, 3, 4, 9, 10}, Mins <- {0, 1, 4, 5}, Initials <- {0, 4, 9},
    options <- c_options, todo <- c_todo, held <- c_held, setup <- c_setup,
    config <- c_config, misuse <- c_misuse, result <- c_result

c_vars == <<c_options, c_todo, c_held, c_setup, c_config, c_misuse, c_result>>

c_Off ==
    /\ c_options = Off /\ c_todo = Off /\ c_held = Off /\ c_setup = Off
    /\ c_config = Off /\ c_misuse = Off /\ c_result = Off

-----------------------------------------------------------------------------
\* Chains, cancels and polls on a ring that is full after three requests.
VARIABLES
    l_next, l_sq, l_inflight, l_tls_last_sqe, l_tls_link_ring, l_last,
    l_marked, l_promised, l_chained

Chain == INSTANCE LinkedChain WITH
    MaxRequests <- 5, Capacity <- 3, Threshold <- 3, Cancelling <- TRUE,
    next <- l_next, sq <- l_sq, inflight <- l_inflight,
    tls_last_sqe <- l_tls_last_sqe, tls_link_ring <- l_tls_link_ring,
    last <- l_last, marked <- l_marked, promised <- l_promised,
    chained <- l_chained

l_vars == <<l_next, l_sq, l_inflight, l_tls_last_sqe, l_tls_link_ring,
            l_last, l_marked, l_promised, l_chained>>

l_Off ==
    /\ l_next = Off /\ l_sq = Off /\ l_inflight = Off /\ l_tls_last_sqe = Off
    /\ l_tls_link_ring = Off /\ l_last = Off /\ l_marked = Off
    /\ l_promised = Off /\ l_chained = Off

-----------------------------------------------------------------------------
\* RingLock: the two cases of Callers.
VARIABLES
    k_submitters, k_owner_count, k_single_thread, k_st_users, k_lock, k_pc,
    k_op, k_lock_st, k_owned, k_linked

Lock == INSTANCE RingLock WITH
    Threads <- {"t1", "t2", "t3"}, Callers <- Callers, Chains <- TRUE,
    MaxDrift <- 3, NoThread <- Nil, submitters <- k_submitters,
    owner_count <- k_owner_count, single_thread <- k_single_thread,
    st_users <- k_st_users, lock <- k_lock, pc <- k_pc, op <- k_op,
    lock_st <- k_lock_st, owned <- k_owned, linked <- k_linked

k_vars == <<k_submitters, k_owner_count, k_single_thread, k_st_users, k_lock,
            k_pc, k_op, k_lock_st, k_owned, k_linked>>

k_Off ==
    /\ k_submitters = Off /\ k_owner_count = Off /\ k_single_thread = Off
    /\ k_st_users = Off /\ k_lock = Off /\ k_pc = Off /\ k_op = Off
    /\ k_lock_st = Off /\ k_owned = Off /\ k_linked = Off

-----------------------------------------------------------------------------
\* Two threads that record, one of which may be late by whole ticks.
VARIABLES
    h_active_index, h_buckets, h_total, h_pending_reset, h_wpc, h_whist,
    h_wlat, h_tpc, h_told, h_p99, h_written, h_records

Hist == INSTANCE Histogram WITH
    Writers <- {1, 2}, Tiers <- Tiers, Latencies <- Latencies,
    MaxRecords <- 3, NoBucket <- Nil, active_index <- h_active_index,
    buckets <- h_buckets, total <- h_total, pending_reset <- h_pending_reset,
    wpc <- h_wpc, whist <- h_whist, wlat <- h_wlat, tpc <- h_tpc,
    told <- h_told, p99 <- h_p99, written <- h_written, records <- h_records

h_vars == <<h_active_index, h_buckets, h_total, h_pending_reset, h_wpc,
            h_whist, h_wlat, h_tpc, h_told, h_p99, h_written, h_records>>

h_Off ==
    /\ h_active_index = Off /\ h_buckets = Off /\ h_total = Off
    /\ h_pending_reset = Off /\ h_wpc = Off /\ h_whist = Off /\ h_wlat = Off
    /\ h_tpc = Off /\ h_told = Off /\ h_p99 = Off /\ h_written = Off
    /\ h_records = Off

-----------------------------------------------------------------------------
\* Two engines in a row, of one, two or three rings, in every mode.
VARIABLES
    e_engine, e_past, e_engines, e_next_ring, e_owner_count, e_pending_count,
    e_avg_ring_pending, e_tls_owned_ring, e_tls_engine, e_cached_cpu, e_pick

Select == INSTANCE RingSelect WITH
    Threads <- {1, 2}, RingCounts <- {1, 2, 3},
    Modes <- {"adaptive", "cpu_local", "round_robin", "thread_local"},
    Addresses <- {1, 2}, Reuse <- FALSE, MaxEngines <- 2, MaxPending <- 1,
    Limit <- 2, Sticky <- (1 :> 5 @@ 2 :> 8), engine <- e_engine,
    past <- e_past, engines <- e_engines, next_ring <- e_next_ring,
    owner_count <- e_owner_count, pending_count <- e_pending_count,
    avg_ring_pending <- e_avg_ring_pending,
    tls_owned_ring <- e_tls_owned_ring, tls_engine <- e_tls_engine,
    cached_cpu <- e_cached_cpu, pick <- e_pick

e_vars == <<e_engine, e_past, e_engines, e_next_ring, e_owner_count,
            e_pending_count, e_avg_ring_pending, e_tls_owned_ring,
            e_tls_engine, e_cached_cpu, e_pick>>

e_Off ==
    /\ e_engine = Off /\ e_past = Off /\ e_engines = Off /\ e_next_ring = Off
    /\ e_owner_count = Off /\ e_pending_count = Off
    /\ e_avg_ring_pending = Off /\ e_tls_owned_ring = Off
    /\ e_tls_engine = Off /\ e_cached_cpu = Off /\ e_pick = Off

-----------------------------------------------------------------------------
\* The batch threshold between the tick and two threads that set it.
VARIABLES
    t_current_batch_threshold, t_batch_threshold_fixed, t_tick,
    t_batch_threshold, t_setter, t_asked, t_unfixed, t_overtaken

Batch == INSTANCE BatchThreshold WITH
    Setters <- {1, 2}, Values <- {1, 3}, MinBatch <- 1, MaxBatch <- 4,
    IntMax <- 9, current_batch_threshold <- t_current_batch_threshold,
    batch_threshold_fixed <- t_batch_threshold_fixed, tick <- t_tick,
    batch_threshold <- t_batch_threshold, setter <- t_setter,
    asked <- t_asked, unfixed <- t_unfixed, overtaken <- t_overtaken

t_vars == <<t_current_batch_threshold, t_batch_threshold_fixed, t_tick,
            t_batch_threshold, t_setter, t_asked, t_unfixed, t_overtaken>>

t_Off ==
    /\ t_current_batch_threshold = Off /\ t_batch_threshold_fixed = Off
    /\ t_tick = Off /\ t_batch_threshold = Off /\ t_setter = Off
    /\ t_asked = Off /\ t_unfixed = Off /\ t_overtaken = Off

-----------------------------------------------------------------------------
\* The C++ engine with two shards of two contexts and three operations, so
\* that a shard may grow.
VARIABLES
    b_contexts, b_free_head, b_op, b_ctx, b_ran, b_alive, b_handle, b_pool,
    b_buffer

Cpp == INSTANCE CppEngine WITH
    Ops <- {1, 2, 3}, Shards <- {1, 2}, InitialSize <- 2, Buffers <- {},
    OtherThreads <- FALSE, None <- Nil, contexts <- b_contexts,
    free_head <- b_free_head, op <- b_op, ctx <- b_ctx, ran <- b_ran,
    alive <- b_alive, handle <- b_handle, pool <- b_pool, buffer <- b_buffer

b_vars == <<b_contexts, b_free_head, b_op, b_ctx, b_ran, b_alive, b_handle,
            b_pool, b_buffer>>

b_Off ==
    /\ b_contexts = Off /\ b_free_head = Off /\ b_op = Off /\ b_ctx = Off
    /\ b_ran = Off /\ b_alive = Off /\ b_handle = Off /\ b_pool = Off
    /\ b_buffer = Off

-----------------------------------------------------------------------------
\* The same engine with one operation and two Buffers.
CppBuf == INSTANCE CppEngine WITH
    Ops <- {1}, Shards <- {1}, InitialSize <- 2, Buffers <- {1, 2},
    OtherThreads <- FALSE, None <- Nil, contexts <- b_contexts,
    free_head <- b_free_head, op <- b_op, ctx <- b_ctx, ran <- b_ran,
    alive <- b_alive, handle <- b_handle, pool <- b_pool, buffer <- b_buffer

-----------------------------------------------------------------------------
\* Two Rust futures over one request slot, each awaited by one task after
\* another.
VARIABLES
    f_future, f_result, f_waker, f_consumed, f_context, f_request, f_slot,
    f_pending, f_canceled, f_callback, f_task, f_current, f_output,
    f_handles, f_engine, f_poll_lock

Rust == INSTANCE RustFutures WITH
    Ops <- {"o1", "o2"}, Slots <- {1}, Pollers <- {"el"},
    Wakers <- {"w1", "w2"}, Vectored <- {"o2"}, None <- Nil,
    future <- f_future, result <- f_result, waker <- f_waker,
    consumed <- f_consumed, context <- f_context, request <- f_request,
    slot <- f_slot, pending <- f_pending, canceled <- f_canceled,
    callback <- f_callback, task <- f_task, current <- f_current,
    output <- f_output, handles <- f_handles, engine <- f_engine,
    poll_lock <- f_poll_lock

f_vars == <<f_future, f_result, f_waker, f_consumed, f_context, f_request,
            f_slot, f_pending, f_canceled, f_callback, f_task, f_current,
            f_output, f_handles, f_engine, f_poll_lock>>

f_Off ==
    /\ f_future = Off /\ f_result = Off /\ f_waker = Off /\ f_consumed = Off
    /\ f_context = Off /\ f_request = Off /\ f_slot = Off /\ f_pending = Off
    /\ f_canceled = Off /\ f_callback = Off /\ f_task = Off
    /\ f_current = Off /\ f_output = Off /\ f_handles = Off /\ f_engine = Off
    /\ f_poll_lock = Off

-----------------------------------------------------------------------------
vars == <<part, r_vars, c_vars, l_vars, k_vars, h_vars, e_vars, t_vars, b_vars,
          f_vars>>

Init ==
    \/ /\ part = "nested" /\ Nested!Init
       /\ c_Off /\ l_Off /\ k_Off /\ h_Off /\ e_Off /\ t_Off /\ b_Off
       /\ f_Off
    \/ /\ part = "sqpoll" /\ Sqpoll!Init
       /\ c_Off /\ l_Off /\ k_Off /\ h_Off /\ e_Off /\ t_Off /\ b_Off
       /\ f_Off
    \/ /\ part = "create" /\ Create!Init
       /\ r_Off /\ l_Off /\ k_Off /\ h_Off /\ e_Off /\ t_Off /\ b_Off
       /\ f_Off
    \/ /\ part = "chain" /\ Chain!Init
       /\ r_Off /\ c_Off /\ k_Off /\ h_Off /\ e_Off /\ t_Off /\ b_Off
       /\ f_Off
    \/ /\ part = "lock" /\ Lock!Init
       /\ r_Off /\ c_Off /\ l_Off /\ h_Off /\ e_Off /\ t_Off /\ b_Off
       /\ f_Off
    \/ /\ part = "histogram" /\ Hist!Init
       /\ r_Off /\ c_Off /\ l_Off /\ k_Off /\ e_Off /\ t_Off /\ b_Off
       /\ f_Off
    \/ /\ part = "select" /\ Select!Init
       /\ r_Off /\ c_Off /\ l_Off /\ k_Off /\ h_Off /\ t_Off /\ b_Off
       /\ f_Off
    \/ /\ part = "threshold" /\ Batch!Init
       /\ r_Off /\ c_Off /\ l_Off /\ k_Off /\ h_Off /\ e_Off /\ b_Off
       /\ f_Off
    \/ /\ part = "cpp" /\ Cpp!Init
       /\ r_Off /\ c_Off /\ l_Off /\ k_Off /\ h_Off /\ e_Off /\ t_Off
       /\ f_Off
    \/ /\ part = "cpp_buffers" /\ CppBuf!Init
       /\ r_Off /\ c_Off /\ l_Off /\ k_Off /\ h_Off /\ e_Off /\ t_Off
       /\ f_Off
    \/ /\ part = "futures" /\ Rust!Init
       /\ r_Off /\ c_Off /\ l_Off /\ k_Off /\ h_Off /\ e_Off /\ t_Off
       /\ b_Off

\* What a step of each part leaves alone.
r_Rest == <<part, c_vars, l_vars, k_vars, h_vars, e_vars, t_vars, b_vars, f_vars>>
c_Rest == <<part, r_vars, l_vars, k_vars, h_vars, e_vars, t_vars, b_vars, f_vars>>
l_Rest == <<part, r_vars, c_vars, k_vars, h_vars, e_vars, t_vars, b_vars, f_vars>>
k_Rest == <<part, r_vars, c_vars, l_vars, h_vars, e_vars, t_vars, b_vars, f_vars>>
h_Rest == <<part, r_vars, c_vars, l_vars, k_vars, e_vars, t_vars, b_vars, f_vars>>
e_Rest == <<part, r_vars, c_vars, l_vars, k_vars, h_vars, t_vars, b_vars, f_vars>>
t_Rest == <<part, r_vars, c_vars, l_vars, k_vars, h_vars, e_vars, b_vars, f_vars>>
b_Rest == <<part, r_vars, c_vars, l_vars, k_vars, h_vars, e_vars, t_vars, f_vars>>
f_Rest == <<part, r_vars, c_vars, l_vars, k_vars, h_vars, e_vars, t_vars, b_vars>>

Next ==
    \/ part = "nested" /\ Nested!Next /\ UNCHANGED r_Rest
    \/ part = "sqpoll" /\ Sqpoll!Next /\ UNCHANGED r_Rest
    \/ part = "create" /\ Create!Next /\ UNCHANGED c_Rest
    \/ part = "chain" /\ Chain!Next /\ UNCHANGED l_Rest
    \/ part = "lock" /\ Lock!Next /\ UNCHANGED k_Rest
    \/ part = "histogram" /\ Hist!Next /\ UNCHANGED h_Rest
    \/ part = "select" /\ Select!Next /\ UNCHANGED e_Rest
    \/ part = "threshold" /\ Batch!Next /\ UNCHANGED t_Rest
    \/ part = "cpp" /\ Cpp!Next /\ UNCHANGED b_Rest
    \/ part = "cpp_buffers" /\ CppBuf!Next /\ UNCHANGED b_Rest
    \/ part = "futures" /\ Rust!Next /\ UNCHANGED f_Rest

Spec == Init /\ [][Next]_vars

-----------------------------------------------------------------------------
(* Properties *)

\* The constants are such as the proofs about these parts assume.
ASSUME PartsAsProved ==
    Lock!LockConstants /\ Select!SelectConstants /\ Rust!FuturesConstants /\ Create!CreateConstants
    /\ Cpp!CppConstants /\ CppBuf!CppConstants

\* The counters of the ring on the sqpoll part.  Although io_uring_submit
\* reports SQEs of earlier submits with SQPOLL, the clamp of ring_flush keeps
\* queued_sqes the number of SQEs not yet published and pending_count the
\* number of requests in flight; and a registered file or buffer counts as in
\* flight exactly while an operation on it is submitted and not yet processed.
AllCountsExact == part = "sqpoll" => Sqpoll!AllCountsExact

\* However far aura_create got, failing releases exactly what had been
\* acquired, nothing twice, and so does aura_destroy; options that pass
\* validation give every ring a floor and a starting limit inside its queue.
CreateSound == part = "create" => Create!CreateSafe

\* No SQE is linked that aura_request_set_linked was not asked to link: a
\* request only waits for the request marked just before it, and a cancel for
\* none.
NoStrayChain == part = "chain" => Chain!NoStrayChain

\* Two threads are never at once on the submission side of the ring, nor on its
\* completion side, whether each came in by the mutex or lockless.
MutualExclusion == part = "lock" => Lock!MutualExclusion

\* adaptive_hist_record counts a latency in a bucket whose bounds hold it, or as
\* an overflow; although a reset may tear a late record apart, the counters of
\* a histogram differ by at most one per late writer and adaptive_hist_p99
\* reports a bucket somebody recorded into.
HistogramSound ==
    part = "histogram" => /\ Hist!BucketHoldsLatency
                          /\ Hist!PercentileWasRecorded
                          /\ Hist!TornBounded

\* owner_count, which decides whether a ring may run without locks, counts the
\* threads that will use the ring as theirs, whatever they remember of engines
\* that are gone; and a spilled submission goes to another ring of this
\* engine, after comparing two of them where there are two.
SelectionSound ==
    part = "select" => Select!SelectionSound

\* A fixed batch threshold is the one asked for last, unless a tick that was
\* under way before it was fixed has stored its own since: the optimizer and
\* overlapping setters use no lock.
ThresholdKept == part = "threshold" => Batch!ThresholdKept

\* Rust futures.  A task that sleeps while its result is there is about to be
\* woken: the callback that stored the result holds the waker of the task that
\* awaits the future now.  callback_trampoline is always given a context that
\* is still boxed, and none is left when the engine is gone.  IoFuture::drop
\* never calls aura_cancel on an engine that has been destroyed.
FuturesSafe ==
    part = "futures" => Rust!FuturesSafe

\* The C++ engine.  Every callback context is held by one operation or on its
\* shard's free list, through growth, refused submissions and releases that
\* race with allocations; the trampoline calls, for each operation, the
\* callback that was given to submit_io for it; nothing is inside the pool
\* when the destructor drops it; and a Buffer that outlives its Engine is
\* never returned to the engine that is gone.
CppSafe ==
    /\ part = "cpp" => Cpp!CppSafe
    /\ part = "cpp_buffers" => CppBuf!CppSafe

\* A refinement holds of the behaviours of its part.
\* The ring implements the request lifecycle: one completion per submitted
\* request, and no reuse of its slot before the callback has returned.
ImplementsLifecycle ==
    /\ part = "nested" => Nested!Lifecycle!Init
    /\ [][part = "nested" => [Nested!Lifecycle!Next]_(Nested!Phase)]_vars
=============================================================================
