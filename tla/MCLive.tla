------------------------------- MODULE MCLive -------------------------------
(***************************************************************************)
(* What must happen in the end, for TLC: the ring, the way out of the      *)
(* lockless mode and the event loop, side by side. Every behaviour is one  *)
(* of one part, under the fairness that part's module assumes.             *)
(***************************************************************************)
EXTENDS Integers, FiniteSets

CONSTANTS
  Nil   \* nothing: no activation, no thread

\* A ring with an owner that cancels while another thread comes to share it,
\* and a ring that one thread claims and uses.
Callers == {[submitters |-> {"t2"}, owners |-> {"t1"}],
            [submitters |-> {"t1"}, owners |-> {}]}

\* The component this behaviour is of; it never changes.
VARIABLE part

\* The value of the variables of the components that are not at work.
Off == "off"

-----------------------------------------------------------------------------
\* Ring with a limit of one on two slots and a batch threshold of two.
VARIABLES
    r_lock, r_free, r_pending_count, r_queued_sqes, r_fixed_inflight,
    r_in_pool, r_pending, r_op, r_target, r_fatal, r_shutting_down,
    r_eventfd, r_sq, r_kq, r_inflight, r_cq, r_canceled, r_pc, r_req, r_want,
    r_tgt, r_batch, r_retire, r_after, r_got, r_w_fatal, r_w_pending,
    r_asked, r_aimed

Ring == INSTANCE Ring WITH
    Threads <- {"el", "w"}, EventLoop <- "el", MaxDepth <- 1,
    QueueDepth <- 2, PollBatch <- 2, Limits <- {1}, Passthrough <- FALSE,
    Thresholds <- {2}, Kinds <- {"plain"}, FlushFaults <- {},
    Sqpoll <- FALSE, Forever <- FALSE, NoAct <- Nil, lock <- r_lock,
    free <- r_free, pending_count <- r_pending_count,
    queued_sqes <- r_queued_sqes, fixed_inflight <- r_fixed_inflight,
    in_pool <- r_in_pool, pending <- r_pending, op <- r_op,
    target <- r_target, fatal <- r_fatal, shutting_down <- r_shutting_down,
    eventfd <- r_eventfd, sq <- r_sq, kq <- r_kq, inflight <- r_inflight,
    cq <- r_cq, canceled <- r_canceled, pc <- r_pc, req <- r_req,
    want <- r_want, tgt <- r_tgt, batch <- r_batch, retire <- r_retire,
    after <- r_after, got <- r_got, w_fatal <- r_w_fatal,
    w_pending <- r_w_pending, asked <- r_asked, aimed <- r_aimed

r_vars == <<r_lock, r_free, r_pending_count, r_queued_sqes, r_fixed_inflight,
            r_in_pool, r_pending, r_op, r_target, r_fatal, r_shutting_down,
            r_eventfd, r_sq, r_kq, r_inflight, r_cq, r_canceled, r_pc, r_req,
            r_want, r_tgt, r_batch, r_retire, r_after, r_got, r_w_fatal,
            r_w_pending, r_asked, r_aimed>>

r_Off ==
    /\ r_lock = Off /\ r_free = Off /\ r_pending_count = Off
    /\ r_queued_sqes = Off /\ r_fixed_inflight = Off /\ r_in_pool = Off
    /\ r_pending = Off /\ r_op = Off /\ r_target = Off /\ r_fatal = Off
    /\ r_shutting_down = Off /\ r_eventfd = Off /\ r_sq = Off /\ r_kq = Off
    /\ r_inflight = Off /\ r_cq = Off /\ r_canceled = Off /\ r_pc = Off
    /\ r_req = Off /\ r_want = Off /\ r_tgt = Off /\ r_batch = Off
    /\ r_retire = Off /\ r_after = Off /\ r_got = Off /\ r_w_fatal = Off
    /\ r_w_pending = Off /\ r_asked = Off /\ r_aimed = Off

-----------------------------------------------------------------------------
\* RingLock: the two cases of Callers.
VARIABLES
    k_submitters, k_owner_count, k_single_thread, k_st_users, k_lock, k_pc,
    k_op, k_lock_st, k_owned, k_linked

Lock == INSTANCE RingLock WITH
    Threads <- {"t1", "t2"}, Callers <- Callers, Chains <- TRUE,
    MaxDrift <- 3, NoThread <- Nil, submitters <- k_submitters,
    owner_count <- k_owner_count, single_thread <- k_single_thread,
    st_users <- k_st_users, lock <- k_lock, pc <- k_pc, op <- k_op,
    lock_st <- k_lock_st, owned <- k_owned, linked <- k_linked

k_vars == <<k_submitters, k_owner_count, k_single_thread, k_st_users, k_lock,
            k_pc, k_op, k_lock_st, k_owned, k_linked>>

k_Off ==
    /\ k_submitters = Off /\ k_owner_count = Off /\ k_single_thread = Off
    /\ k_st_users = Off /\ k_lock = Off /\ k_pc = Off /\ k_op = Off
    /\ k_lock_st = Off /\ k_owned = Off /\ k_linked = Off

-----------------------------------------------------------------------------
\* EventLoop with two rings and flushes that may fail.
VARIABLES
    o_queued, o_kernel, o_cq, o_eventfd, o_shutting_down, o_stop_requested,
    o_running, o_fatal_submit_errno, o_tick_running, o_tick,
    o_avg_ring_pending, o_call, o_pc, o_i, o_total, o_first_pending,
    o_drain_iterations, o_freed

Loop == INSTANCE EventLoop WITH
    NRings <- 2, MaxPending <- 2, MaxDrain <- 2, FlushFails <- TRUE,
    queued <- o_queued, kernel <- o_kernel, cq <- o_cq, eventfd <- o_eventfd,
    shutting_down <- o_shutting_down, stop_requested <- o_stop_requested,
    running <- o_running, fatal_submit_errno <- o_fatal_submit_errno,
    tick_running <- o_tick_running, tick <- o_tick,
    avg_ring_pending <- o_avg_ring_pending, call <- o_call, pc <- o_pc,
    i <- o_i, total <- o_total, first_pending <- o_first_pending,
    drain_iterations <- o_drain_iterations, freed <- o_freed

o_vars == <<o_queued, o_kernel, o_cq, o_eventfd, o_shutting_down,
            o_stop_requested, o_running, o_fatal_submit_errno,
            o_tick_running, o_tick, o_avg_ring_pending, o_call, o_pc, o_i,
            o_total, o_first_pending, o_drain_iterations, o_freed>>

o_Off ==
    /\ o_queued = Off /\ o_kernel = Off /\ o_cq = Off /\ o_eventfd = Off
    /\ o_shutting_down = Off /\ o_stop_requested = Off /\ o_running = Off
    /\ o_fatal_submit_errno = Off /\ o_tick_running = Off /\ o_tick = Off
    /\ o_avg_ring_pending = Off /\ o_call = Off /\ o_pc = Off /\ o_i = Off
    /\ o_total = Off /\ o_first_pending = Off /\ o_drain_iterations = Off
    /\ o_freed = Off

-----------------------------------------------------------------------------
vars == <<part, r_vars, k_vars, o_vars>>

Init ==
    \/ /\ part = "ring" /\ Ring!Init
       /\ k_Off /\ o_Off
    \/ /\ part = "lock" /\ Lock!Init
       /\ r_Off /\ o_Off
    \/ /\ part = "loop" /\ Loop!Init
       /\ r_Off /\ k_Off

\* What a step of each part leaves alone.
r_Rest == <<part, k_vars, o_vars>>
k_Rest == <<part, r_vars, o_vars>>
o_Rest == <<part, r_vars, k_vars>>

Next ==
    \/ part = "ring" /\ Ring!Next /\ UNCHANGED r_Rest
    \/ part = "lock" /\ Lock!Next /\ UNCHANGED k_Rest
    \/ part = "loop" /\ Loop!Next /\ UNCHANGED o_Rest

Ring_ == part = "ring"
Lock_ == part = "lock"
Loop_ == part = "loop"

\* The fairness of the part at work.
Fairness ==
    /\ \A a \in Ring!Acts : SF_r_vars(Ring_ /\ Ring!LibraryStep(a))
    /\ SF_r_vars(Ring_ /\ (Ring!PollCall \/ Ring!WaitCall))
    /\ WF_r_vars(Ring_ /\ Ring!KernelIssue)
    /\ \A s \in Ring!Slots : WF_r_vars(Ring_ /\ Ring!KernelComplete(s))
    /\ \A t \in {"t1", "t2"} :
         WF_k_vars(Lock_ /\ Lock!Step(t)) /\ SF_k_vars(Lock_ /\ Lock!LockMutex(t))
    /\ WF_o_vars(Loop_ /\ (Loop!Wait \/ Loop!Run \/ Loop!Drain \/ Loop!Destroy))
    /\ WF_o_vars(Loop_ /\ Loop!Tick)
    /\ \A r \in Loop!Rings : WF_o_vars(Loop_ /\ Loop!Complete(r))

Spec == Init /\ [][Next]_vars /\ Fairness

-----------------------------------------------------------------------------
(* Properties *)

\* The operations in flight never exceed the largest limit the controller has
\* published, although submit_begin checks it, drops the lock to drain
\* completions, and checks again.
LimitRespected == Ring_ => Ring!LimitRespected

\* When aura_wait blocks on the eventfd, a completion that is in some ring has
\* left the eventfd readable; and aura_destroy frees the engine with nothing in
\* flight, unless a fatal submit error has made draining impossible, and after
\* the tick thread is gone.
LoopSafe == Loop_ => Loop!LoopSafe

\* Every slot handed out comes back to the pool: no request is stuck unflushed
\* below the batch threshold, in the kernel, or in the CQ, and no slot leaks.
SlotsComeBack ==
    \A s \in Ring!Slots :
      (Ring_ /\ ~r_in_pool[s]) ~> (Ring_ /\ r_in_pool[s])

\* The drain of aura_destroy ends: once shutdown is signalled the requests in
\* flight reach zero and stay there.
ShutdownDrains ==
    (Ring_ /\ r_shutting_down) ~> [](Ring_ /\ r_pending_count = 0)

\* Both, for the ring: what was submitted is completed and given back, while
\* the library is in use and when it is shut down.
RingLive == SlotsComeBack /\ ShutdownDrains

\* A thread that starts to claim the ring gets through the spin of
\* select_ring_thread_local to its submission, and a thread that waits in
\* ring_lock for the mutex gets it: nobody leaves a section with it held.
LocksLive ==
    \A t \in {"t1", "t2"} :
      /\ (Lock_ /\ k_pc[t] \in {"enable", "share", "spin"})
           ~> (Lock_ /\ k_pc[t] = "begin")
      /\ (Lock_ /\ k_pc[t] = "mutex") ~> (Lock_ /\ k_pc[t] = "inside")

\* A stop asked for while aura_run runs ends it, even while callbacks and
\* other threads keep submitting, as the drain after it is bounded; and
\* aura_destroy returns, when the kernel completes what it has.
LoopEnds ==
    /\ (Loop_ /\ o_running /\ o_stop_requested) ~> (Loop_ /\ ~o_running)
    /\ (Loop_ /\ o_call = "destroy") ~> (Loop_ /\ o_freed)
=============================================================================
