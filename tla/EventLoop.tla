------------------------------ MODULE EventLoop ------------------------------
(***************************************************************************)
(* The event loop of an engine with several rings: aura_wait over all      *)
(* rings and their common eventfd, aura_run, aura_stop, aura_drain, the    *)
(* tick thread and aura_destroy.                                           *)
(*                                                                         *)
(* Only one thread at a time processes completions (aura.h, "EVENT LOOP"): *)
(* first the loop thread in aura_run, then, once aura_run has returned and *)
(* the application has joined its threads, the thread in aura_destroy.     *)
(* The rings are seen from outside: how many requests each has in its      *)
(* submission queue, in the kernel and in its completion queue.  Ring.tla  *)
(* opens them up.                                                          *)
(***************************************************************************)
EXTENDS Integers, FiniteSets, FiniteSetsExt

CONSTANTS
  NRings,      \* engine->ring_count
  MaxPending,  \* requests the application lets be pending at once
  MaxDrain,    \* the 100 drain iterations of aura_run
  FlushFails   \* whether io_uring_submit may fail for good

VARIABLES
  queued, kernel, cq,   \* per ring: in the SQ, in the kernel, in the CQ
  eventfd,              \* the eventfd is readable
  shutting_down, stop_requested, running, fatal_submit_errno,
  tick_running, tick,   \* the tick thread: "sleep", "scan" or "exited"
  avg_ring_pending,
  call,                 \* what the event-loop role executes: a stack's bottom
  pc, i,                \* inside aura_wait
  total, first_pending, \* aura_wait's locals, as Booleans
  drain_iterations,     \* aura_run's
  freed                 \* destroy_phase_4 has freed the engine

vars == <<queued, kernel, cq, eventfd, shutting_down, stop_requested, running,
          fatal_submit_errno, tick_running, tick, avg_ring_pending, call, pc, i,
          total, first_pending, drain_iterations, freed>>
ringVars == <<queued, kernel, cq>>
engineFlags == <<shutting_down, stop_requested, running>>
tickVars == <<tick_running, tick, avg_ring_pending>>
waitVars == <<pc, i, total, first_pending>>

Rings == 0 .. NRings - 1
pending_count(r) == queued[r] + kernel[r] + cq[r]
has_pending == \E r \in Rings : pending_count(r) > 0
TotalPending == SumFunction([r \in Rings |-> pending_count(r)])

\* An engine aura_create has just returned: idle rings and a tick thread.
Init ==
  /\ queued = [r \in Rings |-> 0] /\ kernel = queued /\ cq = queued
  /\ eventfd = FALSE
  /\ shutting_down = FALSE /\ stop_requested = FALSE /\ running = FALSE
  /\ fatal_submit_errno = FALSE
  /\ tick_running = TRUE /\ tick = "sleep" /\ avg_ring_pending = 0
  /\ call = "none" /\ pc = "out" /\ i = 0
  /\ total = FALSE /\ first_pending = FALSE
  /\ drain_iterations = 0
  /\ freed = FALSE

-----------------------------------------------------------------------------
(* The application, the kernel and the tick thread.                        *)

\* A submission from an application thread, before aura_destroy.  It may or
\* may not reach the batch threshold and be flushed at once.
Submit(r) ==
  /\ ~freed /\ ~shutting_down /\ ~fatal_submit_errno
  /\ call # "destroy"
  /\ TotalPending < MaxPending
  /\ \/ queued' = [queued EXCEPT ![r] = @ + 1] /\ UNCHANGED kernel
     \/ queued' = [queued EXCEPT ![r] = 0] /\ kernel' = [kernel EXCEPT ![r] = @ + queued[r] + 1]
  /\ UNCHANGED <<cq, eventfd, engineFlags, fatal_submit_errno, tickVars, call, waitVars,
                 drain_iterations, freed>>

\* The kernel completes a request and signals the eventfd.
Complete(r) ==
  /\ kernel[r] > 0
  /\ kernel' = [kernel EXCEPT ![r] = @ - 1]
  /\ cq' = [cq EXCEPT ![r] = @ + 1]
  /\ eventfd' = TRUE
  /\ UNCHANGED <<queued, engineFlags, fatal_submit_errno, tickVars, call, waitVars,
                 drain_iterations, freed>>

\* aura_stop, from any thread.
aura_stop ==
  /\ ~freed /\ call # "destroy"
  /\ stop_requested' = TRUE
  /\ UNCHANGED <<ringVars, eventfd, shutting_down, running, fatal_submit_errno, tickVars,
                 call, waitVars, drain_iterations, freed>>

\* tick_thread_func: asleep until the next tick or the end.
TickWakes ==
  /\ tick = "sleep"
  /\ tick' = IF tick_running THEN "scan" ELSE "exited"
  /\ UNCHANGED <<ringVars, eventfd, engineFlags, fatal_submit_errno, tick_running,
                 avg_ring_pending, call, waitVars, drain_iterations, freed>>

\* Its pass over the rings: the average that spreads submissions.
TickScans ==
  /\ tick = "scan"
  /\ avg_ring_pending' = TotalPending \div NRings
  /\ tick' = "sleep"
  /\ UNCHANGED <<ringVars, eventfd, engineFlags, fatal_submit_errno, tick_running, call,
                 waitVars, drain_iterations, freed>>

-----------------------------------------------------------------------------
(* aura_wait.                                                              *)

\* The entry of aura_wait: the eventfd is drained before any ring is polled.
WaitEnter ==
  /\ i' = 0 /\ total' = FALSE /\ first_pending' = FALSE /\ pc' = "scan"
  /\ eventfd' = FALSE

\* Fault: callbacks may submit although the engine is shutting down.
FlushPoll_Late(r, flush, fails, resubmit) ==
  LET sent == IF flush /\ ~fails THEN queued[r] ELSE 0
      reaped == cq[r]
  IN  /\ fails => FlushFails /\ flush /\ queued[r] > 0
      /\ fatal_submit_errno' = (fatal_submit_errno \/ fails)
      /\ resubmit # {} => reaped > 0 /\ ~fatal_submit_errno'
      /\ queued' = [s \in Rings |-> (IF s = r THEN queued[s] - sent ELSE queued[s])
                                      + (IF s \in resubmit THEN 1 ELSE 0)]
      /\ kernel' = [kernel EXCEPT ![r] = @ + sent]
      /\ cq' = [cq EXCEPT ![r] = 0]
      /\ TotalPending - reaped + Cardinality(resubmit) <= MaxPending
      /\ total' = (total \/ reaped > 0)

\* What flush_ring_checked and ring_poll do to ring r: a flush that fails for
\* good latches its error; every CQE found is consumed, and the callbacks may
\* submit, to any ring, unless the engine is shutting down.
FlushPoll(r, flush, fails, resubmit) ==
  LET sent == IF flush /\ ~fails THEN queued[r] ELSE 0
      reaped == cq[r]
  IN  /\ fails => FlushFails /\ flush /\ queued[r] > 0
      /\ fatal_submit_errno' = (fatal_submit_errno \/ fails)
      /\ resubmit # {} => reaped > 0 /\ ~shutting_down /\ ~fatal_submit_errno'
      /\ queued' = [s \in Rings |-> (IF s = r THEN queued[s] - sent ELSE queued[s])
                                      + (IF s \in resubmit THEN 1 ELSE 0)]
      /\ kernel' = [kernel EXCEPT ![r] = @ + sent]
      /\ cq' = [cq EXCEPT ![r] = 0]
      /\ TotalPending - reaped + Cardinality(resubmit) <= MaxPending
      /\ total' = (total \/ reaped > 0)

Resubmissions == {{}} \cup {{r} : r \in Rings}

\* The single pass: flush and poll ring i, note whether it had anything
\* pending when it was flushed.
WaitScan ==
  /\ pc = "scan" /\ i < NRings
  /\ \E fails \in BOOLEAN, rs \in Resubmissions : FlushPoll(i, TRUE, fails, rs)
  /\ first_pending' = (first_pending \/ pending_count(i) > 0)
  /\ i' = i + 1
  /\ UNCHANGED <<eventfd, engineFlags, tickVars, call, pc, drain_iterations, freed>>

\* What aura_wait returns, as its callers tell results apart.
Returns(result) == pc' = result /\ UNCHANGED <<i, total, first_pending>>

\* Fault: the eventfd is drained once more before the thread blocks.
WaitScanned_DrainAgain ==
  /\ pc = "scan" /\ i = NRings
  /\ \/ total /\ Returns("some")
     \/ ~total /\ fatal_submit_errno /\ Returns("error")
     \/ ~total /\ ~fatal_submit_errno /\ ~first_pending /\ Returns("none")
     \/ ~total /\ ~fatal_submit_errno /\ first_pending /\ Returns("block")
  /\ eventfd' = FALSE
  /\ UNCHANGED <<ringVars, engineFlags, fatal_submit_errno, tickVars, call,
                 drain_iterations, freed>>

\* After the pass: return what was found, an error, nothing pending, or block.
WaitScanned ==
  /\ pc = "scan" /\ i = NRings
  /\ \/ total /\ Returns("some")
     \/ ~total /\ fatal_submit_errno /\ Returns("error")
     \/ ~total /\ ~fatal_submit_errno /\ ~first_pending /\ Returns("none")
     \/ ~total /\ ~fatal_submit_errno /\ first_pending /\ Returns("block")
  /\ UNCHANGED <<ringVars, eventfd, engineFlags, fatal_submit_errno, tickVars, call,
                 drain_iterations, freed>>

\* poll() on the eventfd returns: readable, or the timeout or a signal.  Then
\* the rings are passed once more, with and without a flush.
WaitWakes ==
  /\ pc = "block"
  /\ \/ eventfd /\ pc' = "rescan" /\ eventfd' = FALSE
     \/ pc' = "last" /\ UNCHANGED eventfd
  /\ i' = 0
  /\ UNCHANGED <<ringVars, engineFlags, fatal_submit_errno, tickVars, call, total,
                 first_pending, drain_iterations, freed>>

WaitRescan ==
  /\ pc \in {"rescan", "last"} /\ i < NRings
  /\ \E fails \in BOOLEAN, rs \in Resubmissions : FlushPoll(i, pc = "rescan", fails, rs)
  /\ i' = i + 1
  /\ UNCHANGED <<eventfd, engineFlags, tickVars, call, pc, first_pending, drain_iterations,
                 freed>>

WaitRescanned ==
  /\ pc \in {"rescan", "last"} /\ i = NRings
  /\ IF total THEN Returns("some")
     ELSE IF pc = "rescan" THEN pc' = "last" /\ i' = 0 /\ UNCHANGED <<total, first_pending>>
     ELSE Returns("timeout")
  /\ UNCHANGED <<ringVars, eventfd, engineFlags, fatal_submit_errno, tickVars, call,
                 drain_iterations, freed>>

-----------------------------------------------------------------------------
(* aura_run.                                                               *)

\* aura_run is called, clears stop_requested, then sets running and waits.
aura_run ==
  /\ call = "none" /\ ~freed
  /\ call' = "run" /\ pc' = "clear"
  /\ UNCHANGED <<ringVars, eventfd, engineFlags, fatal_submit_errno, tickVars, i, total,
                 first_pending, drain_iterations, freed>>

RunClears ==
  /\ call = "run" /\ pc = "clear"
  /\ pc' = "start"
  /\ stop_requested' = FALSE
  /\ drain_iterations' = 0
  /\ UNCHANGED <<ringVars, eventfd, shutting_down, running, fatal_submit_errno, tickVars,
                 call, i, total, first_pending, freed>>

RunStarts ==
  /\ call = "run" /\ pc = "start"
  /\ running' = TRUE
  /\ WaitEnter
  /\ UNCHANGED <<ringVars, shutting_down, stop_requested, fatal_submit_errno, tickVars, call,
                 drain_iterations, freed>>

RunReturns ==
  /\ running' = FALSE /\ call' = "none" /\ pc' = "out"
  /\ UNCHANGED <<i, total, first_pending, eventfd, drain_iterations>>

RunGoesOn(n) ==
  /\ drain_iterations' = n
  /\ WaitEnter
  /\ UNCHANGED <<running, call>>

\* Fault: the bound on the drain is not counted.
RunDecides_Unbounded ==
  /\ call = "run" /\ pc \in {"some", "none", "timeout", "error"}
  /\ \/ pc = "error" /\ RunReturns
     \/ pc # "error" /\ ~stop_requested /\ RunGoesOn(0)
     \/ /\ pc # "error" /\ stop_requested
        /\ IF ~has_pending /\ pc # "some" THEN RunReturns ELSE RunGoesOn(0)
  /\ UNCHANGED <<ringVars, shutting_down, stop_requested, fatal_submit_errno, tickVars, freed>>

\* The body of aura_run's loop after aura_wait has returned: leave on an
\* error; go on while nobody asked to stop; then drain, at most MaxDrain times.
RunDecides ==
  /\ call = "run" /\ pc \in {"some", "none", "timeout", "error"}
  /\ \/ pc = "error" /\ RunReturns
     \/ pc # "error" /\ ~stop_requested /\ RunGoesOn(0)
     \/ /\ pc # "error" /\ stop_requested
        /\ IF ~has_pending /\ pc # "some" THEN RunReturns
           ELSE IF drain_iterations + 1 >= MaxDrain THEN RunReturns
           ELSE RunGoesOn(drain_iterations + 1)
  /\ UNCHANGED <<ringVars, shutting_down, stop_requested, fatal_submit_errno, tickVars, freed>>

-----------------------------------------------------------------------------
(* aura_destroy.                                                           *)

\* Phase 1: no submission is accepted any more, the tick thread is told to end.
DestroyBegins ==
  /\ call = "none" /\ ~freed
  /\ call' = "destroy" /\ pc' = "join"
  /\ shutting_down' = TRUE
  /\ tick_running' = FALSE
  /\ UNCHANGED <<ringVars, eventfd, stop_requested, running, fatal_submit_errno, tick,
                 avg_ring_pending, i, total, first_pending, drain_iterations, freed>>

\* pthread_join returns; aura_stop; phase 2, aura_drain(engine, -1), begins.
DestroyJoins ==
  /\ call = "destroy" /\ pc = "join" /\ tick = "exited"
  /\ stop_requested' = TRUE
  /\ pc' = "drain"
  /\ UNCHANGED <<ringVars, eventfd, shutting_down, running, fatal_submit_errno, tickVars,
                 call, i, total, first_pending, drain_iterations, freed>>

\* aura_drain called by the application, with a deadline.
aura_drain ==
  /\ call = "none" /\ ~freed
  /\ call' = "drain" /\ pc' = "drain"
  /\ UNCHANGED <<ringVars, eventfd, engineFlags, fatal_submit_errno, tickVars, i, total,
                 first_pending, drain_iterations, freed>>

\* How aura_drain ends, for aura_destroy and for the application.
DrainReturns ==
  IF call = "destroy" THEN pc' = "free" /\ UNCHANGED call
                      ELSE pc' = "out" /\ call' = "none"

\* One iteration of aura_drain: done when no ring has anything pending, or
\* past the deadline when there is one.
DrainChecks ==
  /\ call \in {"destroy", "drain"} /\ pc = "drain"
  /\ \/ ~has_pending /\ DrainReturns /\ UNCHANGED <<i, total, first_pending, eventfd>>
     \/ /\ has_pending /\ call = "drain" /\ DrainReturns
        /\ UNCHANGED <<i, total, first_pending, eventfd>>
     \/ has_pending /\ WaitEnter /\ UNCHANGED call
  /\ UNCHANGED <<ringVars, engineFlags, fatal_submit_errno, tickVars, drain_iterations, freed>>

\* Fault: a timed out wait ends the drain.
DrainDecides_Once ==
  /\ call \in {"destroy", "drain"} /\ pc \in {"some", "none", "timeout", "error"}
  /\ IF pc \in {"error", "timeout"} THEN DrainReturns ELSE pc' = "drain" /\ UNCHANGED call
  /\ UNCHANGED <<ringVars, eventfd, engineFlags, fatal_submit_errno, tickVars, i, total,
                 first_pending, drain_iterations, freed>>

\* aura_drain looks at aura_wait's result: only an error other than a timeout
\* ends it early, and aura_destroy ignores that.
DrainDecides ==
  /\ call \in {"destroy", "drain"} /\ pc \in {"some", "none", "timeout", "error"}
  /\ IF pc = "error" THEN DrainReturns ELSE pc' = "drain" /\ UNCHANGED call
  /\ UNCHANGED <<ringVars, eventfd, engineFlags, fatal_submit_errno, tickVars, i, total,
                 first_pending, drain_iterations, freed>>

\* Phases 3 and 4: unregister, destroy the rings, free the engine.
DestroyFrees ==
  /\ call = "destroy" /\ pc = "free"
  /\ freed' = TRUE
  /\ call' = "none" /\ pc' = "out"
  /\ UNCHANGED <<ringVars, eventfd, engineFlags, fatal_submit_errno, tickVars, i, total,
                 first_pending, drain_iterations>>

-----------------------------------------------------------------------------
Wait == WaitScan \/ WaitScanned \/ WaitWakes \/ WaitRescan \/ WaitRescanned
Run == RunClears \/ RunStarts \/ RunDecides
Drain == DrainChecks \/ DrainDecides
Destroy == DestroyJoins \/ DestroyFrees
Tick == TickWakes \/ TickScans

Next ==
  \/ \E r \in Rings : Submit(r) \/ Complete(r)
  \/ aura_stop
  \/ Tick
  \/ Wait \/ Run \/ Drain \/ Destroy
  \/ aura_run \/ aura_drain \/ DestroyBegins

\* The threads run, and a finite timeout ends every poll() on the eventfd.
FairThreads == WF_vars(Wait \/ Run \/ Drain \/ Destroy) /\ WF_vars(Tick)
\* The kernel completes what it was given, in the end.
FairKernel == \A r \in Rings : WF_vars(Complete(r))

Spec == Init /\ [][Next]_vars /\ FairThreads /\ FairKernel

-----------------------------------------------------------------------------
TypeOK ==
  /\ queued \in [Rings -> 0..MaxPending] /\ kernel \in [Rings -> 0..MaxPending]
  /\ cq \in [Rings -> 0..MaxPending]
  /\ tick \in {"sleep", "scan", "exited"} /\ avg_ring_pending \in 0..MaxPending
  /\ call \in {"none", "run", "drain", "destroy"} /\ i \in 0..NRings
  /\ pc \in {"out", "clear", "start", "scan", "block", "rescan", "last", "some", "none", "timeout",
             "error", "join", "drain", "free"}
  /\ drain_iterations \in 0..MaxDrain

\* No lost wakeup: when aura_wait blocks on the eventfd, a completion that is
\* in some ring has left the eventfd readable.
NoLostWakeup == pc = "block" /\ (\E r \in Rings : cq[r] > 0) => eventfd

\* The engine is freed with nothing in flight, unless a fatal submit error
\* has made draining impossible, and after the tick thread is gone.
FreedQuiet ==
  freed => /\ tick = "exited"
           /\ ~has_pending \/ fatal_submit_errno

\* Both.
LoopSafe == NoLostWakeup /\ FreedQuiet

\* Why no wakeup is lost: the eventfd is drained before the first ring is
\* polled, so it stays readable for what completes behind the scan.
Scanned ==
  pc = "scan" => \A r \in Rings : r < i /\ cq[r] > 0 => eventfd

\* Why the engine is freed quiet: the tick thread is joined first, only a drained
\* or a broken engine gets to phase 3, and from then on nothing is submitted.
Winding ==
  /\ call = "none" => pc = "out"
  /\ call = "destroy" /\ pc # "join" => tick = "exited"
  /\ pc = "free" => call = "destroy" /\ (~has_pending \/ fatal_submit_errno)
  /\ pc = "error" => fatal_submit_errno
  /\ freed => call = "none"

\* The inductive invariant.
LoopInv ==
  /\ queued \in [Rings -> Nat] /\ kernel \in [Rings -> Nat]
  /\ cq \in [Rings -> Nat] /\ i \in Nat
  /\ eventfd \in BOOLEAN /\ fatal_submit_errno \in BOOLEAN /\ freed \in BOOLEAN
  /\ Scanned /\ Winding /\ LoopSafe

\* A stop asked for while aura_run runs ends it, even while callbacks and other
\* threads keep submitting: that is what the bound on the drain is for.
StopEnds == running /\ stop_requested ~> ~running

\* aura_destroy returns, when the kernel completes what it has.
DestroyEnds == call = "destroy" ~> freed

\* A stop asked for once aura_run has been called makes it return.
StopHonoured == call = "run" /\ stop_requested ~> call # "run"
=============================================================================
