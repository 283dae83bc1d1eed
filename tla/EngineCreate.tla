----------------------------- MODULE EngineCreate -----------------------------
(***************************************************************************)
(* What an engine is made of and in which order: aura_create_with_options, *)
(* its five stages, ring_init for every ring with its fallbacks for older  *)
(* kernels, the cleanup ladders of both, and the release of everything by  *)
(* aura_destroy.  Any acquisition may fail.  The rings are idle when they  *)
(* are destroyed (EventLoop!FreedQuiet).                                   *)
(***************************************************************************)
EXTENDS Integers, Sequences, SequencesExt, FiniteSets

CONSTANTS
  NRings,          \* rings the engine is to have
  DefaultDepth,    \* DEFAULT_QUEUE_DEPTH
  MaxDepth,        \* 32768, the largest queue depth accepted
  Depths, Mins, Initials   \* option values the caller may pass

VARIABLES
  options,    \* aura_options_t, the fields that are checked or change the plan
  todo,       \* acquisitions still to make, in order
  held,       \* what has been acquired and not released
  setup,      \* per ring: the io_uring_queue_init_params attempt that worked
  config,     \* per ring: the adaptive limits it was given
  misuse,     \* something was released that was not held
  result      \* "creating", "engine", "failed" or "destroyed"

vars == <<options, todo, held, setup, config, misuse, result>>

Rings == 0 .. NRings - 1
RingParts == <<"lock", "cq_lock", "ring", "requests", "free_request_stack">>
Parts(r) == [k \in 1..Len(RingParts) |-> <<RingParts[k], r>>]
OfRing(r) == ToSet(Parts(r))
\* A resource of the engine itself is written like a ring's, with ring -1.
Own(part) == <<part, -1>>
Core == {Own("engine"), Own("reg_lock")}
Pool == {Own("buffer_pool"), Own("buf_size_map")}
EventFd(opts) ==
  {Own("event_fd")} \cup
  (IF opts.thread_local THEN {} ELSE {<<"eventfd_registered", r>> : r \in Rings})

\* validate_and_init_engine_core: the checks on the options.
qdepth(opts) == IF opts.queue_depth > 0 THEN opts.queue_depth ELSE DefaultDepth
effective_min(opts) == IF opts.min_in_flight > 0 THEN opts.min_in_flight ELSE 4

\* Fault: explicit depths below the four slots AIMD needs are let through.
Accepted_Shallow(opts) ==
  /\ opts.queue_depth \in 0..MaxDepth
  /\ opts.min_in_flight # 0 => opts.min_in_flight \in 1..qdepth(opts)
  /\ opts.initial_in_flight # 0 => opts.initial_in_flight \in effective_min(opts)..qdepth(opts)

Accepted(opts) ==
  /\ opts.queue_depth \in 0..MaxDepth
  /\ opts.queue_depth > 0 => opts.queue_depth >= 4
  /\ opts.min_in_flight # 0 => opts.min_in_flight \in 1..qdepth(opts)
  /\ opts.initial_in_flight # 0 => opts.initial_in_flight \in effective_min(opts)..qdepth(opts)

\* The acquisitions of the five stages, in order.
Plan(opts) ==
  <<Own("engine"), Own("reg_lock"), Own("buffer_pool"), Own("buf_size_map"), Own("rings")>>
    \o [k \in 1..5 * NRings |-> Parts((k - 1) \div 5)[1 + ((k - 1) % 5)]]
    \o <<Own("event_fd")>>
    \o (IF opts.thread_local THEN <<>> ELSE [k \in 1..NRings |-> <<"eventfd_registered", k - 1>>])
    \o (IF opts.disable_adaptive THEN <<>> ELSE <<Own("tick_thread")>>)

Init ==
  /\ options \in [queue_depth : Depths, min_in_flight : Mins, initial_in_flight : Initials,
                  thread_local : BOOLEAN, sqpoll : BOOLEAN, disable_adaptive : BOOLEAN]
  /\ todo = Plan(options)
  /\ held = {} /\ misuse = FALSE
  /\ setup = [r \in Rings |-> "none"]
  /\ config = [r \in Rings |-> <<>>]
  /\ result = IF Accepted(options) THEN "creating" ELSE "failed"

-----------------------------------------------------------------------------
Release(S) == held' = held \ S /\ misuse' = (misuse \/ ~(S \subseteq held))

\* io_uring_queue_init_params: all flags, then without SINGLE_ISSUER, then
\* without COOP_TASKRUN, then without SQPOLL.
Attempts(opts) == IF opts.sqpoll THEN <<"full", "coop", "plain", "bare">> ELSE <<"full", "coop", "plain">>

\* ring_init's and init_engine_rings' limits for a ring.
RingConfig(opts) ==
  LET d == qdepth(opts)
      quarter == IF d \div 4 < 4 THEN 4 ELSE d \div 4
      initial == IF quarter > d THEN d ELSE quarter
  IN  [max |-> d,
       min |-> IF opts.min_in_flight > 0 THEN opts.min_in_flight ELSE 4,
       initial |-> IF opts.initial_in_flight > 0 THEN opts.initial_in_flight ELSE initial,
       sqpoll |-> opts.sqpoll]

\* The next acquisition succeeds.  The ring itself may need several attempts.
Acquire ==
  /\ result = "creating" /\ todo # <<>>
  /\ held' = held \cup {Head(todo)}
  /\ todo' = Tail(todo)
  /\ IF Head(todo)[1] = "ring"
     THEN \E a \in ToSet(Attempts(options)) :
            /\ setup' = [setup EXCEPT ![Head(todo)[2]] = a]
            /\ config' = [config EXCEPT ![Head(todo)[2]] =
                            [RingConfig(options) EXCEPT !.sqpoll = @ /\ a # "bare"]]
     ELSE UNCHANGED <<setup, config>>
  /\ result' = IF Len(todo) = 1 THEN "engine" ELSE "creating"
  /\ UNCHANGED <<options, misuse>>

\* The cleanup ladder of aura_create_with_options, from the label up.
LadderEngine == Core
LadderPool == Pool \cup LadderEngine
LadderRings == {Own("rings")} \cup (UNION {OfRing(r) : r \in Rings}) \cup LadderPool
LadderEventfd(opts) == EventFd(opts) \cup LadderRings

\* Fault: a ring that fails to start leaves the rings before it open.
RingsFail_Leak(p) == (held \cap OfRing(p[2])) \cup {Own("rings")} \cup LadderPool

\* What is released when acquiring part p of a ring fails: ring_init's own
\* ladder, then init_engine_rings destroys the rings before it and frees the
\* array, then cleanup_buffer_pool.
RingsFail(p) ==
  (held \cap OfRing(p[2])) \cup (UNION {OfRing(r) : r \in 0..(p[2] - 1)}) \cup {Own("rings")} \cup LadderPool

\* What is released when acquiring p fails.
Cleanup(p) ==
  CASE p[1] = "engine" -> {}
    [] p[1] = "reg_lock" -> {Own("engine")}
    [] p[1] = "buffer_pool" -> LadderEngine
    [] p[1] = "buf_size_map" -> {Own("buffer_pool")} \cup LadderEngine
    [] p[1] = "rings" -> LadderPool
    [] p[1] = "event_fd" -> LadderRings
    [] p[1] = "eventfd_registered" ->
         {<<p[1], r>> : r \in 0..(p[2] - 1)} \cup {Own("event_fd")} \cup LadderRings
    [] p[1] = "tick_thread" -> LadderEventfd(options)
    [] OTHER -> RingsFail(p)

\* The next acquisition fails, and with it aura_create.
Fail ==
  /\ result = "creating" /\ todo # <<>>
  /\ Release(Cleanup(Head(todo)))
  /\ todo' = <<>>
  /\ result' = "failed"
  /\ UNCHANGED <<options, setup, config>>

\* destroy_phase_1 joins the tick thread, phase 4 releases the rest.
aura_destroy ==
  /\ result = "engine"
  /\ Release((IF options.disable_adaptive THEN {} ELSE {Own("tick_thread")}) \cup LadderEventfd(options))
  /\ result' = "destroyed"
  /\ UNCHANGED <<options, todo, setup, config>>

Next == Acquire \/ Fail \/ aura_destroy

Spec == Init /\ [][Next]_vars

-----------------------------------------------------------------------------
\* However far creation got, failing releases exactly what had been acquired,
\* nothing twice and nothing never acquired; so does destroying the engine.
NothingLeaks ==
  /\ ~misuse
  /\ result \in {"failed", "destroyed"} => held = {}

\* Options that pass validation give every ring a floor and a starting limit
\* inside its queue: adaptive_reset_to_baseline raises a start below the floor.
ConfigSound ==
  result = "engine" =>
    \A r \in Rings :
      LET c == config[r]
          start == IF c.initial < c.min THEN c.min ELSE c.initial
      IN  1 <= c.min /\ c.min <= start /\ start <= c.max

\* Both.
CreateSafe == NothingLeaks /\ ConfigSound

\* The default depth passes its own check; an option is an integer.
CreateConstants ==
  /\ NRings \in Nat /\ MaxDepth \in Nat /\ DefaultDepth \in Nat /\ DefaultDepth >= 4
  /\ Depths \subseteq Int /\ Mins \subseteq Int /\ Initials \subseteq Int

\* What a ring that is open was given.
Configured(r) ==
  LET c == RingConfig(options)
  IN  config[r].max = c.max /\ config[r].min = c.min /\ config[r].initial = c.initial

\* n acquisitions of the plan are behind creation, the others before it.
Made(n) ==
  /\ todo = SubSeq(Plan(options), n + 1, Len(Plan(options)))
  /\ held = {Plan(options)[k] : k \in 1..n}

\* The inductive invariant.
CreateInv ==
  /\ options \in [queue_depth : Depths, min_in_flight : Mins, initial_in_flight : Initials,
                   thread_local : BOOLEAN, sqpoll : BOOLEAN, disable_adaptive : BOOLEAN]
  /\ DOMAIN config = Rings
  /\ NothingLeaks
  /\ result \in {"creating", "engine", "failed", "destroyed"}
  /\ result \in {"creating", "engine"} =>
       /\ Accepted(options)
       /\ \E n \in 0..Len(Plan(options)) :
            Made(n) /\ (result = "engine" => n = Len(Plan(options)))
       /\ \A r \in Rings : <<"ring", r>> \in held => Configured(r)
=============================================================================
