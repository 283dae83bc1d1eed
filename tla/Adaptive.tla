------------------------------ MODULE Adaptive ------------------------------
(***************************************************************************)
(* The adaptive controller of one ring (adaptive_controller_t): the tick   *)
(* thread runs adaptive_tick, which leaves passthrough mode under pressure *)
(* and then moves the in-flight limit and the batch threshold through the  *)
(* AIMD state machine; application threads change its settings at any      *)
(* time.  Submitters only read the limit, the threshold and the mode.      *)
(*                                                                         *)
(* A tick's measurements are an input: the model keeps what the decisions  *)
(* distinguish - how many samples there are, whether the P99 is above the  *)
(* guard, whether throughput grew, the SQEs per submit call - and lets     *)
(* each tick see any of them.  A tick skipped for want of samples and time *)
(* changes nothing and is no step.                                         *)
(***************************************************************************)
EXTENDS Integers

CONSTANTS
  MaxQueueDepth,    \* ctrl->max_queue_depth
  InitialInFlight,  \* ctrl->aimd_initial_in_flight, set by ring_init or the options
  InitialMin,       \* ctrl->min_in_flight at creation
  WarmupSamples,    \* ADAPTIVE_WARMUP_SAMPLES
  SettlingTicks,    \* ADAPTIVE_SETTLING_TICKS
  ReprobeInterval,  \* ADAPTIVE_REPROBE_INTERVAL
  SteadyThreshold,  \* ADAPTIVE_STEADY_THRESHOLD
  EngageTicks,      \* AIMD_ENGAGE_TICKS
  EngageDelta,      \* AIMD_ENGAGE_PENDING_DELTA
  ReenterTicks,     \* PASSTHROUGH_REENTER_TICKS
  ReenterDelta,     \* PASSTHROUGH_REENTER_DELTA_MAX
  MinBatch,         \* ADAPTIVE_MIN_BATCH
  MaxBatch,         \* ADAPTIVE_MAX_BATCH_THRESHOLD
  IntMax,           \* INT_MAX, the threshold that never flushes
  FixedBatches      \* thresholds that aura_set_batch_threshold may fix

ASSUME AdaptiveConstants ==
  /\ MaxQueueDepth \in Nat
  /\ InitialInFlight \in 1 .. MaxQueueDepth
  /\ InitialMin \in 1 .. MaxQueueDepth
  /\ WarmupSamples \in Nat \ {0} /\ SettlingTicks \in Nat \ {0}
  /\ ReprobeInterval \in Nat \ {0} /\ SteadyThreshold \in Nat \ {0}
  /\ EngageTicks \in Nat \ {0} /\ EngageDelta \in Nat
  /\ ReenterTicks \in Nat \ {0} /\ ReenterDelta \in Nat
  /\ MinBatch \in Nat \ {0} /\ MaxBatch \in Nat /\ MinBatch < MaxBatch
  /\ IntMax \in Nat /\ MaxBatch < IntMax
  /\ FixedBatches \subseteq 1 .. IntMax

VARIABLES
  ctrl,        \* the adaptive_controller_t
  last,        \* history: whether the last tick had samples, and a high P99
  target_used  \* history: a P99 target was set at some time

vars == <<ctrl, last, target_used>>

Phases == {"BASELINE", "PROBING", "STEADY", "BACKOFF", "SETTLING",
           "CONVERGED", "PASSTHROUGH"}

\* plateau_count only grows while the limit is at its maximum and is only
\* compared with 3: the model stops counting there.
PlateauBound == 3

\* What a tick measures.  A P99 is compared only with enough samples.
TickStats ==
  {s \in [sampled  : BOOLEAN,  \* sample_count > 0
          high     : BOOLEAN,  \* latency_rising; in passthrough, p99 > max_p99_ms
          gain     : BOOLEAN,  \* efficiency_ratio > er_threshold
          headroom : BOOLEAN,  \* have_valid_p99 and p99_ms < max_p99_ms
          ratio    : {"low", "good", "high"}] :  \* SQEs per submit call
     (s.high \/ s.headroom => s.sampled) /\ ~(s.high /\ s.headroom)}

\* adaptive_init and the options applied by init_engine_rings.
Init ==
  /\ \E target \in BOOLEAN, fixed \in BOOLEAN, n \in FixedBatches \cup {IntMax} :
       /\ ctrl = [phase                     |-> "PASSTHROUGH",
                  passthrough_mode          |-> TRUE,
                  current_in_flight_limit   |-> MaxQueueDepth,
                  current_batch_threshold   |-> IF fixed THEN n ELSE MinBatch,
                  batch_threshold_fixed     |-> fixed,
                  min_in_flight             |-> InitialMin,
                  max_p99_set               |-> target,
                  prev_in_flight_limit      |-> 0,
                  warmup_count              |-> 0,
                  plateau_count             |-> 0,
                  steady_count              |-> 0,
                  spike_count               |-> 0,
                  settling_timer            |-> 0,
                  entered_via_backoff       |-> FALSE,
                  passthrough_qualify_count |-> 0,
                  pressure_qualify_count    |-> 0,
                  prev_pending_snapshot     |-> 0]
       /\ target_used = target
  /\ last = [sampled |-> FALSE, high |-> FALSE]
-----------------------------------------------------------------------------
(* The handlers: from the controller's state to its next one.              *)

\* Fault: one tick above the guard is enough.
check_spike_backoff_Single(c, s) ==
  IF s.high THEN [c EXCEPT !.phase = "BACKOFF", !.spike_count = 0]
            ELSE [c EXCEPT !.spike_count = 0]

check_spike_backoff(c, s) ==
  IF ~s.high
  THEN [c EXCEPT !.spike_count = 0]
  ELSE IF c.spike_count + 1 >= 2
  THEN [c EXCEPT !.phase = "BACKOFF", !.spike_count = 0]
  ELSE [c EXCEPT !.spike_count = @ + 1]

\* Fault: the limit may pass the queue depth.
aimd_increase_Unclamped(c) == [c EXCEPT !.current_in_flight_limit = @ + 1]

\* Fault: the limit is never raised.
aimd_increase_Never(c) == c

aimd_increase(c) ==
  IF c.current_in_flight_limit < MaxQueueDepth
  THEN [c EXCEPT !.current_in_flight_limit = @ + 1]
  ELSE c

handle_baseline_phase(c) ==
  [c EXCEPT !.warmup_count = @ + 1,
            !.phase = IF c.warmup_count + 1 >= WarmupSamples
                      THEN "PROBING" ELSE @]

\* efficiency_ratio is a number, not NaN: the last tick raised the limit.
Probed(c) ==
  /\ c.prev_in_flight_limit > 0
  /\ c.current_in_flight_limit > c.prev_in_flight_limit

CountPlateau(n) == IF n < PlateauBound THEN n + 1 ELSE PlateauBound

\* The last branch of handle_probing_phase.
Plateau(c) ==
  IF CountPlateau(c.plateau_count) >= 3
  THEN [c EXCEPT !.plateau_count = CountPlateau(@),
                 !.entered_via_backoff = FALSE,
                 !.spike_count = 0,
                 !.phase = "SETTLING",
                 !.settling_timer = 0]
  ELSE [c EXCEPT !.plateau_count = CountPlateau(@)]

\* probed is Probed of the controller as the tick found it.
handle_probing_phase(c, s, probed) ==
  LET d == check_spike_backoff(c, s) IN
  IF d.phase = "BACKOFF" \/ ~s.sampled
  THEN d
  ELSE IF ~probed /\ d.current_in_flight_limit >= MaxQueueDepth
  THEN [d EXCEPT !.plateau_count = CountPlateau(@)]
  ELSE IF ~probed \/ s.gain \/ (d.max_p99_set /\ s.headroom)
  THEN [aimd_increase(d) EXCEPT !.plateau_count = 0]
  ELSE Plateau(d)

handle_settling_phase(c, s) ==
  IF s.high
  THEN [c EXCEPT !.entered_via_backoff = TRUE, !.phase = "BACKOFF",
                 !.settling_timer = 0, !.spike_count = 0]
  ELSE IF c.settling_timer + 1 >= SettlingTicks
  THEN [c EXCEPT !.settling_timer = @ + 1, !.phase = "STEADY",
                 !.steady_count = 0]
  ELSE [c EXCEPT !.settling_timer = @ + 1]

\* Fault: no re-probe after a backoff.
handle_steady_phase_Stays(c, s) ==
  LET d == check_spike_backoff([c EXCEPT !.steady_count = 0], s) IN
  IF d.phase = "BACKOFF" THEN [d EXCEPT !.steady_count = 0] ELSE d

handle_steady_phase(c, s) ==
  LET d == check_spike_backoff([c EXCEPT !.steady_count = @ + 1], s) IN
  IF d.phase = "BACKOFF"
  THEN [d EXCEPT !.steady_count = 0]
  ELSE IF d.entered_via_backoff /\ d.steady_count >= ReprobeInterval
  THEN [d EXCEPT !.phase = "PROBING", !.entered_via_backoff = FALSE,
                 !.plateau_count = 0]
  ELSE IF ~d.entered_via_backoff /\ d.steady_count >= SteadyThreshold
  THEN [d EXCEPT !.phase = "CONVERGED"]
  ELSE d

\* floor(limit * 0.80)
Reduced(limit) == (limit * 4) \div 5

\* Fault: the floor is not applied.
BackoffLimit_NoFloor(c) == Reduced(c.current_in_flight_limit)

BackoffLimit(c) ==
  IF Reduced(c.current_in_flight_limit) > c.min_in_flight
  THEN Reduced(c.current_in_flight_limit)
  ELSE c.min_in_flight

\* Fault: the way STEADY was reached is not noted.
handle_backoff_phase_Unmarked(c) ==
  [c EXCEPT !.current_in_flight_limit = BackoffLimit(c), !.plateau_count = 0,
            !.phase = "SETTLING", !.settling_timer = 0]

handle_backoff_phase(c) ==
  [c EXCEPT !.current_in_flight_limit = BackoffLimit(c),
            !.plateau_count = 0,
            !.entered_via_backoff = TRUE,
            !.phase = "SETTLING",
            !.settling_timer = 0]

handle_converged_phase(c, s) ==
  LET d == check_spike_backoff(c, s) IN
  IF d.phase = "BACKOFF" THEN [d EXCEPT !.steady_count = 0] ELSE d

\* The switch of adaptive_tick.
RunPhase(c, s, probed) ==
  CASE c.phase = "BASELINE"    -> handle_baseline_phase(c)
    [] c.phase = "PROBING"     -> handle_probing_phase(c, s, probed)
    [] c.phase = "SETTLING"    -> handle_settling_phase(c, s)
    [] c.phase = "STEADY"      -> handle_steady_phase(c, s)
    [] c.phase = "BACKOFF"     -> handle_backoff_phase(c)
    [] c.phase = "CONVERGED"   -> handle_converged_phase(c, s)
    [] c.phase = "PASSTHROUGH" -> c

\* The batch optimizer, unless the threshold is fixed.
TuneBatch(c, s) ==
  IF c.batch_threshold_fixed
  THEN c
  ELSE IF s.ratio = "low" /\ c.current_batch_threshold < MaxBatch
  THEN [c EXCEPT !.current_batch_threshold = @ + 1]
  ELSE IF s.ratio = "high" /\ c.current_batch_threshold > MinBatch
  THEN [c EXCEPT !.current_batch_threshold = @ - 1]
  ELSE c

\* CONVERGED and flat pending counts: back to passthrough.
Reenter(c, delta) ==
  IF c.phase # "CONVERGED"
  THEN c
  ELSE IF delta > ReenterDelta \/ delta < -ReenterDelta
  THEN [c EXCEPT !.passthrough_qualify_count = 0]
  ELSE IF c.passthrough_qualify_count + 1 >= ReenterTicks
  THEN [c EXCEPT !.passthrough_mode = TRUE,
                 !.phase = "PASSTHROUGH",
                 !.current_in_flight_limit = MaxQueueDepth,
                 !.passthrough_qualify_count = 0]
  ELSE [c EXCEPT !.passthrough_qualify_count = @ + 1]

ClearCounters(c) ==
  [c EXCEPT !.warmup_count = 0,
            !.plateau_count = 0,
            !.steady_count = 0,
            !.spike_count = 0,
            !.settling_timer = 0,
            !.entered_via_backoff = FALSE,
            !.passthrough_qualify_count = 0,
            !.prev_in_flight_limit = 0]

adaptive_reset_to_baseline(c) ==
  [ClearCounters(c) EXCEPT
     !.phase = "BASELINE",
     !.current_in_flight_limit =
        IF InitialInFlight < c.min_in_flight THEN c.min_in_flight
                                             ELSE InitialInFlight]

\* Fault: pressure ticks need not be consecutive.
WatchPressure_Sticky(c, pressure) ==
  IF ~pressure
  THEN c
  ELSE IF c.pressure_qualify_count + 1 >= EngageTicks
  THEN [adaptive_reset_to_baseline(c) EXCEPT !.passthrough_mode = FALSE,
                                             !.pressure_qualify_count = 0]
  ELSE [c EXCEPT !.pressure_qualify_count = @ + 1]

\* Passthrough monitoring: EngageTicks ticks of pressure in a row engage AIMD.
WatchPressure(c, pressure) ==
  IF ~pressure
  THEN [c EXCEPT !.pressure_qualify_count = 0]
  ELSE IF c.pressure_qualify_count + 1 >= EngageTicks
  THEN [adaptive_reset_to_baseline(c) EXCEPT !.passthrough_mode = FALSE,
                                             !.pressure_qualify_count = 0]
  ELSE [c EXCEPT !.pressure_qualify_count = @ + 1]
-----------------------------------------------------------------------------
(* Actions *)

\* adaptive_tick in passthrough mode; pending is ring->pending_count.
PassthroughTick(pending, s) ==
  LET delta == pending - ctrl.prev_pending_snapshot
      c == [ctrl EXCEPT !.prev_pending_snapshot = pending]
  IN
  /\ ctrl.passthrough_mode
  /\ ctrl' = WatchPressure(c, \/ delta > EngageDelta
                              \/ ctrl.max_p99_set /\ s.high)
  /\ last' = [sampled |-> s.sampled, high |-> s.high]
  /\ UNCHANGED target_used

\* adaptive_tick with AIMD engaged.
AimdTick(pending, s) ==
  LET delta == pending - ctrl.prev_pending_snapshot
      c == [ctrl EXCEPT !.prev_pending_snapshot = pending,
                        !.prev_in_flight_limit = ctrl.current_in_flight_limit]
  IN
  /\ ~ctrl.passthrough_mode
  /\ ctrl' = Reenter(RunPhase(TuneBatch(c, s), s, Probed(ctrl)), delta)
  /\ last' = [sampled |-> s.sampled, high |-> s.high]
  /\ UNCHANGED target_used

aura_set_max_p99_latency(on) ==
  /\ ctrl' = [ctrl EXCEPT !.max_p99_set = on]
  /\ target_used' = (target_used \/ on)
  /\ UNCHANGED last

aura_set_min_in_flight(n) ==
  /\ ctrl' = [ctrl EXCEPT !.min_in_flight = n]
  /\ UNCHANGED <<last, target_used>>

\* A threshold of -1: only the flag is cleared.
SetBatchAuto ==
  /\ ctrl' = [ctrl EXCEPT !.batch_threshold_fixed = FALSE]
  /\ UNCHANGED <<last, target_used>>

\* A threshold of 0 (IntMax) or more.
SetBatchFixed(n) ==
  /\ ctrl' = [ctrl EXCEPT !.current_batch_threshold = n,
                          !.batch_threshold_fixed = TRUE]
  /\ UNCHANGED <<last, target_used>>

\* The requests in flight never exceed the slots of the ring.
Tick ==
  \E pending \in 0 .. MaxQueueDepth, s \in TickStats :
    PassthroughTick(pending, s) \/ AimdTick(pending, s)

Settings ==
  \/ \E on \in BOOLEAN : aura_set_max_p99_latency(on)
  \/ \E n \in 1 .. MaxQueueDepth : aura_set_min_in_flight(n)
  \/ SetBatchAuto
  \/ \E n \in FixedBatches \cup {IntMax} : SetBatchFixed(n)

Next == Tick \/ Settings

Spec == Init /\ [][Next]_vars

\* The tick thread wakes every 10 ms, and a sample window of 100 ms at most
\* passes before a tick decides: ticks keep happening.
FairSpec == Spec /\ WF_vars(Tick)
-----------------------------------------------------------------------------
(* Properties *)

Controller ==
  [phase                     : Phases,
   passthrough_mode          : BOOLEAN,
   current_in_flight_limit   : Nat,
   current_batch_threshold   : Nat,
   batch_threshold_fixed     : BOOLEAN,
   min_in_flight             : Nat,
   max_p99_set               : BOOLEAN,
   prev_in_flight_limit      : Nat,
   warmup_count              : Nat,
   plateau_count             : Nat,
   steady_count              : Nat,
   spike_count               : Nat,
   settling_timer            : Nat,
   entered_via_backoff       : BOOLEAN,
   passthrough_qualify_count : Nat,
   pressure_qualify_count    : Nat,
   prev_pending_snapshot     : Nat]

\* The type invariant.
TypeOK ==
  /\ ctrl \in Controller
  /\ last \in [sampled : BOOLEAN, high : BOOLEAN]
  /\ target_used \in BOOLEAN

\* The limit that gates ring_can_submit stays between 1 and the queue depth
\* through increases, backoffs, resets and changes of the floor: a limit of 0
\* would block every submission for ever.  The batch threshold stays positive.
LimitInRange ==
  /\ ctrl.current_in_flight_limit \in 1 .. MaxQueueDepth
  /\ ctrl.min_in_flight \in 1 .. MaxQueueDepth
  /\ ctrl.current_batch_threshold \in 1 .. IntMax

\* "The in-flight limit will never be reduced below this value during
\* backoff": no tick, in any phase, lowers the limit below the floor set by
\* the last aura_set_min_in_flight.
NeverBelowFloor ==
  [][ctrl'.current_in_flight_limit < ctrl.current_in_flight_limit
       => ctrl'.current_in_flight_limit >= ctrl.min_in_flight]_vars

\* One isolated tick above the guard never makes a probing or steady
\* controller back off: it takes two in a row.
SpikesConfirmed ==
  [][ctrl.phase \in {"PROBING", "STEADY"} /\ ctrl'.phase = "BACKOFF"
       => last.high /\ last'.high]_vars

\* SETTLING and STEADY are only ever reached after a backoff, so STEADY always
\* leads back to PROBING: CONVERGED, and with it the return to passthrough,
\* cannot be reached.  A plateau at the maximal limit is counted by the branch
\* of handle_probing_phase that never leaves PROBING, and below it the next
\* tick raises the limit again.
SettlesOnlyAfterBackoff ==
  /\ ctrl.phase \in {"SETTLING", "STEADY"} => ctrl.entered_via_backoff
  /\ ctrl.phase # "CONVERGED"

\* Without a P99 target a ring engages AIMD only through EngageTicks
\* consecutive growths of its pending count by more than EngageDelta, which a
\* queue shallower than EngageTicks * (EngageDelta + 1) has no room for.
EngagementNeedsDepth ==
  \/ ctrl.passthrough_mode
  \/ target_used
  \/ EngageTicks * (EngageDelta + 1) <= MaxQueueDepth

\* The mode that submitters read agrees with the phase.
ModeAgrees == ctrl.passthrough_mode <=> ctrl.phase = "PASSTHROUGH"

\* A plateau is counted only by a tick that leaves the limit where it was, so
\* the next tick has no efficiency ratio.
PlateauIdle ==
  ctrl.phase = "PROBING" /\ ctrl.plateau_count > 0
    => ctrl.current_in_flight_limit <= ctrl.prev_in_flight_limit

\* A spike is remembered for one tick only.
SpikeFresh ==
  ctrl.spike_count > 0 => ctrl.phase \in {"PROBING", "STEADY"} /\ last.high

\* Without a P99 target, n ticks of pressure in a row have raised the pending
\* count n times.
PressureCounted ==
  /\ ~target_used => ~ctrl.max_p99_set
  /\ ~target_used /\ ctrl.passthrough_mode =>
       ctrl.pressure_qualify_count * (EngageDelta + 1) <= ctrl.prev_pending_snapshot

\* The inductive invariant behind the safety properties.
AdaptiveInv ==
  /\ TypeOK /\ LimitInRange /\ ModeAgrees /\ SettlesOnlyAfterBackoff
  /\ PlateauIdle /\ SpikeFresh /\ PressureCounted /\ EngagementNeedsDepth

\* Once latency stays below the guard the controller does not stay backed
\* off: from BACKOFF, SETTLING and STEADY it gets back to probing; and as long
\* as samples keep coming it climbs back to the full queue depth, whatever the
\* throughput does.
CalmRecovers ==
  /\ <>[](~last.high)
       => <>[](ctrl.phase \notin {"BACKOFF", "SETTLING", "STEADY"})
  /\ <>[](~last.high /\ last.sampled)
       => <>[](ctrl.current_in_flight_limit = MaxQueueDepth)

\* aura.h: a threshold of "-1 = re-enable AIMD auto-tuning (default
\* behavior)", which keeps it at most ADAPTIVE_MAX_BATCH_THRESHOLD.
AutoTuneRestored ==
  ~ctrl.batch_threshold_fixed => ctrl.current_batch_threshold <= MaxBatch
=============================================================================
