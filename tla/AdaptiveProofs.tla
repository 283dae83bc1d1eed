--------------------------- MODULE AdaptiveProofs ---------------------------
(***************************************************************************)
(* Safety of the adaptive controller for every queue depth and every       *)
(* setting of its counters.                                                *)
(***************************************************************************)
EXTENDS Adaptive, TLAPS

(* What AdaptiveInv says of a controller c that a tick computes, before    *)
(* the histories are looked at.                                            *)
Sound(c) ==
  /\ c \in Controller
  /\ c.current_in_flight_limit \in 1 .. MaxQueueDepth
  /\ c.min_in_flight \in 1 .. MaxQueueDepth
  /\ c.current_batch_threshold \in 1 .. IntMax
  /\ c.phase \in {"SETTLING", "STEADY"} => c.entered_via_backoff
  /\ c.phase # "CONVERGED"
  /\ c.passthrough_mode <=> c.phase = "PASSTHROUGH"

(* The invariant holds initially: adaptive_init starts in passthrough.     *)
LEMMA InvInit == Init => AdaptiveInv
<1> SUFFICES ASSUME Init PROVE AdaptiveInv
  OBVIOUS
<1> USE AdaptiveConstants
<1>1. TypeOK
  BY DEF Init, TypeOK, Controller, Phases, PlateauBound
<1>2. LimitInRange
  BY DEF Init, LimitInRange
<1>3. /\ ModeAgrees /\ SettlesOnlyAfterBackoff /\ PlateauIdle /\ SpikeFresh
      /\ PressureCounted /\ EngagementNeedsDepth
  BY DEF Init, ModeAgrees, SettlesOnlyAfterBackoff, PlateauIdle, SpikeFresh,
         PressureCounted, EngagementNeedsDepth
<1> QED BY <1>1, <1>2, <1>3 DEF AdaptiveInv

(* AdaptiveInv without the histories.                                      *)
LEMMA InvSound == AdaptiveInv => Sound(ctrl)
BY DEF AdaptiveInv, TypeOK, LimitInRange, ModeAgrees, SettlesOnlyAfterBackoff, Sound

(* The invariant from its parts.                                           *)
LEMMA Assemble ==
  ASSUME Sound(ctrl)', last' \in [sampled : BOOLEAN, high : BOOLEAN],
         target_used' \in BOOLEAN,
         PlateauIdle', SpikeFresh', PressureCounted', EngagementNeedsDepth'
  PROVE  AdaptiveInv'
BY DEF AdaptiveInv, TypeOK, LimitInRange, ModeAgrees, SettlesOnlyAfterBackoff, Sound

(* Changing a setting keeps the invariant: aura_set_max_p99_latency,       *)
(* aura_set_min_in_flight and aura_set_batch_threshold check their range.  *)
LEMMA InvSettings == AdaptiveInv /\ Settings => AdaptiveInv'
<1> SUFFICES ASSUME AdaptiveInv, Settings PROVE AdaptiveInv'
  OBVIOUS
<1> USE AdaptiveConstants
<1>0. Sound(ctrl) /\ last \in [sampled : BOOLEAN, high : BOOLEAN] /\ target_used \in BOOLEAN
  BY InvSound DEF AdaptiveInv, TypeOK
<1> USE DEF Sound, PlateauIdle, SpikeFresh, PressureCounted, EngagementNeedsDepth
<1>1. CASE \E on \in BOOLEAN : aura_set_max_p99_latency(on)
  <2>1. PICK on \in BOOLEAN : aura_set_max_p99_latency(on)
    BY <1>1
  <2>2. Sound(ctrl)'
    BY <1>0, <2>1 DEF aura_set_max_p99_latency, Controller
  <2>3. PlateauIdle' /\ SpikeFresh' /\ PressureCounted' /\ EngagementNeedsDepth'
    BY <1>0, <2>1 DEF aura_set_max_p99_latency, Controller, AdaptiveInv
  <2> QED BY <1>0, <2>1, <2>2, <2>3, Assemble DEF aura_set_max_p99_latency
<1>2. CASE \E n \in 1 .. MaxQueueDepth : aura_set_min_in_flight(n)
  <2>1. PICK n \in 1 .. MaxQueueDepth : aura_set_min_in_flight(n)
    BY <1>2
  <2>2. Sound(ctrl)'
    BY <1>0, <2>1 DEF aura_set_min_in_flight, Controller
  <2>3. PlateauIdle' /\ SpikeFresh' /\ PressureCounted' /\ EngagementNeedsDepth'
    BY <1>0, <2>1 DEF aura_set_min_in_flight, Controller, AdaptiveInv
  <2> QED BY <1>0, <2>1, <2>2, <2>3, Assemble DEF aura_set_min_in_flight
<1>3. CASE SetBatchAuto
  <2>2. Sound(ctrl)'
    BY <1>0, <1>3 DEF SetBatchAuto, Controller
  <2>3. PlateauIdle' /\ SpikeFresh' /\ PressureCounted' /\ EngagementNeedsDepth'
    BY <1>0, <1>3 DEF SetBatchAuto, Controller, AdaptiveInv
  <2> QED BY <1>0, <1>3, <2>2, <2>3, Assemble DEF SetBatchAuto
<1>4. CASE \E n \in FixedBatches \cup {IntMax} : SetBatchFixed(n)
  <2>1. PICK n \in 1 .. IntMax : SetBatchFixed(n)
    BY <1>4
  <2>2. Sound(ctrl)'
    <3>0. n \in Nat /\ ctrl \in Controller
      BY <1>0
    <3>1. ctrl' \in Controller
      <4> HIDE AdaptiveConstants
      <4> HIDE DEF Sound
      <4> QED BY <2>1, <3>0 DEF SetBatchFixed, Controller
    <3>2. ctrl'.current_batch_threshold \in 1 .. IntMax
      BY <1>0, <2>1 DEF SetBatchFixed, Controller
    <3> QED BY <1>0, <2>1, <3>1, <3>2 DEF SetBatchFixed, Controller
  <2>3. PlateauIdle' /\ SpikeFresh' /\ PressureCounted' /\ EngagementNeedsDepth'
    BY <1>0, <2>1 DEF SetBatchFixed, Controller, AdaptiveInv
  <2> QED BY <1>0, <2>1, <2>2, <2>3, Assemble DEF SetBatchFixed
<1> QED BY <1>1, <1>2, <1>3, <1>4 DEF Settings

(* A tick of passthrough monitoring keeps the invariant: each counted tick *)
(* of pressure without a target has raised the pending count by more than  *)
(* EngageDelta.                                                            *)
LEMMA InvPassthrough ==
  ASSUME AdaptiveInv, NEW pending \in 0 .. MaxQueueDepth, NEW s \in TickStats,
         PassthroughTick(pending, s)
  PROVE  AdaptiveInv'
<1> DEFINE c == [ctrl EXCEPT !.prev_pending_snapshot = pending]
           delta == pending - ctrl.prev_pending_snapshot
           pressure == delta > EngageDelta \/ (ctrl.max_p99_set /\ s.high)
           n == ctrl.pressure_qualify_count
<1> USE AdaptiveConstants
<1>1. /\ Sound(ctrl) /\ ctrl.passthrough_mode
      /\ ctrl.phase = "PASSTHROUGH" /\ ctrl.spike_count = 0
      /\ last' \in [sampled : BOOLEAN, high : BOOLEAN]
      /\ target_used' = target_used /\ target_used \in BOOLEAN
      /\ n \in Nat
  <2>1. Sound(ctrl) /\ ctrl.passthrough_mode /\ target_used \in BOOLEAN
    BY InvSound DEF PassthroughTick, AdaptiveInv, TypeOK
  <2>2. last' = [sampled |-> s.sampled, high |-> s.high] /\ target_used' = target_used
    BY DEF PassthroughTick
  <2>3. ctrl.phase = "PASSTHROUGH" /\ n \in Nat /\ ctrl.spike_count \in Nat
    BY <2>1 DEF Sound, Controller
  <2>4. ctrl.spike_count = 0
    BY <2>3 DEF AdaptiveInv, SpikeFresh
  <2> QED BY <2>1, <2>2, <2>3, <2>4 DEF TickStats
<1>2. ctrl' = WatchPressure(c, pressure)
  BY DEF PassthroughTick
<1>3. /\ Sound(c) /\ c.pressure_qualify_count = n /\ c.phase = "PASSTHROUGH"
      /\ c.prev_pending_snapshot = pending /\ c.spike_count = 0
      /\ c.max_p99_set = ctrl.max_p99_set
  BY <1>1 DEF Controller, Sound
<1>4. ctrl.prev_pending_snapshot \in Nat
  BY <1>1 DEF Sound, Controller
<1>5. PressureCounted
  BY DEF AdaptiveInv
<1>6. CASE ~pressure
  <2>1. ctrl' = [c EXCEPT !.pressure_qualify_count = 0]
    BY <1>2, <1>6 DEF WatchPressure
  <2>2. Sound(ctrl)' /\ ctrl'.phase = "PASSTHROUGH"
    BY <1>3, <2>1 DEF Sound, Controller
  <2>3. /\ ctrl'.spike_count = 0 /\ ctrl'.pressure_qualify_count = 0
        /\ ctrl'.max_p99_set = ctrl.max_p99_set /\ ctrl'.prev_pending_snapshot = pending
    BY <1>3, <2>1 DEF Sound, Controller
  <2>4. PressureCounted'
    BY <1>1, <1>5, <2>3 DEF PressureCounted
  <2>5. PlateauIdle' /\ SpikeFresh' /\ EngagementNeedsDepth'
    BY <2>2, <2>3 DEF PlateauIdle, SpikeFresh, EngagementNeedsDepth, Sound
  <2> QED BY <1>1, <2>2, <2>4, <2>5, Assemble
<1>7. ASSUME pressure, ~target_used
      PROVE  (n + 1) * (EngageDelta + 1) <= pending
  <2>1. n * (EngageDelta + 1) <= ctrl.prev_pending_snapshot
    BY <1>1, <1>5, <1>7 DEF PressureCounted
  <2>2. delta > EngageDelta
    BY <1>5, <1>7 DEF PressureCounted
  <2>3. (n + 1) * (EngageDelta + 1) = n * (EngageDelta + 1) + (EngageDelta + 1)
    BY <1>1
  <2>4. n * (EngageDelta + 1) \in Int
    BY <1>1
  <2> QED BY <1>4, <2>1, <2>2, <2>3, <2>4
<1>8. CASE pressure /\ n + 1 < EngageTicks
  <2>1. ctrl' = [c EXCEPT !.pressure_qualify_count = n + 1]
    BY <1>1, <1>2, <1>3, <1>8 DEF WatchPressure
  <2>2. Sound(ctrl)' /\ ctrl'.phase = "PASSTHROUGH"
    <3>1. n + 1 \in Nat
      BY <1>1
    <3>2. ctrl' \in Controller
      BY <1>3, <2>1, <3>1 DEF Sound, Controller
    <3> QED BY <1>3, <2>1, <3>2 DEF Sound, Controller
  <2>3. /\ ctrl'.spike_count = 0 /\ ctrl'.pressure_qualify_count = n + 1
        /\ ctrl'.max_p99_set = ctrl.max_p99_set /\ ctrl'.prev_pending_snapshot = pending
    BY <1>3, <2>1 DEF Sound, Controller
  <2>4. PressureCounted'
    <3> HIDE DEF n, pressure
    <3> QED BY <1>1, <1>5, <1>7, <1>8, <2>3 DEF PressureCounted
  <2>5. PlateauIdle' /\ SpikeFresh' /\ EngagementNeedsDepth'
    BY <2>2, <2>3 DEF PlateauIdle, SpikeFresh, EngagementNeedsDepth, Sound
  <2> QED BY <1>1, <2>2, <2>4, <2>5, Assemble
<1>9. CASE pressure /\ n + 1 >= EngageTicks
  <2> DEFINE b == adaptive_reset_to_baseline(c)
  <2>1. ctrl' = [b EXCEPT !.passthrough_mode = FALSE, !.pressure_qualify_count = 0]
    BY <1>1, <1>2, <1>3, <1>9 DEF WatchPressure
  <2>2. /\ b \in Controller /\ b.current_in_flight_limit \in 1 .. MaxQueueDepth
        /\ b.phase = "BASELINE" /\ b.spike_count = 0 /\ b.plateau_count = 0
        /\ b.min_in_flight \in 1 .. MaxQueueDepth
        /\ b.current_batch_threshold \in 1 .. IntMax
        /\ b.max_p99_set = ctrl.max_p99_set
    <3>1. c.min_in_flight \in 1 .. MaxQueueDepth
      BY <1>3 DEF Sound
    <3>2. b \in Controller
      <4>1. InitialInFlight \in Nat /\ c.min_in_flight \in Nat /\ c \in Controller
        BY <1>3, <3>1 DEF Sound
      <4>2. ClearCounters(c) \in Controller
        <5> HIDE AdaptiveConstants
        <5> HIDE DEF c
        <5> QED BY <4>1 DEF ClearCounters, Controller, PlateauBound
      <4> HIDE AdaptiveConstants
      <4> HIDE DEF c
      <4> QED BY <4>1, <4>2 DEF adaptive_reset_to_baseline, Controller, Phases
    <3>3. b.current_in_flight_limit \in 1 .. MaxQueueDepth
      BY <1>3, <3>1 DEF adaptive_reset_to_baseline, ClearCounters, Sound, Controller
    <3>4. /\ b.phase = "BASELINE" /\ b.spike_count = 0 /\ b.plateau_count = 0
          /\ b.min_in_flight = c.min_in_flight
          /\ b.current_batch_threshold = c.current_batch_threshold
          /\ b.max_p99_set = c.max_p99_set
      BY <1>3 DEF adaptive_reset_to_baseline, ClearCounters, Sound, Controller
    <3> HIDE DEF b, c
    <3> QED BY <1>3, <3>1, <3>2, <3>3, <3>4 DEF Sound
  <2>3. /\ Sound(ctrl)' /\ ctrl'.phase = "BASELINE" /\ ctrl'.spike_count = 0
        /\ ctrl'.max_p99_set = ctrl.max_p99_set /\ ctrl'.passthrough_mode = FALSE
    <3> HIDE DEF b
    <3> QED BY <2>1, <2>2 DEF Sound, Controller
  <2>4. EngagementNeedsDepth'
    <3>1. ASSUME ~target_used PROVE EngageTicks * (EngageDelta + 1) <= MaxQueueDepth
      <4>1. (n + 1) * (EngageDelta + 1) <= pending
        BY <1>7, <1>9, <3>1
      <4>2. EngageTicks * (EngageDelta + 1) <= (n + 1) * (EngageDelta + 1)
        BY <1>1, <1>9
      <4>3. /\ EngageTicks * (EngageDelta + 1) \in Int
            /\ (n + 1) * (EngageDelta + 1) \in Int
        BY <1>1
      <4> QED BY <4>1, <4>2, <4>3
    <3> QED BY <1>1, <3>1 DEF EngagementNeedsDepth
  <2>5. PlateauIdle' /\ SpikeFresh' /\ PressureCounted'
    BY <1>1, <1>5, <2>3 DEF PlateauIdle, SpikeFresh, PressureCounted
  <2> QED BY <1>1, <2>3, <2>4, <2>5, Assemble
<1> HIDE DEF n
<1> QED BY <1>1, <1>6, <1>8, <1>9

(* The handlers, one lemma each: what phase and limit they lead to.  A     *)
(* controller stays Sound, its settings and its mode are left alone.       *)
Kept(c, d) ==
  /\ d.max_p99_set = c.max_p99_set
  /\ d.passthrough_mode = c.passthrough_mode
  /\ d.min_in_flight = c.min_in_flight
  /\ d.prev_in_flight_limit = c.prev_in_flight_limit

(* Field updates that keep a controller well typed.                        *)
LEMMA SetPhaseAndSpike ==
  ASSUME NEW c \in Controller, NEW p \in Phases, NEW n \in Nat
  PROVE  [c EXCEPT !.phase = p, !.spike_count = n] \in Controller
BY DEF Controller

(* The same for the limit and the plateau count.                           *)
LEMMA SetLimitAndPlateau ==
  ASSUME NEW c \in Controller, NEW l \in Nat
  PROVE  [c EXCEPT !.current_in_flight_limit = l, !.plateau_count = 0] \in Controller
BY DEF Controller

(* The same for the way back to PROBING.                                   *)
LEMMA SetReprobe ==
  ASSUME NEW c \in Controller
  PROVE  [c EXCEPT !.phase = "PROBING", !.entered_via_backoff = FALSE,
                   !.plateau_count = 0] \in Controller
BY DEF Controller, Phases

(* check_spike_backoff leaves the limit alone, and enters BACKOFF only on  *)
(* the second tick above the guard in a row.                               *)
LEMMA SpikeStep ==
  ASSUME NEW c \in Controller, NEW s \in TickStats,
         NEW d, d = check_spike_backoff(c, s)
  PROVE  /\ d \in Controller /\ Kept(c, d)
         /\ d.current_in_flight_limit = c.current_in_flight_limit
         /\ d.current_batch_threshold = c.current_batch_threshold
         /\ d.entered_via_backoff = c.entered_via_backoff
         /\ d.plateau_count = c.plateau_count
         /\ d.steady_count = c.steady_count
         /\ \/ d.phase = c.phase
            \/ d.phase = "BACKOFF" /\ c.spike_count > 0 /\ s.high
         /\ d.spike_count > 0 => d.phase = c.phase /\ s.high
<1>1. s.high \in BOOLEAN /\ c.spike_count \in Nat
  BY DEF TickStats, Controller
<1>2. CASE ~s.high
  <2>1. d = [c EXCEPT !.spike_count = 0]
    BY <1>2 DEF check_spike_backoff
  <2> QED BY <2>1 DEF Controller, Kept
<1>3. CASE s.high /\ c.spike_count + 1 >= 2
  <2>1. d = [c EXCEPT !.phase = "BACKOFF", !.spike_count = 0]
    BY <1>3 DEF check_spike_backoff
  <2>2. d \in Controller
    BY <2>1, SetPhaseAndSpike, ZenonT(40) DEF Phases
  <2>3. /\ d.phase = "BACKOFF" /\ d.spike_count = 0 /\ Kept(c, d)
        /\ d.current_in_flight_limit = c.current_in_flight_limit
        /\ d.current_batch_threshold = c.current_batch_threshold
        /\ d.entered_via_backoff = c.entered_via_backoff
        /\ d.plateau_count = c.plateau_count
        /\ d.steady_count = c.steady_count
    BY <2>1 DEF Controller, Kept
  <2> QED BY <1>1, <1>3, <2>2, <2>3
<1>4. CASE s.high /\ ~(c.spike_count + 1 >= 2)
  <2>1. d = [c EXCEPT !.spike_count = c.spike_count + 1]
    BY <1>4 DEF check_spike_backoff
  <2>2. c.spike_count + 1 \in Nat
    BY <1>1
  <2>3. d \in Controller
    BY <2>1, <2>2 DEF Controller
  <2>4. /\ d.phase = c.phase /\ Kept(c, d)
        /\ d.current_in_flight_limit = c.current_in_flight_limit
        /\ d.current_batch_threshold = c.current_batch_threshold
        /\ d.entered_via_backoff = c.entered_via_backoff
        /\ d.plateau_count = c.plateau_count
        /\ d.steady_count = c.steady_count
    BY <2>1 DEF Controller, Kept
  <2> QED BY <1>4, <2>3, <2>4
<1> QED BY <1>1, <1>2, <1>3, <1>4

(* The batch optimizer moves nothing but the threshold.                    *)
LEMMA BatchStep ==
  ASSUME NEW c, Sound(c), NEW s \in TickStats, NEW d, d = TuneBatch(c, s)
  PROVE  /\ Sound(d) /\ Kept(c, d)
         /\ d.phase = c.phase /\ d.spike_count = c.spike_count
         /\ d.plateau_count = c.plateau_count
         /\ d.current_in_flight_limit = c.current_in_flight_limit
<1> DEFINE b == c.current_batch_threshold
<1>0. b \in 1 .. IntMax /\ c \in Controller /\ b \in Nat
  BY AdaptiveConstants DEF Sound
<1>1. CASE d = c
  BY <1>1 DEF Kept
<1>2. CASE d = [c EXCEPT !.current_batch_threshold = b + 1] /\ b < MaxBatch
  <2>1. b + 1 \in 1 .. IntMax /\ b + 1 \in Nat
    BY <1>0, <1>2, AdaptiveConstants
  <2>2. d \in Controller
    BY <1>0, <1>2, <2>1 DEF Controller
  <2> HIDE DEF b
  <2> QED BY <1>0, <1>2, <2>1, <2>2 DEF Sound, Kept, Controller
<1>3. CASE d = [c EXCEPT !.current_batch_threshold = b - 1] /\ b > MinBatch
  <2>1. b - 1 \in 1 .. IntMax /\ b - 1 \in Nat
    BY <1>0, <1>3, AdaptiveConstants
  <2>2. d \in Controller
    BY <1>0, <1>3, <2>1 DEF Controller
  <2> HIDE DEF b
  <2> QED BY <1>0, <1>3, <2>1, <2>2 DEF Sound, Kept, Controller
<1>4. d = c \/ (d = [c EXCEPT !.current_batch_threshold = b + 1] /\ b < MaxBatch)
            \/ (d = [c EXCEPT !.current_batch_threshold = b - 1] /\ b > MinBatch)
  BY DEF TuneBatch
<1> QED BY <1>1, <1>2, <1>3, <1>4

(* BASELINE leads to PROBING with no spike remembered.                     *)
LEMMA BaselineStep ==
  ASSUME NEW c, Sound(c), c.phase = "BASELINE", c.spike_count = 0,
         NEW d, d = handle_baseline_phase(c)
  PROVE  /\ Sound(d) /\ Kept(c, d) /\ d.phase \in {"BASELINE", "PROBING"}
         /\ d.spike_count = 0
         /\ d.current_in_flight_limit = c.current_in_flight_limit
<1>1. c \in Controller /\ c.warmup_count + 1 \in Nat /\ ~c.passthrough_mode
  BY DEF Sound, Controller
<1>2. PICK ph \in {"BASELINE", "PROBING"} :
        d = [c EXCEPT !.warmup_count = c.warmup_count + 1, !.phase = ph]
  BY DEF handle_baseline_phase
<1>3. d \in Controller
  BY <1>1, <1>2 DEF Controller, Phases
<1> QED BY <1>1, <1>2, <1>3 DEF Sound, Kept, Controller

(* BACKOFF lowers the limit, but not below the floor, and leads to         *)
(* SETTLING.                                                               *)
LEMMA BackoffStep ==
  ASSUME NEW c, Sound(c), c.phase = "BACKOFF", c.spike_count = 0,
         NEW d, d = handle_backoff_phase(c)
  PROVE  /\ Sound(d) /\ Kept(c, d) /\ d.phase = "SETTLING" /\ d.spike_count = 0
         /\ d.current_in_flight_limit >= c.min_in_flight
<1> DEFINE new == BackoffLimit(c)
<1>1. /\ c \in Controller /\ ~c.passthrough_mode
      /\ c.current_in_flight_limit \in 1 .. MaxQueueDepth
      /\ c.min_in_flight \in 1 .. MaxQueueDepth
  BY DEF Sound, Controller
<1>2. new \in 1 .. MaxQueueDepth /\ new >= c.min_in_flight
  BY <1>1, AdaptiveConstants DEF BackoffLimit, Reduced
<1>3. d = [c EXCEPT !.current_in_flight_limit = new, !.plateau_count = 0,
                    !.entered_via_backoff = TRUE, !.phase = "SETTLING",
                    !.settling_timer = 0]
  BY DEF handle_backoff_phase
<1> HIDE DEF new
<1>4. d \in Controller
  <2>1. new \in Nat
    BY <1>2, AdaptiveConstants
  <2> QED BY <1>1, <1>3, <2>1, ZenonT(40) DEF Controller, Phases
<1>5. /\ d.current_in_flight_limit = new /\ d.phase = "SETTLING"
      /\ d.entered_via_backoff /\ d.spike_count = 0 /\ Kept(c, d)
      /\ d.current_batch_threshold = c.current_batch_threshold
  BY <1>1, <1>3 DEF Controller, Kept
<1> QED BY <1>1, <1>2, <1>4, <1>5 DEF Sound, Kept

(* SETTLING leads to BACKOFF or STEADY and does not move the limit.        *)
LEMMA SettlingStep ==
  ASSUME NEW c, Sound(c), c.phase = "SETTLING", c.spike_count = 0,
         NEW s \in TickStats, NEW d, d = handle_settling_phase(c, s)
  PROVE  /\ Sound(d) /\ Kept(c, d) /\ d.phase \in {"SETTLING", "STEADY", "BACKOFF"}
         /\ d.spike_count = 0
         /\ d.current_in_flight_limit = c.current_in_flight_limit
<1>1. c \in Controller /\ ~c.passthrough_mode /\ c.entered_via_backoff
  BY DEF Sound, Controller
<1>2. c.settling_timer + 1 \in Nat
  BY <1>1 DEF Controller
<1>3. CASE s.high
  <2>1. d = [c EXCEPT !.entered_via_backoff = TRUE, !.phase = "BACKOFF",
                      !.settling_timer = 0, !.spike_count = 0]
    BY <1>3 DEF handle_settling_phase
  <2>2. d \in Controller
    BY <1>1, <2>1, ZenonT(40) DEF Controller, Phases
  <2> QED BY <1>1, <2>1, <2>2 DEF Sound, Kept, Controller
<1>4. CASE ~s.high /\ c.settling_timer + 1 >= SettlingTicks
  <2>1. d = [c EXCEPT !.settling_timer = c.settling_timer + 1,
                      !.phase = "STEADY", !.steady_count = 0]
    BY <1>4 DEF handle_settling_phase
  <2>2. d \in Controller
    BY <1>1, <1>2, <2>1 DEF Controller, Phases
  <2> QED BY <1>1, <2>1, <2>2 DEF Sound, Kept, Controller
<1>5. CASE ~s.high /\ ~(c.settling_timer + 1 >= SettlingTicks)
  <2>1. d = [c EXCEPT !.settling_timer = c.settling_timer + 1]
    BY <1>5 DEF handle_settling_phase
  <2>2. d \in Controller
    BY <1>1, <1>2, <2>1 DEF Controller
  <2> QED BY <1>1, <2>1, <2>2 DEF Sound, Kept, Controller
<1>6. s.high \in BOOLEAN
  BY DEF TickStats
<1> QED BY <1>3, <1>4, <1>5, <1>6

(* STEADY, which was reached after a backoff, leads to BACKOFF or back to  *)
(* PROBING, and does not move the limit.                                   *)
LEMMA SteadyStep ==
  ASSUME NEW c, Sound(c), c.phase = "STEADY",
         NEW s \in TickStats, NEW e, e = handle_steady_phase(c, s)
  PROVE  /\ Sound(e) /\ Kept(c, e)
         /\ e.current_in_flight_limit = c.current_in_flight_limit
         /\ \/ e.phase = "BACKOFF" /\ e.spike_count = 0 /\ c.spike_count > 0 /\ s.high
            \/ e.phase = "STEADY" /\ (e.spike_count > 0 => s.high)
            \/ e.phase = "PROBING" /\ e.plateau_count = 0 /\ (e.spike_count > 0 => s.high)
<1> DEFINE c1 == [c EXCEPT !.steady_count = c.steady_count + 1]
           d == check_spike_backoff(c1, s)
<1>1. c \in Controller /\ ~c.passthrough_mode /\ c.entered_via_backoff
  BY DEF Sound, Controller
<1>2. c.steady_count + 1 \in Nat
  BY <1>1 DEF Controller
<1>3. c1 \in Controller
  BY <1>1, <1>2 DEF Controller
<1>4. /\ c1.phase = "STEADY" /\ c1.entered_via_backoff /\ Kept(c, c1)
      /\ c1.current_in_flight_limit = c.current_in_flight_limit
      /\ c1.current_batch_threshold = c.current_batch_threshold
      /\ c1.spike_count = c.spike_count
  BY <1>1 DEF Controller, Kept
<1>5. e = IF d.phase = "BACKOFF" THEN [d EXCEPT !.steady_count = 0]
          ELSE IF d.entered_via_backoff /\ d.steady_count >= ReprobeInterval
          THEN [d EXCEPT !.phase = "PROBING", !.entered_via_backoff = FALSE,
                         !.plateau_count = 0]
          ELSE IF ~d.entered_via_backoff /\ d.steady_count >= SteadyThreshold
          THEN [d EXCEPT !.phase = "CONVERGED"] ELSE d
  BY DEF handle_steady_phase
<1> HIDE DEF c1
<1>6. /\ d \in Controller /\ Kept(c1, d)
      /\ d.current_in_flight_limit = c1.current_in_flight_limit
      /\ d.current_batch_threshold = c1.current_batch_threshold
      /\ d.entered_via_backoff
      /\ \/ d.phase = "STEADY"
         \/ d.phase = "BACKOFF" /\ c1.spike_count > 0 /\ s.high
      /\ d.spike_count > 0 => d.phase = "STEADY" /\ s.high
      /\ d.spike_count \in Nat
  BY <1>3, <1>4, SpikeStep DEF Controller
<1> HIDE DEF d
<1>7. CASE d.phase = "BACKOFF"
  <2>1. e = [d EXCEPT !.steady_count = 0]
    BY <1>5, <1>7
  <2>2. e \in Controller /\ e.spike_count = d.spike_count /\ e.phase = "BACKOFF"
    BY <1>6, <1>7, <2>1 DEF Controller
  <2>3. /\ Kept(d, e) /\ e.current_in_flight_limit = d.current_in_flight_limit
        /\ e.current_batch_threshold = d.current_batch_threshold
    BY <1>6, <2>1 DEF Controller, Kept
  <2>4. e.spike_count = 0
    BY <1>6, <1>7, <2>2
  <2> QED BY <1>1, <1>4, <1>6, <1>7, <2>2, <2>3, <2>4 DEF Sound, Kept
<1>8. CASE d.phase = "STEADY" /\ d.steady_count >= ReprobeInterval
  <2>1. e = [d EXCEPT !.phase = "PROBING", !.entered_via_backoff = FALSE,
                      !.plateau_count = 0]
    BY <1>5, <1>6, <1>8
  <2>2. /\ e \in Controller /\ e.phase = "PROBING" /\ e.plateau_count = 0
        /\ e.spike_count = d.spike_count
    <3>1. d \in Controller
      BY <1>6
    <3>2. e \in Controller
      BY <2>1, <3>1, SetReprobe
    <3> QED BY <2>1, <3>1, <3>2 DEF Controller
  <2>3. /\ Kept(d, e) /\ e.current_in_flight_limit = d.current_in_flight_limit
        /\ e.current_batch_threshold = d.current_batch_threshold
    BY <1>6, <2>1 DEF Controller, Kept
  <2> QED BY <1>1, <1>4, <1>6, <2>2, <2>3 DEF Sound, Kept
<1>9. CASE d.phase = "STEADY" /\ ~(d.steady_count >= ReprobeInterval)
  <2>1. e = d
    BY <1>5, <1>6, <1>9
  <2> QED BY <1>1, <1>4, <1>6, <1>9, <2>1 DEF Sound, Kept
<1> QED BY <1>6, <1>7, <1>8, <1>9

(* PROBING leads to BACKOFF or stays, and never lowers the limit.  While a *)
(* plateau is counted the limit rests, so the tick that would count the    *)
(* third one has no efficiency ratio and cannot leave PROBING.             *)
LEMMA ProbingStep ==
  ASSUME NEW c, Sound(c), c.phase = "PROBING", NEW probed \in BOOLEAN,
         c.plateau_count > 0 => ~probed,
         NEW s \in TickStats, NEW e, e = handle_probing_phase(c, s, probed)
  PROVE  /\ Sound(e) /\ Kept(c, e)
         /\ e.current_in_flight_limit >= c.current_in_flight_limit
         /\ \/ e.phase = "BACKOFF" /\ e.spike_count = 0 /\ c.spike_count > 0 /\ s.high
            \/ /\ e.phase = "PROBING" /\ (e.spike_count > 0 => s.high)
               /\ e.plateau_count > 0
                    => e.current_in_flight_limit = c.current_in_flight_limit
<1> DEFINE d == check_spike_backoff(c, s)
           limit == c.current_in_flight_limit
<1>0. c \in Controller /\ ~c.passthrough_mode /\ limit \in 1 .. MaxQueueDepth
  BY DEF Sound, Controller
<1>1. /\ d \in Controller /\ Kept(c, d) /\ d.current_in_flight_limit = limit
      /\ d.current_batch_threshold = c.current_batch_threshold
      /\ d.plateau_count = c.plateau_count
      /\ \/ d.phase = "PROBING"
         \/ d.phase = "BACKOFF" /\ c.spike_count > 0 /\ s.high
      /\ d.spike_count > 0 => d.phase = "PROBING" /\ s.high
      /\ d.spike_count \in Nat /\ c.plateau_count \in Nat
  BY <1>0, SpikeStep DEF Controller
<1>2. e = IF d.phase = "BACKOFF" \/ ~s.sampled THEN d
          ELSE IF ~probed /\ d.current_in_flight_limit >= MaxQueueDepth
          THEN [d EXCEPT !.plateau_count = CountPlateau(d.plateau_count)]
          ELSE IF ~probed \/ s.gain \/ (d.max_p99_set /\ s.headroom)
          THEN [aimd_increase(d) EXCEPT !.plateau_count = 0]
          ELSE Plateau(d)
  BY DEF handle_probing_phase
<1>3. Sound(d)
  BY <1>0, <1>1 DEF Sound, Kept
<1>4. \A n \in Nat : CountPlateau(n) \in Nat
  BY DEF CountPlateau, PlateauBound
<1> HIDE DEF d
<1>5. CASE e = d
  BY <1>0, <1>1, <1>3, <1>5
<1>6. CASE e = [d EXCEPT !.plateau_count = CountPlateau(d.plateau_count)] /\ d.phase = "PROBING"
  <2>1. CountPlateau(d.plateau_count) \in Nat /\ d \in Controller
    BY <1>1, <1>4
  <2>2. e \in Controller
    BY <1>6, <2>1 DEF Controller
  <2>3. /\ e.phase = "PROBING" /\ e.spike_count = d.spike_count /\ Kept(d, e)
        /\ e.current_in_flight_limit = d.current_in_flight_limit
        /\ e.current_batch_threshold = d.current_batch_threshold
    BY <1>6, <2>1 DEF Controller, Kept
  <2> QED BY <1>0, <1>1, <1>3, <2>2, <2>3 DEF Sound, Kept
<1>7. CASE e = [aimd_increase(d) EXCEPT !.plateau_count = 0] /\ d.phase = "PROBING"
  <2> DEFINE f == aimd_increase(d)
  <2>1. PICK l \in 1 .. MaxQueueDepth :
          l >= limit /\ f = [d EXCEPT !.current_in_flight_limit = l]
    <3>1. CASE limit < MaxQueueDepth
      <4>1. f = [d EXCEPT !.current_in_flight_limit = limit + 1]
        BY <1>1, <3>1 DEF aimd_increase
      <4>2. limit + 1 \in 1 .. MaxQueueDepth /\ limit + 1 >= limit
        BY <1>0, <3>1, AdaptiveConstants
      <4> QED BY <4>1, <4>2
    <3>2. CASE ~(limit < MaxQueueDepth)
      <4>1. f = d
        BY <1>1, <3>2 DEF aimd_increase
      <4>2. d = [d EXCEPT !.current_in_flight_limit = limit]
        BY <1>1 DEF Controller
      <4> QED BY <1>0, <4>1, <4>2
    <3> QED BY <3>1, <3>2
  <2>2. e = [d EXCEPT !.current_in_flight_limit = l, !.plateau_count = 0]
    BY <1>7, <2>1
  <2>3. l \in Nat /\ d \in Controller
    BY <1>1, AdaptiveConstants
  <2>4. e \in Controller
    <3>1. [d EXCEPT !.current_in_flight_limit = l, !.plateau_count = 0] \in Controller
      BY <2>3, SetLimitAndPlateau
    <3> QED BY <2>2, <3>1
  <2>5. /\ e.phase = "PROBING" /\ e.spike_count = d.spike_count /\ Kept(d, e)
        /\ e.current_in_flight_limit = l /\ e.plateau_count = 0
        /\ e.current_batch_threshold = d.current_batch_threshold
    BY <1>7, <2>2, <2>3 DEF Controller, Kept
  <2> QED BY <1>0, <1>1, <1>3, <2>1, <2>4, <2>5 DEF Sound, Kept
<1>8. CASE e = Plateau(d) /\ d.phase = "PROBING" /\ probed
  <2>1. d.plateau_count = 0
    BY <1>1, <1>8
  <2>2. CountPlateau(d.plateau_count) = 1
    BY <2>1 DEF CountPlateau, PlateauBound
  <2>3. e = [d EXCEPT !.plateau_count = CountPlateau(d.plateau_count)]
    <3>1. ~(CountPlateau(d.plateau_count) >= 3)
      BY <2>2
    <3> QED BY <1>8, <3>1, Zenon DEF Plateau
  <2> QED BY <1>6, <1>8, <2>3
<1>9. s.sampled \in BOOLEAN /\ s.gain \in BOOLEAN
  BY DEF TickStats
<1> QED BY <1>1, <1>2, <1>5, <1>6, <1>7, <1>8

(* The switch of adaptive_tick, from the handlers' lemmas.                 *)
LEMMA RunStep ==
  ASSUME NEW c, Sound(c), c.phase # "PASSTHROUGH", NEW probed \in BOOLEAN,
         c.phase = "PROBING" /\ c.plateau_count > 0 => ~probed,
         c.spike_count > 0 => c.phase \in {"PROBING", "STEADY"},
         NEW s \in TickStats, NEW d, d = RunPhase(c, s, probed)
  PROVE  /\ Sound(d) /\ Kept(c, d)
         /\ d.phase = "PROBING" /\ d.plateau_count > 0
              => d.current_in_flight_limit <= c.current_in_flight_limit
         /\ d.spike_count > 0 => d.phase \in {"PROBING", "STEADY"} /\ s.high
         /\ d.current_in_flight_limit < c.current_in_flight_limit
              => d.current_in_flight_limit >= c.min_in_flight
         /\ c.phase \in {"PROBING", "STEADY"} /\ d.phase = "BACKOFF"
              => c.spike_count > 0 /\ s.high
<1>1. /\ c.phase \in {"BASELINE", "PROBING", "SETTLING", "STEADY", "BACKOFF"}
      /\ c.spike_count \in Nat /\ c.current_in_flight_limit \in Nat
  BY DEF Sound, Controller, Phases
<1>2. CASE c.phase = "BASELINE"
  <2>1. d = handle_baseline_phase(c) /\ c.spike_count = 0
    BY <1>1, <1>2 DEF RunPhase
  <2> QED BY <1>1, <1>2, <2>1, BaselineStep
<1>3. CASE c.phase = "PROBING"
  <2>1. d = handle_probing_phase(c, s, probed)
    BY <1>3 DEF RunPhase
  <2>2. d.current_in_flight_limit \in Nat
    BY <1>3, <2>1, ProbingStep DEF Sound, Controller
  <2> QED BY <1>1, <1>3, <2>1, <2>2, ProbingStep
<1>4. CASE c.phase = "SETTLING"
  <2>1. d = handle_settling_phase(c, s) /\ c.spike_count = 0
    BY <1>1, <1>4 DEF RunPhase
  <2> QED BY <1>1, <1>4, <2>1, SettlingStep
<1>5. CASE c.phase = "STEADY"
  <2>1. d = handle_steady_phase(c, s)
    BY <1>5 DEF RunPhase
  <2> QED BY <1>1, <1>5, <2>1, SteadyStep
<1>6. CASE c.phase = "BACKOFF"
  <2>1. d = handle_backoff_phase(c) /\ c.spike_count = 0
    BY <1>1, <1>6 DEF RunPhase
  <2> QED BY <1>1, <1>6, <2>1, BackoffStep
<1> QED BY <1>1, <1>2, <1>3, <1>4, <1>5, <1>6

(* A tick with AIMD engaged: what it makes of the controller, from the     *)
(* facts that AdaptiveInv gives about the one it finds.                    *)
LEMMA AimdStep ==
  ASSUME AdaptiveInv, NEW pending \in 0 .. MaxQueueDepth, NEW s \in TickStats,
         AimdTick(pending, s)
  PROVE  /\ Sound(ctrl)' /\ ~ctrl'.passthrough_mode
         /\ ctrl'.max_p99_set = ctrl.max_p99_set
         /\ PlateauIdle' /\ SpikeFresh'
         /\ ctrl'.current_in_flight_limit < ctrl.current_in_flight_limit
              => ctrl'.current_in_flight_limit >= ctrl.min_in_flight
         /\ ctrl.phase \in {"PROBING", "STEADY"} /\ ctrl'.phase = "BACKOFF"
              => ctrl.spike_count > 0 /\ s.high
<1> DEFINE limit == ctrl.current_in_flight_limit
           c == [ctrl EXCEPT !.prev_pending_snapshot = pending,
                             !.prev_in_flight_limit = limit]
           t == TuneBatch(c, s)
           d == RunPhase(t, s, Probed(ctrl))
<1>1. /\ Sound(ctrl) /\ ctrl \in Controller /\ ~ctrl.passthrough_mode
      /\ ctrl.phase # "PASSTHROUGH"
      /\ limit \in Nat /\ pending \in Nat
  BY InvSound, AdaptiveConstants DEF AimdTick, Sound, Controller
<1>2. ctrl' = Reenter(d, pending - ctrl.prev_pending_snapshot)
  BY DEF AimdTick
<1>3. c \in Controller
  BY <1>1 DEF Controller
<1>4. /\ c.phase = ctrl.phase /\ c.passthrough_mode = ctrl.passthrough_mode
      /\ c.current_in_flight_limit = limit /\ c.prev_in_flight_limit = limit
      /\ c.min_in_flight = ctrl.min_in_flight /\ c.max_p99_set = ctrl.max_p99_set
      /\ c.current_batch_threshold = ctrl.current_batch_threshold
      /\ c.entered_via_backoff = ctrl.entered_via_backoff
      /\ c.plateau_count = ctrl.plateau_count /\ c.spike_count = ctrl.spike_count
  BY <1>1 DEF Controller
<1> HIDE DEF c
<1>5. Sound(c)
  BY <1>1, <1>3, <1>4 DEF Sound
<1>6. /\ Sound(t) /\ Kept(c, t) /\ t.phase = c.phase
      /\ t.spike_count = c.spike_count /\ t.plateau_count = c.plateau_count
      /\ t.current_in_flight_limit = c.current_in_flight_limit
  BY <1>5, BatchStep
<1> HIDE DEF t
<1>7. t.phase = "PROBING" /\ t.plateau_count > 0 => ~Probed(ctrl)
  <2>1. ctrl.prev_in_flight_limit \in Nat
    BY <1>1 DEF Controller
  <2> QED BY <1>1, <1>4, <1>6, <2>1 DEF AdaptiveInv, PlateauIdle, Probed
<1>8. t.spike_count > 0 => t.phase \in {"PROBING", "STEADY"}
  BY <1>4, <1>6 DEF AdaptiveInv, SpikeFresh
<1>9. Probed(ctrl) \in BOOLEAN
  BY DEF Probed
<1>10. /\ Sound(d) /\ Kept(t, d)
       /\ d.phase = "PROBING" /\ d.plateau_count > 0
            => d.current_in_flight_limit <= t.current_in_flight_limit
       /\ d.spike_count > 0 => d.phase \in {"PROBING", "STEADY"} /\ s.high
       /\ d.current_in_flight_limit < t.current_in_flight_limit
            => d.current_in_flight_limit >= t.min_in_flight
       /\ t.phase \in {"PROBING", "STEADY"} /\ d.phase = "BACKOFF"
            => t.spike_count > 0 /\ s.high
  BY <1>1, <1>4, <1>6, <1>7, <1>8, <1>9, RunStep
<1> HIDE DEF d
<1>11. ctrl' = d
  BY <1>2, <1>10 DEF Reenter, Sound
<1>12. last'.high = s.high
  BY DEF AimdTick
<1>13. d.prev_in_flight_limit = limit /\ d.min_in_flight = ctrl.min_in_flight
       /\ d.max_p99_set = ctrl.max_p99_set
       /\ d.passthrough_mode = ctrl.passthrough_mode
  BY <1>4, <1>6, <1>10 DEF Kept
<1>14. PlateauIdle' /\ SpikeFresh'
  BY <1>4, <1>6, <1>10, <1>11, <1>12, <1>13 DEF PlateauIdle, SpikeFresh
<1>15. Sound(ctrl)'
  BY <1>10, <1>11 DEF Sound
<1> QED BY <1>1, <1>4, <1>6, <1>10, <1>11, <1>13, <1>14, <1>15 DEF Kept

(* So it keeps the invariant.                                              *)
LEMMA InvAimd ==
  ASSUME AdaptiveInv, NEW pending \in 0 .. MaxQueueDepth, NEW s \in TickStats,
         AimdTick(pending, s)
  PROVE  AdaptiveInv'
<1>1. /\ target_used' = target_used /\ target_used \in BOOLEAN
      /\ last' \in [sampled : BOOLEAN, high : BOOLEAN]
  BY DEF AimdTick, AdaptiveInv, TypeOK, TickStats
<1>2. EngagementNeedsDepth /\ PressureCounted /\ ~ctrl.passthrough_mode
  BY DEF AdaptiveInv, AimdTick
<1>3. /\ Sound(ctrl)' /\ PlateauIdle' /\ SpikeFresh' /\ ~ctrl'.passthrough_mode
      /\ ctrl'.max_p99_set = ctrl.max_p99_set
  BY AimdStep
<1>4. EngagementNeedsDepth' /\ PressureCounted'
  BY <1>1, <1>2, <1>3 DEF EngagementNeedsDepth, PressureCounted
<1> QED BY <1>1, <1>3, <1>4, Assemble

(* Every step keeps the invariant.                                         *)
LEMMA InvNext == AdaptiveInv /\ [Next]_vars => AdaptiveInv'
<1> SUFFICES ASSUME AdaptiveInv, [Next]_vars PROVE AdaptiveInv'
  OBVIOUS
<1>1. CASE Settings
  BY <1>1, InvSettings
<1>2. CASE Tick
  BY <1>2, InvPassthrough, InvAimd DEF Tick
<1>3. CASE UNCHANGED vars
  BY <1>3 DEF vars, AdaptiveInv, TypeOK, LimitInRange, ModeAgrees,
       SettlesOnlyAfterBackoff, PlateauIdle, SpikeFresh, PressureCounted,
       EngagementNeedsDepth
<1> QED BY <1>1, <1>2, <1>3 DEF Next

(* The inductive invariant of the controller holds in every reachable      *)
(* state, whatever the ticks measure and whenever the settings change.     *)
THEOREM AdaptiveInvariant == Spec => []AdaptiveInv
<1>1. Init => AdaptiveInv
  BY InvInit
<1>2. AdaptiveInv /\ [Next]_vars => AdaptiveInv'
  BY InvNext
<1> QED BY <1>1, <1>2, PTL DEF Spec

(* The limit that gates ring_can_submit is never 0 and never more than the *)
(* queue depth.                                                            *)
THEOREM LimitSafe == Spec => []LimitInRange
<1>1. AdaptiveInv => LimitInRange
  BY DEF AdaptiveInv
<1> QED BY <1>1, AdaptiveInvariant, PTL

(* STEADY is only reached through a backoff, and CONVERGED is never        *)
(* reached, for any values of the counters' thresholds.                    *)
THEOREM ConvergenceUnreachable == Spec => []SettlesOnlyAfterBackoff
<1>1. AdaptiveInv => SettlesOnlyAfterBackoff
  BY DEF AdaptiveInv
<1> QED BY <1>1, AdaptiveInvariant, PTL

(* A ring too shallow for EngageTicks growths of more than EngageDelta     *)
(* stays in passthrough mode for ever unless a P99 target is set.          *)
THEOREM EngagementDepth == Spec => []EngagementNeedsDepth
<1>1. AdaptiveInv => EngagementNeedsDepth
  BY DEF AdaptiveInv
<1> QED BY <1>1, AdaptiveInvariant, PTL

(* No step lowers the limit below the floor that the last                  *)
(* aura_set_min_in_flight set.                                             *)
THEOREM FloorKept == Spec => NeverBelowFloor
<1> DEFINE A == ctrl'.current_in_flight_limit < ctrl.current_in_flight_limit
                  => ctrl'.current_in_flight_limit >= ctrl.min_in_flight
<1>1. AdaptiveInv /\ [Next]_vars => [A]_vars
  <2> SUFFICES ASSUME AdaptiveInv, Next PROVE A
    OBVIOUS
  <2>0. Sound(ctrl)
    BY InvSound
  <2>1. CASE Settings
    <3>1. ctrl'.current_in_flight_limit = ctrl.current_in_flight_limit
      BY <2>0, <2>1 DEF Settings, aura_set_max_p99_latency, aura_set_min_in_flight,
           SetBatchAuto, SetBatchFixed, Sound, Controller
    <3>2. ctrl.current_in_flight_limit \in Nat
      BY <2>0 DEF Sound, Controller
    <3> QED BY <3>1, <3>2
  <2>2. ASSUME NEW pending \in 0 .. MaxQueueDepth, NEW s \in TickStats,
               PassthroughTick(pending, s)
        PROVE  A
    <3> DEFINE c == [ctrl EXCEPT !.prev_pending_snapshot = pending]
               pressure == \/ pending - ctrl.prev_pending_snapshot > EngageDelta
                           \/ ctrl.max_p99_set /\ s.high
    <3>1. ctrl' = WatchPressure(c, pressure)
      BY <2>2 DEF PassthroughTick
    <3>2. /\ c \in Controller /\ c.min_in_flight = ctrl.min_in_flight
          /\ c.current_in_flight_limit = ctrl.current_in_flight_limit
          /\ ctrl.current_in_flight_limit \in Nat /\ ctrl.min_in_flight \in Nat
      BY <2>0, AdaptiveConstants DEF Sound, Controller
    <3> HIDE DEF c, pressure
    <3>3. CASE ctrl' = [c EXCEPT !.pressure_qualify_count = 0]
      BY <3>2, <3>3 DEF Controller
    <3>4. CASE ctrl' = [c EXCEPT !.pressure_qualify_count = c.pressure_qualify_count + 1]
      BY <3>2, <3>4 DEF Controller
    <3>5. CASE ctrl' = [adaptive_reset_to_baseline(c) EXCEPT !.passthrough_mode = FALSE,
                                                             !.pressure_qualify_count = 0]
      <4>1. ctrl'.current_in_flight_limit =
              IF InitialInFlight < c.min_in_flight THEN c.min_in_flight
                                                   ELSE InitialInFlight
        BY <3>2, <3>5 DEF adaptive_reset_to_baseline, ClearCounters, Controller
      <4> QED BY <3>2, <4>1, AdaptiveConstants
    <3> QED BY <3>1, <3>3, <3>4, <3>5 DEF WatchPressure
  <2>3. ASSUME NEW pending \in 0 .. MaxQueueDepth, NEW s \in TickStats,
               AimdTick(pending, s)
        PROVE  A
    BY <2>3, AimdStep
  <2> QED BY <2>1, <2>2, <2>3 DEF Next, Tick
<1> QED BY <1>1, AdaptiveInvariant, PTL DEF Spec, NeverBelowFloor

(* A probing or steady controller backs off only on the second tick above  *)
(* the guard in a row.                                                     *)
THEOREM BackoffConfirmed == Spec => SpikesConfirmed
<1> DEFINE A == ctrl.phase \in {"PROBING", "STEADY"} /\ ctrl'.phase = "BACKOFF"
                  => last.high /\ last'.high
<1>1. AdaptiveInv /\ [Next]_vars => [A]_vars
  <2> SUFFICES ASSUME AdaptiveInv, Next PROVE A
    OBVIOUS
  <2>0. Sound(ctrl) /\ ctrl \in Controller
    BY InvSound DEF Sound
  <2>1. CASE Settings
    <3>1. ctrl'.phase = ctrl.phase
      BY <2>0, <2>1 DEF Settings, aura_set_max_p99_latency, aura_set_min_in_flight,
           SetBatchAuto, SetBatchFixed, Controller
    <3> QED BY <3>1
  <2>2. ASSUME NEW pending \in 0 .. MaxQueueDepth, NEW s \in TickStats,
               PassthroughTick(pending, s)
        PROVE  A
    BY <2>0, <2>2 DEF PassthroughTick, Sound
  <2>3. ASSUME NEW pending \in 0 .. MaxQueueDepth, NEW s \in TickStats,
               AimdTick(pending, s)
        PROVE  A
    <3>1. last'.high = s.high
      BY <2>3 DEF AimdTick
    <3> QED BY <2>3, <3>1, AimdStep DEF AdaptiveInv, SpikeFresh
  <2> QED BY <2>1, <2>2, <2>3 DEF Next, Tick
<1> QED BY <1>1, AdaptiveInvariant, PTL DEF Spec, SpikesConfirmed
=============================================================================
