--------------------------- MODULE BatchThreshold ---------------------------
(***************************************************************************)
(* The batch threshold of one ring between the two that write it without a *)
(* lock: the batch optimizer inside adaptive_tick, on the tick thread, and *)
(* aura_set_batch_threshold, on any thread.  Adaptive.tla takes each as    *)
(* one step; here every atomic access is a step of its own.                *)
(***************************************************************************)
EXTENDS Integers

CONSTANTS
  Setters,    \* threads that call aura_set_batch_threshold
  Values,     \* the positive thresholds they pass
  MinBatch,   \* ADAPTIVE_MIN_BATCH
  MaxBatch,   \* ADAPTIVE_MAX_BATCH_THRESHOLD
  IntMax      \* INT_MAX

VARIABLES
  \* adaptive_controller_t
  current_batch_threshold, batch_threshold_fixed,
  tick,             \* where the tick is: "idle", "loaded", "store"
  batch_threshold,  \* its local variable
  setter,           \* where each setter is: "idle", "flag"
  \* histories
  asked,            \* the value a setter stored last
  unfixed,          \* the flag was clear at some time since the tick began
  overtaken         \* such a tick has stored since `asked' was stored

vars == <<current_batch_threshold, batch_threshold_fixed, tick, batch_threshold,
          setter, asked, unfixed, overtaken>>

Init ==
  /\ current_batch_threshold = MinBatch /\ batch_threshold_fixed = FALSE
  /\ tick = "idle" /\ batch_threshold = MinBatch
  /\ setter = [s \in Setters |-> "idle"]
  /\ asked = MinBatch /\ unfixed = FALSE /\ overtaken = FALSE

-----------------------------------------------------------------------------
TickLoad ==
  /\ tick = "idle"
  /\ batch_threshold' = current_batch_threshold
  /\ tick' = "loaded" /\ unfixed' = ~batch_threshold_fixed
  /\ UNCHANGED <<current_batch_threshold, batch_threshold_fixed, setter, asked,
                 overtaken>>

TickDecide_Deaf ==  \* the flag is not looked at
  /\ tick = "loaded"
  /\ \/ tick' = "idle" /\ UNCHANGED batch_threshold
     \/ /\ batch_threshold < MaxBatch
        /\ tick' = "store" /\ batch_threshold' = batch_threshold + 1
  /\ UNCHANGED <<current_batch_threshold, batch_threshold_fixed, setter, asked,
                 unfixed, overtaken>>

\* The flag is read; then, for a ratio of SQEs per submit below the target,
\* well above it, or neither, the local value goes up, down, or nowhere.
TickDecide ==
  /\ tick = "loaded"
  /\ \/ tick' = "idle" /\ UNCHANGED batch_threshold
     \/ /\ ~batch_threshold_fixed
        /\ tick' = "store"
        /\ \/ batch_threshold < MaxBatch /\ batch_threshold' = batch_threshold + 1
           \/ batch_threshold > MinBatch /\ batch_threshold' = batch_threshold - 1
  /\ UNCHANGED <<current_batch_threshold, batch_threshold_fixed, setter, asked,
                 unfixed, overtaken>>

TickStore ==
  /\ tick = "store"
  /\ current_batch_threshold' = batch_threshold
  /\ tick' = "idle" /\ overtaken' = (overtaken \/ unfixed)
  /\ UNCHANGED <<batch_threshold_fixed, batch_threshold, setter, asked, unfixed>>

\* aura_set_batch_threshold(-1).
SetAuto(s) ==
  /\ setter[s] = "idle"
  /\ batch_threshold_fixed' = FALSE /\ unfixed' = TRUE
  /\ UNCHANGED <<current_batch_threshold, tick, batch_threshold, setter, asked,
                 overtaken>>

\* A threshold of 0 is INT_MAX.
SetThreshold(s) ==
  /\ setter[s] = "idle"
  /\ \E n \in Values \cup {IntMax} :
       current_batch_threshold' = n /\ asked' = n
  /\ setter' = [setter EXCEPT ![s] = "flag"] /\ overtaken' = FALSE
  /\ UNCHANGED <<batch_threshold_fixed, tick, batch_threshold, unfixed>>

SetFixed(s) ==
  /\ setter[s] = "flag"
  /\ batch_threshold_fixed' = TRUE
  /\ setter' = [setter EXCEPT ![s] = "idle"]
  /\ UNCHANGED <<current_batch_threshold, tick, batch_threshold, asked, unfixed,
                 overtaken>>

Next ==
  \/ TickLoad \/ TickDecide \/ TickStore
  \/ \E s \in Setters : SetAuto(s) \/ SetThreshold(s) \/ SetFixed(s)

Spec == Init /\ [][Next]_vars

-----------------------------------------------------------------------------
TypeOK ==
  /\ {current_batch_threshold, batch_threshold, asked} \subseteq 1 .. IntMax
  /\ batch_threshold_fixed \in BOOLEAN
  /\ tick \in {"idle", "loaded", "store"}
  /\ setter \in [Setters -> {"idle", "flag"}]
  /\ unfixed \in BOOLEAN /\ overtaken \in BOOLEAN

\* A fixed threshold is the one asked for last, unless a tick that was under
\* way before it was fixed has stored its own since: a tick that begins later
\* leaves it alone, whatever setters overlap.
ThresholdKept ==
  batch_threshold_fixed /\ ~overtaken => current_batch_threshold = asked

\* Why: a tick that found the flag clear ran while it was, and the value asked
\* for stays until such a tick stores.
ThresholdInv ==
  /\ batch_threshold_fixed \in BOOLEAN /\ unfixed \in BOOLEAN
  /\ overtaken \in BOOLEAN
  /\ tick # "idle" /\ ~batch_threshold_fixed => unfixed
  /\ tick = "store" => unfixed
  /\ ~overtaken => current_batch_threshold = asked

\* aura.h: ">0 = fixed threshold (bypass AIMD batch tuning)" and "Thread-safe:
\* uses atomic stores".  It fails: the tick that was under way overwrites the
\* threshold, which then stays fixed at the wrong value.
FixedHonoured ==
  batch_threshold_fixed /\ (\A s \in Setters : setter[s] = "idle")
    => current_batch_threshold = asked
=============================================================================
