------------------------------ MODULE Histogram ------------------------------
(***************************************************************************)
(* The double-buffered latency histogram of adaptive_engine.c: completions *)
(* record into the active one from any thread, the tick thread swaps, reads*)
(* the 99th percentile of the one swapped out and resets it a tick later.  *)
(* A record is three atomic operations and a reset a store per counter, so *)
(* a writer that is slow for a whole tick is overtaken by the reset.       *)
(***************************************************************************)
EXTENDS Integers, FiniteSets, FiniteSetsExt, Sequences

CONSTANTS
  Writers,      \* threads that process completions
  Tiers,        \* LATENCY_TIERS: a sequence of [start, width, count, base]
  Latencies,    \* latencies that are recorded
  MaxRecords,   \* bound on the records made
  NoBucket      \* no percentile: adaptive_hist_p99 returns -1

VARIABLES
  active_index,    \* hist_pair.active_index
  buckets, total,  \* per histogram; bucket -1 is the overflow counter
  pending_reset,   \* the histogram to reset at the next tick, -1 for none
  wpc, whist, wlat,    \* a writer's step, histogram and latency
  tpc, told,       \* the tick's step and the histogram it swapped out
  p99,             \* the bucket last published as the percentile
  written,         \* buckets ever recorded into
  records

vars == <<active_index, buckets, total, pending_reset, wpc, whist, wlat, tpc, told, p99,
          written, records>>
writerVars == <<wpc, whist, wlat, written, records>>

H == {0, 1}
BucketCount == Tiers[Len(Tiers)].base + Tiers[Len(Tiers)].count
Buckets == -1 .. BucketCount - 1

\* Fault: a latency on a tier's lower bound is looked up in the tier below.
latency_us_to_bucket_Strict(us) ==
  LET t == Max({1} \cup {k \in 1..Len(Tiers) : us > Tiers[k].start})
      offset == (us - Tiers[t].start) \div Tiers[t].width
  IN  IF offset >= Tiers[t].count THEN -1 ELSE Tiers[t].base + offset

\* latency_us_to_bucket: the highest tier that starts at or below the latency.
latency_us_to_bucket(us) ==
  LET l == IF us < 0 THEN 0 ELSE us
      t == Max({k \in 1..Len(Tiers) : l >= Tiers[k].start})
      offset == (l - Tiers[t].start) \div Tiers[t].width
  IN  IF offset >= Tiers[t].count THEN -1 ELSE Tiers[t].base + offset

\* bucket_upper_bound_us, and the lower bound the midpoint is computed from.
TierOf(b) == Tiers[Max({k \in 1..Len(Tiers) : b >= Tiers[k].base})]
bucket_upper_bound_us(b) == TierOf(b).start + (b - TierOf(b).base + 1) * TierOf(b).width
bucket_lower_bound_us(b) == TierOf(b).start + (b - TierOf(b).base) * TierOf(b).width

\* adaptive_hist_pair_init.
Init ==
  /\ active_index = 0
  /\ buckets = [h \in H |-> [b \in Buckets |-> 0]] /\ total = [h \in H |-> 0]
  /\ pending_reset = -1
  /\ wpc = [w \in Writers |-> "idle"] /\ whist = [w \in Writers |-> 0]
  /\ wlat = [w \in Writers |-> 0]
  /\ tpc = "sleep" /\ told = 0
  /\ p99 = NoBucket
  /\ written = {} /\ records = 0

-----------------------------------------------------------------------------
(* adaptive_hist_record, through adaptive_hist_active.                     *)

RecordActive(w, us) ==
  /\ wpc[w] = "idle" /\ records < MaxRecords
  /\ whist' = [whist EXCEPT ![w] = active_index]
  /\ wlat' = [wlat EXCEPT ![w] = us]
  /\ wpc' = [wpc EXCEPT ![w] = "bucket"]
  /\ records' = records + 1
  /\ UNCHANGED <<active_index, buckets, total, pending_reset, tpc, told, p99, written>>

RecordBucket(w) ==
  /\ wpc[w] = "bucket"
  /\ LET b == latency_us_to_bucket(wlat[w])
     IN  /\ buckets' = [buckets EXCEPT ![whist[w]][b] = @ + 1]
         /\ written' = written \cup {b}
  /\ wpc' = [wpc EXCEPT ![w] = "total"]
  /\ UNCHANGED <<active_index, total, pending_reset, whist, wlat, tpc, told, p99, records>>

RecordTotal(w) ==
  /\ wpc[w] = "total"
  /\ total' = [total EXCEPT ![whist[w]] = @ + 1]
  /\ wpc' = [wpc EXCEPT ![w] = "idle"]
  /\ UNCHANGED <<active_index, buckets, pending_reset, whist, wlat, tpc, told, p99, written,
                 records>>

-----------------------------------------------------------------------------
(* tick_swap_and_compute_stats.                                            *)

\* Fault: only the buckets of the histogram are cleared.
TickResetTotal_Kept ==
  /\ tpc = "reset_total"
  /\ pending_reset' = -1
  /\ tpc' = "swap"
  /\ UNCHANGED <<active_index, buckets, total, told, p99, writerVars>>

\* adaptive_hist_reset of the histogram swapped out a tick ago: first the
\* buckets, then the total.
TickResetBuckets ==
  /\ tpc = "sleep"
  /\ IF pending_reset = -1
     THEN tpc' = "swap" /\ UNCHANGED buckets
     ELSE /\ buckets' = [buckets EXCEPT ![pending_reset] = [b \in Buckets |-> 0]]
          /\ tpc' = "reset_total"
  /\ UNCHANGED <<active_index, total, pending_reset, told, p99, writerVars>>

TickResetTotal ==
  /\ tpc = "reset_total"
  /\ total' = [total EXCEPT ![pending_reset] = 0]
  /\ pending_reset' = -1
  /\ tpc' = "swap"
  /\ UNCHANGED <<active_index, buckets, told, p99, writerVars>>

\* adaptive_hist_swap.
TickSwap ==
  /\ tpc = "swap"
  /\ active_index' = 1 - active_index
  /\ told' = active_index
  /\ tpc' = "read"
  /\ UNCHANGED <<buckets, total, pending_reset, p99, writerVars>>

\* How many of the highest samples adaptive_hist_p99 counts down.
Target(n) == IF n >= 100 THEN n \div 100 ELSE (n + 19) \div 20

\* Fault: a scan that does not reach its target reports the lowest bucket.
PercentileBucket_Lowest(h) ==
  LET upTo(b) == buckets[h][-1] + SumFunction([c \in b .. BucketCount - 1 |-> buckets[h][c]])
      hit == {b \in 0 .. BucketCount - 1 : upTo(b) >= Target(total[h])}
  IN  IF total[h] = 0 THEN NoBucket
      ELSE IF buckets[h][-1] >= Target(total[h]) THEN -1
      ELSE IF hit = {} THEN 0 ELSE Max(hit)

\* adaptive_hist_p99: the overflow first, then the buckets from the top; a
\* scan that does not reach its target has no data.
PercentileBucket(h) ==
  LET upTo(b) == buckets[h][-1] + SumFunction([c \in b .. BucketCount - 1 |-> buckets[h][c]])
      hit == {b \in 0 .. BucketCount - 1 : upTo(b) >= Target(total[h])}
  IN  IF total[h] = 0 THEN NoBucket
      ELSE IF buckets[h][-1] >= Target(total[h]) THEN -1
      ELSE IF hit = {} THEN NoBucket ELSE Max(hit)

TickRead ==
  /\ tpc = "read"
  /\ p99' = PercentileBucket(told)
  /\ pending_reset' = told
  /\ tpc' = "sleep"
  /\ UNCHANGED <<active_index, buckets, total, told, writerVars>>

Next ==
  \/ \E w \in Writers : \/ \E us \in Latencies : RecordActive(w, us)
                        \/ RecordBucket(w) \/ RecordTotal(w)
  \/ TickResetBuckets \/ TickResetTotal \/ TickSwap \/ TickRead

Spec == Init /\ [][Next]_vars

-----------------------------------------------------------------------------
\* A record is counted in a bucket whose bounds hold its latency, or as an
\* overflow when no bucket reaches that far: the tiers leave no gap and no
\* latency falls on the wrong side of a boundary.
BucketHoldsLatency ==
  \A w \in Writers : wpc[w] # "idle" =>
    LET b == latency_us_to_bucket(wlat[w])
        us == IF wlat[w] < 0 THEN 0 ELSE wlat[w]
    IN  IF b = -1 THEN us >= bucket_upper_bound_us(BucketCount - 1)
        ELSE bucket_lower_bound_us(b) <= us /\ us < bucket_upper_bound_us(b)

\* A percentile that is published comes from a bucket somebody recorded into:
\* a histogram whose counters a reset has torn apart gives no percentile, not
\* one near zero that would lower the baseline.
PercentileWasRecorded == p99 # NoBucket => p99 \in written

\* A record torn by a reset leaves its histogram one count off, and only the
\* writers that were late when it was swapped out can be torn: between
\* records the counters differ by at most one per writer.
TornBounded ==
  (\A w \in Writers : wpc[w] = "idle") /\ tpc # "reset_total" =>
    \A h \in H :
      LET diff == SumFunction(buckets[h]) - total[h]
      IN  diff <= Cardinality(Writers) /\ -diff <= Cardinality(Writers)
=============================================================================
