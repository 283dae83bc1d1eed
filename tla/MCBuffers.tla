----------------------------- MODULE MCBuffers ------------------------------
(***************************************************************************)
(* The two halves of adaptive_buffer.c for TLC, side by side: every        *)
(* behaviour is one of the buffer pool or one of the map from buffers to   *)
(* size classes.                                                           *)
(***************************************************************************)
EXTENDS Integers, FiniteSets, TLC

CONSTANTS
  Users,     \* the threads of the buffer pool
  Pools,     \* its pools
  Nil,       \* nothing: no cache, no pool, no buffer, no class
  Failed     \* an insertion into the size map that was refused

\* Threads and pools are only compared with each other.
Symmetry == Permutations(Users) \cup Permutations(Pools)

\* The component this behaviour is of; it never changes.
VARIABLE part

\* The value of the variables of the components that are not at work.
Off == "off"

-----------------------------------------------------------------------------
\* Two threads and two pools, a cache of two buffers, a shard that keeps
\* one.
VARIABLES
    p_pool, p_bucket, p_cache, p_structs, p_live, p_held, p_tls, p_key, p_at,
    p_wild

Pool == INSTANCE BufferPool WITH
    Users <- Users, Pools <- Pools, CacheIds <- {1, 2}, Buffers <- {1, 2, 3},
    Shards <- {0}, CacheSize <- 2, BatchSize <- 2, MaxFree <- 1,
    NoCache <- Nil, NoPool <- Nil, NoUser <- Nil, NoBuf <- Nil,
    pool <- p_pool, bucket <- p_bucket, cache <- p_cache,
    structs <- p_structs, live <- p_live, held <- p_held, tls <- p_tls,
    key <- p_key, at <- p_at, wild <- p_wild

p_vars == <<p_pool, p_bucket, p_cache, p_structs, p_live, p_held, p_tls,
            p_key, p_at, p_wild>>

p_Off ==
    /\ p_pool = Off /\ p_bucket = Off /\ p_cache = Off /\ p_structs = Off
    /\ p_live = Off /\ p_held = Off /\ p_tls = Off /\ p_key = Off
    /\ p_at = Off /\ p_wild = Off

-----------------------------------------------------------------------------
\* Four buffers in a table of two entries that may grow once. Keys differ in
\* their hashes only, so the hashes are taken in ascending order.
VARIABLES
    s_hash, s_entries, s_count, s_ret

Sizes == INSTANCE BufSizeMap WITH
    Keys <- 1 .. 4, Classes <- {8}, InitialCapacity <- 2, MaxCapacity <- 4,
    None <- Nil, Failed <- Failed, hash <- s_hash, entries <- s_entries,
    count <- s_count, ret <- s_ret

s_vars == <<s_hash, s_entries, s_count, s_ret>>

s_Off ==
    /\ s_hash = Off /\ s_entries = Off /\ s_count = Off /\ s_ret = Off

-----------------------------------------------------------------------------
vars == <<part, p_vars, s_vars>>

Init ==
    \/ /\ part = "pool" /\ Pool!Init
       /\ s_Off
    \/ /\ part = "sizes" /\ Sizes!Init
       /\ \A i, j \in 1 .. 4 : i <= j => s_hash[i] <= s_hash[j]
       /\ p_Off

\* What a step of each part leaves alone.
p_Rest == <<part, s_vars>>
s_Rest == <<part, p_vars>>

Next ==
    \/ part = "pool" /\ Pool!Next /\ UNCHANGED p_Rest
    \/ part = "sizes" /\ Sizes!Next /\ UNCHANGED s_Rest

Spec == Init /\ [][Next]_vars

-----------------------------------------------------------------------------
(* Properties *)

\* The constants are such as the proofs about the pool and the map assume.
ASSUME PartsAsProved == Pool!PoolConstants /\ Sizes!MapConstants

\* The buffer pool.  Every buffer taken from the heap is at exactly one place:
\* with the application, in the hands of one thread, in one cache or in one
\* shard, through refill, flush, thread exit and buffer_pool_destroy; no cache
\* and no shard holds more than its array;
\* total_buffers is the number of buffers of a pool that exist, whenever
\* nobody is inside the pool; and a cache whose owner ran tls_destructor is
\* freed once, whether the destructor or buffer_pool_destroy came first.
PoolSound ==
    part = "pool" => Pool!PoolSound

\* buf_size_map implements a map from buffers to classes: an operation on one
\* buffer never changes or loses the class of another, through collisions,
\* growth and shifting deletion.
ImplementsMap ==
    /\ part = "sizes" => Sizes!Abstract!Init
    /\ [][part = "sizes" =>
            [Sizes!Abstract!Next]_<<[k \in 1 .. 4 |-> Sizes!Recorded(k)],
                                    s_ret>>]_vars
=============================================================================
