----------------------------- MODULE BufferPool -----------------------------
(***************************************************************************)
(* The buffer pool of engine/src/adaptive_buffer.c: thread caches, the     *)
(* sharded free lists, and their destruction while threads exit or turn to *)
(* the pool of another engine.                                             *)
(*                                                                         *)
(* aura_destroy asks its caller to let every operation on that engine's    *)
(* pool finish first, so Destroy(d, p) starts with nobody inside p.  What  *)
(* remains concurrent with it is what the caller cannot see: the exit of a *)
(* thread that once used p (tls_destructor) and an operation on another    *)
(* pool that first disposes of the cache the thread has in p.              *)
(*                                                                         *)
(* One size class stands for all of them.  A step is a stretch of code     *)
(* between two points where another thread's lock or atomic can interfere. *)
(***************************************************************************)
EXTENDS Integers, Sequences, FiniteSets, SequencesExt

CONSTANTS Users,       \* threads that allocate, free and destroy
          Pools,       \* pools, one per engine
          CacheIds,    \* memory for thread_cache_t structs
          Buffers,     \* memory for buffers
          Shards,      \* shards of a pool, 0 .. shard_mask
          CacheSize,   \* THREAD_CACHE_SIZE
          BatchSize,   \* THREAD_CACHE_BATCH_SIZE
          MaxFree,     \* BUFFER_POOL_DEFAULT_MAX_FREE_PER_SHARD
          NoCache, NoPool, NoUser, NoBuf

VARIABLES
  pool,     \* Pools -> [stage, active_users, list, next_shard, total]
  bucket,   \* Pools -> Shards -> the buffers of the shard, head first
  cache,    \* CacheIds -> [pool, owner, shard, bufs, lock, cleaned_up, exited]
  structs,  \* the cache structs allocated and not freed
  live,     \* the buffers allocated and not freed
  held,     \* Pools -> buffers with the application
  tls,      \* Users -> tls_cache
  key,      \* Users -> the value of tls_key
  at,       \* Users -> the step a thread is at and its local variables
  wild      \* kinds of memory touched after it was freed (history)

vars == <<pool, bucket, cache, structs, live, held, tls, key, at, wild>>

Idle == [pc |-> "idle", op |-> "none", pool |-> NoPool, old |-> NoPool,
         c |-> NoCache, buf |-> NoBuf, flag |-> FALSE, list |-> <<>>]

EmptyCache == [pool |-> NoPool, owner |-> NoUser, shard |-> 0, bufs |-> <<>>,
               lock |-> NoUser, cleaned_up |-> FALSE, exited |-> FALSE]

\* buffer_pool_init for every engine.
Init ==
  /\ pool = [p \in Pools |-> [stage |-> "open", active_users |-> 0,
                              list |-> <<>>, next_shard |-> 0, total |-> 0]]
  /\ bucket = [p \in Pools |-> [s \in Shards |-> <<>>]]
  /\ cache = [c \in CacheIds |-> EmptyCache]
  /\ structs = {}
  /\ live = {}
  /\ held = [p \in Pools |-> {}]
  /\ tls = [t \in Users |-> NoCache]
  /\ key = [t \in Users |-> NoCache]
  /\ at = [t \in Users |-> Idle]
  /\ wild = {}

-----------------------------------------------------------------------------
(* Helpers *)

Destroyed(p) == pool[p].stage \in {"closing", "gone"}

Goto(t, pc) == at' = [at EXCEPT ![t].pc = pc]

\* A struct is read or written: noted if it has been freed.
TouchCache(c) == IF c \in structs THEN {} ELSE {"cache"}
TouchPool(p) == IF pool[p].stage = "gone" THEN {"pool"} ELSE {}

\* calloc: memory that a destroyer still refers to is not handed out again, so
\* that touching it is always noted.
CacheMemory ==
  (CacheIds \ structs) \ UNION {{at[d].list[i] : i \in DOMAIN at[d].list} : d \in Users}

ToSetOf(seq) == {seq[i] : i \in DOMAIN seq}

\* The number of the cache's buffers that one cache_flush moves to a shard
\* that holds n: a batch at most, and no more than the shard has room for.
Moved(n, have) ==
  LET room == IF n >= MaxFree THEN 0 ELSE MaxFree - n
      batch == IF have < BatchSize THEN have ELSE BatchSize
  IN IF room < batch THEN room ELSE batch

\* cache_flush: the newest buffers of the cache go to the head of the bucket.
\* When the shard is at its high-water mark inside the batch, everything left
\* in the cache is freed.
Flushed(bufs, shard) ==
  LET n == Moved(Len(shard), Len(bufs))
      rest == SubSeq(bufs, 1, Len(bufs) - n)
      full == n < BatchSize /\ rest # <<>>
  IN [bufs  |-> IF full THEN <<>> ELSE rest,
      shard |-> Reverse(SubSeq(bufs, Len(bufs) - n + 1, Len(bufs))) \o shard,
      freed |-> IF full THEN ToSetOf(rest) ELSE {}]

\* cleanup_cache_buffers_locked in FLUSH mode: cache_flush until the cache is
\* empty.  Every call moves a whole batch or frees the rest.
FlushedMore(s) ==
  IF s.bufs = <<>> THEN s
  ELSE [Flushed(s.bufs, s.shard) EXCEPT !.freed = @ \cup s.freed]

FlushedAll(bufs, shard) ==
  LET step[i \in 0 .. Len(bufs)] ==
        IF i = 0 THEN [bufs |-> bufs, shard |-> shard, freed |-> {}]
        ELSE FlushedMore(step[i - 1])
  IN step[Len(bufs)]
-----------------------------------------------------------------------------
(* Entry: aura_buffer_alloc and aura_buffer_free, and get_thread_cache.    *)

Call(t, p, op, b) ==
  /\ at[t].pc = "idle"
  /\ pool[p].stage = "open"
  /\ at' = [at EXCEPT ![t] = [Idle EXCEPT !.pc = "lookup", !.pool = p,
                                          !.op = op, !.buf = b]]
  /\ UNCHANGED <<pool, bucket, cache, structs, live, tls, key, wild>>

\* A buffer may be freed by any thread; buf_size_map_remove names its class.
aura_buffer_alloc(t, p) == Call(t, p, "alloc", NoBuf) /\ UNCHANGED held
aura_buffer_free(t, p, b) ==
  /\ b \in held[p]
  /\ Call(t, p, "free", b)
  /\ held' = [held EXCEPT ![p] = @ \ {b}]

\* The fast path: the thread's cache belongs to this pool.
LookupHit(t) ==
  LET c == tls[t] p == at[t].pool IN
  /\ at[t].pc = "lookup"
  /\ c # NoCache
  /\ cache[c].pool = p
  /\ at' = [at EXCEPT ![t].pc = at[t].op, ![t].c = c]
  /\ UNCHANGED <<pool, bucket, cache, structs, live, held, tls, key, wild>>

\* First use: a cache is created and published in the pool's list, or memory
\* is short.  registrations_inflight can only be seen by buffer_pool_destroy,
\* which does not run while somebody is inside the pool.
LookupNew(t) ==
  LET p == at[t].pool IN
  /\ at[t].pc = "lookup"
  /\ tls[t] = NoCache
  /\ IF CacheMemory = {}
     THEN /\ Goto(t, at[t].op)
          /\ UNCHANGED <<pool, cache, structs, tls, key>>
     ELSE LET c == CHOOSE x \in CacheMemory : TRUE IN
          /\ structs' = structs \cup {c}
          /\ cache' = [cache EXCEPT ![c] =
               [EmptyCache EXCEPT !.pool = p, !.owner = t,
                                  !.shard = pool[p].next_shard]]
          /\ pool' = [pool EXCEPT ![p].list = <<c>> \o @,
                                  ![p].next_shard = (@ + 1) % Cardinality(Shards)]
          /\ tls' = [tls EXCEPT ![t] = c]
          /\ key' = [key EXCEPT ![t] = c]
          /\ at' = [at EXCEPT ![t].pc = at[t].op, ![t].c = c]
  /\ UNCHANGED <<bucket, live, held, wild>>

\* The thread lets go of the cache and goes on without one.
Forget(t) ==
  /\ tls' = [tls EXCEPT ![t] = NoCache]
  /\ key' = [key EXCEPT ![t] = NoCache]

\* The cache was orphaned by the destruction of its pool: it is freed here.
LookupOrphan(t) ==
  LET c == tls[t] IN
  /\ at[t].pc = "lookup"
  /\ c # NoCache
  /\ cache[c].pool = NoPool
  /\ structs' = structs \ {c}
  /\ wild' = wild \cup TouchCache(c)
  /\ Forget(t)
  /\ Goto(t, at[t].op)
  /\ UNCHANGED <<pool, bucket, cache, live, held>>

\* The cache belongs to another pool, alive when cache->pool was read.
LookupOther(t) ==
  LET c == tls[t] IN
  /\ at[t].pc = "lookup"
  /\ c # NoCache
  /\ cache[c].pool \notin {NoPool, at[t].pool}
  /\ at' = [at EXCEPT ![t].pc = "switch_lock", ![t].c = c]
  /\ UNCHANGED <<pool, bucket, cache, structs, live, held, tls, key, wild>>

\* cleanup_mutex taken; the pool may have been destroyed meanwhile.
SwitchLock(t) ==
  LET c == at[t].c old == cache[at[t].c].pool IN
  /\ at[t].pc = "switch_lock"
  /\ cache[c].lock = NoUser
  /\ wild' = wild \cup TouchCache(c)
  /\ IF old = NoPool
     THEN /\ structs' = structs \ {c}
          /\ Forget(t)
          /\ at' = [at EXCEPT ![t].pc = at[t].op, ![t].c = NoCache]
          /\ UNCHANGED <<pool, cache>>
     ELSE /\ cache' = [cache EXCEPT ![c].lock = t]
          /\ pool' = [pool EXCEPT ![old].active_users = @ + 1]
          /\ at' = [at EXCEPT ![t].pc = "switch_check", ![t].old = old]
          /\ UNCHANGED <<structs, tls, key>>
  /\ UNCHANGED <<bucket, live, held>>

\* With active_users raised the pool cannot lose its shards any more, unless
\* it was already being destroyed.
SwitchCheck(t) ==
  /\ at[t].pc = "switch_check"
  /\ at' = [at EXCEPT ![t].pc = "switch_clean", ![t].flag = ~Destroyed(at[t].old)]
  /\ UNCHANGED <<pool, bucket, cache, structs, live, held, tls, key, wild>>

\* The disposal of a cache's buffers, under its mutex: back to the shards of p
\* (flush), or to the heap; p is NoPool when the statistics are left alone.
\* Fault: a cache that was already disposed of is not recognised.
cleanup_Again(c, p, flush) ==
  /\ cache' = [cache EXCEPT ![c].cleaned_up = TRUE]
  /\ live' = live \ ToSetOf(cache[c].bufs)
  /\ UNCHANGED <<bucket, pool>>

cleanup_cache_buffers_locked(c, p, flush) ==
  LET f == IF cache[c].cleaned_up
           THEN [shard |-> <<>>, freed |-> {}]
           ELSE IF flush
           THEN FlushedAll(cache[c].bufs, bucket[p][cache[c].shard])
           ELSE [shard |-> <<>>, freed |-> ToSetOf(cache[c].bufs)]
  IN
  /\ cache' = [cache EXCEPT ![c].bufs = IF cache[c].cleaned_up THEN @ ELSE <<>>,
                            ![c].cleaned_up = TRUE]
  /\ live' = live \ f.freed
  /\ bucket' = IF flush /\ ~cache[c].cleaned_up
               THEN [bucket EXCEPT ![p][cache[c].shard] = f.shard] ELSE bucket
  /\ pool' = IF p = NoPool THEN pool
             ELSE [pool EXCEPT ![p].total = @ - Cardinality(f.freed)]

SwitchClean(t) ==
  /\ at[t].pc = "switch_clean"
  /\ cleanup_cache_buffers_locked(at[t].c, at[t].old, at[t].flag)
  /\ Goto(t, "switch_unlock")
  /\ UNCHANGED <<structs, held, tls, key, wild>>

SwitchUnlock(t) ==
  /\ at[t].pc = "switch_unlock"
  /\ cache' = [cache EXCEPT ![at[t].c].lock = NoUser]
  /\ Goto(t, "switch_leave")
  /\ UNCHANGED <<pool, bucket, structs, live, held, tls, key, wild>>

\* active_users of the other pool is lowered after its mutex was released.
SwitchLeave(t) ==
  LET old == at[t].old IN
  /\ at[t].pc = "switch_leave"
  /\ pool' = [pool EXCEPT ![old].active_users = @ - 1]
  /\ wild' = wild \cup TouchPool(old)
  /\ Forget(t)
  /\ at' = [at EXCEPT ![t].pc = at[t].op, ![t].c = NoCache, ![t].old = NoPool]
  /\ UNCHANGED <<bucket, cache, structs, live, held>>
-----------------------------------------------------------------------------
(* buffer_pool_alloc and buffer_pool_free after get_thread_cache.  Between *)
(* pool_enter and pool_leave the pool is not being destroyed (see above),  *)
(* so each critical section on a shard is one step.                        *)

\* The shard of the cache, or the next one in turn.
ShardOf(t) == IF at[t].c = NoCache THEN pool[at[t].pool].next_shard
                                   ELSE cache[at[t].c].shard
NextShard(t) ==
  IF at[t].c = NoCache
  THEN [pool EXCEPT ![at[t].pool].next_shard = (@ + 1) % Cardinality(Shards)]
  ELSE pool

\* The buffer found goes on to aura_buffer_alloc.
Found(t, b) == at' = [at EXCEPT ![t].pc = "track", ![t].buf = b]

AllocHit(t) ==
  LET c == at[t].c IN
  /\ at[t].pc = "alloc" /\ c # NoCache
  /\ cache[c].bufs # <<>>
  /\ Found(t, Last(cache[c].bufs))
  /\ cache' = [cache EXCEPT ![c].bufs = Front(@)]
  /\ UNCHANGED <<pool, bucket, structs, live, held, tls, key, wild>>

\* cache_refill and, if it brought something, the pop that follows.
AllocRefill(t) ==
  LET c == at[t].c p == at[t].pool
      list == bucket[p][cache[c].shard]
      n == IF Len(list) < BatchSize THEN Len(list) ELSE BatchSize
  IN
  /\ at[t].pc = "alloc" /\ c # NoCache
  /\ cache[c].bufs = <<>>
  /\ IF n = 0
     THEN /\ Goto(t, "alloc_shard")
          /\ UNCHANGED <<bucket, cache>>
     ELSE /\ bucket' = [bucket EXCEPT ![p][cache[c].shard] = SubSeq(list, n + 1, Len(list))]
          /\ cache' = [cache EXCEPT ![c].bufs = SubSeq(list, 1, n - 1)]
          /\ Found(t, list[n])
  /\ UNCHANGED <<pool, structs, live, held, tls, key, wild>>

AllocShard(t) ==
  LET p == at[t].pool s == ShardOf(t) IN
  /\ \/ at[t].pc = "alloc_shard"
     \/ at[t].pc = "alloc" /\ at[t].c = NoCache
  /\ pool' = NextShard(t)
  /\ IF bucket[p][s] = <<>>
     THEN Goto(t, "alloc_heap") /\ UNCHANGED bucket
     ELSE /\ Found(t, Head(bucket[p][s]))
          /\ bucket' = [bucket EXCEPT ![p][s] = Tail(@)]
  /\ UNCHANGED <<cache, structs, live, held, tls, key, wild>>

\* posix_memalign, and the extra buffers that fill the cache.
AllocHeap(t) ==
  LET p == at[t].pool c == at[t].c
      memory == SetToSeq(Buffers \ live)
      room == IF c = NoCache THEN 0
              ELSE IF cache[c].cleaned_up THEN 0
              ELSE CacheSize - Len(cache[c].bufs)
      extras == CHOOSE n \in 0 .. BatchSize - 1 :
                  \A k \in 0 .. BatchSize - 1 :
                    (k <= room /\ k < Len(memory)) <=> k <= n
  IN
  /\ at[t].pc = "alloc_heap"
  /\ IF memory = <<>>
     THEN /\ at' = [at EXCEPT ![t] = Idle]
          /\ UNCHANGED <<pool, cache, live>>
     ELSE /\ Found(t, Head(memory))
          /\ live' = live \cup ToSetOf(SubSeq(memory, 1, extras + 1))
          /\ pool' = [pool EXCEPT ![p].total = @ + extras + 1]
          /\ cache' = IF extras = 0 THEN cache
                      ELSE [cache EXCEPT ![c].bufs = @ \o SubSeq(memory, 2, extras + 1)]
  /\ UNCHANGED <<bucket, structs, held, tls, key, wild>>

\* The rest of aura_buffer_alloc: the size map may refuse the buffer, which is
\* then given back through buffer_pool_free.
Track(t) ==
  /\ at[t].pc = "track"
  /\ \/ /\ held' = [held EXCEPT ![at[t].pool] = @ \cup {at[t].buf}]
        /\ at' = [at EXCEPT ![t] = Idle]
     \/ /\ at' = [at EXCEPT ![t] = [Idle EXCEPT !.pc = "lookup", !.op = "free",
                              !.pool = at[t].pool, !.buf = at[t].buf]]
        /\ UNCHANGED held
  /\ UNCHANGED <<pool, bucket, cache, structs, live, tls, key, wild>>

\* Into the cache, which nobody has cleaned up under its owner.
FreeCache(t) ==
  LET c == at[t].c IN
  /\ at[t].pc = "free" /\ c # NoCache
  /\ Len(cache[c].bufs) < CacheSize
  /\ cache[c].lock = NoUser
  /\ IF cache[c].cleaned_up
     THEN live' = live \ {at[t].buf} /\ UNCHANGED cache
     ELSE cache' = [cache EXCEPT ![c].bufs = Append(@, at[t].buf)] /\ UNCHANGED live
  /\ at' = [at EXCEPT ![t] = Idle]
  /\ UNCHANGED <<pool, bucket, structs, held, tls, key, wild>>

\* Fault: the buffers freed for lack of room stay in the statistics.
FreeFlush_Uncounted(t) ==
  LET c == at[t].c p == at[t].pool
      f == Flushed(cache[c].bufs, bucket[p][cache[c].shard])
  IN
  /\ at[t].pc = "free" /\ c # NoCache
  /\ Len(cache[c].bufs) >= CacheSize
  /\ bucket' = [bucket EXCEPT ![p][cache[c].shard] = f.shard]
  /\ cache' = [cache EXCEPT ![c].bufs = f.bufs]
  /\ live' = live \ f.freed
  /\ UNCHANGED <<pool, at, structs, held, tls, key, wild>>

\* A full cache gives a batch to its shard first.
FreeFlush(t) ==
  LET c == at[t].c p == at[t].pool
      f == Flushed(cache[c].bufs, bucket[p][cache[c].shard])
  IN
  /\ at[t].pc = "free" /\ c # NoCache
  /\ Len(cache[c].bufs) >= CacheSize
  /\ bucket' = [bucket EXCEPT ![p][cache[c].shard] = f.shard]
  /\ cache' = [cache EXCEPT ![c].bufs = f.bufs]
  /\ live' = live \ f.freed
  /\ pool' = [pool EXCEPT ![p].total = @ - Cardinality(f.freed)]
  /\ UNCHANGED <<at, structs, held, tls, key, wild>>

\* Without a cache: to a shard, or to the heap when the shard is full.
FreeShard(t) ==
  LET p == at[t].pool s == ShardOf(t) IN
  /\ at[t].pc = "free" /\ at[t].c = NoCache
  /\ IF Len(bucket[p][s]) >= MaxFree
     THEN /\ live' = live \ {at[t].buf}
          /\ pool' = [NextShard(t) EXCEPT ![p].total = @ - 1]
          /\ UNCHANGED bucket
     ELSE /\ bucket' = [bucket EXCEPT ![p][s] = <<at[t].buf>> \o @]
          /\ pool' = NextShard(t)
          /\ UNCHANGED live
  /\ at' = [at EXCEPT ![t] = Idle]
  /\ UNCHANGED <<cache, structs, held, tls, key, wild>>
-----------------------------------------------------------------------------
(* tls_destructor: the thread exits.                                       *)

\* Without a value for tls_key nothing runs.
ExitPlain(t) ==
  /\ at[t].pc = "idle" /\ key[t] = NoCache
  /\ at' = [at EXCEPT ![t].pc = "exited"]
  /\ UNCHANGED <<pool, bucket, cache, structs, live, held, tls, key, wild>>

ExitLock(t) ==
  LET c == key[t] p == cache[key[t]].pool IN
  /\ at[t].pc = "idle" /\ c # NoCache
  /\ cache[c].lock = NoUser
  /\ wild' = wild \cup TouchCache(c)
  /\ tls' = [tls EXCEPT ![t] = NoCache]
  /\ cache' = [cache EXCEPT ![c].lock = t, ![c].exited = TRUE]
  /\ pool' = IF p = NoPool THEN pool ELSE [pool EXCEPT ![p].active_users = @ + 1]
  /\ at' = [at EXCEPT ![t].pc = "exit_check", ![t].c = c, ![t].old = p]
  /\ UNCHANGED <<bucket, structs, live, held, key>>

\* flag: flush to the shards; otherwise the pool has been left again.
ExitCheck(t) ==
  LET p == at[t].old flush == p # NoPool /\ ~Destroyed(p) IN
  /\ at[t].pc = "exit_check"
  /\ at' = [at EXCEPT ![t].pc = "exit_clean", ![t].flag = flush,
                      ![t].old = IF flush THEN p ELSE NoPool]
  /\ pool' = IF p # NoPool /\ ~flush
             THEN [pool EXCEPT ![p].active_users = @ - 1] ELSE pool
  /\ UNCHANGED <<bucket, cache, structs, live, held, tls, key, wild>>

ExitClean(t) ==
  /\ at[t].pc = "exit_clean"
  /\ cleanup_cache_buffers_locked(at[t].c, at[t].old, at[t].flag)
  /\ Goto(t, "exit_unlock")
  /\ UNCHANGED <<structs, held, tls, key, wild>>

\* Fault: the struct of a dead pool is left to the pool's destruction.
ExitUnlock_Kept(t) ==
  LET c == at[t].c p == at[t].old IN
  /\ at[t].pc = "exit_unlock"
  /\ pool' = IF p = NoPool THEN pool ELSE [pool EXCEPT ![p].active_users = @ - 1]
  /\ cache' = [cache EXCEPT ![c].lock = NoUser]
  /\ key' = [key EXCEPT ![t] = NoCache]
  /\ at' = [at EXCEPT ![t] = [Idle EXCEPT !.pc = "exited"]]
  /\ UNCHANGED <<bucket, structs, live, held, tls, wild>>

\* The pool is left, the mutex released; an orphan is freed.
ExitUnlock(t) ==
  LET c == at[t].c p == at[t].old IN
  /\ at[t].pc = "exit_unlock"
  /\ pool' = IF p = NoPool THEN pool ELSE [pool EXCEPT ![p].active_users = @ - 1]
  /\ structs' = IF cache[c].pool = NoPool THEN structs \ {c} ELSE structs
  /\ cache' = [cache EXCEPT ![c].lock = NoUser]
  /\ key' = [key EXCEPT ![t] = NoCache]
  /\ at' = [at EXCEPT ![t] = [Idle EXCEPT !.pc = "exited"]]
  /\ UNCHANGED <<bucket, live, held, tls, wild>>
-----------------------------------------------------------------------------
(* buffer_pool_destroy                                                     *)

\* The caller of aura_destroy has let the operations on p finish.
MarkDestroyed(d, p) ==
  /\ at[d].pc = "idle"
  /\ pool[p].stage = "open"
  /\ \A t \in Users : at[t].pool # p
  /\ pool' = [pool EXCEPT ![p].stage = "closing"]
  /\ at' = [at EXCEPT ![d] = [Idle EXCEPT !.pc = "quiesce", !.pool = p]]
  /\ UNCHANGED <<bucket, cache, structs, live, held, tls, key, wild>>

\* The end of phase 1.
Quiesce(d) ==
  /\ at[d].pc = "quiesce"
  /\ pool[at[d].pool].active_users = 0
  /\ Goto(d, "detach")
  /\ UNCHANGED <<pool, bucket, cache, structs, live, held, tls, key, wild>>

\* Phase 2: the list is taken until it is empty.
Detach(d) ==
  LET p == at[d].pool IN
  /\ at[d].pc = "detach"
  /\ at' = [at EXCEPT ![d].list = pool[p].list,
                      ![d].pc = IF pool[p].list = <<>> THEN "shards" ELSE "take"]
  /\ pool' = [pool EXCEPT ![p].list = <<>>]
  /\ UNCHANGED <<bucket, cache, structs, live, held, tls, key, wild>>

\* One cache, under its mutex: its buffers are freed and it loses its pool.
TakeCache(d) ==
  LET c == Head(at[d].list) IN
  /\ at[d].pc = "take"
  /\ cache[c].lock = NoUser
  /\ wild' = wild \cup TouchCache(c)
  /\ cache' = [cache EXCEPT ![c].bufs = IF @ # <<>> /\ cache[c].cleaned_up THEN @ ELSE <<>>,
                            ![c].cleaned_up = TRUE, ![c].pool = NoPool, ![c].lock = d]
  /\ live' = IF cache[c].cleaned_up THEN live ELSE live \ ToSetOf(cache[c].bufs)
  /\ Goto(d, "release")
  /\ UNCHANGED <<pool, bucket, structs, held, tls, key>>

ReleaseCache(d) ==
  LET c == Head(at[d].list) IN
  /\ at[d].pc = "release"
  /\ wild' = wild \cup TouchCache(c)
  /\ cache' = [cache EXCEPT ![c].lock = IF @ = d THEN NoUser ELSE @]
  /\ at' = [at EXCEPT ![d].pc = "dispose", ![d].flag = cache[c].exited]
  /\ UNCHANGED <<pool, bucket, structs, live, held, tls, key>>

\* The mutex is released when owner_thread is read.
DisposeCache(d) ==
  LET c == Head(at[d].list) rest == Tail(at[d].list)
      own == cache[c].owner = d
  IN
  /\ at[d].pc = "dispose"
  /\ wild' = wild \cup TouchCache(c)
  /\ tls' = IF own /\ tls[d] = c THEN [tls EXCEPT ![d] = NoCache] ELSE tls
  /\ key' = IF own THEN [key EXCEPT ![d] = NoCache] ELSE key
  /\ structs' = IF own \/ at[d].flag THEN structs \ {c} ELSE structs
  /\ at' = [at EXCEPT ![d].list = rest, ![d].flag = FALSE,
                      ![d].pc = IF rest = <<>> THEN "detach" ELSE "take"]
  /\ UNCHANGED <<pool, bucket, cache, live, held>>

\* Phase 3, and the release of the engine that the pool is part of.
DestroyShards(d) ==
  LET p == at[d].pool IN
  /\ at[d].pc = "shards"
  /\ live' = live \ UNION {ToSetOf(bucket[p][s]) : s \in Shards}
  /\ bucket' = [bucket EXCEPT ![p] = [s \in Shards |-> <<>>]]
  /\ pool' = [pool EXCEPT ![p].stage = "gone", ![p].total = 0]
  /\ at' = [at EXCEPT ![d] = Idle]
  /\ UNCHANGED <<cache, structs, held, tls, key, wild>>
-----------------------------------------------------------------------------
Lookup(t) == \/ LookupHit(t) \/ LookupNew(t) \/ LookupOrphan(t) \/ LookupOther(t)
Switch(t) == \/ SwitchLock(t) \/ SwitchCheck(t) \/ SwitchClean(t)
             \/ SwitchUnlock(t) \/ SwitchLeave(t)
Alloc(t) == \/ AllocHit(t) \/ AllocRefill(t) \/ AllocShard(t) \/ AllocHeap(t)
            \/ Track(t)
Free(t) == FreeCache(t) \/ FreeFlush(t) \/ FreeShard(t)
Exit(t) == ExitCheck(t) \/ ExitClean(t) \/ ExitUnlock(t)
Destroy(t) == \/ Quiesce(t) \/ Detach(t) \/ TakeCache(t) \/ ReleaseCache(t)
              \/ DisposeCache(t) \/ DestroyShards(t)

\* The steps of a call under way.
Continue(t) == Lookup(t) \/ Switch(t) \/ Alloc(t) \/ Free(t) \/ Exit(t) \/ Destroy(t)

\* The steps that start something.
Begin(t) ==
  \/ \E p \in Pools : \/ aura_buffer_alloc(t, p)
                      \/ \E b \in Buffers : aura_buffer_free(t, p, b)
                      \/ MarkDestroyed(t, p)
  \/ ExitPlain(t) \/ ExitLock(t)

\* No freed memory has been touched yet.  What the program does after that is
\* undefined and the model does not follow it.
Defined == wild = {}

\* Every thread has exited, or the behaviour is no longer defined.
AllOver == /\ Defined => \A t \in Users : at[t].pc = "exited"
           /\ UNCHANGED vars

Next == \/ Defined /\ \E t \in Users : Continue(t) \/ Begin(t)
        \/ AllOver

Spec == Init /\ [][Next]_vars

-----------------------------------------------------------------------------
(* Properties *)

\* A cache holds at most THREAD_CACHE_SIZE buffers and a shard at most its
\* high-water mark, which is also the number of its slots: the arrays of both
\* are never overrun.
InBounds ==
  /\ \A c \in CacheIds : Len(cache[c].bufs) <= CacheSize
  /\ \A p \in Pools, s \in Shards : Len(bucket[p][s]) <= MaxFree

\* The places a buffer can be at, each with what it is a place of.
Places == ({"app"} \X Pools) \cup ({"hand"} \X Users) \cup ({"cache"} \X CacheIds)
          \cup ({"shard"} \X (Pools \X Shards))

\* The buffers that are there, and the pool they are of.
Content(x) ==
  CASE x[1] = "app" -> held[x[2]]
    [] x[1] = "hand" -> {at[x[2]].buf} \ {NoBuf}
    [] x[1] = "cache" -> IF x[2] \in structs THEN ToSetOf(cache[x[2]].bufs) ELSE {}
    [] x[1] = "shard" -> ToSetOf(bucket[x[2][1]][x[2][2]])

PoolAt(x) ==
  CASE x[1] = "app" -> x[2]
    [] x[1] = "hand" -> at[x[2]].pool
    [] x[1] = "cache" -> cache[x[2]].pool
    [] x[1] = "shard" -> x[2][1]

BuffersOf(p) == UNION {Content(x) : x \in {y \in Places : PoolAt(y) = p}}

\* Through allocation, free, refill, flush, thread exit and destruction every
\* buffer taken from the heap is at exactly one place: with the application,
\* in the hands of one thread, in one cache or in one shard.  So none is
\* handed out twice, used or freed after free, or lost.
BuffersAtOnePlace ==
  /\ live = UNION {Content(x) : x \in Places}
  /\ \A x, y \in Places : x # y => Content(x) \cap Content(y) = {}
  /\ \A c \in structs : IsInjective(cache[c].bufs)
  /\ \A p \in Pools, s \in Shards : IsInjective(bucket[p][s])

Quiet(p) == \A t \in Users : at[t].pool # p /\ at[t].old # p

\* total_buffers, which aura_get_buffer_stats reports, is the number of
\* buffers of a pool that exist, whenever nobody is inside the pool.
TotalExact ==
  \A p \in Pools :
    pool[p].stage = "open" /\ Quiet(p) => pool[p].total = Cardinality(BuffersOf(p))

\* adaptive_buffer.c: ownership stays with the list traversal "to avoid UAF
\* races" and otherwise "tls_destructor can free it while destroy still has a
\* detached list pointer to this cache": nobody touches a freed cache.
NoFreedCacheTouched == "cache" \notin wild

Ended ==
  /\ \A t \in Users : at[t].pc = "exited"
  /\ \A p \in Pools : pool[p].stage = "gone"

\* "exactly one side frees the struct": once the pools are gone and the threads
\* have exited, a cache whose owner ran tls_destructor has been freed, whether
\* the destructor or buffer_pool_destroy came first.
ExitedCachesReclaimed == Ended => \A c \in structs : ~cache[c].exited

\* "The cache is still in the old pool's thread_caches list, so we can't free
\* the struct (pool destroy will do that)": once a pool is gone and the
\* threads have exited no cache struct is left.
CachesReclaimed == Ended => structs = {}

\* Everything that is promised of the pool.
PoolSound == InBounds /\ BuffersAtOnePlace /\ TotalExact /\ ExitedCachesReclaimed

-----------------------------------------------------------------------------
(* The inductive invariant.                                                *)

PoolConstants ==
  /\ Cardinality(Shards) \in Nat \ {0} /\ Shards = 0 .. Cardinality(Shards) - 1
  /\ IsFiniteSet(Buffers)
  /\ BatchSize \in Nat \ {0} /\ MaxFree \in Nat /\ CacheSize \in Nat
  /\ BatchSize <= CacheSize
  /\ NoCache \notin CacheIds /\ NoPool \notin Pools
  /\ NoUser \notin Users /\ NoBuf \notin Buffers

Calling == {"lookup", "switch_lock", "switch_check", "switch_clean", "switch_unlock",
            "switch_leave", "alloc", "alloc_shard", "alloc_heap", "track", "free"}
Exiting == {"exit_check", "exit_clean", "exit_unlock"}
Listing == {"take", "release", "dispose"}
Destroying == {"quiesce", "detach", "shards"} \cup Listing

Caches == [pool : Pools \cup {NoPool}, owner : Users \cup {NoUser}, shard : Shards,
           bufs : Seq(Buffers), lock : Users \cup {NoUser}, cleaned_up : BOOLEAN,
           exited : BOOLEAN]

Locals == [pc : {"idle", "exited"} \cup Calling \cup Exiting \cup Destroying,
           op : {"none", "alloc", "free"}, pool : Pools \cup {NoPool},
           old : Pools \cup {NoPool}, c : CacheIds \cup {NoCache},
           buf : Buffers \cup {NoBuf}, flag : BOOLEAN, list : Seq(CacheIds)]

PoolStates == [stage : {"open", "closing", "gone"}, active_users : Int,
               list : Seq(CacheIds), next_shard : Shards, total : Int]

PoolTypes ==
  /\ pool \in [Pools -> PoolStates]
  /\ bucket \in [Pools -> [Shards -> Seq(Buffers)]]
  /\ cache \in [CacheIds -> Caches]
  /\ structs \subseteq CacheIds /\ live \subseteq Buffers
  /\ held \in [Pools -> SUBSET Buffers]
  /\ tls \in [Users -> CacheIds \cup {NoCache}]
  /\ key \in [Users -> CacheIds \cup {NoCache}]
  /\ at \in [Users -> Locals]

\* What a thread has in its hands.
HandSound(t) ==
  LET a == at[t] IN
  /\ a.pc = "idle" => a = Idle
  /\ a.pc = "exited" => a = [Idle EXCEPT !.pc = "exited"]
  /\ a.pc \in Calling =>
       /\ a.pool \in Pools /\ pool[a.pool].stage = "open" /\ a.op \in {"alloc", "free"}
       /\ a.op = "free" \/ a.pc = "track" => a.buf \in Buffers
       /\ a.op = "alloc" /\ a.pc # "track" => a.buf = NoBuf
       /\ a.pc = "free" => a.op = "free"
       /\ a.pc \in {"alloc", "alloc_shard", "alloc_heap"} => a.op = "alloc"
       /\ a.pc = "lookup" => a.c = NoCache
  /\ a.pc \in Exiting => a.pool = NoPool /\ a.buf = NoBuf
  /\ a.pc \in Destroying =>
       /\ a.pool \in Pools /\ pool[a.pool].stage = "closing"
       /\ a.old = NoPool /\ a.c = NoCache /\ a.buf = NoBuf
       /\ \A u \in Users : at[u].pool = a.pool => u = t
  /\ (a.pc \in Listing) = (a.list # <<>>)

\* The cache a thread is at work on is its own.
WorkSound(t) ==
  LET a == at[t] c == at[t].c IN
  /\ a.pc \in {"alloc", "alloc_shard", "alloc_heap", "free"} /\ c # NoCache =>
       tls[t] = c /\ cache[c].pool = a.pool
  /\ a.pc \in {"switch_lock", "switch_check", "switch_clean", "switch_unlock", "switch_leave"} =>
       c = tls[t] /\ c # NoCache
  /\ a.pc \in {"switch_check", "switch_clean", "switch_unlock"} =>
       cache[c].lock = t /\ cache[c].pool = a.old /\ a.old \in Pools
  /\ a.pc = "switch_leave" => a.old \in Pools
  /\ a.pc \in Exiting =>
       /\ c = key[t] /\ c # NoCache /\ tls[t] = NoCache
       /\ cache[c].lock = t /\ cache[c].exited
  /\ a.pc = "exit_check" => a.old = cache[c].pool
  /\ a.pc = "exit_clean" => a.old = IF a.flag THEN cache[c].pool ELSE NoPool
  /\ a.pc = "exit_clean" /\ a.flag => a.old \in Pools
  /\ a.pc \in {"switch_unlock", "switch_leave", "exit_unlock"} => cache[c].cleaned_up

\* A thread's cache exists and is its own.
RefsSound(t) ==
  /\ tls[t] # NoCache =>
       /\ tls[t] \in structs /\ cache[tls[t]].owner = t /\ ~cache[tls[t]].exited
       /\ cache[tls[t]].cleaned_up /\ cache[tls[t]].pool # NoPool =>
            at[t].pc \in {"switch_unlock", "switch_leave"}
  /\ key[t] # NoCache =>
       /\ key[t] \in structs /\ cache[key[t]].owner = t
       /\ key[t] = tls[t] \/ at[t].pc \in Exiting

\* The caches on the list of a pool are those of the pool.
PoolListSound(p) ==
  LET list == pool[p].list IN
  /\ \A i \in DOMAIN list : list[i] \in structs /\ cache[list[i]].pool = p
  /\ IsInjective(list)
  /\ pool[p].stage = "gone" => list = <<>>

\* So are those on the list its destroyer detached; the one it has in hand has
\* lost its pool.
HandListSound(d) ==
  LET a == at[d] c == Head(at[d].list) IN
  /\ IsInjective(a.list)
  /\ \A i \in DOMAIN a.list : i > 1 \/ a.pc = "take" =>
       a.list[i] \in structs /\ cache[a.list[i]].pool = a.pool
  /\ a.pc \in {"release", "dispose"} /\ c \in structs => cache[c].pool = NoPool
  /\ a.pc = "release" /\ c \in structs => cache[c].lock = d
  /\ a.pc = "dispose" /\ a.flag /\ c \in structs =>
       cache[c].exited /\ \A t \in Users : key[t] # c
  /\ a.pc \in Listing \cup {"shards"} => pool[a.pool].list = <<>>

\* A cache that is disposed of is empty; one with a pool is on a list; of one
\* that its owner has left and that has no pool somebody will free the struct.
CacheSound(c) ==
  /\ cache[c].cleaned_up => cache[c].bufs = <<>>
  /\ cache[c].pool = NoPool => cache[c].cleaned_up
  /\ cache[c].pool # NoPool =>
       \/ \E i \in DOMAIN pool[cache[c].pool].list : pool[cache[c].pool].list[i] = c
       \/ \E d \in Users : /\ at[d].pool = cache[c].pool /\ at[d].pc \in Listing
                          /\ \E i \in DOMAIN at[d].list : at[d].list[i] = c
  /\ cache[c].exited /\ cache[c].pool = NoPool =>
       \/ \E t \in Users : at[t].pc \in Exiting /\ at[t].c = c
       \/ \E d \in Users : /\ at[d].pc = "release" \/ (at[d].pc = "dispose" /\ at[d].flag)
                          /\ Head(at[d].list) = c

TotalsSound ==
  \A p \in Pools : pool[p].stage = "open" => pool[p].total = Cardinality(BuffersOf(p))

StructsInv ==
  /\ PoolTypes
  /\ \A t \in Users : HandSound(t) /\ WorkSound(t) /\ RefsSound(t) /\ HandListSound(t)
  /\ \A p \in Pools : PoolListSound(p)
  /\ \A c \in structs : CacheSound(c)

\* A thread that exits and gives its buffers to the heap without counting them
\* does so in no pool that is open.
ExitSound(t) ==
  LET p == cache[at[t].c].pool IN
  at[t].pc = "exit_clean" /\ ~at[t].flag /\ p \in Pools => pool[p].stage # "open"

PoolInv ==
  /\ StructsInv
  /\ \A t \in Users : ExitSound(t)
  /\ InBounds
  /\ BuffersAtOnePlace
  /\ TotalsSound
=============================================================================
