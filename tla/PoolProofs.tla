----------------------------- MODULE PoolProofs -----------------------------
(***************************************************************************)
(* The buffer pool for every number of threads, pools, caches, shards and  *)
(* buffers, second half: where the buffers are.  PoolInv is inductive and  *)
(* gives PoolSound.                                                        *)
(***************************************************************************)
EXTENDS PoolStructProofs

-----------------------------------------------------------------------------
(* Buffers that move between places.                                       *)

\* f says what is at each place of P, L is everything.
Spread(P, f, L) ==
  /\ \A b : b \in L <=> \E x \in P : b \in f[x]
  /\ \A x, y \in P : x # y => f[x] \cap f[y] = {}

\* From f to f2: the places of X share out what they had, less F and with N.
Shuffled(P, X, f, f2, F, N) ==
  /\ X \subseteq P
  /\ \A x \in P \ X : f2[x] = f[x]
  /\ \A b \in F : \E x \in X : b \in f[x]
  /\ \A b : (\E x \in X : b \in f2[x]) <=> ((\E x \in X : b \in f[x]) /\ b \notin F) \/ b \in N
  /\ \A x, y \in X : x # y => f2[x] \cap f2[y] = {}

\* Everything stays at one place.
LEMMA SpreadMoves ==
  ASSUME NEW P, NEW X, NEW f, NEW f2, NEW L, NEW F, NEW N,
         Spread(P, f, L), Shuffled(P, X, f, f2, F, N), N \cap L = {}
  PROVE  Spread(P, f2, (L \ F) \cup N)
<1>1. \A b : b \in L <=> \E x \in P : b \in f[x]
  BY DEF Spread
<1>2. \A x, y \in P : x # y => f[x] \cap f[y] = {}
  BY DEF Spread
<1>3. X \subseteq P /\ \A x \in P \ X : f2[x] = f[x]
  BY DEF Shuffled
<1>4. \A b \in F : \E x \in X : b \in f[x]
  BY DEF Shuffled
<1>5. \A b : (\E x \in X : b \in f2[x]) <=> ((\E x \in X : b \in f[x]) /\ b \notin F) \/ b \in N
  BY DEF Shuffled
<1>6. \A x, y \in X : x # y => f2[x] \cap f2[y] = {}
  BY DEF Shuffled
<1>7. ASSUME NEW b PROVE b \in (L \ F) \cup N <=> \E x \in P : b \in f2[x]
  <2>1. ASSUME b \in N PROVE \E x \in P : b \in f2[x]
    BY <1>3, <1>5, <2>1
  <2>2. ASSUME b \in L, b \notin F PROVE \E x \in P : b \in f2[x]
    <3>1. PICK x \in P : b \in f[x]
      BY <1>1, <2>2
    <3>2. CASE x \in X
      BY <1>3, <1>5, <2>2, <3>1, <3>2
    <3>3. CASE x \notin X
      BY <1>3, <3>1, <3>3
    <3> QED BY <3>2, <3>3
  <2>3. ASSUME NEW x \in P, b \in f2[x], b \notin N PROVE b \in L /\ b \notin F
    <3>1. CASE x \in X
      <4>1. (\E y \in X : b \in f[y]) /\ b \notin F
        BY <1>5, <2>3, <3>1
      <4> QED BY <1>1, <1>3, <4>1
    <3>2. CASE x \notin X
      <4>1. b \in f[x]
        BY <1>3, <2>3, <3>2
      <4>2. b \notin F
        <5> SUFFICES ASSUME b \in F PROVE FALSE
          OBVIOUS
        <5>1. PICK y \in X : b \in f[y]
          BY <1>4
        <5> QED BY <1>2, <1>3, <3>2, <4>1, <5>1
      <4> QED BY <1>1, <4>1, <4>2
    <3> QED BY <3>1, <3>2
  <2> QED BY <2>1, <2>2, <2>3
<1>8. ASSUME NEW x \in P, NEW y \in X, x \notin X PROVE f2[x] \cap f2[y] = {}
  <2> SUFFICES ASSUME NEW b, b \in f2[x], b \in f2[y] PROVE FALSE
    OBVIOUS
  <2>1. b \in f[x] /\ b \in L
    BY <1>1, <1>3, <1>8
  <2>2. \E z \in X : b \in f[z]
    BY <1>5, <2>1
  <2> QED BY <1>2, <1>3, <1>8, <2>1, <2>2
<1>9. ASSUME NEW x \in P, NEW y \in P, x # y PROVE f2[x] \cap f2[y] = {}
  <2>1. CASE x \in X /\ y \in X
    BY <1>6, <1>9, <2>1
  <2>2. CASE x \notin X /\ y \in X
    BY <1>8, <2>2
  <2>3. CASE x \in X /\ y \notin X
    BY <1>8, <2>3
  <2>4. CASE x \notin X /\ y \notin X
    BY <1>2, <1>3, <1>9, <2>4
  <2> QED BY <2>1, <2>2, <2>3, <2>4
<1> QED BY <1>7, <1>9 DEF Spread

\* The part of it that is of p, g being whose the places are.
Part(P, f, g, p) == UNION {f[x] : x \in {y \in P : g[y] = p}}

\* The elements of a part.
LEMMA PartIs ==
  ASSUME NEW P, NEW f, NEW g, NEW p, NEW b
  PROVE  b \in Part(P, f, g, p) <=> \E x \in P : g[x] = p /\ b \in f[x]
BY DEF Part

\* The places of X are of q where something is, the others of the same as before.
OfOne(P, X, f, f2, g, g2, q) ==
  /\ \A x \in P \ X : g2[x] = g[x] \/ f[x] = {}
  /\ \A x \in X : (g[x] = q \/ f[x] = {}) /\ (g2[x] = q \/ f2[x] = {})

\* Only the part of q changes.
LEMMA PartMoves ==
  ASSUME NEW P, NEW X, NEW f, NEW f2, NEW g, NEW g2, NEW L, NEW F, NEW N, NEW q,
         Spread(P, f, L), Shuffled(P, X, f, f2, F, N), N \cap L = {},
         OfOne(P, X, f, f2, g, g2, q)
  PROVE  /\ \A p : p # q => Part(P, f2, g2, p) = Part(P, f, g, p)
         /\ Part(P, f2, g2, q) = (Part(P, f, g, q) \ F) \cup N
         /\ F \subseteq Part(P, f, g, q) /\ N \cap Part(P, f, g, q) = {}
<1>1. \A b : b \in L <=> \E x \in P : b \in f[x]
  BY DEF Spread
<1>2. \A x, y \in P : x # y => f[x] \cap f[y] = {}
  BY DEF Spread
<1>3. X \subseteq P /\ \A x \in P \ X : f2[x] = f[x]
  BY DEF Shuffled
<1>4. \A b \in F : \E x \in X : b \in f[x]
  BY DEF Shuffled
<1>5. \A b : (\E x \in X : b \in f2[x]) <=> ((\E x \in X : b \in f[x]) /\ b \notin F) \/ b \in N
  BY DEF Shuffled
<1>6. \A x \in P \ X : \A b : b \in f2[x] <=> b \in f[x]
  BY <1>3
<1>7. \A x \in P \ X : f[x] # {} => g2[x] = g[x]
  BY DEF OfOne
<1>12. \A x \in X : (g[x] = q \/ f[x] = {}) /\ (g2[x] = q \/ f2[x] = {})
  BY DEF OfOne
<1>8. ASSUME NEW p, p # q PROVE Part(P, f2, g2, p) = Part(P, f, g, p)
  <2> SUFFICES ASSUME NEW b PROVE b \in Part(P, f2, g2, p) <=> b \in Part(P, f, g, p)
    OBVIOUS
  <2>1. ASSUME NEW x \in P, g2[x] = p, b \in f2[x] PROVE x \notin X /\ g[x] = p /\ b \in f[x]
    BY <1>6, <1>7, <1>8, <1>12, <2>1
  <2>2. ASSUME NEW x \in P, g[x] = p, b \in f[x] PROVE x \notin X /\ g2[x] = p /\ b \in f2[x]
    BY <1>6, <1>7, <1>8, <1>12, <2>2
  <2> QED BY <2>1, <2>2, PartIs
<1>9. F \subseteq Part(P, f, g, q)
  BY <1>3, <1>4, <1>12, PartIs
<1>10. N \cap Part(P, f, g, q) = {}
  BY <1>1, PartIs
<1>11. Part(P, f2, g2, q) = (Part(P, f, g, q) \ F) \cup N
  <2> SUFFICES ASSUME NEW b PROVE b \in Part(P, f2, g2, q) <=> (b \in Part(P, f, g, q) /\ b \notin F) \/ b \in N
    OBVIOUS
  <2>1. ASSUME NEW x \in P, g2[x] = q, b \in f2[x], b \notin N PROVE b \notin F /\ \E y \in P : g[y] = q /\ b \in f[y]
    <3>1. CASE x \in X
      <4>1. (\E y \in X : b \in f[y]) /\ b \notin F
        BY <1>5, <2>1, <3>1
      <4> QED BY <1>3, <1>12, <4>1
    <3>2. CASE x \notin X
      <4>1. b \in f[x] /\ g[x] = q
        BY <1>6, <1>7, <2>1, <3>2
      <4>2. b \notin F
        <5> SUFFICES ASSUME b \in F PROVE FALSE
          OBVIOUS
        <5>1. PICK y \in X : b \in f[y]
          BY <1>4
        <5> QED BY <1>2, <1>3, <3>2, <4>1, <5>1
      <4> QED BY <4>1, <4>2
    <3> QED BY <3>1, <3>2
  <2>2. ASSUME NEW x \in P, g[x] = q, b \in f[x], b \notin F PROVE \E y \in P : g2[y] = q /\ b \in f2[y]
    <3>1. CASE x \in X
      <4>1. PICK y \in X : b \in f2[y]
        BY <1>5, <2>2, <3>1
      <4> QED BY <1>3, <1>12, <4>1
    <3>2. CASE x \notin X
      BY <1>6, <1>7, <2>2, <3>2
    <3> QED BY <3>1, <3>2
  <2>3. ASSUME b \in N PROVE \E y \in P : g2[y] = q /\ b \in f2[y]
    <3>1. PICK y \in X : b \in f2[y]
      BY <1>5, <2>3
    <3> QED BY <1>3, <1>12, <3>1
  <2> QED BY <2>1, <2>2, <2>3, PartIs
<1> QED BY <1>8, <1>9, <1>10, <1>11

\* The number of buffers changes by what came and went.
LEMMA CountMoves ==
  ASSUME PoolConstants, NEW S \in SUBSET Buffers, NEW F, NEW N \in SUBSET Buffers, F \subseteq S, N \cap S = {}
  PROVE  Cardinality((S \ F) \cup N) = Cardinality(S) - Cardinality(F) + Cardinality(N)
<1>1. IsFiniteSet(S) /\ IsFiniteSet(F) /\ IsFiniteSet(N) /\ IsFiniteSet(S \ F)
      /\ Cardinality(S) \in Nat /\ Cardinality(F) \in Nat /\ Cardinality(N) \in Nat
  BY Finite
<1>2. S \cap F = F
  OBVIOUS
<1>3. Cardinality(S \ F) = Cardinality(S) - Cardinality(F)
  BY <1>1, <1>2, FS_Difference
<1>4. (S \ F) \cap N = {}
  OBVIOUS
<1>5. Cardinality((S \ F) \cup N) = Cardinality(S \ F) + Cardinality(N) - Cardinality((S \ F) \cap N)
  BY <1>1, FS_Union
<1>6. Cardinality((S \ F) \cap N) = 0
  BY <1>4, FS_EmptySet
<1> QED BY <1>1, <1>3, <1>5, <1>6

-----------------------------------------------------------------------------
\* No buffer is twice at the same place.
Orderly ==
  /\ \A c \in structs : IsInjective(cache[c].bufs)
  /\ \A p \in Pools, s \in Shards : IsInjective(bucket[p][s])

\* BuffersAtOnePlace is Spread, now
LEMMA SpreadIs ==
  ASSUME NEW f, f = [x \in Places |-> Content(x)]
  PROVE  BuffersAtOnePlace <=> Spread(Places, f, live) /\ Orderly
<1>1. \A x \in Places : f[x] = Content(x)
  OBVIOUS
<1>2. (live = UNION {Content(x) : x \in Places}) <=> \A b : b \in live <=> \E x \in Places : b \in f[x]
  BY <1>1
<1>3. (\A x, y \in Places : x # y => Content(x) \cap Content(y) = {})
        <=> (\A x, y \in Places : x # y => f[x] \cap f[y] = {})
  BY <1>1
<1> QED BY <1>2, <1>3 DEF BuffersAtOnePlace, Spread, Orderly

\* and after the step.
LEMMA SpreadIsNext ==
  ASSUME NEW f, f = [x \in Places |-> Content(x)']
  PROVE  BuffersAtOnePlace' <=> Spread(Places, f, live') /\ Orderly'
<1>1. \A x \in Places : f[x] = Content(x)'
  OBVIOUS
<1>2. (live' = UNION {Content(x)' : x \in Places}) <=> \A b : b \in live' <=> \E x \in Places : b \in f[x]
  BY <1>1
<1>3. (\A x, y \in Places : x # y => Content(x)' \cap Content(y)' = {})
        <=> (\A x, y \in Places : x # y => f[x] \cap f[y] = {})
  BY <1>1
<1> QED BY <1>2, <1>3 DEF BuffersAtOnePlace, Spread, Orderly

\* A step shares out, among the places X of the pool q, what they had less F
\* and with N.
Reshuffled(X, q, F, N) ==
  /\ X \subseteq Places
  /\ \A x \in Places \ X : Content(x)' = Content(x) /\ (PoolAt(x)' = PoolAt(x) \/ Content(x) = {})
  /\ \A x \in X : (PoolAt(x) = q \/ Content(x) = {}) /\ (PoolAt(x)' = q \/ Content(x)' = {})
  /\ \A b \in F : \E x \in X : b \in Content(x)
  /\ \A b : (\E x \in X : b \in Content(x)') <=> ((\E x \in X : b \in Content(x)) /\ b \notin F) \/ b \in N
  /\ \A x, y \in X : x # y => Content(x)' \cap Content(y)' = {}

\* The count of q follows, where it still matters.
Counted(q, F, N) ==
  \A p \in Pools : pool'[p].stage = "open" =>
    /\ pool[p].stage = "open"
    /\ pool'[p].total = IF p = q THEN pool[p].total - Cardinality(F) + Cardinality(N) ELSE pool[p].total

\* Such a step keeps every buffer at one place and the totals exact.
LEMMA MovesKeep ==
  ASSUME PoolConstants, PoolTypes, BuffersAtOnePlace, TotalsSound, NEW X, NEW q,
         NEW F \in SUBSET Buffers, NEW N \in SUBSET Buffers,
         Reshuffled(X, q, F, N), live' = (live \ F) \cup N, N \cap live = {}, Orderly', Counted(q, F, N)
  PROVE  BuffersAtOnePlace' /\ TotalsSound'
<1>0. X \subseteq Places
  BY DEF Reshuffled
<1>1. PICK f : f = [x \in Places |-> Content(x)]
  OBVIOUS
<1>2. PICK f2 : f2 = [x \in Places |-> Content(x)']
  OBVIOUS
<1>3. PICK g : g = [x \in Places |-> PoolAt(x)]
  OBVIOUS
<1>4. PICK g2 : g2 = [x \in Places |-> PoolAt(x)']
  OBVIOUS
<1>5. \A x \in Places : f[x] = Content(x) /\ f2[x] = Content(x)' /\ g[x] = PoolAt(x) /\ g2[x] = PoolAt(x)'
  BY <1>1, <1>2, <1>3, <1>4
<1>6. Spread(Places, f, live)
  BY <1>1, SpreadIs
<1>7. Shuffled(Places, X, f, f2, F, N)
  <2>1. \A x \in X : f[x] = Content(x) /\ f2[x] = Content(x)'
    BY <1>0, <1>5
  <2>2. \A x \in Places \ X : f2[x] = f[x]
    BY <1>5 DEF Reshuffled
  <2>3. \A b \in F : \E x \in X : b \in f[x]
    BY <2>1 DEF Reshuffled
  <2>4. ASSUME NEW b
        PROVE  (\E x \in X : b \in f2[x]) <=> ((\E x \in X : b \in f[x]) /\ b \notin F) \/ b \in N
    BY <2>1 DEF Reshuffled
  <2>5. \A x, y \in X : x # y => f2[x] \cap f2[y] = {}
    BY <2>1 DEF Reshuffled
  <2> QED BY <1>0, <2>2, <2>3, <2>4, <2>5 DEF Shuffled
<1>8. BuffersAtOnePlace'
  <2>1. Spread(Places, f2, (live \ F) \cup N)
    BY <1>6, <1>7, SpreadMoves
  <2> QED BY <1>2, <2>1, SpreadIsNext
<1>9. \A p : BuffersOf(p) = Part(Places, f, g, p)
  <2> SUFFICES ASSUME NEW p PROVE BuffersOf(p) = Part(Places, f, g, p)
    OBVIOUS
  <2>1. {y \in Places : PoolAt(y) = p} = {y \in Places : g[y] = p}
    BY <1>5
  <2>2. \A x \in {y \in Places : g[y] = p} : Content(x) = f[x]
    BY <1>5
  <2> QED BY <2>1, <2>2 DEF BuffersOf, Part
<1>10. \A p : BuffersOf(p)' = Part(Places, f2, g2, p)
  <2> SUFFICES ASSUME NEW p PROVE BuffersOf(p)' = Part(Places, f2, g2, p)
    OBVIOUS
  <2>1. {y \in Places : PoolAt(y)' = p} = {y \in Places : g2[y] = p}
    BY <1>5
  <2>2. \A x \in {y \in Places : g2[y] = p} : Content(x)' = f2[x]
    BY <1>5
  <2> QED BY <2>1, <2>2 DEF BuffersOf, Part
<1>11. /\ \A p : p # q => Part(Places, f2, g2, p) = Part(Places, f, g, p)
       /\ Part(Places, f2, g2, q) = (Part(Places, f, g, q) \ F) \cup N
       /\ F \subseteq Part(Places, f, g, q) /\ N \cap Part(Places, f, g, q) = {}
  <2>1. \A x \in Places \ X : g2[x] = g[x] \/ f[x] = {}
    BY <1>5 DEF Reshuffled
  <2>2. \A x \in X : (g[x] = q \/ f[x] = {}) /\ (g2[x] = q \/ f2[x] = {})
    BY <1>0, <1>5 DEF Reshuffled
  <2>3. N \cap live = {}
    OBVIOUS
  <2>4. OfOne(Places, X, f, f2, g, g2, q)
    BY <2>1, <2>2 DEF OfOne
  <2> QED BY <1>6, <1>7, <2>3, <2>4, PartMoves
<1>12. TotalsSound'
  <2> SUFFICES ASSUME NEW p \in Pools, pool'[p].stage = "open" PROVE pool'[p].total = Cardinality(BuffersOf(p)')
    BY DEF TotalsSound
  <2>0. /\ pool[p].stage = "open"
        /\ pool'[p].total = IF p = q THEN pool[p].total - Cardinality(F) + Cardinality(N) ELSE pool[p].total
    BY DEF Counted
  <2>1. pool[p].total = Cardinality(BuffersOf(p))
    BY <2>0 DEF TotalsSound
  <2>2. CASE p # q
    BY <1>9, <1>10, <1>11, <2>0, <2>1, <2>2
  <2>3. CASE p = q
    <3>1. PICK S : S = BuffersOf(q)
      OBVIOUS
    <3>2. BuffersOf(q)' = (S \ F) \cup N /\ F \subseteq S /\ N \cap S = {}
      BY <1>9, <1>10, <1>11, <3>1
    <3>3. S \subseteq Buffers
      <4>1. S = Part(Places, f, g, q)
        BY <1>9, <3>1
      <4>2. \A b \in S : \E x \in Places : b \in f[x]
        BY <4>1, PartIs
      <4>3. \A b \in S : b \in live
        BY <1>6, <4>2 DEF Spread
      <4> QED BY <4>3 DEF PoolTypes
    <3>4. Cardinality((S \ F) \cup N) = Cardinality(S) - Cardinality(F) + Cardinality(N)
      BY <3>2, <3>3, CountMoves
    <3> QED BY <2>0, <2>1, <2>3, <3>1, <3>2, <3>4
  <2> QED BY <2>2, <2>3
<1> QED BY <1>8, <1>12

-----------------------------------------------------------------------------
(* The places by kind.                                                     *)

\* The buffers in a cache that exists.
CacheContent(c) == IF c \in structs THEN ToSetOf(cache[c].bufs) ELSE {}

\* The places are of four kinds.
LEMMA PlaceKinds ==
  /\ \A p \in Pools : <<"app", p>> \in Places
  /\ \A t \in Users : <<"hand", t>> \in Places
  /\ \A c \in CacheIds : <<"cache", c>> \in Places
  /\ \A p \in Pools, s \in Shards : <<"shard", <<p, s>>>> \in Places
  /\ \A x \in Places : \/ \E p \in Pools : x = <<"app", p>>
                       \/ \E t \in Users : x = <<"hand", t>>
                       \/ \E c \in CacheIds : x = <<"cache", c>>
                       \/ \E p \in Pools, s \in Shards : x = <<"shard", <<p, s>>>>
BY DEF Places

\* What is at each, now
LEMMA PlaceHas ==
  /\ \A p : Content(<<"app", p>>) = held[p] /\ PoolAt(<<"app", p>>) = p
  /\ \A t : Content(<<"hand", t>>) = {at[t].buf} \ {NoBuf} /\ PoolAt(<<"hand", t>>) = at[t].pool
  /\ \A c : Content(<<"cache", c>>) = CacheContent(c) /\ PoolAt(<<"cache", c>>) = cache[c].pool
  /\ \A p, s : Content(<<"shard", <<p, s>>>>) = ToSetOf(bucket[p][s]) /\ PoolAt(<<"shard", <<p, s>>>>) = p
BY DEF Content, PoolAt, CacheContent

\* and after the step.
LEMMA PlaceHasNext ==
  /\ \A p : Content(<<"app", p>>)' = held'[p] /\ PoolAt(<<"app", p>>)' = p
  /\ \A t : Content(<<"hand", t>>)' = {at'[t].buf} \ {NoBuf} /\ PoolAt(<<"hand", t>>)' = at'[t].pool
  /\ \A c : Content(<<"cache", c>>)' = CacheContent(c)' /\ PoolAt(<<"cache", c>>)' = cache'[c].pool
  /\ \A p, s : Content(<<"shard", <<p, s>>>>)' = ToSetOf(bucket'[p][s]) /\ PoolAt(<<"shard", <<p, s>>>>)' = p
BY DEF Content, PoolAt, CacheContent

\* Two different places have nothing in common, and everything is live.
LEMMA Apart ==
  ASSUME BuffersAtOnePlace
  PROVE  /\ \A x \in Places : Content(x) \subseteq live
         /\ \A x, y \in Places : x # y => Content(x) \cap Content(y) = {}
         /\ Orderly
BY DEF BuffersAtOnePlace, Orderly

-----------------------------------------------------------------------------
\* What is in the hand of t; NoUser stands for no hand at all.
Hand(t) == IF t \in Users THEN {at[t].buf} \ {NoBuf} ELSE {}

\* A, H, C and S: with the application, in the hand, in the cache, in the shard.
Divided(A, H, C, S) ==
  A \cap H = {} /\ A \cap C = {} /\ A \cap S = {} /\ H \cap C = {} /\ H \cap S = {} /\ C \cap S = {}

\* What the step leaves alone: all but the application's buffers of q, the
\* hand of t, the cache c and the shard s of q.
Elsewhere(q, t, c, s) ==
  /\ \A p \in Pools \ {q} : held'[p] = held[p]
  /\ \A u \in Users \ {t} : at'[u].buf = at[u].buf /\ at'[u].pool = at[u].pool
  /\ \A d \in CacheIds \ {c} : /\ CacheContent(d)' = CacheContent(d)
                               /\ cache'[d].pool = cache[d].pool \/ CacheContent(d) = {}
  /\ \A p \in Pools, r \in Shards : p # q \/ r # s => bucket'[p][r] = bucket[p][r]

\* These four are of q, where something is.
OfPool(q, t, c) ==
  /\ at[t].pool = q \/ Hand(t) = {}
  /\ at'[t].pool = q \/ Hand(t)' = {}
  /\ cache[c].pool = q \/ CacheContent(c) = {}
  /\ cache'[c].pool = q \/ CacheContent(c)' = {}

\* The four places a step works on have nothing in common.
LEMMA Four ==
  ASSUME BuffersAtOnePlace, PoolTypes, PoolConstants, NEW q \in Pools, NEW t \in Users \cup {NoUser}, NEW c \in CacheIds \cup {NoCache}, NEW s \in Shards
  PROVE  /\ Divided(held[q], Hand(t), CacheContent(c), ToSetOf(bucket[q][s]))
         /\ held[q] \subseteq live /\ Hand(t) \subseteq live /\ CacheContent(c) \subseteq live /\ ToSetOf(bucket[q][s]) \subseteq live
<1>1. \A x \in Places : Content(x) \subseteq live
  BY Apart
<1>2. \A x, y \in Places : x # y => Content(x) \cap Content(y) = {}
  BY Apart
<1>3. PICK a, h, k, l : a = <<"app", q>> /\ h = <<"hand", t>> /\ k = <<"cache", c>> /\ l = <<"shard", <<q, s>>>>
  OBVIOUS
<1>4. a # h /\ a # k /\ a # l /\ h # k /\ h # l /\ k # l
  BY <1>3
<1>5. a \in Places /\ l \in Places /\ Content(a) = held[q] /\ Content(l) = ToSetOf(bucket[q][s])
  BY <1>3, PlaceKinds, PlaceHas
<1>6. Hand(t) = {} \/ (h \in Places /\ Content(h) = Hand(t))
  BY <1>3, PlaceKinds, PlaceHas DEF Hand
<1>7. CacheContent(c) = {} \/ (k \in Places /\ Content(k) = CacheContent(c))
  <2>1. c \notin CacheIds => CacheContent(c) = {}
    BY DEF CacheContent, PoolTypes
  <2> QED BY <1>3, <2>1, PlaceKinds, PlaceHas
<1>8. /\ held[q] \subseteq live /\ Hand(t) \subseteq live
      /\ CacheContent(c) \subseteq live /\ ToSetOf(bucket[q][s]) \subseteq live
  BY <1>1, <1>5, <1>6, <1>7
<1>9. held[q] \cap Hand(t) = {} /\ held[q] \cap CacheContent(c) = {} /\ held[q] \cap ToSetOf(bucket[q][s]) = {}
  BY <1>2, <1>4, <1>5, <1>6, <1>7
<1>10. Hand(t) \cap CacheContent(c) = {} /\ Hand(t) \cap ToSetOf(bucket[q][s]) = {}
       /\ CacheContent(c) \cap ToSetOf(bucket[q][s]) = {}
  BY <1>2, <1>4, <1>5, <1>6, <1>7
<1> QED BY <1>8, <1>9, <1>10 DEF Divided

\* A step that shares out their buffers anew.
LEMMA Transfer ==
  ASSUME PoolConstants, PoolTypes, PoolTypes', BuffersAtOnePlace, TotalsSound,
         NEW q \in Pools, NEW t \in Users \cup {NoUser}, NEW c \in CacheIds \cup {NoCache}, NEW s \in Shards,
         NEW F \in SUBSET Buffers, NEW N \in SUBSET Buffers,
         Elsewhere(q, t, c, s), OfPool(q, t, c),
         NEW A, NEW H, NEW C, NEW S, A = held'[q], H = Hand(t)', C = CacheContent(c)', S = ToSetOf(bucket'[q][s]),
         Divided(A, H, C, S),
         F \subseteq held[q] \cup Hand(t) \cup CacheContent(c) \cup ToSetOf(bucket[q][s]),
         A \cup H \cup C \cup S =
           ((held[q] \cup Hand(t) \cup CacheContent(c) \cup ToSetOf(bucket[q][s])) \ F) \cup N,
         live' = (live \ F) \cup N, N \cap live = {}, Orderly', Counted(q, F, N)
  PROVE  BuffersAtOnePlace' /\ TotalsSound'
<1>1. PICK a : a = <<"app", q>>
  OBVIOUS
<1>2. PICK h : h = <<"hand", t>>
  OBVIOUS
<1>3. PICK k : k = <<"cache", c>>
  OBVIOUS
<1>4. PICK l : l = <<"shard", <<q, s>>>>
  OBVIOUS
<1>5. PICK X : X = {a, l} \cup (IF t \in Users THEN {h} ELSE {}) \cup (IF c \in CacheIds THEN {k} ELSE {})
  OBVIOUS
<1>6. X \subseteq Places
  BY <1>1, <1>2, <1>3, <1>4, <1>5, PlaceKinds
<1>7. a # h /\ a # k /\ a # l /\ h # k /\ h # l /\ k # l
  BY <1>1, <1>2, <1>3, <1>4
<1>8. /\ Content(a) = held[q] /\ (t \in Users => Content(h) = Hand(t)) /\ Content(k) = CacheContent(c) /\ Content(l) = ToSetOf(bucket[q][s])
      /\ PoolAt(a) = q /\ PoolAt(h) = at[t].pool /\ PoolAt(k) = cache[c].pool /\ PoolAt(l) = q
  BY <1>1, <1>2, <1>3, <1>4, PlaceHas DEF Hand
<1>9. /\ Content(a)' = A /\ (t \in Users => Content(h)' = H) /\ Content(k)' = C /\ Content(l)' = S
      /\ PoolAt(a)' = q /\ PoolAt(h)' = at'[t].pool /\ PoolAt(k)' = cache'[c].pool /\ PoolAt(l)' = q
  BY <1>1, <1>2, <1>3, <1>4, PlaceHasNext DEF Hand
<1>10. /\ c \notin CacheIds => CacheContent(c) = {} /\ C = {}
       /\ t \notin Users => Hand(t) = {} /\ H = {}
  BY DEF CacheContent, PoolTypes, Hand
<1>11. ASSUME NEW x \in Places \ X PROVE Content(x)' = Content(x) /\ (PoolAt(x)' = PoolAt(x) \/ Content(x) = {})
  <2>1. CASE \E p \in Pools : x = <<"app", p>>
    <3>1. PICK p \in Pools : x = <<"app", p>>
      BY <2>1
    <3>2. p # q
      BY <1>1, <1>5, <1>11, <3>1
    <3>3. held'[p] = held[p]
      BY <3>2 DEF Elsewhere
    <3> QED BY <3>1, <3>3, PlaceHas, PlaceHasNext
  <2>2. CASE \E u \in Users : x = <<"hand", u>>
    <3>1. PICK u \in Users : x = <<"hand", u>>
      BY <2>2
    <3>2. u # t
      BY <1>2, <1>5, <1>11, <3>1
    <3>3. at'[u].buf = at[u].buf /\ at'[u].pool = at[u].pool
      BY <3>2 DEF Elsewhere
    <3>4. Content(x) = {at[u].buf} \ {NoBuf} /\ PoolAt(x) = at[u].pool
      BY <3>1, PlaceHas
    <3>5. Content(x)' = {at'[u].buf} \ {NoBuf} /\ PoolAt(x)' = at'[u].pool
      BY <3>1, PlaceHasNext
    <3> QED BY <3>3, <3>4, <3>5
  <2>3. CASE \E d \in CacheIds : x = <<"cache", d>>
    <3>1. PICK d \in CacheIds : x = <<"cache", d>>
      BY <2>3
    <3>2. d # c
      BY <1>3, <1>5, <1>11, <3>1
    <3>3. CacheContent(d)' = CacheContent(d) /\ (cache'[d].pool = cache[d].pool \/ CacheContent(d) = {})
      BY <3>2 DEF Elsewhere
    <3> QED BY <3>1, <3>3, PlaceHas, PlaceHasNext
  <2>4. CASE \E p \in Pools, r \in Shards : x = <<"shard", <<p, r>>>>
    <3>1. PICK p \in Pools, r \in Shards : x = <<"shard", <<p, r>>>>
      BY <2>4
    <3>2. p # q \/ r # s
      BY <1>4, <1>5, <1>11, <3>1
    <3>3. bucket'[p][r] = bucket[p][r]
      BY <3>2 DEF Elsewhere
    <3> QED BY <3>1, <3>3, PlaceHas, PlaceHasNext
  <2> QED BY <2>1, <2>2, <2>3, <2>4, PlaceKinds
<1>12. \A x \in X : (PoolAt(x) = q \/ Content(x) = {}) /\ (PoolAt(x)' = q \/ Content(x)' = {})
  <2>1. /\ t \in Users => PoolAt(h) = q \/ Content(h) = {}
        /\ t \in Users => PoolAt(h)' = q \/ Content(h)' = {}
        /\ PoolAt(k) = q \/ Content(k) = {}
        /\ PoolAt(k)' = q \/ Content(k)' = {}
    BY <1>8, <1>9 DEF OfPool
  <2>2. \A x \in X : x \in {a, k, l} \/ (x = h /\ t \in Users)
    BY <1>5
  <2> QED BY <1>8, <1>9, <2>1, <2>2
<1>13. \A b : (\E x \in X : b \in Content(x)) <=> b \in held[q] \cup Hand(t) \cup CacheContent(c) \cup ToSetOf(bucket[q][s])
  <2> SUFFICES ASSUME NEW b
               PROVE  (\E x \in X : b \in Content(x)) <=> b \in Content(a) \/ b \in Hand(t) \/ b \in Content(k) \/ b \in Content(l)
    BY <1>8
  <2>1. c \notin CacheIds => Content(k) = {}
    BY <1>8, <1>10
  <2> QED BY <1>5, <1>8, <1>10, <2>1
<1>14. \A b : (\E x \in X : b \in Content(x)') <=> b \in A \cup H \cup C \cup S
  <2> SUFFICES ASSUME NEW b
               PROVE  (\E x \in X : b \in Content(x)') <=> b \in Content(a)' \/ b \in H \/ b \in Content(k)' \/ b \in Content(l)'
    BY <1>9
  <2>1. c \notin CacheIds => Content(k)' = {}
    BY <1>9, <1>10
  <2> QED BY <1>5, <1>9, <1>10, <2>1
<1>15. \A b \in F : \E x \in X : b \in Content(x)
  BY <1>13
<1>16. \A b : (\E x \in X : b \in Content(x)') <=> ((\E x \in X : b \in Content(x)) /\ b \notin F) \/ b \in N
  BY <1>13, <1>14
<1>17. \A x, y \in X : x # y => Content(x)' \cap Content(y)' = {}
  <2>1. /\ Content(a)' \cap H = {} /\ Content(a)' \cap Content(k)' = {} /\ Content(a)' \cap Content(l)' = {}
        /\ H \cap Content(k)' = {} /\ H \cap Content(l)' = {} /\ Content(k)' \cap Content(l)' = {}
    BY <1>9 DEF Divided
  <2>2. \A x \in X : x \in {a, k, l} \/ (x = h /\ Content(h)' = H)
    BY <1>5, <1>9
  <2> QED BY <2>1, <2>2
<1>18. Reshuffled(X, q, F, N)
  BY <1>6, <1>11, <1>12, <1>15, <1>16, <1>17 DEF Reshuffled
<1> QED BY <1>18, MovesKeep

\* Nothing moves.
LEMMA QuietKeeps ==
  ASSUME PoolConstants, PoolTypes, PoolTypes', BuffersAtOnePlace, TotalsSound,
         UNCHANGED <<bucket, held, live>>,
         \A u \in Users : at'[u].buf = at[u].buf /\ (at'[u].pool = at[u].pool \/ Hand(u) = {}),
         \A d \in CacheIds : /\ CacheContent(d)' = CacheContent(d)
                             /\ cache'[d].pool = cache[d].pool \/ CacheContent(d) = {},
         Orderly',
         \A p \in Pools : pool'[p].stage = "open" => pool[p].stage = "open" /\ pool'[p].total = pool[p].total
  PROVE  BuffersAtOnePlace' /\ TotalsSound'
<1>1. ASSUME NEW x \in Places PROVE Content(x)' = Content(x) /\ (PoolAt(x)' = PoolAt(x) \/ Content(x) = {})
  <2>1. CASE \E p \in Pools : x = <<"app", p>>
    BY <2>1, PlaceHas, PlaceHasNext
  <2>2. CASE \E u \in Users : x = <<"hand", u>>
    <3>1. PICK u \in Users : x = <<"hand", u>>
      BY <2>2
    <3>2. Content(x)' = {at'[u].buf} \ {NoBuf} /\ Content(x) = Hand(u) /\ PoolAt(x)' = at'[u].pool /\ PoolAt(x) = at[u].pool
      BY <3>1, PlaceHas, PlaceHasNext DEF Hand
    <3>3. at'[u].buf = at[u].buf /\ (at'[u].pool = at[u].pool \/ Hand(u) = {})
      OBVIOUS
    <3> QED BY <3>2, <3>3 DEF Hand
  <2>3. CASE \E d \in CacheIds : x = <<"cache", d>>
    <3>1. PICK d \in CacheIds : x = <<"cache", d>>
      BY <2>3
    <3> QED BY <3>1, PlaceHas, PlaceHasNext
  <2>4. CASE \E p \in Pools, r \in Shards : x = <<"shard", <<p, r>>>>
    BY <2>4, PlaceHas, PlaceHasNext
  <2> QED BY <2>1, <2>2, <2>3, <2>4, PlaceKinds
<1>2. PICK X : X = {}
  OBVIOUS
<1>3. PICK q : q \notin Pools
  BY DEF PoolConstants
<1>4. PICK F : F = {}
  OBVIOUS
<1>5. /\ F \in SUBSET Buffers /\ X \subseteq Places /\ live' = (live \ F) \cup F /\ F \cap live = {}
  BY <1>2, <1>4
<1>6. /\ \A x \in X : (PoolAt(x) = q \/ Content(x) = {}) /\ (PoolAt(x)' = q \/ Content(x)' = {})
      /\ \A b \in F : \E x \in X : b \in Content(x)
      /\ \A b : (\E x \in X : b \in Content(x)') <=> ((\E x \in X : b \in Content(x)) /\ b \notin F) \/ b \in F
      /\ \A x, y \in X : x # y => Content(x)' \cap Content(y)' = {}
  BY <1>2, <1>4
<1>7. Counted(q, F, F)
  BY <1>3 DEF Counted
<1>8. Reshuffled(X, q, F, F)
  BY <1>1, <1>5, <1>6 DEF Reshuffled
<1> QED BY <1>5, <1>7, <1>8, MovesKeep

-----------------------------------------------------------------------------
(* Steps that move no buffer.                                              *)

\* The cache keeps its buffers.
SameStruct(d) == /\ cache'[d].bufs = cache[d].bufs /\ cache'[d].pool = cache[d].pool
                 /\ d \in structs' <=> d \in structs
\* It has none and had none.
EmptyStruct(d) == cache'[d].bufs = <<>> /\ (d \in structs => cache[d].bufs = <<>>)

\* Nobody's hands change.
SameHands == \A u \in Users : at'[u].buf = at[u].buf /\ (at'[u].pool = at[u].pool \/ at[u].buf = NoBuf)
\* No total changes.
SameCounts == \A p \in Pools : pool'[p].stage = "open" => pool[p].stage = "open" /\ pool'[p].total = pool[p].total
\* No cache gains or loses a buffer.
StructsQuiet == \A d \in CacheIds : SameStruct(d) \/ EmptyStruct(d)

\* The empty sequence.
LEMMA EmptyIs == ToSetOf(<<>>) = {} /\ IsInjective(<<>>) /\ Len(<<>>) = 0
BY DEF ToSetOf, IsInjective

\* Such a step changes nothing that is counted.
LEMMA QuietStep ==
  ASSUME PoolConstants, PoolInv, StructsInv', UNCHANGED <<bucket, held, live>>, SameHands, SameCounts, StructsQuiet
  PROVE  InBounds' /\ BuffersAtOnePlace' /\ TotalsSound'
<1>1. PoolTypes /\ PoolTypes' /\ BuffersAtOnePlace /\ TotalsSound /\ InBounds /\ Orderly
  BY Apart DEF PoolInv, StructsInv
<1>2. ASSUME NEW u \in Users PROVE at'[u].buf = at[u].buf /\ (at'[u].pool = at[u].pool \/ Hand(u) = {})
  BY DEF SameHands, Hand
<1>3. ASSUME NEW d \in CacheIds
      PROVE  /\ CacheContent(d)' = CacheContent(d)
             /\ cache'[d].pool = cache[d].pool \/ CacheContent(d) = {}
             /\ d \in structs' => IsInjective(cache'[d].bufs)
             /\ Len(cache'[d].bufs) <= CacheSize
  <2>1. CASE SameStruct(d)
    BY <1>1, <2>1 DEF SameStruct, CacheContent, Orderly, InBounds
  <2>2. CASE EmptyStruct(d)
    <3>1. CacheContent(d) = {} /\ CacheContent(d)' = {}
      BY <2>2, EmptyIs DEF EmptyStruct, CacheContent
    <3>2. Len(cache'[d].bufs) <= CacheSize /\ IsInjective(cache'[d].bufs)
      BY <2>2, EmptyIs DEF EmptyStruct, PoolConstants
    <3> QED BY <3>1, <3>2
  <2> QED BY <2>1, <2>2 DEF StructsQuiet
<1>4. Orderly'
  <2>1. \A d \in structs' : d \in CacheIds
    BY <1>1 DEF PoolTypes
  <2> QED BY <1>1, <1>3, <2>1 DEF Orderly
<1>5. InBounds'
  BY <1>1, <1>3 DEF InBounds
<1>6. ASSUME NEW p \in Pools PROVE pool'[p].stage = "open" => pool[p].stage = "open" /\ pool'[p].total = pool[p].total
  BY DEF SameCounts
<1>7. BuffersAtOnePlace' /\ TotalsSound'
  BY <1>1, <1>2, <1>3, <1>4, <1>6, QuietKeeps
<1> QED BY <1>5, <1>7

-----------------------------------------------------------------------------
(* ExitSound.                                                              *)

\* Caches only lose their pools and pools only leave "open", by a step of t.
Gradual(t) ==
  /\ \A u \in Users \ {t} : at'[u] = at[u]
  /\ \A c \in structs : cache'[c].pool \in {cache[c].pool, NoPool}
  /\ \A p \in Pools : pool[p].stage # "open" => pool'[p].stage # "open"

\* It keeps ExitSound.
LEMMA ExitSoundKept ==
  ASSUME PoolConstants, StructsInv, StructsInv', NEW t \in Users, Gradual(t), at'[t].pc # "exit_clean",
         \A u \in Users : ExitSound(u)
  PROVE  \A u \in Users : ExitSound(u)'
<1> SUFFICES ASSUME NEW u \in Users, at'[u].pc = "exit_clean", ~at'[u].flag, cache'[at'[u].c].pool \in Pools
             PROVE  pool'[cache'[at'[u].c].pool].stage # "open"
  BY DEF ExitSound
<1>1. u # t
  OBVIOUS
<1>2. at'[u] = at[u]
  BY <1>1 DEF Gradual
<1>3. PICK c : c = at[u].c
  OBVIOUS
<1>4. c \in structs
  <2>1. c = key[u] /\ c # NoCache
    BY <1>2, <1>3, Everybody DEF WorkSound, Exiting
  <2> QED BY <2>1, Everybody DEF RefsSound
<1>5. cache'[c].pool = cache[c].pool
  BY <1>2, <1>3, <1>4 DEF Gradual, PoolConstants
<1>6. pool[cache[c].pool].stage # "open" /\ cache[c].pool \in Pools
  BY <1>2, <1>3, <1>5 DEF ExitSound
<1> QED BY <1>2, <1>3, <1>5, <1>6 DEF Gradual

\* Steps that move no buffer are such.
LEMMA QuietGradual ==
  ASSUME PoolConstants, StructsInv, NEW t \in Users,
         \A u \in Users \ {t} : at'[u] = at[u], SameCounts, StructsQuiet,
         \A c \in structs : cache'[c].pool \in {cache[c].pool, NoPool}
  PROVE  Gradual(t)
BY DEF Gradual, SameCounts

-----------------------------------------------------------------------------
\* They keep the invariant.
LEMMA QuietInv ==
  ASSUME PoolConstants, PoolInv, StructsInv', NEW t \in Users, UNCHANGED <<bucket, held, live>>,
         SameHands, SameCounts, StructsQuiet,
         \A u \in Users \ {t} : at'[u] = at[u],
         \A c \in structs : cache'[c].pool \in {cache[c].pool, NoPool},
         at'[t].pc # "exit_clean"
  PROVE  PoolInv'
<1>1. Gradual(t)
  BY QuietGradual DEF PoolInv
<1>2. \A u \in Users : ExitSound(u)'
  BY <1>1, ExitSoundKept DEF PoolInv
<1> QED BY <1>2, QuietStep DEF PoolInv

\* Where the caches are left alone.
LEMMA StillCaches ==
  ASSUME UNCHANGED <<cache, structs>>
  PROVE  StructsQuiet /\ \A c \in structs : cache'[c].pool \in {cache[c].pool, NoPool}
BY DEF StructsQuiet, SameStruct

\* Where the pools are left alone.
LEMMA StillCounts ==
  ASSUME UNCHANGED pool PROVE SameCounts
BY DEF SameCounts

\* The fast path of get_thread_cache: the buffers and the totals.
LEMMA LookupHitKeeps ==
  ASSUME PoolConstants, PoolInv, NEW t \in Users, LookupHit(t)
  PROVE  PoolInv'
<1>1. StructsInv' /\ PoolTypes
  BY LookupHitStruct DEF PoolInv, StructsInv
<1>2. UNCHANGED <<bucket, held, live, cache, structs, pool>>
  BY DEF LookupHit
<1>3. at[t].op # "exit_clean"
  BY <1>1 DEF PoolTypes, Locals
<1>4. SameHands /\ (\A u \in Users \ {t} : at'[u] = at[u]) /\ at'[t].pc # "exit_clean"
  BY <1>1, <1>3 DEF LookupHit, SameHands, PoolTypes, Locals
<1> QED BY <1>1, <1>2, <1>4, StillCaches, StillCounts, QuietInv

\* A thread that finds its cache in another pool: the buffers and the totals.
LEMMA LookupOtherKeeps ==
  ASSUME PoolConstants, PoolInv, NEW t \in Users, LookupOther(t)
  PROVE  PoolInv'
<1>1. StructsInv' /\ PoolTypes
  BY LookupOtherStruct DEF PoolInv, StructsInv
<1>2. UNCHANGED <<bucket, held, live, cache, structs, pool>>
  BY DEF LookupOther
<1>4. SameHands /\ (\A u \in Users \ {t} : at'[u] = at[u]) /\ at'[t].pc # "exit_clean"
  BY <1>1 DEF LookupOther, SameHands, PoolTypes, Locals
<1> QED BY <1>1, <1>2, <1>4, StillCaches, StillCounts, QuietInv

\* The second look at the old pool: the buffers and the totals.
LEMMA SwitchCheckKeeps ==
  ASSUME PoolConstants, PoolInv, NEW t \in Users, SwitchCheck(t)
  PROVE  PoolInv'
<1>1. StructsInv' /\ PoolTypes
  BY SwitchCheckStruct DEF PoolInv, StructsInv
<1>2. UNCHANGED <<bucket, held, live, cache, structs, pool>>
  BY DEF SwitchCheck
<1>4. SameHands /\ (\A u \in Users \ {t} : at'[u] = at[u]) /\ at'[t].pc # "exit_clean"
  BY <1>1 DEF SwitchCheck, SameHands, PoolTypes, Locals
<1> QED BY <1>1, <1>2, <1>4, StillCaches, StillCounts, QuietInv

\* The exit of a thread without a cache: the buffers and the totals.
LEMMA ExitPlainKeeps ==
  ASSUME PoolConstants, PoolInv, NEW t \in Users, ExitPlain(t)
  PROVE  PoolInv'
<1>1. StructsInv' /\ PoolTypes
  BY ExitPlainStruct DEF PoolInv, StructsInv
<1>2. UNCHANGED <<bucket, held, live, cache, structs, pool>>
  BY DEF ExitPlain
<1>4. SameHands /\ (\A u \in Users \ {t} : at'[u] = at[u]) /\ at'[t].pc # "exit_clean"
  BY <1>1 DEF ExitPlain, SameHands, PoolTypes, Locals
<1> QED BY <1>1, <1>2, <1>4, StillCaches, StillCounts, QuietInv

\* The end of its phase 1: the buffers and the totals.
LEMMA QuiesceKeeps ==
  ASSUME PoolConstants, PoolInv, NEW t \in Users, Quiesce(t)
  PROVE  PoolInv'
<1>1. StructsInv' /\ PoolTypes
  BY QuiesceStruct DEF PoolInv, StructsInv
<1>2. UNCHANGED <<bucket, held, live, cache, structs, pool>>
  BY DEF Quiesce
<1>4. SameHands /\ (\A u \in Users \ {t} : at'[u] = at[u]) /\ at'[t].pc # "exit_clean"
  BY <1>1 DEF Quiesce, Goto, SameHands, PoolTypes, Locals
<1> QED BY <1>1, <1>2, <1>4, StillCaches, StillCounts, QuietInv

\* The locks, owners and flags of caches change.
LEMMA MarkedCaches ==
  ASSUME structs' = structs, \A d \in CacheIds : cache'[d].bufs = cache[d].bufs /\ cache'[d].pool = cache[d].pool, PoolTypes
  PROVE  StructsQuiet /\ \A c \in structs : cache'[c].pool \in {cache[c].pool, NoPool}
BY DEF StructsQuiet, SameStruct, PoolTypes

\* Unlocking the cache of the old pool: the buffers and the totals.
LEMMA SwitchUnlockKeeps ==
  ASSUME PoolConstants, PoolInv, NEW t \in Users, SwitchUnlock(t)
  PROVE  PoolInv'
<1>1. StructsInv' /\ PoolTypes
  BY SwitchUnlockStruct DEF PoolInv, StructsInv
<1>2. UNCHANGED <<bucket, held, live, structs, pool>>
  BY DEF SwitchUnlock
<1>3. \A d \in CacheIds : cache'[d].bufs = cache[d].bufs /\ cache'[d].pool = cache[d].pool
  BY <1>1 DEF SwitchUnlock, PoolTypes, Caches
<1>4. SameHands /\ (\A u \in Users \ {t} : at'[u] = at[u]) /\ at'[t].pc # "exit_clean"
  BY <1>1 DEF SwitchUnlock, Goto, SameHands, PoolTypes, Locals
<1> QED BY <1>1, <1>2, <1>3, <1>4, MarkedCaches, StillCounts, QuietInv

\* It releases the mutex of the cache: the buffers and the totals.
LEMMA ReleaseCacheKeeps ==
  ASSUME PoolConstants, PoolInv, NEW t \in Users, ReleaseCache(t)
  PROVE  PoolInv'
<1>1. StructsInv' /\ PoolTypes
  BY ReleaseCacheStruct DEF PoolInv, StructsInv
<1>2. UNCHANGED <<bucket, held, live, structs, pool>>
  BY DEF ReleaseCache
<1>3. \A d \in CacheIds : cache'[d].bufs = cache[d].bufs /\ cache'[d].pool = cache[d].pool
  BY <1>1 DEF ReleaseCache, PoolTypes, Caches
<1>4. SameHands /\ (\A u \in Users \ {t} : at'[u] = at[u]) /\ at'[t].pc # "exit_clean"
  BY <1>1 DEF ReleaseCache, SameHands, PoolTypes, Locals
<1> QED BY <1>1, <1>2, <1>3, <1>4, MarkedCaches, StillCounts, QuietInv

\* active_users changes.
LEMMA MarkedPools ==
  ASSUME PoolTypes, NEW p \in Pools \cup {NoPool}, NEW k \in Int,
         pool' = IF p = NoPool THEN pool ELSE [pool EXCEPT ![p].active_users = @ + k]
  PROVE  SameCounts
BY UsersStep DEF SameCounts, SameLists

\* The destructor of a thread locks its cache: the buffers and the totals.
LEMMA ExitLockKeeps ==
  ASSUME PoolConstants, PoolInv, NEW t \in Users, ExitLock(t)
  PROVE  PoolInv'
<1>1. StructsInv' /\ PoolTypes
  BY ExitLockStruct DEF PoolInv, StructsInv
<1>2. UNCHANGED <<bucket, held, live, structs>>
  BY DEF ExitLock
<1>3. \A d \in CacheIds : cache'[d].bufs = cache[d].bufs /\ cache'[d].pool = cache[d].pool
  BY <1>1 DEF ExitLock, PoolTypes, Caches
<1>4. SameHands /\ (\A u \in Users \ {t} : at'[u] = at[u]) /\ at'[t].pc # "exit_clean"
  BY <1>1 DEF ExitLock, SameHands, PoolTypes, Locals
<1>5. SameCounts
  <2>1. key[t] \in CacheIds
    BY <1>1 DEF ExitLock, PoolTypes
  <2>2. cache[key[t]].pool \in Pools \cup {NoPool}
    BY <1>1, <2>1 DEF PoolTypes, Caches
  <2>3. PICK p \in Pools \cup {NoPool} : p = cache[key[t]].pool
    BY <2>2
  <2>4. pool' = IF p = NoPool THEN pool ELSE [pool EXCEPT ![p].active_users = @ + 1]
    BY <2>3 DEF ExitLock
  <2>5. 1 \in Int
    OBVIOUS
  <2> QED BY <1>1, <2>4, <2>5, MarkedPools
<1> QED BY <1>1, <1>2, <1>3, <1>4, <1>5, MarkedCaches, QuietInv

\* Leaving the old pool: the buffers and the totals.
LEMMA SwitchLeaveKeeps ==
  ASSUME PoolConstants, PoolInv, NEW t \in Users, SwitchLeave(t)
  PROVE  PoolInv'
<1>1. StructsInv' /\ PoolTypes
  BY SwitchLeaveStruct DEF PoolInv, StructsInv
<1>2. UNCHANGED <<bucket, held, live, cache, structs>>
  BY DEF SwitchLeave
<1>3. at[t].op # "exit_clean"
  BY <1>1 DEF PoolTypes, Locals
<1>4. SameHands /\ (\A u \in Users \ {t} : at'[u] = at[u]) /\ at'[t].pc # "exit_clean"
  BY <1>1, <1>3 DEF SwitchLeave, SameHands, PoolTypes, Locals
<1>5. SameCounts
  <2>1. at[t].old \in Pools
    BY Everybody DEF PoolInv, WorkSound, SwitchLeave
  <2>2. PICK p \in Pools : p = at[t].old
    BY <2>1
  <2>3. pool[p].active_users - 1 = pool[p].active_users + (-1) /\ -1 \in Int
    BY <1>1 DEF PoolTypes, PoolStates
  <2>4. pool' = IF p = NoPool THEN pool ELSE [pool EXCEPT ![p].active_users = @ + (-1)]
    BY <2>2, <2>3 DEF SwitchLeave, PoolConstants
  <2> QED BY <1>1, <2>3, <2>4, MarkedPools
<1> QED BY <1>1, <1>2, <1>4, <1>5, StillCaches, QuietInv

-----------------------------------------------------------------------------
\* A struct without a pool is freed.
LEMMA FreedStruct ==
  ASSUME StructsInv, NEW c, structs' \in {structs, structs \ {c}}, UNCHANGED cache,
         c \in structs => cache[c].pool = NoPool
  PROVE  StructsQuiet /\ \A d \in structs : cache'[d].pool \in {cache[d].pool, NoPool}
<1>1. c \in structs => cache[c].bufs = <<>>
  BY Everybody DEF CacheSound
<1>2. ASSUME NEW d \in CacheIds PROVE SameStruct(d) \/ EmptyStruct(d)
  <2>1. CASE d # c \/ c \notin structs
    BY <2>1 DEF SameStruct
  <2>2. CASE d = c /\ c \in structs
    BY <1>1, <2>2 DEF EmptyStruct
  <2> QED BY <2>1, <2>2
<1> QED BY <1>2 DEF StructsQuiet

\* The release of an orphaned cache: the buffers and the totals.
LEMMA LookupOrphanKeeps ==
  ASSUME PoolConstants, PoolInv, NEW t \in Users, LookupOrphan(t)
  PROVE  PoolInv'
<1>1. StructsInv' /\ PoolTypes /\ StructsInv
  BY LookupOrphanStruct DEF PoolInv, StructsInv
<1>2. UNCHANGED <<bucket, held, live, pool>>
  BY DEF LookupOrphan
<1>3. at[t].op # "exit_clean"
  BY <1>1 DEF PoolTypes, Locals
<1>4. SameHands /\ (\A u \in Users \ {t} : at'[u] = at[u]) /\ at'[t].pc # "exit_clean"
  BY <1>1, <1>3 DEF LookupOrphan, Goto, SameHands, PoolTypes, Locals
<1>5. UNCHANGED cache /\ structs' = structs \ {tls[t]} /\ cache[tls[t]].pool = NoPool
  BY DEF LookupOrphan
<1>6. structs' \in {structs, structs \ {tls[t]}} /\ (tls[t] \in structs => cache[tls[t]].pool = NoPool)
  BY <1>5
<1> QED BY <1>1, <1>2, <1>4, <1>5, <1>6, FreedStruct, StillCounts, QuietInv

\* Locking the cache to leave its pool: the buffers and the totals.
LEMMA SwitchLockKeeps ==
  ASSUME PoolConstants, PoolInv, NEW t \in Users, SwitchLock(t)
  PROVE  PoolInv'
<1>1. StructsInv' /\ PoolTypes /\ StructsInv
  BY SwitchLockStruct DEF PoolInv, StructsInv
<1>2. UNCHANGED <<bucket, held, live>>
  BY DEF SwitchLock
<1>3. at[t].op # "exit_clean"
  BY <1>1 DEF PoolTypes, Locals
<1>4. SameHands /\ (\A u \in Users \ {t} : at'[u] = at[u]) /\ at'[t].pc # "exit_clean"
  <2>1. CASE cache[at[t].c].pool = NoPool
    <3>1. at' = [at EXCEPT ![t].pc = at[t].op, ![t].c = NoCache]
      BY <2>1 DEF SwitchLock
    <3> QED BY <1>1, <1>3, <3>1 DEF SameHands, PoolTypes, Locals
  <2>2. CASE cache[at[t].c].pool # NoPool
    <3>1. at' = [at EXCEPT ![t].pc = "switch_check", ![t].old = cache[at[t].c].pool]
      BY <2>2 DEF SwitchLock
    <3> QED BY <1>1, <3>1 DEF SameHands, PoolTypes, Locals
  <2> QED BY <2>1, <2>2
<1>5. CASE cache[at[t].c].pool = NoPool
  <2>1. UNCHANGED <<cache, pool>> /\ structs' = structs \ {at[t].c}
    BY <1>5 DEF SwitchLock
  <2>2. structs' \in {structs, structs \ {at[t].c}} /\ (at[t].c \in structs => cache[at[t].c].pool = NoPool)
    BY <1>5, <2>1
  <2> QED BY <1>1, <1>2, <1>4, <2>1, <2>2, FreedStruct, StillCounts, QuietInv
<1>6. CASE cache[at[t].c].pool # NoPool
  <2>1. \A d \in CacheIds : cache'[d].bufs = cache[d].bufs /\ cache'[d].pool = cache[d].pool
    <3>1. cache' = [cache EXCEPT ![at[t].c].lock = t]
      BY <1>6 DEF SwitchLock
    <3> QED BY <1>1, <3>1 DEF PoolTypes, Caches
  <2>2. structs' = structs
    BY <1>6 DEF SwitchLock
  <2>3. SameCounts
    <3>1. at[t].c \in CacheIds
      BY <1>1, Everybody DEF SwitchLock, WorkSound, PoolTypes
    <3>2. cache[at[t].c].pool \in Pools \cup {NoPool}
      BY <1>1, <3>1 DEF PoolTypes, Caches
    <3>3. PICK p \in Pools \cup {NoPool} : p = cache[at[t].c].pool
      BY <3>2
    <3>4. pool' = IF p = NoPool THEN pool ELSE [pool EXCEPT ![p].active_users = @ + 1]
      BY <1>6, <3>3 DEF SwitchLock
    <3>5. 1 \in Int
      OBVIOUS
    <3> QED BY <1>1, <3>4, <3>5, MarkedPools
  <2> QED BY <1>1, <1>2, <1>4, <2>1, <2>2, <2>3, MarkedCaches, QuietInv
<1> QED BY <1>5, <1>6

\* The end of the destructor: the buffers and the totals.
LEMMA ExitUnlockKeeps ==
  ASSUME PoolConstants, PoolInv, NEW t \in Users, ExitUnlock(t)
  PROVE  PoolInv'
<1>1. StructsInv' /\ PoolTypes /\ StructsInv
  BY ExitUnlockStruct DEF PoolInv, StructsInv
<1>2. UNCHANGED <<bucket, held, live>>
  BY DEF ExitUnlock
<1>3. at[t].buf = NoBuf /\ at[t].c = key[t] /\ at[t].c # NoCache
  BY <1>1, Everybody DEF ExitUnlock, HandSound, WorkSound, Exiting
<1>4. SameHands /\ (\A u \in Users \ {t} : at'[u] = at[u]) /\ at'[t].pc # "exit_clean"
  BY <1>1, <1>3 DEF ExitUnlock, SameHands, PoolTypes, Locals, Idle
<1>5. PICK c : c = at[t].c
  OBVIOUS
<1>6. c \in structs
  BY <1>1, <1>3, <1>5, Everybody DEF RefsSound
<1>7. \A d \in CacheIds : cache'[d].bufs = cache[d].bufs /\ cache'[d].pool = cache[d].pool
  BY <1>1 DEF ExitUnlock, PoolTypes, Caches
<1>8. structs' = IF cache[c].pool = NoPool THEN structs \ {c} ELSE structs
  BY <1>5 DEF ExitUnlock
<1>9. cache[c].pool = NoPool => cache[c].bufs = <<>>
  BY <1>1, <1>6, Everybody DEF CacheSound
<1>10. StructsQuiet
  <2> SUFFICES ASSUME NEW d \in CacheIds PROVE SameStruct(d) \/ EmptyStruct(d)
    BY DEF StructsQuiet
  <2>1. CASE d = c /\ cache[c].pool = NoPool
    BY <1>7, <1>9, <2>1 DEF EmptyStruct
  <2>2. CASE d # c \/ cache[c].pool # NoPool
    BY <1>7, <1>8, <2>2 DEF SameStruct
  <2> QED BY <2>1, <2>2
<1>11. \A d \in structs : cache'[d].pool \in {cache[d].pool, NoPool}
  BY <1>1, <1>7 DEF PoolTypes
<1>12. SameCounts
  <2>1. PICK p \in Pools \cup {NoPool} : p = at[t].old
    BY <1>1 DEF PoolTypes, Locals
  <2>2. pool' = IF p = NoPool THEN pool ELSE [pool EXCEPT ![p].active_users = @ - 1]
    BY <2>1 DEF ExitUnlock
  <2>3. p # NoPool => pool[p].active_users - 1 = pool[p].active_users + (-1)
    BY <1>1 DEF PoolTypes, PoolStates
  <2>4. -1 \in Int
    OBVIOUS
  <2>5. pool' = IF p = NoPool THEN pool ELSE [pool EXCEPT ![p].active_users = @ + (-1)]
    BY <2>2, <2>3
  <2> QED BY <1>1, <2>4, <2>5, MarkedPools
<1> QED BY <1>1, <1>2, <1>4, <1>10, <1>11, <1>12, QuietInv

\* The destructor looks at the pool: the buffers and the totals.
LEMMA ExitCheckKeeps ==
  ASSUME PoolConstants, PoolInv, NEW t \in Users, ExitCheck(t)
  PROVE  PoolInv'
<1>1. StructsInv' /\ PoolTypes /\ StructsInv
  BY ExitCheckStruct DEF PoolInv, StructsInv
<1>2. UNCHANGED <<bucket, held, live, cache, structs>>
  BY DEF ExitCheck
<1>3. SameHands /\ (\A u \in Users \ {t} : at'[u] = at[u])
  BY <1>1 DEF ExitCheck, SameHands, PoolTypes, Locals
<1>4. PICK p \in Pools \cup {NoPool} : p = at[t].old
  BY <1>1 DEF PoolTypes, Locals
<1>5. PICK f \in BOOLEAN : f = (p # NoPool /\ ~Destroyed(p))
  OBVIOUS
<1>6. pool' = IF p # NoPool /\ ~f THEN [pool EXCEPT ![p].active_users = @ - 1] ELSE pool
  BY <1>4, <1>5 DEF ExitCheck
<1>7. SameCounts /\ \A q \in Pools : pool'[q].stage = pool[q].stage
  BY <1>1, <1>6 DEF PoolTypes, PoolStates, SameCounts
<1>8. at'[t].pc = "exit_clean" /\ at'[t].flag = f /\ at'[t].c = at[t].c
  BY <1>1, <1>4, <1>5 DEF ExitCheck, PoolTypes, Locals
<1>9. p = cache[at[t].c].pool
  BY <1>1, <1>4, Everybody DEF ExitCheck, WorkSound
<1>10. ASSUME NEW u \in Users PROVE ExitSound(u)'
  <2>1. CASE u = t
    <3> SUFFICES ASSUME ~f, p \in Pools PROVE pool'[p].stage # "open"
      BY <1>2, <1>8, <1>9, <2>1 DEF ExitSound
    <3> QED BY <1>5, <1>7 DEF Destroyed, PoolConstants
  <2>2. CASE u # t
    <3>1. ExitSound(u)
      BY DEF PoolInv
    <3> QED BY <1>2, <1>3, <1>7, <2>2, <3>1 DEF ExitSound
  <2> QED BY <2>1, <2>2
<1>11. InBounds' /\ BuffersAtOnePlace' /\ TotalsSound'
  BY <1>1, <1>2, <1>3, <1>7, StillCaches, QuietStep
<1> QED BY <1>1, <1>10, <1>11 DEF PoolInv

-----------------------------------------------------------------------------
\* The start of an allocation: the buffers and the totals.
LEMMA AllocCallKeeps ==
  ASSUME PoolConstants, PoolInv, NEW t \in Users, NEW p \in Pools, aura_buffer_alloc(t, p)
  PROVE  PoolInv'
<1>0. PoolTypes /\ StructsInv
  BY DEF PoolInv, StructsInv
<1>1. StructsInv'
  <2>1. Call(t, p, "alloc", NoBuf) /\ held' \in [Pools -> SUBSET Buffers]
    BY <1>0 DEF aura_buffer_alloc, PoolTypes
  <2>2. "alloc" \in {"alloc", "free"} /\ "alloc" # "free" /\ NoBuf \in Buffers \cup {NoBuf}
    OBVIOUS
  <2> QED BY <1>0, <2>1, <2>2, CallStruct
<1>2. UNCHANGED <<bucket, held, live, cache, structs, pool>>
  BY DEF aura_buffer_alloc, Call
<1>3. at[t].buf = NoBuf
  BY <1>0, Everybody DEF aura_buffer_alloc, Call, HandSound, Idle
<1>4. SameHands /\ (\A u \in Users \ {t} : at'[u] = at[u]) /\ at'[t].pc # "exit_clean"
  BY <1>0, <1>3 DEF aura_buffer_alloc, Call, SameHands, PoolTypes, Locals, Idle
<1> QED BY <1>1, <1>2, <1>4, StillCaches, StillCounts, QuietInv

\* The start of buffer_pool_destroy: the buffers and the totals.
LEMMA MarkDestroyedKeeps ==
  ASSUME PoolConstants, PoolInv, NEW t \in Users, NEW p \in Pools, MarkDestroyed(t, p)
  PROVE  PoolInv'
<1>1. StructsInv' /\ PoolTypes /\ StructsInv
  BY MarkDestroyedStruct DEF PoolInv, StructsInv
<1>2. UNCHANGED <<bucket, held, live, cache, structs>>
  BY DEF MarkDestroyed
<1>3. at[t].buf = NoBuf
  BY <1>1, Everybody DEF MarkDestroyed, HandSound, Idle
<1>4. SameHands /\ (\A u \in Users \ {t} : at'[u] = at[u]) /\ at'[t].pc # "exit_clean"
  BY <1>1, <1>3 DEF MarkDestroyed, SameHands, PoolTypes, Locals, Idle
<1>5. SameCounts
  BY <1>1 DEF MarkDestroyed, SameCounts, PoolTypes, PoolStates
<1> QED BY <1>1, <1>2, <1>4, <1>5, StillCaches, QuietInv

\* It detaches the list of caches: the buffers and the totals.
LEMMA DetachKeeps ==
  ASSUME PoolConstants, PoolInv, NEW t \in Users, Detach(t)
  PROVE  PoolInv'
<1>1. StructsInv' /\ PoolTypes /\ StructsInv
  BY DetachStruct DEF PoolInv, StructsInv
<1>2. UNCHANGED <<bucket, held, live, cache, structs>>
  BY DEF Detach
<1>4. SameHands /\ (\A u \in Users \ {t} : at'[u] = at[u]) /\ at'[t].pc # "exit_clean"
  BY <1>1 DEF Detach, SameHands, PoolTypes, Locals
<1>5. SameCounts
  BY <1>1 DEF Detach, SameCounts, PoolTypes, PoolStates
<1> QED BY <1>1, <1>2, <1>4, <1>5, StillCaches, QuietInv

\* It frees the struct or leaves it: the buffers and the totals.
LEMMA DisposeCacheKeeps ==
  ASSUME PoolConstants, PoolInv, NEW t \in Users, DisposeCache(t)
  PROVE  PoolInv'
<1>1. StructsInv' /\ PoolTypes /\ StructsInv
  BY DisposeCacheStruct DEF PoolInv, StructsInv
<1>2. UNCHANGED <<bucket, held, live, cache, pool>>
  BY DEF DisposeCache
<1>3. PICK c : c = Head(at[t].list)
  OBVIOUS
<1>4. SameHands /\ (\A u \in Users \ {t} : at'[u] = at[u]) /\ at'[t].pc # "exit_clean"
  BY <1>1 DEF DisposeCache, SameHands, PoolTypes, Locals
<1>5. structs' \in {structs, structs \ {c}}
  BY <1>3 DEF DisposeCache
<1>6. c \in structs => cache[c].pool = NoPool
  BY <1>1, <1>3, Everybody DEF DisposeCache, HandListSound
<1> QED BY <1>1, <1>2, <1>4, <1>5, <1>6, FreedStruct, StillCounts, QuietInv

\* The first use of a pool by a thread: the buffers and the totals.
LEMMA LookupNewKeeps ==
  ASSUME PoolConstants, PoolInv, NEW t \in Users, LookupNew(t)
  PROVE  PoolInv'
<1>1. StructsInv' /\ PoolTypes /\ StructsInv
  BY LookupNewStruct DEF PoolInv, StructsInv
<1>2. UNCHANGED <<bucket, held, live>>
  BY DEF LookupNew
<1>3. at[t].op # "exit_clean"
  BY <1>1 DEF PoolTypes, Locals
<1>5. CASE CacheMemory = {}
  <2>1. UNCHANGED <<pool, cache, structs>> /\ Goto(t, at[t].op)
    BY <1>5 DEF LookupNew
  <2>2. SameHands /\ (\A u \in Users \ {t} : at'[u] = at[u]) /\ at'[t].pc # "exit_clean"
    BY <1>1, <1>3, <2>1 DEF Goto, SameHands, PoolTypes, Locals
  <2> QED BY <1>1, <1>2, <2>1, <2>2, StillCaches, StillCounts, QuietInv
<1>6. CASE CacheMemory # {}
  <2>1. PICK c : c \in CacheMemory /\ c = CHOOSE x \in CacheMemory : TRUE
    BY <1>6
  <2>2. PICK p : p = at[t].pool
    OBVIOUS
  <2>3. PICK r : r = [EmptyCache EXCEPT !.pool = p, !.owner = t, !.shard = pool[p].next_shard]
    OBVIOUS
  <2>4. PICK m : m = <<c>> \o pool[p].list
    OBVIOUS
  <2>5. PICK k : k = (pool[p].next_shard + 1) % Cardinality(Shards)
    OBVIOUS
  <2>6. /\ structs' = structs \cup {c} /\ cache' = [cache EXCEPT ![c] = r]
        /\ at' = [at EXCEPT ![t].pc = at[t].op, ![t].c = c]
    BY <1>6, <2>1, <2>2, <2>3 DEF LookupNew
  <2>7. pool' = [pool EXCEPT ![p].list = <<c>> \o @, ![p].next_shard = (@ + 1) % Cardinality(Shards)]
    BY <1>6, <2>1, <2>2 DEF LookupNew
  <2>8. SameHands /\ (\A u \in Users \ {t} : at'[u] = at[u]) /\ at'[t].pc # "exit_clean"
    BY <1>1, <1>3, <2>6 DEF SameHands, PoolTypes, Locals
  <2>9. p \in Pools
    BY <1>1, <2>2, Everybody DEF LookupNew, HandSound, Calling
  <2>10. SameCounts
    <3>1. pool' = [pool EXCEPT ![p].list = m, ![p].next_shard = k]
      BY <1>1, <2>4, <2>5, <2>7, <2>9 DEF PoolTypes, PoolStates
    <3> QED BY <1>1, <2>9, <3>1 DEF SameCounts, PoolTypes, PoolStates
  <2>11. c \in CacheIds /\ c \notin structs
    BY <2>1 DEF CacheMemory
  <2>12. r.bufs = <<>>
    BY <2>3 DEF EmptyCache
  <2>13. StructsQuiet
    <3> SUFFICES ASSUME NEW d \in CacheIds PROVE SameStruct(d) \/ EmptyStruct(d)
      BY DEF StructsQuiet
    <3>1. CASE d = c
      BY <1>1, <2>6, <2>11, <2>12, <3>1 DEF EmptyStruct, PoolTypes
    <3>2. CASE d # c
      BY <1>1, <2>6, <3>2 DEF SameStruct, PoolTypes
    <3> QED BY <3>1, <3>2
  <2>14. \A d \in structs : cache'[d].pool \in {cache[d].pool, NoPool}
    BY <1>1, <2>6, <2>11 DEF PoolTypes
  <2> QED BY <1>1, <1>2, <2>8, <2>10, <2>13, <2>14, QuietInv
<1> QED BY <1>5, <1>6

-----------------------------------------------------------------------------
(* What operations on sequences do to the sets of their elements.          *)

\* s is r and x.
Splits(s, r, x) == /\ IsInjective(r) /\ ToSetOf(s) = ToSetOf(r) \cup {x} /\ x \notin ToSetOf(r)

\* Without its last element.
LEMMA FrontIs ==
  ASSUME NEW S, NEW s \in Seq(S), s # <<>>, IsInjective(s)
  PROVE  Splits(s, Front(s), Last(s))
<1>1. Front(s) = SubSeq(s, 1, Len(s) - 1) /\ Last(s) = s[Len(s)] /\ Len(s) \in Nat /\ Len(s) >= 1
  BY DEF Front, Last
<1>2. PICK n \in Nat : n + 1 = Len(s)
  BY <1>1
<1>3. PICK r : r = Front(s)
  OBVIOUS
<1>4. r \in Seq(S) /\ Len(r) = n /\ \A i \in 1 .. n : r[i] = s[i]
  <2>1. r = SubSeq(s, 0 + 1, n) /\ n \in 0 .. Len(s) /\ 0 \in Nat
    BY <1>1, <1>2, <1>3
  <2>2. /\ SubSeq(s, 0 + 1, n) \in Seq(S)
        /\ Len(SubSeq(s, 0 + 1, n)) = IF 0 < n THEN n - 0 ELSE 0
        /\ \A i \in 1 .. n - 0 : SubSeq(s, 0 + 1, n)[i] = s[0 + i]
    BY <2>1, SubIs
  <2> QED BY <2>1, <2>2
<1>5. \A i, j \in 1 .. n + 1 : s[i] = s[j] => i = j
  BY <1>2, InjectiveIs
<1>6. IsInjective(r)
  <2>1. \A i, j \in 1 .. Len(r) : r[i] = r[j] => i = j
    BY <1>4, <1>5
  <2> QED BY <1>4, <2>1, InjectiveIs
<1>7. \A x : x \in ToSetOf(r) <=> \E i \in 1 .. n : x = s[i]
  BY <1>4, InRange
<1>8. \A x : x \in ToSetOf(s) <=> \E i \in 1 .. n + 1 : x = s[i]
  BY <1>2, InRange
<1>9. \A x : x \in ToSetOf(s) <=> x \in ToSetOf(r) \/ x = s[n + 1]
  BY <1>7, <1>8
<1>10. s[n + 1] \notin ToSetOf(r)
  BY <1>5, <1>7
<1> QED BY <1>1, <1>2, <1>3, <1>6, <1>9, <1>10 DEF Splits

\* Without its first.
LEMMA TailIs ==
  ASSUME NEW S, NEW s \in Seq(S), s # <<>>, IsInjective(s)
  PROVE  Splits(s, Tail(s), Head(s))
<1>1. PICK r : r = Tail(s)
  OBVIOUS
<1>2. PICK n \in Nat : n + 1 = Len(s)
  OBVIOUS
<1>3. r \in Seq(S) /\ Len(r) = n /\ (\A i \in 1 .. n : r[i] = s[i + 1]) /\ Head(s) = s[1]
  BY <1>1, <1>2
<1>4. \A i, j \in 1 .. n + 1 : s[i] = s[j] => i = j
  BY <1>2, InjectiveIs
<1>5. IsInjective(r)
  <2>1. ASSUME NEW i \in 1 .. n, NEW j \in 1 .. n, r[i] = r[j] PROVE i = j
    <3>1. i + 1 \in 1 .. n + 1 /\ j + 1 \in 1 .. n + 1 /\ s[i + 1] = s[j + 1]
      BY <1>3, <2>1
    <3>2. i + 1 = j + 1
      BY <1>4, <3>1
    <3> QED BY <3>2
  <2> QED BY <1>3, <2>1, InjectiveIs
<1>6. \A x : x \in ToSetOf(r) <=> \E i \in 1 .. n : x = s[i + 1]
  <2>1. r \in Seq(S) /\ Len(r) = n
    BY <1>3
  <2>2. (\A i \in 1 .. Len(r) : r[i] \in ToSetOf(r)) /\ \A x \in ToSetOf(r) : \E i \in 1 .. Len(r) : x = r[i]
    BY <2>1, InRange
  <2>3. \A x : x \in ToSetOf(r) <=> \E i \in 1 .. n : x = r[i]
    BY <2>1, <2>2
  <2>4. \A i \in 1 .. n : r[i] = s[i + 1]
    BY <1>3
  <2> QED BY <2>3, <2>4
<1>7. \A x : x \in ToSetOf(s) <=> \E i \in 1 .. n + 1 : x = s[i]
  BY <1>2, InRange
<1>8. \A x : x \in ToSetOf(s) <=> x \in ToSetOf(r) \/ x = s[1]
  <2> SUFFICES ASSUME NEW x PROVE x \in ToSetOf(s) <=> x \in ToSetOf(r) \/ x = s[1]
    OBVIOUS
  <2>1. ASSUME NEW i \in 1 .. n + 1, x = s[i], i # 1 PROVE x \in ToSetOf(r)
    <3>1. i - 1 \in 1 .. n /\ (i - 1) + 1 = i
      BY <2>1
    <3> QED BY <1>6, <2>1, <3>1
  <2>2. ASSUME NEW i \in 1 .. n, x = s[i + 1] PROVE x \in ToSetOf(s)
    <3>1. i + 1 \in 1 .. n + 1
      OBVIOUS
    <3> QED BY <1>7, <2>2, <3>1
  <2>3. 1 \in 1 .. n + 1
    OBVIOUS
  <2> QED BY <1>6, <1>7, <2>1, <2>2, <2>3
<1>9. s[1] \notin ToSetOf(r)
  <2>1. \A i \in 1 .. n : i + 1 \in 1 .. n + 1 /\ i + 1 # 1 /\ 1 \in 1 .. n + 1
    OBVIOUS
  <2> QED BY <1>4, <1>6, <2>1
<1> QED BY <1>1, <1>3, <1>5, <1>8, <1>9 DEF Splits

\* Of a concatenation.
LEMMA ConcatSet ==
  ASSUME NEW S, NEW s \in Seq(S), NEW r \in Seq(S), IsInjective(s), IsInjective(r), ToSetOf(s) \cap ToSetOf(r) = {}
  PROVE  IsInjective(s \o r) /\ ToSetOf(s \o r) = ToSetOf(s) \cup ToSetOf(r)
<1>1. PICK m : m = s \o r
  OBVIOUS
<1>2. PICK k \in Nat, n \in Nat : k = Len(s) /\ n = Len(r)
  OBVIOUS
<1>3. /\ m \in Seq(S) /\ Len(m) = k + n /\ (\A i \in 1 .. k : m[i] = s[i])
      /\ \A i \in k + 1 .. k + n : m[i] = r[i - k]
  BY <1>1, <1>2, ConcatIs
<1>4. \A i \in 1 .. k : s[i] \in ToSetOf(s)
  BY <1>2, InRange
<1>5. \A i \in 1 .. n : r[i] \in ToSetOf(r)
  BY <1>2, InRange
<1>6. \A x : x \in ToSetOf(s) <=> \E i \in 1 .. k : x = s[i]
  BY <1>2, InRange
<1>7. \A x : x \in ToSetOf(r) <=> \E i \in 1 .. n : x = r[i]
  BY <1>2, InRange
<1>8. \A x : x \in ToSetOf(m) <=> \E i \in 1 .. k + n : x = m[i]
  <2>1. m \in Seq(S) /\ Len(m) = k + n
    BY <1>3
  <2>2. (\A i \in 1 .. Len(m) : m[i] \in ToSetOf(m)) /\ \A x \in ToSetOf(m) : \E i \in 1 .. Len(m) : x = m[i]
    BY <2>1, InRange
  <2> QED BY <2>1, <2>2
<1>9. \A i \in 1 .. k + n : \/ i \in 1 .. k /\ m[i] \in ToSetOf(s)
                            \/ i \in k + 1 .. k + n /\ i - k \in 1 .. n /\ m[i] \in ToSetOf(r)
  <2> SUFFICES ASSUME NEW i \in 1 .. k + n, i \notin 1 .. k
               PROVE  i \in k + 1 .. k + n /\ i - k \in 1 .. n /\ m[i] \in ToSetOf(r)
    BY <1>3, <1>4
  <2>1. i \in k + 1 .. k + n /\ i - k \in 1 .. n
    OBVIOUS
  <2> QED BY <1>3, <1>5, <2>1
<1>10. ToSetOf(m) = ToSetOf(s) \cup ToSetOf(r)
  <2>1. ASSUME NEW x \in ToSetOf(m) PROVE x \in ToSetOf(s) \cup ToSetOf(r)
    BY <1>8, <1>9
  <2>2. ASSUME NEW x \in ToSetOf(s) PROVE x \in ToSetOf(m)
    <3>1. PICK i \in 1 .. k : x = s[i]
      BY <1>6
    <3>2. i \in 1 .. k + n
      OBVIOUS
    <3> QED BY <1>3, <1>8, <3>1, <3>2
  <2>3. ASSUME NEW x \in ToSetOf(r) PROVE x \in ToSetOf(m)
    <3>1. PICK i \in 1 .. n : x = r[i]
      BY <1>7
    <3>2. i + k \in k + 1 .. k + n /\ i + k \in 1 .. k + n /\ (i + k) - k = i
      OBVIOUS
    <3> QED BY <1>3, <1>8, <3>1, <3>2
  <2> QED BY <2>1, <2>2, <2>3
<1>11. IsInjective(m)
  <2> SUFFICES ASSUME NEW i \in 1 .. k + n, NEW j \in 1 .. k + n, m[i] = m[j] PROVE i = j
    BY <1>3, InjectiveIs
  <2>1. CASE i \in 1 .. k
    <3>1. j \in 1 .. k
      BY <1>3, <1>4, <1>9, <2>1
    <3> QED BY <1>2, <1>3, <2>1, <3>1, InjectiveIs
  <2>2. CASE i \notin 1 .. k
    <3>1. j \notin 1 .. k
      BY <1>3, <1>4, <1>9, <2>2
    <3>2. i - k \in 1 .. n /\ j - k \in 1 .. n /\ r[i - k] = r[j - k]
      BY <1>3, <1>9, <2>2, <3>1
    <3>3. i - k = j - k
      BY <1>2, <3>2, InjectiveIs
    <3> QED BY <3>3
  <2> QED BY <2>1, <2>2
<1> QED BY <1>1, <1>10, <1>11

\* Of one element.
LEMMA OneIs ==
  ASSUME NEW S, NEW b \in S
  PROVE  <<b>> \in Seq(S) /\ IsInjective(<<b>>) /\ ToSetOf(<<b>>) = {b} /\ Len(<<b>>) = 1
<1>1. PICK s : s = <<b>>
  OBVIOUS
<1>2. s \in Seq(S) /\ Len(s) = 1 /\ s[1] = b
  BY <1>1
<1>3. IsInjective(s)
  BY <1>2, InjectiveIs
<1>4. ToSetOf(s) = {b}
  BY <1>2, InRange
<1> QED BY <1>1, <1>2, <1>3, <1>4

\* Of Append.
LEMMA AppendIs ==
  ASSUME NEW S, NEW s \in Seq(S), NEW b \in S, IsInjective(s), b \notin ToSetOf(s)
  PROVE  /\ IsInjective(Append(s, b)) /\ ToSetOf(Append(s, b)) = ToSetOf(s) \cup {b}
         /\ Append(s, b) \in Seq(S) /\ Len(Append(s, b)) = Len(s) + 1
<1>1. Append(s, b) = s \o <<b>> /\ Append(s, b) \in Seq(S) /\ Len(Append(s, b)) = Len(s) + 1
  OBVIOUS
<1>2. PICK r : r = <<b>>
  OBVIOUS
<1>3. r \in Seq(S) /\ IsInjective(r) /\ ToSetOf(r) = {b}
  BY <1>2, OneIs
<1>4. ToSetOf(s) \cap ToSetOf(r) = {}
  BY <1>3
<1>5. IsInjective(s \o r) /\ ToSetOf(s \o r) = ToSetOf(s) \cup ToSetOf(r)
  BY <1>3, <1>4, ConcatSet
<1> QED BY <1>1, <1>2, <1>3, <1>5

-----------------------------------------------------------------------------
\* A stretch of a sequence.
StretchOf(S, s, r, m, n) ==
  /\ r \in Seq(S) /\ IsInjective(r) /\ Len(r) = n - m
  /\ \A x : x \in ToSetOf(r) <=> \E i \in m + 1 .. n : x = s[i]

\* SubSeq gives one.
LEMMA StretchIs ==
  ASSUME NEW S, NEW s \in Seq(S), IsInjective(s), NEW m \in Nat, NEW n \in Nat, m <= n, n <= Len(s),
         NEW a, a = m + 1, NEW r, r = SubSeq(s, a, n)
  PROVE  StretchOf(S, s, r, m, n)
<1>1. r = SubSeq(s, m + 1, n)
  OBVIOUS
<1>2. PICK k \in Nat : k = n - m
  OBVIOUS
<1>3. r \in Seq(S) /\ Len(r) = k /\ \A i \in 1 .. k : r[i] = s[m + i]
  <2>1. n \in 0 .. Len(s)
    OBVIOUS
  <2>2. r \in Seq(S) /\ Len(r) = (IF m < n THEN n - m ELSE 0) /\ \A i \in 1 .. n - m : r[i] = s[m + i]
    BY <1>1, <2>1, SubIs
  <2> QED BY <1>2, <2>2
<1>4. \A i, j \in 1 .. Len(s) : s[i] = s[j] => i = j
  BY InjectiveIs
<1>5. IsInjective(r)
  <2>1. ASSUME NEW i \in 1 .. k, NEW j \in 1 .. k, r[i] = r[j] PROVE i = j
    <3>1. m + i \in 1 .. Len(s) /\ m + j \in 1 .. Len(s)
      BY <1>2
    <3>2. s[m + i] = s[m + j]
      BY <1>3, <2>1
    <3>3. m + i = m + j
      BY <1>4, <3>1, <3>2
    <3> QED BY <3>3
  <2>2. \A i, j \in 1 .. Len(r) : r[i] = r[j] => i = j
    BY <1>3, <2>1
  <2> QED BY <1>3, <2>2, InjectiveIs
<1>6. \A x : x \in ToSetOf(r) <=> \E i \in 1 .. k : x = s[m + i]
  <2>1. r \in Seq(S) /\ Len(r) = k
    BY <1>3
  <2>2. (\A i \in 1 .. Len(r) : r[i] \in ToSetOf(r)) /\ \A x \in ToSetOf(r) : \E i \in 1 .. Len(r) : x = r[i]
    BY <2>1, InRange
  <2>3. \A x : x \in ToSetOf(r) <=> \E i \in 1 .. k : x = r[i]
    BY <2>1, <2>2
  <2>4. \A i \in 1 .. k : r[i] = s[m + i]
    BY <1>3
  <2> SUFFICES ASSUME NEW x PROVE x \in ToSetOf(r) <=> \E i \in 1 .. k : x = s[m + i]
    OBVIOUS
  <2>5. (\E i \in 1 .. k : x = r[i]) <=> \E i \in 1 .. k : x = s[m + i]
    BY <2>4
  <2>6. x \in ToSetOf(r) <=> \E i \in 1 .. k : x = r[i]
    BY <2>3
  <2> QED BY <2>5, <2>6
<1>7. ASSUME NEW x PROVE (\E i \in 1 .. k : x = s[m + i]) <=> \E i \in m + 1 .. n : x = s[i]
  <2>1. ASSUME NEW i \in 1 .. k, x = s[m + i] PROVE \E j \in m + 1 .. n : x = s[j]
    <3>1. m + i \in m + 1 .. n
      BY <1>2
    <3> QED BY <2>1, <3>1
  <2>2. ASSUME NEW i \in m + 1 .. n, x = s[i] PROVE \E j \in 1 .. k : x = s[m + j]
    <3>1. i - m \in 1 .. k /\ m + (i - m) = i
      BY <1>2
    <3> QED BY <2>2, <3>1
  <2> QED BY <2>1, <2>2
<1>8. \A x : x \in ToSetOf(r) <=> \E i \in m + 1 .. n : x = s[i]
  BY <1>6, <1>7
<1>9. Len(r) = n - m
  BY <1>2, <1>3
<1> QED BY <1>3, <1>5, <1>8, <1>9 DEF StretchOf

\* The whole is one.
LEMMA WholeIs ==
  ASSUME NEW S, NEW s \in Seq(S)
  PROVE  \A x : x \in ToSetOf(s) <=> \E i \in 1 .. Len(s) : x = s[i]
BY InRange

\* cache_refill: the first n of the list; one of them is handed out.
Refilled(S, s, n, r, q) ==
  /\ r \in Seq(S) /\ q \in Seq(S) /\ IsInjective(r) /\ IsInjective(q) /\ s[n] \in S
  /\ Len(r) = n - 1 /\ Len(q) = Len(s) - n
  /\ ToSetOf(s) = ToSetOf(r) \cup ToSetOf(q) \cup {s[n]}
  /\ ToSetOf(r) \cap ToSetOf(q) = {} /\ s[n] \notin ToSetOf(r) /\ s[n] \notin ToSetOf(q)

\* cache_refill takes a stretch of the shard.
LEMMA RefillIs ==
  ASSUME NEW S, NEW s \in Seq(S), IsInjective(s), NEW n \in 1 .. Len(s), NEW r, NEW q,
         r = SubSeq(s, 1, n - 1), q = SubSeq(s, n + 1, Len(s))
  PROVE  Refilled(S, s, n, r, q)
<1>1. PICK k \in Nat : k + 1 = n
  OBVIOUS
<1>2. PICK l \in Nat : l = Len(s)
  OBVIOUS
<1>3. r = SubSeq(s, 0 + 1, k) /\ 0 <= k /\ k <= Len(s) /\ 0 \in Nat /\ n \in Nat /\ n <= l /\ q = SubSeq(s, n + 1, l) /\ l <= Len(s)
  BY <1>1, <1>2
<1>a. StretchOf(S, s, r, 0, k)
  <2>1. PICK o : o = 0 /\ o \in Nat /\ o <= k
    OBVIOUS
  <2>2. r = SubSeq(s, 1, k) /\ 1 = o + 1
    BY <1>3, <2>1
  <2>3. StretchOf(S, s, r, o, k)
    BY <1>3, <2>1, <2>2, StretchIs
  <2> QED BY <2>1, <2>3
<1>b. StretchOf(S, s, q, n, l)
  <2>1. PICK o : o = n + 1
    OBVIOUS
  <2>2. q = SubSeq(s, o, l)
    BY <1>3, <2>1
  <2> QED BY <1>3, <2>1, <2>2, StretchIs
<1>4. /\ r \in Seq(S) /\ IsInjective(r) /\ Len(r) = k - 0
      /\ \A x : x \in ToSetOf(r) <=> \E i \in 0 + 1 .. k : x = s[i]
  BY <1>a DEF StretchOf
<1>5. /\ q \in Seq(S) /\ IsInjective(q) /\ Len(q) = l - n
      /\ \A x : x \in ToSetOf(q) <=> \E i \in n + 1 .. l : x = s[i]
  BY <1>b DEF StretchOf
<1>6. \A x : x \in ToSetOf(s) <=> \E i \in 1 .. l : x = s[i]
  BY <1>2, WholeIs
<1>7. \A i, j \in 1 .. l : s[i] = s[j] => i = j
  BY <1>2, InjectiveIs
<1>8. \A i \in 0 + 1 .. k : i \in 1 .. l /\ i < n
  BY <1>1, <1>3
<1>9. \A i \in n + 1 .. l : i \in 1 .. l /\ i > n
  BY <1>3
<1>10. \A i \in 1 .. l : i \in 0 + 1 .. k \/ i \in n + 1 .. l \/ i = n
  BY <1>1, <1>3
<1>11. n \in 1 .. l
  BY <1>2
<1>12. ASSUME NEW x PROVE x \in ToSetOf(s) <=> x \in ToSetOf(r) \/ x \in ToSetOf(q) \/ x = s[n]
  BY <1>4, <1>5, <1>6, <1>8, <1>9, <1>10, <1>11
<1>13. s[n] \notin ToSetOf(r) /\ s[n] \notin ToSetOf(q)
  BY <1>4, <1>5, <1>7, <1>8, <1>9, <1>11
<1>14. ASSUME NEW x, x \in ToSetOf(r), x \in ToSetOf(q) PROVE FALSE
  <2>1. PICK i \in 0 + 1 .. k : x = s[i]
    BY <1>4, <1>14
  <2>2. PICK j \in n + 1 .. l : x = s[j]
    BY <1>5, <1>14
  <2>3. i \in 1 .. l /\ j \in 1 .. l /\ i < n /\ j > n /\ s[i] = s[j]
    BY <1>8, <1>9, <2>1, <2>2
  <2>4. i = j
    BY <1>7, <2>3
  <2>5. i \in Int /\ j \in Int /\ n \in Int
    BY <1>3, <2>1, <2>2
  <2> QED BY <2>3, <2>4, <2>5
<1>15. s[n] \in S
  OBVIOUS
<1>16. ToSetOf(s) = ToSetOf(r) \cup ToSetOf(q) \cup {s[n]}
  BY <1>12
<1> QED BY <1>1, <1>2, <1>4, <1>5, <1>13, <1>14, <1>15, <1>16 DEF Refilled

\* A sequence without repetitions has as many elements as its length.
LEMMA SeqCount ==
  ASSUME NEW S, NEW s \in Seq(S), IsInjective(s)
  PROVE  Cardinality(ToSetOf(s)) = Len(s)
<1>1. PICK m \in Nat : m = Len(s)
  OBVIOUS
<1>2. s \in [1 .. m -> ToSetOf(s)]
  <2>1. s \in [1 .. m -> S]
    BY <1>1
  <2>2. \A i \in 1 .. m : s[i] \in ToSetOf(s)
    BY <1>1, InRange
  <2> QED BY <2>1, <2>2
<1>3. \A x \in ToSetOf(s) : \E i \in 1 .. m : x = s[i]
  BY <1>1, InRange
<1>4. s \in Injection(1 .. m, ToSetOf(s))
  BY <1>2 DEF Injection
<1>5. s \in Surjection(1 .. m, ToSetOf(s))
  BY <1>2, <1>3 DEF Surjection
<1>6. ExistsBijection(1 .. m, ToSetOf(s))
  BY <1>4, <1>5 DEF ExistsBijection, Bijection
<1> QED BY <1>1, <1>6, FS_CountingElements

\* posix_memalign: the first of the free buffers, and n more.
Taken(S, s, n, r, q) ==
  /\ q \in Seq(S) /\ IsInjective(q) /\ Len(q) = n /\ Head(s) \in S
  /\ ToSetOf(r) = ToSetOf(q) \cup {Head(s)} /\ Head(s) \notin ToSetOf(q)
  /\ ToSetOf(r) \subseteq ToSetOf(s) /\ Cardinality(ToSetOf(r)) = n + 1

\* What the heap gives for a batch.
LEMMA TakenIs ==
  ASSUME NEW S, NEW s \in Seq(S), IsInjective(s), NEW n \in Nat, n + 1 <= Len(s), NEW r, NEW q,
         r = SubSeq(s, 1, n + 1), q = SubSeq(s, 2, n + 1)
  PROVE  Taken(S, s, n, r, q)
<1>1. PICK m \in Nat : m = n + 1
  OBVIOUS
<1>2. r = SubSeq(s, 0 + 1, m) /\ 0 <= m /\ m <= Len(s) /\ 0 \in Nat /\ 1 \in Nat /\ 1 <= m /\ q = SubSeq(s, 1 + 1, m)
  BY <1>1
<1>a. PICK o, e : o = 0 /\ e = 1 /\ o \in Nat /\ e \in Nat /\ o <= m /\ e <= m /\ m <= Len(s)
  BY <1>2
<1>b. r = SubSeq(s, 1, m) /\ q = SubSeq(s, 2, m) /\ 1 = o + 1 /\ 2 = e + 1
  BY <1>1, <1>a
<1>c. StretchOf(S, s, r, o, m)
  BY <1>a, <1>b, StretchIs
<1>d. StretchOf(S, s, q, e, m)
  BY <1>a, <1>b, StretchIs
<1>3. /\ r \in Seq(S) /\ IsInjective(r) /\ Len(r) = m - 0
      /\ \A x : x \in ToSetOf(r) <=> \E i \in 0 + 1 .. m : x = s[i]
  BY <1>a, <1>c DEF StretchOf
<1>4. /\ q \in Seq(S) /\ IsInjective(q) /\ Len(q) = m - 1
      /\ \A x : x \in ToSetOf(q) <=> \E i \in 1 + 1 .. m : x = s[i]
  BY <1>a, <1>d DEF StretchOf
<1>5. \A i, j \in 1 .. Len(s) : s[i] = s[j] => i = j
  BY InjectiveIs
<1>6. Head(s) = s[1] /\ 1 \in 1 .. Len(s) /\ s[1] \in S
  OBVIOUS
<1>7. \A i \in 0 + 1 .. m : i \in 1 .. Len(s) /\ (i = 1 \/ i \in 1 + 1 .. m)
  BY <1>2
<1>8. \A i \in 1 + 1 .. m : i \in 1 .. Len(s) /\ i # 1 /\ i \in 0 + 1 .. m
  BY <1>2
<1>9. 1 \in 0 + 1 .. m
  BY <1>2
<1>10. ASSUME NEW x PROVE x \in ToSetOf(r) <=> x \in ToSetOf(q) \/ x = s[1]
  BY <1>3, <1>4, <1>7, <1>8, <1>9
<1>11. s[1] \notin ToSetOf(q)
  BY <1>4, <1>5, <1>6, <1>8
<1>12. ASSUME NEW x \in ToSetOf(r) PROVE x \in ToSetOf(s)
  <2>1. PICK i \in 0 + 1 .. m : x = s[i]
    BY <1>3
  <2> QED BY <1>7, <2>1, InRange
<1>13. Cardinality(ToSetOf(r)) = n + 1
  <2>1. r \in Seq(S) /\ IsInjective(r) /\ Len(r) = n + 1
    BY <1>1, <1>3
  <2> QED BY <2>1, SeqCount
<1>14. ToSetOf(r) = ToSetOf(q) \cup {Head(s)}
  BY <1>6, <1>10
<1> QED BY <1>1, <1>4, <1>6, <1>11, <1>12, <1>13, <1>14 DEF Taken

-----------------------------------------------------------------------------
\* There is a shard.
LEMMA SomeShard ==
  ASSUME PoolConstants PROVE 0 \in Shards
BY DEF PoolConstants

\* One shard gets the buffers k.
BucketGets(q, s, k) ==
  /\ bucket'[q][s] = k
  /\ \A x \in Pools, r \in Shards : x # q \/ r # s => bucket'[x][r] = bucket[x][r]

\* It gets them.
LEMMA BucketGot ==
  ASSUME PoolTypes, NEW q \in Pools, NEW s \in Shards, NEW k \in Seq(Buffers), bucket' = [bucket EXCEPT ![q][s] = k]
  PROVE  BucketGets(q, s, k)
BY DEF BucketGets, PoolTypes

-----------------------------------------------------------------------------
(* A step that moves buffers of the pool q between the application, the     *)
(* hand of t, the cache c and the shard s.                                 *)

\* What the step leaves alone.
Around(q, t, c, s) ==
  /\ structs' = structs
  /\ \A p \in Pools \ {q} : held'[p] = held[p]
  /\ \A v \in Users \ {t} : at'[v].buf = at[v].buf /\ at'[v].pool = at[v].pool
  /\ \A d \in CacheIds \ {c} : cache'[d].bufs = cache[d].bufs /\ cache'[d].pool = cache[d].pool
  /\ \A p \in Pools, r \in Shards : p # q \/ r # s => bucket'[p][r] = bucket[p][r]

\* What it works on is of q.
Within(q, t, c) ==
  /\ t \in Users => at[t].pool = q \/ at[t].buf = NoBuf
  /\ t \in Users => at'[t].pool = q \/ at'[t].buf = NoBuf
  /\ c # NoCache => cache[c].pool = q /\ (cache'[c].pool = q \/ (cache'[c].pool = NoPool /\ cache'[c].bufs = <<>>))

\* Neither array is overrun.
Fits(q, c, s) ==
  /\ c # NoCache => IsInjective(cache'[c].bufs) /\ Len(cache'[c].bufs) <= CacheSize
  /\ IsInjective(bucket'[q][s]) /\ Len(bucket'[q][s]) <= MaxFree

\* All that is at the four places.
Total(A, H, C, S) == A \cup H \cup C \cup S

\* The four have A, H, C and S afterwards: what they had, less F and with N.
Balanced(q, t, c, s, A, H, C, S, F, N) ==
  /\ A = held'[q] /\ H = Hand(t)' /\ S = ToSetOf(bucket'[q][s])
  /\ C = IF c = NoCache THEN {} ELSE ToSetOf(cache'[c].bufs)
  /\ Divided(A, H, C, S)
  /\ F \subseteq Total(held[q], Hand(t), CacheContent(c), ToSetOf(bucket[q][s]))
  /\ Total(A, H, C, S) = (Total(held[q], Hand(t), CacheContent(c), ToSetOf(bucket[q][s])) \ F) \cup N
  /\ live' = (live \ F) \cup N /\ N \cap live = {}

\* Such a step keeps the invariant.
LEMMA Moves ==
  ASSUME PoolConstants, PoolInv, StructsInv', NEW u \in Users, NEW t \in Users \cup {NoUser}, NEW q \in Pools,
         NEW c \in CacheIds \cup {NoCache}, c \in structs \cup {NoCache}, NEW s \in Shards,
         NEW F \in SUBSET Buffers, NEW N \in SUBSET Buffers, NEW A, NEW H, NEW C, NEW S,
         \A v \in Users \ {u} : at'[v] = at[v], at'[u].pc # "exit_clean",
         Around(q, t, c, s), Within(q, t, c), Fits(q, c, s),
         Balanced(q, t, c, s, A, H, C, S, F, N), Counted(q, F, N)
  PROVE  PoolInv'
<1>1. PoolTypes /\ PoolTypes' /\ BuffersAtOnePlace /\ TotalsSound /\ InBounds /\ Orderly
  BY Apart DEF PoolInv, StructsInv
<1>2. NoCache \notin CacheIds /\ structs \subseteq CacheIds /\ structs' = structs
  BY <1>1 DEF PoolConstants, PoolTypes, Around
<1>3. CacheContent(c)' = C
  BY <1>2 DEF Balanced, CacheContent
<1>4. Elsewhere(q, t, c, s)
  BY DEF Around, Elsewhere, CacheContent
<1>5. OfPool(q, t, c)
  <2>1. at[t].pool = q \/ Hand(t) = {}
    BY DEF Within, Hand
  <2>2. at'[t].pool = q \/ Hand(t)' = {}
    BY DEF Within, Hand
  <2>3. c = NoCache => CacheContent(c) = {} /\ CacheContent(c)' = {}
    BY <1>2 DEF CacheContent
  <2>4. cache'[c].bufs = <<>> => CacheContent(c)' = {}
    BY EmptyIs DEF CacheContent
  <2> QED BY <2>1, <2>2, <2>3, <2>4 DEF OfPool, Within
<1>6. Orderly'
  <2>1. ASSUME NEW d \in structs' PROVE IsInjective(cache'[d].bufs)
    <3>1. CASE d = c
      BY <1>2, <3>1 DEF Fits
    <3>2. CASE d # c
      <4>1. cache'[d].bufs = cache[d].bufs /\ d \in structs
        BY <1>2, <3>2 DEF Around
      <4> QED BY <1>1, <4>1 DEF Orderly
    <3> QED BY <3>1, <3>2
  <2>2. ASSUME NEW p \in Pools, NEW r \in Shards PROVE IsInjective(bucket'[p][r])
    <3>1. CASE p = q /\ r = s
      BY <3>1 DEF Fits
    <3>2. CASE p # q \/ r # s
      <4>1. bucket'[p][r] = bucket[p][r]
        BY <3>2 DEF Around
      <4> QED BY <1>1, <4>1 DEF Orderly
    <3> QED BY <3>1, <3>2
  <2> QED BY <2>1, <2>2 DEF Orderly
<1>7. InBounds'
  <2>1. ASSUME NEW d \in CacheIds PROVE Len(cache'[d].bufs) <= CacheSize
    <3>1. CASE d = c
      BY <1>2, <3>1 DEF Fits
    <3>2. CASE d # c
      <4>1. cache'[d].bufs = cache[d].bufs
        BY <3>2 DEF Around
      <4> QED BY <1>1, <4>1 DEF InBounds
    <3> QED BY <3>1, <3>2
  <2>2. ASSUME NEW p \in Pools, NEW r \in Shards PROVE Len(bucket'[p][r]) <= MaxFree
    <3>1. CASE p = q /\ r = s
      BY <3>1 DEF Fits
    <3>2. CASE p # q \/ r # s
      <4>1. bucket'[p][r] = bucket[p][r]
        BY <3>2 DEF Around
      <4> QED BY <1>1, <4>1 DEF InBounds
    <3> QED BY <3>1, <3>2
  <2> QED BY <2>1, <2>2 DEF InBounds
<1>8. /\ A = held'[q] /\ H = Hand(t)' /\ C = CacheContent(c)' /\ S = ToSetOf(bucket'[q][s]) /\ Divided(A, H, C, S)
      /\ F \subseteq held[q] \cup Hand(t) \cup CacheContent(c) \cup ToSetOf(bucket[q][s])
      /\ A \cup H \cup C \cup S = ((held[q] \cup Hand(t) \cup CacheContent(c) \cup ToSetOf(bucket[q][s])) \ F) \cup N
      /\ live' = (live \ F) \cup N /\ N \cap live = {}
  BY <1>3 DEF Balanced, Total
<1>9. BuffersAtOnePlace' /\ TotalsSound'
  BY <1>1, <1>4, <1>5, <1>6, <1>8, Transfer
<1>10. Gradual(u)
  <2>1. ASSUME NEW d \in structs PROVE cache'[d].pool \in {cache[d].pool, NoPool}
    <3>1. CASE d = c
      BY <1>2, <3>1 DEF Within
    <3>2. CASE d # c
      BY <1>2, <3>2 DEF Around
    <3> QED BY <3>1, <3>2
  <2>2. ASSUME NEW p \in Pools, pool[p].stage # "open" PROVE pool'[p].stage # "open"
    BY <2>2 DEF Counted
  <2> QED BY <2>1, <2>2 DEF Gradual
<1>11. \A v \in Users : ExitSound(v)'
  BY <1>10, ExitSoundKept DEF PoolInv
<1> QED BY <1>7, <1>9, <1>11 DEF PoolInv

-----------------------------------------------------------------------------
\* Nothing comes or goes.
LEMMA UncountedMove ==
  ASSUME SameCounts, PoolTypes, PoolTypes', NEW q, NEW F, F = {}
  PROVE  Counted(q, F, F)
<1>1. Cardinality(F) = 0
  BY FS_EmptySet
<1>2. \A p \in Pools : pool[p].total \in Int
  BY DEF PoolTypes, PoolStates
<1> QED BY <1>1, <1>2 DEF Counted, SameCounts

\* What a thread at work finds.
LEMMA AtWork ==
  ASSUME PoolConstants, PoolInv, NEW t \in Users, at[t].pc \in {"alloc", "alloc_shard", "alloc_heap", "free"}
  PROVE  /\ StructsInv /\ PoolTypes /\ InBounds /\ BuffersAtOnePlace /\ Orderly
         /\ at[t].pool \in Pools /\ pool[at[t].pool].stage = "open"
         /\ at[t].c \in CacheIds \cup {NoCache} /\ at[t].c \in structs \cup {NoCache}
         /\ at[t].pc # "free" => at[t].buf = NoBuf
         /\ at[t].pc = "free" => at[t].buf \in Buffers
         /\ at[t].c # NoCache =>
              /\ at[t].c \in CacheIds /\ at[t].c \in structs /\ cache[at[t].c].pool = at[t].pool
              /\ ~cache[at[t].c].cleaned_up
              /\ cache[at[t].c].shard \in Shards /\ cache[at[t].c].bufs \in Seq(Buffers)
              /\ bucket[at[t].pool][cache[at[t].c].shard] \in Seq(Buffers)
              /\ IsInjective(cache[at[t].c].bufs)
<1>1. StructsInv /\ PoolTypes /\ InBounds /\ BuffersAtOnePlace /\ Orderly
  BY Apart DEF PoolInv, StructsInv
<1>2. /\ at[t].pool \in Pools /\ pool[at[t].pool].stage = "open"
      /\ at[t].c \in CacheIds \cup {NoCache} /\ at[t] \in Locals
      /\ at[t].c # NoCache =>
           /\ at[t].c \in CacheIds /\ at[t].c \in structs /\ cache[at[t].c].pool = at[t].pool
           /\ ~cache[at[t].c].cleaned_up
           /\ cache[at[t].c].shard \in Shards /\ cache[at[t].c].bufs \in Seq(Buffers)
           /\ bucket[at[t].pool][cache[at[t].c].shard] \in Seq(Buffers)
  BY <1>1, InHand
<1>3. /\ at[t].pc # "free" => at[t].buf = NoBuf
      /\ at[t].pc = "free" => at[t].buf \in Buffers
  <2>1. HandSound(t)
    BY <1>1, Everybody
  <2> QED BY <2>1 DEF HandSound, Calling
<1>4. at[t].c # NoCache => IsInjective(cache[at[t].c].bufs)
  BY <1>1, <1>2 DEF Orderly
<1> QED BY <1>1, <1>2, <1>3, <1>4

\* What it has after Found(t, b).
LEMMA AfterFound ==
  ASSUME PoolConstants, StructsInv, NEW t \in Users, NEW b \in Buffers,
         at[t].pc \in {"alloc", "alloc_shard", "alloc_heap"}, Found(t, b)
  PROVE  /\ at'[t].buf = b /\ at'[t].pool = at[t].pool /\ at'[t].pc # "exit_clean"
         /\ \A v \in Users \ {t} : at'[v] = at[v]
         /\ Hand(t)' = {b}
<1>1. PoolTypes
  BY DEF StructsInv
<1>2. /\ at'[t].buf = b /\ at'[t].pool = at[t].pool /\ at'[t].pc # "exit_clean"
      /\ \A v \in Users \ {t} : at'[v] = at[v]
  BY <1>1 DEF Found, PoolTypes, Locals
<1>3. b # NoBuf
  BY DEF PoolConstants
<1> QED BY <1>2, <1>3 DEF Hand

\* An allocation from the cache: the buffers and the totals.
LEMMA AllocHitKeeps ==
  ASSUME PoolConstants, PoolInv, NEW t \in Users, AllocHit(t)
  PROVE  PoolInv'
<1>1. PICK c : c = at[t].c
  OBVIOUS
<1>2. PICK q : q = at[t].pool
  OBVIOUS
<1>3. at[t].pc = "alloc" /\ c # NoCache /\ cache[c].bufs # <<>> /\ Found(t, Last(cache[c].bufs))
      /\ cache' = [cache EXCEPT ![c].bufs = Front(@)] /\ UNCHANGED <<pool, bucket, structs, live, held>>
  BY <1>1 DEF AllocHit
<1>4. /\ StructsInv /\ PoolTypes /\ InBounds /\ BuffersAtOnePlace /\ Orderly
      /\ q \in Pools /\ c \in CacheIds /\ c \in structs /\ at[t].buf = NoBuf
      /\ cache[c].pool = q /\ cache[c].shard \in Shards /\ cache[c].bufs \in Seq(Buffers) /\ IsInjective(cache[c].bufs)
  BY <1>1, <1>2, <1>3, AtWork
<1>5. PICK s \in Shards : s = cache[c].shard
  BY <1>4
<1>6. PICK l : l = cache[c].bufs
  OBVIOUS
<1>7. PICK b, r : b = Last(l) /\ r = Front(l)
  OBVIOUS
<1>8. /\ b \in Buffers /\ r \in Seq(Buffers) /\ Len(r) = Len(l) - 1
      /\ IsInjective(r) /\ ToSetOf(l) = ToSetOf(r) \cup {b} /\ b \notin ToSetOf(r)
  BY <1>3, <1>4, <1>6, <1>7, EndsIs, FrontIs DEF Splits
<1>9. StructsInv'
  BY <1>4, AllocHitStruct
<1>10. /\ at'[t].buf = b /\ at'[t].pool = q /\ at'[t].pc # "exit_clean"
       /\ \A v \in Users \ {t} : at'[v] = at[v]
       /\ Hand(t)' = {b}
  BY <1>2, <1>3, <1>4, <1>6, <1>7, <1>8, AfterFound
<1>11. cache' = [cache EXCEPT ![c].bufs = r]
  BY <1>3, <1>4, <1>6, <1>7 DEF PoolTypes, Caches
<1>12. /\ cache'[c].bufs = r /\ cache'[c].pool = q
       /\ \A d \in CacheIds \ {c} : cache'[d] = cache[d]
  BY <1>4, <1>8, <1>11, BufsChange DEF SameState
<1>13. Around(q, t, c, s)
  BY <1>3, <1>10, <1>12 DEF Around
<1>14. Within(q, t, c)
  BY <1>4, <1>10, <1>12 DEF Within
<1>15. Fits(q, c, s)
  <2>1. Len(r) <= CacheSize
    <3>1. Len(l) <= CacheSize /\ Len(l) \in Nat /\ CacheSize \in Nat
      BY <1>4, <1>6 DEF InBounds, PoolConstants
    <3> QED BY <1>8, <3>1
  <2>2. IsInjective(bucket'[q][s]) /\ Len(bucket'[q][s]) <= MaxFree
    BY <1>3, <1>4 DEF InBounds, Orderly
  <2> QED BY <1>8, <1>12, <2>1, <2>2 DEF Fits
<1>16. PICK F \in SUBSET Buffers : F = {}
  OBVIOUS
<1>17. Counted(q, F, F)
  BY <1>3, <1>4, <1>9, <1>16, StillCounts, UncountedMove DEF StructsInv
<1>18. /\ Divided(held[q], Hand(t), CacheContent(c), ToSetOf(bucket[q][s]))
       /\ CacheContent(c) \subseteq live
  BY <1>4, Four
<1>19. CacheContent(c) = ToSetOf(l) /\ Hand(t) = {}
  BY <1>4, <1>6 DEF CacheContent, Hand
<1>20. PICK A, H, C, S : A = held[q] /\ H = {b} /\ C = ToSetOf(r) /\ S = ToSetOf(bucket[q][s])
  OBVIOUS
<1>21. Balanced(q, t, c, s, A, H, C, S, F, F)
  <2>1. A = held'[q] /\ H = Hand(t)' /\ S = ToSetOf(bucket'[q][s]) /\ C = ToSetOf(cache'[c].bufs)
    BY <1>3, <1>10, <1>12, <1>20
  <2>2. Divided(A, H, C, S)
    BY <1>8, <1>18, <1>19, <1>20 DEF Divided
  <2>3. Total(A, H, C, S) = (Total(held[q], Hand(t), CacheContent(c), ToSetOf(bucket[q][s])) \ F) \cup F
    BY <1>8, <1>16, <1>19, <1>20 DEF Total
  <2>4. live' = (live \ F) \cup F /\ F \cap live = {}
    BY <1>3, <1>16
  <2> QED BY <1>3, <1>16, <2>1, <2>2, <2>3, <2>4 DEF Balanced
<1> QED BY <1>4, <1>9, <1>10, <1>13, <1>14, <1>15, <1>17, <1>21, Moves

-----------------------------------------------------------------------------
\* An allocation that refills the cache: the buffers and the totals.
LEMMA AllocRefillKeeps ==
  ASSUME PoolConstants, PoolInv, NEW t \in Users, AllocRefill(t)
  PROVE  PoolInv'
<1>1. PICK c : c = at[t].c
  OBVIOUS
<1>2. PICK q : q = at[t].pool
  OBVIOUS
<1>3. PICK s : s = cache[c].shard
  OBVIOUS
<1>4. PICK l : l = bucket[q][s]
  OBVIOUS
<1>5. PICK n : n = IF Len(l) < BatchSize THEN Len(l) ELSE BatchSize
  OBVIOUS
<1>6. at[t].pc = "alloc" /\ c # NoCache /\ cache[c].bufs = <<>> /\ UNCHANGED <<pool, structs, live, held>>
  BY <1>1 DEF AllocRefill
<1>7. /\ StructsInv /\ PoolTypes /\ InBounds /\ BuffersAtOnePlace /\ Orderly
      /\ q \in Pools /\ c \in CacheIds /\ c \in structs /\ at[t].buf = NoBuf
      /\ cache[c].pool = q /\ s \in Shards /\ l \in Seq(Buffers)
  BY <1>1, <1>2, <1>3, <1>4, <1>6, AtWork
<1>8. StructsInv'
  BY <1>7, AllocRefillStruct
<1>9. CASE n = 0
  <2>1. Goto(t, "alloc_shard") /\ UNCHANGED <<bucket, cache>>
    BY <1>1, <1>2, <1>3, <1>4, <1>5, <1>9 DEF AllocRefill
  <2>2. SameHands /\ (\A u \in Users \ {t} : at'[u] = at[u]) /\ at'[t].pc # "exit_clean"
    BY <1>7, <2>1 DEF Goto, SameHands, PoolTypes, Locals
  <2> QED BY <1>6, <1>8, <2>1, <2>2, StillCaches, StillCounts, QuietInv
<1>10. CASE n # 0
  <2>1. PICK r, k, b : r = SubSeq(l, 1, n - 1) /\ k = SubSeq(l, n + 1, Len(l)) /\ b = l[n]
    OBVIOUS
  <2>2. /\ bucket' = [bucket EXCEPT ![q][s] = k]
        /\ cache' = [cache EXCEPT ![c].bufs = r] /\ Found(t, b)
    BY <1>1, <1>2, <1>3, <1>4, <1>5, <1>10, <2>1 DEF AllocRefill
  <2>3. n \in 1 .. Len(l) /\ n - 1 <= CacheSize
    BY <1>5, <1>7, <1>10 DEF PoolConstants
  <2>4. IsInjective(l) /\ Len(l) <= MaxFree
    BY <1>4, <1>7 DEF Orderly, InBounds
  <2>5. /\ r \in Seq(Buffers) /\ k \in Seq(Buffers) /\ IsInjective(r) /\ IsInjective(k) /\ b \in Buffers
        /\ Len(r) = n - 1 /\ Len(k) = Len(l) - n
        /\ ToSetOf(l) = ToSetOf(r) \cup ToSetOf(k) \cup {b}
        /\ ToSetOf(r) \cap ToSetOf(k) = {} /\ b \notin ToSetOf(r) /\ b \notin ToSetOf(k)
    <3>1. l \in Seq(Buffers) /\ IsInjective(l) /\ n \in 1 .. Len(l)
      BY <1>7, <2>3, <2>4
    <3>2. r = SubSeq(l, 1, n - 1) /\ k = SubSeq(l, n + 1, Len(l))
      BY <2>1
    <3>3. /\ r \in Seq(Buffers) /\ k \in Seq(Buffers) /\ IsInjective(r) /\ IsInjective(k) /\ l[n] \in Buffers
          /\ Len(r) = n - 1 /\ Len(k) = Len(l) - n
          /\ ToSetOf(l) = ToSetOf(r) \cup ToSetOf(k) \cup {l[n]}
          /\ ToSetOf(r) \cap ToSetOf(k) = {} /\ l[n] \notin ToSetOf(r) /\ l[n] \notin ToSetOf(k)
      <4>1. Refilled(Buffers, l, n, r, k)
        BY <3>1, <3>2, RefillIs
      <4> QED BY <4>1 DEF Refilled
    <3>4. b = l[n]
      BY <2>1
    <3> QED BY <3>3, <3>4
  <2>6. /\ at'[t].buf = b /\ at'[t].pool = q /\ at'[t].pc # "exit_clean"
        /\ \A v \in Users \ {t} : at'[v] = at[v]
        /\ Hand(t)' = {b}
    BY <1>2, <1>6, <1>7, <2>2, <2>5, AfterFound
  <2>7. /\ cache'[c].bufs = r /\ cache'[c].pool = q
        /\ \A d \in CacheIds \ {c} : cache'[d] = cache[d]
    BY <1>7, <2>2, <2>5, BufsChange DEF SameState
  <2>8. /\ bucket'[q][s] = k
        /\ \A p \in Pools, o \in Shards : p # q \/ o # s => bucket'[p][o] = bucket[p][o]
    <3>1. bucket' = [bucket EXCEPT ![q][s] = k] /\ k \in Seq(Buffers)
      BY <2>2, <2>5
    <3>2. PoolTypes /\ q \in Pools /\ s \in Shards
      BY <1>7
    <3>3. BucketGets(q, s, k)
      BY <3>1, <3>2, BucketGot
    <3> QED BY <3>3 DEF BucketGets
  <2>9. Around(q, t, c, s)
    BY <1>6, <2>6, <2>7, <2>8 DEF Around
  <2>10. Within(q, t, c)
    BY <1>7, <2>6, <2>7 DEF Within
  <2>11. Fits(q, c, s)
    <3>1. Len(k) <= MaxFree
      BY <1>7, <2>3, <2>4, <2>5 DEF PoolConstants
    <3> QED BY <2>3, <2>5, <2>7, <2>8, <3>1 DEF Fits
  <2>12. PICK F \in SUBSET Buffers : F = {}
    OBVIOUS
  <2>13. Counted(q, F, F)
    BY <1>6, <1>7, <1>8, <2>12, StillCounts, UncountedMove DEF StructsInv
  <2>14. Divided(held[q], Hand(t), CacheContent(c), ToSetOf(bucket[q][s]))
    BY <1>7, Four
  <2>15. CacheContent(c) = {} /\ Hand(t) = {} /\ ToSetOf(bucket[q][s]) = ToSetOf(l)
    BY <1>4, <1>6, <1>7, EmptyIs DEF CacheContent, Hand
  <2>16. PICK A, H, C, S : A = held[q] /\ H = {b} /\ C = ToSetOf(r) /\ S = ToSetOf(k)
    OBVIOUS
  <2>17. Balanced(q, t, c, s, A, H, C, S, F, F)
    <3>1. A = held'[q] /\ H = Hand(t)' /\ S = ToSetOf(bucket'[q][s]) /\ C = ToSetOf(cache'[c].bufs)
      BY <1>6, <2>6, <2>7, <2>8, <2>16
    <3>2. Divided(A, H, C, S)
      BY <2>5, <2>14, <2>15, <2>16 DEF Divided
    <3>3. Total(A, H, C, S) = (Total(held[q], Hand(t), CacheContent(c), ToSetOf(bucket[q][s])) \ F) \cup F
      BY <2>5, <2>12, <2>15, <2>16 DEF Total
    <3>4. live' = (live \ F) \cup F /\ F \cap live = {}
      BY <1>6, <2>12
    <3> QED BY <1>6, <2>12, <3>1, <3>2, <3>3, <3>4 DEF Balanced
  <2> QED BY <1>7, <1>8, <2>6, <2>9, <2>10, <2>11, <2>13, <2>17, Moves
<1> QED BY <1>9, <1>10

\* The shard in turn.
LEMMA InTurn ==
  ASSUME PoolConstants, PoolTypes, NEW t \in Users, at[t].pool \in Pools, pool' = NextShard(t)
  PROVE  SameCounts
BY NextShardIs DEF SameCounts

\* An allocation from a shard, without a cache: the buffers and the totals.
LEMMA AllocShardKeeps ==
  ASSUME PoolConstants, PoolInv, NEW t \in Users, AllocShard(t)
  PROVE  PoolInv'
<1>1. PICK q : q = at[t].pool
  OBVIOUS
<1>2. PICK s : s = ShardOf(t)
  OBVIOUS
<1>3. PICK l : l = bucket[q][s]
  OBVIOUS
<1>4. at[t].pc \in {"alloc", "alloc_shard"} /\ pool' = NextShard(t) /\ UNCHANGED <<cache, structs, live, held>>
  BY DEF AllocShard
<1>5. /\ StructsInv /\ PoolTypes /\ InBounds /\ BuffersAtOnePlace /\ Orderly /\ q \in Pools /\ at[t].buf = NoBuf
  BY <1>1, <1>4, AtWork
<1>6. s \in Shards
  BY <1>1, <1>2, <1>5, ShardOfIs
<1>7. StructsInv' /\ SameCounts
  BY <1>1, <1>4, <1>5, AllocShardStruct, InTurn
<1>8. CASE l = <<>>
  <2>1. Goto(t, "alloc_heap") /\ UNCHANGED bucket
    BY <1>1, <1>2, <1>3, <1>8 DEF AllocShard
  <2>2. SameHands /\ (\A u \in Users \ {t} : at'[u] = at[u]) /\ at'[t].pc # "exit_clean"
    BY <1>5, <2>1 DEF Goto, SameHands, PoolTypes, Locals
  <2> QED BY <1>4, <1>7, <2>1, <2>2, StillCaches, QuietInv
<1>9. CASE l # <<>>
  <2>1. PICK b, k : b = Head(l) /\ k = Tail(l)
    OBVIOUS
  <2>2. l \in Seq(Buffers) /\ IsInjective(l) /\ Len(l) <= MaxFree
    BY <1>3, <1>5, <1>6 DEF PoolTypes, Orderly, InBounds
  <2>3. /\ b \in Buffers /\ k \in Seq(Buffers) /\ Len(k) = Len(l) - 1
        /\ IsInjective(k) /\ ToSetOf(l) = ToSetOf(k) \cup {b} /\ b \notin ToSetOf(k)
    BY <1>9, <2>1, <2>2, EndsIs, TailIs DEF Splits
  <2>4. Found(t, b) /\ bucket' = [bucket EXCEPT ![q][s] = k]
    <3>1. Found(t, b) /\ bucket' = [bucket EXCEPT ![q][s] = Tail(@)]
      BY <1>1, <1>2, <1>3, <1>9, <2>1 DEF AllocShard
    <3> QED BY <1>3, <1>5, <1>6, <2>1, <3>1 DEF PoolTypes
  <2>5. /\ at'[t].buf = b /\ at'[t].pool = q /\ at'[t].pc # "exit_clean"
        /\ \A v \in Users \ {t} : at'[v] = at[v]
        /\ Hand(t)' = {b}
    BY <1>1, <1>4, <1>5, <2>3, <2>4, AfterFound
  <2>6. /\ bucket'[q][s] = k
        /\ \A p \in Pools, o \in Shards : p # q \/ o # s => bucket'[p][o] = bucket[p][o]
    <3>1. PoolTypes /\ q \in Pools /\ s \in Shards /\ k \in Seq(Buffers)
      BY <1>5, <1>6, <2>3
    <3>2. BucketGets(q, s, k)
      BY <2>4, <3>1, BucketGot
    <3> QED BY <3>2 DEF BucketGets
  <2>7. Around(q, t, NoCache, s)
    BY <1>4, <2>5, <2>6 DEF Around
  <2>8. Within(q, t, NoCache)
    BY <1>5, <2>5 DEF Within
  <2>9. Fits(q, NoCache, s)
    <3>1. Len(k) <= MaxFree
      BY <2>2, <2>3 DEF PoolConstants
    <3> QED BY <2>3, <2>6, <3>1 DEF Fits
  <2>10. PICK F \in SUBSET Buffers : F = {}
    OBVIOUS
  <2>11. Counted(q, F, F)
    BY <1>5, <1>7, <2>10, UncountedMove DEF StructsInv
  <2>12. Divided(held[q], Hand(t), CacheContent(NoCache), ToSetOf(bucket[q][s]))
    BY <1>5, <1>6, Four
  <2>13. CacheContent(NoCache) = {} /\ Hand(t) = {} /\ ToSetOf(bucket[q][s]) = ToSetOf(l)
    BY <1>3, <1>5 DEF CacheContent, Hand, PoolTypes, PoolConstants
  <2>14. PICK A, H, C, S : A = held[q] /\ H = {b} /\ C = {} /\ S = ToSetOf(k)
    OBVIOUS
  <2>15. Balanced(q, t, NoCache, s, A, H, C, S, F, F)
    <3>1. A = held'[q] /\ H = Hand(t)' /\ S = ToSetOf(bucket'[q][s])
      BY <1>4, <2>5, <2>6, <2>14
    <3>2. Divided(A, H, C, S)
      BY <2>3, <2>12, <2>13, <2>14 DEF Divided
    <3>3. Total(A, H, C, S) = (Total(held[q], Hand(t), CacheContent(NoCache), ToSetOf(bucket[q][s])) \ F) \cup F
      BY <2>3, <2>10, <2>13, <2>14 DEF Total
    <3>4. live' = (live \ F) \cup F /\ F \cap live = {}
      BY <1>4, <2>10
    <3> QED BY <2>10, <2>14, <3>1, <3>2, <3>3, <3>4 DEF Balanced
  <2>16. NoCache \in CacheIds \cup {NoCache} /\ NoCache \in structs \cup {NoCache}
    OBVIOUS
  <2> QED BY <1>5, <1>6, <1>7, <2>5, <2>7, <2>8, <2>9, <2>11, <2>15, <2>16, Moves
<1> QED BY <1>8, <1>9

-----------------------------------------------------------------------------
\* A batch from the heap is counted.
LEMMA AddedCount ==
  ASSUME PoolTypes, NEW q \in Pools, NEW n \in Nat, pool' = [pool EXCEPT ![q].total = @ + n + 1],
         NEW F, F = {}, NEW N, Cardinality(N) = n + 1
  PROVE  Counted(q, F, N)
<1>1. PICK k : k = pool[q].total + n + 1
  OBVIOUS
<1>2. pool[q].total \in Int /\ k \in Int
  BY <1>1 DEF PoolTypes, PoolStates
<1>3. pool' = [pool EXCEPT ![q].total = k]
  BY <1>1, <1>2 DEF PoolTypes, PoolStates
<1>4. pool'[q].total = k /\ SameLists /\ \A p \in Pools \ {q} : pool'[p].total = pool[p].total
  BY <1>2, <1>3, TotalChange
<1>5. Cardinality(F) = 0
  BY FS_EmptySet
<1> QED BY <1>1, <1>2, <1>4, <1>5 DEF Counted, SameLists

\* An allocation from the heap: the buffers and the totals.
LEMMA AllocHeapKeeps ==
  ASSUME PoolConstants, PoolInv, NEW t \in Users, AllocHeap(t)
  PROVE  PoolInv'
<1>1. PICK q : q = at[t].pool
  OBVIOUS
<1>2. PICK c : c = at[t].c
  OBVIOUS
<1>3. PICK m : m = SetToSeq(Buffers \ live)
  OBVIOUS
<1>4. at[t].pc = "alloc_heap" /\ UNCHANGED <<bucket, structs, held>>
  BY DEF AllocHeap
<1>5. /\ StructsInv /\ PoolTypes /\ InBounds /\ BuffersAtOnePlace /\ Orderly /\ q \in Pools /\ at[t].buf = NoBuf
      /\ c \in CacheIds \cup {NoCache} /\ c \in structs \cup {NoCache}
      /\ c # NoCache =>
           /\ c \in CacheIds /\ c \in structs /\ cache[c].pool = q
           /\ cache[c].bufs \in Seq(Buffers) /\ IsInjective(cache[c].bufs)
  BY <1>1, <1>2, <1>4, AtWork
<1>6. StructsInv'
  BY <1>5, AllocHeapStruct
<1>7. PICK s \in Shards : TRUE
  BY SomeShard
<1>8. CASE m = <<>>
  <2>1. at' = [at EXCEPT ![t] = Idle] /\ UNCHANGED <<pool, cache, live>>
    BY <1>3, <1>8 DEF AllocHeap
  <2>2. SameHands /\ (\A u \in Users \ {t} : at'[u] = at[u]) /\ at'[t].pc # "exit_clean"
    BY <1>5, <2>1 DEF Idle, SameHands, PoolTypes
  <2> QED BY <1>4, <1>6, <2>1, <2>2, StillCaches, StillCounts, QuietInv
<1>9. CASE m # <<>>
  <2>1. PICK n \in Nat :
           /\ n + 1 \in 1 .. Len(m)
           /\ m \in Seq(Buffers) /\ IsInjective(m) /\ ToSetOf(m) = Buffers \ live
           /\ n # 0 => c # NoCache /\ Len(cache[c].bufs) + n <= CacheSize
           /\ Found(t, Head(m))
           /\ live' = live \cup ToSetOf(SubSeq(m, 1, n + 1))
           /\ pool' = [pool EXCEPT ![q].total = @ + n + 1]
           /\ cache' = IF n = 0 THEN cache
                       ELSE [cache EXCEPT ![c].bufs = @ \o SubSeq(m, 2, n + 1)]
    BY <1>1, <1>2, <1>3, <1>5, <1>9, HeapIs
  <2>2. PICK r, k, b : r = SubSeq(m, 1, n + 1) /\ k = SubSeq(m, 2, n + 1) /\ b = Head(m)
    OBVIOUS
  <2>3. Taken(Buffers, m, n, r, k)
    <3>1. m \in Seq(Buffers) /\ IsInjective(m) /\ n + 1 <= Len(m)
      BY <2>1
    <3>2. r = SubSeq(m, 1, n + 1) /\ k = SubSeq(m, 2, n + 1)
      BY <2>2
    <3> QED BY <3>1, <3>2, TakenIs
  <2>4. PICK N : N = ToSetOf(r)
    OBVIOUS
  <2>5. /\ k \in Seq(Buffers) /\ IsInjective(k) /\ Len(k) = n /\ b \in Buffers
        /\ N = ToSetOf(k) \cup {b} /\ b \notin ToSetOf(k) /\ N \in SUBSET Buffers /\ N \cap live = {}
        /\ Cardinality(N) = n + 1 /\ live' = live \cup N /\ Found(t, b)
    <3>1. ToSetOf(m) = Buffers \ live /\ live' = live \cup ToSetOf(r) /\ Found(t, b)
      BY <2>1, <2>2
    <3> QED BY <2>2, <2>3, <2>4, <3>1 DEF Taken
  <2>6. /\ at'[t].buf = b /\ at'[t].pool = q /\ at'[t].pc # "exit_clean"
        /\ \A v \in Users \ {t} : at'[v] = at[v]
        /\ Hand(t)' = {b}
    BY <1>1, <1>4, <1>5, <2>5, AfterFound
  <2>7. PICK F \in SUBSET Buffers : F = {}
    OBVIOUS
  <2>8. Counted(q, F, N)
    <3>1. pool' = [pool EXCEPT ![q].total = @ + n + 1]
      BY <2>1
    <3>2. Cardinality(N) = n + 1
      BY <2>5
    <3> QED BY <1>5, <2>7, <3>1, <3>2, AddedCount
  <2>9. IsInjective(bucket'[q][s]) /\ Len(bucket'[q][s]) <= MaxFree
    BY <1>4, <1>5 DEF Orderly, InBounds
  <2>10. CASE n = 0
    <3>1. cache' = cache
      BY <2>1, <2>10
    <3>2. ToSetOf(k) = {}
      <4>1. k = <<>>
        BY <2>5, <2>10
      <4> QED BY <4>1, EmptyIs
    <3>3. Around(q, t, NoCache, s)
      BY <1>4, <2>6, <3>1 DEF Around
    <3>4. Within(q, t, NoCache)
      BY <1>5, <2>6 DEF Within
    <3>5. Fits(q, NoCache, s)
      BY <2>9 DEF Fits
    <3>6. /\ Divided(held[q], Hand(t), CacheContent(NoCache), ToSetOf(bucket[q][s]))
          /\ held[q] \subseteq live /\ ToSetOf(bucket[q][s]) \subseteq live
      BY <1>5, Four
    <3>7. CacheContent(NoCache) = {} /\ Hand(t) = {}
      BY <1>5 DEF CacheContent, Hand, PoolTypes, PoolConstants
    <3>8. PICK A, H, C, S : A = held[q] /\ H = {b} /\ C = {} /\ S = ToSetOf(bucket[q][s])
      OBVIOUS
    <3>9. Balanced(q, t, NoCache, s, A, H, C, S, F, N)
      <4>1. A = held'[q] /\ H = Hand(t)' /\ S = ToSetOf(bucket'[q][s])
        BY <1>4, <2>6, <3>8
      <4>2. Divided(A, H, C, S)
        BY <2>5, <3>6, <3>8 DEF Divided
      <4>3. Total(A, H, C, S) = (Total(held[q], Hand(t), CacheContent(NoCache), ToSetOf(bucket[q][s])) \ F) \cup N
        BY <2>5, <2>7, <3>2, <3>7, <3>8 DEF Total
      <4>4. live' = (live \ F) \cup N /\ N \cap live = {}
        BY <2>5, <2>7
      <4> QED BY <2>7, <3>8, <4>1, <4>2, <4>3, <4>4 DEF Balanced
    <3>10. NoCache \in CacheIds \cup {NoCache} /\ NoCache \in structs \cup {NoCache} /\ N \in SUBSET Buffers
      BY <2>5
    <3> QED BY <1>5, <1>6, <2>6, <2>8, <3>3, <3>4, <3>5, <3>9, <3>10, Moves
  <2>11. CASE n # 0
    <3>1. /\ c # NoCache /\ Len(cache[c].bufs) + n <= CacheSize
      BY <2>1, <2>11
    <3>2. PICK l : l = cache[c].bufs
      OBVIOUS
    <3>3. PICK o : o = l \o k
      OBVIOUS
    <3>4. c \in CacheIds /\ c \in structs /\ cache[c].pool = q /\ l \in Seq(Buffers) /\ IsInjective(l)
      BY <1>5, <3>1, <3>2
    <3>5. /\ Divided(held[q], Hand(t), CacheContent(c), ToSetOf(bucket[q][s]))
          /\ held[q] \subseteq live /\ ToSetOf(bucket[q][s]) \subseteq live /\ CacheContent(c) \subseteq live
      BY <1>5, Four
    <3>6. CacheContent(c) = ToSetOf(l) /\ Hand(t) = {}
      BY <1>5, <3>2, <3>4 DEF CacheContent, Hand
    <3>7. ToSetOf(l) \cap ToSetOf(k) = {}
      BY <2>5, <3>5, <3>6
    <3>8. IsInjective(o) /\ ToSetOf(o) = ToSetOf(l) \cup ToSetOf(k)
      BY <2>5, <3>3, <3>4, <3>7, ConcatSet
    <3>9. o \in Seq(Buffers) /\ Len(o) = Len(l) + n
      BY <2>5, <3>3, <3>4, ConcatIs
    <3>10. cache' = [cache EXCEPT ![c].bufs = o]
      <4>1. cache' = [cache EXCEPT ![c].bufs = @ \o k]
        BY <2>1, <2>2, <2>11
      <4> QED BY <1>5, <3>2, <3>3, <3>4, <4>1 DEF PoolTypes, Caches
    <3>11. /\ cache'[c].bufs = o /\ cache'[c].pool = q
           /\ \A d \in CacheIds \ {c} : cache'[d] = cache[d]
      BY <1>5, <3>4, <3>9, <3>10, BufsChange DEF SameState
    <3>12. Around(q, t, c, s)
      BY <1>4, <2>6, <3>11 DEF Around
    <3>13. Within(q, t, c)
      BY <1>5, <2>6, <3>4, <3>11 DEF Within
    <3>14. Fits(q, c, s)
      BY <2>9, <3>1, <3>2, <3>8, <3>9, <3>11 DEF Fits
    <3>15. PICK A, H, C, S : A = held[q] /\ H = {b} /\ C = ToSetOf(o) /\ S = ToSetOf(bucket[q][s])
      OBVIOUS
    <3>16. Balanced(q, t, c, s, A, H, C, S, F, N)
      <4>1. A = held'[q] /\ H = Hand(t)' /\ S = ToSetOf(bucket'[q][s]) /\ C = ToSetOf(cache'[c].bufs)
        BY <1>4, <2>6, <3>11, <3>15
      <4>2. Divided(A, H, C, S)
        BY <2>5, <3>5, <3>6, <3>8, <3>15 DEF Divided
      <4>3. Total(A, H, C, S) = (Total(held[q], Hand(t), CacheContent(c), ToSetOf(bucket[q][s])) \ F) \cup N
        BY <2>5, <2>7, <3>6, <3>8, <3>15 DEF Total
      <4>4. live' = (live \ F) \cup N /\ N \cap live = {}
        BY <2>5, <2>7
      <4> QED BY <2>7, <3>1, <4>1, <4>2, <4>3, <4>4 DEF Balanced
    <3>17. N \in SUBSET Buffers
      BY <2>5
    <3> QED BY <1>5, <1>6, <2>6, <2>8, <3>12, <3>13, <3>14, <3>16, <3>17, Moves
  <2> QED BY <2>10, <2>11
<1> QED BY <1>8, <1>9

-----------------------------------------------------------------------------
(* Steps between the application and the hand of t.                        *)
LEMMA HandOver ==
  ASSUME PoolConstants, PoolInv, StructsInv', NEW t \in Users, NEW q \in Pools, NEW b \in Buffers,
         UNCHANGED <<pool, bucket, cache, structs, live>>,
         \A v \in Users \ {t} : at'[v] = at[v], at'[t].pc # "exit_clean",
         \A p \in Pools \ {q} : held'[p] = held[p],
         \/ /\ b \in held[q] /\ at[t].buf = NoBuf /\ held'[q] = held[q] \ {b}
            /\ at'[t].buf = b /\ at'[t].pool = q
         \/ /\ at[t].buf = b /\ at[t].pool = q /\ at'[t].buf = NoBuf /\ held'[q] = held[q] \cup {b}
  PROVE  PoolInv'
<1>1. PoolTypes /\ BuffersAtOnePlace /\ Orderly /\ InBounds /\ PoolTypes'
  BY Apart DEF PoolInv, StructsInv
<1>2. PICK s \in Shards : TRUE
  BY SomeShard
<1>3. b # NoBuf
  BY DEF PoolConstants
<1>4. Divided(held[q], Hand(t), CacheContent(NoCache), ToSetOf(bucket[q][s]))
  BY <1>1, Four
<1>5. Divided(held[q], Hand(t), {}, ToSetOf(bucket[q][s])) /\ CacheContent(NoCache) = {}
  BY <1>1, <1>4 DEF CacheContent, PoolTypes, PoolConstants
<1>6. /\ Hand(t) = {at[t].buf} \ {NoBuf} /\ Hand(t)' = {at'[t].buf} \ {NoBuf}
  BY DEF Hand
<1>7. PICK A, H, C, S : A = held'[q] /\ H = Hand(t)' /\ C = {} /\ S = ToSetOf(bucket'[q][s])
  OBVIOUS
<1>8. PICK F \in SUBSET Buffers : F = {}
  OBVIOUS
<1>9. Divided(A, H, C, S) /\ A \cup H = held[q] \cup Hand(t)
  <2>1. CASE b \in held[q] /\ at[t].buf = NoBuf /\ held'[q] = held[q] \ {b} /\ at'[t].buf = b
    <3>1. A = held[q] \ {b} /\ H = {b} /\ Hand(t) = {} /\ S = ToSetOf(bucket[q][s])
      BY <1>3, <1>6, <1>7, <2>1
    <3> QED BY <1>5, <1>7, <2>1, <3>1 DEF Divided
  <2>2. CASE at[t].buf = b /\ at[t].pool = q /\ at'[t].buf = NoBuf /\ held'[q] = held[q] \cup {b}
    <3>1. A = held[q] \cup {b} /\ H = {} /\ Hand(t) = {b} /\ S = ToSetOf(bucket[q][s])
      BY <1>3, <1>6, <1>7, <2>2
    <3> QED BY <1>5, <1>7, <3>1 DEF Divided
  <2> QED BY <2>1, <2>2
<1>10. Balanced(q, t, NoCache, s, A, H, C, S, F, F)
  <2>1. Total(A, H, C, S) = (Total(held[q], Hand(t), CacheContent(NoCache), ToSetOf(bucket[q][s])) \ F) \cup F
    BY <1>5, <1>7, <1>8, <1>9 DEF Total
  <2>2. live' = (live \ F) \cup F /\ F \cap live = {}
    BY <1>8
  <2> QED BY <1>7, <1>8, <1>9, <2>1, <2>2 DEF Balanced
<1>11. Around(q, t, NoCache, s)
  BY DEF Around
<1>12. Within(q, t, NoCache)
  BY DEF Within
<1>13. Fits(q, NoCache, s)
  BY <1>1 DEF Fits, Orderly, InBounds
<1>14. Counted(q, F, F)
  BY <1>1, <1>8, StillCounts, UncountedMove
<1>15. NoCache \in CacheIds \cup {NoCache} /\ NoCache \in structs \cup {NoCache}
  OBVIOUS
<1> QED BY <1>10, <1>11, <1>12, <1>13, <1>14, <1>15, Moves

\* The start of a free: the buffers and the totals.
LEMMA FreeCallKeeps ==
  ASSUME PoolConstants, PoolInv, NEW t \in Users, NEW p \in Pools, NEW b \in Buffers, aura_buffer_free(t, p, b)
  PROVE  PoolInv'
<1>0. PoolTypes /\ StructsInv
  BY DEF PoolInv, StructsInv
<1>1. b \in held[p] /\ Call(t, p, "free", b) /\ held' = [held EXCEPT ![p] = @ \ {b}]
  BY DEF aura_buffer_free
<1>2. held' \in [Pools -> SUBSET Buffers] /\ held'[p] = held[p] \ {b} /\ \A q \in Pools \ {p} : held'[q] = held[q]
  BY <1>0, <1>1 DEF PoolTypes
<1>3. StructsInv'
  <2>1. "free" \in {"alloc", "free"} /\ "free" # "alloc" /\ b \in Buffers \cup {NoBuf}
    OBVIOUS
  <2> QED BY <1>0, <1>1, <1>2, <2>1, CallStruct
<1>4. UNCHANGED <<pool, bucket, cache, structs, live>>
  BY <1>1 DEF Call
<1>5. at[t].buf = NoBuf
  BY <1>0, <1>1, Everybody DEF Call, HandSound, Idle
<1>6. (\A v \in Users \ {t} : at'[v] = at[v]) /\ at'[t].pc # "exit_clean" /\ at'[t].buf = b /\ at'[t].pool = p
  BY <1>0, <1>1 DEF Call, PoolTypes, Locals, Idle
<1> QED BY <1>1, <1>2, <1>3, <1>4, <1>5, <1>6, HandOver

\* The buffer is handed out: the buffers and the totals.
LEMMA TrackKeeps ==
  ASSUME PoolConstants, PoolInv, NEW t \in Users, Track(t)
  PROVE  PoolInv'
<1>1. StructsInv' /\ PoolTypes /\ StructsInv
  BY TrackStruct DEF PoolInv, StructsInv
<1>2. at[t].pc = "track" /\ UNCHANGED <<pool, bucket, cache, structs, live>>
  BY DEF Track
<1>3. PICK q, b : q = at[t].pool /\ b = at[t].buf
  OBVIOUS
<1>4. q \in Pools /\ b \in Buffers
  BY <1>1, <1>2, <1>3, Everybody DEF HandSound, Calling
<1>5. CASE held' = [held EXCEPT ![q] = @ \cup {b}] /\ at' = [at EXCEPT ![t] = Idle]
  <2>1. held'[q] = held[q] \cup {b} /\ \A p \in Pools \ {q} : held'[p] = held[p]
    BY <1>1, <1>4, <1>5 DEF PoolTypes
  <2>2. (\A v \in Users \ {t} : at'[v] = at[v]) /\ at'[t].pc # "exit_clean" /\ at'[t].buf = NoBuf
    BY <1>1, <1>5 DEF PoolTypes, Idle
  <2> QED BY <1>1, <1>2, <1>3, <1>4, <2>1, <2>2, HandOver
<1>6. CASE at' = [at EXCEPT ![t] = [Idle EXCEPT !.pc = "lookup", !.op = "free", !.pool = q, !.buf = b]] /\ UNCHANGED held
  <2>1. SameHands /\ (\A u \in Users \ {t} : at'[u] = at[u]) /\ at'[t].pc # "exit_clean"
    BY <1>1, <1>3, <1>6 DEF Idle, SameHands, PoolTypes
  <2> QED BY <1>1, <1>2, <1>6, <2>1, StillCaches, StillCounts, QuietInv
<1> QED BY <1>3, <1>5, <1>6 DEF Track

\* A free into the cache: the buffers and the totals.
LEMMA FreeCacheKeeps ==
  ASSUME PoolConstants, PoolInv, NEW t \in Users, FreeCache(t)
  PROVE  PoolInv'
<1>1. PICK q, c, b, l : q = at[t].pool /\ c = at[t].c /\ b = at[t].buf /\ l = cache[c].bufs
  OBVIOUS
<1>2. at[t].pc = "free" /\ c # NoCache /\ Len(l) < CacheSize /\ at' = [at EXCEPT ![t] = Idle] /\ UNCHANGED <<pool, bucket, structs, held>>
  BY <1>1 DEF FreeCache
<1>3. /\ StructsInv /\ PoolTypes /\ InBounds /\ BuffersAtOnePlace /\ Orderly /\ q \in Pools /\ b \in Buffers
      /\ c \in CacheIds /\ c \in structs /\ cache[c].pool = q /\ l \in Seq(Buffers) /\ IsInjective(l)
      /\ cache[c].shard \in Shards /\ ~cache[c].cleaned_up
  BY <1>1, <1>2, AtWork
<1>4. StructsInv'
  BY <1>3, FreeCacheStruct
<1>5. PICK s \in Shards : s = cache[c].shard
  BY <1>3
<1>6. PICK r : r = Append(l, b)
  OBVIOUS
<1>7. UNCHANGED live /\ cache' = [cache EXCEPT ![c].bufs = r]
  <2>1. cache' = [cache EXCEPT ![c].bufs = Append(@, b)] /\ UNCHANGED live
    BY <1>1, <1>3 DEF FreeCache
  <2> QED BY <1>1, <1>3, <1>6, <2>1 DEF PoolTypes, Caches
<1>8. Divided(held[q], Hand(t), CacheContent(c), ToSetOf(bucket[q][s]))
  BY <1>3, Four
<1>9. CacheContent(c) = ToSetOf(l) /\ Hand(t) = {b}
  BY <1>1, <1>3 DEF CacheContent, Hand, PoolConstants
<1>10. b \notin ToSetOf(l)
  BY <1>8, <1>9 DEF Divided
<1>11. r \in Seq(Buffers) /\ IsInjective(r) /\ ToSetOf(r) = ToSetOf(l) \cup {b} /\ Len(r) = Len(l) + 1
  BY <1>3, <1>6, <1>10, AppendIs
<1>12. (\A v \in Users \ {t} : at'[v] = at[v]) /\ at'[t].pc # "exit_clean" /\ at'[t].buf = NoBuf /\ Hand(t)' = {}
  BY <1>2, <1>3 DEF PoolTypes, Idle, Hand
<1>13. /\ cache'[c].bufs = r /\ cache'[c].pool = q
       /\ \A d \in CacheIds \ {c} : cache'[d] = cache[d]
  BY <1>3, <1>7, <1>11, BufsChange DEF SameState
<1>14. Around(q, t, c, s)
  BY <1>2, <1>12, <1>13 DEF Around
<1>15. Within(q, t, c)
  BY <1>1, <1>3, <1>12, <1>13 DEF Within
<1>16. Fits(q, c, s)
  <2>1. Len(r) <= CacheSize
    BY <1>2, <1>3, <1>11 DEF PoolConstants
  <2>2. IsInjective(bucket'[q][s]) /\ Len(bucket'[q][s]) <= MaxFree
    BY <1>2, <1>3 DEF InBounds, Orderly
  <2> QED BY <1>11, <1>13, <2>1, <2>2 DEF Fits
<1>17. PICK F \in SUBSET Buffers : F = {}
  OBVIOUS
<1>18. Counted(q, F, F)
  BY <1>2, <1>3, <1>4, <1>17, StillCounts, UncountedMove DEF StructsInv
<1>20. PICK A, H, C, S : A = held[q] /\ H = {} /\ C = ToSetOf(r) /\ S = ToSetOf(bucket[q][s])
  OBVIOUS
<1>21. Balanced(q, t, c, s, A, H, C, S, F, F)
  <2>1. A = held'[q] /\ H = Hand(t)' /\ S = ToSetOf(bucket'[q][s]) /\ C = ToSetOf(cache'[c].bufs)
    BY <1>2, <1>12, <1>13, <1>20
  <2>2. Divided(A, H, C, S)
    BY <1>8, <1>9, <1>11, <1>20 DEF Divided
  <2>3. Total(A, H, C, S) = (Total(held[q], Hand(t), CacheContent(c), ToSetOf(bucket[q][s])) \ F) \cup F
    BY <1>9, <1>11, <1>17, <1>20 DEF Total
  <2>4. live' = (live \ F) \cup F /\ F \cap live = {}
    BY <1>7, <1>17
  <2> QED BY <1>2, <1>17, <2>1, <2>2, <2>3, <2>4 DEF Balanced
<1> QED BY <1>3, <1>4, <1>12, <1>14, <1>15, <1>16, <1>18, <1>21, Moves

-----------------------------------------------------------------------------
\* What goes back to the heap is taken off.
LEMMA TakenOff ==
  ASSUME NEW q \in Pools, PoolTypes, NEW P \in [Pools -> PoolStates],
         \A p \in Pools : P[p].stage = pool[p].stage /\ P[p].total = pool[p].total,
         NEW F \in SUBSET Buffers, PoolConstants, NEW N, N = {},
         NEW n, n = Cardinality(F), pool' = [P EXCEPT ![q].total = @ - n]
  PROVE  Counted(q, F, N)
<1>1. n \in Nat /\ Cardinality(N) = 0
  BY Finite, FS_EmptySet
<1>2. PICK k : k = P[q].total - n
  OBVIOUS
<1>3. P[q].total \in Int /\ k \in Int
  BY <1>1, <1>2 DEF PoolStates
<1>4. pool' = [P EXCEPT ![q].total = k]
  BY <1>2 DEF PoolStates
<1>5. /\ pool'[q].total = k
      /\ \A p \in Pools : pool'[p].stage = P[p].stage
      /\ \A p \in Pools \ {q} : pool'[p].total = P[p].total
  <2>1. PICK Q : Q = pool'
    OBVIOUS
  <2>2. Q = [P EXCEPT ![q].total = k]
    BY <1>4, <2>1
  <2>3. /\ Q[q].total = k
        /\ \A p \in Pools : Q[p].list = P[p].list /\ Q[p].stage = P[p].stage
        /\ \A p \in Pools \ {q} : Q[p].total = P[p].total
    BY <1>3, <2>2, SetTotal
  <2> QED BY <2>1, <2>3
<1>6. \A p \in Pools : pool[p].total \in Int
  BY DEF PoolTypes, PoolStates
<1> QED BY <1>1, <1>2, <1>5, <1>6 DEF Counted

\* A free into a shard or to the heap: the buffers and the totals.
LEMMA FreeShardKeeps ==
  ASSUME PoolConstants, PoolInv, NEW t \in Users, FreeShard(t)
  PROVE  PoolInv'
<1>1. PICK q, s, b, l : q = at[t].pool /\ s = ShardOf(t) /\ b = at[t].buf /\ l = bucket[q][s]
  OBVIOUS
<1>2. at[t].pc = "free" /\ at' = [at EXCEPT ![t] = Idle] /\ UNCHANGED <<cache, structs, held>>
  BY DEF FreeShard
<1>3. /\ StructsInv /\ PoolTypes /\ InBounds /\ BuffersAtOnePlace /\ Orderly /\ q \in Pools /\ b \in Buffers
  BY <1>1, <1>2, AtWork
<1>4. s \in Shards
  BY <1>1, <1>3, ShardOfIs
<1>5. StructsInv'
  BY <1>3, FreeShardStruct
<1>6. l \in Seq(Buffers) /\ IsInjective(l) /\ Len(l) <= MaxFree
  BY <1>1, <1>3, <1>4 DEF PoolTypes, Orderly, InBounds
<1>7. Divided(held[q], Hand(t), CacheContent(NoCache), ToSetOf(bucket[q][s]))
  BY <1>3, <1>4, Four
<1>8. CacheContent(NoCache) = {} /\ Hand(t) = {b} /\ ToSetOf(bucket[q][s]) = ToSetOf(l)
  BY <1>1, <1>3 DEF CacheContent, Hand, PoolTypes, PoolConstants
<1>9. b \notin ToSetOf(l) /\ b \notin held[q]
  BY <1>7, <1>8 DEF Divided
<1>10. (\A v \in Users \ {t} : at'[v] = at[v]) /\ at'[t].pc # "exit_clean" /\ at'[t].buf = NoBuf /\ Hand(t)' = {}
  BY <1>2, <1>3 DEF PoolTypes, Idle, Hand
<1>11. Within(q, t, NoCache)
  BY <1>1, <1>10 DEF Within
<1>12. NoCache \in CacheIds \cup {NoCache} /\ NoCache \in structs \cup {NoCache}
  OBVIOUS
<1>13. PICK N \in SUBSET Buffers : N = {}
  OBVIOUS
<1>14. CASE Len(l) >= MaxFree
  <2>1. live' = live \ {b} /\ pool' = [NextShard(t) EXCEPT ![q].total = @ - 1] /\ UNCHANGED bucket
    BY <1>1, <1>14 DEF FreeShard
  <2>2. PICK F \in SUBSET Buffers : F = {b}
    BY <1>3
  <2>3. 1 = Cardinality(F)
    BY <2>2, FS_Singleton
  <2>4. PICK P : P = NextShard(t)
    OBVIOUS
  <2>5. P \in [Pools -> PoolStates] /\ \A p \in Pools : P[p].stage = pool[p].stage /\ P[p].total = pool[p].total
    BY <1>1, <1>3, <2>4, NextShardIs
  <2>6. pool' = [P EXCEPT ![q].total = @ - 1]
    BY <2>1, <2>4
  <2>7. Counted(q, F, N)
    BY <1>3, <1>13, <2>3, <2>5, <2>6, TakenOff
  <2>8. Around(q, t, NoCache, s)
    BY <1>2, <1>10, <2>1 DEF Around
  <2>9. Fits(q, NoCache, s)
    BY <1>1, <1>6, <2>1 DEF Fits
  <2>10. PICK A, H, C, S : A = held[q] /\ H = {} /\ C = {} /\ S = ToSetOf(l)
    OBVIOUS
  <2>11. Balanced(q, t, NoCache, s, A, H, C, S, F, N)
    <3>1. A = held'[q] /\ H = Hand(t)' /\ S = ToSetOf(bucket'[q][s])
      BY <1>1, <1>2, <1>10, <2>1, <2>10
    <3>2. Divided(A, H, C, S)
      BY <1>7, <1>8, <2>10 DEF Divided
    <3>3. /\ Total(A, H, C, S) = (Total(held[q], Hand(t), CacheContent(NoCache), ToSetOf(bucket[q][s])) \ F) \cup N
          /\ F \subseteq Total(held[q], Hand(t), CacheContent(NoCache), ToSetOf(bucket[q][s]))
      BY <1>8, <1>9, <1>13, <2>2, <2>10 DEF Total
    <3>4. live' = (live \ F) \cup N /\ N \cap live = {}
      BY <1>13, <2>1, <2>2
    <3> QED BY <2>10, <3>1, <3>2, <3>3, <3>4 DEF Balanced
  <2> QED BY <1>3, <1>4, <1>5, <1>10, <1>11, <1>12, <2>7, <2>8, <2>9, <2>11, Moves
<1>15. CASE ~(Len(l) >= MaxFree)
  <2>1. UNCHANGED live /\ pool' = NextShard(t) /\ bucket' = [bucket EXCEPT ![q][s] = <<b>> \o @]
    BY <1>1, <1>15 DEF FreeShard
  <2>2. PICK o : o = <<b>>
    OBVIOUS
  <2>3. o \in Seq(Buffers) /\ IsInjective(o) /\ ToSetOf(o) = {b} /\ Len(o) = 1
    BY <1>3, <2>2, OneIs
  <2>4. PICK k : k = o \o l
    OBVIOUS
  <2>5. k \in Seq(Buffers) /\ Len(k) = 1 + Len(l)
    <3>1. o \in Seq(Buffers) /\ l \in Seq(Buffers) /\ Len(o) = 1
      BY <1>6, <2>3
    <3>2. o \o l \in Seq(Buffers) /\ Len(o \o l) = Len(o) + Len(l)
      BY <3>1, ConcatIs
    <3> QED BY <2>4, <3>1, <3>2
  <2>6. IsInjective(k) /\ ToSetOf(k) = {b} \cup ToSetOf(l)
    <3>1. ToSetOf(o) \cap ToSetOf(l) = {}
      BY <1>9, <2>3
    <3>2. IsInjective(k) /\ ToSetOf(k) = ToSetOf(o) \cup ToSetOf(l)
      BY <1>6, <2>3, <2>4, <3>1, ConcatSet
    <3> QED BY <2>3, <3>2
  <2>7. bucket' = [bucket EXCEPT ![q][s] = k]
    BY <1>1, <1>3, <1>4, <2>1, <2>2, <2>4 DEF PoolTypes
  <2>8. /\ bucket'[q][s] = k
        /\ \A p \in Pools, r \in Shards : p # q \/ r # s => bucket'[p][r] = bucket[p][r]
    <3>1. PoolTypes /\ q \in Pools /\ s \in Shards /\ k \in Seq(Buffers)
      BY <1>3, <1>4, <2>5
    <3>2. BucketGets(q, s, k)
      BY <2>7, <3>1, BucketGot
    <3> QED BY <3>2 DEF BucketGets
  <2>9. SameCounts
    BY <1>1, <1>3, <2>1, InTurn
  <2>10. Counted(q, N, N)
    BY <1>3, <1>5, <1>13, <2>9, UncountedMove DEF StructsInv
  <2>11. Around(q, t, NoCache, s)
    BY <1>2, <1>10, <2>8 DEF Around
  <2>12. Fits(q, NoCache, s)
    <3>1. Len(k) <= MaxFree
      BY <1>6, <1>15, <2>5 DEF PoolConstants
    <3> QED BY <2>6, <2>8, <3>1 DEF Fits
  <2>13. PICK A, H, C, S : A = held[q] /\ H = {} /\ C = {} /\ S = ToSetOf(k)
    OBVIOUS
  <2>14. Balanced(q, t, NoCache, s, A, H, C, S, N, N)
    <3>1. A = held'[q] /\ H = Hand(t)' /\ S = ToSetOf(bucket'[q][s])
      BY <1>2, <1>10, <2>8, <2>13
    <3>2. Divided(A, H, C, S)
      BY <1>7, <1>8, <1>9, <2>6, <2>13 DEF Divided
    <3>3. Total(A, H, C, S) = (Total(held[q], Hand(t), CacheContent(NoCache), ToSetOf(bucket[q][s])) \ N) \cup N
      BY <1>8, <1>13, <2>6, <2>13 DEF Total
    <3>4. live' = (live \ N) \cup N /\ N \cap live = {}
      BY <1>13, <2>1
    <3> QED BY <1>13, <2>13, <3>1, <3>2, <3>3, <3>4 DEF Balanced
  <2> QED BY <1>3, <1>4, <1>5, <1>10, <1>11, <1>12, <2>10, <2>11, <2>12, <2>14, Moves
<1> QED BY <1>14, <1>15

-----------------------------------------------------------------------------
(* A cache gives its buffers, or some, to its shard and to the heap.       *)

\* The step leaves f of the cache c and of the shard s of q.
Flushing(q, c, s, f) ==
  /\ structs' = structs /\ held' = held
  /\ Len(f.bufs) <= CacheSize /\ Len(f.shard) <= MaxFree
  /\ cache'[c].bufs = f.bufs /\ (cache'[c].pool = q \/ (cache'[c].pool = NoPool /\ f.bufs = <<>>))
  /\ \A d \in CacheIds \ {c} : cache'[d] = cache[d]
  /\ bucket'[q][s] = f.shard
  /\ \A p \in Pools, r \in Shards : p # q \/ r # s => bucket'[p][r] = bucket[p][r]
  /\ live' = live \ f.freed

\* Such a step keeps the invariant.
LEMMA FlushMove ==
  ASSUME PoolConstants, PoolInv, StructsInv', NEW u \in Users, NEW q \in Pools, NEW c \in CacheIds, c \in structs,
         cache[c].pool = q, NEW s \in Shards, NEW f, Shared(cache[c].bufs, bucket[q][s], f), Flushing(q, c, s, f),
         \A v \in Users \ {u} : at'[v] = at[v], at'[u].buf = at[u].buf, at'[u].pool = at[u].pool,
         at'[u].pc # "exit_clean", NEW F, F = f.freed, NEW N, N = {}, Counted(q, F, N)
  PROVE  PoolInv'
<1>1. PoolTypes /\ BuffersAtOnePlace
  BY DEF PoolInv, StructsInv
<1>2. PICK t : t = NoUser
  OBVIOUS
<1>3. t \notin Users /\ t \in Users \cup {NoUser} /\ c # NoCache
  BY <1>2 DEF PoolConstants
<1>4. Hand(t) = {} /\ Hand(t)' = {} /\ CacheContent(c) = ToSetOf(cache[c].bufs)
  BY <1>3 DEF Hand, CacheContent
<1>5. /\ Divided(held[q], Hand(t), CacheContent(c), ToSetOf(bucket[q][s]))
  BY <1>1, <1>3, Four
<1>6. F \in SUBSET Buffers /\ N \in SUBSET Buffers
  BY DEF Shared, Parts
<1>7. Around(q, t, c, s)
  BY DEF Around, Flushing
<1>8. Within(q, t, c)
  BY <1>3 DEF Within, Flushing
<1>9. Fits(q, c, s)
  BY DEF Fits, Flushing, Shared
<1>10. PICK A, H, C, S : A = held[q] /\ H = {} /\ C = ToSetOf(f.bufs) /\ S = ToSetOf(f.shard)
  OBVIOUS
<1>11. PICK B, L : B = ToSetOf(cache[c].bufs) /\ L = ToSetOf(bucket[q][s])
  OBVIOUS
<1>12. /\ C \subseteq B /\ F \subseteq B /\ C \cup S \cup F = B \cup L
       /\ C \cap S = {} /\ F \cap S = {} /\ F \cap C = {}
  BY <1>10, <1>11 DEF Shared
<1>13. A \cap B = {} /\ A \cap L = {} /\ B \cap L = {}
  BY <1>4, <1>5, <1>10, <1>11 DEF Divided
<1>14. Balanced(q, t, c, s, A, H, C, S, F, N)
  <2>1. A = held'[q] /\ H = Hand(t)' /\ S = ToSetOf(bucket'[q][s]) /\ C = ToSetOf(cache'[c].bufs)
    BY <1>4, <1>10 DEF Flushing
  <2>2. Divided(A, H, C, S)
    BY <1>10, <1>12, <1>13 DEF Divided
  <2>3. Total(held[q], Hand(t), CacheContent(c), ToSetOf(bucket[q][s])) = A \cup B \cup L
    BY <1>4, <1>10, <1>11 DEF Total
  <2>4. Total(A, H, C, S) = ((A \cup B \cup L) \ F) \cup N /\ F \subseteq A \cup B \cup L
    BY <1>10, <1>12, <1>13 DEF Total
  <2>5. live' = (live \ F) \cup N /\ N \cap live = {}
    BY DEF Flushing
  <2> QED BY <1>3, <2>1, <2>2, <2>3, <2>4, <2>5 DEF Balanced
<1> QED BY <1>3, <1>6, <1>7, <1>8, <1>9, <1>14, Moves

\* A flush before a free: the buffers and the totals.
LEMMA FreeFlushKeeps ==
  ASSUME PoolConstants, PoolInv, NEW t \in Users, FreeFlush(t)
  PROVE  PoolInv'
<1>1. PICK q, c : q = at[t].pool /\ c = at[t].c
  OBVIOUS
<1>2. PICK s, l : s = cache[c].shard /\ l = cache[c].bufs
  OBVIOUS
<1>3. PICK h : h = bucket[q][s]
  OBVIOUS
<1>4. PICK f : f = Flushed(l, h)
  OBVIOUS
<1>5. at[t].pc = "free" /\ c # NoCache /\ UNCHANGED <<at, structs, held>>
  BY <1>1 DEF FreeFlush
<1>6. /\ bucket' = [bucket EXCEPT ![q][s] = f.shard] /\ cache' = [cache EXCEPT ![c].bufs = f.bufs]
      /\ live' = live \ f.freed /\ pool' = [pool EXCEPT ![q].total = @ - Cardinality(f.freed)]
  BY <1>1, <1>2, <1>3, <1>4 DEF FreeFlush
<1>7. /\ StructsInv /\ PoolTypes /\ InBounds /\ BuffersAtOnePlace /\ Orderly /\ q \in Pools
      /\ c \in CacheIds /\ c \in structs /\ cache[c].pool = q /\ l \in Seq(Buffers) /\ IsInjective(l)
      /\ s \in Shards /\ h \in Seq(Buffers)
  BY <1>1, <1>2, <1>3, <1>5, AtWork
<1>8. StructsInv'
  BY <1>7, FreeFlushStruct
<1>9. IsInjective(h) /\ Len(h) <= MaxFree /\ Len(l) <= CacheSize
  BY <1>2, <1>3, <1>7 DEF Orderly, InBounds
<1>10. ToSetOf(l) \cap ToSetOf(h) = {}
  <2>1. Divided(held[q], Hand(t), CacheContent(c), ToSetOf(bucket[q][s]))
    BY <1>7, Four
  <2> QED BY <1>2, <1>3, <1>7, <2>1 DEF Divided, CacheContent
<1>11. Shared(l, h, f)
  BY <1>4, <1>7, <1>9, <1>10, FlushedShares
<1>12. f \in Parts /\ Len(f.bufs) <= Len(l) /\ Len(f.shard) <= MaxFree
  BY <1>4, <1>7, <1>9, FlushedIs
<1>13. f.bufs \in Seq(Buffers) /\ f.shard \in Seq(Buffers) /\ f.freed \in SUBSET Buffers
  BY <1>12 DEF Parts
<1>14. Flushing(q, c, s, f)
  <2>1. /\ cache'[c].bufs = f.bufs /\ cache'[c].pool = q
        /\ \A d \in CacheIds \ {c} : cache'[d] = cache[d]
    BY <1>6, <1>7, <1>13, BufsChange DEF SameState
  <2>2. /\ bucket'[q][s] = f.shard
        /\ \A p \in Pools, r \in Shards : p # q \/ r # s => bucket'[p][r] = bucket[p][r]
    <3>1. PICK k : k = f.shard
      OBVIOUS
    <3>2. bucket' = [bucket EXCEPT ![q][s] = k] /\ k \in Seq(Buffers)
      BY <1>6, <1>13, <3>1
    <3>3. PoolTypes /\ q \in Pools /\ s \in Shards
      BY <1>7
    <3>4. /\ bucket'[q][s] = k
          /\ \A p \in Pools, r \in Shards : p # q \/ r # s => bucket'[p][r] = bucket[p][r]
      <4>1. BucketGets(q, s, k)
        BY <3>2, <3>3, BucketGot
      <4> QED BY <4>1 DEF BucketGets
    <3> QED BY <3>1, <3>4
  <2>3. Len(f.bufs) <= CacheSize
    BY <1>7, <1>9, <1>12, <1>13 DEF PoolConstants
  <2> QED BY <1>5, <1>6, <1>12, <2>1, <2>2, <2>3 DEF Flushing
<1>15. PICK F \in SUBSET Buffers : F = f.freed
  BY <1>13
<1>16. PICK N : N = {}
  OBVIOUS
<1>17. Counted(q, F, N)
  <2>1. PICK n : n = Cardinality(F)
    OBVIOUS
  <2>2. pool' = [pool EXCEPT ![q].total = @ - n]
    BY <1>6, <1>15, <2>1
  <2>3. pool \in [Pools -> PoolStates]
    BY <1>7 DEF PoolTypes
  <2>4. \A p \in Pools : pool[p].stage = pool[p].stage /\ pool[p].total = pool[p].total
    OBVIOUS
  <2> QED BY <1>7, <1>16, <2>1, <2>2, <2>3, <2>4, TakenOff
<1>18. (\A v \in Users \ {t} : at'[v] = at[v]) /\ at'[t].buf = at[t].buf /\ at'[t].pool = at[t].pool /\ at'[t].pc # "exit_clean"
  BY <1>5
<1>19. Shared(cache[c].bufs, bucket[q][s], f)
  BY <1>2, <1>3, <1>11
<1> QED BY <1>7, <1>8, <1>14, <1>15, <1>16, <1>17, <1>18, <1>19, FlushMove

-----------------------------------------------------------------------------
\* Everything to the heap.
LEMMA HeapShares ==
  ASSUME NEW B \in Seq(Buffers), NEW H \in Seq(Buffers), IsInjective(H), ToSetOf(B) \cap ToSetOf(H) = {},
         NEW f, f = [bufs |-> <<>>, shard |-> H, freed |-> ToSetOf(B)]
  PROVE  Shared(B, H, f)
<1>1. f.bufs = <<>> /\ f.shard = H /\ f.freed = ToSetOf(B)
  OBVIOUS
<1>2. ToSetOf(B) \subseteq Buffers
  BY InRange
<1>3. <<>> \in Seq(Buffers)
  OBVIOUS
<1>4. f \in Parts
  BY <1>2, <1>3 DEF Parts
<1>5. ToSetOf(f.bufs) = {} /\ IsInjective(f.bufs)
  BY <1>1, EmptyIs
<1> QED BY <1>1, <1>4, <1>5 DEF Shared

\* The disposal of a cache keeps the invariant.
LEMMA CleanKeeps ==
  ASSUME PoolConstants, PoolInv, StructsInv', NEW t \in Users, NEW c \in CacheIds, c \in structs,
         NEW p \in Pools \cup {NoPool}, NEW flush \in BOOLEAN, flush => p \in Pools,
         p = NoPool \/ p = cache[c].pool,
         p = NoPool /\ cache[c].pool \in Pools => pool[cache[c].pool].stage # "open",
         cleanup_cache_buffers_locked(c, p, flush), UNCHANGED <<structs, held>>,
         \A v \in Users \ {t} : at'[v] = at[v], at'[t].buf = at[t].buf, at'[t].pool = at[t].pool,
         at'[t].pc # "exit_clean"
  PROVE  PoolInv'
<1>1. StructsInv /\ PoolTypes /\ InBounds /\ BuffersAtOnePlace /\ Orderly /\ PoolTypes'
  BY Apart DEF PoolInv, StructsInv
<1>2. CacheSound(c)
  BY <1>1, Everybody
<1>a. Cleaned(c, p, flush)
  BY <1>1, <1>2, CleanupIs
<1>3. /\ cache'[c].bufs = <<>> /\ cache'[c].pool = cache[c].pool /\ SameLists
      /\ \A d \in CacheIds \ {c} : cache'[d] = cache[d]
  BY <1>a DEF Cleaned, CleanTypes
<1>4. PICK F \in SUBSET Buffers :
         /\ live' = live \ F
         /\ \/ cache[c].cleaned_up /\ F = {} /\ bucket' = bucket
            \/ ~cache[c].cleaned_up /\ ~flush /\ F = ToSetOf(cache[c].bufs) /\ bucket' = bucket
            \/ /\ ~cache[c].cleaned_up /\ flush
               /\ F = FlushedAll(cache[c].bufs, bucket[p][cache[c].shard]).freed
               /\ bucket' = [bucket EXCEPT ![p][cache[c].shard] = FlushedAll(cache[c].bufs, bucket[p][cache[c].shard]).shard]
         /\ \A q \in Pools : pool'[q].total = IF q = p THEN pool[q].total - Cardinality(F) ELSE pool[q].total
  BY <1>a DEF Cleaned, CleanFrees
<1>5. CASE cache[c].cleaned_up
  <2>1. F = {} /\ bucket' = bucket /\ live' = live
    BY <1>4, <1>5
  <2>2. Cardinality(F) = 0 /\ \A q \in Pools : pool[q].total \in Int
    BY <1>1, <2>1, FS_EmptySet DEF PoolTypes, PoolStates
  <2>3. \A q \in Pools : pool'[q].total = pool[q].total
    BY <1>4, <2>2
  <2>4. SameCounts
    BY <1>3, <2>3 DEF SameCounts, SameLists
  <2>5. cache[c].bufs = <<>>
    BY <1>2, <1>5 DEF CacheSound
  <2>6. \A d \in CacheIds : cache'[d].bufs = cache[d].bufs /\ cache'[d].pool = cache[d].pool
    BY <1>3, <2>5
  <2>7. SameHands
    BY DEF SameHands
  <2> QED BY <1>1, <2>1, <2>4, <2>6, <2>7, MarkedCaches, QuietInv
<1>6. CASE ~cache[c].cleaned_up
  <2>1. PICK q : q = cache[c].pool
    OBVIOUS
  <2>2. q \in Pools
    BY <1>1, <1>2, <1>6, <2>1 DEF CacheSound, PoolTypes, Caches
  <2>3. PICK s : s = cache[c].shard
    OBVIOUS
  <2>4. PICK l, h : l = cache[c].bufs /\ h = bucket[q][s]
    OBVIOUS
  <2>5. s \in Shards /\ l \in Seq(Buffers) /\ IsInjective(l)
    BY <1>1, <2>3, <2>4 DEF PoolTypes, Caches, Orderly
  <2>6. h \in Seq(Buffers) /\ IsInjective(h) /\ Len(h) <= MaxFree
    BY <1>1, <2>2, <2>4, <2>5 DEF PoolTypes, Orderly, InBounds
  <2>7. ToSetOf(l) \cap ToSetOf(h) = {}
    <3>1. Divided(held[q], Hand(t), CacheContent(c), ToSetOf(bucket[q][s]))
      BY <1>1, <2>2, <2>5, Four
    <3> QED BY <2>4, <3>1 DEF Divided, CacheContent
  <2>8. PICK N : N = {}
    OBVIOUS
  <2>9. Counted(q, F, N)
    <3>1. Cardinality(N) = 0 /\ \A x \in Pools : pool[x].total \in Int
      BY <1>1, <2>8, FS_EmptySet DEF PoolTypes, PoolStates
    <3>2. Cardinality(F) \in Nat
      BY Finite
    <3>3. SameLists
      BY <1>3
    <3>4. ASSUME NEW x \in Pools, pool'[x].stage = "open"
          PROVE  /\ pool[x].stage = "open"
                 /\ pool'[x].total = IF x = q THEN pool[x].total - Cardinality(F) + Cardinality(N) ELSE pool[x].total
      <4>1. pool[x].stage = "open"
        BY <3>3, <3>4 DEF SameLists
      <4>2. pool'[x].total = IF x = p THEN pool[x].total - Cardinality(F) ELSE pool[x].total
        BY <1>4
      <4>3. CASE p = q
        BY <3>1, <3>2, <4>1, <4>2, <4>3
      <4>4. CASE p # q
        <5>1. p = NoPool /\ x # q
          BY <2>1, <2>2, <4>1, <4>4
        <5> QED BY <4>1, <4>2, <5>1 DEF PoolConstants
      <4> QED BY <4>3, <4>4
    <3> QED BY <3>4 DEF Counted
  <2>10. CASE flush
    <3>1. p = q
      BY <2>1, <2>10 DEF PoolConstants
    <3>2. PICK f : f = FlushedAll(l, h)
      OBVIOUS
    <3>3. F = f.freed /\ bucket' = [bucket EXCEPT ![q][s] = f.shard]
      BY <1>4, <1>6, <2>3, <2>4, <2>10, <3>1, <3>2
    <3>4. f \in Parts /\ Len(f.shard) <= MaxFree /\ Shared(l, h, f) /\ f.bufs = <<>>
      BY <2>5, <2>6, <2>7, <3>2, FlushedAllIs
    <3>5. PICK k \in Seq(Buffers) : k = f.shard
      BY <3>4 DEF Parts
    <3>6. bucket' = [bucket EXCEPT ![q][s] = k]
      BY <3>3, <3>5
    <3>7. /\ bucket'[q][s] = k
          /\ \A x \in Pools, r \in Shards : x # q \/ r # s => bucket'[x][r] = bucket[x][r]
      <4>1. PoolTypes /\ q \in Pools /\ s \in Shards
        BY <1>1, <2>2, <2>5
      <4>2. BucketGets(q, s, k)
        BY <3>6, <4>1, BucketGot
      <4> QED BY <4>2 DEF BucketGets
    <3>8. Len(f.bufs) <= CacheSize
      BY <3>4, EmptyIs DEF PoolConstants
    <3>9. Flushing(q, c, s, f)
      BY <1>3, <1>4, <2>1, <3>3, <3>4, <3>5, <3>7, <3>8 DEF Flushing
    <3>10. Shared(cache[c].bufs, bucket[q][s], f) /\ cache[c].pool = q
      BY <2>1, <2>4, <3>4
    <3> QED BY <2>2, <2>5, <2>8, <2>9, <3>3, <3>9, <3>10, FlushMove
  <2>11. CASE ~flush
    <3>1. F = ToSetOf(l) /\ bucket' = bucket
      BY <1>4, <1>6, <2>4, <2>11
    <3>2. PICK f : f = [bufs |-> <<>>, shard |-> h, freed |-> ToSetOf(l)]
      OBVIOUS
    <3>3. Shared(l, h, f)
      BY <2>5, <2>6, <2>7, <3>2, HeapShares
    <3>4. f.bufs = <<>> /\ f.shard = h /\ f.freed = F
      BY <3>1, <3>2
    <3>5. Len(f.bufs) <= CacheSize
      BY <3>4, EmptyIs DEF PoolConstants
    <3>6. Flushing(q, c, s, f)
      BY <1>3, <1>4, <2>1, <2>4, <2>6, <3>1, <3>4, <3>5 DEF Flushing
    <3>7. Shared(cache[c].bufs, bucket[q][s], f) /\ cache[c].pool = q
      BY <2>1, <2>4, <3>3
    <3> QED BY <2>2, <2>5, <2>8, <2>9, <3>4, <3>6, <3>7, FlushMove
  <2> QED BY <2>10, <2>11
<1> QED BY <1>5, <1>6

\* The disposal of the buffers left in the old pool: the buffers and the totals.
LEMMA SwitchCleanKeeps ==
  ASSUME PoolConstants, PoolInv, NEW t \in Users, SwitchClean(t)
  PROVE  PoolInv'
<1>1. StructsInv' /\ PoolTypes /\ StructsInv
  BY SwitchCleanStruct DEF PoolInv, StructsInv
<1>2. PICK c, p, f : c = at[t].c /\ p = at[t].old /\ f = at[t].flag
  OBVIOUS
<1>3. /\ at[t].pc = "switch_clean" /\ cleanup_cache_buffers_locked(c, p, f) /\ Goto(t, "switch_unlock")
      /\ UNCHANGED <<structs, held>>
  BY <1>2 DEF SwitchClean
<1>4. c = tls[t] /\ c # NoCache /\ cache[c].pool = p /\ p \in Pools
  BY <1>1, <1>2, <1>3, Everybody DEF WorkSound
<1>5. c \in structs
  BY <1>1, <1>4, Everybody DEF RefsSound
<1>6. c \in CacheIds /\ f \in BOOLEAN
  BY <1>1, <1>2, <1>5 DEF PoolTypes, Locals
<1>7. /\ \A v \in Users \ {t} : at'[v] = at[v]
      /\ at'[t].buf = at[t].buf /\ at'[t].pool = at[t].pool /\ at'[t].pc # "exit_clean"
  BY <1>1, <1>3 DEF Goto, PoolTypes, Locals
<1>8. p \in Pools \cup {NoPool} /\ p # NoPool
  BY <1>4 DEF PoolConstants
<1> QED BY <1>1, <1>3, <1>4, <1>5, <1>6, <1>7, <1>8, CleanKeeps

\* The destructor disposes of the buffers: the buffers and the totals.
LEMMA ExitCleanKeeps ==
  ASSUME PoolConstants, PoolInv, NEW t \in Users, ExitClean(t)
  PROVE  PoolInv'
<1>1. StructsInv' /\ PoolTypes /\ StructsInv
  BY ExitCleanStruct DEF PoolInv, StructsInv
<1>2. PICK c, p, f : c = at[t].c /\ p = at[t].old /\ f = at[t].flag
  OBVIOUS
<1>3. /\ at[t].pc = "exit_clean" /\ cleanup_cache_buffers_locked(c, p, f) /\ Goto(t, "exit_unlock")
      /\ UNCHANGED <<structs, held>>
  BY <1>2 DEF ExitClean
<1>4. c = key[t] /\ c # NoCache /\ p = (IF f THEN cache[c].pool ELSE NoPool) /\ (f => p \in Pools)
  BY <1>1, <1>2, <1>3, Everybody DEF WorkSound, Exiting
<1>5. c \in structs
  BY <1>1, <1>4, Everybody DEF RefsSound
<1>6. c \in CacheIds /\ f \in BOOLEAN
  BY <1>1, <1>2, <1>5 DEF PoolTypes, Locals
<1>7. /\ \A v \in Users \ {t} : at'[v] = at[v]
      /\ at'[t].buf = at[t].buf /\ at'[t].pool = at[t].pool /\ at'[t].pc # "exit_clean"
  BY <1>1, <1>3 DEF Goto, PoolTypes, Locals
<1>8. p \in Pools \cup {NoPool} /\ (p = NoPool \/ p = cache[c].pool)
  BY <1>4, <1>6
<1>9. p = NoPool /\ cache[c].pool \in Pools => pool[cache[c].pool].stage # "open"
  <2>1. ExitSound(t)
    BY DEF PoolInv
  <2>2. p = NoPool => ~f
    BY <1>4 DEF PoolConstants
  <2> QED BY <1>2, <1>3, <2>1, <2>2 DEF ExitSound
<1> QED BY <1>1, <1>3, <1>4, <1>5, <1>6, <1>7, <1>8, <1>9, CleanKeeps

-----------------------------------------------------------------------------
\* Destruction: a cache, then the shards.
LEMMA TakeCacheKeeps ==
  ASSUME PoolConstants, PoolInv, NEW d \in Users, TakeCache(d)
  PROVE  PoolInv'
<1>1. StructsInv /\ PoolTypes /\ InBounds /\ BuffersAtOnePlace /\ Orderly /\ PoolTypes' /\ StructsInv'
  BY Apart, TakeCacheStruct DEF PoolInv, StructsInv
<1>2. at[d].pc = "take" /\ at[d].pc \in Listing
  BY DEF TakeCache, Listing
<1>3. PICK l, q : l = at[d].list /\ q = at[d].pool
  OBVIOUS
<1>4. PICK c : c = Head(l)
  OBVIOUS
<1>5. /\ l \in Seq(CacheIds) /\ l # <<>> /\ IsInjective(l) /\ q \in Pools /\ pool[q].stage = "closing"
      /\ \A i \in DOMAIN l : l[i] \in structs /\ cache[l[i]].pool = q
  BY <1>1, <1>2, <1>3, Taking
<1>6. c = l[1] /\ 1 \in DOMAIN l
  BY <1>4, <1>5, ListIs
<1>7. c \in structs /\ c \in CacheIds /\ cache[c].pool = q /\ CacheSound(c)
  <2>1. c \in structs /\ cache[c].pool = q
    BY <1>5, <1>6
  <2> QED BY <1>1, <2>1, Everybody DEF PoolTypes
<1>8. cache'[c].bufs = <<>> /\ cache'[c].pool = NoPool /\ \A e \in CacheIds \ {c} : cache'[e] = cache[e]
  <2>1. cache[c].cleaned_up => cache[c].bufs = <<>>
    BY <1>7 DEF CacheSound
  <2>2. cache' = [cache EXCEPT ![c].bufs = IF @ # <<>> /\ cache[c].cleaned_up THEN @ ELSE <<>>,
                            ![c].cleaned_up = TRUE, ![c].pool = NoPool, ![c].lock = d]
    BY <1>3, <1>4 DEF TakeCache
  <2>3. (IF cache[c].bufs # <<>> /\ cache[c].cleaned_up THEN cache[c].bufs ELSE <<>>) = <<>>
    BY <2>1
  <2>4. cache \in [CacheIds -> Caches]
    BY <1>1 DEF PoolTypes
  <2> QED BY <1>7, <2>2, <2>3, <2>4 DEF Caches
<1>9. UNCHANGED <<pool, bucket, structs, held>>
  BY DEF TakeCache
<1>10. live' = IF cache[c].cleaned_up THEN live ELSE live \ ToSetOf(cache[c].bufs)
  BY <1>3, <1>4 DEF TakeCache
<1>11. /\ \A v \in Users \ {d} : at'[v] = at[v]
       /\ at'[d].buf = at[d].buf /\ at'[d].pool = at[d].pool /\ at'[d].pc # "exit_clean"
  <2>1. Goto(d, "release")
    BY DEF TakeCache
  <2> QED BY <1>1, <2>1 DEF Goto, PoolTypes, Locals
<1>12. CASE cache[c].cleaned_up
  <2>1. live' = live /\ cache[c].bufs = <<>>
    BY <1>7, <1>10, <1>12 DEF CacheSound
  <2>2. \A e \in CacheIds : SameStruct(e) \/ EmptyStruct(e)
    BY <1>8, <1>9, <2>1 DEF SameStruct, EmptyStruct
  <2>3. \A e \in structs : cache'[e].pool \in {cache[e].pool, NoPool}
    BY <1>1, <1>8 DEF PoolTypes
  <2>4. SameHands /\ StructsQuiet
    BY <1>11, <2>2 DEF SameHands, StructsQuiet
  <2> QED BY <1>1, <1>9, <1>11, <2>1, <2>3, <2>4, StillCounts, QuietInv
<1>13. CASE ~cache[c].cleaned_up
  <2>1. PICK s : s = cache[c].shard
    OBVIOUS
  <2>2. PICK b, h : b = cache[c].bufs /\ h = bucket[q][s]
    OBVIOUS
  <2>3. s \in Shards /\ b \in Seq(Buffers) /\ IsInjective(b)
    BY <1>1, <1>7, <2>1, <2>2 DEF PoolTypes, Caches, Orderly
  <2>4. h \in Seq(Buffers) /\ IsInjective(h) /\ Len(h) <= MaxFree
    BY <1>1, <1>5, <2>2, <2>3 DEF PoolTypes, Orderly, InBounds
  <2>5. ToSetOf(b) \cap ToSetOf(h) = {}
    <3>1. Divided(held[q], Hand(d), CacheContent(c), ToSetOf(bucket[q][s]))
      BY <1>1, <1>5, <1>7, <2>3, Four
    <3> QED BY <1>7, <2>2, <3>1 DEF Divided, CacheContent
  <2>6. PICK F, N : F = ToSetOf(b) /\ N = {}
    OBVIOUS
  <2>7. Counted(q, F, N)
    BY <1>5, <1>9 DEF Counted
  <2>8. PICK f : f = [bufs |-> <<>>, shard |-> h, freed |-> ToSetOf(b)]
    OBVIOUS
  <2>9. Shared(b, h, f)
    BY <2>3, <2>4, <2>5, <2>8, HeapShares
  <2>10. f.bufs = <<>> /\ f.shard = h /\ f.freed = F /\ live' = live \ F
    BY <1>10, <1>13, <2>2, <2>6, <2>8
  <2>11. Len(f.bufs) <= CacheSize
    BY <2>10, EmptyIs DEF PoolConstants
  <2>12. Flushing(q, c, s, f)
    BY <1>8, <1>9, <2>2, <2>4, <2>10, <2>11 DEF Flushing
  <2>13. Shared(cache[c].bufs, bucket[q][s], f)
    BY <2>2, <2>9
  <2> QED BY <1>1, <1>5, <1>7, <1>11, <2>3, <2>6, <2>7, <2>10, <2>12, <2>13, FlushMove
<1> QED BY <1>12, <1>13

\* It frees the shards: the buffers and the totals.
LEMMA DestroyShardsKeeps ==
  ASSUME PoolConstants, PoolInv, NEW d \in Users, DestroyShards(d)
  PROVE  PoolInv'
<1>1. /\ StructsInv /\ PoolTypes /\ InBounds /\ BuffersAtOnePlace /\ Orderly /\ TotalsSound
      /\ PoolTypes' /\ StructsInv'
  BY Apart, DestroyShardsStruct DEF PoolInv, StructsInv
<1>2. PICK p : p = at[d].pool
  OBVIOUS
<1>3. at[d].pc = "shards" /\ UNCHANGED <<cache, structs, held>>
  BY DEF DestroyShards
<1>4. p \in Pools /\ pool[p].stage = "closing" /\ at[d].buf = NoBuf
  BY <1>1, <1>2, <1>3, Everybody DEF HandSound, Destroying
<1>5. PICK F : F = UNION {ToSetOf(bucket[p][s]) : s \in Shards}
  OBVIOUS
<1>6. PICK N : N = {}
  OBVIOUS
<1>7. \A s \in Shards : ToSetOf(bucket[p][s]) \subseteq Buffers
  <2> SUFFICES ASSUME NEW s \in Shards PROVE ToSetOf(bucket[p][s]) \subseteq Buffers
    OBVIOUS
  <2>1. bucket[p][s] \in Seq(Buffers)
    BY <1>1, <1>4 DEF PoolTypes
  <2> QED BY <2>1, InRange
<1>8. F \in SUBSET Buffers /\ N \in SUBSET Buffers /\ live' = (live \ F) \cup N /\ N \cap live = {}
  BY <1>2, <1>5, <1>6, <1>7 DEF DestroyShards
<1>9. /\ \A s \in Shards : bucket'[p][s] = <<>>
      /\ \A q \in Pools \ {p}, s \in Shards : bucket'[q][s] = bucket[q][s]
  BY <1>1, <1>2, <1>4 DEF DestroyShards, PoolTypes
<1>10. /\ pool'[p].stage = "gone"
       /\ \A q \in Pools \ {p} : pool'[q] = pool[q]
  BY <1>1, <1>2, <1>4 DEF DestroyShards, PoolTypes, PoolStates
<1>11. /\ \A v \in Users \ {d} : at'[v] = at[v]
       /\ at'[d].buf = NoBuf /\ at'[d].pc # "exit_clean"
  BY <1>1 DEF DestroyShards, Idle, PoolTypes
<1>12. Orderly'
  <2>1. ASSUME NEW q \in Pools, NEW s \in Shards PROVE IsInjective(bucket'[q][s])
    BY <1>1, <1>9, EmptyIs DEF Orderly
  <2> QED BY <1>1, <1>3, <2>1 DEF Orderly
<1>13. InBounds'
  <2>1. ASSUME NEW q \in Pools, NEW s \in Shards PROVE Len(bucket'[q][s]) <= MaxFree
    <3>1. CASE q = p
      <4>1. Len(bucket'[q][s]) = 0
        BY <1>9, <3>1, EmptyIs
      <4> QED BY <4>1 DEF PoolConstants
    <3>2. CASE q # p
      BY <1>1, <1>9, <3>2 DEF InBounds
    <3> QED BY <3>1, <3>2
  <2> QED BY <1>1, <1>3, <2>1 DEF InBounds
<1>14. Gradual(d)
  BY <1>3, <1>10, <1>11 DEF Gradual
<1>15. \A v \in Users : ExitSound(v)'
  BY <1>1, <1>11, <1>14, ExitSoundKept DEF PoolInv
<1>16. Counted(p, F, N)
  BY <1>10 DEF Counted
<1>17. PICK X : X = {<<"shard", <<p, s>>>> : s \in Shards}
  OBVIOUS
<1>18. X \subseteq Places
  BY <1>4, <1>17, PlaceKinds
<1>19. ASSUME NEW x \in X
       PROVE  Content(x)' = {} /\ PoolAt(x) = p /\ PoolAt(x)' = p /\ \E s \in Shards : Content(x) = ToSetOf(bucket[p][s])
  <2>1. PICK s \in Shards : x = <<"shard", <<p, s>>>>
    BY <1>17, <1>19
  <2>2. Content(x) = ToSetOf(bucket[p][s]) /\ PoolAt(x) = p
    BY <2>1, PlaceHas
  <2>3. Content(x)' = ToSetOf(bucket'[p][s]) /\ PoolAt(x)' = p
    BY <2>1, PlaceHasNext
  <2>4. bucket'[p][s] = <<>>
    BY <1>9
  <2> QED BY <2>2, <2>3, <2>4, EmptyIs
<1>20. ASSUME NEW x \in Places \ X PROVE Content(x)' = Content(x) /\ (PoolAt(x)' = PoolAt(x) \/ Content(x) = {})
  <2>1. CASE \E q \in Pools : x = <<"app", q>>
    BY <1>3, <2>1, PlaceHas, PlaceHasNext
  <2>2. CASE \E u \in Users : x = <<"hand", u>>
    <3>1. PICK u \in Users : x = <<"hand", u>>
      BY <2>2
    <3>2. Content(x)' = {at'[u].buf} \ {NoBuf} /\ Content(x) = {at[u].buf} \ {NoBuf} /\ PoolAt(x)' = at'[u].pool /\ PoolAt(x) = at[u].pool
      BY <3>1, PlaceHas, PlaceHasNext
    <3>3. CASE u = d
      BY <1>4, <1>11, <3>2, <3>3
    <3>4. CASE u # d
      BY <1>11, <3>2, <3>4
    <3> QED BY <3>3, <3>4
  <2>3. CASE \E e \in CacheIds : x = <<"cache", e>>
    BY <1>3, <2>3, PlaceHas, PlaceHasNext DEF CacheContent
  <2>4. CASE \E q \in Pools, r \in Shards : x = <<"shard", <<q, r>>>>
    <3>1. PICK q \in Pools, r \in Shards : x = <<"shard", <<q, r>>>>
      BY <2>4
    <3>2. q # p
      BY <1>17, <1>20, <3>1
    <3>3. bucket'[q][r] = bucket[q][r]
      BY <1>9, <3>2
    <3> QED BY <3>1, <3>3, PlaceHas, PlaceHasNext
  <2> QED BY <2>1, <2>2, <2>3, <2>4, PlaceKinds
<1>21. \A b : b \in F <=> \E x \in X : b \in Content(x)
  <2>1. ASSUME NEW b \in F PROVE \E x \in X : b \in Content(x)
    <3>1. PICK s \in Shards : b \in ToSetOf(bucket[p][s])
      BY <1>5
    <3>2. <<"shard", <<p, s>>>> \in X /\ Content(<<"shard", <<p, s>>>>) = ToSetOf(bucket[p][s])
      BY <1>17, PlaceHas
    <3> QED BY <3>1, <3>2
  <2>2. ASSUME NEW x \in X, NEW b \in Content(x) PROVE b \in F
    BY <1>5, <1>19
  <2> QED BY <2>1, <2>2
<1>22. Reshuffled(X, p, F, N)
  BY <1>6, <1>18, <1>19, <1>20, <1>21 DEF Reshuffled
<1>23. BuffersAtOnePlace' /\ TotalsSound'
  BY <1>1, <1>8, <1>12, <1>16, <1>22, MovesKeep
<1> QED BY <1>1, <1>13, <1>15, <1>23 DEF PoolInv

-----------------------------------------------------------------------------
(* The invariant.                                                          *)

\* The invariant holds at first.
LEMMA PoolInitially ==
  ASSUME PoolConstants, Init
  PROVE  PoolInv
<1>1. Idle \in Locals
  BY IdleType
<1>2. 0 \in Shards
  BY DEF PoolConstants
<1>3. <<>> \in Seq(Buffers) /\ <<>> \in Seq(CacheIds)
  OBVIOUS
<1>4. EmptyCache \in Caches /\ EmptyCache.bufs = <<>>
  BY <1>2, <1>3 DEF EmptyCache, Caches
<1>5. /\ structs = {} /\ live = {}
      /\ \A p \in Pools : held[p] = {} /\ pool[p].stage = "open" /\ pool[p].list = <<>> /\ pool[p].total = 0
      /\ \A p \in Pools, s \in Shards : bucket[p][s] = <<>>
      /\ \A c \in CacheIds : cache[c] = EmptyCache
      /\ \A t \in Users : at[t] = Idle /\ tls[t] = NoCache /\ key[t] = NoCache
  BY DEF Init
<1>6. PoolTypes
  <2>1. pool \in [Pools -> PoolStates]
    BY <1>2, <1>3 DEF Init, PoolStates
  <2>2. bucket \in [Pools -> [Shards -> Seq(Buffers)]]
    BY <1>3 DEF Init
  <2>3. cache \in [CacheIds -> Caches]
    BY <1>4 DEF Init
  <2>4. at \in [Users -> Locals] /\ held \in [Pools -> SUBSET Buffers]
    BY <1>1 DEF Init
  <2>5. tls \in [Users -> CacheIds \cup {NoCache}] /\ key \in [Users -> CacheIds \cup {NoCache}]
    BY DEF Init
  <2> QED BY <1>5, <2>1, <2>2, <2>3, <2>4, <2>5 DEF PoolTypes
<1>7. Idle.pc = "idle" /\ Idle.buf = NoBuf /\ Idle.list = <<>>
  BY DEF Idle
<1>8. ASSUME NEW t \in Users PROVE HandSound(t) /\ WorkSound(t) /\ RefsSound(t) /\ HandListSound(t) /\ ExitSound(t)
  <2>1. at[t] = Idle /\ tls[t] = NoCache /\ key[t] = NoCache
    BY <1>5
  <2>2. at[t].pc = "idle" /\ at[t].list = <<>> /\ at[t].pc \notin Calling /\ at[t].pc \notin Exiting
        /\ at[t].pc \notin Destroying /\ at[t].pc \notin Listing
    BY <1>7, <2>1 DEF Calling, Exiting, Destroying, Listing
  <2>3. HandSound(t)
    BY <2>1, <2>2 DEF HandSound
  <2>4. WorkSound(t) /\ ExitSound(t)
    BY <2>2 DEF WorkSound, ExitSound
  <2>5. RefsSound(t)
    BY <2>1 DEF RefsSound
  <2>6. DOMAIN at[t].list = {} /\ IsInjective(at[t].list)
    BY <2>2, EmptyIs
  <2>7. HandListSound(t)
    BY <2>2, <2>6 DEF HandListSound
  <2> QED BY <2>3, <2>4, <2>5, <2>7
<1>9. ASSUME NEW p \in Pools PROVE PoolListSound(p)
  <2>1. pool[p].list = <<>> /\ DOMAIN pool[p].list = {} /\ IsInjective(pool[p].list)
    BY <1>5, EmptyIs
  <2> QED BY <2>1 DEF PoolListSound
<1>10. StructsInv
  BY <1>5, <1>6, <1>8, <1>9 DEF StructsInv
<1>11. InBounds
  BY <1>4, <1>5, EmptyIs DEF InBounds, PoolConstants
<1>12. \A x \in Places : Content(x) = {}
  <2> SUFFICES ASSUME NEW x \in Places PROVE Content(x) = {}
    OBVIOUS
  <2>1. CASE \E q \in Pools : x = <<"app", q>>
    BY <1>5, <2>1, PlaceHas
  <2>2. CASE \E u \in Users : x = <<"hand", u>>
    BY <1>5, <1>7, <2>2, PlaceHas
  <2>3. CASE \E e \in CacheIds : x = <<"cache", e>>
    BY <1>5, <2>3, PlaceHas DEF CacheContent
  <2>4. CASE \E q \in Pools, r \in Shards : x = <<"shard", <<q, r>>>>
    BY <1>5, <2>4, PlaceHas, EmptyIs
  <2> QED BY <2>1, <2>2, <2>3, <2>4, PlaceKinds
<1>13. BuffersAtOnePlace
  BY <1>5, <1>12, EmptyIs DEF BuffersAtOnePlace
<1>14. TotalsSound
  <2>1. \A p : BuffersOf(p) = {}
    BY <1>12 DEF BuffersOf
  <2> QED BY <1>5, <2>1, FS_EmptySet DEF TotalsSound
<1> QED BY <1>8, <1>10, <1>11, <1>13, <1>14 DEF PoolInv

\* A step that changes nothing.
LEMMA PoolStutters ==
  ASSUME PoolInv, UNCHANGED vars PROVE PoolInv'
<1>1. /\ pool' = pool /\ bucket' = bucket /\ cache' = cache /\ structs' = structs /\ live' = live
      /\ held' = held /\ tls' = tls /\ key' = key /\ at' = at
  BY DEF vars
<1>2. PoolTypes'
  BY <1>1 DEF PoolInv, StructsInv, PoolTypes
<1>3. StructsInv'
  <2>1. StructsInv
    BY DEF PoolInv
  <2>2. \A t \in Users : HandSound(t)'
    BY <1>1, <2>1 DEF StructsInv, HandSound
  <2>3. \A t \in Users : WorkSound(t)'
    BY <1>1, <2>1 DEF StructsInv, WorkSound
  <2>4. \A t \in Users : RefsSound(t)'
    BY <1>1, <2>1 DEF StructsInv, RefsSound
  <2>5. \A t \in Users : HandListSound(t)'
    BY <1>1, <2>1 DEF StructsInv, HandListSound
  <2>6. \A p \in Pools : PoolListSound(p)'
    BY <1>1, <2>1 DEF StructsInv, PoolListSound
  <2>7. \A c \in structs' : CacheSound(c)'
    BY <1>1, <2>1 DEF StructsInv, CacheSound
  <2> QED BY <1>2, <2>2, <2>3, <2>4, <2>5, <2>6, <2>7 DEF StructsInv
<1>4. InBounds' /\ \A t \in Users : ExitSound(t)'
  BY <1>1 DEF PoolInv, InBounds, ExitSound
<1>5. \A x : Content(x)' = Content(x) /\ PoolAt(x)' = PoolAt(x)
  BY <1>1 DEF Content, PoolAt
<1>6. BuffersAtOnePlace'
  BY <1>1, <1>5 DEF PoolInv, BuffersAtOnePlace
<1>7. \A p : BuffersOf(p)' = BuffersOf(p)
  BY <1>5 DEF BuffersOf
<1>8. TotalsSound'
  BY <1>1, <1>7 DEF PoolInv, TotalsSound
<1> QED BY <1>3, <1>4, <1>6, <1>8 DEF PoolInv

\* The steps of a call under way.
LEMMA ContinueKeeps ==
  ASSUME PoolConstants, PoolInv, NEW t \in Users, Continue(t)
  PROVE  PoolInv'
<1>1. CASE Lookup(t)
  BY <1>1, LookupHitKeeps, LookupNewKeeps, LookupOrphanKeeps, LookupOtherKeeps DEF Lookup
<1>2. CASE Switch(t)
  BY <1>2, SwitchLockKeeps, SwitchCheckKeeps, SwitchCleanKeeps, SwitchUnlockKeeps, SwitchLeaveKeeps DEF Switch
<1>3. CASE Alloc(t)
  BY <1>3, AllocHitKeeps, AllocRefillKeeps, AllocShardKeeps, AllocHeapKeeps, TrackKeeps DEF Alloc
<1>4. CASE Free(t)
  BY <1>4, FreeCacheKeeps, FreeFlushKeeps, FreeShardKeeps DEF Free
<1>5. CASE Exit(t)
  BY <1>5, ExitCheckKeeps, ExitCleanKeeps, ExitUnlockKeeps DEF Exit
<1>6. CASE Destroy(t)
  BY <1>6, QuiesceKeeps, DetachKeeps, TakeCacheKeeps, ReleaseCacheKeeps, DisposeCacheKeeps, DestroyShardsKeeps DEF Destroy
<1> QED BY <1>1, <1>2, <1>3, <1>4, <1>5, <1>6 DEF Continue

\* The steps that start something.
LEMMA BeginKeeps ==
  ASSUME PoolConstants, PoolInv, NEW t \in Users, Begin(t)
  PROVE  PoolInv'
<1>1. ASSUME NEW p \in Pools, aura_buffer_alloc(t, p) PROVE PoolInv'
  BY <1>1, AllocCallKeeps
<1>2. ASSUME NEW p \in Pools, NEW b \in Buffers, aura_buffer_free(t, p, b) PROVE PoolInv'
  BY <1>2, FreeCallKeeps
<1>3. ASSUME NEW p \in Pools, MarkDestroyed(t, p) PROVE PoolInv'
  BY <1>3, MarkDestroyedKeeps
<1>4. CASE ExitPlain(t)
  BY <1>4, ExitPlainKeeps
<1>5. CASE ExitLock(t)
  BY <1>5, ExitLockKeeps
<1> QED BY <1>1, <1>2, <1>3, <1>4, <1>5 DEF Begin

\* Every step keeps the invariant.
LEMMA PoolStep ==
  ASSUME PoolConstants, PoolInv, [Next]_vars
  PROVE  PoolInv'
<1>1. CASE UNCHANGED vars
  BY <1>1, PoolStutters
<1>2. ASSUME NEW t \in Users, Continue(t) \/ Begin(t) PROVE PoolInv'
  BY <1>2, ContinueKeeps, BeginKeeps
<1> QED BY <1>1, <1>2 DEF Next, AllOver

\* A cache struct that its owner has left is freed in the end.
LEMMA ReclaimedInTheEnd ==
  ASSUME PoolConstants, PoolInv PROVE ExitedCachesReclaimed
<1> SUFFICES ASSUME Ended, NEW c \in structs, cache[c].exited PROVE FALSE
  BY DEF ExitedCachesReclaimed
<1>1. PoolTypes /\ CacheSound(c) /\ (\A t \in Users : HandSound(t)) /\ \A p \in Pools : PoolListSound(p)
  BY Everybody DEF PoolInv
<1>2. ASSUME NEW t \in Users PROVE at[t].pc = "exited" /\ at[t].pc \notin Exiting /\ at[t].pc \notin Listing
  BY DEF Ended, Exiting, Listing
<1>3. CASE cache[c].pool = NoPool
  BY <1>1, <1>2, <1>3 DEF CacheSound
<1>4. CASE cache[c].pool # NoPool
  <2>1. PICK p : p = cache[c].pool
    OBVIOUS
  <2>2. p \in Pools
    BY <1>1, <1>4, <2>1 DEF PoolTypes, Caches
  <2>3. pool[p].list = <<>>
    BY <1>1, <2>2 DEF Ended, PoolListSound
  <2>4. DOMAIN pool[p].list = {}
    BY <2>3
  <2> QED BY <1>1, <1>2, <1>4, <2>1, <2>4 DEF CacheSound
<1> QED BY <1>3, <1>4

\* The invariant gives what is promised.
LEMMA InvGivesSound ==
  ASSUME PoolConstants, PoolInv PROVE PoolSound
<1>1. TotalExact
  BY DEF PoolInv, TotalsSound, TotalExact
<1> QED BY <1>1, ReclaimedInTheEnd DEF PoolInv, PoolSound

\* The buffer pool of adaptive_buffer.c, whatever the number of threads, pools,
\* shards and buffers: through allocation, free, refill, flush, the exit of
\* threads and the destruction of pools no array is overrun, every buffer is at
\* exactly one place, total_buffers is exact and a cache that its owner has left
\* is freed in the end.
THEOREM BufferPoolIsSound ==
  ASSUME PoolConstants
  PROVE  Spec => []PoolSound
<1>1. Init => PoolInv
  BY PoolInitially
<1>2. PoolInv /\ [Next]_vars => PoolInv'
  BY PoolStep
<1>3. PoolInv => PoolSound
  BY InvGivesSound
<1> QED BY <1>1, <1>2, <1>3, PTL DEF Spec
=============================================================================
