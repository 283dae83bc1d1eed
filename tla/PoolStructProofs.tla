-------------------------- MODULE PoolStructProofs --------------------------
(***************************************************************************)
(* The buffer pool for every number of threads, pools, caches, shards and  *)
(* buffers, first half: what cache_flush does, and who owns a cache struct *)
(* through get_thread_cache, tls_destructor and buffer_pool_destroy        *)
(* (StructsInv).  PoolProofs goes on to the buffers.                       *)
(***************************************************************************)
EXTENDS BufferPool, FiniteSetTheorems, WellFoundedInduction, TLAPS

-----------------------------------------------------------------------------
(* Induction over the naturals, and what cache_flush computes.             *)

\* A set of naturals has a least element.
LEMMA LeastOf ==
  ASSUME NEW T, T \subseteq Nat, T # {}
  PROVE  \E x \in T : \A y \in T : x <= y
<1> DEFINE I == {0 .. n : n \in T}
           R == StrictSubsetOrdering(Nat)
<1>1. I \subseteq FiniteSubsetsOf(Nat)
  <2> SUFFICES ASSUME NEW n \in T PROVE 0 .. n \in FiniteSubsetsOf(Nat)
    OBVIOUS
  <2>1. IsFiniteSet(0 .. n)
    BY FS_Interval
  <2> QED BY <2>1 DEF FiniteSubsetsOf
<1>2. IsWellFoundedOn(R, FiniteSubsetsOf(Nat))
  BY FS_StrictSubsetOrderingWellFounded
<1>3. I # {}
  OBVIOUS
<1>4. PICK z \in I : \A y \in I : ~(<<y, z>> \in R)
  <2> HIDE DEF I, R
  <2> QED BY <1>1, <1>2, <1>3, WFMin
<1>5. PICK x \in T : z = 0 .. x
  OBVIOUS
<1>6. ASSUME NEW y \in T, y < x PROVE FALSE
  <2>1. 0 .. y \in I /\ 0 .. y \subseteq 0 .. x /\ 0 .. y # 0 .. x
    BY <1>6
  <2>2. <<0 .. y, z>> \in R
    BY <1>5, <2>1 DEF StrictSubsetOrdering
  <2> QED BY <1>4, <2>1, <2>2
<1> QED BY <1>6

\* Induction over the naturals, with a set in place of a predicate.
LEMMA SetInduction ==
  ASSUME NEW T, 0 \in T, \A n \in Nat : n \in T => n + 1 \in T
  PROVE  Nat \subseteq T
<1> SUFFICES ASSUME Nat \ T # {} PROVE FALSE
  OBVIOUS
<1>1. PICK x \in Nat \ T : \A y \in Nat \ T : x <= y
  <2> DEFINE U == Nat \ T
  <2>1. U \subseteq Nat /\ U # {}
    OBVIOUS
  <2> HIDE DEF U
  <2>2. \E x \in U : \A y \in U : x <= y
    BY <2>1, LeastOf
  <2> QED BY <2>2 DEF U
<1> QED BY <1>1

\* A function given by its first value and by how each follows from the last.
Iteration(f, S, base, N, D) ==
  f \in [0 .. N -> S] /\ f[0] = base /\ \A n \in 1 .. N : f[n] = D[n][f[n - 1]]

\* Such a function exists, whatever the steps.
LEMMA Iterates ==
  ASSUME NEW S, NEW base, NEW N, NEW D, base \in S, N \in Nat, D \in [1 .. N -> [S -> S]]
  PROVE  \E f : Iteration(f, S, base, N, D)
<1> DEFINE Good(m) == \E f \in [0 .. m -> S] :
                         f[0] = base /\ \A n \in 1 .. m : f[n] = D[n][f[n - 1]]
           T == {m \in Nat : m <= N => Good(m)}
<1>1. 0 \in T
  <2> DEFINE f == [n \in 0 .. 0 |-> base]
  <2>1. f \in [0 .. 0 -> S] /\ f[0] = base /\ \A n \in 1 .. 0 : f[n] = D[n][f[n - 1]]
    OBVIOUS
  <2> QED BY <2>1
<1>2. ASSUME NEW m \in Nat, m \in T PROVE m + 1 \in T
  <2> SUFFICES ASSUME m + 1 <= N PROVE Good(m + 1)
    OBVIOUS
  <2>1. PICK f \in [0 .. m -> S] : f[0] = base /\ \A n \in 1 .. m : f[n] = D[n][f[n - 1]]
    BY <1>2
  <2>2. f[m] \in S /\ m + 1 \in 1 .. N /\ D[m + 1][f[m]] \in S
    BY <2>1
  <2> DEFINE g == [n \in 0 .. m + 1 |-> IF n <= m THEN f[n] ELSE D[m + 1][f[m]]]
  <2>3. /\ g \in [0 .. m + 1 -> S] /\ \A n \in 0 .. m : g[n] = f[n]
        /\ g[m + 1] = D[m + 1][f[m]]
    BY <2>1, <2>2
  <2> HIDE DEF g
  <2>4. \A n \in 1 .. m + 1 : g[n] = D[n][g[n - 1]]
    <3> SUFFICES ASSUME NEW n \in 1 .. m + 1 PROVE g[n] = D[n][g[n - 1]]
      OBVIOUS
    <3>1. CASE n = m + 1
      <4>1. n - 1 = m /\ m \in 0 .. m
        BY <3>1
      <4> QED BY <2>3, <3>1, <4>1
    <3>2. CASE n # m + 1
      <4>1. n \in 1 .. m /\ n \in 0 .. m /\ n - 1 \in 0 .. m
        BY <3>2
      <4> QED BY <2>1, <2>3, <4>1
    <3> QED BY <3>1, <3>2
  <2>5. g[0] = base
    BY <2>1, <2>3
  <2> QED BY <2>3, <2>4, <2>5
<1> HIDE DEF T
<1>3. Nat \subseteq T
  BY <1>1, <1>2, SetInduction
<1>4. Good(N)
  BY <1>3 DEF T
<1> QED BY <1>4 DEF Iteration

\* The parts of what a cache and a shard held.
Parts == [bufs : Seq(Buffers), shard : Seq(Buffers), freed : SUBSET Buffers]

\* The elements of a sequence.
LEMMA InRange ==
  ASSUME NEW S, NEW s \in Seq(S)
  PROVE  ToSetOf(s) \subseteq S /\ (\A i \in 1 .. Len(s) : s[i] \in ToSetOf(s))
         /\ DOMAIN s = 1 .. Len(s) /\ \A x \in ToSetOf(s) : \E i \in 1 .. Len(s) : x = s[i]
BY DEF ToSetOf

\* How many buffers a flush moves.
LEMMA MovedIs ==
  ASSUME PoolConstants, NEW n \in Nat, NEW have \in Nat
  PROVE  /\ Moved(n, have) \in 0 .. have
         /\ n <= MaxFree => n + Moved(n, have) <= MaxFree
         /\ (Moved(n, have) = 0 /\ have # 0 => Moved(n, have) < BatchSize)
BY DEF Moved, PoolConstants

\* What SubSeq gives.
LEMMA SubIs ==
  ASSUME NEW S, NEW s \in Seq(S), NEW m \in Nat, NEW n \in 0 .. Len(s)
  PROVE  /\ SubSeq(s, m + 1, n) \in Seq(S)
         /\ Len(SubSeq(s, m + 1, n)) = IF m < n THEN n - m ELSE 0
         /\ \A i \in 1 .. n - m : SubSeq(s, m + 1, n)[i] = s[m + i]
OBVIOUS

\* What a concatenation gives.
LEMMA ConcatIs ==
  ASSUME NEW S, NEW s \in Seq(S), NEW r \in Seq(S)
  PROVE  /\ s \o r \in Seq(S) /\ Len(s \o r) = Len(s) + Len(r)
         /\ \A i \in 1 .. Len(s) : (s \o r)[i] = s[i]
         /\ \A i \in Len(s) + 1 .. Len(s) + Len(r) : (s \o r)[i] = r[i - Len(s)]
OBVIOUS

\* What Reverse gives.
LEMMA ReverseIs ==
  ASSUME NEW S, NEW s \in Seq(S)
  PROVE  /\ Reverse(s) \in Seq(S) /\ Len(Reverse(s)) = Len(s)
         /\ \A i \in 1 .. Len(s) : Reverse(s)[i] = s[Len(s) - i + 1]
<1>1. \A i \in 1 .. Len(s) : Len(s) - i + 1 \in 1 .. Len(s) /\ s[Len(s) - i + 1] \in S
  OBVIOUS
<1>2. Reverse(s) \in [1 .. Len(s) -> S] /\ Len(s) \in Nat
  BY <1>1 DEF Reverse
<1>3. Reverse(s) \in Seq(S)
  BY <1>2
<1> QED BY <1>2, <1>3 DEF Reverse

\* cache_flush overruns neither array.
LEMMA FlushedIs ==
  ASSUME PoolConstants, NEW B \in Seq(Buffers), NEW H \in Seq(Buffers)
  PROVE  \E n \in 0 .. Len(B) : LET f == Flushed(B, H) IN
          /\ f \in Parts
          /\ \/ f.bufs = <<>> /\ f.freed = ToSetOf(SubSeq(B, 1, Len(B) - n)) /\ B # <<>>
             \/ n # 0 /\ f.bufs = SubSeq(B, 1, Len(B) - n) /\ f.freed = {}
             \/ B = <<>> /\ f.bufs = <<>> /\ f.freed = {}
          /\ f.shard = Reverse(SubSeq(B, Len(B) - n + 1, Len(B))) \o H
          /\ Len(f.bufs) <= Len(B)
          /\ Len(H) <= MaxFree => Len(f.shard) <= MaxFree
<1> DEFINE n == Moved(Len(H), Len(B))
           f == Flushed(B, H)
           rest == SubSeq(B, 1, Len(B) - n)
           sub == SubSeq(B, Len(B) - n + 1, Len(B))
<1>1. /\ n \in 0 .. Len(B) /\ (n = 0 /\ Len(B) # 0 => n < BatchSize)
      /\ Len(H) <= MaxFree => Len(H) + n <= MaxFree
  BY MovedIs
<1> HIDE DEF n
<1>2. rest \in Seq(Buffers) /\ sub \in Seq(Buffers) /\ (n = 0 => rest = B)
  BY <1>1
<1>s. Len(rest) = Len(B) - n /\ Len(sub) = n /\ Len(rest) <= Len(B)
  BY <1>1
<1>3. Reverse(sub) \in Seq(Buffers) /\ Len(Reverse(sub)) = Len(sub)
  BY <1>2, ReverseIs
<1>4. f = [bufs  |-> IF n < BatchSize /\ rest # <<>> THEN <<>> ELSE rest,
      shard |-> Reverse(sub) \o H,
      freed |-> IF n < BatchSize /\ rest # <<>> THEN ToSetOf(rest) ELSE {}]
  BY DEF Flushed, n
<1> HIDE DEF rest, sub, f
<1>5. Reverse(sub) \o H \in Seq(Buffers) /\ <<>> \in Seq(Buffers) /\ ToSetOf(rest) \subseteq Buffers
  <2>1. ToSetOf(rest) \subseteq Buffers
    BY <1>2, InRange
  <2> QED BY <1>3, <2>1
<1>6. f \in Parts
  BY <1>2, <1>4, <1>5 DEF Parts
<1>7. \/ f.bufs = <<>> /\ f.freed = ToSetOf(rest) /\ B # <<>>
      \/ n # 0 /\ f.bufs = rest /\ f.freed = {}
      \/ B = <<>> /\ f.bufs = <<>> /\ f.freed = {}
  <2>1. CASE n < BatchSize /\ rest # <<>>
    <3>1. B # <<>>
      BY <2>1, <1>1 DEF rest
    <3> QED BY <2>1, <1>4, <3>1
  <2>2. CASE ~(n < BatchSize /\ rest # <<>>)
    <3>1. f.bufs = rest /\ f.freed = {}
      BY <1>4, <2>2
    <3>2. n = 0 => rest = <<>> /\ B = <<>>
      BY <1>1, <1>2, <2>2
    <3> QED BY <3>1, <3>2
  <2> QED BY <2>1, <2>2
<1>8. f.shard = Reverse(sub) \o H
  BY <1>4
<1>9. Len(f.bufs) <= Len(B)
  <2>1. Len(<<>>) = 0 /\ Len(B) \in Nat
    OBVIOUS
  <2> QED BY <1>4, <1>s, <2>1
<1>10. Len(H) <= MaxFree => Len(f.shard) <= MaxFree
  <2>1. Len(f.shard) = n + Len(H)
    BY <1>3, <1>8, <1>s, ConcatIs
  <2> QED BY <1>1, <2>1
<1> QED BY <1>1, <1>6, <1>7, <1>8, <1>9, <1>10 DEF f, rest, sub

\* The parts f are of what is in B and H, each buffer in one.
Shared(B, H, f) ==
  /\ f \in Parts
  /\ IsInjective(f.bufs) /\ IsInjective(f.shard)
  /\ ToSetOf(f.bufs) \subseteq ToSetOf(B) /\ f.freed \subseteq ToSetOf(B)
  /\ ToSetOf(f.bufs) \cup ToSetOf(f.shard) \cup f.freed = ToSetOf(B) \cup ToSetOf(H)
  /\ ToSetOf(f.bufs) \cap ToSetOf(f.shard) = {} /\ f.freed \cap ToSetOf(f.shard) = {}
  /\ f.freed \cap ToSetOf(f.bufs) = {}

\* What it is for a sequence to have no repetitions.
LEMMA InjectiveIs ==
  ASSUME NEW S, NEW s \in Seq(S)
  PROVE  IsInjective(s) <=> \A i, j \in 1 .. Len(s) : s[i] = s[j] => i = j
BY DEF IsInjective

\* cache_flush shares out the buffers between cache, shard and heap.
LEMMA FlushedShares ==
  ASSUME PoolConstants, NEW B \in Seq(Buffers), NEW H \in Seq(Buffers),
         IsInjective(B), IsInjective(H), ToSetOf(B) \cap ToSetOf(H) = {}
  PROVE  /\ Shared(B, H, Flushed(B, H))
         /\ B # <<>> => Len(Flushed(B, H).bufs) < Len(B)
<1> DEFINE f == Flushed(B, H) L == Len(B)
<1>1. PICK n \in 0 .. L :
          /\ f \in Parts
          /\ \/ f.bufs = <<>> /\ f.freed = ToSetOf(SubSeq(B, 1, L - n)) /\ B # <<>>
             \/ n # 0 /\ f.bufs = SubSeq(B, 1, L - n) /\ f.freed = {}
             \/ B = <<>> /\ f.bufs = <<>> /\ f.freed = {}
          /\ f.shard = Reverse(SubSeq(B, L - n + 1, L)) \o H
          /\ Len(f.bufs) <= L
          /\ Len(H) <= MaxFree => Len(f.shard) <= MaxFree
  BY FlushedIs
<1> DEFINE R == SubSeq(B, 1, L - n) U == SubSeq(B, L - n + 1, L) K == f.shard
<1>2. L \in Nat /\ L - n \in 0 .. L
  BY <1>1
<1>3. R \in Seq(Buffers) /\ Len(R) = L - n /\ \A i \in 1 .. L - n : R[i] = B[i]
  BY <1>2
<1>4. U \in Seq(Buffers) /\ Len(U) = n /\ \A i \in 1 .. n : U[i] = B[L - n + i]
  BY <1>2
<1> HIDE DEF R, U, L, f
<1>5. Reverse(U) \in Seq(Buffers) /\ Len(Reverse(U)) = n /\ \A i \in 1 .. n : Reverse(U)[i] = B[L - i + 1]
  <2>1. Reverse(U) \in Seq(Buffers) /\ Len(Reverse(U)) = n /\ \A i \in 1 .. n : Reverse(U)[i] = U[n - i + 1]
    <3>1. PICK V : V = U
      OBVIOUS
    <3>2. V \in Seq(Buffers) /\ Len(V) = n
      BY <1>4, <3>1
    <3>3. /\ Reverse(V) \in Seq(Buffers) /\ Len(Reverse(V)) = Len(V)
          /\ \A i \in 1 .. Len(V) : Reverse(V)[i] = V[Len(V) - i + 1]
      BY ONLY <3>2, ReverseIs
    <3> QED BY <3>1, <3>2, <3>3
  <2>2. ASSUME NEW i \in 1 .. n PROVE n - i + 1 \in 1 .. n /\ L - n + (n - i + 1) = L - i + 1
    BY <1>2
  <2> QED BY <1>4, <2>1, <2>2
<1>6. K = Reverse(U) \o H
  BY <1>1 DEF U
<1>7. /\ K \in Seq(Buffers) /\ Len(K) = n + Len(H)
      /\ \A i \in 1 .. n : K[i] = B[L - i + 1]
      /\ \A i \in n + 1 .. n + Len(H) : K[i] = H[i - n] /\ i - n \in 1 .. Len(H)
  <2> HIDE DEF K
  <2>1. PICK V : V = Reverse(U)
    OBVIOUS
  <2>2. V \in Seq(Buffers) /\ Len(V) = n /\ K = V \o H /\ \A i \in 1 .. n : V[i] = B[L - i + 1]
    BY <1>5, <1>6, <2>1
  <2>3. K \in Seq(Buffers) /\ Len(K) = n + Len(H)
    <3>1. V \in Seq(Buffers) /\ Len(V) = n /\ K = V \o H
      BY <2>2
    <3>2. Len(V \o H) = Len(V) + Len(H) /\ V \o H \in Seq(Buffers)
      BY <3>1, ConcatIs
    <3> QED BY <3>1, <3>2
  <2>4. \A i \in 1 .. n : K[i] = V[i]
    BY <2>2
  <2>5. \A i \in n + 1 .. n + Len(H) : K[i] = H[i - n] /\ i - n \in 1 .. Len(H)
    BY <2>2
  <2> QED BY <2>2, <2>3, <2>4, <2>5
<1>f. f \in Parts /\ f.shard = K
  BY <1>1
<1> HIDE DEF K
<1>8. ASSUME NEW x \in ToSetOf(K)
      PROVE  x \in ToSetOf(H) \/ \E i \in L - n + 1 .. L : x = B[i]
  <2>1. PICK i \in 1 .. n + Len(H) : x = K[i]
    BY <1>7, <1>8, InRange
  <2>2. CASE i <= n
    <3>1. L - i + 1 \in L - n + 1 .. L /\ x = B[L - i + 1]
      BY <1>2, <1>7, <2>1, <2>2
    <3> QED BY <3>1
  <2>3. CASE i > n
    BY <1>7, <2>1, <2>3, InRange
  <2> QED BY <2>2, <2>3
<1>9. ASSUME NEW i \in L - n + 1 .. L PROVE B[i] \in ToSetOf(K)
  <2>1. L - i + 1 \in 1 .. n /\ L - (L - i + 1) + 1 = i
    BY <1>2
  <2>2. K[L - i + 1] = B[i]
    BY <1>7, <2>1
  <2>3. L - i + 1 \in 1 .. Len(K)
    BY <1>7, <2>1
  <2> QED BY <1>7, <2>2, <2>3, InRange
<1>10. ASSUME NEW x \in ToSetOf(H) PROVE x \in ToSetOf(K)
  <2>1. PICK i \in 1 .. Len(H) : x = H[i]
    BY <1>10, InRange
  <2>2. n + i \in n + 1 .. n + Len(H) /\ n + i - n = i /\ n + i \in 1 .. Len(K)
    BY <1>7
  <2>3. K[n + i] = x
    BY <1>7, <2>1, <2>2
  <2> QED BY <1>7, <2>2, <2>3, InRange
<1>11. \A x : x \in ToSetOf(R) <=> \E i \in 1 .. L - n : x = B[i]
  BY <1>3, InRange
<1>12. \A x : x \in ToSetOf(B) <=> \E i \in 1 .. L : x = B[i]
  BY InRange DEF L
<1>13. \A i, j \in 1 .. L : B[i] = B[j] => i = j
  BY InjectiveIs DEF L
<1>14. \A i, j \in 1 .. Len(H) : H[i] = H[j] => i = j
  BY InjectiveIs
<1>15. ToSetOf(R) \cup ToSetOf(K) = ToSetOf(B) \cup ToSetOf(H)
  <2>1. ASSUME NEW x \in ToSetOf(B) PROVE x \in ToSetOf(R) \cup ToSetOf(K)
    <3>1. PICK i \in 1 .. L : x = B[i]
      BY <1>12, <2>1
    <3>2. i \in 1 .. L - n \/ i \in L - n + 1 .. L
      BY <1>2
    <3> QED BY <1>9, <1>11, <3>1, <3>2
  <2>2. ASSUME NEW x \in ToSetOf(R) \cup ToSetOf(K) PROVE x \in ToSetOf(B) \cup ToSetOf(H)
    <3>1. \A i : i \in L - n + 1 .. L \/ i \in 1 .. L - n => i \in 1 .. L
      BY <1>2
    <3> QED BY <1>8, <1>11, <1>12, <2>2, <3>1
  <2> QED BY <1>10, <2>1, <2>2
<1>16. ToSetOf(R) \subseteq ToSetOf(B) /\ ToSetOf(R) \cap ToSetOf(K) = {}
  <2>1. \A i \in 1 .. L - n : i \in 1 .. L /\ i \notin L - n + 1 .. L
    BY <1>2
  <2>2. \A i \in L - n + 1 .. L : i \in 1 .. L
    BY <1>2
  <2>3. ToSetOf(R) \subseteq ToSetOf(B)
    BY <1>11, <1>12, <2>1
  <2>4. ASSUME NEW x, x \in ToSetOf(R), x \in ToSetOf(K) PROVE FALSE
    <3>1. PICK i \in L - n + 1 .. L : x = B[i]
      BY <1>8, <2>3, <2>4
    <3>2. PICK j \in 1 .. L - n : x = B[j]
      BY <1>11, <2>4
    <3> QED BY <1>13, <2>1, <2>2, <3>1, <3>2
  <2> QED BY <2>3, <2>4
<1>17. IsInjective(R)
  <2>1. \A i \in 1 .. L - n : i \in 1 .. L
    BY <1>2
  <2>2. \A i, j \in 1 .. Len(R) : R[i] = R[j] => i = j
    BY <1>3, <1>13, <2>1
  <2> QED BY <1>3, <2>2, InjectiveIs
<1>18. IsInjective(K)
  <2> SUFFICES ASSUME NEW i \in 1 .. Len(K), NEW j \in 1 .. Len(K), K[i] = K[j] PROVE i = j
    BY <1>7, InjectiveIs
  <2>1. \A k \in 1 .. n : K[k] = B[L - k + 1] /\ L - k + 1 \in 1 .. L /\ K[k] \in ToSetOf(B)
    <3> SUFFICES ASSUME NEW k \in 1 .. n PROVE K[k] = B[L - k + 1] /\ L - k + 1 \in 1 .. L /\ K[k] \in ToSetOf(B)
      OBVIOUS
    <3>1. L - k + 1 \in 1 .. L
      BY <1>2
    <3>2. B[L - k + 1] \in ToSetOf(B)
      BY <1>12, <3>1
    <3> QED BY <1>7, <3>1, <3>2
  <2>2. \A k \in n + 1 .. n + Len(H) : K[k] = H[k - n] /\ k - n \in 1 .. Len(H) /\ K[k] \in ToSetOf(H)
    BY <1>7, InRange
  <2>3. \A k \in 1 .. Len(K) : k \in 1 .. n \/ k \in n + 1 .. n + Len(H)
    BY <1>7
  <2>4. CASE i \in 1 .. n /\ j \in 1 .. n
    <3>1. L - i + 1 = L - j + 1
      BY <1>13, <2>1, <2>4
    <3> QED BY <1>2, <3>1
  <2>5. CASE i \in n + 1 .. n + Len(H) /\ j \in n + 1 .. n + Len(H)
    <3>1. i - n = j - n
      BY <1>14, <2>2, <2>5
    <3> QED BY <1>2, <3>1
  <2>6. ~(i \in 1 .. n /\ j \in n + 1 .. n + Len(H)) /\ ~(j \in 1 .. n /\ i \in n + 1 .. n + Len(H))
    BY <2>1, <2>2
  <2> QED BY <2>3, <2>4, <2>5, <2>6
<1>19. /\ <<>> \in Seq(Buffers) /\ ToSetOf(<<>>) = {} /\ IsInjective(<<>>)
  BY DEF ToSetOf, IsInjective
<1>20. f.bufs = <<>> /\ f.freed = ToSetOf(R) => Shared(B, H, f)
  BY <1>f, <1>15, <1>16, <1>18, <1>19 DEF Shared
<1>21. f.bufs = R /\ f.freed = {} => Shared(B, H, f)
  BY <1>f, <1>15, <1>16, <1>17, <1>18 DEF Shared
<1>22. B = <<>> => R = <<>>
  BY <1>2, <1>3 DEF L
<1>23. Shared(B, H, f)
  <2>1. R = SubSeq(B, 1, L - n)
    BY DEF R
  <2> QED BY <1>1, <1>20, <1>21, <1>22, <2>1
<1>24. B # <<>> => Len(f.bufs) < L
  <2>1. B # <<>> => L > 0
    BY DEF L
  <2>2. CASE f.bufs = <<>>
    BY <1>2, <2>1, <2>2
  <2>3. CASE n # 0 /\ f.bufs = R
    BY <1>2, <1>3, <2>3
  <2> QED BY <1>1, <2>2, <2>3 DEF R
<1> QED BY <1>23, <1>24 DEF f, L

\* So does another call, in types,
LEMMA FlushedMoreType ==
  ASSUME PoolConstants, NEW s \in Parts
  PROVE  /\ FlushedMore(s) \in Parts
         /\ Len(s.shard) <= MaxFree => Len(FlushedMore(s).shard) <= MaxFree
<1>1. s.bufs \in Seq(Buffers) /\ s.shard \in Seq(Buffers) /\ s.freed \subseteq Buffers
  BY DEF Parts
<1> DEFINE f == Flushed(s.bufs, s.shard)
<1>2. f \in Parts /\ (Len(s.shard) <= MaxFree => Len(f.shard) <= MaxFree)
  BY <1>1, FlushedIs
<1> HIDE DEF f
<1>3. FlushedMore(s) = IF s.bufs = <<>> THEN s ELSE [f EXCEPT !.freed = @ \cup s.freed]
  BY DEF FlushedMore, f
<1>4. /\ [f EXCEPT !.freed = @ \cup s.freed] \in Parts
      /\ [f EXCEPT !.freed = @ \cup s.freed].shard = f.shard
  BY <1>1, <1>2 DEF Parts
<1> QED BY <1>2, <1>3, <1>4

\* and in what it shares out.
LEMMA FlushedMoreShares ==
  ASSUME PoolConstants, NEW B, NEW H, NEW s, Shared(B, H, s)
  PROVE  /\ Shared(B, H, FlushedMore(s))
         /\ s.bufs = <<>> => FlushedMore(s).bufs = <<>>
         /\ s.bufs # <<>> => Len(FlushedMore(s).bufs) < Len(s.bufs)
<1>1. s.bufs \in Seq(Buffers) /\ s.shard \in Seq(Buffers) /\ s.freed \subseteq Buffers
  BY DEF Shared, Parts
<1>2. CASE s.bufs = <<>>
  BY <1>2 DEF FlushedMore
<1>3. CASE s.bufs # <<>>
  <2> DEFINE f == Flushed(s.bufs, s.shard) g == FlushedMore(s)
  <2>1. Shared(s.bufs, s.shard, f) /\ Len(f.bufs) < Len(s.bufs)
    BY <1>1, <1>3, FlushedShares DEF Shared
  <2>2. f \in Parts
    BY <2>1 DEF Shared
  <2>3. g = [f EXCEPT !.freed = @ \cup s.freed]
    BY <1>3 DEF FlushedMore
  <2> HIDE DEF f, g
  <2>4. g \in Parts /\ g.bufs = f.bufs /\ g.shard = f.shard /\ g.freed = f.freed \cup s.freed
    BY <1>1, <2>2, <2>3 DEF Parts
  <2>5. Shared(B, H, g)
    BY <2>1, <2>4 DEF Shared
  <2> QED BY <1>3, <2>1, <2>4, <2>5 DEF g
<1> QED BY <1>2, <1>3

\* Flushing until the cache is empty shares out its buffers and ends.
LEMMA FlushedAllIs ==
  ASSUME PoolConstants, NEW B \in Seq(Buffers), NEW H \in Seq(Buffers)
  PROVE  /\ FlushedAll(B, H) \in Parts
         /\ Len(H) <= MaxFree => Len(FlushedAll(B, H).shard) <= MaxFree
         /\ IsInjective(B) /\ IsInjective(H) /\ ToSetOf(B) \cap ToSetOf(H) = {} =>
              Shared(B, H, FlushedAll(B, H)) /\ FlushedAll(B, H).bufs = <<>>
<1> DEFINE N == Len(B)
           first == [bufs |-> B, shard |-> H, freed |-> {}]
           D == [n \in 1 .. N |-> [x \in Parts |-> FlushedMore(x)]]
           Walk(f) == [n \in 0 .. N |-> IF n = 0 THEN first ELSE FlushedMore(f[n - 1])]
           g == CHOOSE f : f = Walk(f)
<1>1. FlushedAll(B, H) = g[N]
  BY DEF FlushedAll
<1>2. D \in [1 .. N -> [Parts -> Parts]]
  BY FlushedMoreType
<1>3. first \in Parts /\ N \in Nat
  BY DEF Parts
<1>4. \E f : Iteration(f, Parts, first, N, D)
  <2> HIDE DEF D, first, N
  <2> QED BY <1>2, <1>3, Iterates
<1> HIDE DEF first, N
<1>5. \E f : f = Walk(f)
  <2>1. PICK f \in [0 .. N -> Parts] :
          f[0] = first /\ \A n \in 1 .. N : f[n] = D[n][f[n - 1]]
    <3> HIDE DEF D
    <3> QED BY <1>4 DEF Iteration
  <2>2. \A n \in 1 .. N : f[n] = FlushedMore(f[n - 1])
    <3> SUFFICES ASSUME NEW n \in 1 .. N PROVE f[n] = FlushedMore(f[n - 1])
      OBVIOUS
    <3>1. n - 1 \in 0 .. N
      BY <1>3
    <3>2. f[n - 1] \in Parts
      BY <2>1, <3>1
    <3>3. D[n][f[n - 1]] = FlushedMore(f[n - 1])
      BY <3>2
    <3> QED BY <2>1, <3>3
  <2>3. f = [n \in 0 .. N |-> f[n]]
    BY <2>1
  <2>4. \A n \in 0 .. N : f[n] = IF n = 0 THEN first ELSE FlushedMore(f[n - 1])
    BY <1>3, <2>1, <2>2
  <2>5. f = Walk(f)
    BY <2>3, <2>4
  <2> QED BY <2>5
<1>6. g = Walk(g)
  <2> HIDE DEF Walk
  <2> QED BY <1>5
<1> HIDE DEF g
<1>7. g[0] = first /\ \A n \in 0 .. N - 1 : g[n + 1] = FlushedMore(g[n])
  <2>1. g[0] = first
    BY <1>3, <1>6
  <2>2. ASSUME NEW n \in 0 .. N - 1 PROVE g[n + 1] = FlushedMore(g[n])
    <3>1. n + 1 \in 0 .. N /\ n + 1 # 0 /\ n + 1 - 1 = n
      BY <1>3
    <3>2. \A m \in 0 .. N : g[m] = IF m = 0 THEN first ELSE FlushedMore(g[m - 1])
      BY <1>6
    <3>3. g[n + 1] = FlushedMore(g[n + 1 - 1])
      BY <3>1, <3>2
    <3> QED BY <3>1, <3>3
  <2> QED BY <2>1, <2>2
<1>8. g[N] \in Parts /\ (Len(H) <= MaxFree => Len(g[N].shard) <= MaxFree)
  <2> DEFINE Fits(n) == g[n] \in Parts /\ (Len(H) <= MaxFree => Len(g[n].shard) <= MaxFree)
             T == {n \in Nat : n <= N => Fits(n)}
  <2>1. 0 \in T
    <3>1. first.shard = H
      BY DEF first
    <3> QED BY <1>3, <1>7, <3>1
  <2>2. ASSUME NEW n \in Nat, n \in T PROVE n + 1 \in T
    <3> SUFFICES ASSUME n + 1 <= N PROVE Fits(n + 1)
      OBVIOUS
    <3>1. n \in 0 .. N - 1 /\ Fits(n)
      BY <1>3, <2>2
    <3>2. g[n + 1] = FlushedMore(g[n])
      BY <1>7, <3>1
    <3> QED BY <3>1, <3>2, FlushedMoreType
  <2> HIDE DEF T
  <2>3. Nat \subseteq T
    BY <2>1, <2>2, SetInduction
  <2> QED BY <1>3, <2>3 DEF T
<1>9. ASSUME IsInjective(B), IsInjective(H), ToSetOf(B) \cap ToSetOf(H) = {}
      PROVE  Shared(B, H, g[N]) /\ g[N].bufs = <<>>
  <2> DEFINE T == {n \in Nat : n <= N => Shared(B, H, g[n]) /\ Len(g[n].bufs) <= N - n}
  <2>1. 0 \in T
    <3>1. first.bufs = B /\ first.shard = H /\ first.freed = {}
      BY DEF first
    <3>2. Shared(B, H, first)
      BY <1>3, <1>9, <3>1 DEF Shared
    <3> QED BY <1>3, <1>7, <3>1, <3>2 DEF N
  <2>2. ASSUME NEW n \in Nat, n \in T PROVE n + 1 \in T
    <3> SUFFICES ASSUME n + 1 <= N PROVE Shared(B, H, g[n + 1]) /\ Len(g[n + 1].bufs) <= N - (n + 1)
      OBVIOUS
    <3>1. n \in 0 .. N - 1 /\ Shared(B, H, g[n]) /\ Len(g[n].bufs) <= N - n
      BY <1>3, <2>2
    <3>2. g[n + 1] = FlushedMore(g[n])
      BY <1>7, <3>1
    <3>3. /\ Shared(B, H, g[n + 1])
          /\ g[n].bufs = <<>> => g[n + 1].bufs = <<>>
          /\ g[n].bufs # <<>> => Len(g[n + 1].bufs) < Len(g[n].bufs)
      BY <3>1, <3>2, FlushedMoreShares
    <3>4. Len(g[n].bufs) \in Nat /\ Len(g[n + 1].bufs) \in Nat
      BY <3>1, <3>3 DEF Shared, Parts
    <3>5. g[n].bufs = <<>> => Len(g[n + 1].bufs) = 0
      BY <3>3
    <3> QED BY <1>3, <3>1, <3>3, <3>4, <3>5
  <2> HIDE DEF T
  <2>3. Nat \subseteq T
    BY <2>1, <2>2, SetInduction
  <2>4. Shared(B, H, g[N]) /\ Len(g[N].bufs) <= N - N
    BY <1>3, <2>3 DEF T
  <2>5. g[N].bufs \in Seq(Buffers)
    BY <2>4 DEF Shared, Parts
  <2> QED BY <1>3, <2>4, <2>5
<1> QED BY <1>1, <1>8, <1>9

\* A finite set as a sequence.
LEMMA SetToSeqIs ==
  ASSUME NEW S, IsFiniteSet(S)
  PROVE  /\ SetToSeq(S) \in Seq(S) /\ IsInjective(SetToSeq(S)) /\ ToSetOf(SetToSeq(S)) = S
<1> DEFINE n == Cardinality(S) f == SetToSeq(S)
<1>1. n \in Nat /\ ExistsBijection(1 .. n, S)
  <2>1. PICK m \in Nat : ExistsBijection(1 .. m, S)
    BY FS_NatBijection
  <2> QED BY <2>1, FS_CountingElements
<1>2. PICK g \in Bijection(1 .. n, S) : TRUE
  BY <1>1 DEF ExistsBijection
<1>3. g \in [1 .. n -> S] /\ IsInjective(g)
  BY <1>2 DEF Bijection, Injection, Surjection, IsInjective
<1>4. f \in [1 .. n -> S] /\ IsInjective(f)
  BY <1>3 DEF SetToSeq
<1> HIDE DEF f, n
<1>5. f \in Seq(S) /\ Len(f) = n
  BY <1>1, <1>4
<1>6. ToSetOf(f) = S
  <2>1. f \in Bijection(1 .. n, ToSetOf(f))
    <3>1. f \in [1 .. n -> ToSetOf(f)] /\ DOMAIN f = 1 .. n
      BY <1>4 DEF ToSetOf
    <3>2. \A x \in ToSetOf(f) : \E i \in 1 .. n : f[i] = x
      BY <3>1 DEF ToSetOf
    <3>3. \A i, j \in 1 .. n : f[i] = f[j] => i = j
      BY <1>4, <3>1 DEF IsInjective
    <3> QED BY <3>1, <3>2, <3>3 DEF Bijection, Injection, Surjection, IsInjective
  <2>2. ExistsBijection(1 .. n, ToSetOf(f))
    BY <2>1 DEF ExistsBijection
  <2>3. Cardinality(ToSetOf(f)) = n
    BY <1>1, <2>2, FS_CountingElements
  <2>4. ToSetOf(f) \subseteq S
    BY <1>5, InRange
  <2>5. Cardinality(ToSetOf(f)) = Cardinality(S)
    BY <2>3 DEF n
  <2> QED BY <2>4, <2>5, FS_Subset
<1> QED BY <1>4, <1>5, <1>6 DEF f

-----------------------------------------------------------------------------
(* The structs, step by step.                                              *)

\* What the work of a thread depends on in a cache.
SameState(c) ==
  /\ cache'[c].pool = cache[c].pool /\ cache'[c].owner = cache[c].owner
  /\ cache'[c].lock = cache[c].lock /\ cache'[c].exited = cache[c].exited
  /\ cache'[c].cleaned_up = cache[c].cleaned_up

\* A step of thread t may do this to the cache c, of which others take no notice.
OwnChange(t, c) ==
  /\ cache'[c].owner = cache[c].owner
  /\ cache[c].cleaned_up => cache'[c].cleaned_up
  /\ cache[c].lock \in {NoUser, t} \/ cache'[c].lock = cache[c].lock
  /\ cache'[c].pool \in {cache[c].pool, NoPool}
  /\ \/ cache[c].owner = t
     \/ /\ cache'[c].pool = NoPool /\ cache'[c].exited = cache[c].exited /\ cache[c].lock \in {NoUser, t}
        /\ cache[c].pool \in Pools => pool[cache[c].pool].stage # "open"

\* The hands of a thread that does not move.
LEMMA HandKept ==
  ASSUME NEW u \in Users, HandSound(u),
         at'[u] = at[u],
         at[u].pool \in Pools => pool'[at[u].pool].stage = pool[at[u].pool].stage,
         \A v \in Users : at'[v].pool = at[u].pool => at[v].pool = at[u].pool
  PROVE  HandSound(u)'
BY DEF HandSound

\* A thread that does not move keeps WorkSound,
LEMMA WorkKept ==
  ASSUME NEW u \in Users, NEW t \in Users, u # t, PoolConstants, StructsInv, PoolTypes',
         NEW c0, c0 \in CacheIds => OwnChange(t, c0),
         \A c \in CacheIds \ {c0} : SameState(c),
         at'[u] = at[u], tls'[u] = tls[u], key'[u] = key[u]
  PROVE  WorkSound(u)'
<1> DEFINE c == at[u].c
<1>1. HandSound(u) /\ WorkSound(u) /\ RefsSound(u) /\ PoolTypes
  BY DEF StructsInv
<1>2. c \in CacheIds \cup {NoCache}
  BY <1>1 DEF PoolTypes, Locals
<1>3. CASE c \in CacheIds /\ c # c0
  <2>1. SameState(c)
    BY <1>3
  <2> QED BY <1>1, <1>3, <2>1 DEF WorkSound, SameState
<1>4. CASE c = NoCache
  BY <1>1, <1>4 DEF WorkSound, Exiting
<1>5. CASE c = c0 /\ c \in CacheIds
  <2>1. OwnChange(t, c)
    BY <1>5
  <2>2. NoUser # u
    BY DEF PoolConstants
  <2>3. CASE cache[c].owner = t
    <3>1. /\ at[u].pc \notin {"alloc", "alloc_shard", "alloc_heap", "free", "switch_lock", "switch_check",
                            "switch_clean", "switch_unlock", "switch_leave"}
          /\ at[u].pc \notin Exiting
      BY <1>1, <1>5, <2>3 DEF WorkSound, RefsSound, PoolConstants
    <3> QED BY <3>1 DEF WorkSound, Exiting
  <2>4. CASE cache[c].owner # t
    <3>1. at[u].pc \notin {"alloc", "alloc_shard", "alloc_heap", "free"}
      BY <1>1, <1>5, <2>1, <2>4 DEF WorkSound, OwnChange, HandSound, Calling, PoolConstants
    <3>2. /\ at[u].pc \notin {"switch_check", "switch_clean", "switch_unlock"} \cup Exiting
          /\ at[u].pc = "switch_leave" => cache'[c].cleaned_up
      BY <1>1, <1>5, <2>1, <2>2, <2>4 DEF WorkSound, OwnChange
    <3> QED BY <1>1, <1>5, <3>1, <3>2 DEF WorkSound, Exiting
  <2> QED BY <2>3, <2>4
<1> QED BY <1>2, <1>3, <1>4, <1>5

\* its references,
LEMMA RefsKept ==
  ASSUME NEW u \in Users, NEW t \in Users, u # t, PoolConstants, StructsInv, PoolTypes',
         NEW c0, c0 \in CacheIds => OwnChange(t, c0),
         \A c \in CacheIds \ {c0} : SameState(c),
         at'[u] = at[u], tls'[u] = tls[u], key'[u] = key[u],
         tls[u] # c0 => (tls[u] \in structs => tls[u] \in structs'),
         key[u] # c0 => (key[u] \in structs => key[u] \in structs'),
         c0 \in structs' \/ (tls[u] # c0 /\ key[u] # c0)
  PROVE  RefsSound(u)'
<1>1. HandSound(u) /\ WorkSound(u) /\ RefsSound(u) /\ PoolTypes
  BY DEF StructsInv
<1>2. tls[u] \in CacheIds \cup {NoCache} /\ key[u] \in CacheIds \cup {NoCache} /\ NoCache \notin CacheIds
  BY <1>1 DEF PoolTypes, PoolConstants
<1>3. ASSUME tls[u] # NoCache
      PROVE  /\ tls[u] \in structs' /\ cache'[tls[u]].owner = u /\ ~cache'[tls[u]].exited
             /\ cache'[tls[u]].cleaned_up /\ cache'[tls[u]].pool # NoPool =>
                  at[u].pc \in {"switch_unlock", "switch_leave"}
  <2>1. CASE tls[u] = c0
    BY <1>1, <1>2, <1>3, <2>1 DEF RefsSound, OwnChange
  <2>2. CASE tls[u] # c0
    BY <1>1, <1>2, <1>3, <2>2 DEF RefsSound, SameState
  <2> QED BY <2>1, <2>2
<1>4. ASSUME key[u] # NoCache
      PROVE  /\ key[u] \in structs' /\ cache'[key[u]].owner = u
             /\ key[u] = tls[u] \/ at[u].pc \in Exiting
  <2>1. CASE key[u] = c0
    BY <1>1, <1>2, <1>4, <2>1 DEF RefsSound, OwnChange
  <2>2. CASE key[u] # c0
    BY <1>1, <1>2, <1>4, <2>2 DEF RefsSound, SameState
  <2> QED BY <2>1, <2>2
<1> QED BY <1>3, <1>4 DEF RefsSound, Exiting

\* the lists of the pools are kept,
LEMMA PoolListKept ==
  ASSUME NEW p \in Pools, PoolListSound(p), PoolTypes,
         pool'[p].list = pool[p].list,
         pool'[p].stage = "gone" => pool[p].stage = "gone" \/ pool[p].list = <<>>,
         \A c \in structs : (c \in structs' /\ cache'[c].pool = cache[c].pool) \/ cache[c].pool # p
  PROVE  PoolListSound(p)'
<1> DEFINE list == pool[p].list
<1>1. \A i \in DOMAIN list : list[i] \in structs' /\ cache'[list[i]].pool = p
  BY DEF PoolListSound
<1>2. IsInjective(list)
  BY DEF PoolListSound
<1> QED BY <1>1, <1>2 DEF PoolListSound, IsInjective

\* the list a destroyer has detached,
LEMMA HandListKept ==
  ASSUME NEW u \in Users, StructsInv, PoolConstants, at'[u] = at[u],
         \A c \in structs : \/ c \in structs' /\ cache'[c].pool = cache[c].pool
                            \/ cache[c].pool \in {NoPool} \cup (Pools \ {at[u].pool}),
         \A c \in structs' \ structs : \A i \in DOMAIN at[u].list : at[u].list[i] # c,
         \A c \in structs : cache[c].pool = NoPool => cache'[c].pool = NoPool,
         \A c \in structs : cache[c].lock = u => cache'[c].lock = u,
         \A c \in structs : cache[c].exited => cache'[c].exited,
         \A t \in Users, c \in structs : key'[t] = c => key[t] = c,
         at[u].pool \in Pools => pool'[at[u].pool].list = pool[at[u].pool].list
  PROVE  HandListSound(u)'
<1> DEFINE a == at[u] c == Head(at[u].list)
<1>1. HandListSound(u) /\ HandSound(u) /\ PoolTypes
  BY DEF StructsInv
<1>2. a.list \in Seq(CacheIds)
  BY <1>1 DEF PoolTypes, Locals
<1>3. \A i \in DOMAIN a.list : i > 1 \/ a.pc = "take" =>
         a.list[i] \in structs' /\ cache'[a.list[i]].pool = a.pool
  <2> SUFFICES ASSUME NEW i \in DOMAIN a.list, i > 1 \/ a.pc = "take"
               PROVE  a.list[i] \in structs' /\ cache'[a.list[i]].pool = a.pool
    OBVIOUS
  <2>1. a.list[i] \in structs /\ cache[a.list[i]].pool = a.pool
    BY <1>1 DEF HandListSound
  <2>2. a.pool \in Pools /\ a.pool # NoPool
    BY <1>1 DEF HandSound, Listing, Destroying, PoolConstants
  <2> QED BY <2>1, <2>2
<1>4. a.pc \in Listing => /\ a.pool \in Pools /\ 1 \in DOMAIN a.list /\ c = a.list[1]
  BY <1>1, <1>2 DEF HandSound, Listing, Destroying
<1>5. a.pc \in Listing /\ c \in structs' => c \in structs
  BY <1>4
<1>6. a.pc \in {"release", "dispose"} /\ c \in structs' => cache'[c].pool = NoPool
  BY <1>1, <1>5 DEF HandListSound, Listing
<1>7. a.pc = "release" /\ c \in structs' => cache'[c].lock = u
  BY <1>1, <1>5 DEF HandListSound, Listing
<1>8. a.pc = "dispose" /\ a.flag /\ c \in structs' =>
         cache'[c].exited /\ \A t \in Users : key'[t] # c
  BY <1>1, <1>5 DEF HandListSound, Listing
<1>9. a.pc \in Listing \cup {"shards"} => pool'[a.pool].list = <<>>
  BY <1>1 DEF HandListSound, HandSound, Destroying
<1>10. IsInjective(a.list)
  BY <1>1 DEF HandListSound
<1> HIDE DEF a, c
<1>11. at'[u] = a /\ Head(a.list) = c
  BY DEF a, c
<1> QED BY <1>3, <1>6, <1>7, <1>8, <1>9, <1>10, <1>11 DEF HandListSound, IsInjective

\* and what is true of a cache,
LEMMA CacheKept ==
  ASSUME NEW c \in structs, CacheSound(c),
         cache'[c].pool = cache[c].pool, cache'[c].exited = cache[c].exited,
         cache'[c].cleaned_up = cache[c].cleaned_up,
         cache[c].cleaned_up => cache'[c].bufs = cache[c].bufs,
         cache[c].pool # NoPool => pool'[cache[c].pool].list = pool[cache[c].pool].list,
         \A u \in Users : \/ at'[u] = at[u]
                          \/ /\ at[u].pc \notin Listing
                             /\ at[u].pc \in Exiting /\ at[u].c = c =>
                                  at'[u].pc \in Exiting /\ at'[u].c = c
  PROVE  CacheSound(c)'
<1>1. cache[c].pool # NoPool =>
       \/ \E i \in DOMAIN pool'[cache[c].pool].list : pool'[cache[c].pool].list[i] = c
       \/ \E d \in Users : /\ at'[d].pool = cache[c].pool /\ at'[d].pc \in Listing
                          /\ \E i \in DOMAIN at'[d].list : at'[d].list[i] = c
  <2> SUFFICES ASSUME cache[c].pool # NoPool,
                      \A i \in DOMAIN pool[cache[c].pool].list : pool[cache[c].pool].list[i] # c
               PROVE  \E d \in Users : /\ at'[d].pool = cache[c].pool /\ at'[d].pc \in Listing
                          /\ \E i \in DOMAIN at'[d].list : at'[d].list[i] = c
    OBVIOUS
  <2>1. PICK d \in Users : /\ at[d].pool = cache[c].pool /\ at[d].pc \in Listing
                          /\ \E i \in DOMAIN at[d].list : at[d].list[i] = c
    BY DEF CacheSound
  <2>2. at'[d] = at[d]
    BY <2>1
  <2> QED BY <2>1, <2>2
<1>2. cache[c].exited /\ cache[c].pool = NoPool =>
       \/ \E t \in Users : at'[t].pc \in Exiting /\ at'[t].c = c
       \/ \E d \in Users : /\ at'[d].pc = "release" \/ (at'[d].pc = "dispose" /\ at'[d].flag)
                          /\ Head(at'[d].list) = c
  <2> SUFFICES ASSUME cache[c].exited, cache[c].pool = NoPool
               PROVE  \/ \E t \in Users : at'[t].pc \in Exiting /\ at'[t].c = c
                      \/ \E d \in Users : /\ at'[d].pc = "release" \/ (at'[d].pc = "dispose" /\ at'[d].flag)
                          /\ Head(at'[d].list) = c
    OBVIOUS
  <2>1. CASE \E t \in Users : at[t].pc \in Exiting /\ at[t].c = c
    <3>1. PICK t \in Users : at[t].pc \in Exiting /\ at[t].c = c
      BY <2>1
    <3>2. at'[t].pc \in Exiting /\ at'[t].c = c
      BY <3>1
    <3> QED BY <3>2
  <2>2. CASE \E d \in Users : /\ at[d].pc = "release" \/ (at[d].pc = "dispose" /\ at[d].flag)
                          /\ Head(at[d].list) = c
    <3>1. PICK d \in Users : /\ at[d].pc = "release" \/ (at[d].pc = "dispose" /\ at[d].flag)
                            /\ Head(at[d].list) = c
      BY <2>2
    <3>2. at'[d] = at[d]
      BY <3>1 DEF Listing
    <3> QED BY <3>1, <3>2
  <2> QED BY <2>1, <2>2 DEF CacheSound
<1> QED BY <1>1, <1>2 DEF CacheSound

\* Steps of t that leave the lists alone and change at most its own cache.
LEMMA InsideKeeps ==
  ASSUME PoolConstants, StructsInv, PoolTypes', NEW t \in Users, NEW c0,
         c0 \in CacheIds => OwnChange(t, c0) /\ cache'[c0].pool = cache[c0].pool,
         c0 \in structs => (cache[c0].exited => cache'[c0].exited),
         c0 \in structs' => CacheSound(c0)',
         \A c \in CacheIds \ {c0} :
           SameState(c) /\ (cache[c].cleaned_up => cache'[c].bufs = cache[c].bufs),
         \/ structs' = structs
         \/ structs' = structs \ {c0} /\ cache[c0].pool = NoPool /\ cache[c0].owner = t,
         \A u \in Users \ {t} : at'[u] = at[u] /\ tls'[u] = tls[u] /\ key'[u] = key[u],
         \A p \in Pools : pool'[p].list = pool[p].list /\ pool'[p].stage = pool[p].stage,
         at[t].pc \notin Listing, at'[t].pc \notin Listing \cup {"shards"},
         at'[t].pool \in {at[t].pool, NoPool}
           \/ (at'[t].pool \in Pools /\ pool[at'[t].pool].stage = "open"),
         key'[t] \in {key[t], NoCache},
         at[t].pc \in Exiting => at[t].c = c0 \/ (at'[t].pc \in Exiting /\ at'[t].c = at[t].c),
         HandSound(t)', WorkSound(t)', RefsSound(t)'
  PROVE  StructsInv'
<1> USE DEF StructsInv
<1>1. ASSUME NEW u \in Users PROVE HandSound(u)'
  <2>1. CASE u = t
    BY <2>1
  <2>2. CASE u # t /\ at[u].pc \in Destroying
    <3>1. at[u].pool \in Pools /\ pool[at[u].pool].stage = "closing"
      BY <2>2 DEF HandSound
    <3>2. \A v \in Users : at'[v].pool = at[u].pool => at[v].pool = at[u].pool
      BY <2>2, <3>1 DEF PoolConstants
    <3> QED BY <2>2, <3>1, <3>2, HandKept
  <2>3. CASE u # t /\ at[u].pc \notin Destroying
    <3>1. HandSound(u) /\ at'[u] = at[u]
      BY <2>3
    <3>2. at[u].pool \in Pools => pool'[at[u].pool].stage = pool[at[u].pool].stage
      OBVIOUS
    <3> HIDE DEF StructsInv
    <3> QED BY <2>3, <3>1, <3>2 DEF HandSound
  <2> QED BY <2>1, <2>2, <2>3
<1>2. ASSUME NEW u \in Users PROVE WorkSound(u)'
  <2>1. CASE u # t
    BY <2>1, WorkKept
  <2> QED BY <2>1
<1>3. ASSUME NEW u \in Users PROVE RefsSound(u)'
  <2>1. CASE u # t
    <3>1. c0 \in structs' \/ (tls[u] # c0 /\ key[u] # c0) \/ c0 = NoCache
      BY <2>1 DEF RefsSound, PoolTypes
    <3>2. CASE c0 = NoCache
      <4>1. \A c \in CacheIds : SameState(c)
        BY <3>2 DEF PoolConstants
      <4>2. RefsSound(u) /\ at'[u] = at[u] /\ tls'[u] = tls[u] /\ key'[u] = key[u]
        BY <2>1
      <4>3. structs' = structs /\ structs \subseteq CacheIds
        <5>1. structs \subseteq CacheIds /\ NoCache \notin CacheIds
          BY DEF PoolTypes, PoolConstants
        <5>2. structs \ {c0} = structs
          BY <3>2, <5>1
        <5> QED BY <5>1, <5>2
      <4> HIDE DEF StructsInv
      <4> QED BY <4>1, <4>2, <4>3 DEF RefsSound, SameState
    <3>3. CASE c0 # NoCache
      BY <2>1, <3>1, <3>3, RefsKept
    <3> QED BY <3>2, <3>3
  <2> QED BY <2>1
<1>4. \A c \in structs : cache'[c].pool = cache[c].pool
  BY DEF PoolTypes, SameState
<1>s. \A c \in structs : c \in structs' \/ (c = c0 /\ cache[c].pool = NoPool)
  OBVIOUS
<1>5. ASSUME NEW p \in Pools PROVE PoolListSound(p)'
  BY <1>4, <1>s, PoolListKept DEF PoolConstants
<1>6. ASSUME NEW u \in Users PROVE HandListSound(u)'
  <2>1. CASE u # t
    <3>1. \A c \in structs : cache[c].lock = u => cache'[c].lock = u
      <4> SUFFICES ASSUME NEW c \in structs, cache[c].lock = u PROVE cache'[c].lock = u
        OBVIOUS
      <4>1. CASE c = c0
        BY <2>1, <4>1 DEF PoolTypes, OwnChange, PoolConstants
      <4>2. CASE c # c0
        <5>1. SameState(c)
          BY <4>2 DEF PoolTypes
        <5> QED BY <5>1 DEF SameState
      <4> QED BY <4>1, <4>2
    <3>2. \A c \in structs : cache[c].exited => cache'[c].exited
      BY DEF PoolTypes, SameState
    <3>3. \A v \in Users, c \in structs : key'[v] = c => key[v] = c
      BY DEF PoolTypes, PoolConstants
    <3>4. structs' \ structs = {} /\ \A c \in structs : cache[c].pool = NoPool => cache'[c].pool = NoPool
      BY <1>4
    <3> QED BY <1>4, <1>s, <2>1, <3>1, <3>2, <3>3, <3>4, HandListKept
  <2>2. CASE u = t
    <3>1. at'[t].list = <<>>
      BY DEF HandSound
    <3> QED BY <2>2, <3>1 DEF HandListSound, IsInjective, Listing
  <2> QED BY <2>1, <2>2
<1>7. ASSUME NEW c \in structs' PROVE CacheSound(c)'
  <2>0. c \in structs
    OBVIOUS
  <2>1. CASE c # c0
    <3>1. SameState(c) /\ (cache[c].cleaned_up => cache'[c].bufs = cache[c].bufs)
      BY <2>0, <2>1 DEF PoolTypes
    <3>2. cache[c].pool # NoPool => pool'[cache[c].pool].list = pool[cache[c].pool].list
      BY <2>0 DEF PoolTypes, Caches
    <3>3. \A u \in Users : \/ at'[u] = at[u]
                          \/ /\ at[u].pc \notin Listing
                             /\ at[u].pc \in Exiting /\ at[u].c = c =>
                                  at'[u].pc \in Exiting /\ at'[u].c = c
      BY <2>1
    <3>4. CacheSound(c)
      BY <2>0
    <3> QED BY <2>0, <3>1, <3>2, <3>3, <3>4, CacheKept DEF SameState
  <2> QED BY <2>1
<1> QED BY <1>1, <1>2, <1>3, <1>5, <1>6, <1>7

-----------------------------------------------------------------------------
\* What is known of the thread that moves.
LEMMA MoverFacts ==
  ASSUME StructsInv, NEW t \in Users
  PROVE  PoolTypes /\ HandSound(t) /\ WorkSound(t) /\ RefsSound(t) /\ HandListSound(t)
BY DEF StructsInv

\* when none of what they depend on changes.
LEMMA CacheUntouched ==
  ASSUME UNCHANGED cache PROVE \A c \in CacheIds : SameState(c) /\ cache'[c].bufs = cache[c].bufs
BY DEF SameState

\* The places in the code.
PCs == {"idle", "exited"} \cup Calling \cup Exiting \cup Destroying

\* A move to another place keeps the locals.
LEMMA PcType ==
  /\ PCs = {"idle", "exited", "lookup", "switch_lock", "switch_check", "switch_clean", "switch_unlock",
            "switch_leave", "alloc", "alloc_shard", "alloc_heap", "track", "free", "exit_check", "exit_clean",
            "exit_unlock", "take", "release", "dispose", "quiesce", "detach", "shards"}
  /\ Locals = [pc : PCs,
               op : {"none", "alloc", "free"}, pool : Pools \cup {NoPool},
               old : Pools \cup {NoPool}, c : CacheIds \cup {NoCache},
               buf : Buffers \cup {NoBuf}, flag : BOOLEAN, list : Seq(CacheIds)]
BY DEF PCs, Locals, Calling, Exiting, Destroying, Listing

\* The locals of an idle thread.
LEMMA IdleType == Idle \in Locals
<1>1. <<>> \in Seq(CacheIds) /\ "idle" \in PCs
  BY PcType
<1> QED BY <1>1, PcType DEF Idle

\* One thread moves.
LEMMA ThreadMoves ==
  ASSUME PoolTypes, NEW t \in Users, NEW a \in Locals, at' = [at EXCEPT ![t] = a]
  PROVE  at' \in [Users -> Locals] /\ at'[t] = a /\ \A u \in Users \ {t} : at'[u] = at[u]
BY DEF PoolTypes

\* The counters of a pool change and nothing else of it.
SameLists == \A p \in Pools : pool'[p].list = pool[p].list /\ pool'[p].stage = pool[p].stage

\* One pool changes.
LEMMA PoolMoves ==
  ASSUME PoolTypes, NEW p \in Pools, NEW r \in PoolStates, pool' = [pool EXCEPT ![p] = r]
  PROVE  pool' \in [Pools -> PoolStates] /\ pool'[p] = r /\ \A q \in Pools \ {p} : pool'[q] = pool[q]
BY DEF PoolTypes

\* active_users changes.
LEMMA UsersChange ==
  ASSUME PoolTypes, NEW p \in Pools, NEW n \in Int, pool' = [pool EXCEPT ![p].active_users = n]
  PROVE  /\ pool' \in [Pools -> PoolStates] /\ SameLists
         /\ \A q \in Pools : pool'[q].total = pool[q].total
<1> DEFINE r == [pool[p] EXCEPT !.active_users = n]
<1>1. pool[p] \in PoolStates /\ pool' = [pool EXCEPT ![p] = r]
  BY DEF PoolTypes
<1>2. /\ r \in PoolStates /\ r.stage = pool[p].stage /\ r.list = pool[p].list
      /\ r.total = pool[p].total
  BY <1>1 DEF PoolStates
<1> HIDE DEF r
<1>3. pool' \in [Pools -> PoolStates] /\ pool'[p] = r /\ \A q \in Pools \ {p} : pool'[q] = pool[q]
  BY <1>1, <1>2, PoolMoves
<1> QED BY <1>2, <1>3 DEF SameLists

\* total_buffers changes.
LEMMA TotalChange ==
  ASSUME PoolTypes, NEW p \in Pools, NEW n \in Int, pool' = [pool EXCEPT ![p].total = n]
  PROVE  /\ pool' \in [Pools -> PoolStates] /\ SameLists
         /\ pool'[p].total = n /\ \A q \in Pools \ {p} : pool'[q].total = pool[q].total
<1> DEFINE r == [pool[p] EXCEPT !.total = n]
<1>1. pool[p] \in PoolStates /\ pool' = [pool EXCEPT ![p] = r]
  BY DEF PoolTypes
<1>2. r \in PoolStates /\ r.stage = pool[p].stage /\ r.list = pool[p].list /\ r.total = n
  BY <1>1 DEF PoolStates
<1> HIDE DEF r
<1>3. pool' \in [Pools -> PoolStates] /\ pool'[p] = r /\ \A q \in Pools \ {p} : pool'[q] = pool[q]
  BY <1>1, <1>2, PoolMoves
<1> QED BY <1>2, <1>3 DEF SameLists

\* next_shard changes.
LEMMA ShardChange ==
  ASSUME PoolTypes, NEW p \in Pools, NEW n \in Shards, pool' = [pool EXCEPT ![p].next_shard = n]
  PROVE  /\ pool' \in [Pools -> PoolStates] /\ SameLists
         /\ \A q \in Pools : pool'[q].total = pool[q].total
<1> DEFINE r == [pool[p] EXCEPT !.next_shard = n]
<1>1. pool[p] \in PoolStates /\ pool' = [pool EXCEPT ![p] = r]
  BY DEF PoolTypes
<1>2. /\ r \in PoolStates /\ r.stage = pool[p].stage /\ r.list = pool[p].list
      /\ r.total = pool[p].total
  BY <1>1 DEF PoolStates
<1> HIDE DEF r
<1>3. pool' \in [Pools -> PoolStates] /\ pool'[p] = r /\ \A q \in Pools \ {p} : pool'[q] = pool[q]
  BY <1>1, <1>2, PoolMoves
<1> QED BY <1>2, <1>3 DEF SameLists

\* The start of an allocation or a free: the structs.
LEMMA CallStruct ==
  ASSUME PoolConstants, StructsInv, NEW t \in Users, NEW p \in Pools,
         NEW op \in {"alloc", "free"}, NEW b \in Buffers \cup {NoBuf},
         op = "alloc" => b = NoBuf, op = "free" => b \in Buffers,
         Call(t, p, op, b), held' \in [Pools -> SUBSET Buffers]
  PROVE  StructsInv'
<1>1. PoolTypes /\ HandSound(t) /\ WorkSound(t) /\ RefsSound(t)
  BY MoverFacts
<1> DEFINE a == [Idle EXCEPT !.pc = "lookup", !.pool = p, !.op = op, !.buf = b]
<1>2. at' = [at EXCEPT ![t] = a] /\ at[t] = Idle /\ pool[p].stage = "open"
  BY <1>1 DEF Call, HandSound
<1>3. /\ a.pc = "lookup" /\ a.pool = p /\ a.op = op /\ a.buf = b /\ a.c = NoCache
      /\ a.list = <<>> /\ a.old = NoPool /\ a.flag = FALSE
  BY DEF Idle
<1>4. a \in Locals
  <2>1. "lookup" \in PCs
    BY PcType
  <2> QED BY <2>1, IdleType, PcType
<1> HIDE DEF a
<1>5. PoolTypes'
  <2>1. at' \in [Users -> Locals]
    BY <1>1, <1>2, <1>4, ThreadMoves
  <2> QED BY <1>1, <2>1 DEF PoolTypes, Call
<1>6. at'[t] = a /\ \A u \in Users \ {t} : at'[u] = at[u]
  BY <1>1, <1>2, <1>4, ThreadMoves
<1>7. HandSound(t)'
  <2>1. pool' = pool
    BY DEF Call
  <2>2. a.pc \notin Listing /\ a.pc \notin Destroying /\ a.pc \notin Exiting /\ p \in Pools
    BY <1>3 DEF Destroying, Listing, Exiting
  <2> QED BY <1>2, <1>3, <1>6, <2>1, <2>2 DEF HandSound
<1>8. WorkSound(t)'
  BY <1>3, <1>6 DEF WorkSound, Exiting
<1>9. RefsSound(t)'
  BY <1>1, <1>2, <1>3, <1>6 DEF RefsSound, Call, Exiting, Idle
<1>10. \A c \in CacheIds : SameState(c) /\ cache'[c].bufs = cache[c].bufs
  BY DEF Call, SameState
<1>11. NoCache \notin CacheIds /\ structs \subseteq CacheIds
  BY <1>1 DEF PoolTypes, PoolConstants
<1>12. at[t].pc \notin Listing /\ at'[t].pc \notin Listing \cup {"shards"} /\ at[t].pc \notin Exiting
  BY <1>2, <1>3, <1>6 DEF Idle, Listing, Exiting
<1>13. UNCHANGED <<pool, structs, tls, key>>
  BY DEF Call
<1> QED BY <1>2, <1>3, <1>5, <1>6, <1>7, <1>8, <1>9, <1>10, <1>11, <1>12, <1>13, InsideKeeps

\* The fast path of get_thread_cache: the structs.
LEMMA LookupHitStruct ==
  ASSUME PoolConstants, StructsInv, NEW t \in Users, LookupHit(t)
  PROVE  StructsInv'
<1>1. PoolTypes /\ HandSound(t) /\ WorkSound(t) /\ RefsSound(t)
  BY MoverFacts
<1>2. /\ at'[t] = [at[t] EXCEPT !.pc = at[t].op, !.c = tls[t]]
      /\ \A u \in Users \ {t} : at'[u] = at[u]
      /\ UNCHANGED <<pool, bucket, cache, structs, live, held, tls, key>>
      /\ at[t].pc = "lookup" /\ tls[t] # NoCache /\ cache[tls[t]].pool = at[t].pool
  BY <1>1 DEF PoolTypes, LookupHit
<1>3. PoolTypes'
  BY <1>1, <1>2 DEF PoolTypes, LookupHit, HandSound, Calling, Locals
<1>4. HandSound(t)'
  BY <1>1, <1>2 DEF PoolTypes, Locals, HandSound, Calling, Exiting, Destroying, Listing
<1>5. WorkSound(t)'
  BY <1>1, <1>2 DEF PoolTypes, WorkSound, HandSound, Calling, Exiting
<1>6. RefsSound(t)'
  BY <1>1, <1>2 DEF PoolTypes, RefsSound, HandSound, Calling, Exiting
<1>7. \A c \in CacheIds : SameState(c) /\ cache'[c].bufs = cache[c].bufs
  BY <1>2, CacheUntouched
<1>8. NoCache \notin CacheIds /\ structs \subseteq CacheIds
  BY <1>1 DEF PoolTypes, PoolConstants
<1>9. /\ at[t].pc \notin Listing /\ at'[t].pc \notin Listing \cup {"shards"} /\ at[t].pc \notin Exiting
      /\ at'[t].pool = at[t].pool
  BY <1>1, <1>2 DEF HandSound, PoolTypes, Calling, Listing, Exiting
<1> QED BY <1>2, <1>3, <1>4, <1>5, <1>6, <1>7, <1>8, <1>9, InsideKeeps

\* A thread that finds its cache in another pool: the structs.
LEMMA LookupOtherStruct ==
  ASSUME PoolConstants, StructsInv, NEW t \in Users, LookupOther(t)
  PROVE  StructsInv'
<1>1. PoolTypes /\ HandSound(t) /\ WorkSound(t) /\ RefsSound(t)
  BY MoverFacts
<1> DEFINE a == [at[t] EXCEPT !.pc = "switch_lock", !.c = tls[t]]
<1>2. /\ at' = [at EXCEPT ![t] = a]
      /\ UNCHANGED <<cache, structs, tls, key>>
      /\ at[t].pc = "lookup" /\ tls[t] # NoCache /\ UNCHANGED pool
  BY <1>1 DEF PoolTypes, PoolStates, LookupOther
<1>a. a \in Locals
  <2>1. "switch_lock" \in PCs
    BY PcType
  <2>2. at[t] \in Locals /\ tls[t] \in CacheIds \cup {NoCache}
    BY <1>1 DEF PoolTypes
  <2> QED BY <2>1, <2>2, PcType
<1>b. at' \in [Users -> Locals] /\ at'[t] = a /\ \A u \in Users \ {t} : at'[u] = at[u]
  BY <1>1, <1>2, <1>a, ThreadMoves
<1>10. /\ \A p \in Pools : pool'[p].list = pool[p].list /\ pool'[p].stage = pool[p].stage
       /\ pool' \in [Pools -> PoolStates]
  BY <1>1, <1>2 DEF PoolTypes, PoolStates, LookupOther
<1>3. PoolTypes'
  BY <1>1, <1>2, <1>b, <1>10 DEF PoolTypes, PoolStates, LookupOther
<1>4. HandSound(t)'
  BY <1>1, <1>2, <1>a, <1>b, <1>10, PcType DEF HandSound, Calling, Exiting, Destroying, Listing
<1>5. WorkSound(t)'
  BY <1>1, <1>2, <1>a, <1>b, PcType DEF PoolTypes, WorkSound, HandSound, Calling, Exiting
<1>6. RefsSound(t)'
  BY <1>1, <1>2, <1>a, <1>b, PcType DEF PoolTypes, RefsSound, HandSound, Calling, Exiting
<1>7. \A c \in CacheIds : SameState(c) /\ cache'[c].bufs = cache[c].bufs
  BY <1>2, CacheUntouched
<1>8. NoCache \notin CacheIds /\ structs \subseteq CacheIds
  BY <1>1 DEF PoolTypes, PoolConstants
<1>9. /\ at[t].pc \notin Listing /\ at'[t].pc \notin Listing \cup {"shards"}
      /\ at[t].pc \in Exiting => at'[t].pc \in Exiting /\ at'[t].c = at[t].c
      /\ at'[t].pool \in {at[t].pool, NoPool}
  BY <1>1, <1>2, <1>a, <1>b, PcType DEF HandSound, PoolTypes, Calling, Listing, Exiting
<1> QED BY <1>2, <1>b, <1>3, <1>4, <1>5, <1>6, <1>7, <1>8, <1>9, <1>10, InsideKeeps

\* The second look at the old pool: the structs.
LEMMA SwitchCheckStruct ==
  ASSUME PoolConstants, StructsInv, NEW t \in Users, SwitchCheck(t)
  PROVE  StructsInv'
<1>1. PoolTypes /\ HandSound(t) /\ WorkSound(t) /\ RefsSound(t)
  BY MoverFacts
<1> DEFINE a == [at[t] EXCEPT !.pc = "switch_clean", !.flag = ~Destroyed(at[t].old)]
<1>2. /\ at' = [at EXCEPT ![t] = a]
      /\ UNCHANGED <<cache, structs, tls, key>>
      /\ at[t].pc = "switch_check" /\ UNCHANGED pool
  BY <1>1 DEF PoolTypes, PoolStates, SwitchCheck
<1>a. a \in Locals
  <2>1. "switch_clean" \in PCs
    BY PcType
  <2>2. at[t] \in Locals /\ tls[t] \in CacheIds \cup {NoCache}
    BY <1>1 DEF PoolTypes
  <2> QED BY <2>1, <2>2, PcType
<1>b. at' \in [Users -> Locals] /\ at'[t] = a /\ \A u \in Users \ {t} : at'[u] = at[u]
  BY <1>1, <1>2, <1>a, ThreadMoves
<1>10. /\ \A p \in Pools : pool'[p].list = pool[p].list /\ pool'[p].stage = pool[p].stage
       /\ pool' \in [Pools -> PoolStates]
  BY <1>1, <1>2 DEF PoolTypes, PoolStates, SwitchCheck
<1>3. PoolTypes'
  BY <1>1, <1>2, <1>b, <1>10 DEF PoolTypes, PoolStates, SwitchCheck
<1>4. HandSound(t)'
  BY <1>1, <1>2, <1>a, <1>b, <1>10, PcType DEF HandSound, Calling, Exiting, Destroying, Listing
<1>5. WorkSound(t)'
  BY <1>1, <1>2, <1>a, <1>b, PcType DEF PoolTypes, WorkSound, HandSound, Calling, Exiting
<1>6. RefsSound(t)'
  BY <1>1, <1>2, <1>a, <1>b, PcType DEF PoolTypes, RefsSound, HandSound, Calling, Exiting
<1>7. \A c \in CacheIds : SameState(c) /\ cache'[c].bufs = cache[c].bufs
  BY <1>2, CacheUntouched
<1>8. NoCache \notin CacheIds /\ structs \subseteq CacheIds
  BY <1>1 DEF PoolTypes, PoolConstants
<1>9. /\ at[t].pc \notin Listing /\ at'[t].pc \notin Listing \cup {"shards"}
      /\ at[t].pc \in Exiting => at'[t].pc \in Exiting /\ at'[t].c = at[t].c
      /\ at'[t].pool \in {at[t].pool, NoPool}
  BY <1>1, <1>2, <1>a, <1>b, PcType DEF HandSound, PoolTypes, Calling, Listing, Exiting
<1> QED BY <1>2, <1>b, <1>3, <1>4, <1>5, <1>6, <1>7, <1>8, <1>9, <1>10, InsideKeeps

\* The exit of a thread without a cache: the structs.
LEMMA ExitPlainStruct ==
  ASSUME PoolConstants, StructsInv, NEW t \in Users, ExitPlain(t)
  PROVE  StructsInv'
<1>1. PoolTypes /\ HandSound(t) /\ WorkSound(t) /\ RefsSound(t)
  BY MoverFacts
<1> DEFINE a == [at[t] EXCEPT !.pc = "exited"]
<1>2. /\ at' = [at EXCEPT ![t] = a]
      /\ UNCHANGED <<cache, structs, tls, key>>
      /\ at[t].pc = "idle" /\ UNCHANGED pool /\ key[t] = NoCache
  BY <1>1 DEF PoolTypes, PoolStates, ExitPlain
<1>a. a \in Locals
  <2>1. "exited" \in PCs
    BY PcType
  <2>2. at[t] \in Locals /\ tls[t] \in CacheIds \cup {NoCache}
    BY <1>1 DEF PoolTypes
  <2> QED BY <2>1, <2>2, PcType
<1>b. at' \in [Users -> Locals] /\ at'[t] = a /\ \A u \in Users \ {t} : at'[u] = at[u]
  BY <1>1, <1>2, <1>a, ThreadMoves
<1>10. /\ \A p \in Pools : pool'[p].list = pool[p].list /\ pool'[p].stage = pool[p].stage
       /\ pool' \in [Pools -> PoolStates]
  BY <1>1, <1>2 DEF PoolTypes, PoolStates, ExitPlain
<1>3. PoolTypes'
  BY <1>1, <1>2, <1>b, <1>10 DEF PoolTypes, PoolStates, ExitPlain
<1>4. HandSound(t)'
  BY <1>1, <1>2, <1>a, <1>b, <1>10, PcType DEF HandSound, Calling, Exiting, Destroying, Listing
<1>5. WorkSound(t)'
  BY <1>1, <1>2, <1>a, <1>b, PcType DEF PoolTypes, WorkSound, HandSound, Calling, Exiting
<1>6. RefsSound(t)'
  BY <1>1, <1>2, <1>a, <1>b, PcType DEF PoolTypes, RefsSound, HandSound, Calling, Exiting
<1>7. \A c \in CacheIds : SameState(c) /\ cache'[c].bufs = cache[c].bufs
  BY <1>2, CacheUntouched
<1>8. NoCache \notin CacheIds /\ structs \subseteq CacheIds
  BY <1>1 DEF PoolTypes, PoolConstants
<1>9. /\ at[t].pc \notin Listing /\ at'[t].pc \notin Listing \cup {"shards"}
      /\ at[t].pc \in Exiting => at'[t].pc \in Exiting /\ at'[t].c = at[t].c
      /\ at'[t].pool \in {at[t].pool, NoPool}
  BY <1>1, <1>2, <1>a, <1>b, PcType DEF HandSound, PoolTypes, Calling, Listing, Exiting
<1> QED BY <1>2, <1>b, <1>3, <1>4, <1>5, <1>6, <1>7, <1>8, <1>9, <1>10, InsideKeeps

\* The destructor looks at the pool: the structs.
LEMMA ExitCheckStruct ==
  ASSUME PoolConstants, StructsInv, NEW t \in Users, ExitCheck(t)
  PROVE  StructsInv'
<1>1. PoolTypes /\ HandSound(t) /\ WorkSound(t) /\ RefsSound(t)
  BY MoverFacts
<1> DEFINE a == [at[t] EXCEPT !.pc = "exit_clean", !.flag = at[t].old # NoPool /\ ~Destroyed(at[t].old),
                         !.old = IF at[t].old # NoPool /\ ~Destroyed(at[t].old) THEN at[t].old ELSE NoPool]
<1>2. /\ at' = [at EXCEPT ![t] = a]
      /\ UNCHANGED <<cache, structs, tls, key>>
      /\ at[t].pc = "exit_check"
  BY <1>1 DEF PoolTypes, ExitCheck
<1>a. a \in Locals
  <2>1. "exit_clean" \in PCs
    BY PcType
  <2>2. at[t] \in Locals /\ tls[t] \in CacheIds \cup {NoCache}
    BY <1>1 DEF PoolTypes
  <2> QED BY <2>1, <2>2, PcType
<1>b. at' \in [Users -> Locals] /\ at'[t] = a /\ \A u \in Users \ {t} : at'[u] = at[u]
  BY <1>1, <1>2, <1>a, ThreadMoves
<1>10. /\ \A p \in Pools : pool'[p].list = pool[p].list /\ pool'[p].stage = pool[p].stage
       /\ pool' \in [Pools -> PoolStates]
  <2>1. at[t].old \in Pools \cup {NoPool}
    BY <1>1, PcType DEF PoolTypes
  <2> DEFINE p == at[t].old
  <2>2. pool' = pool \/ (p \in Pools /\ pool' = [pool EXCEPT ![p].active_users = @ - 1])
    BY <2>1 DEF ExitCheck
  <2>3. CASE p \in Pools /\ pool' = [pool EXCEPT ![p].active_users = @ - 1]
    <3>1. pool[p].active_users - 1 \in Int
      BY <1>1, <2>3 DEF PoolTypes, PoolStates
    <3> QED BY <1>1, <2>3, <3>1, UsersChange DEF SameLists
  <2> QED BY <1>1, <2>2, <2>3 DEF PoolTypes
<1>3. PoolTypes'
  BY <1>1, <1>2, <1>b, <1>10 DEF PoolTypes, ExitCheck
<1>4. HandSound(t)'
  BY <1>1, <1>2, <1>a, <1>b, <1>10, PcType DEF HandSound, Calling, Exiting, Destroying, Listing
<1>5. WorkSound(t)'
  <2>1. at[t].old \in Pools \cup {NoPool} /\ at[t] \in Locals
    BY <1>1, PcType DEF PoolTypes
  <2>2. /\ a.pc = "exit_clean" /\ a.c = at[t].c
        /\ a.flag => a.old = at[t].old /\ a.old \in Pools
        /\ ~a.flag => a.old = NoPool
    BY <2>1, PcType
  <2> HIDE DEF a
  <2> QED BY <1>1, <1>2, <1>b, <2>2 DEF WorkSound, Exiting
<1>6. RefsSound(t)'
  BY <1>1, <1>2, <1>a, <1>b, PcType DEF PoolTypes, RefsSound, HandSound, Calling, Exiting
<1>7. \A c \in CacheIds : SameState(c) /\ cache'[c].bufs = cache[c].bufs
  BY <1>2, CacheUntouched
<1>8. NoCache \notin CacheIds /\ structs \subseteq CacheIds
  BY <1>1 DEF PoolTypes, PoolConstants
<1>9. /\ at[t].pc \notin Listing /\ at'[t].pc \notin Listing \cup {"shards"}
      /\ at[t].pc \in Exiting => at'[t].pc \in Exiting /\ at'[t].c = at[t].c
      /\ at'[t].pool \in {at[t].pool, NoPool}
  BY <1>1, <1>2, <1>a, <1>b, PcType DEF HandSound, PoolTypes, Calling, Listing, Exiting
<1> QED BY <1>2, <1>b, <1>3, <1>4, <1>5, <1>6, <1>7, <1>8, <1>9, <1>10, InsideKeeps

\* The end of its phase 1: the structs.
LEMMA QuiesceStruct ==
  ASSUME PoolConstants, StructsInv, NEW t \in Users, Quiesce(t)
  PROVE  StructsInv'
<1>1. PoolTypes /\ HandSound(t) /\ WorkSound(t) /\ RefsSound(t)
  BY MoverFacts
<1> DEFINE a == [at[t] EXCEPT !.pc = "detach"]
<1>2. /\ at' = [at EXCEPT ![t] = a]
      /\ UNCHANGED <<cache, structs, tls, key>>
      /\ at[t].pc = "quiesce" /\ UNCHANGED pool
  BY <1>1 DEF PoolTypes, PoolStates, Quiesce, Goto
<1>a. a \in Locals
  <2>1. "detach" \in PCs
    BY PcType
  <2>2. at[t] \in Locals /\ tls[t] \in CacheIds \cup {NoCache}
    BY <1>1 DEF PoolTypes
  <2> QED BY <2>1, <2>2, PcType
<1>b. at' \in [Users -> Locals] /\ at'[t] = a /\ \A u \in Users \ {t} : at'[u] = at[u]
  BY <1>1, <1>2, <1>a, ThreadMoves
<1>10. /\ \A p \in Pools : pool'[p].list = pool[p].list /\ pool'[p].stage = pool[p].stage
       /\ pool' \in [Pools -> PoolStates]
  BY <1>1, <1>2 DEF PoolTypes, PoolStates, Quiesce, Goto
<1>3. PoolTypes'
  BY <1>1, <1>2, <1>b, <1>10 DEF PoolTypes, PoolStates, Quiesce, Goto
<1>4. HandSound(t)'
  BY <1>1, <1>2, <1>a, <1>b, <1>10, PcType DEF HandSound, Calling, Exiting, Destroying, Listing
<1>5. WorkSound(t)'
  BY <1>1, <1>2, <1>a, <1>b, PcType DEF PoolTypes, WorkSound, HandSound, Calling, Exiting
<1>6. RefsSound(t)'
  BY <1>1, <1>2, <1>a, <1>b, PcType DEF PoolTypes, RefsSound, HandSound, Calling, Exiting
<1>7. \A c \in CacheIds : SameState(c) /\ cache'[c].bufs = cache[c].bufs
  BY <1>2, CacheUntouched
<1>8. NoCache \notin CacheIds /\ structs \subseteq CacheIds
  BY <1>1 DEF PoolTypes, PoolConstants
<1>9. /\ at[t].pc \notin Listing /\ at'[t].pc \notin Listing \cup {"shards"}
      /\ at[t].pc \in Exiting => at'[t].pc \in Exiting /\ at'[t].c = at[t].c
      /\ at'[t].pool \in {at[t].pool, NoPool}
  BY <1>1, <1>2, <1>a, <1>b, PcType DEF HandSound, PoolTypes, Calling, Listing, Exiting
<1> QED BY <1>2, <1>b, <1>3, <1>4, <1>5, <1>6, <1>7, <1>8, <1>9, <1>10, InsideKeeps

-----------------------------------------------------------------------------
\* One cache changes.
LEMMA CacheMoves ==
  ASSUME PoolTypes, NEW c \in CacheIds, NEW r \in Caches, cache' = [cache EXCEPT ![c] = r]
  PROVE  cache' \in [CacheIds -> Caches] /\ cache'[c] = r /\ \A d \in CacheIds \ {c} : cache'[d] = cache[d]
BY DEF PoolTypes

\* The buffers of one cache change.
LEMMA BufsChange ==
  ASSUME PoolTypes, NEW c \in CacheIds, NEW l \in Seq(Buffers), cache' = [cache EXCEPT ![c].bufs = l]
  PROVE  /\ cache' \in [CacheIds -> Caches] /\ cache'[c].bufs = l
         /\ \A d \in CacheIds : SameState(d)
         /\ \A d \in CacheIds \ {c} : cache'[d] = cache[d]
<1> DEFINE r == [cache[c] EXCEPT !.bufs = l]
<1>1. cache[c] \in Caches /\ cache' = [cache EXCEPT ![c] = r]
  BY DEF PoolTypes
<1>2. /\ r \in Caches /\ r.bufs = l /\ r.pool = cache[c].pool /\ r.owner = cache[c].owner
      /\ r.lock = cache[c].lock /\ r.exited = cache[c].exited /\ r.cleaned_up = cache[c].cleaned_up
  BY <1>1 DEF Caches
<1> HIDE DEF r
<1>3. cache' \in [CacheIds -> Caches] /\ cache'[c] = r /\ \A d \in CacheIds \ {c} : cache'[d] = cache[d]
  BY <1>1, <1>2, CacheMoves
<1>4. ASSUME NEW d \in CacheIds PROVE SameState(d)
  BY <1>2, <1>3 DEF SameState
<1> QED BY <1>2, <1>3, <1>4

\* One shard changes.
LEMMA BucketMoves ==
  ASSUME PoolTypes, NEW p \in Pools, NEW s \in Shards, NEW l \in Seq(Buffers),
         bucket' = [bucket EXCEPT ![p][s] = l]
  PROVE  /\ bucket' \in [Pools -> [Shards -> Seq(Buffers)]] /\ bucket'[p][s] = l
         /\ \A q \in Pools, r \in Shards : q # p \/ r # s => bucket'[q][r] = bucket[q][r]
BY DEF PoolTypes

\* total_buffers is set.
LEMMA SetTotal ==
  ASSUME NEW P \in [Pools -> PoolStates], NEW p \in Pools, NEW n \in Int, NEW Q, Q = [P EXCEPT ![p].total = n]
  PROVE  /\ Q \in [Pools -> PoolStates] /\ Q[p].total = n
         /\ \A q \in Pools : Q[q].list = P[q].list /\ Q[q].stage = P[q].stage
         /\ \A q \in Pools \ {p} : Q[q].total = P[q].total
<1> DEFINE r == [P[p] EXCEPT !.total = n]
<1>1. P[p] \in PoolStates /\ Q = [P EXCEPT ![p] = r]
  OBVIOUS
<1>2. r \in PoolStates /\ r.stage = P[p].stage /\ r.list = P[p].list /\ r.total = n
  BY <1>1 DEF PoolStates
<1> HIDE DEF r
<1>3. Q \in [Pools -> PoolStates] /\ Q[p] = r /\ \A q \in Pools \ {p} : Q[q] = P[q]
  BY <1>1, <1>2
<1> QED BY <1>2, <1>3

\* The next shard is a shard.
LEMMA NextIn ==
  ASSUME PoolConstants, NEW s \in Shards
  PROVE  (s + 1) % Cardinality(Shards) \in Shards
<1>1. PICK n \in Nat \ {0} : Shards = 0 .. n - 1
  BY DEF PoolConstants
<1>2. Cardinality(Shards) = n
  BY <1>1, FS_Interval
<1> QED BY <1>1, <1>2

\* next_shard stays in range.
LEMMA NextShardIs ==
  ASSUME PoolConstants, PoolTypes, NEW t \in Users, at[t].pool \in Pools
  PROVE  /\ NextShard(t) \in [Pools -> PoolStates]
         /\ \A q \in Pools : /\ NextShard(t)[q].list = pool[q].list /\ NextShard(t)[q].stage = pool[q].stage
                            /\ NextShard(t)[q].total = pool[q].total
<1> DEFINE p == at[t].pool Q == NextShard(t)
           r == [pool[p] EXCEPT !.next_shard = (@ + 1) % Cardinality(Shards)]
<1>1. CASE at[t].c = NoCache
  <2>1. pool[p] \in PoolStates /\ Q = [pool EXCEPT ![p] = r] /\ pool[p].next_shard \in Shards
    BY <1>1 DEF PoolTypes, NextShard, PoolStates
  <2>2. (pool[p].next_shard + 1) % Cardinality(Shards) \in Shards
    BY <2>1, NextIn
  <2>3. r \in PoolStates /\ r.stage = pool[p].stage /\ r.list = pool[p].list /\ r.total = pool[p].total
    BY <2>1, <2>2 DEF PoolStates
  <2> HIDE DEF r, Q
  <2>4. Q \in [Pools -> PoolStates] /\ Q[p] = r /\ \A q \in Pools \ {p} : Q[q] = pool[q]
    BY <2>1, <2>3 DEF PoolTypes
  <2> QED BY <2>3, <2>4 DEF Q
<1>2. CASE at[t].c # NoCache
  BY <1>2 DEF NextShard, PoolTypes
<1> QED BY <1>1, <1>2

\* The shard an operation works on.
LEMMA ShardOfIs ==
  ASSUME PoolTypes, NEW t \in Users, at[t].pool \in Pools
  PROVE  ShardOf(t) \in Shards
<1>1. at[t] \in Locals /\ at[t].c \in CacheIds \cup {NoCache} /\ pool[at[t].pool].next_shard \in Shards
  BY DEF PoolTypes, Locals, PoolStates
<1>2. at[t].c \in CacheIds => cache[at[t].c].shard \in Shards
  BY DEF PoolTypes, Caches
<1> QED BY <1>1, <1>2 DEF ShardOf

\* The steps of buffer_pool_alloc and buffer_pool_free after get_thread_cache.
WorkPCs == {"alloc", "alloc_shard", "alloc_heap", "track", "free"}

\* A thread at work on its cache moves on, with locals a.
WorkMove(t, a) ==
  \/ a = Idle
  \/ a = at[t]
  \/ /\ at[t].pc \in {"alloc", "alloc_shard"}
     /\ \E x \in {"alloc_shard", "alloc_heap"} : a = [at[t] EXCEPT !.pc = x]
  \/ /\ at[t].pc \in {"alloc", "alloc_shard", "alloc_heap"}
     /\ \E b \in Buffers : a = [at[t] EXCEPT !.pc = "track", !.buf = b]
  \/ /\ at[t].pc = "track"
     /\ a = [Idle EXCEPT !.pc = "lookup", !.op = "free", !.pool = at[t].pool, !.buf = at[t].buf]

\* The record after such a step.
LEMMA WorkMoveIs ==
  ASSUME PoolConstants, StructsInv, NEW t \in Users, NEW a, at[t].pc \in WorkPCs, WorkMove(t, a)
  PROVE  /\ a \in Locals /\ a.list = <<>>
         /\ at[t].pool \in Pools /\ at[t].list = <<>>
         /\ \/ a = Idle
            \/ /\ a.pool = at[t].pool
               /\ \/ a = at[t]
                  \/ /\ a.pc \in {"alloc_shard", "alloc_heap"} /\ a.c = at[t].c /\ a.op = "alloc" /\ a.buf = NoBuf
                     /\ at[t].pc \in {"alloc", "alloc_shard"}
                  \/ /\ a.pc = "track" /\ a.buf \in Buffers /\ a.op = "alloc" /\ a.c = at[t].c
                  \/ /\ a.pc = "lookup" /\ a.op = "free" /\ a.c = NoCache /\ a.buf = at[t].buf /\ a.buf \in Buffers
<1>1. PoolTypes /\ HandSound(t)
  BY MoverFacts
<1>2. at[t] \in Locals /\ at[t].list = <<>> /\ at[t].pool \in Pools
  BY <1>1, PcType DEF PoolTypes, HandSound, WorkPCs, Calling, Listing
<1>3. CASE a = Idle
  BY <1>2, <1>3, IdleType DEF Idle
<1>4. CASE a = at[t]
  BY <1>2, <1>4
<1>5. CASE /\ at[t].pc \in {"alloc", "alloc_shard"}
           /\ \E x \in {"alloc_shard", "alloc_heap"} : a = [at[t] EXCEPT !.pc = x]
  <2>1. PICK x \in {"alloc_shard", "alloc_heap"} : a = [at[t] EXCEPT !.pc = x]
    BY <1>5
  <2>2. x \in PCs
    BY PcType
  <2>3. a \in Locals /\ a.pc = x /\ a.pool = at[t].pool /\ a.c = at[t].c /\ a.op = at[t].op /\ a.buf = at[t].buf /\ a.list = at[t].list
    BY <1>2, <2>1, <2>2, PcType
  <2>4. at[t].op = "alloc" /\ at[t].buf = NoBuf
    BY <1>1, <1>5 DEF HandSound, Calling
  <2> QED BY <1>2, <1>5, <2>3, <2>4
<1>6. CASE /\ at[t].pc \in {"alloc", "alloc_shard", "alloc_heap"}
           /\ \E b \in Buffers : a = [at[t] EXCEPT !.pc = "track", !.buf = b]
  <2>1. PICK b \in Buffers : a = [at[t] EXCEPT !.pc = "track", !.buf = b]
    BY <1>6
  <2>2. "track" \in PCs
    BY PcType
  <2>3. a \in Locals /\ a.pc = "track" /\ a.pool = at[t].pool /\ a.c = at[t].c /\ a.op = at[t].op /\ a.buf = b /\ a.list = at[t].list
    BY <1>2, <2>1, <2>2, PcType
  <2>4. at[t].op = "alloc"
    BY <1>1, <1>6 DEF HandSound, Calling
  <2> QED BY <1>2, <2>3, <2>4
<1>7. CASE /\ at[t].pc = "track"
           /\ a = [Idle EXCEPT !.pc = "lookup", !.op = "free", !.pool = at[t].pool, !.buf = at[t].buf]
  <2>1. at[t].buf \in Buffers
    BY <1>1, <1>7 DEF HandSound, Calling
  <2>2. "lookup" \in PCs
    BY PcType
  <2>3. a \in Locals
    BY <1>2, <1>7, <2>1, <2>2, IdleType, PcType
  <2>4. a.pc = "lookup" /\ a.op = "free" /\ a.c = NoCache /\ a.buf = at[t].buf /\ a.pool = at[t].pool /\ a.list = <<>>
    BY <1>7 DEF Idle
  <2> QED BY <1>2, <2>1, <2>3, <2>4
<1> QED BY <1>3, <1>4, <1>5, <1>6, <1>7 DEF WorkMove

\* The structs through such a step.
LEMMA WorkStruct ==
  ASSUME PoolConstants, StructsInv, PoolTypes', NEW t \in Users, NEW a, at[t].pc \in WorkPCs,
         WorkMove(t, a), at' = [at EXCEPT ![t] = a], UNCHANGED <<structs, tls, key>>, SameLists,
         \A c \in CacheIds : SameState(c) /\ (cache[c].cleaned_up => cache'[c].bufs = cache[c].bufs)
  PROVE  StructsInv'
<1>1. PoolTypes /\ HandSound(t) /\ WorkSound(t) /\ RefsSound(t)
  BY MoverFacts
<1>2. /\ a \in Locals /\ a.list = <<>>
      /\ at[t].pool \in Pools /\ at[t].list = <<>>
      /\ \/ a = Idle
         \/ /\ a.pool = at[t].pool
            /\ \/ a = at[t]
               \/ /\ a.pc \in {"alloc_shard", "alloc_heap"} /\ a.c = at[t].c /\ a.op = "alloc" /\ a.buf = NoBuf
                  /\ at[t].pc \in {"alloc", "alloc_shard"}
               \/ /\ a.pc = "track" /\ a.buf \in Buffers /\ a.op = "alloc" /\ a.c = at[t].c
               \/ /\ a.pc = "lookup" /\ a.op = "free" /\ a.c = NoCache /\ a.buf = at[t].buf /\ a.buf \in Buffers
  BY WorkMoveIs
<1>3. at'[t] = a /\ \A u \in Users \ {t} : at'[u] = at[u]
  BY <1>1, <1>2, ThreadMoves
<1>4. HandSound(t)'
  <2>1. pool'[at[t].pool].stage = "open"
    BY <1>1, <1>2 DEF HandSound, SameLists, WorkPCs, Calling
  <2>2. CASE a = Idle
    BY <1>3, <2>2 DEF HandSound, Idle, Calling, Exiting, Destroying, Listing
  <2>3. CASE a = at[t]
    BY <1>1, <1>2, <1>3, <2>1, <2>3 DEF HandSound, Calling, Exiting, Destroying, Listing, WorkPCs
  <2>4. CASE a # Idle /\ a # at[t]
    BY <1>2, <1>3, <2>1, <2>4 DEF HandSound, Calling, Exiting, Destroying, Listing
  <2> QED BY <2>2, <2>3, <2>4
<1>5. at[t].c \in CacheIds => SameState(at[t].c)
  OBVIOUS
<1>6. at[t].c \in CacheIds \cup {NoCache} /\ NoCache \notin CacheIds
  BY <1>1, PcType DEF PoolTypes, PoolConstants
<1>7. WorkSound(t)'
  <2>1. CASE a.pc \in {"idle", "track", "lookup"}
    BY <1>3, <2>1 DEF WorkSound, Exiting
  <2>2. CASE a.pc \in {"alloc", "alloc_shard", "alloc_heap", "free"}
    <3>1. a.c = at[t].c /\ at[t].pc \in {"alloc", "alloc_shard", "alloc_heap", "free"} /\ a.pool = at[t].pool
      BY <1>2, <2>2 DEF Idle
    <3>2. a.c # NoCache => tls[t] = a.c /\ cache'[a.c].pool = a.pool
      BY <1>1, <1>5, <1>6, <3>1 DEF WorkSound, SameState
    <3> QED BY <1>3, <2>2, <3>2 DEF WorkSound, Exiting
  <2> QED BY <1>2, <2>1, <2>2 DEF Idle, WorkPCs
<1>8. RefsSound(t)'
  <2>1. tls[t] \in CacheIds \cup {NoCache} /\ key[t] \in CacheIds \cup {NoCache}
    BY <1>1 DEF PoolTypes
  <2>2. (tls[t] \in CacheIds => SameState(tls[t])) /\ (key[t] \in CacheIds => SameState(key[t]))
    OBVIOUS
  <2>3. at[t].pc \notin {"switch_unlock", "switch_leave"} /\ at[t].pc \notin Exiting
    BY DEF WorkPCs, Exiting
  <2> QED BY <1>1, <1>6, <2>1, <2>2, <2>3 DEF RefsSound, SameState
<1>9. at[t].pc \notin Listing /\ at[t].pc \notin Exiting
  BY DEF WorkPCs, Listing, Exiting
<1>10. at'[t].pc \notin Listing \cup {"shards"} /\ at'[t].pool \in {at[t].pool, NoPool}
  BY <1>2, <1>3 DEF Idle, Listing, WorkPCs
<1>11. structs \subseteq CacheIds
  BY <1>1 DEF PoolTypes
<1> QED BY <1>3, <1>4, <1>6, <1>7, <1>8, <1>9, <1>10, <1>11, InsideKeeps DEF SameLists

\* The cache a thread allocates from or frees to.
LEMMA InHand ==
  ASSUME PoolConstants, StructsInv, NEW t \in Users, at[t].pc \in {"alloc", "alloc_shard", "alloc_heap", "free"}
  PROVE  /\ at[t].pool \in Pools /\ pool[at[t].pool].stage = "open"
         /\ at[t].c \in CacheIds \cup {NoCache} /\ at[t] \in Locals
         /\ at[t].c # NoCache =>
              /\ at[t].c \in CacheIds /\ at[t].c \in structs /\ cache[at[t].c].pool = at[t].pool
              /\ ~cache[at[t].c].cleaned_up
              /\ cache[at[t].c].shard \in Shards /\ cache[at[t].c].bufs \in Seq(Buffers)
              /\ bucket[at[t].pool][cache[at[t].c].shard] \in Seq(Buffers)
<1>1. PoolTypes /\ HandSound(t) /\ WorkSound(t) /\ RefsSound(t)
  BY MoverFacts
<1>2. at[t].pool \in Pools /\ pool[at[t].pool].stage = "open" /\ at[t].pool # NoPool
  BY <1>1 DEF HandSound, Calling, PoolConstants
<1>3. at[t].c \in CacheIds \cup {NoCache} /\ at[t] \in Locals
  BY <1>1, PcType DEF PoolTypes
<1>4. ASSUME at[t].c # NoCache
      PROVE  /\ at[t].c \in CacheIds /\ at[t].c \in structs /\ cache[at[t].c].pool = at[t].pool
             /\ ~cache[at[t].c].cleaned_up
  BY <1>1, <1>2, <1>3, <1>4 DEF WorkSound, RefsSound
<1>5. ASSUME at[t].c \in CacheIds
      PROVE  cache[at[t].c].shard \in Shards /\ cache[at[t].c].bufs \in Seq(Buffers)
  BY <1>1, <1>5 DEF PoolTypes, Caches
<1>6. ASSUME NEW s \in Shards PROVE bucket[at[t].pool][s] \in Seq(Buffers)
  BY <1>1, <1>2 DEF PoolTypes
<1> QED BY <1>2, <1>3, <1>4, <1>5, <1>6

\* The two ends of a sequence.
LEMMA EndsIs ==
  ASSUME NEW S, NEW s \in Seq(S), s # <<>>
  PROVE  /\ Last(s) \in S /\ Front(s) \in Seq(S) /\ Head(s) \in S /\ Tail(s) \in Seq(S)
         /\ Len(Front(s)) = Len(s) - 1 /\ Len(Tail(s)) = Len(s) - 1
<1>1. Len(s) \in Nat /\ Len(s) > 0 /\ Len(s) - 1 \in 0 .. Len(s) /\ 0 \in Nat
  OBVIOUS
<1>2. Last(s) \in S
  BY <1>1 DEF Last
<1>3. /\ SubSeq(s, 0 + 1, Len(s) - 1) \in Seq(S)
      /\ Len(SubSeq(s, 0 + 1, Len(s) - 1)) = IF 0 < Len(s) - 1 THEN Len(s) - 1 - 0 ELSE 0
  BY <1>1, SubIs
<1>4. Front(s) \in Seq(S) /\ Len(Front(s)) = Len(s) - 1
  <2>1. 0 + 1 = 1
    OBVIOUS
  <2>2. SubSeq(s, 0 + 1, Len(s) - 1) = Front(s)
    BY <2>1 DEF Front
  <2> HIDE DEF Front
  <2>3. (IF 0 < Len(s) - 1 THEN Len(s) - 1 - 0 ELSE 0) = Len(s) - 1
    BY <1>1
  <2> QED BY <1>3, <2>2, <2>3
<1> QED BY <1>2, <1>4

\* An allocation that found its buffer.
LEMMA FoundIs ==
  ASSUME PoolConstants, StructsInv, NEW t \in Users, NEW b \in Buffers,
         at[t].pc \in {"alloc", "alloc_shard", "alloc_heap"}, Found(t, b)
  PROVE  \E a : /\ a \in Locals /\ at' = [at EXCEPT ![t] = a] /\ WorkMove(t, a)
                /\ a.buf = b /\ a.pool = at[t].pool
<1> DEFINE a == [at[t] EXCEPT !.pc = "track", !.buf = b]
<1>1. PoolTypes /\ at[t] \in Locals
  BY MoverFacts DEF PoolTypes
<1>2. at' = [at EXCEPT ![t] = a] /\ a.buf = b /\ a.pool = at[t].pool
  BY <1>1, PcType DEF Found, PoolTypes
<1>3. WorkMove(t, a)
  BY DEF WorkMove
<1>4. a \in Locals
  BY <1>3, WorkMoveIs DEF WorkPCs
<1> QED BY <1>2, <1>3, <1>4

\* A thread goes on.
LEMMA GotoIs ==
  ASSUME PoolConstants, StructsInv, NEW t \in Users, NEW x \in {"alloc_shard", "alloc_heap"},
         at[t].pc \in {"alloc", "alloc_shard"}, Goto(t, x)
  PROVE  \E a : /\ a \in Locals /\ at' = [at EXCEPT ![t] = a] /\ WorkMove(t, a)
                /\ a.buf = at[t].buf /\ a.pool = at[t].pool
<1> DEFINE a == [at[t] EXCEPT !.pc = x]
<1>1. PoolTypes /\ at[t] \in Locals
  BY MoverFacts DEF PoolTypes
<1>2. at' = [at EXCEPT ![t] = a] /\ a.buf = at[t].buf /\ a.pool = at[t].pool
  BY <1>1, PcType DEF Goto, PoolTypes
<1>3. WorkMove(t, a)
  BY DEF WorkMove
<1>4. a \in Locals
  BY <1>3, WorkMoveIs DEF WorkPCs
<1> QED BY <1>2, <1>3, <1>4

\* The buffer is handed out: the structs.
LEMMA TrackStruct ==
  ASSUME PoolConstants, StructsInv, NEW t \in Users, Track(t)
  PROVE  StructsInv'
<1>1. PoolTypes /\ HandSound(t)
  BY MoverFacts
<1>2. at[t].pc \in WorkPCs /\ at[t].pool \in Pools /\ at[t].buf \in Buffers
  BY <1>1 DEF Track, WorkPCs, HandSound, Calling
<1>3. UNCHANGED <<pool, bucket, cache, structs, live, tls, key>>
  BY DEF Track
<1>4. \A c \in CacheIds : SameState(c) /\ cache'[c].bufs = cache[c].bufs
  BY <1>3, CacheUntouched
<1>5. held' \in [Pools -> SUBSET Buffers]
  BY <1>1, <1>2 DEF Track, PoolTypes
<1>6. ASSUME NEW a, WorkMove(t, a), at' = [at EXCEPT ![t] = a] PROVE StructsInv'
  <2>1. a \in Locals
    BY <1>2, <1>6, WorkMoveIs
  <2>2. at' \in [Users -> Locals]
    BY <1>1, <1>6, <2>1, ThreadMoves
  <2>3. PoolTypes'
    BY <1>1, <1>3, <1>5, <2>2 DEF PoolTypes
  <2> QED BY <1>2, <1>3, <1>4, <1>6, <2>3, WorkStruct DEF SameLists
<1>7. WorkMove(t, Idle)
  BY DEF WorkMove
<1>8. WorkMove(t, [Idle EXCEPT !.pc = "lookup", !.op = "free", !.pool = at[t].pool, !.buf = at[t].buf])
  BY DEF WorkMove, Track
<1> QED BY <1>6, <1>7, <1>8 DEF Track

\* An allocation from the cache: the structs.
LEMMA AllocHitStruct ==
  ASSUME PoolConstants, StructsInv, NEW t \in Users, AllocHit(t)
  PROVE  StructsInv'
<1> DEFINE c == at[t].c B == cache[c].bufs
<1>1. PoolTypes /\ at[t].pc = "alloc" /\ c # NoCache /\ B # <<>>
  BY MoverFacts DEF AllocHit
<1>2. c \in CacheIds /\ B \in Seq(Buffers) /\ ~cache[c].cleaned_up
  BY <1>1, InHand
<1>3. Last(B) \in Buffers /\ Front(B) \in Seq(Buffers)
  BY <1>1, <1>2, EndsIs
<1>4. PICK a : a \in Locals /\ at' = [at EXCEPT ![t] = a] /\ WorkMove(t, a)
  BY <1>1, <1>3, FoundIs DEF AllocHit
<1>5. at' \in [Users -> Locals]
  BY <1>1, <1>4, ThreadMoves
<1>6. cache' = [cache EXCEPT ![c].bufs = Front(B)]
  BY <1>2 DEF AllocHit
<1>7. /\ cache' \in [CacheIds -> Caches] /\ \A d \in CacheIds : SameState(d)
      /\ \A d \in CacheIds \ {c} : cache'[d] = cache[d]
  BY <1>1, <1>2, <1>3, <1>6, BufsChange
<1>8. PoolTypes'
  BY <1>1, <1>5, <1>7 DEF PoolTypes, AllocHit
<1>9. \A d \in CacheIds : SameState(d) /\ (cache[d].cleaned_up => cache'[d].bufs = cache[d].bufs)
  BY <1>2, <1>7
<1>10. UNCHANGED <<pool, structs, tls, key>> /\ at[t].pc \in WorkPCs
  BY DEF AllocHit, WorkPCs
<1> QED BY <1>4, <1>8, <1>9, <1>10, WorkStruct DEF SameLists

\* An allocation that refills the cache: the structs.
LEMMA AllocRefillStruct ==
  ASSUME PoolConstants, StructsInv, NEW t \in Users, AllocRefill(t)
  PROVE  StructsInv'
<1> DEFINE c == at[t].c p == at[t].pool list == bucket[p][cache[c].shard]
           n == IF Len(list) < BatchSize THEN Len(list) ELSE BatchSize
<1>1. PoolTypes /\ at[t].pc = "alloc" /\ c # NoCache
  BY MoverFacts DEF AllocRefill
<1>2. c \in CacheIds /\ p \in Pools /\ list \in Seq(Buffers) /\ ~cache[c].cleaned_up /\ cache[c].shard \in Shards
  BY <1>1, InHand
<1>3. n \in 0 .. Len(list)
  <2> HIDE DEF list
  <2>1. Len(list) \in Nat
    BY <1>2
  <2> QED BY <2>1 DEF PoolConstants
<1>10. UNCHANGED <<pool, structs, live, held, tls, key>> /\ at[t].pc \in WorkPCs
  BY DEF AllocRefill, WorkPCs
<1>4. CASE n = 0
  <2>1. Goto(t, "alloc_shard") /\ UNCHANGED <<bucket, cache>>
    BY <1>4 DEF AllocRefill
  <2>2. PICK a : a \in Locals /\ at' = [at EXCEPT ![t] = a] /\ WorkMove(t, a)
    BY <1>1, <2>1, GotoIs
  <2>3. at' \in [Users -> Locals]
    BY <1>1, <2>2, ThreadMoves
  <2>4. PoolTypes'
    BY <1>1, <1>10, <2>1, <2>3 DEF PoolTypes
  <2>5. \A d \in CacheIds : SameState(d) /\ cache'[d].bufs = cache[d].bufs
    BY <2>1, CacheUntouched
  <2> QED BY <1>10, <2>2, <2>4, <2>5, WorkStruct DEF SameLists
<1>5. CASE n # 0
  <2> HIDE DEF n, list, c, p
  <2>1. /\ bucket' = [bucket EXCEPT ![p][cache[c].shard] = SubSeq(list, n + 1, Len(list))]
        /\ cache' = [cache EXCEPT ![c].bufs = SubSeq(list, 1, n - 1)]
        /\ Found(t, list[n])
    BY <1>5 DEF AllocRefill, n, list, c, p
  <2>2. n \in Nat /\ n - 1 \in 0 .. Len(list) /\ Len(list) \in 0 .. Len(list) /\ 0 \in Nat /\ n \in 1 .. Len(list)
    BY <1>2, <1>3, <1>5
  <2>3. SubSeq(list, 0 + 1, n - 1) \in Seq(Buffers) /\ SubSeq(list, n + 1, Len(list)) \in Seq(Buffers)
    BY <1>2, <2>2, SubIs
  <2>4. list[n] \in Buffers /\ SubSeq(list, 1, n - 1) \in Seq(Buffers)
    BY <1>2, <2>2, <2>3
  <2>5. PICK a : a \in Locals /\ at' = [at EXCEPT ![t] = a] /\ WorkMove(t, a)
    BY <1>1, <2>1, <2>4, FoundIs
  <2>6. at' \in [Users -> Locals]
    BY <1>1, <2>5, ThreadMoves
  <2>7. /\ cache' \in [CacheIds -> Caches] /\ \A d \in CacheIds : SameState(d)
        /\ \A d \in CacheIds \ {c} : cache'[d] = cache[d]
    BY <1>1, <1>2, <2>1, <2>4, BufsChange
  <2>8. bucket' \in [Pools -> [Shards -> Seq(Buffers)]]
    BY <1>1, <1>2, <2>1, <2>3, BucketMoves
  <2>9. PoolTypes'
    BY <1>1, <1>10, <2>6, <2>7, <2>8 DEF PoolTypes
  <2>10. \A d \in CacheIds : SameState(d) /\ (cache[d].cleaned_up => cache'[d].bufs = cache[d].bufs)
    BY <1>2, <2>7
  <2> QED BY <1>10, <2>5, <2>9, <2>10, WorkStruct DEF SameLists
<1> QED BY <1>4, <1>5

\* An allocation from a shard, without a cache: the structs.
LEMMA AllocShardStruct ==
  ASSUME PoolConstants, StructsInv, NEW t \in Users, AllocShard(t)
  PROVE  StructsInv'
<1> DEFINE p == at[t].pool s == ShardOf(t)
<1>1. PoolTypes /\ at[t].pc \in {"alloc", "alloc_shard"}
  BY MoverFacts DEF AllocShard
<1>2. p \in Pools
  BY <1>1, InHand
<1>3. s \in Shards
  BY <1>1, <1>2, ShardOfIs
<1>4. UNCHANGED <<cache, structs, live, held, tls, key>> /\ at[t].pc \in WorkPCs
  BY <1>1 DEF AllocShard, WorkPCs
<1>5. pool' \in [Pools -> PoolStates] /\ SameLists
  BY <1>1, <1>2, NextShardIs DEF AllocShard, SameLists
<1>6. \A d \in CacheIds : SameState(d) /\ cache'[d].bufs = cache[d].bufs
  BY <1>4, CacheUntouched
<1>7. bucket[p][s] \in Seq(Buffers)
  BY <1>1, <1>2, <1>3 DEF PoolTypes
<1>8. bucket' \in [Pools -> [Shards -> Seq(Buffers)]]
  <2>1. CASE bucket[p][s] = <<>>
    BY <1>1, <2>1 DEF AllocShard, PoolTypes
  <2>2. CASE bucket[p][s] # <<>>
    <3>1. Tail(bucket[p][s]) \in Seq(Buffers)
      BY <1>7, <2>2, EndsIs
    <3>2. bucket' = [bucket EXCEPT ![p][s] = Tail(bucket[p][s])]
      BY <1>1, <1>2, <1>3, <2>2 DEF AllocShard, PoolTypes
    <3> QED BY <1>1, <1>2, <1>3, <3>1, <3>2, BucketMoves
  <2> QED BY <2>1, <2>2
<1>9. PICK a : a \in Locals /\ at' = [at EXCEPT ![t] = a] /\ WorkMove(t, a)
  <2>1. CASE bucket[p][s] = <<>>
    BY <1>1, <2>1, GotoIs DEF AllocShard
  <2>2. CASE bucket[p][s] # <<>>
    <3>1. Head(bucket[p][s]) \in Buffers
      BY <1>7, <2>2, EndsIs
    <3>2. Found(t, Head(bucket[p][s]))
      BY <2>2 DEF AllocShard
    <3> QED BY <1>1, <3>1, <3>2, FoundIs
  <2> QED BY <2>1, <2>2
<1>10. at' \in [Users -> Locals]
  BY <1>1, <1>9, ThreadMoves
<1>11. PoolTypes'
  BY <1>1, <1>4, <1>5, <1>8, <1>10 DEF PoolTypes
<1> QED BY <1>4, <1>5, <1>6, <1>9, <1>11, WorkStruct

\* The buffers that AllocHeap takes from the heap.
LEMMA HeapIs ==
  ASSUME PoolConstants, StructsInv, InBounds, NEW t \in Users, AllocHeap(t), SetToSeq(Buffers \ live) # <<>>
  PROVE  \E n \in Nat : LET memory == SetToSeq(Buffers \ live) IN
           /\ n + 1 \in 1 .. Len(memory)
           /\ memory \in Seq(Buffers) /\ IsInjective(memory) /\ ToSetOf(memory) = Buffers \ live
           /\ n # 0 => at[t].c # NoCache /\ Len(cache[at[t].c].bufs) + n <= CacheSize
           /\ Found(t, Head(memory))
           /\ live' = live \cup ToSetOf(SubSeq(memory, 1, n + 1))
           /\ pool' = [pool EXCEPT ![at[t].pool].total = @ + n + 1]
           /\ cache' = IF n = 0 THEN cache
                       ELSE [cache EXCEPT ![at[t].c].bufs = @ \o SubSeq(memory, 2, n + 1)]
<1> DEFINE c == at[t].c
           memory == SetToSeq(Buffers \ live)
           room == IF c = NoCache THEN 0
                   ELSE IF cache[c].cleaned_up THEN 0
                   ELSE CacheSize - Len(cache[c].bufs)
           Fit(n) == \A k \in 0 .. BatchSize - 1 : (k <= room /\ k < Len(memory)) <=> k <= n
           extras == CHOOSE n \in 0 .. BatchSize - 1 : Fit(n)
<1>1. at[t].pc = "alloc_heap" /\ PoolTypes
  BY MoverFacts DEF AllocHeap
<1>2. IsFiniteSet(Buffers \ live)
  BY FS_Difference DEF PoolConstants
<1>3. memory \in Seq(Buffers \ live) /\ IsInjective(memory) /\ ToSetOf(memory) = Buffers \ live
  BY <1>2, SetToSeqIs
<1>4. memory \in Seq(Buffers)
  BY <1>3
<1>5. room \in Nat /\ (room # 0 => c # NoCache /\ Len(cache[c].bufs) + room <= CacheSize)
  <2>1. c # NoCache => c \in CacheIds /\ cache[c].bufs \in Seq(Buffers) /\ Len(cache[c].bufs) <= CacheSize
    BY <1>1, InHand DEF InBounds
  <2>2. c # NoCache => Len(cache[c].bufs) \in Nat
    BY <2>1
  <2> QED BY <2>1, <2>2 DEF PoolConstants
<1>6. Len(memory) \in Nat /\ Len(memory) > 0
  BY <1>4
<1>w. /\ Found(t, Head(memory))
      /\ live' = live \cup ToSetOf(SubSeq(memory, 1, extras + 1))
      /\ pool' = [pool EXCEPT ![at[t].pool].total = @ + extras + 1]
      /\ cache' = IF extras = 0 THEN cache
                  ELSE [cache EXCEPT ![c].bufs = @ \o SubSeq(memory, 2, extras + 1)]
  BY DEF AllocHeap
<1> HIDE DEF room, memory
<1>7. \E n \in 0 .. BatchSize - 1 : Fit(n)
  <2> DEFINE m1 == IF room < Len(memory) - 1 THEN room ELSE Len(memory) - 1
             m == IF m1 < BatchSize - 1 THEN m1 ELSE BatchSize - 1
  <2>1. m \in 0 .. BatchSize - 1
    BY <1>5, <1>6 DEF PoolConstants
  <2>2. Fit(m)
    BY <1>5, <1>6 DEF PoolConstants
  <2> QED BY <2>1, <2>2
<1>8. extras \in 0 .. BatchSize - 1 /\ Fit(extras)
  <2> HIDE DEF Fit
  <2> QED BY <1>7
<1>9. extras \in Nat /\ extras <= room /\ extras < Len(memory)
  <2> HIDE DEF extras
  <2> QED BY <1>8 DEF PoolConstants
<1> HIDE DEF extras
<1>10. extras + 1 \in 1 .. Len(memory)
  BY <1>6, <1>9
<1>11. extras # 0 => c # NoCache /\ Len(cache[c].bufs) + extras <= CacheSize
  <2> SUFFICES ASSUME extras # 0 PROVE c # NoCache /\ Len(cache[c].bufs) + extras <= CacheSize
    OBVIOUS
  <2>1. room # 0
    BY <1>5, <1>9
  <2>2. Len(cache[c].bufs) \in Nat
    BY <1>1, <1>5, <2>1, InHand
  <2> QED BY <1>5, <1>9, <2>1, <2>2 DEF PoolConstants
<1> QED BY <1>3, <1>4, <1>9, <1>10, <1>11, <1>w DEF memory

\* An allocation from the heap: the structs.
LEMMA AllocHeapStruct ==
  ASSUME PoolConstants, StructsInv, InBounds, NEW t \in Users, AllocHeap(t)
  PROVE  StructsInv'
<1>1. at[t].pc = "alloc_heap" /\ PoolTypes /\ UNCHANGED <<bucket, structs, held, tls, key>> /\ at[t].pc \in WorkPCs
  BY MoverFacts DEF AllocHeap, WorkPCs
<1>2. CASE SetToSeq(Buffers \ live) = <<>>
  <2>1. at' = [at EXCEPT ![t] = Idle] /\ UNCHANGED <<pool, cache, live>>
    BY <1>2 DEF AllocHeap
  <2>2. WorkMove(t, Idle)
    BY DEF WorkMove
  <2>3. at' \in [Users -> Locals]
    BY <1>1, <2>1, IdleType, ThreadMoves
  <2>4. PoolTypes'
    BY <1>1, <2>1, <2>3 DEF PoolTypes
  <2>5. \A d \in CacheIds : SameState(d) /\ cache'[d].bufs = cache[d].bufs
    BY <2>1, CacheUntouched
  <2> QED BY <1>1, <2>1, <2>2, <2>4, <2>5, WorkStruct DEF SameLists
<1>3. CASE SetToSeq(Buffers \ live) # <<>>
  <2> DEFINE memory == SetToSeq(Buffers \ live) c == at[t].c p == at[t].pool
  <2>1. PICK n \in Nat : 
           /\ n + 1 \in 1 .. Len(memory)
           /\ memory \in Seq(Buffers) /\ IsInjective(memory) /\ ToSetOf(memory) = Buffers \ live
           /\ n # 0 => c # NoCache /\ Len(cache[c].bufs) + n <= CacheSize
           /\ Found(t, Head(memory))
           /\ live' = live \cup ToSetOf(SubSeq(memory, 1, n + 1))
           /\ pool' = [pool EXCEPT ![p].total = @ + n + 1]
           /\ cache' = IF n = 0 THEN cache
                       ELSE [cache EXCEPT ![c].bufs = @ \o SubSeq(memory, 2, n + 1)]
    BY <1>3, HeapIs
  <2>2. p \in Pools /\ at[t] \in Locals
    BY <1>1, InHand
  <2>3. Head(memory) \in Buffers
    BY <1>3, <2>1, EndsIs
  <2>4. PICK a : a \in Locals /\ at' = [at EXCEPT ![t] = a] /\ WorkMove(t, a)
    BY <1>1, <2>1, <2>3, FoundIs
  <2>5. at' \in [Users -> Locals]
    BY <1>1, <2>4, ThreadMoves
  <2> HIDE DEF memory, c, p
  <2>6. SubSeq(memory, 1, n + 1) \in Seq(Buffers) /\ SubSeq(memory, 2, n + 1) \in Seq(Buffers)
    BY <2>1
  <2>7. live' \subseteq Buffers
    BY <1>1, <2>1, <2>6, InRange DEF PoolTypes
  <2>8. pool[p].total + n + 1 \in Int /\ pool' = [pool EXCEPT ![p].total = pool[p].total + n + 1]
    BY <1>1, <2>1, <2>2 DEF PoolTypes, PoolStates
  <2>9. pool' \in [Pools -> PoolStates] /\ SameLists
    BY <1>1, <2>2, <2>8, TotalChange
  <2>10. /\ cache' \in [CacheIds -> Caches]
         /\ \A d \in CacheIds : SameState(d) /\ (cache[d].cleaned_up => cache'[d].bufs = cache[d].bufs)
    <3>1. CASE n = 0
      <4>1. UNCHANGED cache
        BY <2>1, <3>1
      <4>2. \A d \in CacheIds : SameState(d) /\ cache'[d].bufs = cache[d].bufs
        BY <4>1, CacheUntouched
      <4> QED BY <1>1, <4>1, <4>2 DEF PoolTypes
    <3>2. CASE n # 0
      <4>1. c \in CacheIds /\ cache[c].bufs \in Seq(Buffers) /\ ~cache[c].cleaned_up
        BY <1>1, <2>1, <3>2, InHand DEF c
      <4> DEFINE l == cache[c].bufs \o SubSeq(memory, 2, n + 1)
      <4>2. l \in Seq(Buffers)
        BY <2>6, <4>1, ConcatIs
      <4>3. cache' = [cache EXCEPT ![c].bufs = l]
        BY <2>1, <3>2, <4>1 DEF PoolTypes
      <4> HIDE DEF l
      <4>4. /\ cache' \in [CacheIds -> Caches] /\ \A d \in CacheIds : SameState(d)
            /\ \A d \in CacheIds \ {c} : cache'[d] = cache[d]
        BY <1>1, <4>1, <4>2, <4>3, BufsChange
      <4> QED BY <4>1, <4>4
    <3> QED BY <3>1, <3>2
  <2>11. PoolTypes'
    BY <1>1, <2>5, <2>7, <2>9, <2>10 DEF PoolTypes
  <2> QED BY <1>1, <2>4, <2>9, <2>10, <2>11, WorkStruct
<1> QED BY <1>2, <1>3

\* A free into the cache: the structs.
LEMMA FreeCacheStruct ==
  ASSUME PoolConstants, StructsInv, NEW t \in Users, FreeCache(t)
  PROVE  StructsInv'
<1> DEFINE c == at[t].c B == cache[c].bufs l == Append(B, at[t].buf)
<1>1. PoolTypes /\ HandSound(t) /\ at[t].pc = "free" /\ c # NoCache
  BY MoverFacts DEF FreeCache
<1>2. c \in CacheIds /\ B \in Seq(Buffers) /\ ~cache[c].cleaned_up
  BY <1>1, InHand
<1>3. at[t].buf \in Buffers
  BY <1>1 DEF HandSound, Calling
<1>4. l \in Seq(Buffers)
  BY <1>2, <1>3
<1>5. /\ cache' = [cache EXCEPT ![c].bufs = l]
      /\ at' = [at EXCEPT ![t] = Idle] /\ UNCHANGED <<live, pool, bucket, structs, held, tls, key>>
  BY <1>2 DEF FreeCache
<1>6. at' \in [Users -> Locals]
  BY <1>1, <1>5, IdleType, ThreadMoves
<1>7. /\ cache' \in [CacheIds -> Caches] /\ \A d \in CacheIds : SameState(d)
      /\ \A d \in CacheIds \ {c} : cache'[d] = cache[d]
  <2> HIDE DEF l, c
  <2> QED BY <1>1, <1>2, <1>4, <1>5, BufsChange
<1>8. PoolTypes'
  BY <1>1, <1>5, <1>6, <1>7 DEF PoolTypes
<1>9. \A d \in CacheIds : SameState(d) /\ (cache[d].cleaned_up => cache'[d].bufs = cache[d].bufs)
  BY <1>2, <1>7
<1>10. at[t].pc \in WorkPCs /\ WorkMove(t, Idle)
  BY <1>1 DEF WorkPCs, WorkMove
<1> QED BY <1>5, <1>8, <1>9, <1>10, WorkStruct DEF SameLists

\* The sizes of sets of buffers.
LEMMA Finite ==
  ASSUME PoolConstants, NEW S \in SUBSET Buffers
  PROVE  IsFiniteSet(S) /\ Cardinality(S) \in Nat
BY FS_Subset, FS_CardinalityType DEF PoolConstants

\* A flush before a free: the structs.
LEMMA FreeFlushStruct ==
  ASSUME PoolConstants, StructsInv, NEW t \in Users, FreeFlush(t)
  PROVE  StructsInv'
<1> DEFINE c == at[t].c p == at[t].pool B == cache[c].bufs H == bucket[p][cache[c].shard]
           f == Flushed(B, H)
<1>1. PoolTypes /\ at[t].pc = "free" /\ c # NoCache
  BY MoverFacts DEF FreeFlush
<1>2. /\ c \in CacheIds /\ p \in Pools /\ B \in Seq(Buffers) /\ H \in Seq(Buffers) /\ ~cache[c].cleaned_up
      /\ cache[c].shard \in Shards /\ at[t] \in Locals
  BY <1>1, InHand
<1>3. f \in Parts
  BY <1>2, FlushedIs
<1> HIDE DEF f
<1>4. f.bufs \in Seq(Buffers) /\ f.shard \in Seq(Buffers) /\ f.freed \subseteq Buffers
  BY <1>3 DEF Parts
<1>5. /\ bucket' = [bucket EXCEPT ![p][cache[c].shard] = f.shard]
      /\ cache' = [cache EXCEPT ![c].bufs = f.bufs]
      /\ live' = live \ f.freed
      /\ pool' = [pool EXCEPT ![p].total = @ - Cardinality(f.freed)]
      /\ UNCHANGED <<at, structs, held, tls, key>>
  BY DEF FreeFlush, f
<1> HIDE DEF c, p, H
<1>6. /\ cache' \in [CacheIds -> Caches] /\ \A d \in CacheIds : SameState(d)
      /\ \A d \in CacheIds \ {c} : cache'[d] = cache[d]
  BY <1>1, <1>2, <1>4, <1>5, BufsChange
<1>7. bucket' \in [Pools -> [Shards -> Seq(Buffers)]]
  BY <1>1, <1>2, <1>4, <1>5, BucketMoves
<1>8. pool' \in [Pools -> PoolStates] /\ SameLists
  <2>1. Cardinality(f.freed) \in Int
    BY <1>4, Finite
  <2>2. /\ pool[p].total - Cardinality(f.freed) \in Int
        /\ pool' = [pool EXCEPT ![p].total = pool[p].total - Cardinality(f.freed)]
    BY <1>1, <1>2, <1>5, <2>1 DEF PoolTypes, PoolStates
  <2> QED BY <1>1, <1>2, <2>2, TotalChange
<1>9. PoolTypes'
  BY <1>1, <1>5, <1>6, <1>7, <1>8 DEF PoolTypes
<1>10. \A d \in CacheIds : SameState(d) /\ (cache[d].cleaned_up => cache'[d].bufs = cache[d].bufs)
  BY <1>2, <1>6
<1>11. at[t].pc \in WorkPCs /\ WorkMove(t, at[t]) /\ at' = [at EXCEPT ![t] = at[t]]
  BY <1>1, <1>5 DEF WorkPCs, WorkMove, PoolTypes
<1> QED BY <1>5, <1>8, <1>9, <1>10, <1>11, WorkStruct

\* A free into a shard or to the heap: the structs.
LEMMA FreeShardStruct ==
  ASSUME PoolConstants, StructsInv, NEW t \in Users, FreeShard(t)
  PROVE  StructsInv'
<1> DEFINE p == at[t].pool s == ShardOf(t)
<1>1. PoolTypes /\ HandSound(t) /\ at[t].pc = "free"
  BY MoverFacts DEF FreeShard
<1>2. p \in Pools
  BY <1>1, InHand
<1>3. s \in Shards /\ at[t].buf \in Buffers
  BY <1>1, <1>2, ShardOfIs DEF HandSound, Calling
<1>4. UNCHANGED <<cache, structs, held, tls, key>> /\ at' = [at EXCEPT ![t] = Idle]
  BY DEF FreeShard
<1>5. bucket[p][s] \in Seq(Buffers)
  BY <1>1, <1>2, <1>3 DEF PoolTypes
<1>6. /\ NextShard(t) \in [Pools -> PoolStates]
      /\ \A q \in Pools : /\ NextShard(t)[q].list = pool[q].list /\ NextShard(t)[q].stage = pool[q].stage
                         /\ NextShard(t)[q].total = pool[q].total
  BY <1>1, <1>2, NextShardIs
<1>7. /\ pool' \in [Pools -> PoolStates] /\ SameLists /\ bucket' \in [Pools -> [Shards -> Seq(Buffers)]]
      /\ live' \subseteq Buffers
  <2>1. CASE Len(bucket[p][s]) >= MaxFree
    <3>1. pool' = [NextShard(t) EXCEPT ![p].total = @ - 1] /\ UNCHANGED bucket /\ live' = live \ {at[t].buf}
      BY <2>1 DEF FreeShard
    <3>2. NextShard(t)[p].total - 1 \in Int
      BY <1>2, <1>6 DEF PoolStates
    <3>3. /\ pool' \in [Pools -> PoolStates]
          /\ \A q \in Pools : pool'[q].list = NextShard(t)[q].list /\ pool'[q].stage = NextShard(t)[q].stage
      BY <1>2, <1>6, <3>1, <3>2, SetTotal
    <3> QED BY <1>1, <1>6, <3>1, <3>3 DEF PoolTypes, SameLists
  <2>2. CASE ~(Len(bucket[p][s]) >= MaxFree)
    <3>1. pool' = NextShard(t) /\ UNCHANGED live /\ bucket' = [bucket EXCEPT ![p][s] = <<at[t].buf>> \o bucket[p][s]]
      BY <1>2, <1>3, <2>2 DEF FreeShard
    <3>2. <<at[t].buf>> \o bucket[p][s] \in Seq(Buffers)
      BY <1>3, <1>5
    <3>3. bucket' \in [Pools -> [Shards -> Seq(Buffers)]]
      BY <1>1, <1>2, <1>3, <3>1, <3>2, BucketMoves
    <3> QED BY <1>1, <1>6, <3>1, <3>3 DEF PoolTypes, SameLists
  <2> QED BY <2>1, <2>2
<1>8. at' \in [Users -> Locals]
  BY <1>1, <1>4, IdleType, ThreadMoves
<1>9. PoolTypes'
  BY <1>1, <1>4, <1>7, <1>8 DEF PoolTypes
<1>10. \A d \in CacheIds : SameState(d) /\ cache'[d].bufs = cache[d].bufs
  BY <1>4, CacheUntouched
<1>11. at[t].pc \in WorkPCs /\ WorkMove(t, Idle)
  BY <1>1 DEF WorkPCs, WorkMove
<1> QED BY <1>4, <1>7, <1>9, <1>10, <1>11, WorkStruct

-----------------------------------------------------------------------------
\* One cache changes, in all its fields but the owner and the shard.
LEMMA CacheBecomes ==
  ASSUME PoolTypes, NEW c \in CacheIds, NEW r, cache' = [cache EXCEPT ![c] = r],
         r.owner = cache[c].owner, r \in Caches
  PROVE  /\ cache' \in [CacheIds -> Caches] /\ cache'[c] = r
         /\ \A d \in CacheIds \ {c} : cache'[d] = cache[d]
         /\ \A d \in CacheIds \ {c} :
              SameState(d) /\ (cache[d].cleaned_up => cache'[d].bufs = cache[d].bufs)
<1>1. /\ cache' \in [CacheIds -> Caches] /\ cache'[c] = r
      /\ \A d \in CacheIds \ {c} : cache'[d] = cache[d]
  BY CacheMoves
<1> QED BY <1>1 DEF SameState

\* active_users of a pool that may be none.
LEMMA UsersStep ==
  ASSUME PoolTypes, NEW p \in Pools \cup {NoPool}, NEW k \in Int,
         pool' = IF p = NoPool THEN pool ELSE [pool EXCEPT ![p].active_users = @ + k]
  PROVE  /\ pool' \in [Pools -> PoolStates] /\ SameLists
         /\ \A q \in Pools : pool'[q].total = pool[q].total
<1>1. CASE p = NoPool
  BY <1>1 DEF SameLists, PoolTypes
<1>2. CASE p # NoPool
  <2>1. pool[p].active_users + k \in Int /\ pool' = [pool EXCEPT ![p].active_users = pool[p].active_users + k]
    BY <1>2 DEF PoolTypes, PoolStates
  <2> QED BY <1>2, <2>1, UsersChange
<1> QED BY <1>1, <1>2

\* Unlocking the cache of the old pool: the structs.
LEMMA SwitchUnlockStruct ==
  ASSUME PoolConstants, StructsInv, NEW t \in Users, SwitchUnlock(t)
  PROVE  StructsInv'
<1>0. PICK c : c = at[t].c
  OBVIOUS
<1> DEFINE r == [cache[c] EXCEPT !.lock = NoUser] a == [at[t] EXCEPT !.pc = "switch_leave"]
<1>1. PoolTypes /\ HandSound(t) /\ WorkSound(t) /\ RefsSound(t)
  BY MoverFacts
<1>2. at[t].pc = "switch_unlock" /\ UNCHANGED <<pool, bucket, structs, live, held, tls, key>>
  BY DEF SwitchUnlock
<1>3. c \in CacheIds /\ c = tls[t] /\ c \in structs /\ cache[c].owner = t /\ cache[c].lock = t /\ cache[c].cleaned_up /\ ~cache[c].exited
  BY <1>0, <1>1, <1>2 DEF WorkSound, RefsSound, PoolTypes
<1>4. cache[c] \in Caches /\ CacheSound(c) /\ at[t] \in Locals
  BY <1>1, <1>3 DEF PoolTypes, StructsInv
<1>5. cache' = [cache EXCEPT ![c] = r] /\ at' = [at EXCEPT ![t] = a]
  BY <1>0, <1>1, <1>3 DEF SwitchUnlock, Goto, PoolTypes
<1>6. /\ r \in Caches /\ r.owner = cache[c].owner /\ r.pool = cache[c].pool /\ r.exited = cache[c].exited
      /\ r.cleaned_up = cache[c].cleaned_up /\ r.bufs = cache[c].bufs /\ r.lock = NoUser
  BY <1>4 DEF Caches
<1>7. "switch_leave" \in PCs
  BY PcType
<1>8. /\ a \in Locals /\ a.pc = "switch_leave" /\ a.op = at[t].op /\ a.pool = at[t].pool /\ a.old = at[t].old
      /\ a.c = c /\ a.buf = at[t].buf /\ a.flag = at[t].flag /\ a.list = at[t].list
  BY <1>0, <1>4, <1>7, PcType
<1> HIDE DEF a, r
<1>9. at' \in [Users -> Locals] /\ at'[t] = a /\ \A u \in Users \ {t} : at'[u] = at[u]
  BY <1>1, <1>5, <1>8, ThreadMoves
<1>10. /\ cache' \in [CacheIds -> Caches] /\ cache'[c] = r
       /\ \A d \in CacheIds \ {c} :
            SameState(d) /\ (cache[d].cleaned_up => cache'[d].bufs = cache[d].bufs)
  BY <1>1, <1>3, <1>5, <1>6, CacheBecomes
<1>11. PoolTypes'
  BY <1>1, <1>2, <1>9, <1>10 DEF PoolTypes
<1>12. OwnChange(t, c) /\ cache'[c].pool = cache[c].pool
  BY <1>3, <1>6, <1>10 DEF OwnChange
<1>13. HandSound(t)'
  BY <1>1, <1>2, <1>8, <1>9 DEF HandSound, Calling, Exiting, Destroying, Listing
<1>14. WorkSound(t)'
  BY <1>0, <1>1, <1>2, <1>3, <1>6, <1>8, <1>9, <1>10 DEF WorkSound, Exiting
<1>15. RefsSound(t)'
  <2>1. key[t] # NoCache => key[t] = c
    BY <1>1, <1>2, <1>3 DEF RefsSound, Exiting
  <2> QED BY <1>1, <1>2, <1>3, <1>6, <1>8, <1>9, <1>10, <2>1 DEF RefsSound
<1>16. at[t].pc \notin Listing /\ at[t].pc \notin Exiting /\ at'[t].pc \notin Listing \cup {"shards"} /\ at'[t].pool = at[t].pool
  BY <1>2, <1>8, <1>9 DEF Listing, Exiting
<1>17. CacheSound(c)'
  <2>1. \A u \in Users : \/ at'[u] = at[u]
                          \/ /\ at[u].pc \notin Listing
                             /\ at[u].pc \in Exiting /\ at[u].c = c =>
                                  at'[u].pc \in Exiting /\ at'[u].c = c
    BY <1>9, <1>16
  <2>2. /\ cache'[c].pool = cache[c].pool /\ cache'[c].exited = cache[c].exited
        /\ cache'[c].cleaned_up = cache[c].cleaned_up /\ cache'[c].bufs = cache[c].bufs
    BY <1>6, <1>10
  <2>3. pool'[cache[c].pool].list = pool[cache[c].pool].list
    BY <1>2
  <2> QED BY <1>3, <1>4, <2>1, <2>2, <2>3, CacheKept
<1>19. /\ structs' = structs /\ key'[t] \in {key[t], NoCache} /\ (cache[c].exited => cache'[c].exited)
       /\ \A u \in Users \ {t} : at'[u] = at[u] /\ tls'[u] = tls[u] /\ key'[u] = key[u]
       /\ \A p \in Pools : pool'[p].list = pool[p].list /\ pool'[p].stage = pool[p].stage
  BY <1>2, <1>6, <1>9, <1>10
<1> QED BY <1>10, <1>11, <1>12, <1>13, <1>14, <1>15, <1>16, <1>17, <1>19, InsideKeeps

\* A thread lets go of a cache that has lost its pool: the struct is freed.
LEMMA OrphanStruct ==
  ASSUME PoolConstants, StructsInv, NEW t \in Users, NEW c \in CacheIds, c = tls[t],
         at[t].pc \in {"lookup", "switch_lock"}, cache[c].pool = NoPool,
         structs' = structs \ {c}, Forget(t), UNCHANGED <<pool, cache, bucket, live, held>>,
         NEW a \in Locals, at' = [at EXCEPT ![t] = a], a.pc = at[t].op, a.c = NoCache,
         a.op = at[t].op, a.pool = at[t].pool, a.buf = at[t].buf, a.list = at[t].list
  PROVE  StructsInv'
<1>1. PoolTypes /\ HandSound(t) /\ WorkSound(t) /\ RefsSound(t)
  BY MoverFacts
<1>2. at' \in [Users -> Locals] /\ at'[t] = a /\ \A u \in Users \ {t} : at'[u] = at[u]
  BY <1>1, ThreadMoves
<1>3. c # NoCache /\ c \in structs /\ cache[c].owner = t
  BY <1>1 DEF RefsSound, PoolConstants
<1>4. /\ tls' \in [Users -> CacheIds \cup {NoCache}] /\ key' \in [Users -> CacheIds \cup {NoCache}]
      /\ tls'[t] = NoCache /\ key'[t] = NoCache
      /\ \A u \in Users \ {t} : tls'[u] = tls[u] /\ key'[u] = key[u]
  BY <1>1 DEF Forget, PoolTypes
<1>5. PoolTypes'
  BY <1>1, <1>2, <1>4 DEF PoolTypes
<1>6. a.pc \in {"alloc", "free"} /\ at[t].pool \in Pools
  BY <1>1 DEF HandSound, Calling
<1>7. HandSound(t)'
  BY <1>1, <1>2, <1>6 DEF HandSound, Calling, Exiting, Destroying, Listing
<1>8. WorkSound(t)'
  BY <1>2, <1>6 DEF WorkSound, Exiting
<1>9. RefsSound(t)'
  BY <1>4 DEF RefsSound
<1>10. \A d \in CacheIds : SameState(d) /\ cache'[d].bufs = cache[d].bufs
  BY CacheUntouched
<1>12. OwnChange(t, c) /\ cache'[c].pool = cache[c].pool
  BY <1>3 DEF OwnChange
<1>13. at[t].pc \notin Listing /\ at[t].pc \notin Exiting /\ at'[t].pc \notin Listing \cup {"shards"} /\ at'[t].pool = at[t].pool
  BY <1>2, <1>6 DEF Listing, Exiting
<1>14. c \notin structs' /\ (cache[c].exited => cache'[c].exited)
  OBVIOUS
<1>15. \A p \in Pools : pool'[p].list = pool[p].list /\ pool'[p].stage = pool[p].stage
  OBVIOUS
<1> QED BY <1>2, <1>3, <1>4, <1>5, <1>7, <1>8, <1>9, <1>10, <1>12, <1>13, <1>14, <1>15, InsideKeeps

\* The release of an orphaned cache: the structs.
LEMMA LookupOrphanStruct ==
  ASSUME PoolConstants, StructsInv, NEW t \in Users, LookupOrphan(t)
  PROVE  StructsInv'
<1>0. PICK c : c = tls[t]
  OBVIOUS
<1>1. PoolTypes /\ HandSound(t) /\ at[t].pc = "lookup" /\ c # NoCache /\ cache[c].pool = NoPool
  BY <1>0, MoverFacts DEF LookupOrphan
<1>2. c \in CacheIds /\ at[t] \in Locals /\ at[t].c = NoCache /\ at[t].op \in {"alloc", "free"}
  BY <1>0, <1>1 DEF PoolTypes, HandSound, Calling
<1> DEFINE a == [at[t] EXCEPT !.pc = at[t].op]
<1>3. at[t].op \in PCs
  BY <1>2, PcType
<1>4. /\ a \in Locals /\ a.pc = at[t].op /\ a.op = at[t].op /\ a.pool = at[t].pool
      /\ a.c = NoCache /\ a.buf = at[t].buf /\ a.list = at[t].list
  BY <1>2, <1>3, PcType
<1>5. at' = [at EXCEPT ![t] = a] /\ structs' = structs \ {c} /\ Forget(t) /\ UNCHANGED <<pool, cache, bucket, live, held>>
  BY <1>0, <1>1 DEF LookupOrphan, Goto, PoolTypes
<1> HIDE DEF a
<1> QED BY <1>0, <1>1, <1>2, <1>4, <1>5, OrphanStruct

\* Locking the cache to leave its pool: the structs.
LEMMA SwitchLockStruct ==
  ASSUME PoolConstants, StructsInv, NEW t \in Users, SwitchLock(t)
  PROVE  StructsInv'
<1>0. PICK c : c = at[t].c
  OBVIOUS
<1>1. PoolTypes /\ HandSound(t) /\ WorkSound(t) /\ RefsSound(t) /\ at[t].pc = "switch_lock" /\ cache[c].lock = NoUser
  BY <1>0, MoverFacts DEF SwitchLock
<1>2. c \in CacheIds /\ c = tls[t] /\ c \in structs /\ cache[c].owner = t /\ ~cache[c].exited
  BY <1>0, <1>1 DEF WorkSound, RefsSound, PoolTypes
<1>3. cache[c] \in Caches /\ CacheSound(c) /\ at[t] \in Locals /\ at[t].op \in {"alloc", "free"}
      /\ cache[c].pool \in Pools \cup {NoPool}
  BY <1>1, <1>2 DEF PoolTypes, StructsInv, Caches, HandSound, Calling
<1>4. CASE cache[c].pool = NoPool
  <2> DEFINE a == [at[t] EXCEPT !.pc = at[t].op, !.c = NoCache]
  <2>1. at[t].op \in PCs
    BY <1>3, PcType
  <2>2. /\ a \in Locals /\ a.pc = at[t].op /\ a.op = at[t].op /\ a.pool = at[t].pool
        /\ a.c = NoCache /\ a.buf = at[t].buf /\ a.list = at[t].list
    BY <1>3, <2>1, PcType
  <2>3. at' = [at EXCEPT ![t] = a] /\ structs' = structs \ {c} /\ Forget(t) /\ UNCHANGED <<pool, cache, bucket, live, held>>
    BY <1>0, <1>1, <1>4 DEF SwitchLock, PoolTypes
  <2> HIDE DEF a
  <2> QED BY <1>1, <1>2, <1>4, <2>2, <2>3, OrphanStruct
<1>5. CASE cache[c].pool # NoPool
  <2>0. PICK old : old = cache[c].pool
    OBVIOUS
  <2> DEFINE a == [at[t] EXCEPT !.pc = "switch_check", !.old = old] r == [cache[c] EXCEPT !.lock = t]
  <2>1. "switch_check" \in PCs /\ old \in Pools
    BY <1>3, <1>5, <2>0, PcType
  <2>2. /\ a \in Locals /\ a.pc = "switch_check" /\ a.op = at[t].op /\ a.pool = at[t].pool /\ a.old = old
        /\ a.c = c /\ a.buf = at[t].buf /\ a.list = at[t].list
    BY <1>0, <1>3, <2>1, PcType
  <2>3. /\ r \in Caches /\ r.owner = cache[c].owner /\ r.pool = cache[c].pool /\ r.exited = cache[c].exited
        /\ r.cleaned_up = cache[c].cleaned_up /\ r.bufs = cache[c].bufs /\ r.lock = t
    BY <1>3 DEF Caches
  <2>4. /\ cache' = [cache EXCEPT ![c] = r] /\ at' = [at EXCEPT ![t] = a]
        /\ pool' = [pool EXCEPT ![old].active_users = @ + 1]
        /\ UNCHANGED <<structs, tls, key, bucket, live, held>>
    BY <1>0, <1>1, <1>2, <1>5, <2>0 DEF SwitchLock, PoolTypes
  <2> HIDE DEF a, r
  <2>5. at' \in [Users -> Locals] /\ at'[t] = a /\ \A u \in Users \ {t} : at'[u] = at[u]
    BY <1>1, <2>2, <2>4, ThreadMoves
  <2>6. /\ cache' \in [CacheIds -> Caches] /\ cache'[c] = r
        /\ \A d \in CacheIds \ {c} :
             SameState(d) /\ (cache[d].cleaned_up => cache'[d].bufs = cache[d].bufs)
    BY <1>1, <1>2, <2>3, <2>4, CacheBecomes
  <2>7. pool' \in [Pools -> PoolStates] /\ SameLists
    <3>1. pool[old].active_users + 1 \in Int /\ pool' = [pool EXCEPT ![old].active_users = pool[old].active_users + 1]
      BY <1>1, <2>1, <2>4 DEF PoolTypes, PoolStates
    <3> QED BY <1>1, <2>1, <3>1, UsersChange
  <2>8. PoolTypes'
    BY <1>1, <2>4, <2>5, <2>6, <2>7 DEF PoolTypes
  <2>9. OwnChange(t, c) /\ cache'[c].pool = cache[c].pool
    BY <1>1, <1>2, <2>3, <2>6 DEF OwnChange
  <2>10. HandSound(t)'
    BY <1>1, <2>2, <2>5, <2>7 DEF HandSound, Calling, Exiting, Destroying, Listing, SameLists
  <2>11. WorkSound(t)'
    BY <1>1, <1>2, <2>0, <2>1, <2>2, <2>3, <2>4, <2>5, <2>6 DEF WorkSound, Exiting, PoolConstants
  <2>12. RefsSound(t)'
    <3>1. key[t] # NoCache => key[t] = c
      BY <1>1, <1>2 DEF RefsSound, Exiting
    <3>2. ~cache[c].cleaned_up
      BY <1>1, <1>2, <1>5 DEF RefsSound, PoolConstants
    <3> QED BY <1>1, <1>2, <2>2, <2>3, <2>4, <2>5, <2>6, <3>1, <3>2 DEF RefsSound
  <2>13. at[t].pc \notin Listing /\ at[t].pc \notin Exiting /\ at'[t].pc \notin Listing \cup {"shards"} /\ at'[t].pool = at[t].pool
    BY <1>1, <2>2, <2>5 DEF Listing, Exiting
  <2>14. CacheSound(c)'
    <3>1. \A u \in Users : \/ at'[u] = at[u]
                            \/ /\ at[u].pc \notin Listing
                               /\ at[u].pc \in Exiting /\ at[u].c = c =>
                                    at'[u].pc \in Exiting /\ at'[u].c = c
      BY <2>5, <2>13
    <3>2. /\ cache'[c].pool = cache[c].pool /\ cache'[c].exited = cache[c].exited
          /\ cache'[c].cleaned_up = cache[c].cleaned_up /\ cache'[c].bufs = cache[c].bufs
      BY <2>3, <2>6
    <3>3. pool'[cache[c].pool].list = pool[cache[c].pool].list
      BY <2>0, <2>1, <2>7 DEF SameLists
    <3> QED BY <1>2, <1>3, <3>1, <3>2, <3>3, CacheKept
  <2>15. /\ structs' = structs /\ key'[t] \in {key[t], NoCache} /\ (cache[c].exited => cache'[c].exited)
         /\ \A u \in Users \ {t} : at'[u] = at[u] /\ tls'[u] = tls[u] /\ key'[u] = key[u]
         /\ \A p \in Pools : pool'[p].list = pool[p].list /\ pool'[p].stage = pool[p].stage
    BY <2>3, <2>4, <2>5, <2>6, <2>7 DEF SameLists
  <2> QED BY <2>6, <2>8, <2>9, <2>10, <2>11, <2>12, <2>13, <2>14, <2>15, InsideKeeps
<1> QED BY <1>4, <1>5

\* Leaving the old pool: the structs.
LEMMA SwitchLeaveStruct ==
  ASSUME PoolConstants, StructsInv, NEW t \in Users, SwitchLeave(t)
  PROVE  StructsInv'
<1>1. PoolTypes /\ HandSound(t) /\ WorkSound(t) /\ RefsSound(t) /\ at[t].pc = "switch_leave"
  BY MoverFacts DEF SwitchLeave
<1>2. at[t] \in Locals /\ at[t].op \in {"alloc", "free"} /\ at[t].old \in Pools
  BY <1>1 DEF PoolTypes, HandSound, WorkSound, Calling
<1> DEFINE a == [at[t] EXCEPT !.pc = at[t].op, !.c = NoCache, !.old = NoPool]
<1>3. at[t].op \in PCs
  BY <1>2, PcType
<1>4. /\ a \in Locals /\ a.pc = at[t].op /\ a.op = at[t].op /\ a.pool = at[t].pool
      /\ a.c = NoCache /\ a.buf = at[t].buf /\ a.list = at[t].list
  BY <1>2, <1>3, PcType
<1>5. /\ at' = [at EXCEPT ![t] = a] /\ Forget(t) /\ UNCHANGED <<cache, structs, bucket, live, held>>
      /\ pool' = [pool EXCEPT ![at[t].old].active_users = @ - 1]
  BY <1>1 DEF SwitchLeave, PoolTypes
<1> HIDE DEF a
<1>6. at' \in [Users -> Locals] /\ at'[t] = a /\ \A u \in Users \ {t} : at'[u] = at[u]
  BY <1>1, <1>4, <1>5, ThreadMoves
<1>7. pool' \in [Pools -> PoolStates] /\ SameLists
  <2>1. /\ pool[at[t].old].active_users - 1 \in Int
        /\ pool' = [pool EXCEPT ![at[t].old].active_users = pool[at[t].old].active_users - 1]
    BY <1>1, <1>2, <1>5 DEF PoolTypes, PoolStates
  <2> QED BY <1>1, <1>2, <2>1, UsersChange
<1>8. /\ tls' \in [Users -> CacheIds \cup {NoCache}] /\ key' \in [Users -> CacheIds \cup {NoCache}]
      /\ tls'[t] = NoCache /\ key'[t] = NoCache
      /\ \A u \in Users \ {t} : tls'[u] = tls[u] /\ key'[u] = key[u]
  BY <1>1, <1>5 DEF Forget, PoolTypes
<1>9. PoolTypes'
  BY <1>1, <1>5, <1>6, <1>7, <1>8 DEF PoolTypes
<1>10. HandSound(t)'
  BY <1>1, <1>2, <1>4, <1>6, <1>7 DEF HandSound, Calling, Exiting, Destroying, Listing, SameLists
<1>11. WorkSound(t)'
  BY <1>2, <1>4, <1>6 DEF WorkSound, Exiting
<1>12. RefsSound(t)'
  BY <1>8 DEF RefsSound
<1>13. \A d \in CacheIds : SameState(d) /\ cache'[d].bufs = cache[d].bufs
  BY <1>5, CacheUntouched
<1>14. NoCache \notin CacheIds /\ structs \subseteq CacheIds
  BY <1>1 DEF PoolTypes, PoolConstants
<1>15. at[t].pc \notin Listing /\ at[t].pc \notin Exiting /\ at'[t].pc \notin Listing \cup {"shards"} /\ at'[t].pool = at[t].pool
  BY <1>1, <1>2, <1>4, <1>6 DEF Listing, Exiting
<1> QED BY <1>5, <1>6, <1>7, <1>8, <1>9, <1>10, <1>11, <1>12, <1>13, <1>14, <1>15, InsideKeeps DEF SameLists

\* The destructor of a thread locks its cache: the structs.
LEMMA ExitLockStruct ==
  ASSUME PoolConstants, StructsInv, NEW t \in Users, ExitLock(t)
  PROVE  StructsInv'
<1>0. PICK c : c = key[t]
  OBVIOUS
<1>1. PoolTypes /\ HandSound(t) /\ RefsSound(t) /\ at[t].pc = "idle" /\ cache[c].lock = NoUser /\ c # NoCache /\ at[t] = Idle
  BY <1>0, MoverFacts DEF ExitLock, HandSound
<1>2. c \in CacheIds /\ c \in structs /\ cache[c].owner = t
  BY <1>0, <1>1 DEF RefsSound, PoolTypes
<1>3. cache[c] \in Caches /\ CacheSound(c) /\ at[t] \in Locals /\ cache[c].pool \in Pools \cup {NoPool}
  BY <1>1, <1>2 DEF PoolTypes, StructsInv, Caches
<1>4. PICK p : p = cache[c].pool
  OBVIOUS
<1> DEFINE a == [at[t] EXCEPT !.pc = "exit_check", !.c = c, !.old = p]
           r == [cache[c] EXCEPT !.lock = t, !.exited = TRUE]
<1>5. "exit_check" \in PCs
  BY PcType
<1>6. /\ a \in Locals /\ a.pc = "exit_check" /\ a.pool = NoPool /\ a.old = p
      /\ a.c = c /\ a.buf = NoBuf /\ a.list = <<>>
  <2>1. /\ a \in Locals /\ a.pc = "exit_check" /\ a.pool = at[t].pool /\ a.old = p
        /\ a.c = c /\ a.buf = at[t].buf /\ a.list = at[t].list
    BY <1>2, <1>3, <1>4, <1>5, PcType
  <2> QED BY <1>1, <2>1 DEF Idle
<1>7. /\ r \in Caches /\ r.owner = cache[c].owner /\ r.pool = cache[c].pool /\ r.exited
      /\ r.cleaned_up = cache[c].cleaned_up /\ r.bufs = cache[c].bufs /\ r.lock = t
  BY <1>3 DEF Caches
<1>8. /\ cache' = [cache EXCEPT ![c] = r] /\ at' = [at EXCEPT ![t] = a]
      /\ pool' = (IF p = NoPool THEN pool ELSE [pool EXCEPT ![p].active_users = @ + 1])
      /\ tls' = [tls EXCEPT ![t] = NoCache] /\ UNCHANGED <<bucket, structs, live, held, key>>
  BY <1>0, <1>1, <1>2, <1>4 DEF ExitLock, PoolTypes
<1> HIDE DEF a, r
<1>9. at' \in [Users -> Locals] /\ at'[t] = a /\ \A u \in Users \ {t} : at'[u] = at[u]
  BY <1>1, <1>6, <1>8, ThreadMoves
<1>10. /\ cache' \in [CacheIds -> Caches] /\ cache'[c] = r
       /\ \A d \in CacheIds \ {c} :
            SameState(d) /\ (cache[d].cleaned_up => cache'[d].bufs = cache[d].bufs)
  BY <1>1, <1>2, <1>7, <1>8, CacheBecomes
<1>11. pool' \in [Pools -> PoolStates] /\ SameLists
  <2>1. 1 \in Int /\ p \in Pools \cup {NoPool}
    BY <1>3, <1>4
  <2>2. pool' = IF p = NoPool THEN pool ELSE [pool EXCEPT ![p].active_users = @ + 1]
    BY <1>8
  <2> HIDE DEF SameLists
  <2> QED BY <1>1, <2>1, <2>2, UsersStep
<1>12. /\ tls' \in [Users -> CacheIds \cup {NoCache}] /\ tls'[t] = NoCache
       /\ \A u \in Users \ {t} : tls'[u] = tls[u]
  BY <1>1, <1>8 DEF PoolTypes
<1>13. PoolTypes'
  BY <1>1, <1>8, <1>9, <1>10, <1>11, <1>12 DEF PoolTypes
<1>14. OwnChange(t, c) /\ cache'[c].pool = cache[c].pool
  BY <1>1, <1>2, <1>7, <1>10 DEF OwnChange
<1>15. HandSound(t)'
  BY <1>6, <1>9 DEF HandSound, Calling, Exiting, Destroying, Listing
<1>16. WorkSound(t)'
  BY <1>0, <1>1, <1>4, <1>6, <1>7, <1>8, <1>9, <1>10, <1>12 DEF WorkSound, Exiting
<1>17. RefsSound(t)'
  BY <1>0, <1>1, <1>2, <1>6, <1>7, <1>8, <1>9, <1>10, <1>12 DEF RefsSound, Exiting
<1>18. /\ at[t].pc \notin Listing /\ at[t].pc \notin Exiting /\ at'[t].pc \notin Listing \cup {"shards"}
       /\ at'[t].pool \in {at[t].pool, NoPool} /\ at'[t].pc \in Exiting
  BY <1>1, <1>6, <1>9 DEF Listing, Exiting
<1>19. CacheSound(c)'
  <2>1. /\ cache'[c].pool = cache[c].pool
        /\ cache'[c].cleaned_up = cache[c].cleaned_up /\ cache'[c].bufs = cache[c].bufs
    BY <1>7, <1>10
  <2>2. cache[c].pool # NoPool => pool'[cache[c].pool].list = pool[cache[c].pool].list
    BY <1>3, <1>11 DEF SameLists
  <2>3. at[t].list = <<>>
    BY <1>1 DEF Idle
  <2>4. cache[c].pool # NoPool =>
       \/ \E i \in DOMAIN pool'[cache[c].pool].list : pool'[cache[c].pool].list[i] = c
       \/ \E d \in Users : /\ at'[d].pool = cache[c].pool /\ at'[d].pc \in Listing
                          /\ \E i \in DOMAIN at'[d].list : at'[d].list[i] = c
    <3> SUFFICES ASSUME cache[c].pool # NoPool,
                        \A i \in DOMAIN pool[cache[c].pool].list : pool[cache[c].pool].list[i] # c
                 PROVE  \E d \in Users : /\ at'[d].pool = cache[c].pool /\ at'[d].pc \in Listing
                            /\ \E i \in DOMAIN at'[d].list : at'[d].list[i] = c
      BY <2>2
    <3>1. PICK d \in Users : /\ at[d].pool = cache[c].pool /\ at[d].pc \in Listing
                            /\ \E i \in DOMAIN at[d].list : at[d].list[i] = c
      BY <1>3 DEF CacheSound
    <3>2. at'[d] = at[d]
      BY <1>9, <1>18, <3>1
    <3> QED BY <3>1, <3>2
  <2>5. at'[t].pc \in Exiting /\ at'[t].c = c
    BY <1>6, <1>9, <1>18
  <2> QED BY <1>3, <2>1, <2>4, <2>5 DEF CacheSound
<1>20. /\ structs' = structs /\ key'[t] \in {key[t], NoCache} /\ (cache[c].exited => cache'[c].exited)
       /\ \A u \in Users \ {t} : at'[u] = at[u] /\ tls'[u] = tls[u] /\ key'[u] = key[u]
       /\ \A q \in Pools : pool'[q].list = pool[q].list /\ pool'[q].stage = pool[q].stage
  BY <1>7, <1>8, <1>9, <1>10, <1>11, <1>12 DEF SameLists
<1> QED BY <1>10, <1>13, <1>14, <1>15, <1>16, <1>17, <1>18, <1>19, <1>20, InsideKeeps

-----------------------------------------------------------------------------
\* A thread that has no list.
LEMMA NothingListed ==
  ASSUME NEW u \in Users, at'[u].list = <<>>, at'[u].pc \notin Listing \cup {"shards"}
  PROVE  HandListSound(u)'
BY DEF HandListSound, IsInjective, Listing

\* m is l with c before it.
Pushed(m, c, l) ==
  /\ m \in Seq(CacheIds) /\ l \in Seq(CacheIds) /\ 1 \in DOMAIN m /\ m[1] = c
  /\ \A i \in DOMAIN l : \E j \in DOMAIN m : m[j] = l[i]
  /\ \A i \in DOMAIN m : m[i] = c \/ \E j \in DOMAIN l : m[i] = l[j]
  /\ IsInjective(l) /\ (\A i \in DOMAIN l : l[i] # c) => IsInjective(m)

\* A cache put at the head of a list.
LEMMA PushedIs ==
  ASSUME NEW l \in Seq(CacheIds), NEW c \in CacheIds, NEW m, m = <<c>> \o l
  PROVE  Pushed(m, c, l)
<1>1. m \in Seq(CacheIds) /\ Len(m) = Len(l) + 1 /\ m[1] = c
  OBVIOUS
<1>2. \A i \in 1 .. Len(l) : m[i + 1] = l[i]
  OBVIOUS
<1>a. DOMAIN l = 1 .. Len(l) /\ DOMAIN m = 1 .. Len(m) /\ Len(l) \in Nat
  BY <1>1
<1>3. \A i \in 1 .. Len(m) : (i = 1 /\ m[i] = c) \/ (i - 1 \in 1 .. Len(l) /\ m[i] = l[i - 1])
  <2> SUFFICES ASSUME NEW i \in 1 .. Len(m), i # 1 PROVE i - 1 \in 1 .. Len(l) /\ m[i] = l[i - 1]
    BY <1>1
  <2>1. i - 1 \in 1 .. Len(l) /\ (i - 1) + 1 = i
    BY <1>1
  <2> QED BY <1>2, <2>1
<1>4. ASSUME IsInjective(l), \A i \in DOMAIN l : l[i] # c PROVE IsInjective(m)
  <2> SUFFICES ASSUME NEW i \in 1 .. Len(m), NEW j \in 1 .. Len(m), m[i] = m[j] PROVE i = j
    BY <1>1, InjectiveIs
  <2>1. \A x, y \in 1 .. Len(l) : l[x] = l[y] => x = y
    BY <1>4, InjectiveIs
  <2>2. (i = 1 /\ m[i] = c) \/ (i - 1 \in 1 .. Len(l) /\ m[i] = l[i - 1])
    BY <1>3
  <2>3. (j = 1 /\ m[j] = c) \/ (j - 1 \in 1 .. Len(l) /\ m[j] = l[j - 1])
    BY <1>3
  <2>0. \A x \in 1 .. Len(l) : l[x] # c
    BY <1>4, <1>a
  <2>4. CASE i = 1
    BY <1>1, <2>0, <2>3, <2>4
  <2>6. CASE j = 1
    BY <1>1, <2>0, <2>2, <2>6
  <2>5. CASE i # 1 /\ j # 1
    <3>1. i - 1 = j - 1
      BY <2>1, <2>2, <2>3, <2>5
    <3> QED BY <3>1
  <2> QED BY <2>4, <2>5, <2>6
<1>5. 1 \in DOMAIN m
  BY <1>1, <1>a
<1>6. \A i \in DOMAIN l : i + 1 \in DOMAIN m /\ m[i + 1] = l[i]
  BY <1>1, <1>2, <1>a
<1>7. \A i \in DOMAIN m : m[i] = c \/ \E j \in DOMAIN l : m[i] = l[j]
  BY <1>3, <1>a
<1> QED BY <1>1, <1>4, <1>5, <1>6, <1>7 DEF Pushed

\* What a new cache leaves alone: the caches threads refer to.
LEMMA OldRefs ==
  ASSUME PoolConstants, StructsInv, NEW u \in Users, NEW c, c \notin structs
  PROVE  /\ tls[u] = NoCache \/ (tls[u] \in structs /\ tls[u] # c)
         /\ key[u] = NoCache \/ (key[u] \in structs /\ key[u] # c)
         /\ \A i \in DOMAIN at[u].list : i > 1 \/ at[u].pc = "take" => at[u].list[i] # c
BY DEF StructsInv, RefsSound, HandListSound

\* Everybody else through the creation of a cache.
LEMMA CreateKeeps ==
  ASSUME PoolConstants, StructsInv, PoolTypes', NEW t \in Users, at[t].pc = "lookup", tls[t] = NoCache,
         NEW c \in CacheIds, c \notin structs, \A d \in Users : \A i \in DOMAIN at[d].list : at[d].list[i] # c,
         NEW p \in Pools, p = at[t].pool, pool[p].stage = "open",
         structs' = structs \cup {c}, Pushed(pool'[p].list, c, pool[p].list),
         \A x \in Pools \ {p} : pool'[x] = pool[x],
         \A x \in Pools : pool'[x].stage = pool[x].stage,
         at'[t].pc = at[t].op, at'[t].op = at[t].op, at'[t].pool = p, at'[t].c = c, at'[t].buf = at[t].buf,
         at'[t].list = <<>>, tls'[t] = c, key'[t] = c, at[t].op \in {"alloc", "free"},
         \A u \in Users \ {t} : at'[u] = at[u] /\ tls'[u] = tls[u] /\ key'[u] = key[u],
         cache'[c].pool = p, cache'[c].owner = t, ~cache'[c].exited, ~cache'[c].cleaned_up,
         \A d \in CacheIds \ {c} : cache'[d] = cache[d]
  PROVE  StructsInv'
<1>1. PoolTypes /\ HandSound(t)
  BY MoverFacts
<1>14. \A u \in Users : at'[u].pool = at[u].pool
  OBVIOUS
<1>15. \A d \in structs : d \in CacheIds /\ d # c /\ cache'[d] = cache[d]
  BY <1>1 DEF PoolTypes
<1>a. structs \subseteq structs' /\ c \in structs' /\ structs' = structs \cup {c}
  OBVIOUS
<1>b. \A u \in Users : HandSound(u) /\ WorkSound(u) /\ RefsSound(u) /\ HandListSound(u)
  BY DEF StructsInv
<1>c. /\ \A x \in Pools : PoolListSound(x)
      /\ \A d \in structs : CacheSound(d)
  BY DEF StructsInv
<1>d. NoCache \notin CacheIds /\ NoPool \notin Pools
  BY DEF PoolConstants
<1>16. ASSUME NEW u \in Users PROVE HandSound(u)'
  <2>1. CASE u = t
    BY <1>1, <2>1 DEF HandSound, Calling, Exiting, Destroying, Listing
  <2>2. CASE u # t
    <3>1. HandSound(u) /\ at'[u] = at[u] /\ (at[u].pool \in Pools => pool'[at[u].pool].stage = pool[at[u].pool].stage)
      BY <1>b, <2>2
    <3>2. \A v \in Users : at'[v].pool = at[u].pool => at[v].pool = at[u].pool
      BY <1>14
    <3> QED BY <3>1, <3>2, HandKept
  <2> QED BY <2>1, <2>2
<1>17. ASSUME NEW u \in Users PROVE WorkSound(u)'
  <2>1. CASE u = t
    BY <2>1 DEF WorkSound, Exiting
  <2>2. CASE u # t
    <3>1. at'[u] = at[u] /\ tls'[u] = tls[u] /\ key'[u] = key[u] /\ WorkSound(u)
      BY <1>b, <2>2
    <3>2. tls[u] # NoCache => cache'[tls[u]] = cache[tls[u]]
      BY <1>15, OldRefs
    <3>3. key[u] # NoCache => cache'[key[u]] = cache[key[u]]
      BY <1>15, OldRefs
    <3>4. at[u].pc \in {"alloc", "alloc_shard", "alloc_heap", "free"} /\ at[u].c # NoCache =>
            tls'[u] = at[u].c /\ cache'[at[u].c].pool = at[u].pool
      BY <3>1, <3>2 DEF WorkSound
    <3>5. at[u].pc \in {"switch_lock", "switch_check", "switch_clean", "switch_unlock", "switch_leave"} =>
            at[u].c = tls[u] /\ at[u].c # NoCache /\ cache'[at[u].c] = cache[at[u].c]
      BY <3>1, <3>2 DEF WorkSound
    <3>6. at[u].pc \in Exiting => /\ at[u].c = key[u] /\ at[u].c # NoCache /\ tls[u] = NoCache
                                  /\ cache'[at[u].c] = cache[at[u].c]
      BY <3>1, <3>3 DEF WorkSound
    <3> QED BY <3>1, <3>4, <3>5, <3>6 DEF WorkSound, Exiting
  <2> QED BY <2>1, <2>2
<1>18. ASSUME NEW u \in Users PROVE RefsSound(u)'
  <2>1. CASE u = t
    BY <1>a, <2>1 DEF RefsSound
  <2>2. CASE u # t
    <3>1. at'[u] = at[u] /\ tls'[u] = tls[u] /\ key'[u] = key[u] /\ RefsSound(u)
      BY <1>b, <2>2
    <3>2. tls[u] # NoCache => tls[u] \in structs /\ cache'[tls[u]] = cache[tls[u]]
      BY <1>15, OldRefs
    <3>3. key[u] # NoCache => key[u] \in structs /\ cache'[key[u]] = cache[key[u]]
      BY <1>15, OldRefs
    <3> QED BY <1>a, <3>1, <3>2, <3>3 DEF RefsSound
  <2> QED BY <2>1, <2>2
<1>19. ASSUME NEW x \in Pools PROVE PoolListSound(x)'
  <2>1. CASE x = p
    <3>0. PICK l : l = pool[p].list
      OBVIOUS
    <3>1. PICK m : m = pool'[p].list
      OBVIOUS
    <3>2. Pushed(m, c, l) /\ pool'[p].stage = "open"
      BY <3>0, <3>1
    <3>3. \A i \in DOMAIN l : l[i] \in structs /\ cache[l[i]].pool = p
      BY <1>c, <3>0 DEF PoolListSound
    <3>4. \A i \in DOMAIN l : l[i] # c
      BY <3>3
    <3>5. IsInjective(l)
      BY <1>c, <3>0 DEF PoolListSound
    <3>6. IsInjective(m)
      BY <3>2, <3>4, <3>5 DEF Pushed
    <3>7. \A i \in DOMAIN m : m[i] = c \/ \E j \in DOMAIN l : m[i] = l[j]
      BY <3>2 DEF Pushed
    <3>8. \A i \in DOMAIN m : m[i] \in structs' /\ cache'[m[i]].pool = p
      BY <1>15, <1>a, <3>3, <3>7
    <3> QED BY <2>1, <3>1, <3>2, <3>6, <3>8 DEF PoolListSound
  <2>2. CASE x # p
    <3>1. pool'[x] = pool[x] /\ PoolListSound(x)
      BY <1>c, <2>2
    <3> QED BY <1>15, <1>a, <3>1 DEF PoolListSound
  <2> QED BY <2>1, <2>2
<1>20. ASSUME NEW u \in Users PROVE HandListSound(u)'
  <2>1. CASE at'[u].pc \notin Listing \cup {"shards"}
    <3>1. HandSound(u)'
      BY <1>16
    <3>2. at'[u].list = <<>>
      BY <2>1, <3>1 DEF HandSound
    <3> QED BY <2>1, <3>2, NothingListed
  <2>2. CASE at'[u].pc \in Listing \cup {"shards"}
    <3>1. u # t
      BY <2>2 DEF Listing
    <3>2. at'[u] = at[u] /\ at[u].pc \in Destroying
      BY <2>2, <3>1 DEF Destroying
    <3>3. at[u].pool # p
      BY <1>b, <3>2 DEF HandSound
    <3>4. at[u].pool \in Pools => pool'[at[u].pool].list = pool[at[u].pool].list
      BY <3>3
    <3>5. \A d \in structs : /\ d \in structs' /\ cache'[d].pool = cache[d].pool
                              /\ cache'[d].lock = cache[d].lock /\ cache'[d].exited = cache[d].exited
      BY <1>15, <1>a
    <3>6. \A d \in structs' \ structs : \A i \in DOMAIN at[u].list : at[u].list[i] # d
      BY <1>a
    <3>7. \A v \in Users, d \in structs : key'[v] = d => key[v] = d
      BY <1>15
    <3> QED BY <3>2, <3>4, <3>5, <3>6, <3>7, HandListKept
  <2> QED BY <2>1, <2>2
<1>21. ASSUME NEW d \in structs' PROVE CacheSound(d)'
  <2>1. CASE d = c
    <3>1. 1 \in DOMAIN pool'[p].list /\ pool'[p].list[1] = c
      BY DEF Pushed
    <3> QED BY <1>d, <2>1, <3>1 DEF CacheSound
  <2>2. CASE d # c
    <3>1. d \in structs /\ cache'[d] = cache[d] /\ CacheSound(d)
      BY <1>15, <1>a, <1>c, <2>2
    <3>2. \A i \in DOMAIN pool[p].list : \E j \in DOMAIN pool'[p].list : pool'[p].list[j] = pool[p].list[i]
      BY DEF Pushed
    <3>3. ASSUME cache[d].pool # NoPool
          PROVE  \/ \E i \in DOMAIN pool'[cache[d].pool].list : pool'[cache[d].pool].list[i] = d
                 \/ \E e \in Users : /\ at'[e].pool = cache[d].pool /\ at'[e].pc \in Listing
                                    /\ \E i \in DOMAIN at'[e].list : at'[e].list[i] = d
      <4>0. cache[d].pool \in Pools
        BY <1>1, <1>15, <3>1, <3>3 DEF PoolTypes, Caches
      <4>1. CASE \E i \in DOMAIN pool[cache[d].pool].list : pool[cache[d].pool].list[i] = d
        <5>1. PICK i \in DOMAIN pool[cache[d].pool].list : pool[cache[d].pool].list[i] = d
          BY <4>1
        <5>2. CASE cache[d].pool = p
          BY <3>2, <5>1, <5>2
        <5>3. CASE cache[d].pool # p
          BY <4>0, <5>1, <5>3
        <5> QED BY <5>2, <5>3
      <4>2. CASE \E e \in Users : /\ at[e].pool = cache[d].pool /\ at[e].pc \in Listing
                                 /\ \E i \in DOMAIN at[e].list : at[e].list[i] = d
        <5>1. PICK e \in Users : /\ at[e].pool = cache[d].pool /\ at[e].pc \in Listing
                                 /\ \E i \in DOMAIN at[e].list : at[e].list[i] = d
          BY <4>2
        <5>2. e # t
          BY <5>1 DEF Listing
        <5>3. at'[e] = at[e]
          BY <5>2
        <5> QED BY <5>1, <5>3
      <4> QED BY <3>1, <3>3, <4>1, <4>2 DEF CacheSound
    <3>4. ASSUME cache[d].exited, cache[d].pool = NoPool
          PROVE  \/ \E v \in Users : at'[v].pc \in Exiting /\ at'[v].c = d
                 \/ \E e \in Users : /\ at'[e].pc = "release" \/ (at'[e].pc = "dispose" /\ at'[e].flag)
                                    /\ Head(at'[e].list) = d
      <4>1. at[t].pc \notin Exiting /\ at[t].pc \notin {"release", "dispose"}
        BY DEF Exiting
      <4>2. \A v \in Users : at[v].pc \in Exiting \cup {"release", "dispose"} => at'[v] = at[v]
        BY <4>1
      <4> QED BY <3>1, <3>4, <4>2 DEF CacheSound
    <3> QED BY <3>1, <3>3, <3>4 DEF CacheSound
  <2> QED BY <2>1, <2>2
<1> QED BY <1>16, <1>17, <1>18, <1>19, <1>20, <1>21 DEF StructsInv

\* A cache just allocated.
LEMMA EmptyCacheType == PoolConstants => EmptyCache \in Caches
<1>1. <<>> \in Seq(Buffers)
  OBVIOUS
<1>2. PoolConstants => 0 \in Shards
  BY DEF PoolConstants
<1> QED BY <1>1, <1>2 DEF EmptyCache, Caches

\* The creation of a cache.
LEMMA CreateStruct ==
  ASSUME PoolConstants, StructsInv, NEW t \in Users, at[t].pc = "lookup", tls[t] = NoCache,
         NEW c \in CacheIds, c \notin structs, \A d \in Users : \A i \in DOMAIN at[d].list : at[d].list[i] # c,
         NEW p, p = at[t].pool,
         structs' = structs \cup {c},
         NEW r \in Caches, r.owner = t, r.pool = p, ~r.exited, ~r.cleaned_up, cache' = [cache EXCEPT ![c] = r],
         NEW m, Pushed(m, c, pool[p].list), NEW k \in Shards,
         pool' = [pool EXCEPT ![p].list = m, ![p].next_shard = k],
         tls' = [tls EXCEPT ![t] = c], key' = [key EXCEPT ![t] = c],
         at' = [at EXCEPT ![t].pc = at[t].op, ![t].c = c],
         UNCHANGED <<bucket, live, held>>
  PROVE  StructsInv'
<1>1. PoolTypes /\ HandSound(t) /\ WorkSound(t) /\ RefsSound(t)
  BY MoverFacts
<1>2. /\ at[t] \in Locals /\ at[t].op \in {"alloc", "free"} /\ p \in Pools /\ pool[p].stage = "open" /\ pool[p] \in PoolStates
      /\ at[t].list = <<>>
  BY <1>1 DEF PoolTypes, HandSound, Calling, Listing
<1> DEFINE a == [at[t] EXCEPT !.pc = at[t].op, !.c = c]
           q == [pool[p] EXCEPT !.list = m, !.next_shard = k]
<1>3. at[t].op \in PCs
  BY <1>2, PcType
<1>4. /\ a \in Locals /\ a.pc = at[t].op /\ a.op = at[t].op /\ a.pool = at[t].pool
      /\ a.c = c /\ a.buf = at[t].buf /\ a.list = at[t].list
  BY <1>2, <1>3, PcType
<1>6. q \in PoolStates /\ q.list = m /\ q.stage = pool[p].stage /\ q.total = pool[p].total
  <2>1. m \in Seq(CacheIds)
    BY DEF Pushed
  <2> QED BY <1>2, <2>1 DEF PoolStates
<1>7. at' = [at EXCEPT ![t] = a]
  BY <1>1, <1>2 DEF PoolTypes
<1>e. pool' = [pool EXCEPT ![p] = q]
  BY <1>1, <1>2 DEF PoolTypes
<1> HIDE DEF a, q
<1>8. at' \in [Users -> Locals] /\ at'[t] = a /\ \A u \in Users \ {t} : at'[u] = at[u]
  <2>1. PICK y : y = a
    OBVIOUS
  <2>2. PoolTypes /\ t \in Users /\ y \in Locals /\ at' = [at EXCEPT ![t] = y]
    BY <1>1, <1>4, <1>7, <2>1
  <2>3. at' \in [Users -> Locals] /\ at'[t] = y /\ \A u \in Users \ {t} : at'[u] = at[u]
    BY ONLY <2>2, ThreadMoves
  <2> QED BY <2>1, <2>3
<1>9. cache' \in [CacheIds -> Caches] /\ cache'[c] = r /\ \A d \in CacheIds \ {c} : cache'[d] = cache[d]
  BY <1>1, CacheMoves
<1>10. pool' \in [Pools -> PoolStates] /\ pool'[p] = q /\ \A x \in Pools \ {p} : pool'[x] = pool[x]
  <2>1. PICK y : y = q
    OBVIOUS
  <2>2. PoolTypes /\ p \in Pools /\ y \in PoolStates /\ pool' = [pool EXCEPT ![p] = y]
    BY <1>1, <1>2, <1>6, <1>e, <2>1
  <2>3. pool' \in [Pools -> PoolStates] /\ pool'[p] = y /\ \A x \in Pools \ {p} : pool'[x] = pool[x]
    BY ONLY <2>2, PoolMoves
  <2> QED BY <2>1, <2>3
<1>11. /\ tls' \in [Users -> CacheIds \cup {NoCache}] /\ key' \in [Users -> CacheIds \cup {NoCache}]
       /\ tls'[t] = c /\ key'[t] = c /\ \A u \in Users \ {t} : tls'[u] = tls[u] /\ key'[u] = key[u]
  BY <1>1 DEF PoolTypes
<1>12. PoolTypes'
  BY <1>1, <1>8, <1>9, <1>10, <1>11 DEF PoolTypes
<1>13. \A x \in Pools : pool'[x].stage = pool[x].stage
  BY <1>6, <1>10
<1>14. /\ at'[t].pc = at[t].op /\ at'[t].op = at[t].op /\ at'[t].pool = p /\ at'[t].c = c /\ at'[t].buf = at[t].buf
       /\ at'[t].list = <<>>
  BY <1>2, <1>4, <1>8
<1>15. /\ cache'[c].pool = p /\ cache'[c].owner = t /\ ~cache'[c].exited /\ ~cache'[c].cleaned_up
       /\ Pushed(pool'[p].list, c, pool[p].list)
  BY <1>6, <1>9, <1>10
<1> QED BY <1>2, <1>8, <1>9, <1>10, <1>11, <1>12, <1>13, <1>14, <1>15, CreateKeeps

\* The first use of a pool by a thread: the structs.
LEMMA LookupNewStruct ==
  ASSUME PoolConstants, StructsInv, NEW t \in Users, LookupNew(t)
  PROVE  StructsInv'
<1>1. PoolTypes /\ HandSound(t) /\ WorkSound(t) /\ RefsSound(t) /\ at[t].pc = "lookup" /\ tls[t] = NoCache
  BY MoverFacts DEF LookupNew
<1>2. /\ at[t] \in Locals /\ at[t].op \in {"alloc", "free"} /\ at[t].pool \in Pools /\ pool[at[t].pool].stage = "open"
      /\ at[t].c = NoCache
  BY <1>1 DEF PoolTypes, HandSound, Calling, Listing
<1>3. CASE CacheMemory = {}
  <2> DEFINE a == [at[t] EXCEPT !.pc = at[t].op]
  <2>1. at[t].op \in PCs
    BY <1>2, PcType
  <2>2. /\ a \in Locals /\ a.pc = at[t].op /\ a.op = at[t].op /\ a.pool = at[t].pool
        /\ a.c = NoCache /\ a.buf = at[t].buf /\ a.list = at[t].list
    BY <1>2, <2>1, PcType
  <2>3. at' = [at EXCEPT ![t] = a] /\ UNCHANGED <<pool, cache, structs, tls, key, bucket, live, held>>
    BY <1>1, <1>3 DEF LookupNew, Goto, PoolTypes
  <2> HIDE DEF a
  <2>4. at' \in [Users -> Locals] /\ at'[t] = a /\ \A u \in Users \ {t} : at'[u] = at[u]
    BY <1>1, <2>2, <2>3, ThreadMoves
  <2>5. PoolTypes'
    BY <1>1, <2>3, <2>4 DEF PoolTypes
  <2>6. HandSound(t)'
    BY <1>1, <1>2, <2>2, <2>3, <2>4 DEF HandSound, Calling, Exiting, Destroying, Listing
  <2>7. WorkSound(t)'
    BY <1>2, <2>2, <2>4 DEF WorkSound, Exiting
  <2>8. RefsSound(t)'
    BY <1>1, <1>2, <2>2, <2>3, <2>4 DEF RefsSound, Exiting
  <2>9. \A d \in CacheIds : SameState(d) /\ cache'[d].bufs = cache[d].bufs
    BY <2>3, CacheUntouched
  <2>10. NoCache \notin CacheIds /\ structs \subseteq CacheIds
    BY <1>1 DEF PoolTypes, PoolConstants
  <2>11. at[t].pc \notin Listing /\ at[t].pc \notin Exiting /\ at'[t].pc \notin Listing \cup {"shards"} /\ at'[t].pool = at[t].pool
    BY <1>1, <1>2, <2>2, <2>4 DEF Listing, Exiting
  <2> QED BY <2>3, <2>4, <2>5, <2>6, <2>7, <2>8, <2>9, <2>10, <2>11, InsideKeeps
<1>4. CASE CacheMemory # {}
  <2>0. PICK c : c = CHOOSE x \in CacheMemory : TRUE
    OBVIOUS
  <2>1. c \in CacheMemory
    BY <1>4, <2>0
  <2>2. c \in CacheIds /\ c \notin structs
    BY <2>1 DEF CacheMemory
  <2>3. \A d \in Users : \A i \in DOMAIN at[d].list : at[d].list[i] # c
    BY <2>1 DEF CacheMemory
  <2>4. PICK p : p = at[t].pool
    OBVIOUS
  <2>a. pool[p].list \in Seq(CacheIds) /\ pool[p].next_shard \in Shards
    BY <1>1, <1>2, <2>4 DEF PoolTypes, PoolStates
  <2>b. PICK m : m = <<c>> \o pool[p].list
    OBVIOUS
  <2>c. Pushed(m, c, pool[p].list)
    BY <2>2, <2>a, <2>b, PushedIs
  <2>d. PICK k : k = (pool[p].next_shard + 1) % Cardinality(Shards)
    OBVIOUS
  <2>e. k \in Shards
    BY <2>a, <2>d, NextIn
  <2>f. PICK n : n = pool[p].next_shard
    OBVIOUS
  <2>g. PICK r : r = [EmptyCache EXCEPT !.pool = p, !.owner = t, !.shard = n]
    OBVIOUS
  <2>h. r \in Caches /\ r.owner = t /\ r.pool = p /\ ~r.exited /\ ~r.cleaned_up
    <3>1. r \in Caches
      BY <1>2, <2>4, <2>a, <2>f, <2>g, EmptyCacheType DEF Caches
    <3>2. r.owner = t /\ r.pool = p /\ ~r.exited /\ ~r.cleaned_up
      BY <2>g DEF EmptyCache
    <3> QED BY <3>1, <3>2
  <2>5. /\ structs' = structs \cup {c}
        /\ cache' = [cache EXCEPT ![c] = r]
        /\ pool' = [pool EXCEPT ![p].list = m, ![p].next_shard = k]
        /\ tls' = [tls EXCEPT ![t] = c] /\ key' = [key EXCEPT ![t] = c]
        /\ at' = [at EXCEPT ![t].pc = at[t].op, ![t].c = c]
        /\ UNCHANGED <<bucket, live, held>>
    BY <1>1, <1>2, <1>4, <2>0, <2>4, <2>b, <2>d, <2>f, <2>g DEF LookupNew, PoolTypes
  <2> QED BY <1>1, <2>2, <2>3, <2>4, <2>c, <2>e, <2>h, <2>5, CreateStruct
<1> QED BY <1>3, <1>4

-----------------------------------------------------------------------------
\* A thread that does not move, when no cache that exists is changed for it.
LEMMA WorkSame ==
  ASSUME PoolConstants, StructsInv, NEW u \in Users,
         at'[u] = at[u], tls'[u] = tls[u], key'[u] = key[u], \A d \in structs : SameState(d)
  PROVE  WorkSound(u)'
<1>1. WorkSound(u) /\ RefsSound(u)
  BY MoverFacts
<1>2. tls[u] # NoCache => SameState(tls[u])
  BY <1>1 DEF RefsSound
<1>3. key[u] # NoCache => SameState(key[u])
  BY <1>1 DEF RefsSound
<1>4. at[u].pc \in {"alloc", "alloc_shard", "alloc_heap", "free"} /\ at[u].c # NoCache =>
        tls'[u] = at[u].c /\ cache'[at[u].c].pool = at[u].pool
  BY <1>1, <1>2 DEF WorkSound, SameState
<1>5. at[u].pc \in {"switch_lock", "switch_check", "switch_clean", "switch_unlock", "switch_leave"} =>
        at[u].c = tls[u] /\ at[u].c # NoCache /\ SameState(at[u].c)
  BY <1>1, <1>2 DEF WorkSound
<1>6. at[u].pc \in Exiting => /\ at[u].c = key[u] /\ at[u].c # NoCache /\ tls[u] = NoCache
                              /\ SameState(at[u].c)
  BY <1>1, <1>3 DEF WorkSound
<1> QED BY <1>1, <1>4, <1>5, <1>6 DEF WorkSound, Exiting, SameState

\* Its references too.
LEMMA RefsSame ==
  ASSUME PoolConstants, StructsInv, NEW u \in Users,
         at'[u] = at[u], tls'[u] = tls[u], key'[u] = key[u], \A d \in structs : SameState(d),
         \A d \in structs : d \in structs' \/ (tls[u] # d /\ key[u] # d)
  PROVE  RefsSound(u)'
<1>1. RefsSound(u)
  BY MoverFacts
<1>2. tls[u] # NoCache => SameState(tls[u]) /\ tls[u] \in structs'
  BY <1>1 DEF RefsSound
<1>3. key[u] # NoCache => SameState(key[u]) /\ key[u] \in structs'
  BY <1>1 DEF RefsSound
<1> QED BY <1>1, <1>2, <1>3 DEF RefsSound, SameState

\* A cache that is disposed of or goes on as it is.
LEMMA CacheStays ==
  ASSUME NEW c \in structs, CacheSound(c),
         cache'[c].pool = cache[c].pool, cache'[c].exited = cache[c].exited,
         cache'[c].cleaned_up => cache'[c].bufs = <<>>,
         cache[c].cleaned_up => cache'[c].cleaned_up,
         cache[c].pool # NoPool =>
           \/ pool'[cache[c].pool].list = pool[cache[c].pool].list
           \/ \E d \in Users : /\ at'[d].pool = cache[c].pool /\ at'[d].pc \in Listing
                               /\ \E i \in DOMAIN at'[d].list : at'[d].list[i] = c,
         \A u \in Users : \/ at'[u] = at[u]
                          \/ /\ at[u].pc \in Listing =>
                                  /\ at'[u].pool = at[u].pool
                                  /\ \A i \in DOMAIN at[u].list : at[u].list[i] = c =>
                                       /\ at'[u].pc \in Listing
                                       /\ \E j \in DOMAIN at'[u].list : at'[u].list[j] = c
                             /\ at[u].pc \in Exiting => at'[u].pc \in Exiting /\ at'[u].c = at[u].c
                             /\ at[u].pc = "release" \/ (at[u].pc = "dispose" /\ at[u].flag) =>
                                  Head(at[u].list) # c
  PROVE  CacheSound(c)'
<1>1. ASSUME cache[c].pool # NoPool
      PROVE  \/ \E i \in DOMAIN pool'[cache[c].pool].list : pool'[cache[c].pool].list[i] = c
             \/ \E d \in Users : /\ at'[d].pool = cache[c].pool /\ at'[d].pc \in Listing
                                 /\ \E i \in DOMAIN at'[d].list : at'[d].list[i] = c
  <2>1. CASE \E i \in DOMAIN pool[cache[c].pool].list : pool[cache[c].pool].list[i] = c
    BY <1>1, <2>1
  <2>2. CASE \E d \in Users : /\ at[d].pool = cache[c].pool /\ at[d].pc \in Listing
                              /\ \E i \in DOMAIN at[d].list : at[d].list[i] = c
    <3>1. PICK d \in Users : /\ at[d].pool = cache[c].pool /\ at[d].pc \in Listing
                              /\ \E i \in DOMAIN at[d].list : at[d].list[i] = c
      BY <2>2
    <3>2. /\ at'[d].pool = cache[c].pool /\ at'[d].pc \in Listing
          /\ \E i \in DOMAIN at'[d].list : at'[d].list[i] = c
      BY <3>1
    <3> QED BY <3>2
  <2> QED BY <1>1, <2>1, <2>2 DEF CacheSound
<1>2. ASSUME cache[c].exited, cache[c].pool = NoPool
      PROVE  \/ \E t \in Users : at'[t].pc \in Exiting /\ at'[t].c = c
             \/ \E d \in Users : /\ at'[d].pc = "release" \/ (at'[d].pc = "dispose" /\ at'[d].flag)
                                 /\ Head(at'[d].list) = c
  <2>1. CASE \E t \in Users : at[t].pc \in Exiting /\ at[t].c = c
    BY <2>1
  <2>2. CASE \E d \in Users : /\ at[d].pc = "release" \/ (at[d].pc = "dispose" /\ at[d].flag)
                              /\ Head(at[d].list) = c
    BY <2>2
  <2> QED BY <1>2, <2>1, <2>2 DEF CacheSound
<1> QED BY <1>1, <1>2 DEF CacheSound

-----------------------------------------------------------------------------
(* Disposal of the buffers of a cache.                                     *)

\* What the disposal does to the cache c and to the types.
CleanTypes(c) ==
  /\ cache' \in [CacheIds -> Caches] /\ cache'[c].bufs = <<>> /\ cache'[c].cleaned_up
  /\ cache'[c].pool = cache[c].pool /\ cache'[c].owner = cache[c].owner
  /\ cache'[c].lock = cache[c].lock /\ cache'[c].exited = cache[c].exited
  /\ \A d \in CacheIds \ {c} : cache'[d] = cache[d]
  /\ bucket' \in [Pools -> [Shards -> Seq(Buffers)]] /\ live' \subseteq Buffers
  /\ pool' \in [Pools -> PoolStates] /\ SameLists

\* The cache is disposed of, and F went to the heap.
CleanFrees(c, p, flush, F) ==
  /\ live' = live \ F
  /\ \/ cache[c].cleaned_up /\ F = {} /\ bucket' = bucket
     \/ ~cache[c].cleaned_up /\ ~flush /\ F = ToSetOf(cache[c].bufs) /\ bucket' = bucket
     \/ /\ ~cache[c].cleaned_up /\ flush
        /\ F = FlushedAll(cache[c].bufs, bucket[p][cache[c].shard]).freed
        /\ bucket' = [bucket EXCEPT ![p][cache[c].shard] = FlushedAll(cache[c].bufs, bucket[p][cache[c].shard]).shard]
  /\ \A q \in Pools : pool'[q].total = IF q = p THEN pool[q].total - Cardinality(F) ELSE pool[q].total

\* And to the buffers.
Cleaned(c, p, flush) == CleanTypes(c) /\ \E F \in SUBSET Buffers : CleanFrees(c, p, flush, F)

\* cleanup_cache_buffers_locked does that.
LEMMA CleanupIs ==
  ASSUME PoolConstants, PoolTypes, NEW c \in CacheIds, CacheSound(c), NEW p \in Pools \cup {NoPool},
         NEW flush \in BOOLEAN, flush => p \in Pools,
         cleanup_cache_buffers_locked(c, p, flush)
  PROVE  Cleaned(c, p, flush)
<1>0. PICK B : B = cache[c].bufs
  OBVIOUS
<1>1. PICK s : s = cache[c].shard
  OBVIOUS
<1>2. PICK H : H = bucket[p][s]
  OBVIOUS
<1>3. B \in Seq(Buffers) /\ s \in Shards /\ cache[c] \in Caches /\ (flush => H \in Seq(Buffers))
  BY <1>0, <1>1, <1>2 DEF PoolTypes, Caches
<1>4. PICK g : g = FlushedAll(B, H)
  OBVIOUS
<1>5. flush => g \in Parts
  BY <1>3, <1>4, FlushedAllIs
<1>6. PICK F : F = IF cache[c].cleaned_up THEN {} ELSE IF flush THEN g.freed ELSE ToSetOf(B)
  OBVIOUS
<1>7. F \subseteq Buffers
  BY <1>3, <1>5, <1>6, InRange DEF Parts
<1>8. live' = live \ F
  BY <1>0, <1>1, <1>2, <1>4, <1>6 DEF cleanup_cache_buffers_locked
<1>9. bucket' = IF flush /\ ~cache[c].cleaned_up THEN [bucket EXCEPT ![p][s] = g.shard] ELSE bucket
  BY <1>0, <1>1, <1>2, <1>4 DEF cleanup_cache_buffers_locked
<1>10. pool' = IF p = NoPool THEN pool ELSE [pool EXCEPT ![p].total = @ - Cardinality(F)]
  BY <1>0, <1>1, <1>2, <1>4, <1>6 DEF cleanup_cache_buffers_locked
<1>11. PICK r : r = [cache[c] EXCEPT !.bufs = <<>>, !.cleaned_up = TRUE]
  OBVIOUS
<1>12. cache' = [cache EXCEPT ![c] = r]
  <2>1. cache' = [cache EXCEPT ![c].bufs = IF cache[c].cleaned_up THEN @ ELSE <<>>, ![c].cleaned_up = TRUE]
    BY DEF cleanup_cache_buffers_locked
  <2>2. cache[c].cleaned_up => cache[c].bufs = <<>>
    BY DEF CacheSound
  <2>3. cache' = [cache EXCEPT ![c].bufs = <<>>, ![c].cleaned_up = TRUE]
    BY <2>1, <2>2 DEF PoolTypes
  <2> QED BY <1>11, <2>3 DEF PoolTypes
<1>13. /\ r \in Caches /\ r.bufs = <<>> /\ r.cleaned_up /\ r.pool = cache[c].pool /\ r.owner = cache[c].owner
       /\ r.lock = cache[c].lock /\ r.exited = cache[c].exited
  <2>1. <<>> \in Seq(Buffers)
    OBVIOUS
  <2> QED BY <1>3, <1>11, <2>1 DEF Caches
<1>14. /\ cache' \in [CacheIds -> Caches] /\ cache'[c] = r
       /\ \A d \in CacheIds \ {c} : cache'[d] = cache[d]
  BY <1>12, <1>13, CacheMoves
<1>15. bucket' \in [Pools -> [Shards -> Seq(Buffers)]]
  <2>1. CASE flush /\ ~cache[c].cleaned_up
    <3>1. g.shard \in Seq(Buffers) /\ bucket' = [bucket EXCEPT ![p][s] = g.shard] /\ p \in Pools
      BY <1>5, <1>9, <2>1 DEF Parts
    <3> QED BY <1>3, <3>1, BucketMoves
  <2>2. CASE ~(flush /\ ~cache[c].cleaned_up)
    BY <1>9, <2>2 DEF PoolTypes
  <2> QED BY <2>1, <2>2
<1>16. /\ pool' \in [Pools -> PoolStates] /\ SameLists
       /\ \A q \in Pools : pool'[q].total = IF q = p THEN pool[q].total - Cardinality(F) ELSE pool[q].total
  <2>1. CASE p = NoPool
    BY <1>10, <2>1 DEF PoolTypes, SameLists, PoolConstants
  <2>2. CASE p # NoPool
    <3>1. p \in Pools /\ Cardinality(F) \in Nat /\ pool[p].total \in Int
      BY <1>7, <2>2, Finite DEF PoolTypes, PoolStates
    <3>2. pool[p].total - Cardinality(F) \in Int /\ pool' = [pool EXCEPT ![p].total = pool[p].total - Cardinality(F)]
      BY <1>10, <2>2, <3>1
    <3> QED BY <3>1, <3>2, TotalChange
  <2> QED BY <2>1, <2>2
<1>17. live' \subseteq Buffers
  BY <1>8 DEF PoolTypes
<1>18. \/ cache[c].cleaned_up /\ F = {} /\ bucket' = bucket
       \/ ~cache[c].cleaned_up /\ ~flush /\ F = ToSetOf(cache[c].bufs) /\ bucket' = bucket
       \/ /\ ~cache[c].cleaned_up /\ flush
          /\ F = FlushedAll(cache[c].bufs, bucket[p][cache[c].shard]).freed
          /\ bucket' = [bucket EXCEPT ![p][cache[c].shard] = FlushedAll(cache[c].bufs, bucket[p][cache[c].shard]).shard]
  BY <1>0, <1>1, <1>2, <1>4, <1>6, <1>9
<1>19. CleanFrees(c, p, flush, F)
  BY <1>8, <1>16, <1>18 DEF CleanFrees
<1>20. CleanTypes(c)
  BY <1>13, <1>14, <1>15, <1>16, <1>17 DEF CleanTypes
<1> QED BY <1>7, <1>19, <1>20 DEF Cleaned

-----------------------------------------------------------------------------
\* What the cleaning steps share: the thread moves on, the cache c is its own.
LEMMA CleanStruct ==
  ASSUME PoolConstants, StructsInv, NEW t \in Users, NEW c \in structs, c = at[t].c,
         cache[c].owner = t, cache[c].lock = t,
         NEW p \in Pools \cup {NoPool}, NEW flush \in BOOLEAN, flush => p \in Pools,
         cleanup_cache_buffers_locked(c, p, flush), UNCHANGED <<structs, held, tls, key>>,
         NEW x \in {"switch_unlock", "exit_unlock"}, Goto(t, x),
         x = "switch_unlock" => at[t].pc = "switch_clean",
         x = "exit_unlock" => at[t].pc = "exit_clean"
  PROVE  StructsInv'
<1>1. PoolTypes /\ HandSound(t) /\ WorkSound(t) /\ RefsSound(t) /\ CacheSound(c)
  BY MoverFacts DEF StructsInv
<1>2. c \in CacheIds /\ at[t] \in Locals /\ structs \subseteq CacheIds
  BY <1>1 DEF PoolTypes
<1>3. PICK a : a = [at[t] EXCEPT !.pc = x]
  OBVIOUS
<1>4. x \in PCs
  BY PcType
<1>5. /\ a \in Locals /\ a.pc = x /\ a.op = at[t].op /\ a.pool = at[t].pool /\ a.old = at[t].old
      /\ a.c = c /\ a.buf = at[t].buf /\ a.flag = at[t].flag /\ a.list = at[t].list
  BY <1>2, <1>3, <1>4, PcType
<1>6. at' = [at EXCEPT ![t] = a]
  BY <1>1, <1>3 DEF Goto, PoolTypes
<1>7. at' \in [Users -> Locals] /\ at'[t] = a /\ \A u \in Users \ {t} : at'[u] = at[u]
  BY <1>1, <1>5, <1>6, ThreadMoves
<1>8. /\ cache' \in [CacheIds -> Caches] /\ cache'[c].bufs = <<>> /\ cache'[c].cleaned_up
      /\ cache'[c].pool = cache[c].pool /\ cache'[c].owner = cache[c].owner
      /\ cache'[c].lock = cache[c].lock /\ cache'[c].exited = cache[c].exited
      /\ \A d \in CacheIds \ {c} : cache'[d] = cache[d]
      /\ bucket' \in [Pools -> [Shards -> Seq(Buffers)]] /\ live' \subseteq Buffers
      /\ pool' \in [Pools -> PoolStates] /\ SameLists
  <2>1. Cleaned(c, p, flush)
    BY <1>1, <1>2, CleanupIs
  <2> QED BY <2>1 DEF Cleaned, CleanTypes
<1>9. PoolTypes'
  BY <1>1, <1>7, <1>8 DEF PoolTypes
<1>10. \A d \in CacheIds \ {c} : SameState(d) /\ (cache[d].cleaned_up => cache'[d].bufs = cache[d].bufs)
  BY <1>8 DEF SameState
<1>11. OwnChange(t, c) /\ cache'[c].pool = cache[c].pool
  BY <1>8 DEF OwnChange
<1>12. HandSound(t)'
  BY <1>1, <1>5, <1>7, <1>8 DEF HandSound, Calling, Exiting, Destroying, Listing, SameLists
<1>13. WorkSound(t)'
  BY <1>1, <1>5, <1>7, <1>8 DEF WorkSound, Exiting
<1>14. RefsSound(t)'
  <2>1. tls[t] \in {c, NoCache} /\ key[t] \in {c, NoCache}
    BY <1>1, <1>2 DEF RefsSound, WorkSound, Exiting
  <2>2. x = "exit_unlock" => tls[t] = NoCache
    BY <1>1 DEF WorkSound, Exiting
  <2> QED BY <1>1, <1>2, <1>5, <1>7, <1>8, <2>1, <2>2 DEF RefsSound, Exiting
<1>15. CacheSound(c)'
  <2>1. \A u \in Users : at'[u] = at[u] \/ (u = t /\ at[u].pc \notin Listing
                                          /\ (at[u].pc \in Exiting => at'[u].pc \in Exiting /\ at'[u].c = at[u].c))
    BY <1>5, <1>7 DEF Listing, Exiting
  <2>2. cache[c].pool # NoPool => pool'[cache[c].pool].list = pool[cache[c].pool].list
    BY <1>1, <1>2, <1>8 DEF SameLists, PoolTypes, Caches
  <2>3. \A u \in Users : at[u].pc \in {"release", "dispose"} => at[u].pc \in Listing
    BY DEF Listing
  <2> QED BY <1>1, <1>8, <2>1, <2>2, <2>3, CacheStays
<1>16. at[t].pc \notin Listing /\ at'[t].pc \notin Listing \cup {"shards"} /\ at'[t].pool = at[t].pool
  BY <1>5, <1>7 DEF Listing
<1>17. \A q \in Pools : pool'[q].list = pool[q].list /\ pool'[q].stage = pool[q].stage
  BY <1>8 DEF SameLists
<1> QED BY <1>7, <1>8, <1>9, <1>10, <1>11, <1>12, <1>13, <1>14, <1>15, <1>16, <1>17, InsideKeeps

\* The disposal of the buffers left in the old pool: the structs.
LEMMA SwitchCleanStruct ==
  ASSUME PoolConstants, StructsInv, NEW t \in Users, SwitchClean(t)
  PROVE  StructsInv'
<1>1. PoolTypes /\ WorkSound(t) /\ RefsSound(t) /\ at[t].pc = "switch_clean" /\ at[t] \in Locals
  BY MoverFacts DEF SwitchClean, PoolTypes
<1>2. PICK c : c = at[t].c
  OBVIOUS
<1>3. c = tls[t] /\ c \in structs /\ cache[c].owner = t /\ cache[c].lock = t /\ at[t].old \in Pools /\ at[t].flag \in BOOLEAN
  BY <1>1, <1>2 DEF WorkSound, RefsSound, Locals
<1>4. /\ cleanup_cache_buffers_locked(c, at[t].old, at[t].flag) /\ Goto(t, "switch_unlock")
      /\ UNCHANGED <<structs, held, tls, key>>
  BY <1>2 DEF SwitchClean
<1> QED BY <1>1, <1>2, <1>3, <1>4, CleanStruct

\* The destructor disposes of the buffers: the structs.
LEMMA ExitCleanStruct ==
  ASSUME PoolConstants, StructsInv, NEW t \in Users, ExitClean(t)
  PROVE  StructsInv'
<1>1. PoolTypes /\ WorkSound(t) /\ RefsSound(t) /\ at[t].pc = "exit_clean" /\ at[t] \in Locals
  BY MoverFacts DEF ExitClean, PoolTypes
<1>2. PICK c : c = at[t].c
  OBVIOUS
<1>3. c = key[t] /\ c \in structs /\ cache[c].owner = t /\ cache[c].lock = t /\ at[t].old \in Pools \cup {NoPool} /\ at[t].flag \in BOOLEAN
  BY <1>1, <1>2 DEF WorkSound, RefsSound, Locals, Exiting
<1>5. at[t].flag => at[t].old \in Pools
  BY <1>1 DEF WorkSound
<1>4. /\ cleanup_cache_buffers_locked(c, at[t].old, at[t].flag) /\ Goto(t, "exit_unlock")
      /\ UNCHANGED <<structs, held, tls, key>>
  BY <1>2 DEF ExitClean
<1> QED BY <1>1, <1>2, <1>3, <1>4, <1>5, CleanStruct

\* The end of the destructor: the structs.
LEMMA ExitUnlockStruct ==
  ASSUME PoolConstants, StructsInv, NEW t \in Users, ExitUnlock(t)
  PROVE  StructsInv'
<1>0. PICK c : c = at[t].c
  OBVIOUS
<1>1. PoolTypes /\ HandSound(t) /\ WorkSound(t) /\ RefsSound(t) /\ at[t].pc = "exit_unlock"
  BY MoverFacts DEF ExitUnlock
<1>2. c \in CacheIds /\ c = key[t] /\ c \in structs /\ cache[c].owner = t /\ cache[c].lock = t /\ cache[c].cleaned_up /\ tls[t] = NoCache
  BY <1>0, <1>1 DEF WorkSound, RefsSound, PoolTypes, Exiting
<1>3. cache[c] \in Caches /\ CacheSound(c) /\ at[t] \in Locals /\ at[t].old \in Pools \cup {NoPool} /\ cache[c].pool \in Pools \cup {NoPool}
  BY <1>1, <1>2 DEF PoolTypes, StructsInv, Locals, Caches
<1>4. PICK p : p = at[t].old
  OBVIOUS
<1>5. PICK r : r = [cache[c] EXCEPT !.lock = NoUser]
  OBVIOUS
<1>6. PICK a : a = [Idle EXCEPT !.pc = "exited"]
  OBVIOUS
<1>7. /\ a \in Locals /\ a.pc = "exited" /\ a.pool = NoPool /\ a.list = <<>> /\ a = [Idle EXCEPT !.pc = "exited"]
  <2>1. Idle \in Locals /\ "exited" \in PCs
    BY IdleType, PcType
  <2>2. a.pc = "exited" /\ a.pool = NoPool /\ a.list = <<>>
    BY <1>6 DEF Idle
  <2> QED BY <1>6, <2>1, <2>2, PcType
<1>8. /\ r \in Caches /\ r.owner = cache[c].owner /\ r.pool = cache[c].pool /\ r.exited = cache[c].exited
      /\ r.cleaned_up = cache[c].cleaned_up /\ r.bufs = cache[c].bufs /\ r.lock = NoUser
  BY <1>3, <1>5 DEF Caches
<1>9. cache' = [cache EXCEPT ![c] = r] /\ at' = [at EXCEPT ![t] = a] /\ key' = [key EXCEPT ![t] = NoCache]
  BY <1>0, <1>1, <1>2, <1>5, <1>6 DEF ExitUnlock, PoolTypes
<1>10. /\ pool' = IF p = NoPool THEN pool ELSE [pool EXCEPT ![p].active_users = @ - 1]
       /\ structs' = IF cache[c].pool = NoPool THEN structs \ {c} ELSE structs
       /\ UNCHANGED <<bucket, live, held, tls>>
  BY <1>0, <1>4 DEF ExitUnlock
<1>11. at' \in [Users -> Locals] /\ at'[t] = a /\ \A u \in Users \ {t} : at'[u] = at[u]
  BY <1>1, <1>7, <1>9, ThreadMoves
<1>12. /\ cache' \in [CacheIds -> Caches] /\ cache'[c] = r
       /\ \A d \in CacheIds \ {c} :
            SameState(d) /\ (cache[d].cleaned_up => cache'[d].bufs = cache[d].bufs)
  BY <1>1, <1>2, <1>8, <1>9, CacheBecomes
<1>13. pool' \in [Pools -> PoolStates] /\ SameLists
  <2>1. CASE p = NoPool
    BY <1>1, <1>10, <2>1 DEF PoolTypes, SameLists
  <2>2. CASE p # NoPool
    <3>1. p \in Pools /\ pool[p].active_users - 1 \in Int /\ pool' = [pool EXCEPT ![p].active_users = pool[p].active_users - 1]
      BY <1>1, <1>3, <1>4, <1>10, <2>2 DEF PoolTypes, PoolStates
    <3> QED BY <1>1, <3>1, UsersChange
  <2> QED BY <2>1, <2>2
<1>14. key' \in [Users -> CacheIds \cup {NoCache}] /\ key'[t] = NoCache /\ \A u \in Users \ {t} : key'[u] = key[u]
  BY <1>1, <1>9 DEF PoolTypes
<1>15. PoolTypes'
  <2>1. structs' \subseteq CacheIds
    BY <1>1, <1>10 DEF PoolTypes
  <2> QED BY <1>1, <1>10, <1>11, <1>12, <1>13, <1>14, <2>1 DEF PoolTypes
<1>16. OwnChange(t, c) /\ cache'[c].pool = cache[c].pool
  BY <1>2, <1>8, <1>12 DEF OwnChange
<1>17. HandSound(t)'
  BY <1>7, <1>11 DEF HandSound, Calling, Exiting, Destroying, Listing
<1>18. WorkSound(t)'
  BY <1>7, <1>11 DEF WorkSound, Exiting
<1>19. RefsSound(t)'
  BY <1>2, <1>10, <1>14 DEF RefsSound
<1>20. at[t].pc \notin Listing /\ at'[t].pc \notin Listing \cup {"shards"} /\ at'[t].pool = NoPool
  BY <1>1, <1>7, <1>11 DEF Listing
<1>21. c \in structs' => CacheSound(c)'
  <2> SUFFICES ASSUME c \in structs' PROVE CacheSound(c)'
    OBVIOUS
  <2>1. cache[c].pool # NoPool
    BY <1>10
  <2>2. pool'[cache[c].pool].list = pool[cache[c].pool].list
    BY <1>3, <1>13, <2>1 DEF SameLists
  <2>3. cache'[c].pool = cache[c].pool /\ cache'[c].bufs = cache[c].bufs /\ cache'[c].cleaned_up = cache[c].cleaned_up
    BY <1>8, <1>12
  <2>4. \A d \in Users : at[d].pc \in Listing => at'[d] = at[d]
    BY <1>11, <1>20
  <2> QED BY <1>3, <2>1, <2>2, <2>3, <2>4 DEF CacheSound
<1>22. \A q \in Pools : pool'[q].list = pool[q].list /\ pool'[q].stage = pool[q].stage
  BY <1>13 DEF SameLists
<1>23. \/ structs' = structs
       \/ structs' = structs \ {c} /\ cache[c].pool = NoPool /\ cache[c].owner = t
  BY <1>2, <1>10
<1>24. \A u \in Users \ {t} : at'[u] = at[u] /\ tls'[u] = tls[u] /\ key'[u] = key[u]
  BY <1>10, <1>11, <1>14
<1>25. cache[c].exited => cache'[c].exited
  BY <1>8, <1>12
<1> QED BY <1>0, <1>12, <1>14, <1>15, <1>16, <1>17, <1>18, <1>19, <1>20, <1>21, <1>22, <1>23, <1>24, <1>25, InsideKeeps

-----------------------------------------------------------------------------
(* The destroyer's steps.                                                  *)

\* What StructsInv says of everybody, as facts to cite.
LEMMA Everybody ==
  ASSUME StructsInv
  PROVE  /\ PoolTypes
         /\ \A u \in Users : HandSound(u) /\ WorkSound(u) /\ RefsSound(u) /\ HandListSound(u)
         /\ \A q \in Pools : PoolListSound(q)
         /\ \A c \in structs : CacheSound(c)
BY DEF StructsInv

\* The reference part of a destroyer's own state.
LEMMA DestroyerRefs ==
  ASSUME PoolConstants, StructsInv, NEW d \in Users, at[d].pc \notin Calling \cup Exiting,
         at'[d].pc \notin Calling \cup Exiting, \A c \in structs : SameState(c),
         \A c \in structs : c \in structs' \/ (tls'[d] # c /\ key'[d] # c),
         tls'[d] \in {tls[d], NoCache}, key'[d] \in {key[d], NoCache},
         tls'[d] = NoCache => tls[d] = NoCache \/ key'[d] = NoCache
  PROVE  RefsSound(d)' /\ WorkSound(d)'
<1>1. RefsSound(d)
  BY Everybody
<1>2. at[d].pc \notin {"switch_unlock", "switch_leave"} /\ at[d].pc \notin Exiting
  BY DEF Calling
<1>3. tls'[d] # NoCache => tls'[d] = tls[d] /\ tls[d] \in structs' /\ SameState(tls[d])
  BY <1>1 DEF RefsSound
<1>4. key'[d] # NoCache => key'[d] = key[d] /\ key[d] \in structs' /\ SameState(key[d]) /\ key[d] = tls[d] /\ tls'[d] = tls[d]
  BY <1>1, <1>2 DEF RefsSound
<1>5. RefsSound(d)'
  BY <1>1, <1>2, <1>3, <1>4 DEF RefsSound, SameState
<1>6. WorkSound(d)'
  BY DEF WorkSound, Calling, Exiting
<1> QED BY <1>5, <1>6

\* The start of buffer_pool_destroy: the structs.
LEMMA MarkDestroyedStruct ==
  ASSUME PoolConstants, StructsInv, NEW d \in Users, NEW p \in Pools, MarkDestroyed(d, p)
  PROVE  StructsInv'
<1>1. /\ PoolTypes
      /\ \A u \in Users : HandSound(u) /\ WorkSound(u) /\ RefsSound(u) /\ HandListSound(u)
      /\ \A q \in Pools : PoolListSound(q)
      /\ \A c \in structs : CacheSound(c)
  BY Everybody
<1>2. /\ at[d].pc = "idle" /\ (\A t \in Users : at[t].pool # p) /\ at[d] = Idle
      /\ UNCHANGED <<bucket, cache, structs, live, held, tls, key>> /\ pool[p] \in PoolStates
  BY <1>1 DEF MarkDestroyed, HandSound, PoolTypes
<1>3. PICK a : a = [Idle EXCEPT !.pc = "quiesce", !.pool = p]
  OBVIOUS
<1>4. /\ a \in Locals /\ a.pc = "quiesce" /\ a.pool = p /\ a.list = <<>> /\ a.old = NoPool /\ a.c = NoCache /\ a.buf = NoBuf
  <2>1. Idle \in Locals /\ "quiesce" \in PCs
    BY IdleType, PcType
  <2>2. a.pc = "quiesce" /\ a.pool = p /\ a.list = <<>> /\ a.old = NoPool /\ a.c = NoCache /\ a.buf = NoBuf
    BY <1>3 DEF Idle
  <2> QED BY <1>3, <2>1, <2>2, PcType
<1>5. PICK r : r = [pool[p] EXCEPT !.stage = "closing"]
  OBVIOUS
<1>6. r \in PoolStates /\ r.stage = "closing" /\ r.list = pool[p].list
  BY <1>2, <1>5 DEF PoolStates
<1>7. at' = [at EXCEPT ![d] = a]
  BY <1>3 DEF MarkDestroyed
<1>8. pool' = [pool EXCEPT ![p] = r]
  BY <1>1, <1>5 DEF MarkDestroyed, PoolTypes
<1>9. at' \in [Users -> Locals] /\ at'[d] = a /\ \A u \in Users \ {d} : at'[u] = at[u]
  BY <1>1, <1>4, <1>7, ThreadMoves
<1>10. pool' \in [Pools -> PoolStates] /\ pool'[p] = r /\ \A q \in Pools \ {p} : pool'[q] = pool[q]
  BY <1>1, <1>6, <1>8, PoolMoves
<1>11. PoolTypes'
  BY <1>1, <1>2, <1>9, <1>10 DEF PoolTypes
<1>12. \A c \in structs : SameState(c)
  BY <1>2 DEF SameState
<1>13. \A q \in Pools : pool'[q].list = pool[q].list
  BY <1>6, <1>10
<1>14. ASSUME NEW u \in Users PROVE HandSound(u)'
  <2>1. CASE u = d
    <3>1. \A v \in Users : at'[v].pool = p => v = d
      BY <1>2, <1>9
    <3> QED BY <1>4, <1>6, <1>9, <1>10, <2>1, <3>1 DEF HandSound, Calling, Exiting, Destroying, Listing
  <2>2. CASE u # d
    <3>1. at'[u] = at[u] /\ HandSound(u) /\ at[u].pool # p
      BY <1>1, <1>2, <1>9, <2>2
    <3>2. at[u].pool \in Pools => pool'[at[u].pool].stage = pool[at[u].pool].stage
      BY <1>10, <3>1
    <3>3. \A v \in Users : at'[v].pool = at[u].pool => at[v].pool = at[u].pool
      BY <1>4, <1>9, <3>1
    <3> QED BY <3>1, <3>2, <3>3, HandKept
  <2> QED BY <2>1, <2>2
<1>15. RefsSound(d)' /\ WorkSound(d)'
  <2>1. at[d].pc \notin Calling \cup Exiting /\ at'[d].pc \notin Calling \cup Exiting
    BY <1>2, <1>4, <1>9 DEF Calling, Exiting
  <2> QED BY <1>2, <1>12, <2>1, DestroyerRefs
<1>16. ASSUME NEW u \in Users \ {d} PROVE RefsSound(u)' /\ WorkSound(u)'
  <2>1. at'[u] = at[u] /\ tls'[u] = tls[u] /\ key'[u] = key[u] /\ structs' = structs
    BY <1>2, <1>9
  <2> QED BY <1>12, <2>1, WorkSame, RefsSame
<1>17. ASSUME NEW q \in Pools PROVE PoolListSound(q)'
  <2>1. pool'[q].stage = "gone" => pool[q].stage = "gone"
    BY <1>6, <1>10
  <2> QED BY <1>1, <1>2, <1>13, <2>1, PoolListKept
<1>18. ASSUME NEW u \in Users PROVE HandListSound(u)'
  <2>1. CASE u = d
    <3>1. at'[u].list = <<>> /\ at'[u].pc \notin Listing \cup {"shards"}
      BY <1>4, <1>9, <2>1 DEF Listing
    <3> QED BY <3>1, NothingListed
  <2>2. CASE u # d
    <3>1. at'[u] = at[u]
      BY <1>9, <2>2
    <3> QED BY <1>2, <1>13, <3>1, HandListKept
  <2> QED BY <2>1, <2>2
<1>19. ASSUME NEW c \in structs' PROVE CacheSound(c)'
  <2>1. c \in structs /\ cache[c].pool \in Pools \cup {NoPool}
    BY <1>1, <1>2 DEF PoolTypes, Caches
  <2>2. at[d].pc \notin Listing /\ at[d].pc \notin Exiting
    BY <1>2 DEF Listing, Exiting
  <2>3. \A u \in Users : at'[u] = at[u] \/ (at[u].pc \notin Listing /\ at[u].pc \notin Exiting)
    BY <1>9, <2>2
  <2> QED BY <1>1, <1>2, <1>13, <2>1, <2>3, CacheKept
<1> QED BY <1>11, <1>14, <1>15, <1>16, <1>17, <1>18, <1>19 DEF StructsInv

\* It detaches the list of caches: the structs.
LEMMA DetachStruct ==
  ASSUME PoolConstants, StructsInv, NEW d \in Users, Detach(d)
  PROVE  StructsInv'
<1>1. /\ PoolTypes
      /\ \A u \in Users : HandSound(u) /\ WorkSound(u) /\ RefsSound(u) /\ HandListSound(u)
      /\ \A q \in Pools : PoolListSound(q)
      /\ \A c \in structs : CacheSound(c)
  BY Everybody
<1>0. PICK p : p = at[d].pool
  OBVIOUS
<1>2. /\ at[d].pc = "detach" /\ UNCHANGED <<bucket, cache, structs, live, held, tls, key>> /\ at[d] \in Locals
  BY <1>1 DEF Detach, PoolTypes
<1>3. /\ p \in Pools /\ pool[p].stage = "closing" /\ at[d].old = NoPool /\ at[d].c = NoCache /\ at[d].buf = NoBuf
      /\ \A u \in Users : at[u].pool = p => u = d
  BY <1>0, <1>1, <1>2 DEF HandSound, Destroying
<1>4. PICK l : l = pool[p].list
  OBVIOUS
<1>5. l \in Seq(CacheIds) /\ pool[p] \in PoolStates
  BY <1>1, <1>3, <1>4 DEF PoolTypes, PoolStates
<1>6. PICK x : x = IF l = <<>> THEN "shards" ELSE "take"
  OBVIOUS
<1>7. PICK a : a = [at[d] EXCEPT !.list = l, !.pc = x]
  OBVIOUS
<1>8. /\ a \in Locals /\ a.pc = x /\ a.pool = p /\ a.list = l /\ a.old = NoPool /\ a.c = NoCache /\ a.buf = NoBuf
  <2>1. x \in PCs
    BY <1>6, PcType
  <2>2. /\ a \in Locals /\ a.pc = x /\ a.pool = at[d].pool /\ a.list = l /\ a.old = at[d].old
        /\ a.c = at[d].c /\ a.buf = at[d].buf
    BY <1>2, <1>5, <1>7, <2>1, PcType
  <2> QED BY <1>0, <1>3, <2>2
<1>9. PICK r : r = [pool[p] EXCEPT !.list = <<>>]
  OBVIOUS
<1>10. r \in PoolStates /\ r.stage = pool[p].stage /\ r.list = <<>>
  <2>1. <<>> \in Seq(CacheIds)
    OBVIOUS
  <2> QED BY <1>5, <1>9, <2>1 DEF PoolStates
<1>11. at' = [at EXCEPT ![d] = a]
  BY <1>0, <1>1, <1>4, <1>6, <1>7 DEF Detach, PoolTypes
<1>12. pool' = [pool EXCEPT ![p] = r]
  BY <1>0, <1>1, <1>3, <1>9 DEF Detach, PoolTypes
<1>13. at' \in [Users -> Locals] /\ at'[d] = a /\ \A u \in Users \ {d} : at'[u] = at[u]
  BY <1>1, <1>8, <1>11, ThreadMoves
<1>14. pool' \in [Pools -> PoolStates] /\ pool'[p] = r /\ \A q \in Pools \ {p} : pool'[q] = pool[q]
  BY <1>1, <1>3, <1>10, <1>12, PoolMoves
<1>15. PoolTypes'
  BY <1>1, <1>2, <1>13, <1>14 DEF PoolTypes
<1>16. \A c \in structs : SameState(c)
  BY <1>2 DEF SameState
<1>17. \A q \in Pools : pool'[q].stage = pool[q].stage
  BY <1>10, <1>14
<1>18. \A u \in Users : at'[u].pool = at[u].pool
  BY <1>0, <1>8, <1>13
<1>19. /\ \A i \in DOMAIN l : l[i] \in structs /\ cache[l[i]].pool = p
       /\ IsInjective(l)
  BY <1>1, <1>3, <1>4 DEF PoolListSound
<1>20. x \in {"shards", "take"} /\ (x = "take" <=> l # <<>>)
  BY <1>6
<1>21. ASSUME NEW u \in Users PROVE HandSound(u)'
  <2>1. CASE u = d
    <3>1. \A v \in Users : at'[v].pool = p => v = d
      BY <1>3, <1>18
    <3> QED BY <1>3, <1>8, <1>13, <1>17, <1>20, <2>1, <3>1 DEF HandSound, Calling, Exiting, Destroying, Listing
  <2>2. CASE u # d
    <3>1. at'[u] = at[u] /\ HandSound(u)
      BY <1>1, <1>13, <2>2
    <3> QED BY <1>17, <1>18, <3>1, HandKept
  <2> QED BY <2>1, <2>2
<1>22. RefsSound(d)' /\ WorkSound(d)'
  <2>1. at[d].pc \notin Calling \cup Exiting /\ at'[d].pc \notin Calling \cup Exiting
    BY <1>2, <1>8, <1>13, <1>20 DEF Calling, Exiting
  <2> QED BY <1>2, <1>16, <2>1, DestroyerRefs
<1>23. ASSUME NEW u \in Users \ {d} PROVE RefsSound(u)' /\ WorkSound(u)'
  <2>1. at'[u] = at[u] /\ tls'[u] = tls[u] /\ key'[u] = key[u] /\ structs' = structs
    BY <1>2, <1>13
  <2> QED BY <1>16, <2>1, WorkSame, RefsSame
<1>24. ASSUME NEW q \in Pools PROVE PoolListSound(q)'
  <2>1. CASE q = p
    BY <1>10, <1>14, <2>1 DEF PoolListSound, IsInjective
  <2>2. CASE q # p
    <3>1. pool'[q] = pool[q]
      BY <1>14, <2>2
    <3> QED BY <1>1, <1>2, <3>1, PoolListKept
  <2> QED BY <2>1, <2>2
<1>25. ASSUME NEW u \in Users PROVE HandListSound(u)'
  <2>1. CASE u = d
    <3>1. at'[u].list = l /\ at'[u].pc \in {"shards", "take"} /\ at'[u].pool = p /\ pool'[p].list = <<>>
      BY <1>8, <1>10, <1>13, <1>14, <1>20, <2>1
    <3>2. \A i \in DOMAIN l : l[i] \in structs' /\ cache'[l[i]].pool = p
      BY <1>2, <1>19
    <3> QED BY <1>19, <3>1, <3>2 DEF HandListSound
  <2>2. CASE u # d
    <3>1. at'[u] = at[u] /\ at[u].pool # p
      BY <1>3, <1>13, <2>2
    <3>2. at[u].pool \in Pools => pool'[at[u].pool].list = pool[at[u].pool].list
      BY <1>14, <3>1
    <3> QED BY <1>2, <3>1, <3>2, HandListKept
  <2> QED BY <2>1, <2>2
<1>26. ASSUME NEW c \in structs' PROVE CacheSound(c)'
  <2>1. c \in structs /\ cache[c].pool \in Pools \cup {NoPool}
    BY <1>1, <1>2 DEF PoolTypes, Caches
  <2>2. at[d].pc \notin Listing /\ at[d].pc \notin Exiting /\ at[d].pc \notin {"release", "dispose"}
    BY <1>2 DEF Listing, Exiting
  <2>3. \A u \in Users : at'[u] = at[u] \/ (at[u].pc \notin Listing /\ at[u].pc \notin Exiting /\ at[u].pc \notin {"release", "dispose"})
    BY <1>13, <2>2
  <2>4. cache' = cache /\ CacheSound(c)
    BY <1>1, <1>2, <2>1
  <2>5. CASE cache[c].pool = p /\ \E i \in DOMAIN l : l[i] = c
    <3>1. l # <<>>
      BY <2>5
    <3>2. at'[d].pool = cache[c].pool /\ at'[d].pc \in Listing /\ at'[d].list = l
      BY <1>8, <1>13, <1>20, <2>5, <3>1 DEF Listing
    <3>3. cache[c].pool # NoPool
      BY <1>3, <2>5 DEF PoolConstants
    <3> QED BY <2>3, <2>4, <2>5, <3>2, <3>3 DEF CacheSound
  <2>6. CASE ~(cache[c].pool = p /\ \E i \in DOMAIN l : l[i] = c)
    <3>1. ASSUME cache[c].pool # NoPool
          PROVE  \/ \E i \in DOMAIN pool'[cache[c].pool].list : pool'[cache[c].pool].list[i] = c
                 \/ \E e \in Users : /\ at'[e].pool = cache[c].pool /\ at'[e].pc \in Listing
                                    /\ \E i \in DOMAIN at'[e].list : at'[e].list[i] = c
      <4>1. CASE \E i \in DOMAIN pool[cache[c].pool].list : pool[cache[c].pool].list[i] = c
        <5>1. cache[c].pool # p
          BY <1>4, <2>6, <4>1
        <5>2. pool'[cache[c].pool] = pool[cache[c].pool]
          BY <1>14, <2>1, <3>1, <5>1
        <5> QED BY <4>1, <5>2
      <4>2. CASE \E e \in Users : /\ at[e].pool = cache[c].pool /\ at[e].pc \in Listing
                                  /\ \E i \in DOMAIN at[e].list : at[e].list[i] = c
        BY <2>3, <4>2
      <4> QED BY <2>4, <3>1, <4>1, <4>2 DEF CacheSound
    <3>2. ASSUME cache[c].exited, cache[c].pool = NoPool
          PROVE  \/ \E t \in Users : at'[t].pc \in Exiting /\ at'[t].c = c
                 \/ \E e \in Users : /\ at'[e].pc = "release" \/ (at'[e].pc = "dispose" /\ at'[e].flag)
                                    /\ Head(at'[e].list) = c
      BY <2>3, <2>4, <3>2 DEF CacheSound
    <3> QED BY <2>4, <3>1, <3>2 DEF CacheSound
  <2> QED BY <2>5, <2>6
<1> QED BY <1>15, <1>21, <1>22, <1>23, <1>24, <1>25, <1>26 DEF StructsInv

\* It frees the shards: the structs.
LEMMA DestroyShardsStruct ==
  ASSUME PoolConstants, StructsInv, NEW d \in Users, DestroyShards(d)
  PROVE  StructsInv'
<1>1. /\ PoolTypes
      /\ \A u \in Users : HandSound(u) /\ WorkSound(u) /\ RefsSound(u) /\ HandListSound(u)
      /\ \A q \in Pools : PoolListSound(q)
      /\ \A c \in structs : CacheSound(c)
  BY Everybody
<1>0. PICK p : p = at[d].pool
  OBVIOUS
<1>2. at[d].pc = "shards" /\ UNCHANGED <<cache, structs, held, tls, key>>
  BY DEF DestroyShards
<1>3. /\ p \in Pools /\ pool[p].stage = "closing" /\ pool[p] \in PoolStates
      /\ \A u \in Users : at[u].pool = p => u = d
  BY <1>0, <1>1, <1>2 DEF HandSound, Destroying, PoolTypes
<1>4. pool[p].list = <<>>
  BY <1>0, <1>1, <1>2 DEF HandListSound
<1>5. PICK r : r = [pool[p] EXCEPT !.stage = "gone", !.total = 0]
  OBVIOUS
<1>6. r \in PoolStates /\ r.stage = "gone" /\ r.list = pool[p].list
  <2>1. PICK k : k = 0
    OBVIOUS
  <2>2. r = [pool[p] EXCEPT !.stage = "gone", !.total = k] /\ k \in Int
    BY <1>5, <2>1
  <2> QED BY <1>3, <2>2 DEF PoolStates
<1>7. pool' = [pool EXCEPT ![p] = r]
  BY <1>0, <1>1, <1>3, <1>5 DEF DestroyShards, PoolTypes
<1>8. at' = [at EXCEPT ![d] = Idle] /\ Idle \in Locals
  BY IdleType DEF DestroyShards
<1>9. at' \in [Users -> Locals] /\ at'[d] = Idle /\ \A u \in Users \ {d} : at'[u] = at[u]
  BY <1>1, <1>8, ThreadMoves
<1>10. pool' \in [Pools -> PoolStates] /\ pool'[p] = r /\ \A q \in Pools \ {p} : pool'[q] = pool[q]
  BY <1>1, <1>3, <1>6, <1>7, PoolMoves
<1>a. bucket' \in [Pools -> [Shards -> Seq(Buffers)]] /\ live' \subseteq Buffers
  <2>1. [s \in Shards |-> <<>>] \in [Shards -> Seq(Buffers)]
    OBVIOUS
  <2>2. bucket' = [bucket EXCEPT ![p] = [s \in Shards |-> <<>>]] /\ live' \subseteq live
    BY <1>0 DEF DestroyShards
  <2> QED BY <1>1, <2>1, <2>2 DEF PoolTypes
<1>11. PoolTypes'
  BY <1>1, <1>2, <1>9, <1>10, <1>a DEF PoolTypes
<1>12. \A c \in structs : SameState(c)
  BY <1>2 DEF SameState
<1>13. \A q \in Pools : pool'[q].list = pool[q].list
  BY <1>6, <1>10
<1>b. Idle.pc = "idle" /\ Idle.pool = NoPool /\ Idle.list = <<>>
  BY DEF Idle
<1>14. ASSUME NEW u \in Users PROVE HandSound(u)'
  <2>1. CASE u = d
    BY <1>9, <1>b, <2>1 DEF HandSound, Calling, Exiting, Destroying, Listing
  <2>2. CASE u # d
    <3>1. at'[u] = at[u] /\ HandSound(u) /\ at[u].pool # p
      BY <1>1, <1>3, <1>9, <2>2
    <3>2. at[u].pool \in Pools => pool'[at[u].pool].stage = pool[at[u].pool].stage
      BY <1>10, <3>1
    <3>3. CASE at[u].pool = NoPool
      <4>1. at[u].pc \notin Calling \cup Destroying
        BY <3>1, <3>3 DEF HandSound, PoolConstants
      <4> QED BY <3>1, <4>1 DEF HandSound
    <3>4. CASE at[u].pool # NoPool
      <4>1. \A v \in Users : at'[v].pool = at[u].pool => at[v].pool = at[u].pool
        BY <1>9, <1>b, <3>4
      <4> QED BY <3>1, <3>2, <4>1, HandKept
    <3> QED BY <3>3, <3>4
  <2> QED BY <2>1, <2>2
<1>15. RefsSound(d)' /\ WorkSound(d)'
  <2>1. at[d].pc \notin Calling \cup Exiting /\ at'[d].pc \notin Calling \cup Exiting
    BY <1>2, <1>9, <1>b DEF Calling, Exiting
  <2> QED BY <1>2, <1>12, <2>1, DestroyerRefs
<1>16. ASSUME NEW u \in Users \ {d} PROVE RefsSound(u)' /\ WorkSound(u)'
  <2>1. at'[u] = at[u] /\ tls'[u] = tls[u] /\ key'[u] = key[u] /\ structs' = structs
    BY <1>2, <1>9
  <2> QED BY <1>12, <2>1, WorkSame, RefsSame
<1>17. ASSUME NEW q \in Pools PROVE PoolListSound(q)'
  <2>1. pool'[q].stage = "gone" => pool[q].stage = "gone" \/ pool[q].list = <<>>
    BY <1>4, <1>6, <1>10
  <2> QED BY <1>1, <1>2, <1>13, <2>1, PoolListKept
<1>18. ASSUME NEW u \in Users PROVE HandListSound(u)'
  <2>1. CASE u = d
    <3>1. at'[u].list = <<>> /\ at'[u].pc \notin Listing \cup {"shards"}
      BY <1>9, <1>b, <2>1 DEF Listing
    <3> QED BY <3>1, NothingListed
  <2>2. CASE u # d
    <3>1. at'[u] = at[u]
      BY <1>9, <2>2
    <3> QED BY <1>2, <1>13, <3>1, HandListKept
  <2> QED BY <2>1, <2>2
<1>19. ASSUME NEW c \in structs' PROVE CacheSound(c)'
  <2>1. c \in structs /\ cache[c].pool \in Pools \cup {NoPool}
    BY <1>1, <1>2 DEF PoolTypes, Caches
  <2>2. at[d].pc \notin Listing /\ at[d].pc \notin Exiting
    BY <1>2 DEF Listing, Exiting
  <2>3. \A u \in Users : at'[u] = at[u] \/ (at[u].pc \notin Listing /\ at[u].pc \notin Exiting)
    BY <1>9, <2>2
  <2> QED BY <1>1, <1>2, <1>13, <2>1, <2>3, CacheKept
<1> QED BY <1>11, <1>14, <1>15, <1>16, <1>17, <1>18, <1>19 DEF StructsInv

-----------------------------------------------------------------------------
\* The head and the tail of a list.
LEMMA ListIs ==
  ASSUME NEW S, NEW l \in Seq(S), l # <<>>, IsInjective(l)
  PROVE  /\ Head(l) \in S /\ Head(l) = l[1] /\ 1 \in DOMAIN l
         /\ Tail(l) \in Seq(S) /\ IsInjective(Tail(l))
         /\ \A i \in DOMAIN l : i > 1 => l[i] # Head(l)
         /\ \A i \in DOMAIN Tail(l) : i + 1 \in DOMAIN l /\ i + 1 > 1 /\ Tail(l)[i] = l[i + 1]
         /\ \A i \in DOMAIN l : l[i] # Head(l) => i - 1 \in DOMAIN Tail(l) /\ Tail(l)[i - 1] = l[i]
<1>1. Head(l) \in S /\ Head(l) = l[1] /\ Len(l) >= 1 /\ DOMAIN l = 1 .. Len(l) /\ Len(l) \in Nat
  OBVIOUS
<1>2. PICK m : m = Tail(l)
  OBVIOUS
<1>3. m \in Seq(S) /\ Len(m) = Len(l) - 1 /\ DOMAIN m = 1 .. Len(m) /\ \A i \in 1 .. Len(m) : m[i] = l[i + 1]
  BY <1>1, <1>2
<1>4. \A i, j \in 1 .. Len(l) : l[i] = l[j] => i = j
  BY InjectiveIs
<1>5. IsInjective(m)
  <2> SUFFICES ASSUME NEW i \in 1 .. Len(m), NEW j \in 1 .. Len(m), m[i] = m[j] PROVE i = j
    BY <1>3, InjectiveIs
  <2>1. i + 1 \in 1 .. Len(l) /\ j + 1 \in 1 .. Len(l) /\ l[i + 1] = l[j + 1]
    BY <1>1, <1>3
  <2>2. i + 1 = j + 1
    BY <1>4, <2>1
  <2> QED BY <2>2
<1>6. \A i \in DOMAIN l : i > 1 => l[i] # Head(l)
  BY <1>1, <1>4
<1>7. \A i \in DOMAIN m : i + 1 \in DOMAIN l /\ i + 1 > 1 /\ m[i] = l[i + 1]
  BY <1>1, <1>3
<1>8. ASSUME NEW i \in DOMAIN l, l[i] # Head(l) PROVE i - 1 \in DOMAIN m /\ m[i - 1] = l[i]
  <2>1. i # 1 /\ i \in 1 .. Len(l)
    BY <1>1, <1>8
  <2>2. i - 1 \in 1 .. Len(m) /\ (i - 1) + 1 = i
    BY <1>1, <1>3, <2>1
  <2> QED BY <1>3, <2>2
<1>9. /\ m \in Seq(S) /\ IsInjective(m)
      /\ \A i \in DOMAIN m : i + 1 \in DOMAIN l /\ i + 1 > 1 /\ m[i] = l[i + 1]
      /\ \A i \in DOMAIN l : l[i] # Head(l) => i - 1 \in DOMAIN m /\ m[i - 1] = l[i]
  BY <1>3, <1>5, <1>7, <1>8
<1> QED BY <1>1, <1>2, <1>6, <1>9

\* What a destroyer that goes through a list knows.
LEMMA Taking ==
  ASSUME PoolConstants, StructsInv, NEW d \in Users, at[d].pc \in Listing
  PROVE  /\ at[d] \in Locals /\ at[d].list \in Seq(CacheIds) /\ at[d].list # <<>> /\ IsInjective(at[d].list)
         /\ at[d].pool \in Pools /\ pool[at[d].pool].stage = "closing" /\ pool[at[d].pool].list = <<>>
         /\ at[d].old = NoPool /\ at[d].c = NoCache /\ at[d].buf = NoBuf
         /\ \A u \in Users : at[u].pool = at[d].pool => u = d
         /\ \A i \in DOMAIN at[d].list : i > 1 \/ at[d].pc = "take" =>
              at[d].list[i] \in structs /\ cache[at[d].list[i]].pool = at[d].pool
         /\ at[d].pc \notin Calling \cup Exiting
<1>1. PoolTypes /\ HandSound(d) /\ HandListSound(d)
  BY Everybody
<1>2. at[d].pc \in Destroying /\ at[d].pc \notin Calling \cup Exiting
  BY DEF Destroying, Listing, Calling, Exiting
<1>3. at[d] \in Locals /\ at[d].list \in Seq(CacheIds)
  BY <1>1 DEF PoolTypes, Locals
<1> QED BY <1>1, <1>2, <1>3 DEF HandSound, HandListSound

\* It takes a cache: the structs.
LEMMA TakeCacheStruct ==
  ASSUME PoolConstants, StructsInv, NEW d \in Users, TakeCache(d)
  PROVE  StructsInv'
<1>1. /\ PoolTypes
      /\ \A u \in Users : HandSound(u) /\ WorkSound(u) /\ RefsSound(u) /\ HandListSound(u)
      /\ \A q \in Pools : PoolListSound(q)
      /\ \A c \in structs : CacheSound(c)
  BY Everybody
<1>0. PICK p : p = at[d].pool
  OBVIOUS
<1>2. at[d].pc = "take" /\ at[d].pc \in Listing
  BY DEF TakeCache, Listing
<1>3. PICK l : l = at[d].list
  OBVIOUS
<1>4. PICK c : c = Head(l)
  OBVIOUS
<1>5. /\ at[d] \in Locals /\ l \in Seq(CacheIds) /\ l # <<>> /\ IsInjective(l) /\ p \in Pools
      /\ pool[p].stage = "closing" /\ pool[p].list = <<>> /\ at[d].old = NoPool /\ at[d].c = NoCache /\ at[d].buf = NoBuf
      /\ \A u \in Users : at[u].pool = p => u = d
      /\ \A i \in DOMAIN l : l[i] \in structs /\ cache[l[i]].pool = p
      /\ at[d].pc \notin Calling \cup Exiting
  BY <1>0, <1>2, <1>3, Taking
<1>6. c = l[1] /\ 1 \in DOMAIN l /\ \A i \in DOMAIN l : i > 1 => l[i] # c
  BY <1>4, <1>5, ListIs
<1>7. c \in structs /\ c \in CacheIds /\ cache[c].pool = p /\ cache[c] \in Caches /\ cache[c].lock = NoUser /\ CacheSound(c)
  <2>1. c \in structs /\ cache[c].pool = p
    BY <1>5, <1>6
  <2> QED BY <1>1, <1>3, <1>4, <2>1 DEF PoolTypes, TakeCache
<1>8. PICK r : r = [cache[c] EXCEPT !.bufs = <<>>, !.cleaned_up = TRUE, !.pool = NoPool, !.lock = d]
  OBVIOUS
<1>9. /\ r \in Caches /\ r.bufs = <<>> /\ r.cleaned_up /\ r.pool = NoPool /\ r.lock = d
      /\ r.owner = cache[c].owner /\ r.exited = cache[c].exited
  <2>1. <<>> \in Seq(Buffers)
    OBVIOUS
  <2> QED BY <1>7, <1>8, <2>1 DEF Caches
<1>10. cache' = [cache EXCEPT ![c] = r]
  <2>1. cache[c].cleaned_up => cache[c].bufs = <<>>
    BY <1>7 DEF CacheSound
  <2>2. cache' = [cache EXCEPT ![c].bufs = IF @ # <<>> /\ cache[c].cleaned_up THEN @ ELSE <<>>,
                            ![c].cleaned_up = TRUE, ![c].pool = NoPool, ![c].lock = d]
    BY <1>3, <1>4 DEF TakeCache
  <2>3. (IF cache[c].bufs # <<>> /\ cache[c].cleaned_up THEN cache[c].bufs ELSE <<>>) = <<>>
    BY <2>1
  <2> QED BY <1>1, <1>7, <1>8, <2>2, <2>3 DEF PoolTypes
<1>11. PICK a : a = [at[d] EXCEPT !.pc = "release"]
  OBVIOUS
<1>12. /\ a \in Locals /\ a.pc = "release" /\ a.pool = p /\ a.list = l /\ a.old = NoPool /\ a.c = NoCache /\ a.buf = NoBuf
  <2>1. "release" \in PCs
    BY PcType
  <2>2. /\ a \in Locals /\ a.pc = "release" /\ a.pool = at[d].pool /\ a.list = at[d].list /\ a.old = at[d].old
        /\ a.c = at[d].c /\ a.buf = at[d].buf
    BY <1>5, <1>11, <2>1, PcType
  <2> QED BY <1>0, <1>3, <1>5, <2>2
<1>13. at' = [at EXCEPT ![d] = a]
  BY <1>1, <1>11 DEF TakeCache, Goto, PoolTypes
<1>14. /\ UNCHANGED <<pool, bucket, structs, held, tls, key>> /\ live' \subseteq live
  BY DEF TakeCache
<1>15. at' \in [Users -> Locals] /\ at'[d] = a /\ \A u \in Users \ {d} : at'[u] = at[u]
  BY <1>1, <1>12, <1>13, ThreadMoves
<1>16. cache' \in [CacheIds -> Caches] /\ cache'[c] = r /\ \A e \in CacheIds \ {c} : cache'[e] = cache[e] /\ SameState(e)
  BY <1>1, <1>7, <1>9, <1>10, CacheBecomes
<1>17. PoolTypes'
  BY <1>1, <1>14, <1>15, <1>16 DEF PoolTypes
<1>18. OwnChange(d, c)
  BY <1>5, <1>7, <1>9, <1>16 DEF OwnChange
<1>19. \A u \in Users : at'[u].pool = at[u].pool /\ at'[u].list = at[u].list
  BY <1>0, <1>3, <1>12, <1>15
<1>20. \A e \in structs : e \in CacheIds
  BY <1>1 DEF PoolTypes
<1>21. ASSUME NEW u \in Users PROVE HandSound(u)'
  <2>1. CASE u = d
    <3>1. \A v \in Users : at'[v].pool = p => v = d
      BY <1>5, <1>19
    <3> QED BY <1>5, <1>12, <1>14, <1>15, <2>1, <3>1 DEF HandSound, Calling, Exiting, Destroying, Listing
  <2>2. CASE u # d
    <3>1. at'[u] = at[u] /\ HandSound(u)
      BY <1>1, <1>15, <2>2
    <3> QED BY <1>14, <1>19, <3>1, HandKept
  <2> QED BY <2>1, <2>2
<1>22. ASSUME NEW u \in Users \ {d} PROVE RefsSound(u)' /\ WorkSound(u)'
  <2>1. at'[u] = at[u] /\ tls'[u] = tls[u] /\ key'[u] = key[u] /\ structs' = structs /\ c \in structs'
    BY <1>7, <1>14, <1>15
  <2>2. WorkSound(u)'
    BY <1>16, <1>17, <1>18, <2>1, WorkKept
  <2>3. RefsSound(u)'
    BY <1>16, <1>17, <1>18, <2>1, RefsKept
  <2> QED BY <2>2, <2>3
<1>23. RefsSound(d)' /\ WorkSound(d)'
  <2>1. WorkSound(d)'
    BY <1>12, <1>15 DEF WorkSound, Exiting
  <2>2. \A e \in structs : cache'[e].owner = cache[e].owner /\ cache'[e].exited = cache[e].exited
    BY <1>9, <1>16, <1>20
  <2>3. tls[d] # NoCache => cache'[tls[d]].pool = NoPool \/ ~cache'[tls[d]].cleaned_up
    <3>1. RefsSound(d) /\ at[d].pc \notin {"switch_unlock", "switch_leave"}
      BY <1>1, <1>2
    <3>2. CASE tls[d] = c
      BY <1>9, <1>16, <3>2
    <3>3. CASE tls[d] # c /\ tls[d] # NoCache
      <4>1. tls[d] \in structs /\ cache'[tls[d]] = cache[tls[d]]
        BY <1>16, <1>20, <3>1, <3>3 DEF RefsSound
      <4> QED BY <3>1, <3>3, <4>1 DEF RefsSound
    <3> QED BY <3>2, <3>3
  <2>4. RefsSound(d) /\ at[d].pc \notin Exiting
    BY <1>1, <1>2 DEF Exiting
  <2>5. RefsSound(d)'
    BY <1>14, <2>2, <2>3, <2>4 DEF RefsSound
  <2> QED BY <2>1, <2>5
<1>24. ASSUME NEW q \in Pools PROVE PoolListSound(q)'
  <2>1. CASE q = p
    BY <1>5, <1>14, <2>1 DEF PoolListSound, IsInjective
  <2>2. CASE q # p
    <3>1. \A e \in structs : (e \in structs' /\ cache'[e].pool = cache[e].pool) \/ cache[e].pool # q
      BY <1>7, <1>14, <1>16, <1>20, <2>2
    <3> QED BY <1>1, <1>14, <3>1, PoolListKept
  <2> QED BY <2>1, <2>2
<1>25. ASSUME NEW u \in Users PROVE HandListSound(u)'
  <2>1. CASE u = d
    <3>1. at'[u].list = l /\ at'[u].pc = "release" /\ at'[u].pool = p /\ pool'[p].list = <<>>
      BY <1>5, <1>12, <1>14, <1>15, <2>1
    <3>2. \A i \in DOMAIN l : i > 1 => l[i] \in structs' /\ cache'[l[i]].pool = p
      BY <1>5, <1>6, <1>14, <1>16, <1>20
    <3>3. cache'[Head(l)].pool = NoPool /\ cache'[Head(l)].lock = d
      BY <1>4, <1>9, <1>16
    <3> QED BY <1>5, <2>1, <3>1, <3>2, <3>3 DEF HandListSound
  <2>2. CASE u # d
    <3>1. at'[u] = at[u] /\ at[u].pool # p
      BY <1>5, <1>15, <2>2
    <3>2. \A e \in structs : \/ e \in structs' /\ cache'[e].pool = cache[e].pool
                             \/ cache[e].pool \in {NoPool} \cup (Pools \ {at[u].pool})
      BY <1>5, <1>7, <1>14, <1>16, <1>20, <3>1
    <3>3. \A e \in structs : /\ cache[e].pool = NoPool => cache'[e].pool = NoPool
                             /\ cache[e].lock = u => cache'[e].lock = u
                             /\ cache[e].exited => cache'[e].exited
      BY <1>7, <1>9, <1>16, <1>20 DEF PoolConstants
    <3>4. \A e \in structs' \ structs : \A i \in DOMAIN at[u].list : at[u].list[i] # e
      BY <1>14
    <3> QED BY <1>14, <3>1, <3>2, <3>3, <3>4, HandListKept
  <2> QED BY <2>1, <2>2
<1>26. ASSUME NEW e \in structs' PROVE CacheSound(e)'
  <2>1. e \in structs /\ CacheSound(e)
    BY <1>1, <1>14
  <2>2. CASE e = c
    <3>1. at'[d].pc = "release" /\ Head(at'[d].list) = c
      BY <1>4, <1>12, <1>15
    <3> QED BY <1>9, <1>16, <2>2, <3>1 DEF CacheSound
  <2>3. CASE e # c
    <3>1. cache'[e] = cache[e]
      BY <1>16, <1>20, <2>1, <2>3
    <3>2. cache[e].pool # NoPool => pool'[cache[e].pool].list = pool[cache[e].pool].list
      BY <1>14
    <3>3. at'[d].pc \in Listing /\ at[d].pc \notin Exiting /\ at[d].pc \notin {"release", "dispose"}
      BY <1>2, <1>12, <1>15 DEF Listing, Exiting
    <3>4. \A u \in Users :
            \/ at'[u] = at[u]
            \/ /\ at[u].pc \in Listing =>
                    /\ at'[u].pool = at[u].pool
                    /\ \A i \in DOMAIN at[u].list : at[u].list[i] = e =>
                         /\ at'[u].pc \in Listing
                         /\ \E j \in DOMAIN at'[u].list : at'[u].list[j] = e
               /\ at[u].pc \in Exiting => at'[u].pc \in Exiting /\ at'[u].c = at[u].c
               /\ at[u].pc = "release" \/ (at[u].pc = "dispose" /\ at[u].flag) => Head(at[u].list) # e
      BY <1>15, <1>19, <3>3
    <3>5. cache[e].cleaned_up => cache[e].bufs = <<>>
      BY <2>1 DEF CacheSound
    <3> QED BY <2>1, <3>1, <3>2, <3>4, <3>5, CacheStays
  <2> QED BY <2>2, <2>3
<1> QED BY <1>17, <1>21, <1>22, <1>23, <1>24, <1>25, <1>26 DEF StructsInv

-----------------------------------------------------------------------------
\* It releases the mutex of the cache: the structs.
LEMMA ReleaseCacheStruct ==
  ASSUME PoolConstants, StructsInv, NEW d \in Users, ReleaseCache(d)
  PROVE  StructsInv'
<1>1. /\ PoolTypes
      /\ \A u \in Users : HandSound(u) /\ WorkSound(u) /\ RefsSound(u) /\ HandListSound(u)
      /\ \A q \in Pools : PoolListSound(q)
      /\ \A c \in structs : CacheSound(c)
  BY Everybody
<1>0. PICK p : p = at[d].pool
  OBVIOUS
<1>2. at[d].pc = "release" /\ at[d].pc \in Listing
  BY DEF ReleaseCache, Listing
<1>3. PICK l : l = at[d].list
  OBVIOUS
<1>4. PICK c : c = Head(l)
  OBVIOUS
<1>5. /\ at[d] \in Locals /\ l \in Seq(CacheIds) /\ l # <<>> /\ IsInjective(l) /\ p \in Pools
      /\ pool[p].stage = "closing" /\ pool[p].list = <<>> /\ at[d].old = NoPool /\ at[d].c = NoCache /\ at[d].buf = NoBuf
      /\ \A u \in Users : at[u].pool = p => u = d
      /\ \A i \in DOMAIN l : i > 1 => l[i] \in structs /\ cache[l[i]].pool = p
      /\ at[d].pc \notin Calling \cup Exiting
  BY <1>0, <1>2, <1>3, Taking
<1>6. c = l[1] /\ 1 \in DOMAIN l /\ c \in CacheIds
  BY <1>4, <1>5, ListIs
<1>7. cache[c] \in Caches /\ (c \in structs => cache[c].pool = NoPool /\ cache[c].lock = d)
  BY <1>1, <1>2, <1>3, <1>4, <1>6 DEF PoolTypes, HandListSound
<1>8. PICK k : k = IF cache[c].lock = d THEN NoUser ELSE cache[c].lock
  OBVIOUS
<1>9. PICK r : r = [cache[c] EXCEPT !.lock = k]
  OBVIOUS
<1>10. /\ r \in Caches /\ r.bufs = cache[c].bufs /\ r.cleaned_up = cache[c].cleaned_up /\ r.pool = cache[c].pool
       /\ r.owner = cache[c].owner /\ r.exited = cache[c].exited /\ r.lock = k
  <2>1. k \in Users \cup {NoUser}
    BY <1>7, <1>8 DEF Caches
  <2> QED BY <1>7, <1>9, <2>1 DEF Caches
<1>11. cache' = [cache EXCEPT ![c] = r]
  BY <1>1, <1>3, <1>4, <1>6, <1>8, <1>9 DEF ReleaseCache, PoolTypes
<1>12. PICK a : a = [at[d] EXCEPT !.pc = "dispose", !.flag = cache[c].exited]
  OBVIOUS
<1>13. /\ a \in Locals /\ a.pc = "dispose" /\ a.pool = p /\ a.list = l /\ a.old = NoPool /\ a.c = NoCache /\ a.buf = NoBuf
       /\ a.flag = cache[c].exited
  <2>1. "dispose" \in PCs /\ cache[c].exited \in BOOLEAN
    BY <1>7, PcType DEF Caches
  <2>2. /\ a \in Locals /\ a.pc = "dispose" /\ a.pool = at[d].pool /\ a.list = at[d].list /\ a.old = at[d].old
        /\ a.c = at[d].c /\ a.buf = at[d].buf /\ a.flag = cache[c].exited
    BY <1>5, <1>12, <2>1, PcType
  <2> QED BY <1>0, <1>3, <1>5, <2>2
<1>14. at' = [at EXCEPT ![d] = a]
  BY <1>1, <1>3, <1>4, <1>12 DEF ReleaseCache, PoolTypes
<1>15. UNCHANGED <<pool, bucket, structs, live, held, tls, key>>
  BY DEF ReleaseCache
<1>16. at' \in [Users -> Locals] /\ at'[d] = a /\ \A u \in Users \ {d} : at'[u] = at[u]
  BY <1>1, <1>13, <1>14, ThreadMoves
<1>17. cache' \in [CacheIds -> Caches] /\ cache'[c] = r /\ \A e \in CacheIds \ {c} : cache'[e] = cache[e] /\ SameState(e)
  BY <1>1, <1>6, <1>10, <1>11, CacheBecomes
<1>18. PoolTypes'
  BY <1>1, <1>15, <1>16, <1>17 DEF PoolTypes
<1>19. \A u \in Users : at'[u].pool = at[u].pool /\ at'[u].list = at[u].list
  BY <1>0, <1>3, <1>13, <1>16
<1>20. \A e \in structs : /\ e \in CacheIds /\ cache'[e].pool = cache[e].pool /\ cache'[e].owner = cache[e].owner
                          /\ cache'[e].exited = cache[e].exited /\ cache'[e].cleaned_up = cache[e].cleaned_up
                          /\ cache'[e].bufs = cache[e].bufs
  BY <1>1, <1>10, <1>17 DEF PoolTypes
<1>21. ASSUME NEW u \in Users PROVE HandSound(u)'
  <2>1. CASE u = d
    <3>1. \A v \in Users : at'[v].pool = p => v = d
      BY <1>5, <1>19
    <3> QED BY <1>5, <1>13, <1>15, <1>16, <2>1, <3>1 DEF HandSound, Calling, Exiting, Destroying, Listing
  <2>2. CASE u # d
    <3>1. at'[u] = at[u] /\ HandSound(u)
      BY <1>1, <1>16, <2>2
    <3> QED BY <1>15, <1>19, <3>1, HandKept
  <2> QED BY <2>1, <2>2
<1>22. ASSUME NEW u \in Users \ {d} PROVE RefsSound(u)' /\ WorkSound(u)'
  <2>1. at'[u] = at[u] /\ tls'[u] = tls[u] /\ key'[u] = key[u] /\ structs' = structs
    BY <1>15, <1>16
  <2>2. CASE c \in structs
    <3>1. OwnChange(d, c)
      BY <1>7, <1>10, <1>17, <2>2 DEF OwnChange, PoolConstants
    <3>2. WorkSound(u)'
      BY <1>17, <1>18, <2>1, <3>1, WorkKept
    <3>3. RefsSound(u)'
      BY <1>17, <1>18, <2>1, <2>2, <3>1, RefsKept
    <3> QED BY <3>2, <3>3
  <2>3. CASE c \notin structs
    <3>1. \A e \in structs : SameState(e)
      BY <1>17, <1>20, <2>3
    <3> QED BY <2>1, <3>1, WorkSame, RefsSame
  <2> QED BY <2>2, <2>3
<1>23. RefsSound(d)' /\ WorkSound(d)'
  <2>1. WorkSound(d)'
    BY <1>13, <1>16 DEF WorkSound, Exiting
  <2>2. RefsSound(d) /\ at[d].pc \notin {"switch_unlock", "switch_leave"} \cup Exiting
    BY <1>1, <1>2 DEF Exiting
  <2>5. RefsSound(d)'
    BY <1>15, <1>20, <2>2 DEF RefsSound
  <2> QED BY <2>1, <2>5
<1>24. ASSUME NEW q \in Pools PROVE PoolListSound(q)'
  BY <1>1, <1>15, <1>20, PoolListKept
<1>a. c \in structs /\ cache[c].exited => \A t \in Users : key[t] # c
  <2> SUFFICES ASSUME c \in structs, cache[c].exited, NEW t \in Users, key[t] = c PROVE FALSE
    OBVIOUS
  <2>1. c # NoCache /\ RefsSound(t) /\ WorkSound(t)
    BY <1>1, <1>6 DEF PoolConstants
  <2>2. tls[t] # c
    BY <2>1 DEF RefsSound
  <2>3. at[t].pc \in Exiting
    BY <2>1, <2>2 DEF RefsSound
  <2>4. cache[c].lock = t
    BY <2>1, <2>3 DEF WorkSound
  <2>5. t = d
    BY <1>7, <2>4
  <2> QED BY <1>2, <2>3, <2>5 DEF Exiting
<1>25. ASSUME NEW u \in Users PROVE HandListSound(u)'
  <2>1. CASE u = d
    <3>1. at'[u].list = l /\ at'[u].pc = "dispose" /\ at'[u].pool = p /\ pool'[p].list = <<>> /\ at'[u].flag = cache[c].exited
      BY <1>5, <1>13, <1>15, <1>16, <2>1
    <3>2. \A i \in DOMAIN l : i > 1 => l[i] \in structs' /\ cache'[l[i]].pool = p
      BY <1>5, <1>15, <1>20
    <3>3. c \in structs' => cache'[Head(l)].pool = NoPool /\ cache'[Head(l)].exited = cache[c].exited
      BY <1>4, <1>7, <1>15, <1>20
    <3>4. c \in structs' /\ cache[c].exited => \A t \in Users : key'[t] # Head(l)
      BY <1>4, <1>15, <1>a
    <3> QED BY <1>4, <1>5, <2>1, <3>1, <3>2, <3>3, <3>4 DEF HandListSound
  <2>2. CASE u # d
    <3>1. at'[u] = at[u]
      BY <1>16, <2>2
    <3>3. \A e \in structs : cache[e].lock = u => cache'[e].lock = u
      BY <1>7, <1>17, <1>20, <2>2 DEF SameState
    <3>4. \A e \in structs' \ structs : \A i \in DOMAIN at[u].list : at[u].list[i] # e
      BY <1>15
    <3> QED BY <1>15, <1>20, <3>1, <3>3, <3>4, HandListKept
  <2> QED BY <2>1, <2>2
<1>26. ASSUME NEW e \in structs' PROVE CacheSound(e)'
  <2>1. e \in structs /\ CacheSound(e)
    BY <1>1, <1>15
  <2>3. /\ at'[d].pc = "dispose" /\ at'[d].pc \in Listing /\ at[d].pc \notin Exiting
        /\ at'[d].flag = cache[c].exited /\ Head(at'[d].list) = c /\ Head(at[d].list) = c
    BY <1>2, <1>3, <1>4, <1>13, <1>16 DEF Listing, Exiting
  <2>4. ASSUME cache[e].pool # NoPool
        PROVE  \/ \E i \in DOMAIN pool'[cache[e].pool].list : pool'[cache[e].pool].list[i] = e
               \/ \E f \in Users : /\ at'[f].pool = cache[e].pool /\ at'[f].pc \in Listing
                                  /\ \E i \in DOMAIN at'[f].list : at'[f].list[i] = e
    <3>1. \A f \in Users : at[f].pc \in Listing => at'[f].pc \in Listing
      BY <1>16, <2>3
    <3> QED BY <1>15, <1>19, <2>1, <2>4, <3>1 DEF CacheSound
  <2>5. ASSUME cache[e].exited, cache[e].pool = NoPool
        PROVE  \/ \E t \in Users : at'[t].pc \in Exiting /\ at'[t].c = e
               \/ \E f \in Users : /\ at'[f].pc = "release" \/ (at'[f].pc = "dispose" /\ at'[f].flag)
                                  /\ Head(at'[f].list) = e
    <3>1. CASE \E t \in Users : at[t].pc \in Exiting /\ at[t].c = e
      BY <1>16, <2>3, <3>1
    <3>2. CASE \E f \in Users : /\ at[f].pc = "release" \/ (at[f].pc = "dispose" /\ at[f].flag)
                               /\ Head(at[f].list) = e
      <4>1. PICK f \in Users : /\ at[f].pc = "release" \/ (at[f].pc = "dispose" /\ at[f].flag)
                               /\ Head(at[f].list) = e
        BY <3>2
      <4>2. CASE f = d
        BY <2>3, <2>5, <4>1, <4>2
      <4>3. CASE f # d
        BY <1>16, <4>1, <4>3
      <4> QED BY <4>2, <4>3
    <3> QED BY <2>1, <2>5, <3>1, <3>2 DEF CacheSound
  <2> QED BY <1>20, <2>1, <2>4, <2>5 DEF CacheSound
<1> QED BY <1>18, <1>21, <1>22, <1>23, <1>24, <1>25, <1>26 DEF StructsInv

\* It frees the struct or leaves it: the structs.
LEMMA DisposeCacheStruct ==
  ASSUME PoolConstants, StructsInv, NEW d \in Users, DisposeCache(d)
  PROVE  StructsInv'
<1>1. /\ PoolTypes
      /\ \A u \in Users : HandSound(u) /\ WorkSound(u) /\ RefsSound(u) /\ HandListSound(u)
      /\ \A q \in Pools : PoolListSound(q)
      /\ \A c \in structs : CacheSound(c)
  BY Everybody
<1>0. PICK p : p = at[d].pool
  OBVIOUS
<1>2. at[d].pc = "dispose" /\ at[d].pc \in Listing
  BY DEF DisposeCache, Listing
<1>3. PICK l : l = at[d].list
  OBVIOUS
<1>4. PICK c : c = Head(l)
  OBVIOUS
<1>m. PICK m : m = Tail(l)
  OBVIOUS
<1>5. /\ at[d] \in Locals /\ l \in Seq(CacheIds) /\ l # <<>> /\ IsInjective(l) /\ p \in Pools
      /\ pool[p].stage = "closing" /\ pool[p].list = <<>> /\ at[d].old = NoPool /\ at[d].c = NoCache /\ at[d].buf = NoBuf
      /\ \A u \in Users : at[u].pool = p => u = d
      /\ \A i \in DOMAIN l : i > 1 => l[i] \in structs /\ cache[l[i]].pool = p
      /\ at[d].pc \notin Calling \cup Exiting
  BY <1>0, <1>2, <1>3, Taking
<1>6. /\ c = l[1] /\ 1 \in DOMAIN l /\ c \in CacheIds /\ m \in Seq(CacheIds) /\ IsInjective(m)
      /\ \A i \in DOMAIN l : i > 1 => l[i] # c
      /\ \A i \in DOMAIN m : i + 1 \in DOMAIN l /\ i + 1 > 1 /\ m[i] = l[i + 1]
      /\ \A i \in DOMAIN l : l[i] # c => i - 1 \in DOMAIN m /\ m[i - 1] = l[i]
  BY <1>4, <1>5, <1>m, ListIs
<1>7. /\ c \in structs => cache[c].pool = NoPool
      /\ c \in structs /\ at[d].flag => cache[c].exited /\ \A t \in Users : key[t] # c
  BY <1>1, <1>2, <1>3, <1>4 DEF HandListSound
<1>8. PICK x : x = IF m = <<>> THEN "detach" ELSE "take"
  OBVIOUS
<1>9. PICK a : a = [at[d] EXCEPT !.list = m, !.flag = FALSE, !.pc = x]
  OBVIOUS
<1>10. /\ a \in Locals /\ a.pc = x /\ a.pool = p /\ a.list = m /\ a.old = NoPool /\ a.c = NoCache /\ a.buf = NoBuf
  <2>1. x \in PCs
    BY <1>8, PcType
  <2>2. /\ a \in Locals /\ a.pc = x /\ a.pool = at[d].pool /\ a.list = m /\ a.old = at[d].old
        /\ a.c = at[d].c /\ a.buf = at[d].buf
    BY <1>5, <1>6, <1>9, <2>1, PcType
  <2> QED BY <1>0, <1>5, <2>2
<1>11. at' = [at EXCEPT ![d] = a]
  BY <1>1, <1>3, <1>m, <1>8, <1>9 DEF DisposeCache, PoolTypes
<1>12. /\ UNCHANGED <<pool, bucket, cache, live, held>>
       /\ tls' = IF cache[c].owner = d /\ tls[d] = c THEN [tls EXCEPT ![d] = NoCache] ELSE tls
       /\ key' = IF cache[c].owner = d THEN [key EXCEPT ![d] = NoCache] ELSE key
       /\ structs' = IF cache[c].owner = d \/ at[d].flag THEN structs \ {c} ELSE structs
  BY <1>3, <1>4 DEF DisposeCache
<1>13. at' \in [Users -> Locals] /\ at'[d] = a /\ \A u \in Users \ {d} : at'[u] = at[u]
  BY <1>1, <1>10, <1>11, ThreadMoves
<1>14. /\ tls' \in [Users -> CacheIds \cup {NoCache}] /\ key' \in [Users -> CacheIds \cup {NoCache}]
       /\ \A u \in Users \ {d} : tls'[u] = tls[u] /\ key'[u] = key[u]
       /\ tls'[d] = IF cache[c].owner = d /\ tls[d] = c THEN NoCache ELSE tls[d]
       /\ key'[d] = IF cache[c].owner = d THEN NoCache ELSE key[d]
  BY <1>1, <1>12 DEF PoolTypes
<1>15. structs' \subseteq structs /\ structs' \subseteq CacheIds
  BY <1>1, <1>12 DEF PoolTypes
<1>16. PoolTypes'
  BY <1>1, <1>12, <1>13, <1>14, <1>15 DEF PoolTypes
<1>17. \A e \in structs : SameState(e) /\ e \in CacheIds
  BY <1>1, <1>12 DEF SameState, PoolTypes
<1>18. \A e \in structs : e \in structs' \/ (e = c /\ cache[e].pool = NoPool)
  BY <1>7, <1>12
<1>19. \A u \in Users : at'[u].pool = at[u].pool
  BY <1>0, <1>10, <1>13
<1>20. x \in {"detach", "take"} /\ (x = "take" <=> m # <<>>)
  BY <1>8
<1>21. ASSUME NEW u \in Users PROVE HandSound(u)'
  <2>1. CASE u = d
    <3>1. \A v \in Users : at'[v].pool = p => v = d
      BY <1>5, <1>19
    <3> QED BY <1>5, <1>10, <1>12, <1>13, <1>20, <2>1, <3>1 DEF HandSound, Calling, Exiting, Destroying, Listing
  <2>2. CASE u # d
    <3>1. at'[u] = at[u] /\ HandSound(u)
      BY <1>1, <1>13, <2>2
    <3> QED BY <1>12, <1>19, <3>1, HandKept
  <2> QED BY <2>1, <2>2
<1>22. ASSUME NEW u \in Users \ {d} PROVE RefsSound(u)' /\ WorkSound(u)'
  <2>1. at'[u] = at[u] /\ tls'[u] = tls[u] /\ key'[u] = key[u]
    BY <1>13, <1>14
  <2>2. WorkSound(u)'
    BY <1>17, <2>1, WorkSame
  <2>3. c \in structs' \/ c \notin structs \/ (tls[u] # c /\ key[u] # c)
    <3> SUFFICES ASSUME c \in structs, c \notin structs' PROVE tls[u] # c /\ key[u] # c
      OBVIOUS
    <3>1. RefsSound(u) /\ c # NoCache
      BY <1>1, <1>6 DEF PoolConstants
    <3>2. CASE cache[c].owner = d
      BY <3>1, <3>2 DEF RefsSound
    <3>3. CASE at[d].flag
      BY <1>7, <3>1, <3>3 DEF RefsSound
    <3> QED BY <1>12, <3>2, <3>3
  <2>4. \A e \in structs : e \in structs' \/ (tls[u] # e /\ key[u] # e)
    BY <1>18, <2>3
  <2>5. RefsSound(u)'
    BY <1>17, <2>1, <2>4, RefsSame
  <2> QED BY <2>2, <2>5
<1>23. RefsSound(d)' /\ WorkSound(d)'
  <2>1. at[d].pc \notin Calling \cup Exiting /\ at'[d].pc \notin Calling \cup Exiting
    BY <1>5, <1>10, <1>13, <1>20 DEF Calling, Exiting
  <2>0. RefsSound(d) /\ c # NoCache
    BY <1>1, <1>6 DEF PoolConstants
  <2>2. c \in structs' \/ c \notin structs \/ (tls'[d] # c /\ key'[d] # c)
    <3> SUFFICES ASSUME c \in structs, c \notin structs' PROVE tls'[d] # c /\ key'[d] # c
      OBVIOUS
    <3>2. CASE cache[c].owner = d
      BY <1>14, <2>0, <3>2
    <3>3. CASE cache[c].owner # d
      BY <1>14, <2>0, <3>3 DEF RefsSound
    <3> QED BY <3>2, <3>3
  <2>3. \A e \in structs : e \in structs' \/ (tls'[d] # e /\ key'[d] # e)
    BY <1>18, <2>2
  <2>4. /\ tls'[d] \in {tls[d], NoCache} /\ key'[d] \in {key[d], NoCache}
        /\ tls'[d] = NoCache => tls[d] = NoCache \/ key'[d] = NoCache
    BY <1>14
  <2> QED BY <1>17, <2>1, <2>3, <2>4, DestroyerRefs
<1>24. ASSUME NEW q \in Pools PROVE PoolListSound(q)'
  <2>1. \A e \in structs : (e \in structs' /\ cache'[e].pool = cache[e].pool) \/ cache[e].pool # q
    BY <1>12, <1>18 DEF PoolConstants
  <2> QED BY <1>1, <1>12, <2>1, PoolListKept
<1>25. ASSUME NEW u \in Users PROVE HandListSound(u)'
  <2>1. CASE u = d
    <3>1. at'[u].list = m /\ at'[u].pc \in {"detach", "take"} /\ at'[u].pool = p /\ pool'[p].list = <<>>
      BY <1>5, <1>10, <1>12, <1>13, <1>20, <2>1
    <3>2. \A i \in DOMAIN m : m[i] \in structs /\ cache[m[i]].pool = p /\ m[i] # c
      BY <1>5, <1>6
    <3>3. \A i \in DOMAIN m : m[i] \in structs' /\ cache'[m[i]].pool = p
      BY <1>12, <1>18, <3>2
    <3> QED BY <1>6, <3>1, <3>3 DEF HandListSound
  <2>2. CASE u # d
    <3>1. at'[u] = at[u]
      BY <1>13, <2>2
    <3>2. \A e \in structs : \/ e \in structs' /\ cache'[e].pool = cache[e].pool
                             \/ cache[e].pool \in {NoPool} \cup (Pools \ {at[u].pool})
      BY <1>12, <1>18
    <3>4. \A e \in structs' \ structs : \A i \in DOMAIN at[u].list : at[u].list[i] # e
      BY <1>15
    <3>5. \A v \in Users, e \in structs : key'[v] = e => key[v] = e
      BY <1>14, <1>17 DEF PoolConstants
    <3> QED BY <1>12, <3>1, <3>2, <3>4, <3>5, HandListKept
  <2> QED BY <2>1, <2>2
<1>26. ASSUME NEW e \in structs' PROVE CacheSound(e)'
  <2>1. e \in structs /\ CacheSound(e)
    BY <1>1, <1>15
  <2>2. cache'[e] = cache[e] /\ (cache[e].pool # NoPool => pool'[cache[e].pool].list = pool[cache[e].pool].list)
    BY <1>12
  <2>3. at[d].pc \notin Exiting /\ at[d].pc # "release" /\ Head(at[d].list) = c
    BY <1>2, <1>3, <1>4 DEF Exiting
  <2>4. at[d].flag => e # c
    BY <1>12
  <2>5. cache[e].pool # NoPool => e # c
    BY <1>7, <2>1
  <2>6. CASE cache[e].pool = NoPool
    <3>1. ASSUME cache[e].exited
          PROVE  \/ \E t \in Users : at'[t].pc \in Exiting /\ at'[t].c = e
                 \/ \E f \in Users : /\ at'[f].pc = "release" \/ (at'[f].pc = "dispose" /\ at'[f].flag)
                                    /\ Head(at'[f].list) = e
      <4>1. CASE \E t \in Users : at[t].pc \in Exiting /\ at[t].c = e
        BY <1>13, <2>3, <4>1
      <4>2. CASE \E f \in Users : /\ at[f].pc = "release" \/ (at[f].pc = "dispose" /\ at[f].flag)
                                 /\ Head(at[f].list) = e
        <5>1. PICK f \in Users : /\ at[f].pc = "release" \/ (at[f].pc = "dispose" /\ at[f].flag)
                                 /\ Head(at[f].list) = e
          BY <4>2
        <5>2. f # d
          BY <2>3, <2>4, <5>1
        <5> QED BY <1>13, <5>1, <5>2
      <4> QED BY <2>1, <2>6, <3>1, <4>1, <4>2 DEF CacheSound
    <3> QED BY <2>1, <2>2, <2>6, <3>1 DEF CacheSound
  <2>7. CASE cache[e].pool # NoPool
    <3>1. \/ \E i \in DOMAIN pool'[cache[e].pool].list : pool'[cache[e].pool].list[i] = e
          \/ \E f \in Users : /\ at'[f].pool = cache[e].pool /\ at'[f].pc \in Listing
                             /\ \E i \in DOMAIN at'[f].list : at'[f].list[i] = e
      <4>1. CASE \E i \in DOMAIN pool[cache[e].pool].list : pool[cache[e].pool].list[i] = e
        BY <2>2, <2>7, <4>1
      <4>2. CASE \E f \in Users : /\ at[f].pool = cache[e].pool /\ at[f].pc \in Listing
                                 /\ \E i \in DOMAIN at[f].list : at[f].list[i] = e
        <5>1. PICK f \in Users : /\ at[f].pool = cache[e].pool /\ at[f].pc \in Listing
                                 /\ \E i \in DOMAIN at[f].list : at[f].list[i] = e
          BY <4>2
        <5>2. CASE f # d
          BY <1>13, <5>1, <5>2
        <5>3. CASE f = d
          <6>1. PICK i \in DOMAIN l : l[i] = e
            BY <1>3, <5>1, <5>3
          <6>2. i - 1 \in DOMAIN m /\ m[i - 1] = e
            BY <1>6, <2>5, <2>7, <6>1
          <6>3. m # <<>>
            BY <6>2
          <6>4. at'[d].pool = cache[e].pool /\ at'[d].pc \in Listing /\ at'[d].list = m
            BY <1>0, <1>10, <1>13, <1>20, <5>1, <5>3, <6>3 DEF Listing
          <6> QED BY <6>2, <6>4
        <5> QED BY <5>2, <5>3
      <4> QED BY <2>1, <2>7, <4>1, <4>2 DEF CacheSound
    <3> QED BY <2>1, <2>2, <2>7, <3>1 DEF CacheSound
  <2> QED BY <2>6, <2>7
<1> QED BY <1>16, <1>21, <1>22, <1>23, <1>24, <1>25, <1>26 DEF StructsInv
=============================================================================
