---------------------------- MODULE MemoryProofs ----------------------------
(***************************************************************************)
(* Who owns which memory, for every value of the constants: the map from   *)
(* buffers to size classes, which implements SizeTable, the contexts,      *)
(* callbacks and buffers of the C++ interface, and the futures of the Rust *)
(* interface.                                                              *)
(***************************************************************************)
EXTENDS BufSizeMap, FiniteSetTheorems, WellFoundedInduction, TLAPS

-----------------------------------------------------------------------------
(* Induction.  The library states it for an operator, which the provers    *)
(* cannot instantiate; a set in its place they can.                        *)

\* A set of naturals has a least element.
LEMMA LeastOf ==
  ASSUME NEW T, T \subseteq Nat, T # {}
  PROVE  \E x \in T : \A y \in T : x <= y
<1> DEFINE I == {0 .. n : n \in T}
           R == StrictSubsetOrdering(Nat)
<1>1. I \subseteq FiniteSubsetsOf(Nat)
  <2> SUFFICES ASSUME NEW n \in T PROVE 0 .. n \in FiniteSubsetsOf(Nat)
    OBVIOUS
  <2>1. IsFiniteSet(0 .. n)
    BY FS_Interval
  <2> QED BY <2>1 DEF FiniteSubsetsOf
<1>2. IsWellFoundedOn(R, FiniteSubsetsOf(Nat))
  BY FS_StrictSubsetOrderingWellFounded
<1>3. I # {}
  OBVIOUS
<1>4. PICK z \in I : \A y \in I : ~(<<y, z>> \in R)
  <2> HIDE DEF I, R
  <2> QED BY <1>1, <1>2, <1>3, WFMin
<1>5. PICK x \in T : z = 0 .. x
  OBVIOUS
<1>6. ASSUME NEW y \in T, y < x PROVE FALSE
  <2>1. 0 .. y \in I /\ 0 .. y \subseteq 0 .. x /\ 0 .. y # 0 .. x
    BY <1>6
  <2>2. <<0 .. y, z>> \in R
    BY <1>5, <2>1 DEF StrictSubsetOrdering
  <2> QED BY <1>4, <2>1, <2>2
<1> QED BY <1>6

\* Induction over the naturals, with a set in place of a predicate.
LEMMA SetInduction ==
  ASSUME NEW T, 0 \in T, \A n \in Nat : n \in T => n + 1 \in T
  PROVE  Nat \subseteq T
<1> SUFFICES ASSUME Nat \ T # {} PROVE FALSE
  OBVIOUS
<1>1. PICK x \in Nat \ T : \A y \in Nat \ T : x <= y
  <2> DEFINE U == Nat \ T
  <2>1. U \subseteq Nat /\ U # {}
    OBVIOUS
  <2> HIDE DEF U
  <2>2. \E x \in U : \A y \in U : x <= y
    BY <2>1, LeastOf
  <2> QED BY <2>2 DEF U
<1> QED BY <1>1

\* A function given by its first value and by how each follows from the last.
Iteration(f, S, base, N, D) ==
  f \in [0 .. N -> S] /\ f[0] = base /\ \A n \in 1 .. N : f[n] = D[n][f[n - 1]]

\* Such a function exists, whatever the steps.
LEMMA Iterates ==
  ASSUME NEW S, NEW base, NEW N, NEW D, base \in S, N \in Nat, D \in [1 .. N -> [S -> S]]
  PROVE  \E f : Iteration(f, S, base, N, D)
<1> DEFINE Good(m) == \E f \in [0 .. m -> S] :
                         f[0] = base /\ \A n \in 1 .. m : f[n] = D[n][f[n - 1]]
           T == {m \in Nat : m <= N => Good(m)}
<1>1. 0 \in T
  <2> DEFINE f == [n \in 0 .. 0 |-> base]
  <2>1. f \in [0 .. 0 -> S] /\ f[0] = base /\ \A n \in 1 .. 0 : f[n] = D[n][f[n - 1]]
    OBVIOUS
  <2> QED BY <2>1
<1>2. ASSUME NEW m \in Nat, m \in T PROVE m + 1 \in T
  <2> SUFFICES ASSUME m + 1 <= N PROVE Good(m + 1)
    OBVIOUS
  <2>1. PICK f \in [0 .. m -> S] : f[0] = base /\ \A n \in 1 .. m : f[n] = D[n][f[n - 1]]
    BY <1>2
  <2>2. f[m] \in S /\ m + 1 \in 1 .. N /\ D[m + 1][f[m]] \in S
    BY <2>1
  <2> DEFINE g == [n \in 0 .. m + 1 |-> IF n <= m THEN f[n] ELSE D[m + 1][f[m]]]
  <2>3. /\ g \in [0 .. m + 1 -> S] /\ \A n \in 0 .. m : g[n] = f[n]
        /\ g[m + 1] = D[m + 1][f[m]]
    BY <2>1, <2>2
  <2> HIDE DEF g
  <2>4. \A n \in 1 .. m + 1 : g[n] = D[n][g[n - 1]]
    <3> SUFFICES ASSUME NEW n \in 1 .. m + 1 PROVE g[n] = D[n][g[n - 1]]
      OBVIOUS
    <3>1. CASE n = m + 1
      <4>1. n - 1 = m /\ m \in 0 .. m
        BY <3>1
      <4> QED BY <2>3, <3>1, <4>1
    <3>2. CASE n # m + 1
      <4>1. n \in 1 .. m /\ n \in 0 .. m /\ n - 1 \in 0 .. m
        BY <3>2
      <4> QED BY <2>1, <2>3, <4>1
    <3> QED BY <3>1, <3>2
  <2>5. g[0] = base
    BY <2>1, <2>3
  <2> QED BY <2>3, <2>4, <2>5
<1> HIDE DEF T
<1>3. Nat \subseteq T
  BY <1>1, <1>2, SetInduction
<1>4. Good(N)
  BY <1>3 DEF T
<1> QED BY <1>4 DEF Iteration

-----------------------------------------------------------------------------
(* Arithmetic of the table.                                                *)

\* The distance around the table, without the modulus.
LEMMA GapIs ==
  ASSUME NEW cap \in Nat \ {0}, NEW i \in 0 .. cap - 1, NEW j \in 0 .. cap - 1
  PROVE  /\ Gap(i, j, cap) = IF j >= i THEN j - i ELSE j - i + cap
         /\ Gap(i, j, cap) \in 0 .. cap - 1
<1>1. CASE j >= i
  BY <1>1 DEF Gap
<1>2. CASE ~(j >= i)
  <2>1. j - i \in -cap .. -1
    BY <1>2
  <2>2. ASSUME NEW x \in -cap .. -1 PROVE x % cap = x + cap
    OBVIOUS
  <2> QED BY <1>2, <2>1, <2>2 DEF Gap
<1> QED BY <1>1, <1>2

\* It is less than the capacity.
LEMMA GapType ==
  ASSUME NEW cap \in Nat \ {0}, NEW i \in 0 .. cap - 1, NEW j \in 0 .. cap - 1
  PROVE  Gap(i, j, cap) \in 0 .. cap - 1
BY DEF Gap

\* An index past another, around the table.
LEMMA Around ==
  ASSUME NEW cap \in Nat \ {0}, NEW i \in 0 .. cap - 1, NEW d \in 0 .. cap
  PROVE  /\ (i + d) % cap = IF i + d < cap THEN i + d ELSE i + d - cap
         /\ (i + d) % cap \in 0 .. cap - 1
<1>1. ASSUME NEW x \in 0 .. cap - 1 PROVE x % cap = x
  OBVIOUS
<1>2. ASSUME NEW x \in cap .. 2 * cap - 1 PROVE x % cap = x - cap
  OBVIOUS
<1> QED BY <1>1, <1>2

\* The index d past i is at distance d.
LEMMA GapOf ==
  ASSUME NEW cap \in Nat \ {0}, NEW i \in 0 .. cap - 1, NEW d \in 0 .. cap - 1
  PROVE  Gap(i, (i + d) % cap, cap) = d
<1>1. PICK j : j = (i + d) % cap
  OBVIOUS
<1>2. j = (IF i + d < cap THEN i + d ELSE i + d - cap) /\ j \in 0 .. cap - 1
  <2>1. d \in 0 .. cap
    OBVIOUS
  <2> QED BY <1>1, <2>1, Around
<1>3. Gap(i, j, cap) = IF j >= i THEN j - i ELSE j - i + cap
  BY <1>2, GapIs
<1> QED BY <1>1, <1>2, <1>3

\* And the index at that distance is the one meant.
LEMMA AtGap ==
  ASSUME NEW cap \in Nat \ {0}, NEW i \in 0 .. cap - 1, NEW j \in 0 .. cap - 1
  PROVE  (i + Gap(i, j, cap)) % cap = j
<1>1. PICK d : d = Gap(i, j, cap)
  OBVIOUS
<1>2. d = (IF j >= i THEN j - i ELSE j - i + cap) /\ d \in 0 .. cap
  <2>1. Gap(i, j, cap) = IF j >= i THEN j - i ELSE j - i + cap
    BY GapIs
  <2> QED BY <1>1, <2>1
<1>3. (i + d) % cap = IF i + d < cap THEN i + d ELSE i + d - cap
  BY <1>2, Around
<1> QED BY <1>1, <1>2, <1>3

\* The capacity is read off the domain.
LEMMA TableSize ==
  ASSUME NEW cap \in Nat \ {0}, NEW tab, DOMAIN tab = 0 .. cap - 1
  PROVE  Cardinality(DOMAIN tab) = cap
<1>1. 0 \in Int /\ cap - 1 \in Int /\ ~(0 > cap - 1) /\ cap - 1 - 0 + 1 = cap
  OBVIOUS
<1> QED BY <1>1, FS_Interval

\* The natural index of a key is in the table.
LEMMA HomeIs ==
  ASSUME hash \in [Keys -> Nat], NEW k \in Keys, NEW cap \in Nat \ {0}
  PROVE  buf_map_hash(k, cap) \in 0 .. cap - 1
BY DEF buf_map_hash

\* What is in a table.
LEMMA EntryIs ==
  ASSUME MapConstants, NEW e \in Entries
  PROVE  /\ e.key = None => e = Free
         /\ e.key # None => /\ e.key \in Keys /\ e.class \in Classes
                            /\ e = [key |-> e.key, class |-> e.class]
BY DEF Entries, Free, MapConstants

-----------------------------------------------------------------------------
(* The probe.                                                              *)

\* The probe for k stops at the first index that is empty or holds k, or is
\* back where it began.
LEMMA ProbeIs ==
  ASSUME MapConstants, hash \in [Keys -> Nat], NEW k \in Keys, NEW cap \in Nat \ {0},
         NEW tab, DOMAIN tab = 0 .. cap - 1
  PROVE  LET h == buf_map_hash(k, cap)
             p == Probe(tab, k)
         IN  /\ p \in 0 .. cap - 1
             /\ tab[p].key \in {None, k} =>
                  \A m \in 0 .. cap - 1 : Gap(h, m, cap) < Gap(h, p, cap) =>
                    tab[m].key \notin {None, k}
             /\ tab[p].key \notin {None, k} =>
                  \A m \in 0 .. cap - 1 : tab[m].key \notin {None, k}
<1> DEFINE h == buf_map_hash(k, cap)
           hits == {d \in 0 .. cap - 1 : tab[(h + d) % cap].key \in {None, k}}
           p == Probe(tab, k)
<1>1. Cardinality(DOMAIN tab) = cap /\ h \in 0 .. cap - 1
  BY TableSize, HomeIs
<1>2. p = (h + (IF hits = {} THEN 0 ELSE Min(hits))) % cap
  BY <1>1 DEF Probe
<1>3. \A m \in 0 .. cap - 1 : tab[m].key \in {None, k} => Gap(h, m, cap) \in hits
  <2> SUFFICES ASSUME NEW m \in 0 .. cap - 1, tab[m].key \in {None, k}
               PROVE  Gap(h, m, cap) \in hits
    OBVIOUS
  <2>1. Gap(h, m, cap) \in 0 .. cap - 1 /\ (h + Gap(h, m, cap)) % cap = m
    BY <1>1, GapIs, AtGap
  <2> QED BY <2>1
<1>4. CASE hits = {}
  <2> HIDE DEF hits, h
  <2>1. p \in 0 .. cap - 1
    BY <1>1, <1>2, <1>4, Around
  <2> QED BY <1>3, <1>4, <2>1 DEF h
<1>5. CASE hits # {}
  <2>1. hits \subseteq Nat
    OBVIOUS
  <2>2. PICK d \in hits : \A y \in hits : d <= y
    <3> HIDE DEF hits
    <3> QED BY <1>5, <2>1, LeastOf
  <2>3. Min(hits) \in hits /\ \A y \in hits : Min(hits) <= y
    <3> HIDE DEF hits
    <3> QED BY <2>2 DEF Min
  <2>4. PICK x : x = Min(hits)
    OBVIOUS
  <2>5. x \in 0 .. cap - 1 /\ tab[(h + x) % cap].key \in {None, k} /\ \A y \in hits : x <= y
    BY <2>3, <2>4
  <2>6. p = (h + x) % cap
    BY <1>2, <1>5, <2>4
  <2> HIDE DEF hits, h, p
  <2>7. p \in 0 .. cap - 1 /\ Gap(h, p, cap) = x
    BY <1>1, <2>5, <2>6, Around, GapOf
  <2>8. ASSUME NEW m \in 0 .. cap - 1, Gap(h, m, cap) < x, tab[m].key \in {None, k} PROVE FALSE
    <3>1. Gap(h, m, cap) \in hits
      BY <1>3, <2>8
    <3>2. Gap(h, m, cap) \in 0 .. cap - 1
      BY <1>1, GapType
    <3>3. x <= Gap(h, m, cap)
      BY <2>5, <3>1
    <3> QED BY <2>5, <2>8, <3>2, <3>3
  <2> QED BY <2>5, <2>6, <2>7, <2>8 DEF h, p
<1> QED BY <1>4, <1>5

\* A key that is there is found, and it is there once.
LEMMA ProbeFinds ==
  ASSUME MapConstants, hash \in [Keys -> Nat], NEW cap \in Nat \ {0}, NEW tab,
         TableSound(tab, cap), NEW i \in 0 .. cap - 1, tab[i].key # None
  PROVE  Probe(tab, tab[i].key) = i
<1> DEFINE k == tab[i].key
           h == buf_map_hash(k, cap)
           p == Probe(tab, k)
<1>1. DOMAIN tab = 0 .. cap - 1 /\ tab[i] \in Entries
  BY DEF TableSound
<1>2. k \in Keys
  BY <1>1, EntryIs
<1>3. h \in 0 .. cap - 1
  BY <1>2, HomeIs
<1>4. /\ p \in 0 .. cap - 1
      /\ tab[p].key \in {None, k} =>
           \A m \in 0 .. cap - 1 : Gap(h, m, cap) < Gap(h, p, cap) => tab[m].key \notin {None, k}
      /\ tab[p].key \notin {None, k} =>
           \A m \in 0 .. cap - 1 : tab[m].key \notin {None, k}
  BY <1>1, <1>2, ProbeIs
<1>5. ~(Gap(h, p, cap) < Gap(h, i, cap))
  BY <1>4 DEF TableSound, Passes
<1>6. ~(Gap(h, i, cap) < Gap(h, p, cap))
  BY <1>4
<1> HIDE DEF h, p
<1>7. Gap(h, p, cap) = Gap(h, i, cap)
  <2>1. Gap(h, p, cap) \in Int /\ Gap(h, i, cap) \in Int
    BY <1>3, <1>4, GapType
  <2> QED BY <1>5, <1>6, <2>1
<1>8. (h + Gap(h, p, cap)) % cap = p /\ (h + Gap(h, i, cap)) % cap = i
  BY <1>3, <1>4, AtGap
<1> QED BY <1>7, <1>8 DEF p

\* What a probe finds is what is stored, wherever it is.
LEMMA FoundIs ==
  ASSUME MapConstants, hash \in [Keys -> Nat], NEW cap \in Nat \ {0}, NEW tab,
         TableSound(tab, cap), NEW k \in Keys
  PROVE  /\ \A i \in 0 .. cap - 1 : tab[i].key = k => Found(tab, k) = tab[i].class
         /\ (\A i \in 0 .. cap - 1 : tab[i].key # k) => Found(tab, k) = None
<1>1. k # None
  BY DEF MapConstants
<1>2. Probe(tab, k) \in 0 .. cap - 1
  <2>1. DOMAIN tab = 0 .. cap - 1
    BY DEF TableSound
  <2> QED BY <2>1, ProbeIs
<1> QED BY <1>1, <1>2, ProbeFinds DEF Found

-----------------------------------------------------------------------------
(* Insertion and growth.                                                   *)

\* An entry is put where the probe for its key stopped.
LEMMA InsertKeeps ==
  ASSUME MapConstants, hash \in [Keys -> Nat], NEW cap \in Nat \ {0}, NEW tab,
         TableSound(tab, cap), NEW k \in Keys,
         NEW p, p = Probe(tab, k), tab[p].key \in {None, k},
         NEW new \in [0 .. cap - 1 -> Entries], new[p].key = k,
         \A i \in 0 .. cap - 1 : i # p => new[i] = tab[i]
  PROVE  TableSound(new, cap) /\ \A i \in 0 .. cap - 1 : i # p => tab[i].key # k
<1> DEFINE h == buf_map_hash(k, cap)
<1>1. tab \in [0 .. cap - 1 -> Entries] /\ DOMAIN tab = 0 .. cap - 1 /\ k # None
  BY DEF TableSound, MapConstants
<1>2. /\ p \in 0 .. cap - 1
      /\ \A m \in 0 .. cap - 1 : Gap(h, m, cap) < Gap(h, p, cap) => tab[m].key \notin {None, k}
  BY <1>1, ProbeIs
<1>h. h \in 0 .. cap - 1
  BY HomeIs
<1>g. ~(Gap(h, p, cap) < Gap(h, p, cap))
  <2>1. Gap(h, p, cap) \in 0 .. cap - 1
    BY <1>2, <1>h, GapType
  <2> QED BY <2>1
<1>4. /\ new \in [0 .. cap - 1 -> Entries] /\ new[p].key = k
      /\ \A i \in 0 .. cap - 1 : i # p => new[i] = tab[i]
  OBVIOUS
<1>5. \A i \in 0 .. cap - 1 : i # p => tab[i].key # k
  <2> SUFFICES ASSUME NEW i \in 0 .. cap - 1, tab[i].key = k PROVE i = p
    OBVIOUS
  <2>1. Probe(tab, tab[i].key) = i
    BY <1>1, ProbeFinds
  <2> QED BY <2>1
<1>6. ASSUME NEW j \in 0 .. cap - 1, j # p, NEW m \in 0 .. cap - 1
      PROVE  Passes(new, cap, j, m) = Passes(tab, cap, j, m)
  BY <1>4, <1>6 DEF Passes
<1>7. ASSUME NEW m \in 0 .. cap - 1
      PROVE  Passes(new, cap, p, m) = (Gap(h, m, cap) < Gap(h, p, cap))
  BY <1>4 DEF Passes
<1>8. ASSUME NEW j \in 0 .. cap - 1, NEW m \in 0 .. cap - 1, new[j].key # None,
             Passes(new, cap, j, m)
      PROVE  new[m].key \notin {None, new[j].key}
  <2>1. CASE j = p
    <3>1. m # p
      BY <1>7, <1>8, <1>g, <2>1
    <3> QED BY <1>2, <1>4, <1>7, <1>8, <2>1, <3>1
  <2>2. CASE j # p
    <3>1. Passes(tab, cap, j, m) /\ tab[j].key = new[j].key
      BY <1>4, <1>6, <1>8, <2>2
    <3>2. tab[m].key \notin {None, tab[j].key}
      BY <1>8, <3>1 DEF TableSound
    <3>3. CASE m = p
      BY <1>1, <1>4, <1>5, <2>2, <3>1, <3>2, <3>3
    <3>4. CASE m # p
      BY <1>4, <3>1, <3>2, <3>4
    <3> QED BY <3>3, <3>4
  <2> QED BY <2>1, <2>2
<1>9. \E w \in 0 .. cap - 1 : \A j \in 0 .. cap - 1 :
        new[j].key # None => ~Passes(new, cap, j, w)
  <2>1. CASE \E w \in 0 .. cap - 1 : new[w].key = None
    BY <1>8, <2>1
  <2>2. CASE tab[p].key = None
    <3>1. ~Passes(new, cap, p, p)
      BY <1>2, <1>7, <1>g
    <3>2. \A j \in 0 .. cap - 1 : new[j].key # None /\ j # p => ~Passes(tab, cap, j, p)
      BY <1>2, <1>4, <2>2 DEF TableSound
    <3> QED BY <1>2, <1>6, <3>1, <3>2
  <2>3. CASE tab[p].key = k
    <3>1. PICK w \in 0 .. cap - 1 : \A j \in 0 .. cap - 1 :
            tab[j].key # None => ~Passes(tab, cap, j, w)
      BY DEF TableSound
    <3>2. \A j \in 0 .. cap - 1 : new[j].key = tab[j].key
      BY <1>4, <2>3
    <3>3. \A j \in 0 .. cap - 1 : Passes(new, cap, j, w) = Passes(tab, cap, j, w)
      BY <3>2 DEF Passes
    <3> QED BY <3>1, <3>2, <3>3
  <2> QED BY <2>2, <2>3
<1> QED BY <1>2, <1>4, <1>5, <1>8, <1>9 DEF TableSound

\* The first n entries of tab are those of new.
Copies(new, tab, n) ==
  /\ \A j \in DOMAIN new : new[j] = Free \/ \E m \in 0 .. n - 1 : new[j] = tab[m]
  /\ \A m \in 0 .. n - 1 : tab[m].key # None => \E j \in DOMAIN new : new[j] = tab[m]

\* A table just allocated is sound.
LEMMA EmptySound ==
  ASSUME MapConstants, NEW cap \in Nat \ {0}
  PROVE  TableSound(Table(cap), cap) /\ \A i \in 0 .. cap - 1 : Table(cap)[i] = Free
<1>1. 0 \in 0 .. cap - 1
  OBVIOUS
<1>2. Free \in Entries /\ Free.key = None
  BY DEF Entries, Free
<1> QED BY <1>1, <1>2 DEF TableSound, Table

\* A table of twice the size always has room for one more.
LEMMA RoomLeft ==
  ASSUME MapConstants, hash \in [Keys -> Nat], NEW cap \in Nat \ {0}, NEW tab,
         NEW n \in 0 .. cap, NEW new, TableSound(new, 2 * cap), Copies(new, tab, n)
  PROVE  \E j \in 0 .. 2 * cap - 1 : new[j].key = None
<1> SUFFICES ASSUME \A j \in 0 .. 2 * cap - 1 : new[j].key # None PROVE FALSE
  OBVIOUS
<1>0. PICK size : size = 2 * cap /\ size \in Nat \ {0}
  OBVIOUS
<1>1. DOMAIN new = 0 .. size - 1 /\ Free.key = None /\ TableSound(new, size)
  BY <1>0 DEF TableSound, Free
<1> DEFINE f == [j \in 0 .. size - 1 |-> CHOOSE m \in 0 .. n - 1 : new[j] = tab[m]]
<1>2. \A j \in 0 .. size - 1 : \E m \in 0 .. n - 1 : new[j] = tab[m]
  BY <1>0, <1>1 DEF Copies
<1>3. f \in [0 .. size - 1 -> 0 .. n - 1] /\ \A j \in 0 .. size - 1 : new[j] = tab[f[j]]
  BY <1>2
<1> HIDE DEF f
<1>4. /\ IsFiniteSet(0 .. size - 1) /\ Cardinality(0 .. size - 1) = size
      /\ IsFiniteSet(0 .. n - 1) /\ Cardinality(0 .. n - 1) = n
  <2>1. 0 \in Int /\ size - 1 \in Int /\ n - 1 \in Int /\ (0 > n - 1 => n = 0)
        /\ ~(0 > size - 1) /\ size - 1 - 0 + 1 = size /\ n - 1 - 0 + 1 = n
    BY <1>0
  <2> QED BY <2>1, FS_Interval
<1>5. Cardinality(0 .. n - 1) < Cardinality(0 .. size - 1)
  BY <1>0, <1>4
<1>6. PICK x, y \in 0 .. size - 1 : x # y /\ f[x] = f[y]
  <2>1. PICK S, T : S = 0 .. size - 1 /\ T = 0 .. n - 1
    OBVIOUS
  <2>2. IsFiniteSet(S) /\ IsFiniteSet(T) /\ Cardinality(T) < Cardinality(S) /\ f \in [S -> T]
    BY <1>3, <1>4, <1>5, <2>1
  <2>3. \E x, y \in S : x # y /\ f[x] = f[y]
    BY <2>2, FS_PigeonHole
  <2> QED BY <2>1, <2>3
<1>7. new[x] = new[y] /\ new[x].key # None
  BY <1>0, <1>3, <1>6
<1>8. Probe(new, new[x].key) = x /\ Probe(new, new[y].key) = y
  BY <1>0, <1>1, <1>7, ProbeFinds
<1> QED BY <1>6, <1>7, <1>8

\* A round of buf_map_grow copies one more entry.
LEMMA PlacedKeeps ==
  ASSUME MapConstants, hash \in [Keys -> Nat], NEW cap \in Nat \ {0}, NEW tab,
         TableSound(tab, cap), NEW n \in 0 .. cap - 1,
         NEW new, TableSound(new, 2 * cap), Copies(new, tab, n)
  PROVE  TableSound(Placed(new, tab[n]), 2 * cap) /\ Copies(Placed(new, tab[n]), tab, n + 1)
<1>0. PICK size : size = 2 * cap /\ size \in Nat \ {0}
  OBVIOUS
<1>1. DOMAIN new = 0 .. size - 1 /\ TableSound(new, size) /\ tab[n] \in Entries
  BY <1>0 DEF TableSound
<1>2. \A m \in 0 .. n + 1 - 1 : m \in 0 .. n - 1 \/ m = n
  OBVIOUS
<1>3. \A m \in 0 .. n - 1 : m \in 0 .. n + 1 - 1 /\ m \in 0 .. cap - 1
  OBVIOUS
<1>4. CASE tab[n].key = None
  <2>1. Placed(new, tab[n]) = new /\ tab[n] = Free
    BY <1>1, <1>4, EntryIs DEF Placed
  <2>2. Copies(new, tab, n + 1)
    BY <1>2, <1>3, <1>4 DEF Copies
  <2> QED BY <2>1, <2>2
<1>5. CASE tab[n].key # None
  <2>1. PICK k, c : k = tab[n].key /\ c = tab[n].class
    OBVIOUS
  <2>2. k \in Keys /\ c \in Classes /\ tab[n] = [key |-> k, class |-> c] /\ k # None
    BY <1>1, <1>5, <2>1, EntryIs
  <2>3. PICK p : p = Probe(new, k)
    OBVIOUS
  <2>4. /\ p \in 0 .. size - 1
        /\ new[p].key \notin {None, k} => \A m \in 0 .. size - 1 : new[m].key \notin {None, k}
    BY <1>0, <1>1, <2>2, <2>3, ProbeIs
  <2>5. new[p].key \in {None, k}
    BY <1>0, <2>4, RoomLeft
  <2>6. new[p].key = None
    <3> SUFFICES ASSUME new[p].key = k PROVE FALSE
      BY <2>5
    <3>1. new[p] # Free
      BY <2>2 DEF Free
    <3>2. PICK m \in 0 .. n - 1 : new[p] = tab[m]
      BY <1>1, <2>4, <3>1 DEF Copies
    <3>3. Probe(tab, tab[m].key) = m /\ Probe(tab, tab[n].key) = n
      BY <1>3, <1>5, <2>1, <2>2, <3>2, ProbeFinds
    <3>4. m = n
      BY <2>1, <3>2, <3>3
    <3> QED BY <3>4
  <2>7. PICK put : put = [new EXCEPT ![p] = tab[n]]
    OBVIOUS
  <2>8. /\ TableSound(put, size) /\ put[p] = tab[n]
        /\ \A i \in 0 .. size - 1 : i # p => put[i] = new[i]
    <3>1. new \in [0 .. size - 1 -> Entries]
      BY <1>1 DEF TableSound
    <3>2. /\ put \in [0 .. size - 1 -> Entries] /\ put[p] = tab[n] /\ put[p].key = k
          /\ \A i \in 0 .. size - 1 : i # p => put[i] = new[i]
      BY <1>1, <2>1, <2>4, <2>7, <3>1
    <3>3. size \in Nat \ {0} /\ TableSound(new, size) /\ k \in Keys
      BY <1>0, <1>1, <2>2
    <3>4. put \in [0 .. size - 1 -> Entries] /\ put[p].key = k
      BY <3>2
    <3>5. \A i \in 0 .. size - 1 : i # p => put[i] = new[i]
      BY <3>2
    <3>6. TableSound(put, size)
      BY <2>3, <2>5, <3>3, <3>4, <3>5, InsertKeeps
    <3> QED BY <3>2, <3>6
  <2>9. Placed(new, tab[n]) = put
    BY <1>5, <2>1, <2>2, <2>3, <2>7 DEF Placed
  <2>10. DOMAIN put = 0 .. size - 1 /\ put[p] = tab[n]
    BY <1>1, <2>2, <2>7, <2>8
  <2>11. Copies(put, tab, n + 1)
    <3>1. ASSUME NEW j \in DOMAIN put
          PROVE  put[j] = Free \/ \E m \in 0 .. n + 1 - 1 : put[j] = tab[m]
      <4>1. CASE j = p
        <5>1. n \in 0 .. n + 1 - 1
          OBVIOUS
        <5> QED BY <2>10, <4>1, <5>1
      <4>2. CASE j # p
        <5>1. put[j] = new[j] /\ j \in DOMAIN new
          BY <1>1, <2>8, <2>10, <4>2
        <5> QED BY <1>3, <5>1 DEF Copies
      <4> QED BY <4>1, <4>2
    <3>2. ASSUME NEW m \in 0 .. n + 1 - 1, tab[m].key # None
          PROVE  \E j \in DOMAIN put : put[j] = tab[m]
      <4>1. CASE m = n
        BY <2>4, <2>10, <4>1
      <4>2. CASE m # n
        <5>1. PICK j \in DOMAIN new : new[j] = tab[m]
          BY <1>2, <3>2, <4>2 DEF Copies
        <5>2. j # p
          BY <2>6, <3>2, <5>1
        <5>3. j \in DOMAIN put /\ put[j] = tab[m]
          BY <1>1, <2>8, <2>10, <5>1, <5>2
        <5> QED BY <5>3
      <4> QED BY <4>1, <4>2
    <3> QED BY <3>1, <3>2 DEF Copies
  <2> QED BY <1>0, <2>8, <2>9, <2>11
<1> QED BY <1>4, <1>5

\* Growing keeps every entry.
LEMMA GrownIs ==
  ASSUME MapConstants, hash \in [Keys -> Nat], NEW cap \in Nat \ {0}, NEW tab,
         TableSound(tab, cap)
  PROVE  TableSound(Grown(tab), 2 * cap) /\ Copies(Grown(tab), tab, cap)
<1>0. PICK size : size = 2 * cap /\ size \in Nat \ {0}
  OBVIOUS
<1> DEFINE S == [0 .. size - 1 -> Entries]
           D == [n \in 1 .. cap |-> [x \in S |-> Placed(x, tab[n - 1])]]
           Walk(f) == [n \in 0 .. cap |-> IF n = 0 THEN Table(2 * cap)
                                          ELSE Placed(f[n - 1], tab[n - 1])]
           g == CHOOSE f : f = Walk(f)
<1>1. Grown(tab) = g[cap]
  <2>1. Cardinality(DOMAIN tab) = cap
    <3>1. DOMAIN tab = 0 .. cap - 1
      BY DEF TableSound
    <3> QED BY <3>1, TableSize
  <2> QED BY <2>1 DEF Grown
<1>2. D \in [1 .. cap -> [S -> S]]
  <2> SUFFICES ASSUME NEW n \in 1 .. cap, NEW x \in S PROVE Placed(x, tab[n - 1]) \in S
    OBVIOUS
  <2>1. n - 1 \in 0 .. cap - 1
    OBVIOUS
  <2>2. tab[n - 1] \in Entries
    BY <2>1 DEF TableSound
  <2> QED BY <2>2 DEF Placed
<1>3. Table(size) \in S
  BY <1>0, EmptySound DEF TableSound
<1>4. \E f : Iteration(f, S, Table(size), cap, D)
  <2> HIDE DEF S, D
  <2>1. cap \in Nat
    OBVIOUS
  <2> QED BY <1>2, <1>3, <2>1, Iterates
<1>5. \E f : f = Walk(f)
  <2>1. PICK f \in [0 .. cap -> S] :
          f[0] = Table(size) /\ \A n \in 1 .. cap : f[n] = D[n][f[n - 1]]
    <3> HIDE DEF S, D
    <3> QED BY <1>4 DEF Iteration
  <2>2. \A n \in 1 .. cap : f[n] = Placed(f[n - 1], tab[n - 1])
    <3> SUFFICES ASSUME NEW n \in 1 .. cap PROVE f[n] = Placed(f[n - 1], tab[n - 1])
      OBVIOUS
    <3>1. n - 1 \in 0 .. cap
      OBVIOUS
    <3>2. f[n - 1] \in S
      BY <2>1, <3>1
    <3>3. D[n][f[n - 1]] = Placed(f[n - 1], tab[n - 1])
      <4> HIDE DEF S
      <4> QED BY <3>2
    <3> QED BY <2>1, <3>3
  <2>3. f = [n \in 0 .. cap |-> f[n]]
    BY <2>1
  <2>4. \A n \in 0 .. cap : f[n] = IF n = 0 THEN Table(2 * cap) ELSE Placed(f[n - 1], tab[n - 1])
    BY <1>0, <2>1, <2>2
  <2>5. f = Walk(f)
    BY <2>3, <2>4
  <2> QED BY <2>5
<1>6. g = Walk(g)
  <2> HIDE DEF Walk
  <2> QED BY <1>5
<1> HIDE DEF g
<1>7. g[0] = Table(2 * cap) /\ \A n \in 0 .. cap - 1 : g[n + 1] = Placed(g[n], tab[n])
  <2>1. g[0] = Table(2 * cap)
    BY <1>6
  <2>2. ASSUME NEW n \in 0 .. cap - 1 PROVE g[n + 1] = Placed(g[n], tab[n])
    <3>1. n + 1 \in 0 .. cap /\ n + 1 # 0 /\ n + 1 - 1 = n
      OBVIOUS
    <3>2. g[n + 1] = Placed(g[n + 1 - 1], tab[n + 1 - 1])
      BY <1>6, <3>1
    <3> QED BY <3>1, <3>2
  <2> QED BY <2>1, <2>2
<1> DEFINE T == {n \in Nat : n <= cap => TableSound(g[n], 2 * cap) /\ Copies(g[n], tab, n)}
<1>8. 0 \in T
  <2>1. TableSound(g[0], 2 * cap) /\ \A j \in 0 .. size - 1 : g[0][j] = Free
    BY <1>0, <1>7, EmptySound
  <2>2. DOMAIN g[0] = 0 .. size - 1
    BY <1>0, <2>1 DEF TableSound
  <2>3. \A m \in 0 .. 0 - 1 : FALSE
    OBVIOUS
  <2>4. Copies(g[0], tab, 0)
    BY <2>1, <2>2, <2>3 DEF Copies
  <2> QED BY <2>1, <2>4
<1>9. ASSUME NEW n \in Nat, n \in T PROVE n + 1 \in T
  <2> SUFFICES ASSUME n + 1 <= cap
               PROVE  TableSound(g[n + 1], 2 * cap) /\ Copies(g[n + 1], tab, n + 1)
    OBVIOUS
  <2>1. n \in 0 .. cap - 1 /\ TableSound(g[n], 2 * cap) /\ Copies(g[n], tab, n)
    BY <1>9
  <2>2. g[n + 1] = Placed(g[n], tab[n])
    BY <1>7, <2>1
  <2> QED BY <2>1, <2>2, PlacedKeeps
<1> HIDE DEF T
<1>10. Nat \subseteq T
  BY <1>8, <1>9, SetInduction
<1> QED BY <1>1, <1>10 DEF T

-----------------------------------------------------------------------------
(* Deletion.  Indices are counted from the one after w, which no probe     *)
(* comes past: then a probe path is an interval.                           *)

Pos(w, j, cap) == IF j > w THEN j - w - 1 ELSE j - w - 1 + cap

\* Positions are distinct, and w is the last.
LEMMA PosIs ==
  ASSUME NEW cap \in Nat \ {0}, NEW w \in 0 .. cap - 1, NEW i \in 0 .. cap - 1, NEW j \in 0 .. cap - 1
  PROVE  /\ Pos(w, j, cap) \in 0 .. cap - 1 /\ Pos(w, w, cap) = cap - 1
         /\ Pos(w, i, cap) = Pos(w, j, cap) => i = j
BY DEF Pos

\* The distance, by positions.
LEMMA GapPos ==
  ASSUME NEW cap \in Nat \ {0}, NEW w \in 0 .. cap - 1, NEW h \in 0 .. cap - 1, NEW j \in 0 .. cap - 1
  PROVE  Gap(h, j, cap) = IF Pos(w, j, cap) >= Pos(w, h, cap)
                          THEN Pos(w, j, cap) - Pos(w, h, cap)
                          ELSE Pos(w, j, cap) - Pos(w, h, cap) + cap
<1>1. Gap(h, j, cap) = IF j >= h THEN j - h ELSE j - h + cap
  BY GapIs
<1> QED BY <1>1 DEF Pos

\* The position n past that of i.
LEMMA PosNext ==
  ASSUME NEW cap \in Nat \ {0}, NEW w \in 0 .. cap - 1, NEW i \in 0 .. cap - 1, NEW n \in 1 .. cap
  PROVE  Pos(w, (i + n) % cap, cap) = IF Pos(w, i, cap) + n < cap THEN Pos(w, i, cap) + n
                                      ELSE Pos(w, i, cap) + n - cap
<1>1. PICK j : j = (i + n) % cap
  OBVIOUS
<1>2. j = (IF i + n < cap THEN i + n ELSE i + n - cap) /\ j \in 0 .. cap - 1
  <2>1. n \in 0 .. cap
    OBVIOUS
  <2> QED BY <1>1, <2>1, Around
<1> QED BY <1>1, <1>2 DEF Pos

\* The probe that starts at h and ends at j, seen from w.
LEMMA PassesPos ==
  ASSUME NEW cap \in Nat \ {0}, NEW w \in 0 .. cap - 1, NEW h \in 0 .. cap - 1,
         NEW j \in 0 .. cap - 1, NEW m \in 0 .. cap - 1
  PROVE  /\ (Gap(h, w, cap) < Gap(h, j, cap)) = (Pos(w, j, cap) < Pos(w, h, cap))
         /\ Pos(w, h, cap) <= Pos(w, j, cap) =>
              (Gap(h, m, cap) < Gap(h, j, cap))
                = (Pos(w, h, cap) <= Pos(w, m, cap) /\ Pos(w, m, cap) < Pos(w, j, cap))
<1>1. PICK a, b, c : a = Pos(w, h, cap) /\ b = Pos(w, j, cap) /\ c = Pos(w, m, cap)
  OBVIOUS
<1>2. /\ a \in 0 .. cap - 1 /\ b \in 0 .. cap - 1 /\ c \in 0 .. cap - 1
      /\ Pos(w, w, cap) = cap - 1
  BY <1>1, PosIs
<1>3. Gap(h, w, cap) = cap - 1 - a
  BY <1>1, <1>2, GapPos
<1>4. Gap(h, j, cap) = IF b >= a THEN b - a ELSE b - a + cap
  BY <1>1, GapPos
<1>5. Gap(h, m, cap) = IF c >= a THEN c - a ELSE c - a + cap
  BY <1>1, GapPos
<1> QED BY <1>1, <1>2, <1>3, <1>4, <1>5

\* After n rounds of the loop of buf_size_map_remove on the table tab, whose
\* entry at i goes: apart from the hole the paths are sound, those of the
\* entries seen do not come past the hole, and all but that entry are there.
ShiftInv(s, tab, i, w, n, cap) ==
  LET At(j) == Pos(w, j, cap)
      From(j) == Pos(w, buf_map_hash(s.tab[j].key, cap), cap)
      Held == {j \in 0 .. cap - 1 : j # s.hole /\ s.tab[j].key # None}
  IN /\ s.tab \in [0 .. cap - 1 -> Entries] /\ s.hole \in 0 .. cap - 1
     /\ At(i) <= At(s.hole) /\ At(s.hole) <= At(i) + n
     /\ \A j \in Held : From(j) <= At(j)
     /\ \A j \in Held : \A m \in 0 .. cap - 1 :
          m # s.hole /\ From(j) <= At(m) /\ At(m) < At(j) =>
            s.tab[m].key \notin {None, s.tab[j].key}
     /\ \A j \in Held : ~s.open \/ At(j) <= At(i) + n =>
          ~(From(j) <= At(s.hole) /\ At(s.hole) < At(j))
     /\ \A j \in Held : \E m \in 0 .. cap - 1 : m # i /\ s.tab[j] = tab[m]
     /\ \A m \in 0 .. cap - 1 : m # i /\ tab[m].key # None =>
          \E j \in Held : s.tab[j] = tab[m]

States(cap) == [tab : [0 .. cap - 1 -> Entries], hole : 0 .. cap - 1, open : BOOLEAN]

\* The round does one of three things.
LEMMA ShiftCases ==
  ASSUME NEW cap \in Nat \ {0}, NEW s \in States(cap), NEW i \in 0 .. cap - 1, NEW n \in 1 .. cap
  PROVE  LET next == (i + n) % cap
             natural == buf_map_hash(s.tab[next].key, cap)
             t == Shift(s, i, n, cap)
         IN  /\ next \in 0 .. cap - 1 /\ t \in States(cap)
             /\ \/ /\ ~s.open \/ s.tab[next].key = None
                   /\ t.tab = s.tab /\ t.hole = s.hole /\ ~t.open
                \/ /\ s.open /\ s.tab[next].key # None
                   /\ Gap(natural, s.hole, cap) <= Gap(natural, next, cap)
                   /\ t.tab = [s.tab EXCEPT ![s.hole] = s.tab[next]] /\ t.hole = next /\ t.open
                \/ /\ s.open /\ s.tab[next].key # None
                   /\ ~(Gap(natural, s.hole, cap) <= Gap(natural, next, cap))
                   /\ t = s
<1>1. PICK next : next = (i + n) % cap
  OBVIOUS
<1>2. next \in 0 .. cap - 1
  <2>1. n \in 0 .. cap
    OBVIOUS
  <2> QED BY <1>1, <2>1, Around
<1> DEFINE e == s.tab[next]
           natural == buf_map_hash(e.key, cap)
<1>3. e \in Entries /\ s.tab \in [0 .. cap - 1 -> Entries] /\ s.hole \in 0 .. cap - 1 /\ s.open \in BOOLEAN
  BY <1>2 DEF States
<1>4. Shift(s, i, n, cap) =
        IF ~s.open \/ e.key = None THEN [s EXCEPT !.open = FALSE]
        ELSE IF Gap(natural, s.hole, cap) <= Gap(natural, next, cap)
        THEN [s EXCEPT !.tab = [s.tab EXCEPT ![s.hole] = e], !.hole = next] ELSE s
  BY <1>1 DEF Shift, Gap
<1> HIDE DEF e, natural
<1>5. LET t == [s EXCEPT !.open = FALSE]
      IN  t \in States(cap) /\ t.tab = s.tab /\ t.hole = s.hole /\ ~t.open
  BY DEF States
<1>6. PICK put : put = [s.tab EXCEPT ![s.hole] = e]
  OBVIOUS
<1>7. put \in [0 .. cap - 1 -> Entries]
  BY <1>3, <1>6
<1>8. LET t == [s EXCEPT !.tab = put, !.hole = next]
      IN  t \in States(cap) /\ t.tab = put /\ t.hole = next /\ t.open = s.open
  BY <1>2, <1>7 DEF States
<1>9. CASE ~s.open \/ e.key = None
  BY <1>1, <1>2, <1>4, <1>5, <1>9 DEF e
<1>10. CASE s.open /\ e.key # None /\ Gap(natural, s.hole, cap) <= Gap(natural, next, cap)
  <2>1. Shift(s, i, n, cap) = [s EXCEPT !.tab = put, !.hole = next]
    BY <1>4, <1>6, <1>10
  <2> QED BY <1>1, <1>2, <1>6, <1>8, <1>10, <2>1 DEF e, natural
<1>11. CASE s.open /\ e.key # None /\ ~(Gap(natural, s.hole, cap) <= Gap(natural, next, cap))
  BY <1>1, <1>2, <1>4, <1>11 DEF e, natural
<1> QED BY <1>9, <1>10, <1>11

\* A round of the loop keeps the invariant of the deletion.
LEMMA ShiftKeeps ==
  ASSUME MapConstants, hash \in [Keys -> Nat], NEW cap \in Nat \ {0}, NEW s \in States(cap),
         NEW tab, NEW i \in 0 .. cap - 1, NEW w \in 0 .. cap - 1, NEW n \in 1 .. cap,
         ShiftInv(s, tab, i, w, n - 1, cap),
         NEW t, t = Shift(s, i, n, cap)
  PROVE  t \in States(cap) /\ ShiftInv(t, tab, i, w, n, cap)
<1> DEFINE At(j) == Pos(w, j, cap)
           From(j) == Pos(w, buf_map_hash(s.tab[j].key, cap), cap)
           Held == {j \in 0 .. cap - 1 : j # s.hole /\ s.tab[j].key # None}
<1>1. PICK next : next = (i + n) % cap
  OBVIOUS
<1>2. /\ s.tab \in [0 .. cap - 1 -> Entries] /\ s.hole \in 0 .. cap - 1
      /\ next \in 0 .. cap - 1 /\ t \in States(cap)
  BY <1>1, ShiftCases DEF States
<1>3. \A j \in 0 .. cap - 1 : At(j) \in 0 .. cap - 1
  BY PosIs
<1>4. \A j, m \in 0 .. cap - 1 : At(j) = At(m) => j = m
  BY PosIs
<1>5. At(next) = IF At(i) + n < cap THEN At(i) + n ELSE At(i) + n - cap
  BY <1>1, PosNext
<1>6. \A j \in 0 .. cap - 1 : s.tab[j].key # None =>
        buf_map_hash(s.tab[j].key, cap) \in 0 .. cap - 1 /\ From(j) \in 0 .. cap - 1
  <2> SUFFICES ASSUME NEW j \in 0 .. cap - 1, s.tab[j].key # None
               PROVE  buf_map_hash(s.tab[j].key, cap) \in 0 .. cap - 1 /\ From(j) \in 0 .. cap - 1
    OBVIOUS
  <2>1. s.tab[j].key \in Keys
    BY <1>2, EntryIs
  <2>2. buf_map_hash(s.tab[j].key, cap) \in 0 .. cap - 1
    BY <2>1, HomeIs
  <2> QED BY <2>2, PosIs
<1>7. /\ At(i) <= At(s.hole) /\ At(s.hole) <= At(i) + (n - 1)
      /\ \A j \in Held : From(j) <= At(j)
      /\ \A j \in Held : \A m \in 0 .. cap - 1 :
           m # s.hole /\ From(j) <= At(m) /\ At(m) < At(j) =>
             s.tab[m].key \notin {None, s.tab[j].key}
      /\ \A j \in Held : ~s.open \/ At(j) <= At(i) + (n - 1) =>
           ~(From(j) <= At(s.hole) /\ At(s.hole) < At(j))
      /\ \A j \in Held : \E m \in 0 .. cap - 1 : m # i /\ s.tab[j] = tab[m]
      /\ \A m \in 0 .. cap - 1 : m # i /\ tab[m].key # None => \E j \in Held : s.tab[j] = tab[m]
  BY DEF ShiftInv
<1> DEFINE natural == buf_map_hash(s.tab[next].key, cap)
<1>8. \/ /\ ~s.open \/ s.tab[next].key = None
         /\ t.tab = s.tab /\ t.hole = s.hole /\ ~t.open
      \/ /\ s.open /\ s.tab[next].key # None
         /\ Gap(natural, s.hole, cap) <= Gap(natural, next, cap)
         /\ t.tab = [s.tab EXCEPT ![s.hole] = s.tab[next]] /\ t.hole = next /\ t.open
      \/ /\ s.open /\ s.tab[next].key # None
         /\ ~(Gap(natural, s.hole, cap) <= Gap(natural, next, cap))
         /\ t = s
  BY <1>1, ShiftCases
\* Where the hole and next are to each other, and to the natural index of the
\* entry at next.
<1>9. s.tab[next].key # None =>
        /\ Gap(natural, s.hole, cap) = (IF At(s.hole) >= From(next) THEN At(s.hole) - From(next)
                                        ELSE At(s.hole) - From(next) + cap)
        /\ Gap(natural, next, cap) = (IF At(next) >= From(next) THEN At(next) - From(next)
                                      ELSE At(next) - From(next) + cap)
  BY <1>2, <1>6, GapPos
\* Nothing moves, and either all is as it was or the loop ends.
<1>10. ASSUME t.tab = s.tab, t.hole = s.hole,
              \A j \in Held : ~t.open \/ At(j) <= At(i) + n =>
                ~(From(j) <= At(s.hole) /\ At(s.hole) < At(j))
       PROVE  ShiftInv(t, tab, i, w, n, cap)
  <2>1. At(s.hole) <= At(i) + n
    <3>1. At(s.hole) \in 0 .. cap - 1 /\ At(i) \in 0 .. cap - 1
      BY <1>2, <1>3
    <3> HIDE DEF At
    <3> QED BY <1>7, <3>1
  <2> HIDE DEF Held
  <2>2. t.tab \in [0 .. cap - 1 -> Entries] /\ t.hole \in 0 .. cap - 1
    BY <1>2, <1>10
  <2>3. Held = {j \in 0 .. cap - 1 : j # t.hole /\ t.tab[j].key # None}
    BY <1>10 DEF Held
  <2> QED BY <1>7, <1>10, <2>1, <2>2, <2>3 DEF ShiftInv
\* Past the end of the table every entry has been seen.
<1>11. ASSUME At(i) + n >= cap, NEW j \in Held
       PROVE  ~(From(j) <= At(s.hole) /\ At(s.hole) < At(j))
  <2>1. At(j) <= At(i) + (n - 1)
    <3>1. At(j) \in 0 .. cap - 1 /\ At(i) \in 0 .. cap - 1
      BY <1>3
    <3> HIDE DEF At
    <3> QED BY <1>11, <3>1
  <2> QED BY <1>7, <2>1
<1>12. CASE ~s.open \/ s.tab[next].key = None
  <2>1. t.tab = s.tab /\ t.hole = s.hole /\ ~t.open
    BY <1>8, <1>12
  <2>2. ASSUME NEW j \in Held PROVE ~(From(j) <= At(s.hole) /\ At(s.hole) < At(j))
    <3>1. CASE ~s.open
      BY <1>7, <3>1
    <3>2. CASE At(i) + n >= cap
      BY <1>11, <3>2
    <3>3. CASE s.tab[next].key = None /\ ~(At(i) + n >= cap)
      <4>1. /\ At(j) \in 0 .. cap - 1 /\ At(i) \in 0 .. cap - 1 /\ At(s.hole) \in 0 .. cap - 1
            /\ From(j) \in 0 .. cap - 1 /\ At(next) \in 0 .. cap - 1
        BY <1>2, <1>3, <1>6
      <4>2. At(next) = At(i) + n /\ At(s.hole) < At(next) /\ next # s.hole
        <5>1. At(next) = At(i) + n
          <6> HIDE DEF At
          <6> QED BY <1>5, <3>3, <4>1
        <5>2. At(s.hole) < At(next)
          <6> HIDE DEF At
          <6> QED BY <1>7, <4>1, <5>1
        <5>3. next # s.hole
          <6> HIDE DEF At
          <6> QED BY <4>1, <5>2
        <5> QED BY <5>1, <5>2, <5>3
      <4>3. j # next
        BY <3>3
      <4>4. At(j) # At(next)
        BY <1>2, <1>4, <4>3
      <4>5. ~(From(j) <= At(next) /\ At(next) < At(j))
        BY <1>2, <1>7, <3>3, <4>2
      <4>6. At(j) <= At(i) + (n - 1) => ~(From(j) <= At(s.hole) /\ At(s.hole) < At(j))
        BY <1>7
      <4> HIDE DEF At, From, Held
      <4> QED BY <4>1, <4>2, <4>4, <4>5, <4>6
    <3> QED BY <1>12, <3>1, <3>2, <3>3
  <2> QED BY <1>2, <1>10, <2>1, <2>2
<1>13. CASE /\ s.open /\ s.tab[next].key # None
            /\ ~(Gap(natural, s.hole, cap) <= Gap(natural, next, cap))
  <2>1. t = s
    BY <1>8, <1>13
  <2>2. ASSUME NEW j \in Held, At(j) <= At(i) + n
        PROVE  ~(From(j) <= At(s.hole) /\ At(s.hole) < At(j))
    <3>1. /\ At(j) \in 0 .. cap - 1 /\ At(i) \in 0 .. cap - 1 /\ At(s.hole) \in 0 .. cap - 1
          /\ From(j) \in 0 .. cap - 1 /\ At(next) \in 0 .. cap - 1
      BY <1>2, <1>3, <1>6
    <3>2. CASE At(i) + n >= cap
      BY <1>11, <3>2
    <3>3. CASE j = next
      <4>1. ~((IF At(s.hole) >= From(j) THEN At(s.hole) - From(j) ELSE At(s.hole) - From(j) + cap)
              <= (IF At(j) >= From(j) THEN At(j) - From(j) ELSE At(j) - From(j) + cap))
        BY <1>9, <1>13, <3>3
      <4> HIDE DEF At, From, Held
      <4> QED BY <3>1, <4>1
    <3>4. CASE j # next /\ ~(At(i) + n >= cap)
      <4>1. At(j) # At(next)
        BY <1>2, <1>4, <3>4
      <4>2. At(next) = At(i) + n
        <5> HIDE DEF At
        <5> QED BY <1>5, <3>1, <3>4
      <4>3. At(j) <= At(i) + (n - 1)
        <5> HIDE DEF At
        <5> QED BY <2>2, <3>1, <4>1, <4>2
      <4> QED BY <1>7, <4>3
    <3> QED BY <3>2, <3>3, <3>4
  <2> QED BY <1>2, <1>10, <1>13, <2>1, <2>2
<1>14. CASE /\ s.open /\ s.tab[next].key # None
            /\ Gap(natural, s.hole, cap) <= Gap(natural, next, cap)
  <2>1. t.tab = [s.tab EXCEPT ![s.hole] = s.tab[next]] /\ t.hole = next /\ t.open
    BY <1>8, <1>14
  <2>2. /\ At(i) \in 0 .. cap - 1 /\ At(s.hole) \in 0 .. cap - 1
        /\ From(next) \in 0 .. cap - 1 /\ At(next) \in 0 .. cap - 1
    BY <1>2, <1>3, <1>6, <1>14
  <2>3. (IF At(s.hole) >= From(next) THEN At(s.hole) - From(next) ELSE At(s.hole) - From(next) + cap)
        <= (IF At(next) >= From(next) THEN At(next) - From(next) ELSE At(next) - From(next) + cap)
    BY <1>9, <1>14
  <2>4. next # s.hole => next \in Held /\ From(next) <= At(next) /\ At(next) # At(s.hole)
    BY <1>2, <1>4, <1>7, <1>14
  \* Once around, the loop is at the hole or before it.
  <2>5. CASE At(i) + n >= cap
    <3>1. next = s.hole
      <4> SUFFICES ASSUME next # s.hole PROVE FALSE
        OBVIOUS
      <4>1. At(next) < At(s.hole)
        <5> HIDE DEF At, From, Held
        <5> QED BY <1>5, <1>7, <2>2, <2>4, <2>5
      <4> HIDE DEF At, From, Held
      <4> QED BY <2>2, <2>3, <2>4, <4>1
    <3>2. t.tab = s.tab /\ t.hole = s.hole
      BY <1>2, <2>1, <3>1
    <3> QED BY <1>2, <1>10, <1>11, <2>5, <3>2
  <2>6. CASE ~(At(i) + n >= cap)
    <3>1. At(next) = At(i) + n /\ At(s.hole) < At(next)
      <4> HIDE DEF At, From, Held
      <4> QED BY <1>5, <1>7, <2>2, <2>6
    <3>2. next # s.hole
      <4> HIDE DEF At, From, Held
      <4> QED BY <2>2, <3>1
    <3>3. next \in Held /\ From(next) <= At(s.hole)
      <4> HIDE DEF At, From, Held
      <4> QED BY <2>2, <2>3, <2>4, <3>1, <3>2
    <3> DEFINE FromT(j) == Pos(w, buf_map_hash(t.tab[j].key, cap), cap)
               HeldT == {j \in 0 .. cap - 1 : j # t.hole /\ t.tab[j].key # None}
    <3>4. /\ t.tab \in [0 .. cap - 1 -> Entries] /\ t.hole \in 0 .. cap - 1
          /\ t.tab[s.hole] = s.tab[next]
          /\ \A j \in 0 .. cap - 1 : j # s.hole => t.tab[j] = s.tab[j]
      <4>1. t.tab \in [0 .. cap - 1 -> Entries] /\ t.hole \in 0 .. cap - 1
        BY <1>2 DEF States
      <4> QED BY <1>2, <2>1, <4>1
    <3>5. /\ FromT(s.hole) = From(next)
          /\ \A j \in 0 .. cap - 1 : j # s.hole => FromT(j) = From(j)
      BY <3>4
    <3>6. \A j \in HeldT : j = s.hole \/ (j \in Held /\ j # next /\ j # s.hole)
      BY <2>1, <3>4
    <3>7. s.hole \in HeldT /\ \A j \in Held : j # next => j \in HeldT
      BY <1>2, <1>14, <2>1, <3>2, <3>4
    <3>8. ASSUME NEW j \in Held, j # next PROVE s.tab[j].key # s.tab[next].key
      <4> SUFFICES ASSUME s.tab[j].key = s.tab[next].key PROVE FALSE
        OBVIOUS
      <4>1. From(j) = From(next) /\ From(j) <= At(j) /\ From(next) <= At(next) /\ At(j) # At(next)
        BY <1>2, <1>4, <1>7, <3>3, <3>8
      <4>2. At(j) \in 0 .. cap - 1 /\ From(j) \in 0 .. cap - 1
        BY <1>3, <1>6
      <4>3. CASE At(j) < At(next)
        <5>1. j \in 0 .. cap - 1 /\ j # s.hole
          OBVIOUS
        <5>2. s.tab[j].key \notin {None, s.tab[next].key}
          BY <1>7, <3>3, <4>1, <4>3, <5>1
        <5> QED BY <5>2
      <4>4. CASE At(next) < At(j)
        <5>1. s.tab[next].key \notin {None, s.tab[j].key}
          BY <1>2, <1>7, <3>2, <4>1, <4>4
        <5> QED BY <5>1
      <4>5. At(j) < At(next) \/ At(next) < At(j)
        <5> HIDE DEF At, From, Held
        <5> QED BY <2>2, <4>1, <4>2
      <4> QED BY <4>3, <4>4, <4>5
    <3>9. At(i) <= At(t.hole) /\ At(t.hole) <= At(i) + n
      <4>1. At(t.hole) = At(i) + n
        BY <2>1, <3>1
      <4> HIDE DEF At, From, Held
      <4> QED BY <2>2, <4>1
    <3>10. \A j \in HeldT : FromT(j) <= At(j)
      <4> SUFFICES ASSUME NEW j \in HeldT PROVE FromT(j) <= At(j)
        OBVIOUS
      <4>1. CASE j = s.hole
        BY <3>3, <3>5, <4>1
      <4>2. CASE j # s.hole
        <5>1. j \in Held /\ FromT(j) = From(j)
          BY <3>5, <3>6, <4>2
        <5> QED BY <1>7, <5>1
      <4> QED BY <4>1, <4>2
    <3>11. ASSUME NEW j \in HeldT, NEW m \in 0 .. cap - 1,
                  m # t.hole, FromT(j) <= At(m), At(m) < At(j)
           PROVE  t.tab[m].key \notin {None, t.tab[j].key}
      <4>1. CASE j = s.hole
        <5>1. /\ At(m) \in 0 .. cap - 1 /\ From(next) <= At(m) /\ At(m) < At(s.hole)
          BY <1>3, <3>5, <3>11, <4>1
        <5>2. m # s.hole /\ At(m) < At(next)
          <6>1. m # s.hole
            <7> HIDE DEF At, From, Held
            <7> QED BY <2>2, <5>1
          <6> HIDE DEF At, From, Held
          <6> QED BY <2>2, <3>1, <5>1, <6>1
        <5>3. s.tab[m].key \notin {None, s.tab[next].key}
          BY <1>7, <3>3, <5>1, <5>2
        <5> QED BY <3>4, <4>1, <5>2, <5>3
      <4>2. CASE j # s.hole
        <5>1. j \in Held /\ j # next /\ t.tab[j] = s.tab[j] /\ FromT(j) = From(j)
          BY <3>4, <3>5, <3>6, <4>2
        <5>2. CASE m = s.hole
          BY <1>14, <3>4, <3>8, <5>1, <5>2
        <5>3. CASE m # s.hole
          <6>1. s.tab[m].key \notin {None, s.tab[j].key}
            BY <1>7, <3>11, <5>1, <5>3
          <6> QED BY <3>4, <5>1, <5>3, <6>1
        <5> QED BY <5>2, <5>3
      <4> QED BY <4>1, <4>2
    <3>12. ASSUME NEW j \in HeldT, ~t.open \/ At(j) <= At(i) + n
           PROVE  ~(FromT(j) <= At(t.hole) /\ At(t.hole) < At(j))
      <4>1. At(j) \in 0 .. cap - 1 /\ At(j) <= At(t.hole) /\ At(t.hole) \in 0 .. cap - 1
        BY <1>3, <2>1, <2>2, <3>1, <3>12
      <4> HIDE DEF At, From, FromT, Held, HeldT
      <4> QED BY <4>1
    <3>13. ASSUME NEW j \in HeldT PROVE \E m \in 0 .. cap - 1 : m # i /\ t.tab[j] = tab[m]
      <4>1. CASE j = s.hole
        BY <1>7, <3>3, <3>4, <4>1
      <4>2. CASE j # s.hole
        BY <1>7, <3>4, <3>6, <4>2
      <4> QED BY <4>1, <4>2
    <3>14. ASSUME NEW m \in 0 .. cap - 1, m # i, tab[m].key # None
           PROVE  \E j \in HeldT : t.tab[j] = tab[m]
      <4>1. PICK j \in Held : s.tab[j] = tab[m]
        BY <1>7, <3>14
      <4>2. CASE j = next
        BY <3>4, <3>7, <4>1, <4>2
      <4>3. CASE j # next
        BY <3>4, <3>7, <4>1, <4>3
      <4> QED BY <4>2, <4>3
    <3>15. /\ \A j \in HeldT : \A m \in 0 .. cap - 1 :
                m # t.hole /\ FromT(j) <= At(m) /\ At(m) < At(j) =>
                  t.tab[m].key \notin {None, t.tab[j].key}
           /\ \A j \in HeldT : ~t.open \/ At(j) <= At(i) + n =>
                ~(FromT(j) <= At(t.hole) /\ At(t.hole) < At(j))
           /\ \A j \in HeldT : \E m \in 0 .. cap - 1 : m # i /\ t.tab[j] = tab[m]
           /\ \A m \in 0 .. cap - 1 : m # i /\ tab[m].key # None =>
                \E j \in HeldT : t.tab[j] = tab[m]
      <4> HIDE DEF At, FromT, HeldT
      <4> QED BY <3>11, <3>12, <3>13, <3>14
    <3> QED BY <1>2, <3>4, <3>9, <3>10, <3>15 DEF ShiftInv
  <2> QED BY <2>5, <2>6
<1> QED BY <1>2, <1>8, <1>12, <1>13, <1>14

\* Before the first round.
LEMMA ShiftStarts ==
  ASSUME MapConstants, hash \in [Keys -> Nat], NEW cap \in Nat \ {0}, NEW tab,
         TableSound(tab, cap), NEW i \in 0 .. cap - 1, NEW w \in 0 .. cap - 1,
         \A j \in 0 .. cap - 1 : tab[j].key # None => ~Passes(tab, cap, j, w),
         NEW s, s = [tab |-> tab, hole |-> i, open |-> TRUE]
  PROVE  s \in States(cap) /\ ShiftInv(s, tab, i, w, 0, cap)
<1> DEFINE At(j) == Pos(w, j, cap)
           From(j) == Pos(w, buf_map_hash(tab[j].key, cap), cap)
           Held == {j \in 0 .. cap - 1 : j # i /\ tab[j].key # None}
<1>1. s.tab = tab /\ s.hole = i /\ s.open /\ tab \in [0 .. cap - 1 -> Entries] /\ s \in States(cap)
  BY DEF TableSound, States
<1>2. At(i) \in 0 .. cap - 1 /\ At(i) <= At(i) /\ At(i) <= At(i) + 0
  <2>1. At(i) \in 0 .. cap - 1
    BY PosIs
  <2> HIDE DEF At
  <2> QED BY <2>1
<1>3. ASSUME NEW j \in 0 .. cap - 1, tab[j].key # None
      PROVE  /\ buf_map_hash(tab[j].key, cap) \in 0 .. cap - 1
             /\ From(j) \in 0 .. cap - 1 /\ At(j) \in 0 .. cap - 1
             /\ From(j) <= At(j)
             /\ \A m \in 0 .. cap - 1 : From(j) <= At(m) /\ At(m) < At(j) =>
                  tab[m].key \notin {None, tab[j].key}
  <2>1. PICK h : h = buf_map_hash(tab[j].key, cap)
    OBVIOUS
  <2>2. h \in 0 .. cap - 1
    <3>1. tab[j].key \in Keys
      BY <1>1, <1>3, EntryIs
    <3> QED BY <2>1, <3>1, HomeIs
  <2>3. From(j) \in 0 .. cap - 1 /\ At(j) \in 0 .. cap - 1
    BY <2>1, <2>2, PosIs
  <2>4. ~(Gap(h, w, cap) < Gap(h, j, cap))
    BY <1>3, <2>1 DEF Passes
  <2>5. ~(At(j) < From(j))
    BY <2>1, <2>2, <2>4, PassesPos
  <2>6. From(j) <= At(j)
    <3> HIDE DEF At, From
    <3> QED BY <2>3, <2>5
  <2>7. ASSUME NEW m \in 0 .. cap - 1, From(j) <= At(m), At(m) < At(j)
        PROVE  tab[m].key \notin {None, tab[j].key}
    <3>1. Gap(h, m, cap) < Gap(h, j, cap)
      BY <2>1, <2>2, <2>6, <2>7, PassesPos
    <3> QED BY <1>3, <2>1, <3>1 DEF TableSound, Passes
  <2> QED BY <2>1, <2>2, <2>3, <2>6, <2>7
<1>4. ASSUME NEW j \in Held, ~TRUE \/ At(j) <= At(i) + 0
      PROVE  ~(From(j) <= At(i) /\ At(i) < At(j))
  <2>1. At(j) \in 0 .. cap - 1 /\ At(j) <= At(i) + 0
    BY <1>3, <1>4
  <2> HIDE DEF At, From
  <2> QED BY <1>2, <2>1
<1>5. /\ \A j \in Held : From(j) <= At(j)
      /\ \A j \in Held : \A m \in 0 .. cap - 1 :
           m # i /\ From(j) <= At(m) /\ At(m) < At(j) => tab[m].key \notin {None, tab[j].key}
      /\ \A j \in Held : ~s.open \/ At(j) <= At(i) + 0 => ~(From(j) <= At(i) /\ At(i) < At(j))
      /\ \A j \in Held : \E m \in 0 .. cap - 1 : m # i /\ tab[j] = tab[m]
      /\ \A m \in 0 .. cap - 1 : m # i /\ tab[m].key # None => \E j \in Held : tab[j] = tab[m]
  <2>1. \A j \in Held : j \in 0 .. cap - 1 /\ j # i /\ tab[j].key # None
    OBVIOUS
  <2>2. \A m \in 0 .. cap - 1 : m # i /\ tab[m].key # None => m \in Held
    OBVIOUS
  <2> HIDE DEF At, From, Held
  <2> QED BY <1>1, <1>3, <1>4, <2>1, <2>2
<1> QED BY <1>1, <1>2, <1>5 DEF ShiftInv

\* A sound table with the entries of tab, but the one at i.
Without(new, tab, i, cap) ==
  /\ TableSound(new, cap)
  /\ \A j \in 0 .. cap - 1 : new[j].key # None =>
       \E m \in 0 .. cap - 1 : m # i /\ new[j] = tab[m]
  /\ \A m \in 0 .. cap - 1 : m # i /\ tab[m].key # None =>
       \E j \in 0 .. cap - 1 : new[j] = tab[m]

\* After the last round, the hole emptied.
LEMMA ShiftEnds ==
  ASSUME MapConstants, hash \in [Keys -> Nat], NEW cap \in Nat \ {0}, NEW tab,
         NEW i \in 0 .. cap - 1, NEW w \in 0 .. cap - 1, NEW s \in States(cap),
         ShiftInv(s, tab, i, w, cap, cap),
         NEW new \in [0 .. cap - 1 -> Entries], new[s.hole] = Free,
         \A j \in 0 .. cap - 1 : j # s.hole => new[j] = s.tab[j]
  PROVE  Without(new, tab, i, cap)
<1> DEFINE At(j) == Pos(w, j, cap)
           From(j) == Pos(w, buf_map_hash(s.tab[j].key, cap), cap)
           Held == {j \in 0 .. cap - 1 : j # s.hole /\ s.tab[j].key # None}
<1>1. /\ s.tab \in [0 .. cap - 1 -> Entries] /\ s.hole \in 0 .. cap - 1
      /\ \A j \in Held : From(j) <= At(j)
      /\ \A j \in Held : \A m \in 0 .. cap - 1 :
           m # s.hole /\ From(j) <= At(m) /\ At(m) < At(j) =>
             s.tab[m].key \notin {None, s.tab[j].key}
      /\ \A j \in Held : ~s.open \/ At(j) <= At(i) + cap =>
           ~(From(j) <= At(s.hole) /\ At(s.hole) < At(j))
      /\ \A j \in Held : \E m \in 0 .. cap - 1 : m # i /\ s.tab[j] = tab[m]
      /\ \A m \in 0 .. cap - 1 : m # i /\ tab[m].key # None => \E j \in Held : s.tab[j] = tab[m]
  BY DEF ShiftInv
<1>2. Free \in Entries /\ Free.key = None
  BY DEF Entries, Free
<1>3. /\ new \in [0 .. cap - 1 -> Entries] /\ new[s.hole] = Free
      /\ \A j \in 0 .. cap - 1 : j # s.hole => new[j] = s.tab[j]
  OBVIOUS
<1>4. \A j \in 0 .. cap - 1 : new[j].key # None => j \in Held /\ new[j] = s.tab[j] /\ j # s.hole
  BY <1>2, <1>3
<1>5. \A j \in Held : new[j] = s.tab[j] /\ j \in 0 .. cap - 1
  BY <1>3
<1>6. ASSUME NEW j \in 0 .. cap - 1, new[j].key # None, NEW m \in 0 .. cap - 1
      PROVE  /\ ~Passes(new, cap, j, w)
             /\ Passes(new, cap, j, m) => new[m].key \notin {None, new[j].key}
  <2>1. PICK h : h = buf_map_hash(new[j].key, cap)
    OBVIOUS
  <2>2. j \in Held /\ new[j] = s.tab[j] /\ From(j) = Pos(w, h, cap)
    BY <1>4, <1>6, <2>1
  <2>3. h \in 0 .. cap - 1
    <3>1. new[j].key \in Keys
      BY <1>3, <1>6, EntryIs
    <3> QED BY <2>1, <3>1, HomeIs
  <2>4. /\ From(j) \in 0 .. cap - 1 /\ At(j) \in 0 .. cap - 1 /\ At(m) \in 0 .. cap - 1
        /\ At(i) \in 0 .. cap - 1
    BY <2>2, <2>3, PosIs
  <2>5. From(j) <= At(j)
    BY <1>1, <2>2
  <2>6. ~(At(j) < From(j)) /\ At(j) <= At(i) + cap
    <3> HIDE DEF At, From
    <3> QED BY <2>4, <2>5
  <2>7. ~Passes(new, cap, j, w)
    <3>1. ~(Gap(h, w, cap) < Gap(h, j, cap))
      BY <2>2, <2>3, <2>6, PassesPos
    <3> QED BY <2>1, <3>1 DEF Passes
  <2>8. ASSUME Passes(new, cap, j, m) PROVE new[m].key \notin {None, new[j].key}
    <3>1. Gap(h, m, cap) < Gap(h, j, cap)
      BY <2>1, <2>8 DEF Passes
    <3>2. From(j) <= At(m) /\ At(m) < At(j)
      BY <2>2, <2>3, <2>5, <3>1, PassesPos
    <3>3. ~(From(j) <= At(s.hole) /\ At(s.hole) < At(j))
      BY <1>1, <2>2, <2>6
    <3>4. m # s.hole
      BY <3>2, <3>3
    <3>5. s.tab[m].key \notin {None, s.tab[j].key}
      BY <1>1, <2>2, <3>2, <3>4
    <3> QED BY <1>3, <2>2, <3>4, <3>5
  <2> QED BY <2>7, <2>8
<1>7. TableSound(new, cap)
  <2>1. \A j, m \in 0 .. cap - 1 :
          new[j].key # None /\ Passes(new, cap, j, m) => new[m].key \notin {None, new[j].key}
    BY <1>6
  <2>2. \A j \in 0 .. cap - 1 : new[j].key # None => ~Passes(new, cap, j, w)
    BY <1>6
  <2> QED BY <1>3, <2>1, <2>2 DEF TableSound
<1> HIDE DEF Held
<1>8. ASSUME NEW j \in 0 .. cap - 1, new[j].key # None
      PROVE  \E m \in 0 .. cap - 1 : m # i /\ new[j] = tab[m]
  <2>1. j \in Held /\ new[j] = s.tab[j]
    BY <1>4, <1>8
  <2> QED BY <1>1, <2>1
<1>9. \A m \in 0 .. cap - 1 : m # i /\ tab[m].key # None => \E j \in 0 .. cap - 1 : new[j] = tab[m]
  BY <1>1, <1>5
<1> QED BY <1>7, <1>8, <1>9 DEF Without

\* Deletion takes one entry and leaves the others where probes find them.
LEMMA ClosedIs ==
  ASSUME MapConstants, hash \in [Keys -> Nat], NEW cap \in Nat \ {0}, NEW tab,
         TableSound(tab, cap), NEW i \in 0 .. cap - 1
  PROVE  Without(Closed(tab, i), tab, i, cap)
<1> DEFINE S == States(cap)
           base == [tab |-> tab, hole |-> i, open |-> TRUE]
           D == [n \in 1 .. cap |-> [x \in S |-> Shift(x, i, n, cap)]]
           Walk(f) == [n \in 0 .. cap |-> IF n = 0 THEN base ELSE Shift(f[n - 1], i, n, cap)]
           g == CHOOSE f : f = Walk(f)
<1>1. Closed(tab, i) = [g[cap].tab EXCEPT ![g[cap].hole] = Free]
  <2>1. Cardinality(DOMAIN tab) = cap
    <3>1. DOMAIN tab = 0 .. cap - 1
      BY DEF TableSound
    <3> QED BY <3>1, TableSize
  <2> QED BY <2>1 DEF Closed
<1>2. PICK w \in 0 .. cap - 1 : \A j \in 0 .. cap - 1 : tab[j].key # None => ~Passes(tab, cap, j, w)
  BY DEF TableSound
<1>3. base \in S /\ ShiftInv(base, tab, i, w, 0, cap)
  <2> HIDE DEF base
  <2>1. base = [tab |-> tab, hole |-> i, open |-> TRUE]
    BY DEF base
  <2> QED BY <1>2, <2>1, ShiftStarts
<1> HIDE DEF base
<1>4. \E f : Iteration(f, S, base, cap, D)
  <2>1. D \in [1 .. cap -> [S -> S]]
    BY ShiftCases
  <2> HIDE DEF S, D
  <2>2. cap \in Nat
    OBVIOUS
  <2> QED BY <1>3, <2>1, <2>2, Iterates
<1>5. \E f : f = Walk(f)
  <2>1. PICK f \in [0 .. cap -> S] :
          f[0] = base /\ \A n \in 1 .. cap : f[n] = D[n][f[n - 1]]
    <3> HIDE DEF S, D
    <3> QED BY <1>4 DEF Iteration
  <2>2. \A n \in 1 .. cap : f[n] = Shift(f[n - 1], i, n, cap)
    <3> SUFFICES ASSUME NEW n \in 1 .. cap PROVE f[n] = Shift(f[n - 1], i, n, cap)
      OBVIOUS
    <3>1. n - 1 \in 0 .. cap
      OBVIOUS
    <3>2. f[n - 1] \in S
      BY <2>1, <3>1
    <3>3. D[n][f[n - 1]] = Shift(f[n - 1], i, n, cap)
      <4> HIDE DEF S
      <4> QED BY <3>2
    <3> QED BY <2>1, <3>3
  <2>3. f = [n \in 0 .. cap |-> f[n]]
    BY <2>1
  <2>4. \A n \in 0 .. cap : f[n] = IF n = 0 THEN base ELSE Shift(f[n - 1], i, n, cap)
    BY <2>1, <2>2
  <2>5. f = Walk(f)
    BY <2>3, <2>4
  <2> QED BY <2>5
<1>6. g = Walk(g)
  <2> HIDE DEF Walk
  <2> QED BY <1>5
<1> HIDE DEF g
<1> DEFINE T == {n \in Nat : n <= cap => g[n] \in S /\ ShiftInv(g[n], tab, i, w, n, cap)}
<1>7. 0 \in T
  <2>1. g[0] = base
    BY <1>6
  <2> HIDE DEF S
  <2> QED BY <1>3, <2>1
<1>8. ASSUME NEW n \in Nat, n \in T PROVE n + 1 \in T
  <2> SUFFICES ASSUME n + 1 <= cap
               PROVE  g[n + 1] \in S /\ ShiftInv(g[n + 1], tab, i, w, n + 1, cap)
    OBVIOUS
  <2>1. n + 1 \in 1 .. cap /\ n + 1 \in 0 .. cap /\ n + 1 # 0 /\ n + 1 - 1 = n
    OBVIOUS
  <2>2. g[n] \in S /\ ShiftInv(g[n], tab, i, w, n, cap)
    BY <1>8
  <2>3. g[n + 1] = Shift(g[n + 1 - 1], i, n + 1, cap)
    BY <1>6, <2>1
  <2>4. PICK x, y, m : x = g[n] /\ y = g[n + 1] /\ m = n + 1
    OBVIOUS
  <2>5. /\ x \in States(cap) /\ m \in 1 .. cap /\ ShiftInv(x, tab, i, w, m - 1, cap)
        /\ y = Shift(x, i, m, cap)
    BY <2>1, <2>2, <2>3, <2>4
  <2>6. y \in States(cap) /\ ShiftInv(y, tab, i, w, m, cap)
    BY <2>5, ShiftKeeps
  <2> QED BY <2>4, <2>6
<1> HIDE DEF T
<1>9. Nat \subseteq T
  BY <1>7, <1>8, SetInduction
<1>10. PICK s, new : s = g[cap] /\ new = [s.tab EXCEPT ![s.hole] = Free]
  OBVIOUS
<1>11. s \in States(cap) /\ ShiftInv(s, tab, i, w, cap, cap)
  BY <1>9, <1>10 DEF T
<1>12. new = Closed(tab, i)
  BY <1>1, <1>10
<1>13. Without(new, tab, i, cap)
  <2>1. s.tab \in [0 .. cap - 1 -> Entries] /\ s.hole \in 0 .. cap - 1 /\ Free \in Entries
    BY <1>11 DEF States, Entries
  <2>2. /\ new \in [0 .. cap - 1 -> Entries] /\ new[s.hole] = Free
        /\ \A j \in 0 .. cap - 1 : j # s.hole => new[j] = s.tab[j]
    BY <1>10, <2>1
  <2> QED BY <1>11, <2>2, ShiftEnds
<1> QED BY <1>12, <1>13

-----------------------------------------------------------------------------
(* The table implements the map.                                           *)

\* Two tables with the same entry for q, or none.
LEMMA FoundCarries ==
  ASSUME MapConstants, hash \in [Keys -> Nat], NEW q \in Keys,
         NEW cap \in Nat \ {0}, NEW tab, TableSound(tab, cap),
         NEW size \in Nat \ {0}, NEW new, TableSound(new, size),
         \A j \in 0 .. cap - 1 : tab[j].key = q => \E m \in 0 .. size - 1 : new[m] = tab[j],
         \A m \in 0 .. size - 1 : new[m].key = q => \E j \in 0 .. cap - 1 : new[m] = tab[j]
  PROVE  Found(new, q) = Found(tab, q)
<1>1. CASE \E j \in 0 .. cap - 1 : tab[j].key = q
  <2>1. PICK j \in 0 .. cap - 1 : tab[j].key = q
    BY <1>1
  <2>2. PICK m \in 0 .. size - 1 : new[m] = tab[j]
    BY <2>1
  <2>3. Found(tab, q) = tab[j].class
    BY <2>1, FoundIs
  <2>4. Found(new, q) = new[m].class
    BY <2>1, <2>2, FoundIs
  <2> QED BY <2>2, <2>3, <2>4
<1>2. CASE \A j \in 0 .. cap - 1 : tab[j].key # q
  <2>1. \A m \in 0 .. size - 1 : new[m].key # q
    BY <1>2
  <2>2. Found(tab, q) = None
    BY <1>2, FoundIs
  <2>3. Found(new, q) = None
    BY <2>1, FoundIs
  <2> QED BY <2>2, <2>3
<1> QED BY <1>1, <1>2

\* A sound table of size cap that finds what entries does.
Same(tab, size) == TableSound(tab, size) /\ \A q \in Keys : Found(tab, q) = Found(entries, q)

\* The table an insertion works on finds what the old one does.
LEMMA ReadyIs ==
  ASSUME MapConstants, hash \in [Keys -> Nat], NEW cap \in Nat \ {0}, TableSound(entries, cap),
         NEW grow \in BOOLEAN
  PROVE  \E size \in Nat \ {0} : Same(Ready(grow), size)
<1>1. CASE grow
  <2>1. PICK new, size : new = Grown(entries) /\ size = 2 * cap
    OBVIOUS
  <2>2. TableSound(new, size) /\ Copies(new, entries, cap) /\ size \in Nat \ {0}
    BY <2>1, GrownIs
  <2>3. DOMAIN new = 0 .. size - 1
    BY <2>2 DEF TableSound
  <2>4. ASSUME NEW q \in Keys PROVE Found(new, q) = Found(entries, q)
    <3>1. q # None /\ Free.key = None
      BY DEF MapConstants, Free
    <3>2. \A j \in 0 .. cap - 1 : entries[j].key = q => \E m \in 0 .. size - 1 : new[m] = entries[j]
      BY <2>2, <2>3, <3>1 DEF Copies
    <3>3. \A m \in 0 .. size - 1 : new[m].key = q => \E j \in 0 .. cap - 1 : new[m] = entries[j]
      BY <2>2, <2>3, <3>1 DEF Copies
    <3> QED BY <2>2, <3>2, <3>3, FoundCarries
  <2>5. Ready(grow) = new
    BY <1>1, <2>1 DEF Ready
  <2> QED BY <2>2, <2>4, <2>5 DEF Same
<1>2. CASE ~grow
  BY <1>2 DEF Ready, Same
<1> QED BY <1>1, <1>2

\* A sound table that differs from tab in what it has for k.
Puts(new, tab, cap, k, c) ==
  /\ TableSound(new, cap) /\ Found(new, k) = c
  /\ \A q \in Keys : q # k => Found(new, q) = Found(tab, q)

\* An entry for k is put where the probe for k stops.
LEMMA PutFinds ==
  ASSUME MapConstants, hash \in [Keys -> Nat], NEW cap \in Nat \ {0}, NEW tab,
         TableSound(tab, cap), NEW k \in Keys, NEW c \in Classes,
         NEW p, p = Probe(tab, k), tab[p].key \in {None, k},
         NEW new \in [0 .. cap - 1 -> Entries], new[p] = [key |-> k, class |-> c],
         \A i \in 0 .. cap - 1 : i # p => new[i] = tab[i]
  PROVE  Puts(new, tab, cap, k, c)
<1>1. tab \in [0 .. cap - 1 -> Entries] /\ DOMAIN tab = 0 .. cap - 1 /\ k # None
  BY DEF TableSound, MapConstants
<1>2. p \in 0 .. cap - 1
  BY <1>1, ProbeIs
<1>3. \A i \in 0 .. cap - 1 : i # p => new[i] = tab[i]
  OBVIOUS
<1>4. new[p].key = k /\ new[p].class = c
  OBVIOUS
<1>5. TableSound(new, cap)
  BY <1>3, <1>4, InsertKeeps
<1>6. Found(new, k) = c
  BY <1>2, <1>4, <1>5, FoundIs
<1>7. ASSUME NEW q \in Keys, q # k PROVE Found(new, q) = Found(tab, q)
  <2>1. q # None
    BY DEF MapConstants
  <2>2. \A j \in 0 .. cap - 1 : tab[j].key = q => j # p
    BY <1>7, <2>1
  <2>3. \A j \in 0 .. cap - 1 : new[j].key = q => j # p
    BY <1>4, <1>7
  <2>4. \A j \in 0 .. cap - 1 : tab[j].key = q => new[j] = tab[j]
    BY <1>3, <2>2
  <2>5. \A j \in 0 .. cap - 1 : new[j].key = q => new[j] = tab[j]
    BY <1>3, <2>3
  <2> QED BY <1>5, <2>4, <2>5, FoundCarries
<1> QED BY <1>5, <1>6, <1>7 DEF Puts

\* The entry of k is taken out.
LEMMA TakeFinds ==
  ASSUME MapConstants, hash \in [Keys -> Nat], NEW cap \in Nat \ {0}, NEW tab,
         TableSound(tab, cap), NEW k \in Keys,
         NEW p \in 0 .. cap - 1, tab[p].key = k,
         NEW new, Without(new, tab, p, cap)
  PROVE  /\ Found(tab, k) = tab[p].class /\ Found(new, k) = None
         /\ \A q \in Keys : q # k => Found(new, q) = Found(tab, q)
<1>1. TableSound(new, cap) /\ k # None
  BY DEF Without, MapConstants
<1>2. \A m \in 0 .. cap - 1 : tab[m].key = k => m = p
  BY <1>1, ProbeFinds
<1>3. ASSUME NEW j \in 0 .. cap - 1, new[j].key = k PROVE FALSE
  <2>1. PICK m \in 0 .. cap - 1 : m # p /\ new[j] = tab[m]
    BY <1>1, <1>3 DEF Without
  <2> QED BY <1>2, <1>3, <2>1
<1>4. Found(tab, k) = tab[p].class
  BY FoundIs
<1>5. Found(new, k) = None
  BY <1>1, <1>3, FoundIs
<1>6. ASSUME NEW q \in Keys, q # k PROVE Found(new, q) = Found(tab, q)
  <2>1. q # None
    BY DEF MapConstants
  <2>2. \A j \in 0 .. cap - 1 : tab[j].key = q => \E m \in 0 .. cap - 1 : new[m] = tab[j]
    BY <1>6, <2>1 DEF Without
  <2>3. \A m \in 0 .. cap - 1 : new[m].key = q => \E j \in 0 .. cap - 1 : new[m] = tab[j]
    BY <2>1 DEF Without
  <2> QED BY <1>1, <2>2, <2>3, FoundCarries
<1> QED BY <1>4, <1>5, <1>6

\* The keys that are found are as many as the indices that are not empty.
LEMMA CountIs ==
  ASSUME MapConstants, hash \in [Keys -> Nat], NEW cap \in Nat \ {0}, NEW tab, TableSound(tab, cap)
  PROVE  LET stored == {k \in Keys : Found(tab, k) # None}
         IN  /\ IsFiniteSet(stored)
             /\ Cardinality(stored) = Cardinality({i \in DOMAIN tab : tab[i].key # None})
<1> DEFINE S == {i \in 0 .. cap - 1 : tab[i].key # None}
           T == {k \in Keys : Found(tab, k) # None}
           f == [i \in S |-> tab[i].key]
<1>1. tab \in [0 .. cap - 1 -> Entries] /\ None \notin Keys \cup Classes
  BY DEF TableSound, MapConstants
<1>2. IsFiniteSet(S)
  <2>1. IsFiniteSet(0 .. cap - 1) /\ S \in SUBSET (0 .. cap - 1)
    BY FS_Interval
  <2> HIDE DEF S
  <2> QED BY <2>1, FS_Subset
<1>3. \A i \in S : tab[i].key \in T
  <2> SUFFICES ASSUME NEW i \in S PROVE tab[i].key \in Keys /\ Found(tab, tab[i].key) # None
    OBVIOUS
  <2>1. tab[i].key \in Keys /\ tab[i].class \in Classes
    BY <1>1, EntryIs
  <2>2. Found(tab, tab[i].key) = tab[i].class
    BY <2>1, FoundIs
  <2> QED BY <1>1, <2>1, <2>2
<1>4. \A i, j \in S : f[i] = f[j] => i = j
  <2> SUFFICES ASSUME NEW i \in S, NEW j \in S, tab[i].key = tab[j].key PROVE i = j
    OBVIOUS
  <2>1. Probe(tab, tab[i].key) = i /\ Probe(tab, tab[j].key) = j
    BY ProbeFinds
  <2> QED BY <2>1
<1>5. \A k \in T : \E i \in S : f[i] = k
  <2> SUFFICES ASSUME NEW k \in Keys, Found(tab, k) # None PROVE \E i \in S : f[i] = k
    OBVIOUS
  <2>1. PICK i \in 0 .. cap - 1 : tab[i].key = k
    BY FoundIs
  <2>2. i \in S
    BY <1>1, <2>1
  <2> QED BY <2>1, <2>2
<1>6. f \in [S -> T]
  BY <1>3
<1>7. S = {i \in DOMAIN tab : tab[i].key # None}
  BY <1>1
<1> HIDE DEF S, T, f
<1>8. f \in Bijection(S, T)
  <2>1. IsInjective(f)
    BY <1>4, <1>6 DEF IsInjective
  <2> QED BY <1>5, <1>6, <2>1 DEF Bijection, Injection, Surjection
<1>9. ExistsBijection(S, T)
  BY <1>8 DEF ExistsBijection
<1> QED BY <1>2, <1>7, <1>9, FS_Bijection DEF T

\* What is found after a step is what is found now in the table it leaves.
LEMMA SameHash ==
  ASSUME hash' = hash
  PROVE  /\ \A k \in Keys : Recorded(k)' = Found(entries', k)
         /\ \A cap : TableSound(entries, cap)' = TableSound(entries', cap)
<1>1. \A k \in Keys : Recorded(k)' = Found(entries', k)
  BY DEF Recorded, Found, Probe, buf_map_hash
<1>2. \A cap : TableSound(entries, cap)' = TableSound(entries', cap)
  BY DEF TableSound, Passes, buf_map_hash
<1> QED BY <1>1, <1>2

\* A call keeps the invariant and is a call of the map.
LEMMA MapStep ==
  ASSUME MapConstants, MapInv, Next
  PROVE  MapInv' /\ Abstract!Next
<1> DEFINE class_of == [k \in Keys |-> Recorded(k)]
<1>1. PICK cap \in Nat \ {0} : TableSound(entries, cap)
  BY DEF MapInv
<1>2. hash \in [Keys -> Nat] /\ hash' = hash
  BY DEF MapInv, Next, buf_size_map_insert, buf_size_map_remove
<1>3. \A k \in Keys : Recorded(k)' = Found(entries', k) /\ Recorded(k) = Found(entries, k)
  BY <1>2, SameHash DEF Recorded
<1>4. \A n : TableSound(entries, n)' = TableSound(entries', n)
  BY <1>2, SameHash
<1> DEFINE stored == {k \in Keys : Found(entries, k) # None}
           now == {k \in Keys : Found(entries', k) # None}
<1>5. ASSUME NEW n \in Nat \ {0}, TableSound(entries', n), count' = Cardinality(now) PROVE MapInv'
  <2>1. now = {k \in Keys : Recorded(k)' # None}
    BY <1>3
  <2> QED BY <1>2, <1>4, <1>5, <2>1 DEF MapInv
<1>c. IsFiniteSet(stored) /\ count = Cardinality(stored)
  <2>1. stored = {k \in Keys : Recorded(k) # None}
    BY <1>3
  <2>2. count = Cardinality(stored)
    BY <2>1 DEF MapInv
  <2> QED BY <1>1, <1>2, <2>2, CountIs
<1>n. None \notin Keys \cup Classes
  BY DEF MapConstants
\* What a step records, from what the tables find.
<1>6. ASSUME NEW k \in Keys, NEW x, Found(entries', k) = x,
             \A q \in Keys : q # k => Found(entries', q) = Found(entries, q)
      PROVE  class_of' = [class_of EXCEPT ![k] = x]
  <2>1. class_of' = [q \in Keys |-> Found(entries', q)]
    BY <1>3
  <2>2. class_of = [q \in Keys |-> Found(entries, q)]
    BY <1>3
  <2> HIDE DEF class_of
  <2> QED BY <1>6, <2>1, <2>2
<1>7. ASSUME \A q \in Keys : Found(entries', q) = Found(entries, q) PROVE class_of' = class_of
  BY <1>3, <1>7
<1>8. ASSUME NEW k \in Keys, buf_size_map_remove(k) PROVE MapInv' /\ Abstract!Next
  <2>1. PICK p : p = Probe(entries, k)
    OBVIOUS
  <2>2. p \in 0 .. cap - 1 /\ DOMAIN entries = 0 .. cap - 1 /\ entries[p] \in Entries
    <3>1. DOMAIN entries = 0 .. cap - 1
      BY <1>1 DEF TableSound
    <3>2. p \in 0 .. cap - 1
      BY <1>2, <2>1, <3>1, ProbeIs
    <3> QED BY <1>1, <3>1, <3>2 DEF TableSound
  <2>3. CASE entries[p].key = k
    <3>1. ret' = entries[p].class /\ entries' = Closed(entries, p) /\ count' = count - 1
      BY <1>8, <2>1, <2>3 DEF buf_size_map_remove
    <3>2. Without(entries', entries, p, cap)
      BY <1>1, <1>2, <2>2, <3>1, ClosedIs
    <3>3. /\ Found(entries, k) = entries[p].class /\ Found(entries', k) = None
          /\ \A q \in Keys : q # k => Found(entries', q) = Found(entries, q)
      BY <1>1, <1>2, <2>2, <2>3, <3>2, TakeFinds
    <3>4. class_of' = [class_of EXCEPT ![k] = None]
      BY <1>6, <3>3
    <3>5. entries[p].class # None
      BY <2>2, <2>3, EntryIs DEF MapConstants
    <3>6. ret' = IF class_of[k] = None THEN Failed ELSE class_of[k]
      BY <1>3, <3>1, <3>3, <3>5
    <3>7. MapInv'
      <4>1. now = stored \ {k} /\ k \in stored
        BY <3>3, <3>5
      <4> HIDE DEF now, stored
      <4>2. count' = Cardinality(now)
        BY <1>c, <3>1, <4>1, FS_RemoveElement
      <4> QED BY <1>5, <3>2, <4>2 DEF Without
    <3> QED BY <3>4, <3>6, <3>7 DEF Abstract!Next, Abstract!Remove
  <2>4. CASE entries[p].key # k
    <3>1. ret' = Failed /\ entries' = entries /\ count' = count
      BY <1>8, <2>1, <2>4 DEF buf_size_map_remove
    <3>2. Found(entries, k) = None
      BY <2>1, <2>4 DEF Found
    <3>3. class_of' = [class_of EXCEPT ![k] = None]
      BY <1>6, <3>1, <3>2
    <3>4. ret' = IF class_of[k] = None THEN Failed ELSE class_of[k]
      BY <1>3, <3>1, <3>2
    <3>5. MapInv'
      BY <1>1, <1>5, <1>c, <3>1
    <3> QED BY <3>3, <3>4, <3>5 DEF Abstract!Next, Abstract!Remove
  <2> QED BY <2>3, <2>4
<1>9. ASSUME NEW k \in Keys, NEW c \in Classes, NEW memory \in BOOLEAN,
             buf_size_map_insert(k, c, memory)
      PROVE  MapInv' /\ Abstract!Next
  <2> DEFINE crowded == count * 4 >= capacity * 3
             grow == crowded /\ capacity < MaxCapacity
  <2>1. PICK tab, p : tab = Ready(grow) /\ p = Probe(tab, k)
    OBVIOUS
  <2>2. grow \in BOOLEAN
    OBVIOUS
  <2>3. \/ ret' = Failed /\ entries' = entries /\ count' = count
        \/ ret' = Failed /\ entries' = tab /\ count' = count
        \/ /\ ret' = "ok" /\ entries' = [tab EXCEPT ![p] = [key |-> k, class |-> c]]
           /\ tab[p].key \in {None, k}
           /\ count' = IF tab[p].key = None THEN count + 1 ELSE count
    BY <1>9, <2>1 DEF buf_size_map_insert
  <2> HIDE DEF grow
  <2>4. PICK size \in Nat \ {0} : Same(tab, size)
    BY <1>1, <1>2, <2>1, <2>2, ReadyIs
  <2>5. ASSUME NEW n \in Nat \ {0}, Same(entries', n), ret' = Failed, count' = count
        PROVE  MapInv' /\ Abstract!Next
    <3>1. class_of' = class_of
      BY <1>7, <2>5 DEF Same
    <3>2. MapInv'
      <4>1. now = stored
        BY <2>5 DEF Same
      <4> QED BY <1>5, <1>c, <2>5, <4>1 DEF Same
    <3> QED BY <2>5, <3>1, <3>2 DEF Abstract!Next, Abstract!Insert
  <2>6. CASE ret' = Failed /\ entries' = entries /\ count' = count
    <3>1. Same(entries', cap)
      BY <1>1, <2>6 DEF Same
    <3> QED BY <2>5, <2>6, <3>1
  <2>7. CASE ret' = Failed /\ entries' = tab /\ count' = count
    BY <2>4, <2>5, <2>7
  <2>8. CASE /\ ret' = "ok" /\ entries' = [tab EXCEPT ![p] = [key |-> k, class |-> c]]
             /\ tab[p].key \in {None, k}
             /\ count' = IF tab[p].key = None THEN count + 1 ELSE count
    <3>1. TableSound(tab, size) /\ \A q \in Keys : Found(tab, q) = Found(entries, q)
      BY <2>4 DEF Same
    <3>2. PICK new : new = entries'
      OBVIOUS
    <3>3. /\ TableSound(new, size) /\ Found(new, k) = c
          /\ \A q \in Keys : q # k => Found(new, q) = Found(tab, q)
      <4>1. tab \in [0 .. size - 1 -> Entries] /\ [key |-> k, class |-> c] \in Entries
        BY <3>1 DEF TableSound, Entries
      <4>2. p \in 0 .. size - 1
        BY <1>2, <2>1, <4>1, ProbeIs
      <4>3. new = [tab EXCEPT ![p] = [key |-> k, class |-> c]]
        BY <2>8, <3>2
      <4>4. /\ new \in [0 .. size - 1 -> Entries] /\ new[p] = [key |-> k, class |-> c]
            /\ \A i \in 0 .. size - 1 : i # p => new[i] = tab[i]
        BY <4>1, <4>2, <4>3
      <4>5. p = Probe(tab, k) /\ tab[p].key \in {None, k}
        BY <2>1, <2>8
      <4>6. Puts(new, tab, size, k, c)
        BY <1>2, <3>1, <4>4, <4>5, PutFinds
      <4> QED BY <4>6 DEF Puts
    <3>4. class_of' = [class_of EXCEPT ![k] = c]
      BY <1>6, <3>1, <3>2, <3>3
    <3>5. MapInv'
      <4>1. now = stored \cup {k}
        BY <1>n, <3>1, <3>2, <3>3
      <4>2. k \in stored <=> tab[p].key # None
        <5>1. Found(tab, k) # None <=> tab[p].key = k
          <6>1. tab \in [0 .. size - 1 -> Entries]
            BY <3>1 DEF TableSound
          <6>2. tab[p] \in Entries
            BY <1>2, <2>1, <6>1, ProbeIs
          <6>3. tab[p].key # None => tab[p].class # None
            BY <1>n, <6>2, EntryIs
          <6> QED BY <1>n, <2>1, <6>3 DEF Found
        <5> QED BY <1>n, <2>8, <3>1, <5>1
      <4> HIDE DEF now, stored
      <4>3. count' = Cardinality(now)
        BY <1>c, <2>8, <4>1, <4>2, FS_AddElement
      <4> QED BY <1>5, <3>2, <3>3, <4>3
    <3> QED BY <2>8, <3>4, <3>5 DEF Abstract!Next, Abstract!Insert
  <2> QED BY <2>3, <2>6, <2>7, <2>8
<1> QED BY <1>8, <1>9 DEF Next

\* The invariant holds at first and is kept, and every step is one of the map.
LEMMA MapInvariant ==
  ASSUME MapConstants
  PROVE  /\ Init => MapInv /\ Abstract!Init
         /\ MapInv /\ [Next]_vars =>
              MapInv' /\ [Abstract!Next]_<<[k \in Keys |-> Recorded(k)], ret>>
<1>1. Init => MapInv /\ Abstract!Init
  <2> SUFFICES ASSUME Init PROVE MapInv /\ Abstract!Init
    OBVIOUS
  <2>1. hash \in [Keys -> Nat] /\ InitialCapacity \in Nat \ {0}
    BY DEF Init, MapConstants
  <2>2. TableSound(entries, InitialCapacity) /\ \A i \in 0 .. InitialCapacity - 1 : entries[i] = Free
    BY <2>1, EmptySound DEF Init
  <2>3. \A k \in Keys : Recorded(k) = None
    <3> SUFFICES ASSUME NEW k \in Keys PROVE Found(entries, k) = None
      BY DEF Recorded
    <3>1. \A i \in 0 .. InitialCapacity - 1 : entries[i].key # k
      BY <2>2 DEF Free, MapConstants
    <3> QED BY <2>1, <2>2, <3>1, FoundIs
  <2>4. count = Cardinality({k \in Keys : Recorded(k) # None})
    <3>1. {k \in Keys : Recorded(k) # None} = {}
      BY <2>3
    <3> QED BY <3>1, FS_EmptySet DEF Init
  <2> QED BY <2>1, <2>2, <2>3, <2>4 DEF MapInv, Abstract!Init, Init
<1>2. MapInv /\ [Next]_vars =>
        MapInv' /\ [Abstract!Next]_<<[k \in Keys |-> Recorded(k)], ret>>
  <2> SUFFICES ASSUME MapInv, [Next]_vars
               PROVE  MapInv' /\ [Abstract!Next]_<<[k \in Keys |-> Recorded(k)], ret>>
    OBVIOUS
  <2>1. CASE Next
    BY <2>1, MapStep
  <2>2. CASE UNCHANGED vars
    <3>1. hash' = hash /\ entries' = entries /\ ret' = ret
      BY <2>2 DEF vars
    <3>2. \A k \in Keys : Recorded(k)' = Recorded(k)
      BY <3>1, SameHash DEF Recorded
    <3>3. MapInv'
      <4>1. {k \in Keys : Recorded(k) # None} = {k \in Keys : Recorded(k)' # None} /\ count' = count
        BY <2>2, <3>2 DEF vars
      <4> QED BY <3>1, <4>1, SameHash DEF MapInv
    <3> QED BY <3>1, <3>2, <3>3
  <2> QED BY <2>1, <2>2
<1> QED BY <1>1, <1>2

\* buf_size_map_t implements a map from buffers to size classes: whatever the
\* addresses hash to, an insertion, with or without growth, sets the class of
\* its own buffer or changes nothing, and a removal with its shifting deletion
\* returns and forgets the class of its own buffer only.
THEOREM SizeMapImplementsMap ==
  ASSUME MapConstants PROVE Spec => ImplementsMap
BY MapInvariant, PTL DEF Spec, ImplementsMap, Abstract!Spec

\* The probe of every stored key ends at its one entry, and count, on which
\* growth and refusal depend, is the number of entries.
THEOREM SizeMapChainsUnbroken ==
  ASSUME MapConstants PROVE Spec => []ChainsUnbroken
<1>1. ASSUME MapInv PROVE ChainsUnbroken
  <2>1. PICK cap \in Nat \ {0} : TableSound(entries, cap)
    BY <1>1 DEF MapInv
  <2>2. hash \in [Keys -> Nat] /\ DOMAIN entries = 0 .. cap - 1
    BY <1>1, <2>1 DEF MapInv, TableSound
  <2>3. \A i \in DOMAIN entries : entries[i].key # None => Probe(entries, entries[i].key) = i
    BY <2>1, <2>2, ProbeFinds
  <2>4. count = Cardinality({k \in Keys : Found(entries, k) # None})
    BY <1>1 DEF MapInv, Recorded
  <2>5. count = Cardinality({i \in DOMAIN entries : entries[i].key # None})
    BY <2>1, <2>2, <2>4, CountIs
  <2> QED BY <2>3, <2>5 DEF ChainsUnbroken
<1> QED BY <1>1, MapInvariant, PTL DEF Spec

-----------------------------------------------------------------------------
(* The C++ interface *)

CONSTANTS Ops, Shards, InitialSize, Buffers, OtherThreads
VARIABLES contexts, free_head, op, ctx, ran, alive, handle, pool, buffer

Cpp == INSTANCE CppEngine

\* Cardinality is the same in the instance.
LEMMA SameCardinality ==
  ASSUME NEW S PROVE Cpp!Cardinality(S) = Cardinality(S)
BY DEF Cpp!Cardinality, Cardinality, Cpp!IsFiniteSet, IsFiniteSet

\* The size of a shard.
LEMMA SizeOf ==
  ASSUME NEW s \in Shards, NEW n \in Nat, contexts[s] \in [0 .. n - 1 -> Cpp!Contexts]
  PROVE  Cpp!Cardinality(DOMAIN contexts[s]) = n
<1>1. DOMAIN contexts[s] = 0 .. n - 1
  OBVIOUS
<1>2. Cardinality(0 .. n - 1) = n
  <2>1. 0 \in Int /\ n - 1 \in Int /\ (0 > n - 1 => n = 0) /\ n - 1 - 0 + 1 = n
    OBVIOUS
  <2> QED BY <2>1, FS_Interval
<1> QED BY <1>1, <1>2, SameCardinality

\* A cleared context with a link, and the contexts of a new shard or half.
LEMMA Cleared ==
  ASSUME NEW v \in Int
  PROVE  LET e == [Cpp!Empty EXCEPT !.next = v]
         IN  e \in Cpp!Contexts /\ e.next = v /\ e.callback = None /\ ~e.on_complete
BY DEF Cpp!Empty, Cpp!Contexts

\* The i-th context of the free list.
LEMMA ChainedAt ==
  ASSUME NEW a \in Int, NEW b \in Int, NEW k \in a .. b - 1
  PROVE  LET e == Cpp!Chained(a, b)[k]
         IN  /\ e \in Cpp!Contexts /\ e.next = (IF k = b - 1 THEN Cpp!End ELSE k + 1)
             /\ e.callback = None /\ ~e.on_complete
<1> DEFINE v == IF k = b - 1 THEN Cpp!End ELSE k + 1
<1>1. v \in Int
  BY DEF Cpp!End
<1>2. Cpp!Chained(a, b)[k] = [Cpp!Empty EXCEPT !.next = v]
  BY DEF Cpp!Chained
<1> HIDE DEF v
<1>3. LET e == Cpp!Chained(a, b)[k]
      IN  e \in Cpp!Contexts /\ e.next = v /\ e.callback = None /\ ~e.on_complete
  BY <1>1, <1>2, Cleared
<1> QED BY <1>3 DEF v

\* Marking a context in use changes nothing else of it.
LEMMA Taken ==
  ASSUME NEW e \in Cpp!Contexts
  PROVE  LET f == [e EXCEPT !.next = Cpp!InUse]
         IN  /\ f \in Cpp!Contexts /\ f.next = Cpp!InUse
             /\ f.callback = e.callback /\ f.on_complete = e.on_complete
BY DEF Cpp!Contexts, Cpp!InUse

\* A step that leaves the links, the heads and the holders of a shard alone.
LEMMA SameList ==
  ASSUME NEW s \in Shards, Cpp!ShardSound(s),
         contexts'[s] \in [DOMAIN contexts[s] -> Cpp!Contexts],
         \A k \in DOMAIN contexts[s] :
           /\ contexts'[s][k].next = contexts[s][k].next
           /\ contexts'[s][k] = contexts[s][k] \/ k \in Cpp!Used(s),
         free_head'[s] = free_head[s], Cpp!Used(s)' = Cpp!Used(s)
  PROVE  Cpp!ShardSound(s)'
<1>1. DOMAIN contexts'[s] = DOMAIN contexts[s]
  OBVIOUS
<1>2. PICK m \in Nat : \E q \in [1 .. m -> DOMAIN contexts[s]] : Cpp!FreeList(s, m, q)
  BY DEF Cpp!ShardSound
<1>3. PICK q \in [1 .. m -> DOMAIN contexts[s]] : Cpp!FreeList(s, m, q)
  BY <1>2
<1>4. Cpp!FreeList(s, m, q)'
  <2>1. \A i \in 1 .. m : contexts'[s][q[i]].next = contexts[s][q[i]].next
    BY <1>3
  <2> QED BY <1>1, <1>3, <2>1 DEF Cpp!FreeList
<1>5. \E n \in Nat : n >= 2 /\ contexts'[s] \in [0 .. n - 1 -> Cpp!Contexts]
  BY <1>1 DEF Cpp!ShardSound
<1>6. \A k \in DOMAIN contexts'[s] :
        k \in Cpp!Used(s)' \/ (contexts'[s][k].callback = None /\ ~contexts'[s][k].on_complete)
  BY <1>1 DEF Cpp!ShardSound
<1>7. q \in [1 .. m -> DOMAIN contexts'[s]]
  BY <1>1, <1>3
<1> QED BY <1>4, <1>5, <1>6, <1>7 DEF Cpp!ShardSound, Cpp!Contexts

\* The head of a free list is handed out.
LEMMA PopKeeps ==
  ASSUME NEW s \in Shards, Cpp!ShardSound(s), DOMAIN contexts = Shards,
         DOMAIN free_head = Shards, free_head[s] >= 0,
         Cpp!Pop(s), Cpp!Used(s)' = Cpp!Used(s) \cup {free_head[s]}
  PROVE  /\ Cpp!ShardSound(s)'
         /\ free_head[s] \in DOMAIN contexts[s] /\ free_head[s] \notin Cpp!Used(s)
<1>1. PICK m \in Nat : \E q \in [1 .. m -> DOMAIN contexts[s]] : Cpp!FreeList(s, m, q)
  BY DEF Cpp!ShardSound
<1>2. PICK q \in [1 .. m -> DOMAIN contexts[s]] : Cpp!FreeList(s, m, q)
  BY <1>1
<1>3. m # 0 /\ free_head[s] = q[1] /\ 1 \in 1 .. m
  BY <1>2 DEF Cpp!FreeList, Cpp!End
<1>4. free_head[s] \in DOMAIN contexts[s] /\ free_head[s] \notin Cpp!Used(s)
  BY <1>2, <1>3 DEF Cpp!FreeList
<1> DEFINE k == free_head[s]
<1>5. /\ contexts'[s] = [contexts[s] EXCEPT ![k] = [contexts[s][k] EXCEPT !.next = Cpp!InUse]]
      /\ free_head'[s] = contexts[s][k].next
  BY <1>4 DEF Cpp!Pop
<1>6. PICK n \in Nat : n >= 2 /\ contexts[s] \in [0 .. n - 1 -> Cpp!Contexts]
  BY DEF Cpp!ShardSound
<1> HIDE DEF k
<1>7. k \in DOMAIN contexts[s] /\ k = q[1] /\ Cpp!Used(s)' = Cpp!Used(s) \cup {k}
  BY <1>3, <1>4 DEF k
<1>8. /\ contexts'[s] \in [0 .. n - 1 -> Cpp!Contexts] /\ DOMAIN contexts'[s] = DOMAIN contexts[s]
      /\ \A j \in DOMAIN contexts[s] : j # k => contexts'[s][j] = contexts[s][j]
  <2>0. contexts[s][k] \in Cpp!Contexts
    BY <1>6, <1>7
  <2>1. [contexts[s][k] EXCEPT !.next = Cpp!InUse] \in Cpp!Contexts
    BY <2>0 DEF Cpp!Contexts, Cpp!InUse
  <2> QED BY <1>5, <1>6, <1>7, <2>1
<1> DEFINE qq == [i \in 1 .. m - 1 |-> q[i + 1]]
<1>9. m - 1 \in Nat /\ \A i \in 1 .. m - 1 : i + 1 \in 1 .. m /\ i \in 1 .. m
  BY <1>3
<1>10. qq \in [1 .. m - 1 -> DOMAIN contexts[s]] /\ \A i \in 1 .. m - 1 : qq[i] = q[i + 1]
  BY <1>2, <1>9
<1> HIDE DEF qq
<1>11. \A i \in 1 .. m - 1 : qq[i] # k
  BY <1>2, <1>7, <1>9, <1>10 DEF Cpp!FreeList
<1>12. Cpp!FreeList(s, m - 1, qq)'
  <2>1. \A i, j \in 1 .. m - 1 : qq[i] = qq[j] => i = j
    BY <1>2, <1>9, <1>10 DEF Cpp!FreeList
  <2>2. free_head'[s] = IF m - 1 = 0 THEN Cpp!End ELSE qq[1]
    BY <1>2, <1>3, <1>5, <1>7, <1>9, <1>10 DEF Cpp!FreeList
  <2>3. \A i \in 1 .. m - 1 :
          contexts'[s][qq[i]].next = IF i = m - 1 THEN Cpp!End ELSE qq[i + 1]
    <3> SUFFICES ASSUME NEW i \in 1 .. m - 1
                 PROVE  contexts'[s][qq[i]].next = IF i = m - 1 THEN Cpp!End ELSE qq[i + 1]
      OBVIOUS
    <3>1. contexts'[s][qq[i]] = contexts[s][q[i + 1]]
      BY <1>8, <1>10, <1>11
    <3>2. contexts[s][q[i + 1]].next = IF i + 1 = m THEN Cpp!End ELSE q[i + 1 + 1]
      BY <1>2, <1>9 DEF Cpp!FreeList
    <3> QED BY <1>9, <1>10, <3>1, <3>2
  <2>4. \A j \in DOMAIN contexts[s] : j \in Cpp!Used(s)' \/ \E i \in 1 .. m - 1 : qq[i] = j
    <3> SUFFICES ASSUME NEW j \in DOMAIN contexts[s], j \notin Cpp!Used(s), j # k
                 PROVE  \E i \in 1 .. m - 1 : qq[i] = j
      BY <1>7
    <3>1. PICK i \in 1 .. m : q[i] = j
      BY <1>2 DEF Cpp!FreeList
    <3>2. i # 1 /\ i - 1 \in 1 .. m - 1 /\ i - 1 + 1 = i
      BY <1>7, <3>1
    <3> QED BY <1>10, <3>1, <3>2
  <2>5. \A i \in 1 .. m - 1 : qq[i] \notin Cpp!Used(s)'
    BY <1>2, <1>7, <1>9, <1>10, <1>11 DEF Cpp!FreeList
  <2> QED BY <1>8, <1>10, <2>1, <2>2, <2>3, <2>4, <2>5 DEF Cpp!FreeList
<1>13. \A j \in DOMAIN contexts'[s] :
         j \in Cpp!Used(s)' \/ (contexts'[s][j].callback = None /\ ~contexts'[s][j].on_complete)
  BY <1>7, <1>8 DEF Cpp!ShardSound
<1> QED BY <1>4, <1>6, <1>8, <1>9, <1>10, <1>12, <1>13 DEF Cpp!ShardSound, Cpp!Contexts

\* A shard without a free context doubles.
LEMMA GrowKeeps ==
  ASSUME NEW s \in Shards, Cpp!ShardSound(s), DOMAIN contexts = Shards,
         DOMAIN free_head = Shards, ~(free_head[s] >= 0), Cpp!GrowShard(s),
         Cpp!Used(s) \subseteq DOMAIN contexts[s],
         Cpp!Used(s)' = Cpp!Used(s) \cup {Cpp!Cardinality(DOMAIN contexts[s])}
  PROVE  LET n == Cpp!Cardinality(DOMAIN contexts[s])
         IN  /\ Cpp!ShardSound(s)' /\ DOMAIN contexts[s] \subseteq DOMAIN contexts'[s]
             /\ \A k \in DOMAIN contexts[s] : contexts'[s][k] = contexts[s][k]
             /\ n \in DOMAIN contexts'[s] /\ contexts'[s][n].next = Cpp!InUse
             /\ n \notin DOMAIN contexts[s]
<1>1. PICK n \in Nat : n >= 2 /\ contexts[s] \in [0 .. n - 1 -> Cpp!Contexts]
  BY DEF Cpp!ShardSound
<1>2. Cpp!Cardinality(DOMAIN contexts[s]) = n
  BY <1>1, SizeOf
<1> DEFINE grown == [Cpp!Chained(n, 2 * n) EXCEPT ![n].next = Cpp!InUse]
<1>3. /\ contexts'[s] = [k \in 0 .. 2 * n - 1 |-> IF k < n THEN contexts[s][k] ELSE grown[k]]
      /\ free_head'[s] = n + 1
  BY <1>2 DEF Cpp!GrowShard
<1>4. \A k \in n .. 2 * n - 1 :
        /\ grown[k] \in Cpp!Contexts
        /\ grown[k].next = IF k = n THEN Cpp!InUse
                           ELSE IF k = 2 * n - 1 THEN Cpp!End ELSE k + 1
        /\ grown[k].callback = None /\ ~grown[k].on_complete
  <2> SUFFICES ASSUME NEW k \in n .. 2 * n - 1
               PROVE  /\ grown[k] \in Cpp!Contexts
                      /\ grown[k].next = IF k = n THEN Cpp!InUse
                                         ELSE IF k = 2 * n - 1 THEN Cpp!End ELSE k + 1
                      /\ grown[k].callback = None /\ ~grown[k].on_complete
    OBVIOUS
  <2>1. k \in Int /\ n \in Int /\ 2 * n \in Int /\ n \in n .. 2 * n - 1
    BY <1>1
  <2>2. DOMAIN Cpp!Chained(n, 2 * n) = n .. 2 * n - 1
    BY DEF Cpp!Chained
  <2>3. LET e == Cpp!Chained(n, 2 * n)[k]
        IN  /\ e \in Cpp!Contexts /\ e.next = (IF k = 2 * n - 1 THEN Cpp!End ELSE k + 1)
            /\ e.callback = None /\ ~e.on_complete
    BY <2>1, ChainedAt
  <2>4. grown[k] = IF k = n THEN [Cpp!Chained(n, 2 * n)[k] EXCEPT !.next = Cpp!InUse]
                   ELSE Cpp!Chained(n, 2 * n)[k]
    BY <2>1, <2>2
  <2> HIDE DEF grown
  <2> QED BY <2>3, <2>4, Taken
<1> HIDE DEF grown
<1>5. /\ contexts'[s] \in [0 .. 2 * n - 1 -> Cpp!Contexts]
      /\ \A k \in 0 .. n - 1 : contexts'[s][k] = contexts[s][k]
      /\ \A k \in n .. 2 * n - 1 : contexts'[s][k] = grown[k]
  BY <1>1, <1>3, <1>4
<1>6. \A k \in 0 .. n - 1 : k \in Cpp!Used(s)
  <2>1. PICK m \in Nat : \E q \in [1 .. m -> DOMAIN contexts[s]] : Cpp!FreeList(s, m, q)
    BY DEF Cpp!ShardSound
  <2>2. PICK q \in [1 .. m -> DOMAIN contexts[s]] : Cpp!FreeList(s, m, q)
    BY <2>1
  <2>3. m = 0
    <3> SUFFICES ASSUME m # 0 PROVE FALSE
      OBVIOUS
    <3>1. 1 \in 1 .. m /\ free_head[s] = q[1] /\ q[1] \in 0 .. n - 1
      BY <1>1, <2>2 DEF Cpp!FreeList
    <3> QED BY <3>1
  <2> QED BY <1>1, <2>2, <2>3 DEF Cpp!FreeList
<1> DEFINE q == [i \in 1 .. n - 1 |-> n + i]
<1>7. /\ q \in [1 .. n - 1 -> 0 .. 2 * n - 1] /\ n - 1 \in Nat
      /\ \A i \in 1 .. n - 1 : q[i] = n + i /\ n + i \in n .. 2 * n - 1 /\ n + i # n
  BY <1>1
<1>8. Cpp!Used(s) \subseteq 0 .. n - 1 => Cpp!FreeList(s, n - 1, q)'
  <2> SUFFICES ASSUME Cpp!Used(s) \subseteq 0 .. n - 1
               PROVE  Cpp!FreeList(s, n - 1, q)'
    OBVIOUS
  <2>1. free_head'[s] = IF n - 1 = 0 THEN Cpp!End ELSE q[1]
    BY <1>1, <1>3, <1>7
  <2> HIDE DEF q
  <2>2. \A i, j \in 1 .. n - 1 : q[i] = q[j] => i = j
    BY <1>1, <1>7
  <2>3. \A i \in 1 .. n - 1 :
          contexts'[s][q[i]].next = IF i = n - 1 THEN Cpp!End ELSE q[i + 1]
    <3> SUFFICES ASSUME NEW i \in 1 .. n - 1
                 PROVE  contexts'[s][q[i]].next = IF i = n - 1 THEN Cpp!End ELSE q[i + 1]
      OBVIOUS
    <3>1. /\ q[i] = n + i /\ n + i \in n .. 2 * n - 1 /\ n + i # n
          /\ (i = n - 1) = (n + i = 2 * n - 1) /\ n + i + 1 = n + (i + 1)
          /\ i # n - 1 => i + 1 \in 1 .. n - 1
      BY <1>1, <1>7
    <3>2. contexts'[s][q[i]].next = IF n + i = 2 * n - 1 THEN Cpp!End ELSE n + i + 1
      BY <1>4, <1>5, <3>1, ZenonT(40)
    <3> QED BY <1>7, <3>1, <3>2
  <2>4. \A k \in 0 .. 2 * n - 1 : k \in Cpp!Used(s)' \/ \E i \in 1 .. n - 1 : q[i] = k
    <3> SUFFICES ASSUME NEW k \in 0 .. 2 * n - 1, k \notin Cpp!Used(s), k # n
                 PROVE  \E i \in 1 .. n - 1 : q[i] = k
      BY <1>2
    <3>1. k - n \in 1 .. n - 1 /\ n + (k - n) = k
      BY <1>1, <1>6
    <3> QED BY <1>7, <3>1
  <2>5. \A i \in 1 .. n - 1 : q[i] \notin Cpp!Used(s)'
    <3> SUFFICES ASSUME NEW i \in 1 .. n - 1
                 PROVE  q[i] \notin Cpp!Used(s) /\ q[i] # n
      BY <1>2
    <3>1. n + i \notin 0 .. n - 1 /\ n + i # n
      BY <1>1
    <3> QED BY <1>7, <3>1
  <2> QED BY <1>5, <1>7, <2>1, <2>2, <2>3, <2>4, <2>5 DEF Cpp!FreeList
<1>9. Cpp!Used(s) \subseteq 0 .. n - 1
  BY <1>1
<1>10. \A k \in DOMAIN contexts'[s] :
         k \in Cpp!Used(s)' \/ (contexts'[s][k].callback = None /\ ~contexts'[s][k].on_complete)
  BY <1>1, <1>4, <1>5, <1>6
<1>11. Cpp!ShardSound(s)'
  <2>1. 2 * n \in Nat /\ 2 * n >= 2
    BY <1>1
  <2>2. DOMAIN contexts'[s] = 0 .. 2 * n - 1
    BY <1>5
  <2> HIDE DEF q
  <2> QED BY <1>5, <1>7, <1>8, <1>9, <1>10, <2>1, <2>2 DEF Cpp!ShardSound, Cpp!Contexts
<1>12. /\ DOMAIN contexts[s] = 0 .. n - 1 /\ DOMAIN contexts'[s] = 0 .. 2 * n - 1
       /\ n \in n .. 2 * n - 1 /\ n \in 0 .. 2 * n - 1 /\ n \notin 0 .. n - 1
       /\ 0 .. n - 1 \subseteq 0 .. 2 * n - 1
  BY <1>1, <1>5
<1>13. contexts'[s][n].next = Cpp!InUse
  BY <1>4, <1>5, <1>12
<1> QED BY <1>2, <1>5, <1>11, <1>12, <1>13

\* A context is cleared and becomes the head of its shard's free list.
LEMMA PushKeeps ==
  ASSUME NEW s \in Shards, Cpp!ShardSound(s), DOMAIN contexts = Shards,
         DOMAIN free_head = Shards, NEW k \in DOMAIN contexts[s], k \in Cpp!Used(s),
         contexts' = [contexts EXCEPT ![s][k] = [Cpp!Empty EXCEPT !.next = free_head[s]]],
         free_head' = [free_head EXCEPT ![s] = k],
         Cpp!Used(s)' = Cpp!Used(s) \ {k}
  PROVE  Cpp!ShardSound(s)'
<1>1. PICK n \in Nat : n >= 2 /\ contexts[s] \in [0 .. n - 1 -> Cpp!Contexts]
  BY DEF Cpp!ShardSound
<1>2. PICK m \in Nat : \E q \in [1 .. m -> DOMAIN contexts[s]] : Cpp!FreeList(s, m, q)
  BY DEF Cpp!ShardSound
<1>3. PICK q \in [1 .. m -> DOMAIN contexts[s]] : Cpp!FreeList(s, m, q)
  BY <1>2
<1> DEFINE e == [Cpp!Empty EXCEPT !.next = free_head[s]]
<1>4. free_head[s] \in Int
  BY <1>1, <1>3 DEF Cpp!FreeList, Cpp!End
<1>5. e \in Cpp!Contexts /\ e.next = free_head[s] /\ e.callback = None /\ ~e.on_complete
  BY <1>4, Cleared
<1>6. contexts'[s] = [contexts[s] EXCEPT ![k] = e] /\ free_head'[s] = k
  OBVIOUS
<1> HIDE DEF e
<1>7. /\ contexts'[s] \in [0 .. n - 1 -> Cpp!Contexts] /\ DOMAIN contexts'[s] = DOMAIN contexts[s]
      /\ contexts'[s][k] = e
      /\ \A j \in DOMAIN contexts[s] : j # k => contexts'[s][j] = contexts[s][j]
  BY <1>1, <1>5, <1>6
<1> DEFINE qq == [i \in 1 .. m + 1 |-> IF i = 1 THEN k ELSE q[i - 1]]
<1>8. m + 1 \in Nat /\ \A i \in 1 .. m + 1 : i # 1 => i - 1 \in 1 .. m
  OBVIOUS
<1>9. /\ qq \in [1 .. m + 1 -> DOMAIN contexts[s]] /\ qq[1] = k
      /\ \A i \in 1 .. m + 1 : i # 1 => qq[i] = q[i - 1]
  BY <1>3, <1>8
<1> HIDE DEF qq
<1>10. \A i \in 1 .. m : q[i] # k
  BY <1>3 DEF Cpp!FreeList
<1>11. Cpp!FreeList(s, m + 1, qq)'
  <2>1. \A i, j \in 1 .. m + 1 : qq[i] = qq[j] => i = j
    <3>1. \A i, j \in 1 .. m : q[i] = q[j] => i = j
      BY <1>3 DEF Cpp!FreeList
    <3> QED BY <1>8, <1>9, <1>10, <3>1
  <2>2. free_head'[s] = IF m + 1 = 0 THEN Cpp!End ELSE qq[1]
    BY <1>6, <1>9
  <2>3. \A i \in 1 .. m + 1 :
          contexts'[s][qq[i]].next = IF i = m + 1 THEN Cpp!End ELSE qq[i + 1]
    <3> SUFFICES ASSUME NEW i \in 1 .. m + 1
                 PROVE  contexts'[s][qq[i]].next = IF i = m + 1 THEN Cpp!End ELSE qq[i + 1]
      OBVIOUS
    <3>1. CASE i = 1
      <4>1. contexts'[s][qq[i]].next = free_head[s]
        BY <1>5, <1>7, <1>9, <3>1
      <4>2. free_head[s] = IF m = 0 THEN Cpp!End ELSE q[1]
        BY <1>3 DEF Cpp!FreeList
      <4>3. m # 0 => qq[i + 1] = q[1]
        <5>1. m # 0 => 2 \in 1 .. m + 1 /\ 2 # 1 /\ 2 - 1 = 1
          OBVIOUS
        <5> QED BY <1>9, <3>1, <5>1
      <4> QED BY <3>1, <4>1, <4>2, <4>3
    <3>2. CASE i # 1
      <4>1. i - 1 \in 1 .. m /\ (i = m + 1) = (i - 1 = m) /\ i - 1 + 1 = i
            /\ (i # m + 1 => i + 1 \in 1 .. m + 1 /\ i + 1 # 1 /\ i + 1 - 1 = i)
        BY <3>2
      <4>2. contexts'[s][qq[i]] = contexts[s][q[i - 1]]
        BY <1>3, <1>7, <1>9, <1>10, <3>2, <4>1
      <4>3. contexts[s][q[i - 1]].next = IF i - 1 = m THEN Cpp!End ELSE q[i - 1 + 1]
        BY <1>3, <4>1 DEF Cpp!FreeList
      <4>4. CASE i = m + 1
        BY <4>1, <4>2, <4>3, <4>4
      <4>5. CASE i # m + 1
        <5>1. qq[i + 1] = q[i]
          BY <1>9, <4>1, <4>5
        <5>2. contexts[s][q[i - 1]].next = q[i]
          BY <4>1, <4>3, <4>5
        <5> QED BY <4>2, <4>5, <5>1, <5>2
      <4> QED BY <4>4, <4>5
    <3> QED BY <3>1, <3>2
  <2>4. \A j \in DOMAIN contexts[s] : j \in Cpp!Used(s)' \/ \E i \in 1 .. m + 1 : qq[i] = j
    <3> SUFFICES ASSUME NEW j \in DOMAIN contexts[s], j \notin Cpp!Used(s) \/ j = k
                 PROVE  \E i \in 1 .. m + 1 : qq[i] = j
      OBVIOUS
    <3>1. CASE j = k
      <4>1. 1 \in 1 .. m + 1
        OBVIOUS
      <4> QED BY <1>9, <3>1, <4>1
    <3>2. CASE j # k
      <4>1. PICK i \in 1 .. m : q[i] = j
        BY <1>3, <3>2 DEF Cpp!FreeList
      <4>2. i + 1 \in 1 .. m + 1 /\ i + 1 # 1 /\ i + 1 - 1 = i
        OBVIOUS
      <4> QED BY <1>9, <4>1, <4>2
    <3> QED BY <3>1, <3>2
  <2>5. \A i \in 1 .. m + 1 : qq[i] \notin Cpp!Used(s)'
    BY <1>3, <1>8, <1>9, <1>10 DEF Cpp!FreeList
  <2> QED BY <1>7, <1>9, <2>1, <2>2, <2>3, <2>4, <2>5 DEF Cpp!FreeList
<1>12. \A j \in DOMAIN contexts'[s] :
         j \in Cpp!Used(s)' \/ (contexts'[s][j].callback = None /\ ~contexts'[s][j].on_complete)
  BY <1>5, <1>7 DEF Cpp!ShardSound
<1> QED BY <1>1, <1>7, <1>8, <1>9, <1>11, <1>12 DEF Cpp!ShardSound, Cpp!Contexts

\* Nothing is held at first and every context is on its list.
LEMMA CppStarts ==
  ASSUME Cpp!CppConstants, Cpp!Init
  PROVE  Cpp!CppInv
<1> USE DEF Cpp!Init, Cpp!CppConstants
<1>1. ASSUME NEW s \in Shards PROVE Cpp!ShardSound(s)
  <2> DEFINE n == InitialSize
             q == [i \in 1 .. n |-> i - 1]
  <2>1. contexts[s] = Cpp!Chained(0, n) /\ free_head[s] = 0 /\ Cpp!Used(s) = {}
    BY DEF Cpp!Used, Cpp!Holders, Cpp!Settled
  <2>2. DOMAIN contexts[s] = 0 .. n - 1
    BY <2>1 DEF Cpp!Chained
  <2>3. \A k \in 0 .. n - 1 :
          /\ contexts[s][k] \in Cpp!Contexts
          /\ contexts[s][k].next = (IF k = n - 1 THEN Cpp!End ELSE k + 1)
          /\ contexts[s][k].callback = None /\ ~contexts[s][k].on_complete
    <3>1. 0 \in Int /\ n \in Int
      OBVIOUS
    <3> QED BY <2>1, <3>1, ChainedAt
  <2>4. contexts[s] \in [0 .. n - 1 -> Cpp!Contexts]
    <3>1. contexts[s] = [k \in 0 .. n - 1 |-> contexts[s][k]]
      BY <2>1 DEF Cpp!Chained
    <3> QED BY <2>3, <3>1
  <2>5. q \in [1 .. n -> DOMAIN contexts[s]] /\ \A i \in 1 .. n : q[i] = i - 1
    BY <2>2
  <2> HIDE DEF q
  <2>6. Cpp!FreeList(s, n, q)
    <3>1. \A i, j \in 1 .. n : q[i] = q[j] => i = j
      BY <2>5
    <3>2. free_head[s] = IF n = 0 THEN Cpp!End ELSE q[1]
      BY <2>1, <2>5
    <3>3. \A i \in 1 .. n : contexts[s][q[i]].next = IF i = n THEN Cpp!End ELSE q[i + 1]
      BY <2>3, <2>5
    <3>4. \A k \in DOMAIN contexts[s] : \E i \in 1 .. n : q[i] = k
      <4> SUFFICES ASSUME NEW k \in 0 .. n - 1 PROVE \E i \in 1 .. n : q[i] = k
        BY <2>2
      <4>1. k + 1 \in 1 .. n /\ k + 1 - 1 = k
        OBVIOUS
      <4>2. q[k + 1] = k
        BY <2>5, <4>1
      <4> HIDE DEF n
      <4> QED BY <4>1, <4>2
    <3> QED BY <2>1, <2>5, <3>1, <3>2, <3>3, <3>4 DEF Cpp!FreeList
  <2> QED BY <2>2, <2>3, <2>4, <2>5, <2>6 DEF Cpp!ShardSound
<1> QED BY <1>1 DEF Cpp!CppInv, Cpp!EngineSound, Cpp!CallbackIsOwn, Cpp!Settled

\* The holders of a step that moves one operation on.
LEMMA OthersHold ==
  ASSUME NEW o \in Ops, NEW p \in Ops, p # o, op[p] \notin Cpp!Settled, Cpp!HolderSound(p),
         \A r \in Ops : r # o => op'[r] = op[r] /\ ctx'[r] = ctx[r],
         DOMAIN contexts[ctx[p][1]] \subseteq DOMAIN contexts'[ctx[p][1]],
         contexts'[ctx[p][1]][ctx[p][2]] = contexts[ctx[p][1]][ctx[p][2]],
         op'[o] \notin Cpp!Settled => ~(ctx'[o][1] = ctx[p][1] /\ ctx'[o][2] = ctx[p][2])
  PROVE  Cpp!HolderSound(p)'
<1>1. op'[p] = op[p] /\ ctx'[p] = ctx[p]
  OBVIOUS
<1>2. Cpp!ContextOf(p)' = Cpp!ContextOf(p)
  BY <1>1 DEF Cpp!ContextOf
<1>3. \A r \in Ops : op'[r] \notin Cpp!Settled /\ ctx'[r][1] = ctx'[p][1]
                       /\ ctx'[r][2] = ctx'[p][2] => r = p
  BY <1>1 DEF Cpp!HolderSound
<1> QED BY <1>1, <1>2, <1>3 DEF Cpp!HolderSound, Cpp!Settled

\* Nobody takes or gives back a context of shard s.
LEMMA SameUsers ==
  ASSUME NEW s, NEW o \in Ops, \A r \in Ops : r # o => op'[r] = op[r] /\ ctx'[r] = ctx[r],
         \/ op[o] \notin Cpp!Settled /\ op'[o] \notin Cpp!Settled /\ ctx'[o] = ctx[o]
         \/ /\ op[o] \in Cpp!Settled \/ ctx[o][1] # s
            /\ op'[o] \in Cpp!Settled \/ ctx'[o][1] # s
  PROVE  Cpp!Used(s)' = Cpp!Used(s)
<1>1. Cpp!Holders(s)' = Cpp!Holders(s)
  BY DEF Cpp!Holders, Cpp!Settled
<1>2. \A r \in Cpp!Holders(s) : ctx'[r] = ctx[r]
  BY DEF Cpp!Holders, Cpp!Settled
<1> QED BY <1>1, <1>2 DEF Cpp!Used

\* A step of an operation that keeps its context.
LEMMA HeldStep ==
  ASSUME Cpp!CppInv, NEW o \in Ops, op[o] \notin Cpp!Settled, op'[o] \notin Cpp!Settled,
         \A r \in Ops : r # o => op'[r] = op[r], ctx' = ctx, free_head' = free_head,
         NEW s, s = ctx[o][1], NEW k, k = ctx[o][2],
         DOMAIN contexts' = Shards, contexts'[s] \in [DOMAIN contexts[s] -> Cpp!Contexts],
         \A j \in DOMAIN contexts[s] : j # k => contexts'[s][j] = contexts[s][j],
         \A t \in Shards : t # s => contexts'[t] = contexts[t],
         contexts'[s][k].next = Cpp!InUse,
         op'[o] \in {"filled", "pending", "running"} =>
           contexts'[s][k].callback = o /\ contexts'[s][k].on_complete
  PROVE  /\ \A t \in Shards : Cpp!ShardSound(t)'
         /\ \A p \in Ops : op'[p] \notin Cpp!Settled => Cpp!HolderSound(p)'
<1>0. /\ \A r \in Ops : r # o => op'[r] = op[r] /\ ctx'[r] = ctx[r]
      /\ ctx'[o] = ctx[o] /\ Cpp!HolderSound(o) /\ s \in Shards /\ k \in DOMAIN contexts[s]
      /\ contexts[s][k].next = Cpp!InUse
  BY DEF Cpp!CppInv, Cpp!HolderSound, Cpp!ContextOf
<1>1. ASSUME NEW t \in Shards PROVE Cpp!Used(t)' = Cpp!Used(t)
  BY <1>0, SameUsers
<1>2. k \in Cpp!Used(s)
  BY <1>0 DEF Cpp!Used, Cpp!Holders
<1>3. ASSUME NEW t \in Shards PROVE Cpp!ShardSound(t)'
  <2>1. Cpp!ShardSound(t) /\ Cpp!Used(t)' = Cpp!Used(t) /\ free_head'[t] = free_head[t]
    BY <1>1 DEF Cpp!CppInv
  <2>2. contexts'[t] \in [DOMAIN contexts[t] -> Cpp!Contexts]
    BY <2>1 DEF Cpp!ShardSound
  <2>3. \A j \in DOMAIN contexts[t] :
           /\ contexts'[t][j].next = contexts[t][j].next
           /\ contexts'[t][j] = contexts[t][j] \/ j \in Cpp!Used(t)
    <3>1. CASE t = s
      BY <1>0, <1>2, <3>1
    <3>2. CASE t # s
      BY <3>2
    <3> QED BY <3>1, <3>2
  <2> QED BY <2>1, <2>2, <2>3, SameList
<1>4. Cpp!HolderSound(o)'
  <2>1. Cpp!ContextOf(o)' = contexts'[s][k]
    BY <1>0 DEF Cpp!ContextOf
  <2>2. \A r \in Ops : op'[r] \notin Cpp!Settled /\ ctx'[r][1] = ctx'[o][1]
                         /\ ctx'[r][2] = ctx'[o][2] => r = o
    BY <1>0 DEF Cpp!HolderSound
  <2>3. ctx'[o][1] \in Shards /\ ctx'[o][2] \in DOMAIN contexts'[ctx'[o][1]]
    BY <1>0
  <2> QED BY <1>0, <2>1, <2>2, <2>3 DEF Cpp!HolderSound, Cpp!Settled
<1>5. ASSUME NEW p \in Ops, p # o, op'[p] \notin Cpp!Settled PROVE Cpp!HolderSound(p)'
  <2>1. op[p] \notin Cpp!Settled /\ Cpp!HolderSound(p)
    BY <1>0, <1>5 DEF Cpp!CppInv
  <2>2. ctx[p][1] \in Shards /\ ctx[p][2] \in DOMAIN contexts[ctx[p][1]]
        /\ ~(s = ctx[p][1] /\ k = ctx[p][2])
    BY <1>0, <1>5, <2>1 DEF Cpp!HolderSound
  <2>3. /\ DOMAIN contexts[ctx[p][1]] \subseteq DOMAIN contexts'[ctx[p][1]]
        /\ contexts'[ctx[p][1]][ctx[p][2]] = contexts[ctx[p][1]][ctx[p][2]]
    BY <2>2
  <2> QED BY <1>0, <1>5, <2>1, <2>2, <2>3, OthersHold
<1> QED BY <1>3, <1>4, <1>5

\* A context is handed out of shard s.
LEMMA AllocateKeeps ==
  ASSUME Cpp!CppInv, NEW o \in Ops, NEW s \in Shards, Cpp!Allocate(o, s)
  PROVE  /\ \A t \in Shards : Cpp!ShardSound(t)'
         /\ \A p \in Ops : op'[p] \notin Cpp!Settled => Cpp!HolderSound(p)'
         /\ DOMAIN contexts' = Shards /\ DOMAIN free_head' = Shards
<1> DEFINE n == Cpp!Cardinality(DOMAIN contexts[s])
           k == IF free_head[s] >= 0 THEN free_head[s] ELSE n
<1>1. /\ op[o] \in Cpp!Settled /\ op'[o] = "allocated" /\ op'[o] \notin Cpp!Settled
      /\ ctx' = [ctx EXCEPT ![o] = <<s, k>>] /\ op' = [op EXCEPT ![o] = "allocated"]
  BY DEF Cpp!CppInv, Cpp!Allocate, Cpp!Goto, Cpp!Settled
<1>2. free_head[s] >= 0 => Cpp!Pop(s)
  BY DEF Cpp!Allocate
<1>3. ~(free_head[s] >= 0) => Cpp!GrowShard(s)
  BY DEF Cpp!Allocate
<1>4. /\ \A r \in Ops : r # o => op'[r] = op[r] /\ ctx'[r] = ctx[r]
      /\ ctx'[o][1] = s /\ ctx'[o][2] = k /\ ctx'[o] = <<s, k>>
  BY <1>1 DEF Cpp!CppInv
<1>5. /\ DOMAIN contexts = Shards /\ DOMAIN free_head = Shards /\ Cpp!ShardSound(s)
      /\ DOMAIN contexts' = Shards /\ DOMAIN free_head' = Shards
      /\ \A t \in Shards : t # s => contexts'[t] = contexts[t] /\ free_head'[t] = free_head[t]
  BY <1>2, <1>3 DEF Cpp!CppInv, Cpp!Pop, Cpp!GrowShard
<1>6. Cpp!Used(s)' = Cpp!Used(s) \cup {k}
  <2> HIDE DEF k
  <2>1. Cpp!Holders(s)' = Cpp!Holders(s) \cup {o} /\ o \notin Cpp!Holders(s)
    BY <1>1, <1>4 DEF Cpp!Holders, Cpp!Settled
  <2>2. \A r \in Cpp!Holders(s) : ctx'[r][2] = ctx[r][2]
    BY <1>4, <2>1 DEF Cpp!Holders
  <2> QED BY <1>4, <2>1, <2>2 DEF Cpp!Used
<1>7. Cpp!Used(s) \subseteq DOMAIN contexts[s]
  BY DEF Cpp!CppInv, Cpp!Used, Cpp!Holders, Cpp!HolderSound
<1>8. /\ Cpp!ShardSound(s)' /\ k \notin Cpp!Used(s) /\ k \in DOMAIN contexts'[s]
      /\ contexts'[s][k].next = Cpp!InUse /\ DOMAIN contexts[s] \subseteq DOMAIN contexts'[s]
      /\ \A j \in Cpp!Used(s) : contexts'[s][j] = contexts[s][j]
  <2>1. CASE free_head[s] >= 0
    <3>1. k = free_head[s] /\ Cpp!Pop(s)
      BY <1>2, <2>1
    <3>2. /\ Cpp!ShardSound(s)' /\ k \in DOMAIN contexts[s] /\ k \notin Cpp!Used(s)
      BY <1>5, <1>6, <2>1, <3>1, PopKeeps
    <3>3. contexts'[s] = [contexts[s] EXCEPT ![k] = [contexts[s][k] EXCEPT !.next = Cpp!InUse]]
      BY <1>5, <3>1 DEF Cpp!Pop
    <3>4. contexts[s][k] \in Cpp!Contexts
      BY <1>5, <3>2 DEF Cpp!ShardSound
    <3> HIDE DEF k
    <3>5. [contexts[s][k] EXCEPT !.next = Cpp!InUse].next = Cpp!InUse
      BY <3>4, Taken
    <3> QED BY <1>7, <3>2, <3>3, <3>5
  <2>2. CASE ~(free_head[s] >= 0)
    <3>1. k = n /\ Cpp!GrowShard(s)
      BY <1>3, <2>2
    <3>2. /\ Cpp!ShardSound(s)' /\ DOMAIN contexts[s] \subseteq DOMAIN contexts'[s]
          /\ \A j \in DOMAIN contexts[s] : contexts'[s][j] = contexts[s][j]
          /\ n \in DOMAIN contexts'[s] /\ contexts'[s][n].next = Cpp!InUse
          /\ n \notin DOMAIN contexts[s]
      BY <1>5, <1>6, <1>7, <2>2, <3>1, GrowKeeps
    <3> QED BY <1>7, <3>1, <3>2
  <2> QED BY <2>1, <2>2
<1> HIDE DEF k
<1>9. ASSUME NEW t \in Shards, t # s PROVE Cpp!ShardSound(t)'
  <2>1. Cpp!ShardSound(t) /\ contexts'[t] = contexts[t] /\ free_head'[t] = free_head[t]
    BY <1>5, <1>9 DEF Cpp!CppInv
  <2>2. Cpp!Used(t)' = Cpp!Used(t)
    BY <1>1, <1>4, <1>9, SameUsers
  <2>3. contexts'[t] \in [DOMAIN contexts[t] -> Cpp!Contexts]
    BY <2>1 DEF Cpp!ShardSound
  <2> QED BY <2>1, <2>2, <2>3, SameList
<1>10. Cpp!HolderSound(o)'
  <2>1. \A r \in Ops : op'[r] \notin Cpp!Settled /\ ctx'[r][1] = s /\ ctx'[r][2] = k => r = o
    <3> SUFFICES ASSUME NEW r \in Ops, r # o, op'[r] \notin Cpp!Settled,
                        ctx'[r][1] = s, ctx'[r][2] = k
                 PROVE  FALSE
      OBVIOUS
    <3>1. r \in Cpp!Holders(s) /\ ctx[r][2] = k
      BY <1>4 DEF Cpp!Holders
    <3> QED BY <1>8, <3>1 DEF Cpp!Used
  <2>2. Cpp!ContextOf(o)' = contexts'[s][k]
    BY <1>4 DEF Cpp!ContextOf
  <2> QED BY <1>1, <1>4, <1>8, <2>1, <2>2 DEF Cpp!HolderSound, Cpp!Settled
<1>11. ASSUME NEW p \in Ops, p # o, op'[p] \notin Cpp!Settled PROVE Cpp!HolderSound(p)'
  <2>1. op[p] \notin Cpp!Settled /\ Cpp!HolderSound(p)
    BY <1>4, <1>11 DEF Cpp!CppInv
  <2>2. ctx[p][1] \in Shards /\ ctx[p][2] \in DOMAIN contexts[ctx[p][1]]
    BY <2>1 DEF Cpp!HolderSound
  <2>3. ctx[p][1] = s => ctx[p][2] \in Cpp!Used(s)
    BY <2>1 DEF Cpp!Used, Cpp!Holders
  <2>4. /\ DOMAIN contexts[ctx[p][1]] \subseteq DOMAIN contexts'[ctx[p][1]]
        /\ contexts'[ctx[p][1]][ctx[p][2]] = contexts[ctx[p][1]][ctx[p][2]]
    BY <1>5, <1>8, <2>2, <2>3
  <2>5. ~(ctx'[o][1] = ctx[p][1] /\ ctx'[o][2] = ctx[p][2])
    BY <1>4, <1>8, <2>3
  <2> QED BY <1>4, <1>11, <2>1, <2>4, <2>5, OthersHold
<1> QED BY <1>5, <1>8, <1>9, <1>10, <1>11

\* A context is given back.
LEMMA ReleaseKeeps ==
  ASSUME Cpp!CppInv, NEW o \in Ops, Cpp!Release(o)
  PROVE  /\ \A t \in Shards : Cpp!ShardSound(t)'
         /\ \A p \in Ops : op'[p] \notin Cpp!Settled => Cpp!HolderSound(p)'
         /\ DOMAIN contexts' = Shards /\ DOMAIN free_head' = Shards
<1>s. PICK s : s = ctx[o][1]
  OBVIOUS
<1>k. PICK k : k = ctx[o][2]
  OBVIOUS
<1>1. op[o] \notin Cpp!Settled /\ op' = [op EXCEPT ![o] = "done"] /\ ctx' = ctx
  BY DEF Cpp!Release, Cpp!Goto, Cpp!Settled
<1>2. Cpp!HolderSound(o) /\ op'[o] = "done" /\ \A r \in Ops : r # o => op'[r] = op[r] /\ ctx'[r] = ctx[r]
  BY <1>1 DEF Cpp!CppInv
<1>3. s \in Shards /\ k \in DOMAIN contexts[s] /\ contexts[s][k].next = Cpp!InUse
  BY <1>2, <1>s, <1>k DEF Cpp!HolderSound, Cpp!ContextOf
<1>4. /\ contexts' = [contexts EXCEPT ![s][k] = [Cpp!Empty EXCEPT !.next = free_head[s]]]
      /\ free_head' = [free_head EXCEPT ![s] = k]
  BY <1>3, <1>s, <1>k DEF Cpp!Release
<1>5. /\ DOMAIN contexts = Shards /\ DOMAIN free_head = Shards
      /\ DOMAIN contexts' = Shards /\ DOMAIN free_head' = Shards
      /\ DOMAIN contexts'[s] = DOMAIN contexts[s]
      /\ \A j \in DOMAIN contexts[s] : j # k => contexts'[s][j] = contexts[s][j]
      /\ \A t \in Shards : t # s => contexts'[t] = contexts[t] /\ free_head'[t] = free_head[t]
  BY <1>3, <1>4 DEF Cpp!CppInv
<1>6. Cpp!Used(s)' = Cpp!Used(s) \ {k} /\ k \in Cpp!Used(s)
  <2>1. Cpp!Holders(s)' = Cpp!Holders(s) \ {o} /\ o \in Cpp!Holders(s)
    BY <1>1, <1>2, <1>s DEF Cpp!Holders, Cpp!Settled
  <2>2. \A r \in Cpp!Holders(s) : r # o => ctx[r][2] # k
    BY <1>2, <1>s, <1>k DEF Cpp!Holders, Cpp!HolderSound
  <2> QED BY <1>1, <1>k, <2>1, <2>2 DEF Cpp!Used
<1>7. Cpp!ShardSound(s)'
  <2>1. Cpp!ShardSound(s)
    BY <1>3 DEF Cpp!CppInv
  <2> QED BY <1>3, <1>4, <1>5, <1>6, <2>1, PushKeeps
<1>8. ASSUME NEW t \in Shards, t # s PROVE Cpp!ShardSound(t)'
  <2>1. Cpp!ShardSound(t) /\ contexts'[t] = contexts[t] /\ free_head'[t] = free_head[t]
    BY <1>5, <1>8 DEF Cpp!CppInv
  <2>2. Cpp!Used(t)' = Cpp!Used(t)
    <3>1. op'[o] \in Cpp!Settled /\ ctx[o][1] # t
      BY <1>2, <1>8, <1>s DEF Cpp!Settled
    <3> QED BY <1>2, <3>1, SameUsers
  <2>3. contexts'[t] \in [DOMAIN contexts[t] -> Cpp!Contexts]
    BY <2>1 DEF Cpp!ShardSound
  <2> QED BY <2>1, <2>2, <2>3, SameList
<1>9. ASSUME NEW p \in Ops, op'[p] \notin Cpp!Settled PROVE Cpp!HolderSound(p)'
  <2>0. p # o /\ op'[o] \in Cpp!Settled
    BY <1>2, <1>9 DEF Cpp!Settled
  <2>1. op[p] \notin Cpp!Settled /\ Cpp!HolderSound(p)
    BY <1>2, <1>9, <2>0 DEF Cpp!CppInv
  <2>2. /\ ctx[p][1] \in Shards /\ ctx[p][2] \in DOMAIN contexts[ctx[p][1]]
        /\ ~(ctx[p][1] = s /\ ctx[p][2] = k)
    BY <1>1, <1>2, <1>s, <1>k, <2>0, <2>1 DEF Cpp!HolderSound
  <2>4. /\ DOMAIN contexts[ctx[p][1]] \subseteq DOMAIN contexts'[ctx[p][1]]
        /\ contexts'[ctx[p][1]][ctx[p][2]] = contexts[ctx[p][1]][ctx[p][2]]
    BY <1>5, <2>2
  <2> QED BY <1>2, <2>0, <2>1, <2>4, OthersHold
<1> QED BY <1>5, <1>7, <1>8, <1>9

\* Nothing of the pool and of its holders moves.
LEMMA PoolStutters ==
  ASSUME Cpp!CppInv, UNCHANGED <<contexts, free_head, op, ctx>>
  PROVE  /\ \A t \in Shards : Cpp!ShardSound(t)'
         /\ \A p \in Ops : op'[p] \notin Cpp!Settled => Cpp!HolderSound(p)'
<1>1. \A t : Cpp!Used(t)' = Cpp!Used(t)
  BY DEF Cpp!Used, Cpp!Holders, Cpp!Settled
<1>2. ASSUME NEW t \in Shards PROVE Cpp!ShardSound(t)'
  <2>1. Cpp!ShardSound(t)
    BY DEF Cpp!CppInv
  <2>2. contexts'[t] \in [DOMAIN contexts[t] -> Cpp!Contexts]
    BY <2>1 DEF Cpp!ShardSound
  <2> QED BY <1>1, <2>1, <2>2, SameList
<1>3. ASSUME NEW p \in Ops, op'[p] \notin Cpp!Settled PROVE Cpp!HolderSound(p)'
  BY <1>3 DEF Cpp!CppInv, Cpp!HolderSound, Cpp!ContextOf, Cpp!Settled
<1> QED BY <1>2, <1>3

\* Every step preserves the invariant.
LEMMA CppStep ==
  ASSUME Cpp!CppConstants, Cpp!CppInv, [Cpp!Next]_(Cpp!vars)
  PROVE  Cpp!CppInv'
<1> DEFINE Labels == {"new", "allocated", "filled", "undo", "pending",
                      "running", "cleanup", "done"}
           Held == /\ \A t \in Shards : Cpp!ShardSound(t)'
                   /\ \A p \in Ops : op'[p] \notin Cpp!Settled => Cpp!HolderSound(p)'
                   /\ DOMAIN contexts' = Shards /\ DOMAIN free_head' = Shards
<1>0. /\ DOMAIN contexts = Shards /\ DOMAIN free_head = Shards /\ DOMAIN ctx = Ops
      /\ DOMAIN ran = Ops /\ DOMAIN buffer = Buffers /\ op \in [Ops -> Labels]
      /\ alive \in BOOLEAN /\ Cpp!CallbackIsOwn /\ Cpp!EngineSound
  BY DEF Cpp!CppInv
<1>1. ASSUME NEW o \in Ops, op[o] \notin Cpp!Settled PROVE handle \in {"live", "destroying"}
  BY <1>0, <1>1 DEF Cpp!EngineSound
\* The engine, when one operation moves.
<1>2. ASSUME handle \in {"live", "destroying"}, UNCHANGED <<alive, handle, pool, buffer>>
      PROVE  Cpp!EngineSound'
  BY <1>0, <1>2 DEF Cpp!EngineSound
\* A step that keeps its operation's context and leaves it as it is.
<1>3. ASSUME NEW o \in Ops, op[o] \notin Cpp!Settled, NEW label, label \notin Cpp!Settled,
             op' = [op EXCEPT ![o] = label], UNCHANGED <<contexts, free_head, ctx>>,
             label \in {"filled", "pending", "running"} => op[o] \in {"filled", "pending", "running"}
      PROVE  Held
  <2>1. PICK s : s = ctx[o][1]
    OBVIOUS
  <2>2. PICK k : k = ctx[o][2]
    OBVIOUS
  <2>3. /\ Cpp!HolderSound(o) /\ s \in Shards /\ k \in DOMAIN contexts[s]
        /\ contexts[s][k].next = Cpp!InUse
        /\ label \in {"filled", "pending", "running"} =>
             contexts[s][k].callback = o /\ contexts[s][k].on_complete
    BY <1>3, <2>1, <2>2 DEF Cpp!CppInv, Cpp!HolderSound, Cpp!ContextOf
  <2>4. contexts[s] \in [DOMAIN contexts[s] -> Cpp!Contexts]
    BY <2>3 DEF Cpp!CppInv, Cpp!ShardSound
  <2>5. /\ \A t \in Shards : Cpp!ShardSound(t)'
        /\ \A p \in Ops : op'[p] \notin Cpp!Settled => Cpp!HolderSound(p)'
    <3>1. /\ DOMAIN contexts' = Shards /\ contexts'[s] \in [DOMAIN contexts[s] -> Cpp!Contexts]
          /\ \A j \in DOMAIN contexts[s] : j # k => contexts'[s][j] = contexts[s][j]
          /\ \A t \in Shards : t # s => contexts'[t] = contexts[t]
          /\ contexts'[s][k].next = Cpp!InUse
          /\ label \in {"filled", "pending", "running"} =>
               contexts'[s][k].callback = o /\ contexts'[s][k].on_complete
      BY <1>0, <1>3, <2>3, <2>4
    <3>2. ctx' = ctx /\ free_head' = free_head /\ op'[o] = label /\ \A r \in Ops : r # o => op'[r] = op[r]
      BY <1>0, <1>3
    <3> QED BY <1>3, <2>1, <2>2, <3>1, <3>2, HeldStep
  <2> QED BY <1>0, <1>3, <2>5
\* A step that writes its operation's context.
<1>4. ASSUME NEW o \in Ops, op[o] \notin Cpp!Settled, NEW label, label \notin Cpp!Settled,
             op' = [op EXCEPT ![o] = label], UNCHANGED <<free_head, ctx>>,
             NEW e \in Cpp!Contexts, e.next = Cpp!InUse,
             contexts' = [contexts EXCEPT ![ctx[o][1]][ctx[o][2]] = e],
             label \in {"filled", "pending", "running"} => e.callback = o /\ e.on_complete
      PROVE  Held
  <2>1. PICK s : s = ctx[o][1]
    OBVIOUS
  <2>2. PICK k : k = ctx[o][2]
    OBVIOUS
  <2>3. s \in Shards /\ k \in DOMAIN contexts[s]
    BY <1>4, <2>1, <2>2 DEF Cpp!CppInv, Cpp!HolderSound, Cpp!ContextOf
  <2>4. contexts[s] \in [DOMAIN contexts[s] -> Cpp!Contexts]
    BY <2>3 DEF Cpp!CppInv, Cpp!ShardSound
  <2>6. contexts' = [contexts EXCEPT ![s][k] = e]
    BY <1>4, <2>1, <2>2
  <2>7. /\ DOMAIN contexts' = Shards /\ contexts'[s] \in [DOMAIN contexts[s] -> Cpp!Contexts]
        /\ \A j \in DOMAIN contexts[s] : j # k => contexts'[s][j] = contexts[s][j]
        /\ \A t \in Shards : t # s => contexts'[t] = contexts[t]
        /\ contexts'[s][k] = e
    BY <1>0, <2>3, <2>4, <2>6
  <2>8. /\ contexts'[s][k].next = Cpp!InUse
        /\ label \in {"filled", "pending", "running"} =>
             contexts'[s][k].callback = o /\ contexts'[s][k].on_complete
    BY <1>4, <2>7
  <2>9. ctx' = ctx /\ free_head' = free_head /\ op'[o] = label /\ \A r \in Ops : r # o => op'[r] = op[r]
    BY <1>0, <1>4
  <2>10. /\ \A t \in Shards : Cpp!ShardSound(t)'
         /\ \A p \in Ops : op'[p] \notin Cpp!Settled => Cpp!HolderSound(p)'
    BY <1>4, <2>1, <2>2, <2>7, <2>8, <2>9, HeldStep
  <2> QED BY <1>0, <1>4, <2>7, <2>10
\* The rest follows in the same way from every step.
<1>5. ASSUME Held, op' \in [Ops -> Labels], DOMAIN ctx' = Ops, DOMAIN ran' = Ops,
             DOMAIN buffer' = Buffers, alive' \in BOOLEAN, Cpp!CallbackIsOwn', Cpp!EngineSound'
      PROVE  Cpp!CppInv'
  BY <1>5 DEF Cpp!CppInv, Cpp!Settled
<1>6. ASSUME UNCHANGED ran PROVE Cpp!CallbackIsOwn'
  BY <1>0, <1>6 DEF Cpp!CallbackIsOwn
<1>7. ASSUME NEW o \in Ops, UNCHANGED <<alive, handle, pool, buffer>>, op' \in [Ops -> Labels],
             handle \in {"live", "destroying"}, Held, DOMAIN ctx' = Ops, DOMAIN ran' = Ops,
             Cpp!CallbackIsOwn'
      PROVE  Cpp!CppInv'
  BY <1>0, <1>2, <1>5, <1>7
<1>8. ASSUME UNCHANGED <<contexts, free_head, op, ctx, ran>>, DOMAIN buffer' = Buffers,
             alive' \in BOOLEAN, Cpp!EngineSound'
      PROVE  Cpp!CppInv'
  <2>1. Held
    BY <1>0, <1>8, PoolStutters
  <2> QED BY <1>0, <1>5, <1>6, <1>8, <2>1
<1> HIDE DEF Held
<1>10. ASSUME Cpp!Construct \/ Cpp!ConstructFails \/ Cpp!DestroyBegin \/ Cpp!DestroyEnd
       PROVE  Cpp!CppInv'
  <2>1. /\ UNCHANGED <<contexts, free_head, op, ctx, ran, buffer>> /\ alive' \in BOOLEAN
    BY <1>0, <1>10 DEF Cpp!Construct, Cpp!ConstructFails, Cpp!DestroyBegin, Cpp!DestroyEnd
  <2>2. CASE Cpp!Construct
    BY <1>0, <1>8, <2>1, <2>2 DEF Cpp!Construct, Cpp!EngineSound, Cpp!Settled
  <2>3. CASE Cpp!ConstructFails
    BY <1>0, <1>8, <2>1, <2>3 DEF Cpp!ConstructFails, Cpp!EngineSound, Cpp!Settled
  <2>4. CASE Cpp!DestroyBegin
    BY <1>0, <1>8, <2>1, <2>4 DEF Cpp!DestroyBegin, Cpp!Unused, Cpp!EngineSound, Cpp!Settled
  <2>5. CASE Cpp!DestroyEnd
    BY <1>0, <1>8, <2>1, <2>5 DEF Cpp!DestroyEnd, Cpp!EngineSound, Cpp!Settled
  <2> QED BY <1>10, <2>2, <2>3, <2>4, <2>5
<1>11. ASSUME NEW b \in Buffers,
              Cpp!AllocateBuffer(b) \/ Cpp!BufferLoad(b) \/ Cpp!BufferFree(b)
       PROVE  Cpp!CppInv'
  <2>1. /\ UNCHANGED <<contexts, free_head, op, ctx, ran, alive, handle, pool>>
        /\ DOMAIN buffer' = Buffers
    BY <1>0, <1>11 DEF Cpp!AllocateBuffer, Cpp!BufferLoad, Cpp!BufferFree, Cpp!engine
  <2>2. \A c \in Buffers : buffer'[c] = "pool" => OtherThreads \/ handle = "live"
    BY <1>0, <1>11 DEF Cpp!AllocateBuffer, Cpp!BufferLoad, Cpp!BufferFree, Cpp!EngineSound
  <2> QED BY <1>0, <1>8, <2>1, <2>2 DEF Cpp!EngineSound, Cpp!Settled
<1>12. ASSUME NEW o \in Ops, NEW s \in Shards, Cpp!Allocate(o, s) PROVE Cpp!CppInv'
  <2>1. Held
    BY <1>12, AllocateKeeps DEF Held
  <2>2. /\ UNCHANGED <<ran, alive, handle, pool, buffer>> /\ op' \in [Ops -> Labels]
        /\ handle \in {"live", "destroying"} /\ DOMAIN ctx' = Ops
    BY <1>0, <1>12 DEF Cpp!Allocate, Cpp!Goto, Cpp!MaySubmit, Cpp!engine
  <2> QED BY <1>0, <1>6, <1>7, <2>1, <2>2
<1>13. ASSUME NEW o \in Ops, Cpp!Release(o) PROVE Cpp!CppInv'
  <2>1. Held
    BY <1>13, ReleaseKeeps DEF Held
  <2>2. /\ UNCHANGED <<ctx, ran, alive, handle, pool, buffer>> /\ op' \in [Ops -> Labels]
        /\ op[o] \notin Cpp!Settled
    BY <1>0, <1>13 DEF Cpp!Release, Cpp!Goto, Cpp!Settled, Cpp!engine
  <2> QED BY <1>0, <1>1, <1>6, <1>7, <2>1, <2>2
<1>14. ASSUME NEW o \in Ops, Cpp!FillThrows(o) \/ Cpp!Accepted(o) \/ Cpp!Refused(o)
       PROVE  Cpp!CppInv'
  <2>1. PICK label \in {"undo", "pending"} :
          /\ op' = [op EXCEPT ![o] = label] /\ (label = "pending" => op[o] = "filled")
          /\ op[o] \notin Cpp!Settled /\ UNCHANGED <<contexts, free_head, ctx>>
          /\ UNCHANGED <<ran, alive, handle, pool, buffer>>
    BY <1>14 DEF Cpp!FillThrows, Cpp!Accepted, Cpp!Refused, Cpp!Goto, Cpp!Settled, Cpp!engine
  <2>2. Held
    <3>1. /\ label \notin Cpp!Settled
          /\ label \in {"filled", "pending", "running"} => op[o] \in {"filled", "pending", "running"}
      BY <2>1 DEF Cpp!Settled
    <3> QED BY <1>3, <2>1, <3>1
  <2>3. op' \in [Ops -> Labels] /\ handle \in {"live", "destroying"}
    BY <1>0, <1>1, <2>1
  <2> QED BY <1>0, <1>6, <1>7, <2>1, <2>2, <2>3
<1>15. ASSUME NEW o \in Ops, Cpp!Invoke(o) PROVE Cpp!CppInv'
  <2>1. /\ op' = [op EXCEPT ![o] = "running"] /\ op[o] = "pending" /\ op[o] \notin Cpp!Settled
        /\ UNCHANGED <<contexts, free_head, ctx>> /\ UNCHANGED <<alive, handle, pool, buffer>>
        /\ ran' = [ran EXCEPT ![o] = Cpp!ContextOf(o).callback]
    BY <1>15 DEF Cpp!Invoke, Cpp!Goto, Cpp!Settled, Cpp!engine
  <2>2. Held
    <3>1. "running" \notin Cpp!Settled
      BY DEF Cpp!Settled
    <3> QED BY <1>3, <2>1, <3>1
  <2>3. Cpp!ContextOf(o).callback = o
    BY <2>1 DEF Cpp!CppInv, Cpp!HolderSound
  <2>4. Cpp!CallbackIsOwn' /\ DOMAIN ran' = Ops
    BY <1>0, <2>1, <2>3 DEF Cpp!CallbackIsOwn
  <2>5. op' \in [Ops -> Labels] /\ handle \in {"live", "destroying"}
    BY <1>0, <1>1, <2>1
  <2> QED BY <1>0, <1>7, <2>1, <2>2, <2>4, <2>5
<1>16. ASSUME NEW o \in Ops, Cpp!Fill(o) \/ Cpp!Cleanup(o) PROVE Cpp!CppInv'
  <2>0. /\ op[o] \in {"allocated", "running"} /\ op[o] \notin Cpp!Settled
        /\ UNCHANGED <<free_head, ctx>> /\ UNCHANGED <<ran, alive, handle, pool, buffer>>
    BY <1>16 DEF Cpp!Fill, Cpp!Cleanup, Cpp!Settled, Cpp!engine
  <2>1. PICK s : s = ctx[o][1]
    OBVIOUS
  <2>2. PICK k : k = ctx[o][2]
    OBVIOUS
  <2>3. /\ s \in Shards /\ k \in DOMAIN contexts[s] /\ contexts[s][k].next = Cpp!InUse
        /\ op[o] = "running" => contexts[s][k].callback = o /\ contexts[s][k].on_complete
    BY <2>0, <2>1, <2>2 DEF Cpp!CppInv, Cpp!HolderSound, Cpp!ContextOf
  <2>4. contexts[s] \in [DOMAIN contexts[s] -> Cpp!Contexts]
    BY <2>3 DEF Cpp!CppInv, Cpp!ShardSound
  <2>5. PICK c : c = contexts[s][k]
    OBVIOUS
  <2>6. /\ c \in Cpp!Contexts /\ c.next = Cpp!InUse
        /\ op[o] = "running" => c.callback = o /\ c.on_complete
    BY <2>3, <2>4, <2>5
  <2>7. CASE Cpp!Fill(o)
    <3> DEFINE e == [[c EXCEPT !.callback = o] EXCEPT !.on_complete = TRUE]
    <3>1. contexts' = [contexts EXCEPT ![s][k] = e]
      BY <1>0, <2>1, <2>2, <2>3, <2>5, <2>7 DEF Cpp!Fill
    <3>2. e \in Cpp!Contexts /\ e.next = Cpp!InUse /\ e.callback = o /\ e.on_complete
      BY <2>6 DEF Cpp!Contexts
    <3> HIDE DEF e
    <3>3. op' = [op EXCEPT ![o] = "filled"] /\ "filled" \notin Cpp!Settled
      BY <2>7 DEF Cpp!Fill, Cpp!Goto, Cpp!Settled
    <3>4. Held
      BY <1>4, <2>0, <2>1, <2>2, <3>1, <3>2, <3>3
    <3>5. op' \in [Ops -> Labels] /\ handle \in {"live", "destroying"}
      BY <1>0, <1>1, <2>0, <3>3
    <3> QED BY <1>0, <1>6, <1>7, <2>0, <3>4, <3>5
  <2>8. CASE Cpp!Cleanup(o)
    <3>0. op[o] = "running"
      BY <2>8 DEF Cpp!Cleanup
    <3> DEFINE e == [c EXCEPT !.on_complete = FALSE]
    <3>1. contexts' = [contexts EXCEPT ![s][k] = e]
      BY <1>0, <2>1, <2>2, <2>3, <2>5, <2>8 DEF Cpp!Cleanup
    <3>2. e \in Cpp!Contexts /\ e.next = Cpp!InUse
      BY <2>6 DEF Cpp!Contexts
    <3> HIDE DEF e
    <3>3. op' = [op EXCEPT ![o] = "cleanup"] /\ "cleanup" \notin Cpp!Settled
      BY <2>1, <2>2, <2>5, <2>6, <2>8, <3>0 DEF Cpp!Cleanup, Cpp!Goto, Cpp!Settled, Cpp!ContextOf
    <3>4. Held
      <4>1. "cleanup" \in {"filled", "pending", "running"} => e.callback = o /\ e.on_complete
        OBVIOUS
      <4> QED BY <1>4, <2>0, <2>1, <2>2, <3>1, <3>2, <3>3, <4>1
    <3>5. op' \in [Ops -> Labels] /\ handle \in {"live", "destroying"}
      BY <1>0, <1>1, <2>0, <3>3
    <3> QED BY <1>0, <1>6, <1>7, <2>0, <3>4, <3>5
  <2> QED BY <1>16, <2>7, <2>8
<1>17. CASE UNCHANGED Cpp!vars
  BY <1>0, <1>8, <1>17 DEF Cpp!vars, Cpp!EngineSound, Cpp!Settled
<1> QED BY <1>10, <1>11, <1>12, <1>13, <1>14, <1>15, <1>16, <1>17 DEF Cpp!Next

\* FreeAt walks the free list: its k-th context, and End past the last.
LEMMA FreeAtWalks ==
  ASSUME NEW s \in Shards, NEW n \in Nat, contexts[s] \in [0 .. n - 1 -> Cpp!Contexts],
         NEW m \in Nat, NEW q \in [1 .. m -> DOMAIN contexts[s]], Cpp!FreeList(s, m, q)
  PROVE  /\ Cpp!FreeAt(s) = [k \in 0 .. n |-> IF k < m THEN q[k + 1] ELSE Cpp!End]
         /\ m <= n
<1> DEFINE Walk(f) == [k \in Nat |-> IF k = 0 THEN free_head[s]
                                     ELSE IF f[k - 1] < 0 THEN Cpp!End
                                     ELSE contexts[s][f[k - 1]].next]
           f == CHOOSE f : f = Walk(f)
           g == [k \in Nat |-> IF k < m THEN q[k + 1] ELSE Cpp!End]
<1>1. Cpp!FreeAt(s) = [k \in 0 .. n |-> f[k]]
  <2>1. Cpp!Cardinality(DOMAIN contexts[s]) = n
    BY SizeOf
  <2> QED BY <2>1 DEF Cpp!FreeAt
<1>2. \A k \in Nat : k # 0 =>
        g[k] = IF g[k - 1] < 0 THEN Cpp!End ELSE contexts[s][g[k - 1]].next
  <2> SUFFICES ASSUME NEW k \in Nat, k # 0
               PROVE  g[k] = IF g[k - 1] < 0 THEN Cpp!End ELSE contexts[s][g[k - 1]].next
    OBVIOUS
  <2>1. k - 1 \in Nat /\ k - 1 + 1 = k
    OBVIOUS
  <2>2. CASE k - 1 < m
    <3>1. g[k - 1] = q[k] /\ k \in 1 .. m
      BY <2>1, <2>2
    <3>2. q[k] \in 0 .. n - 1 /\ contexts[s][q[k]].next = IF k = m THEN Cpp!End ELSE q[k + 1]
      BY <3>1 DEF Cpp!FreeList
    <3>3. g[k] = IF k = m THEN Cpp!End ELSE q[k + 1]
      BY <3>1
    <3>4. ~(q[k] < 0)
      BY <3>2
    <3> HIDE DEF g
    <3> QED BY <3>1, <3>2, <3>3, <3>4
  <2>3. CASE ~(k - 1 < m)
    <3>1. g[k - 1] = Cpp!End /\ g[k] = Cpp!End /\ Cpp!End < 0
      BY <2>1, <2>3 DEF Cpp!End
    <3> HIDE DEF g
    <3> QED BY <3>1
  <2> QED BY <2>2, <2>3
<1>3. g[0] = free_head[s]
  BY DEF Cpp!FreeList
<1>4. g = Walk(g)
  <2>1. DOMAIN g = Nat /\ g = [k \in Nat |-> g[k]]
    OBVIOUS
  <2> HIDE DEF g
  <2> QED BY <1>2, <1>3, <2>1
<1>5. f = Walk(f)
  <2> HIDE DEF g, Walk
  <2> QED BY <1>4
<1>6. \A k \in Nat : f[k] = g[k]
  <2> DEFINE T == {k \in Nat : f[k] = g[k]}
  <2> HIDE DEF f, g
  <2>1. 0 \in T
    <3>1. f[0] = free_head[s]
      BY <1>5
    <3> QED BY <1>3, <3>1
  <2>2. ASSUME NEW k \in Nat, k \in T PROVE k + 1 \in T
    <3>1. k + 1 \in Nat /\ k + 1 # 0 /\ k + 1 - 1 = k
      OBVIOUS
    <3>2. f[k + 1] = IF f[k] < 0 THEN Cpp!End ELSE contexts[s][f[k]].next
      BY <1>5, <3>1
    <3>3. g[k + 1] = IF g[k] < 0 THEN Cpp!End ELSE contexts[s][g[k]].next
      BY <1>2, <3>1
    <3> QED BY <2>2, <3>1, <3>2, <3>3
  <2> HIDE DEF T
  <2>3. Nat \subseteq T
    BY <2>1, <2>2, SetInduction
  <2> QED BY <2>3 DEF T
<1>7. Cpp!FreeAt(s) = [k \in 0 .. n |-> IF k < m THEN q[k + 1] ELSE Cpp!End]
  <2> HIDE DEF f
  <2>1. \A k \in 0 .. n : f[k] = IF k < m THEN q[k + 1] ELSE Cpp!End
    BY <1>6
  <2> QED BY <1>1, <2>1
<1>8. m <= n
  <2> SUFFICES ASSUME m > n PROVE FALSE
    OBVIOUS
  <2>1. /\ IsFiniteSet(1 .. m) /\ Cardinality(1 .. m) = m
        /\ IsFiniteSet(0 .. n - 1) /\ Cardinality(0 .. n - 1) = n
    <3>1. 1 \in Int /\ m \in Int /\ 0 \in Int /\ n - 1 \in Int /\ (1 > m => m = 0)
          /\ (0 > n - 1 => n = 0) /\ m - 1 + 1 = m /\ n - 1 - 0 + 1 = n
      OBVIOUS
    <3> QED BY <3>1, FS_Interval
  <2>2. q \in [1 .. m -> 0 .. n - 1]
    OBVIOUS
  <2>3. \E i, j \in 1 .. m : i # j /\ q[i] = q[j]
    BY <2>1, <2>2, FS_PigeonHole
  <2> QED BY <2>3 DEF Cpp!FreeList
<1> QED BY <1>7, <1>8

\* The invariant gives what the interface promises.
LEMMA CppInvIsSafe ==
  ASSUME Cpp!CppConstants, Cpp!CppInv
  PROVE  Cpp!CppSafe
<1>1. ASSUME NEW s \in Shards
      PROVE  LET list == Cpp!FreeAt(s)
                 free == {k \in DOMAIN list : list[k] >= 0}
             IN /\ \A o, p \in Cpp!Holders(s) : ctx[o][2] = ctx[p][2] => o = p
                /\ {list[k] : k \in free} = DOMAIN contexts[s] \ Cpp!Used(s)
                /\ \A j, k \in free : list[j] = list[k] => j = k
                /\ \A k \in Cpp!Used(s) : k \in DOMAIN contexts[s] /\ contexts[s][k].next = Cpp!InUse
                /\ \A k \in DOMAIN contexts[s] \ Cpp!Used(s) :
                     contexts[s][k].callback = None /\ ~contexts[s][k].on_complete
  <2>1. \A o \in Cpp!Holders(s) : /\ Cpp!HolderSound(o) /\ ctx[o][1] = s /\ o \in Ops
                                   /\ op[o] \notin Cpp!Settled
    BY DEF Cpp!CppInv, Cpp!Holders
  <2>2. \A o, p \in Cpp!Holders(s) : ctx[o][2] = ctx[p][2] => o = p
    BY <2>1 DEF Cpp!HolderSound
  <2>3. \A k \in Cpp!Used(s) : k \in DOMAIN contexts[s] /\ contexts[s][k].next = Cpp!InUse
    BY <2>1 DEF Cpp!Used, Cpp!HolderSound, Cpp!ContextOf
  <2>4. Cpp!ShardSound(s)
    BY DEF Cpp!CppInv
  <2>5. \A k \in DOMAIN contexts[s] \ Cpp!Used(s) :
          contexts[s][k].callback = None /\ ~contexts[s][k].on_complete
    BY <2>4 DEF Cpp!ShardSound
  <2>6. PICK n \in Nat : n >= 2 /\ contexts[s] \in [0 .. n - 1 -> Cpp!Contexts]
    BY <2>4 DEF Cpp!ShardSound
  <2>7. PICK m \in Nat : \E q \in [1 .. m -> DOMAIN contexts[s]] : Cpp!FreeList(s, m, q)
    BY <2>4 DEF Cpp!ShardSound
  <2>8. PICK q \in [1 .. m -> DOMAIN contexts[s]] : Cpp!FreeList(s, m, q)
    BY <2>7
  <2> DEFINE list == Cpp!FreeAt(s)
             free == {k \in DOMAIN list : list[k] >= 0}
  <2>9. list = [k \in 0 .. n |-> IF k < m THEN q[k + 1] ELSE Cpp!End] /\ m <= n
    BY <2>6, <2>8, FreeAtWalks
  <2> HIDE DEF list
  <2>10. \A i \in 1 .. m : q[i] \in 0 .. n - 1
    BY <2>6, <2>8
  <2>11. free = 0 .. m - 1 /\ \A k \in 0 .. m - 1 : list[k] = q[k + 1] /\ k + 1 \in 1 .. m
    <3>1. \A k \in 0 .. n : (k < m) = (k \in 0 .. m - 1)
      BY <2>9
    <3>2. \A k \in 0 .. m - 1 : k \in 0 .. n /\ list[k] = q[k + 1] /\ k + 1 \in 1 .. m
      BY <2>9
    <3>3. \A k \in 0 .. m - 1 : list[k] >= 0
      BY <2>10, <3>2
    <3>4. \A k \in 0 .. n : k \notin 0 .. m - 1 => list[k] = -1
      BY <2>9, <3>1 DEF Cpp!End
    <3>5. DOMAIN list = 0 .. n
      BY <2>9
    <3> QED BY <3>2, <3>3, <3>4, <3>5
  <2> HIDE DEF free
  <2>12. {list[k] : k \in free} = DOMAIN contexts[s] \ Cpp!Used(s)
    <3>1. ASSUME NEW k \in free PROVE list[k] \in DOMAIN contexts[s] \ Cpp!Used(s)
      BY <2>8, <2>11, <3>1 DEF Cpp!FreeList
    <3>2. ASSUME NEW j \in DOMAIN contexts[s] \ Cpp!Used(s) PROVE \E k \in free : list[k] = j
      <4>1. PICK i \in 1 .. m : q[i] = j
        BY <2>8, <3>2 DEF Cpp!FreeList
      <4>2. i - 1 \in 0 .. m - 1 /\ i - 1 + 1 = i
        OBVIOUS
      <4>3. list[i - 1] = j
        BY <2>11, <4>1, <4>2
      <4> QED BY <2>11, <4>2, <4>3
    <3> QED BY <3>1, <3>2
  <2>13. \A j, k \in free : list[j] = list[k] => j = k
    <3> SUFFICES ASSUME NEW j \in 0 .. m - 1, NEW k \in 0 .. m - 1, q[j + 1] = q[k + 1]
                 PROVE  j = k
      BY <2>11
    <3>1. j + 1 = k + 1
      BY <2>8, <2>11 DEF Cpp!FreeList
    <3> QED BY <3>1
  <2> QED BY <2>2, <2>3, <2>5, <2>12, <2>13 DEF list, free
<1>2. Cpp!ContextsOwned
  BY <1>1 DEF Cpp!ContextsOwned
<1>3. Cpp!CallbackIsOwn
  BY DEF Cpp!CppInv
<1>4. Cpp!PoolOutlivesOps
  BY DEF Cpp!CppInv, Cpp!EngineSound, Cpp!PoolOutlivesOps
<1>5. OtherThreads \/ Cpp!BufferFreeSafe
  BY DEF Cpp!CppInv, Cpp!EngineSound, Cpp!BufferFreeSafe
<1> QED BY <1>2, <1>3, <1>4, <1>5 DEF Cpp!CppSafe

\* The C++ interface, for any number of operations, shards, buffers and
\* initial contexts: a context of CallbackPool has one holder or is on its
\* shard's free list once, through growth, failed submissions and completions;
\* a completion runs the callback of its own operation once; the pool outlives
\* every operation that uses it; and a Buffer gives its memory back to a live
\* engine, unless one dies on a thread outside the engine's control.
THEOREM CppInterfaceIsSafe ==
  ASSUME Cpp!CppConstants
  PROVE  Cpp!Spec => []Cpp!CppSafe
<1>1. Cpp!Init => Cpp!CppInv
  BY CppStarts
<1>2. Cpp!CppInv /\ [Cpp!Next]_(Cpp!vars) => Cpp!CppInv'
  BY CppStep
<1>3. Cpp!CppInv => Cpp!CppSafe
  BY CppInvIsSafe
<1> QED BY <1>1, <1>2, <1>3, PTL DEF Cpp!Spec

-----------------------------------------------------------------------------
(* The Rust interface: no task sleeps past its result, every context is    *)
(* freed once, and no future outlives its engine.                          *)

CONSTANTS Slots, Pollers, Wakers, Vectored
VARIABLES future, result, waker, consumed, context, request, slot, pending,
          canceled, callback, task, current, output, handles, engine, poll_lock

Rust == INSTANCE RustFutures

\* What one operation, its callback and its future do.
OperationStep(o) ==
  \/ Rust!RefusedEarly(o) \/ Rust!Call(o) \/ Rust!Refused(o) \/ \E s \in Slots : Rust!Accepted(o, s)
  \/ Rust!TaskStep(o) \/ Rust!CallbackStep(o) \/ Rust!DropBegin(o)
  \/ \E w \in Wakers : Rust!Move(o, w)
  \/ \E r \in Rust!Runners : Rust!Trampoline(r, o)

\* What the threads that poll and the owner of the engine do.
EngineStep ==
  \/ \E r \in Pollers : Rust!PollEnter(r) \/ Rust!PollLeave(r)
  \/ Rust!EngineDrop \/ Rust!InnerDrop \/ Rust!Destroyed

\* The records of callback.
Callbacks ==
  [at : {"none", "enter", "bad", "consumed", "taken", "stored", "returned"},
   on : Rust!Runners \cup {None}, res : Rust!Results \cup {None},
   waker : Wakers \cup {None}]

LEMMA IdleType == Rust!Idle \in Callbacks /\ Rust!Idle.at = "none" /\ Rust!Idle.on = None
BY DEF Rust!Idle, Callbacks

-----------------------------------------------------------------------------
(* Types *)

LEMMA CallbackTypes ==
  ASSUME Rust!TypeOK, NEW o \in Ops, OperationStep(o)
  PROVE  callback' \in [Ops -> Callbacks]
<1>0. callback \in [Ops -> Callbacks] /\ waker[o] \in Wakers \cup {None}
  BY DEF Rust!TypeOK, Callbacks
<1>1. callback[o] \in Callbacks
  BY <1>0
<1>2. CASE Rust!RefusedEarly(o) \/ Rust!Call(o) \/ Rust!Refused(o) \/ Rust!DropBegin(o)
           \/ \E s \in Slots : Rust!Accepted(o, s)
  BY <1>0, <1>2 DEF Rust!RefusedEarly, Rust!Call, Rust!Refused, Rust!DropBegin, Rust!Accepted
<1>3. CASE Rust!TaskStep(o) \/ \E w \in Wakers : Rust!Move(o, w)
  BY <1>0, <1>3 DEF Rust!TaskStep, Rust!Submitted, Rust!Poll, Rust!DropTest, Rust!DropCancel, Rust!Move
<1>4. CASE Rust!Consume(o)
  <2>1. [callback[o] EXCEPT !.at = "consumed"] \in Callbacks
    BY <1>1 DEF Callbacks
  <2> QED BY <1>0, <1>4, <2>1 DEF Rust!Consume
<1>5. CASE Rust!Store(o)
  <2>1. [callback[o] EXCEPT !.at = "stored", !.waker = waker[o]] \in Callbacks
    BY <1>0, <1>1 DEF Callbacks
  <2> QED BY <1>0, <1>5, <2>1 DEF Rust!Store
<1>6. CASE Rust!Wake(o)
  <2>1. [Rust!Idle EXCEPT !.at = "returned"] \in Callbacks
    BY DEF Rust!Idle, Callbacks
  <2> QED BY <1>0, <1>6, <2>1 DEF Rust!Wake
<1>7. CASE \E r \in Rust!Runners : Rust!Trampoline(r, o)
  <2>1. PICK r \in Rust!Runners : Rust!Trampoline(r, o)
    BY <1>7
  <2>2. PICK res \in Rust!Results :
          callback' = [callback EXCEPT ![o] =
            [at |-> IF context[o] = "live" THEN "enter" ELSE "bad",
             on |-> r, res |-> res, waker |-> None]]
    BY <2>1 DEF Rust!Trampoline, Rust!Results
  <2>3. [at |-> IF context[o] = "live" THEN "enter" ELSE "bad",
         on |-> r, res |-> res, waker |-> None] \in Callbacks
    BY DEF Callbacks
  <2> QED BY <1>0, <2>2, <2>3
<1> QED BY <1>2, <1>3, <1>4, <1>5, <1>6, <1>7 DEF OperationStep, Rust!CallbackStep

LEMMA OperationTypes ==
  ASSUME Rust!TypeOK, NEW o \in Ops, Rust!OperationSound(o), OperationStep(o)
  PROVE  Rust!TypeOK'
<1> USE DEF Rust!state, Rust!library, Rust!awaiting, Rust!shared
<1>1. callback' \in [Ops -> Callbacks]
  BY CallbackTypes
<1> SUFFICES
      /\ future' \in [Ops -> Rust!Phases]
      /\ result' \in [Ops -> Rust!Results \cup {None}]
      /\ waker' \in [Ops -> Wakers \cup {None}]
      /\ consumed' \in [Ops -> BOOLEAN]
      /\ context' \in [Ops -> {"none", "live", "freed"}]
      /\ request' \in [Ops -> Slots \cup {None}]
      /\ slot' \in [Slots -> Ops \cup {None}]
      /\ pending' \in [Ops -> BOOLEAN] /\ canceled' \subseteq Ops
      /\ task' \in [Ops -> {"ready", "parked", "done"}]
      /\ current' \in [Ops -> Wakers] /\ output' \in [Ops -> Rust!Results \cup {None}]
      /\ UNCHANGED Rust!shared
  BY <1>1 DEF Rust!TypeOK, Callbacks
<1>2. CASE Rust!RefusedEarly(o) \/ Rust!Call(o) \/ Rust!Refused(o) \/ Rust!Submitted(o)
  BY <1>2 DEF Rust!RefusedEarly, Rust!Call, Rust!Refused, Rust!Submitted, Rust!TypeOK, Rust!Phases
<1>3. CASE \E s \in Slots : Rust!Accepted(o, s)
  BY <1>3 DEF Rust!Accepted, Rust!TypeOK, Rust!Phases
<1>4. CASE Rust!Poll(o)
  <2>1. result[o] \in Rust!Results \cup {None} /\ current[o] \in Wakers
    BY DEF Rust!TypeOK
  <2> QED BY <1>4, <2>1 DEF Rust!Poll, Rust!TypeOK
<1>5. CASE Rust!DropTest(o)
  <2>1. future' \in [Ops -> Rust!Phases]
    BY <1>5 DEF Rust!DropTest, Rust!TypeOK, Rust!Phases
  <2> QED BY <1>5, <2>1 DEF Rust!DropTest, Rust!TypeOK
<1>6. CASE Rust!DropCancel(o)
  <2>1. canceled' \subseteq Ops
    <3>1. canceled' = canceled \cup
            {q \in {slot[request[o]]} : q # None /\ pending[q]}
      BY <1>6 DEF Rust!DropCancel
    <3>2. request[o] \in Slots
      BY <1>6 DEF Rust!DropCancel, Rust!OperationSound, Rust!Alive
    <3>3. slot[request[o]] \in Ops \cup {None} /\ canceled \subseteq Ops
      BY <3>2 DEF Rust!TypeOK
    <3> QED BY <3>1, <3>3
  <2> QED BY <1>6, <2>1 DEF Rust!DropCancel, Rust!TypeOK, Rust!Phases
<1>7. CASE Rust!Consume(o)
  BY <1>7 DEF Rust!Consume, Rust!TypeOK
<1>8. CASE Rust!Store(o)
  <2>1. callback[o].res \in Rust!Results \cup {None}
    BY DEF Rust!TypeOK
  <2> QED BY <1>8, <2>1 DEF Rust!Store, Rust!TypeOK
<1>9. CASE Rust!Wake(o)
  BY <1>9 DEF Rust!Wake, Rust!TypeOK
<1>10. CASE Rust!DropBegin(o)
  BY <1>10 DEF Rust!DropBegin, Rust!TypeOK, Rust!Phases
<1>12. CASE \E w \in Wakers : Rust!Move(o, w)
  BY <1>12 DEF Rust!Move, Rust!TypeOK
<1>11. CASE \E r \in Rust!Runners : Rust!Trampoline(r, o)
  BY <1>11 DEF Rust!Trampoline, Rust!TypeOK
<1> QED BY <1>2, <1>3, <1>4, <1>5, <1>6, <1>7, <1>8, <1>9, <1>10, <1>11,
           <1>12
        DEF OperationStep, Rust!TaskStep, Rust!CallbackStep

LEMMA EngineTypes ==
  ASSUME Rust!TypeOK, EngineStep
  PROVE  Rust!TypeOK'
BY DEF EngineStep, Rust!PollEnter, Rust!PollLeave, Rust!EngineDrop, Rust!InnerDrop, Rust!Destroyed,
       Rust!TypeOK, Rust!state, Rust!library, Rust!awaiting, Rust!Runners

-----------------------------------------------------------------------------
(* One operation moves at a time *)

\* A step of an operation leaves the others' futures, callbacks and slots.
LEMMA OthersKept ==
  ASSUME Rust!FuturesConstants, Rust!TypeOK, NEW o \in Ops, OperationStep(o),
         NEW p \in Ops, p # o
  PROVE  /\ future'[p] = future[p] /\ result'[p] = result[p]
         /\ waker'[p] = waker[p] /\ context'[p] = context[p]
         /\ request'[p] = request[p] /\ pending'[p] = pending[p]
         /\ callback'[p] = callback[p] /\ task'[p] = task[p]
         /\ current'[p] = current[p]
         /\ \A s \in Slots : slot[s] = p => slot'[s] = p
         /\ UNCHANGED Rust!shared
<1> USE DEF Rust!state, Rust!library, Rust!awaiting, Rust!shared, Rust!TypeOK
<1>2. CASE Rust!RefusedEarly(o) \/ Rust!Call(o) \/ Rust!Refused(o) \/ Rust!Submitted(o)
  BY <1>2 DEF Rust!RefusedEarly, Rust!Call, Rust!Refused, Rust!Submitted
<1>3. CASE \E s \in Slots : Rust!Accepted(o, s)
  BY <1>3 DEF Rust!Accepted, Rust!FuturesConstants
<1>4. CASE Rust!Poll(o)
  BY <1>4 DEF Rust!Poll
<1>5. CASE Rust!DropTest(o) \/ Rust!DropCancel(o)
  BY <1>5 DEF Rust!DropTest, Rust!DropCancel
<1>7. CASE Rust!Consume(o) \/ Rust!Store(o)
  BY <1>7 DEF Rust!Consume, Rust!Store
<1>9. CASE Rust!Wake(o)
  BY <1>9 DEF Rust!Wake
<1>10. CASE Rust!DropBegin(o) \/ \E w \in Wakers : Rust!Move(o, w)
  BY <1>10 DEF Rust!DropBegin, Rust!Move
<1>11. CASE \E r \in Rust!Runners : Rust!Trampoline(r, o)
  BY <1>11 DEF Rust!Trampoline
<1> QED BY <1>2, <1>3, <1>4, <1>5, <1>7, <1>9, <1>10, <1>11
        DEF OperationStep, Rust!TaskStep, Rust!CallbackStep

\* So what is sound of another operation stays sound.
LEMMA OthersSound ==
  ASSUME Rust!FuturesConstants, Rust!TypeOK, NEW o \in Ops, OperationStep(o),
         NEW p \in Ops, p # o, Rust!OperationSound(p)
  PROVE  Rust!OperationSound(p)'
<1>1. /\ future'[p] = future[p] /\ result'[p] = result[p]
      /\ context'[p] = context[p] /\ request'[p] = request[p]
      /\ pending'[p] = pending[p] /\ callback'[p] = callback[p]
      /\ task'[p] = task[p] /\ handles' = handles
      /\ \A s \in Slots : slot[s] = p => slot'[s] = p
  BY OthersKept DEF Rust!shared
<1> QED BY <1>1 DEF Rust!OperationSound

-----------------------------------------------------------------------------
(* The operation that moves *)

\* What a step makes of its operation's callback.
LEMMA CallbackMoves ==
  ASSUME Rust!TypeOK, NEW o \in Ops
  PROVE  /\ Rust!Consume(o) => /\ callback'[o].at = "consumed"
                          /\ callback'[o].res = callback[o].res
         /\ Rust!Store(o) => /\ callback'[o].at = "stored"
                        /\ callback'[o].waker = waker[o]
         /\ Rust!Wake(o) => callback'[o].at = "returned"
         /\ \A r \in Rust!Runners : Rust!Trampoline(r, o) =>
              /\ callback'[o].at = IF context[o] = "live" THEN "enter" ELSE "bad"
              /\ callback'[o].res \in Rust!Results
<1>0. callback \in [Ops -> Callbacks]
  BY DEF Rust!TypeOK, Callbacks
<1>1. callback[o] \in Callbacks
  BY <1>0
<1>2. ASSUME Rust!Consume(o)
      PROVE  callback'[o].at = "consumed" /\ callback'[o].res = callback[o].res
  <2>1. callback'[o] = [callback[o] EXCEPT !.at = "consumed"]
    BY <1>0, <1>2 DEF Rust!Consume
  <2> QED BY <1>1, <2>1 DEF Callbacks
<1>3. ASSUME Rust!Store(o)
      PROVE  callback'[o].at = "stored" /\ callback'[o].waker = waker[o]
  <2>1. callback'[o] = [callback[o] EXCEPT !.at = "stored", !.waker = waker[o]]
    BY <1>0, <1>3 DEF Rust!Store
  <2> QED BY <1>1, <2>1 DEF Callbacks
<1>4. ASSUME Rust!Wake(o)
      PROVE  callback'[o].at = "returned"
  <2>1. callback'[o] = [Rust!Idle EXCEPT !.at = "returned"]
    BY <1>0, <1>4 DEF Rust!Wake
  <2> QED BY <2>1 DEF Rust!Idle
<1>5. ASSUME NEW r \in Rust!Runners, Rust!Trampoline(r, o)
      PROVE  /\ callback'[o].at = IF context[o] = "live" THEN "enter" ELSE "bad"
             /\ callback'[o].res \in Rust!Results
  <2>1. PICK res \in Rust!Results :
          callback' = [callback EXCEPT ![o] =
            [at |-> IF context[o] = "live" THEN "enter" ELSE "bad",
             on |-> r, res |-> res, waker |-> None]]
    BY <1>5 DEF Rust!Trampoline, Rust!Results
  <2> QED BY <1>0, <2>1
<1> QED BY <1>2, <1>3, <1>4, <1>5

\* The operation itself stays sound.
LEMMA SelfSound ==
  ASSUME Rust!FuturesConstants, Rust!TypeOK, NEW o \in Ops, OperationStep(o),
         Rust!OperationSound(o)
  PROVE  Rust!OperationSound(o)'
<1> USE DEF Rust!state, Rust!library, Rust!awaiting, Rust!shared, Rust!TypeOK
<1>0. callback[o] = Rust!Idle => callback[o].at = "none"
  BY IdleType
<1>2. CASE Rust!RefusedEarly(o) \/ Rust!Call(o)
  BY <1>0, <1>2 DEF Rust!RefusedEarly, Rust!Call, Rust!OperationSound, Rust!Alive
<1>3. CASE Rust!Refused(o) \/ Rust!Submitted(o)
  BY <1>0, <1>3 DEF Rust!Refused, Rust!Submitted, Rust!Returning, Rust!OperationSound, Rust!Alive
<1>4. CASE \E s \in Slots : Rust!Accepted(o, s)
  BY <1>0, <1>4 DEF Rust!Accepted, Rust!Returning, Rust!OperationSound, Rust!Alive
<1>5. CASE Rust!Poll(o)
  BY <1>0, <1>5 DEF Rust!Poll, Rust!OperationSound
<1>6. CASE Rust!DropTest(o)
  BY <1>0, <1>6 DEF Rust!DropTest, Rust!OperationSound, Rust!Alive
<1>7. CASE Rust!DropCancel(o)
  BY <1>0, <1>7 DEF Rust!DropCancel, Rust!OperationSound, Rust!Alive
<1>8. CASE Rust!Consume(o)
  <2>1. callback'[o].at = "consumed" /\ callback'[o].res = callback[o].res
    BY <1>8, CallbackMoves
  <2> QED BY <1>0, <1>8, <2>1 DEF Rust!Consume, Rust!OperationSound
<1>9. CASE Rust!Store(o)
  <2>1. callback'[o].at = "stored" /\ callback[o].at = "consumed"
    BY <1>9, CallbackMoves DEF Rust!Store
  <2>2. result'[o] = callback[o].res /\ callback[o].res \in Rust!Results
    BY <1>9, <2>1 DEF Rust!Store, Rust!OperationSound
  <2>3. result'[o] # None
    BY <2>2 DEF Rust!FuturesConstants
  <2> QED BY <1>0, <1>9, <2>1, <2>3 DEF Rust!Store, Rust!OperationSound
<1>10. CASE Rust!Wake(o)
  <2>1. callback'[o].at = "returned" /\ callback[o].at = "stored"
    BY <1>10, CallbackMoves DEF Rust!Wake
  <2>2. ~pending[o] /\ future[o] \notin {"new", "called"}
    BY <1>0, <2>1 DEF Rust!OperationSound
  <2>3. task[o] = "done" => task'[o] = "done"
    BY <1>10 DEF Rust!Wake
  <2> QED BY <1>10, <2>1, <2>2, <2>3 DEF Rust!Wake, Rust!OperationSound
<1>11. CASE Rust!DropBegin(o) \/ \E w \in Wakers : Rust!Move(o, w)
  BY <1>0, <1>11 DEF Rust!DropBegin, Rust!Move, Rust!OperationSound, Rust!Alive
<1>12. CASE \E r \in Rust!Runners : Rust!Trampoline(r, o)
  <2>1. PICK r \in Rust!Runners : Rust!Trampoline(r, o)
    BY <1>12
  <2>2. pending[o] /\ context[o] = "live" /\ future[o] \notin {"new", "called"}
    BY <2>1 DEF Rust!Trampoline, Rust!OperationSound
  <2>3. callback'[o].at = "enter" /\ callback'[o].res \in Rust!Results
    BY <2>1, <2>2, CallbackMoves
  <2>4. result[o] = None
    BY <1>0, <2>2 DEF Rust!OperationSound
  <2>5. /\ ~pending'[o] /\ context'[o] = "freed" /\ result' = result
        /\ future' = future /\ request' = request /\ handles' = handles
    BY <2>1 DEF Rust!Trampoline
  <2> QED BY <2>2, <2>3, <2>4, <2>5 DEF Rust!OperationSound
<1> QED BY <1>2, <1>3, <1>4, <1>5, <1>6, <1>7, <1>8, <1>9, <1>10, <1>11, <1>12
        DEF OperationStep, Rust!TaskStep, Rust!CallbackStep

-----------------------------------------------------------------------------
(* Tasks and wakers *)

\* A task that sleeps has its waker where the callback will find it, or in the
\* callback's hands, also after the future went to another task.
LEMMA TaskNext ==
  ASSUME Rust!FuturesConstants, Rust!TypeOK, NEW o \in Ops, OperationStep(o),
         \A p \in Ops : Rust!OperationSound(p), Rust!NoTaskForgotten
  PROVE  Rust!NoTaskForgotten'
<1> USE DEF Rust!state, Rust!library, Rust!awaiting, Rust!shared
<1>0. /\ callback[o] = Rust!Idle => callback[o].at = "none"
      /\ Rust!OperationSound(o)
  BY IdleType
<1>1. ASSUME NEW p \in Ops, p # o, task'[p] = "parked"
      PROVE  \/ waker'[p] = current'[p] /\ result'[p] = None
             \/ callback'[p].at = "stored" /\ callback'[p].waker = current'[p]
  <2>1. /\ result'[p] = result[p] /\ waker'[p] = waker[p]
        /\ callback'[p] = callback[p] /\ task'[p] = task[p]
        /\ current'[p] = current[p]
    BY <1>1, OthersKept
  <2> QED BY <1>1, <2>1 DEF Rust!NoTaskForgotten
<1>2. ASSUME task'[o] = "parked"
      PROVE  \/ waker'[o] = current'[o] /\ result'[o] = None
             \/ callback'[o].at = "stored" /\ callback'[o].waker = current'[o]
  <2>1. CASE UNCHANGED <<result, waker, callback, task, current>>
    BY <1>2, <2>1 DEF Rust!NoTaskForgotten
  <2>2. CASE Rust!Poll(o)
    BY <1>2, <2>2 DEF Rust!Poll, Rust!TypeOK
  <2>3. CASE Rust!Consume(o)
    <3>1. callback[o].at = "enter" /\ UNCHANGED <<result, waker, task, current>>
      BY <2>3 DEF Rust!Consume
    <3> QED BY <1>2, <3>1 DEF Rust!NoTaskForgotten
  <2>4. CASE Rust!Store(o)
    <3>1. /\ callback[o].at = "consumed" /\ UNCHANGED <<task, current>>
          /\ callback'[o].at = "stored" /\ callback'[o].waker = waker[o]
      BY <2>4, CallbackMoves DEF Rust!Store
    <3> QED BY <1>2, <3>1 DEF Rust!NoTaskForgotten
  <2>5. CASE Rust!Wake(o)
    <3>1. callback[o].at = "stored" /\ task[o] = "parked"
      BY <1>2, <2>5 DEF Rust!Wake, Rust!TypeOK
    <3>2. callback[o].waker # current[o]
      BY <1>2, <2>5, <3>1 DEF Rust!Wake, Rust!TypeOK
    <3>3. result[o] = None
      BY <3>1, <3>2 DEF Rust!NoTaskForgotten
    <3> QED BY <1>0, <3>1, <3>3 DEF Rust!OperationSound
  <2>6. CASE Rust!DropBegin(o) \/ \E w \in Wakers : Rust!Move(o, w)
    BY <1>2, <2>6 DEF Rust!DropBegin, Rust!Move, Rust!TypeOK
  <2>7. CASE \E r \in Rust!Runners : Rust!Trampoline(r, o)
    <3>1. /\ callback[o].at = "none"
          /\ UNCHANGED <<result, waker, task, current>>
      BY <1>0, <2>7 DEF Rust!Trampoline
    <3> QED BY <1>2, <3>1 DEF Rust!NoTaskForgotten
  <2>8. CASE \/ Rust!RefusedEarly(o) \/ Rust!Call(o) \/ Rust!Refused(o) \/ Rust!Submitted(o)
             \/ Rust!DropTest(o) \/ Rust!DropCancel(o)
             \/ \E s \in Slots : Rust!Accepted(o, s)
    BY <2>1, <2>8 DEF Rust!RefusedEarly, Rust!Call, Rust!Refused, Rust!Submitted, Rust!DropTest,
                      Rust!DropCancel, Rust!Accepted
  <2> QED BY <2>2, <2>3, <2>4, <2>5, <2>6, <2>7, <2>8
          DEF OperationStep, Rust!TaskStep, Rust!CallbackStep
<1> QED BY <1>1, <1>2 DEF Rust!NoTaskForgotten

-----------------------------------------------------------------------------
(* The engine *)

\* A step of an operation needs the engine for a new reference, and gives a
\* slot out only under one.
LEMMA OperationKeepsEngine ==
  ASSUME Rust!TypeOK, NEW o \in Ops, OperationStep(o), Rust!OperationSound(o), Rust!EngineSound
  PROVE  Rust!EngineSound'
<1> USE DEF Rust!state, Rust!library, Rust!awaiting, Rust!shared
<1>1. handles' = handles /\ engine' = engine
  BY DEF OperationStep, Rust!RefusedEarly, Rust!Call, Rust!Refused, Rust!Accepted, Rust!TaskStep,
         Rust!Submitted, Rust!Poll, Rust!DropTest, Rust!DropCancel, Rust!CallbackStep, Rust!Consume, Rust!Store,
         Rust!Wake, Rust!DropBegin, Rust!Move, Rust!Trampoline
<1>2. \A p \in Ops : future'[p] \in Rust!Alive =>
        future[p] \in Rust!Alive \/ (p = o /\ future[o] = "accepted")
  <2>1. CASE Rust!RefusedEarly(o) \/ Rust!Call(o) \/ Rust!Refused(o) \/ Rust!DropBegin(o)
             \/ \E s \in Slots : Rust!Accepted(o, s)
    BY <2>1 DEF Rust!RefusedEarly, Rust!Call, Rust!Refused, Rust!DropBegin, Rust!Accepted, Rust!Alive, Rust!TypeOK
  <2>2. CASE Rust!Submitted(o) \/ Rust!DropTest(o) \/ Rust!DropCancel(o)
    BY <2>2 DEF Rust!Submitted, Rust!DropTest, Rust!DropCancel, Rust!Alive, Rust!TypeOK
  <2>3. CASE UNCHANGED future
    BY <2>3
  <2> QED BY <2>1, <2>2, <2>3 DEF OperationStep, Rust!TaskStep, Rust!CallbackStep, Rust!Poll,
          Rust!Consume, Rust!Store, Rust!Wake, Rust!Move, Rust!Trampoline
<1>3. Rust!Referenced' => Rust!Referenced
  BY <1>1, <1>2 DEF Rust!Referenced, Rust!OperationSound
<1>4. engine = "gone" => \A s \in Slots : slot[s] = None => slot'[s] = None
  <2>1. CASE \E s \in Slots : Rust!Accepted(o, s)
    <3>1. handles
      BY <2>1 DEF Rust!Accepted, Rust!Returning, Rust!OperationSound
    <3> QED BY <3>1 DEF Rust!EngineSound, Rust!Referenced
  <2>2. CASE Rust!Wake(o)
    BY <2>2 DEF Rust!Wake
  <2>3. CASE UNCHANGED slot
    BY <2>3
  <2> QED BY <2>1, <2>2, <2>3 DEF OperationStep, Rust!TaskStep, Rust!CallbackStep,
          Rust!RefusedEarly, Rust!Call, Rust!Refused, Rust!Submitted, Rust!Poll, Rust!DropTest, Rust!DropCancel,
          Rust!Consume, Rust!Store, Rust!DropBegin, Rust!Move, Rust!Trampoline
<1> QED BY <1>1, <1>3, <1>4 DEF Rust!EngineSound

\* The engine goes only without references, and is gone only without
\* requests.
LEMMA EngineKeepsAll ==
  ASSUME Rust!FuturesInv, EngineStep
  PROVE  (\A o \in Ops : Rust!OperationSound(o)') /\ Rust!EngineSound' /\ Rust!NoTaskForgotten'
<1> USE DEF Rust!state, Rust!library, Rust!awaiting
<1>1. UNCHANGED <<future, result, waker, context, request, slot, pending,
                  callback, task, current>>
  BY DEF EngineStep, Rust!PollEnter, Rust!PollLeave, Rust!EngineDrop, Rust!InnerDrop, Rust!Destroyed
<1>2. Rust!NoTaskForgotten'
  BY <1>1 DEF Rust!FuturesInv, Rust!NoTaskForgotten
<1>3. \A o \in Ops : future[o] \in {"called", "accepted"} => handles'
  BY DEF EngineStep, Rust!PollEnter, Rust!PollLeave, Rust!EngineDrop, Rust!InnerDrop, Rust!Destroyed,
         Rust!FuturesInv, Rust!OperationSound
<1>4. ASSUME NEW o \in Ops
      PROVE  Rust!OperationSound(o)'
  <2>1. Rust!OperationSound(o)
    BY DEF Rust!FuturesInv
  <2> QED BY <1>1, <1>3, <2>1 DEF Rust!OperationSound
<1>5. Rust!EngineSound'
  <2>1. CASE (\E r \in Pollers : Rust!PollEnter(r) \/ Rust!PollLeave(r)) \/ Rust!EngineDrop
    BY <1>1, <2>1 DEF Rust!PollEnter, Rust!PollLeave, Rust!EngineDrop, Rust!FuturesInv, Rust!EngineSound,
                      Rust!Referenced
  <2>2. CASE Rust!InnerDrop
    BY <1>1, <2>2 DEF Rust!InnerDrop, Rust!EngineSound, Rust!Referenced
  <2>3. CASE Rust!Destroyed
    BY <1>1, <2>3 DEF Rust!Destroyed, Rust!FuturesInv, Rust!EngineSound, Rust!Referenced
  <2> QED BY <2>1, <2>2, <2>3 DEF EngineStep
<1> QED BY <1>2, <1>4, <1>5

-----------------------------------------------------------------------------
(* The invariant *)

LEMMA FuturesInit ==
  ASSUME Rust!FuturesConstants, Rust!Init
  PROVE  Rust!FuturesInv
<1>1. PICK w \in Wakers : current = [o \in Ops |-> w]
  BY DEF Rust!Init
<1>2. Rust!TypeOK
  <2>1. callback \in [Ops -> Callbacks]
    BY IdleType DEF Rust!Init
  <2>2. current \in [Ops -> Wakers]
    BY <1>1
  <2> QED BY <2>1, <2>2 DEF Rust!Init, Rust!TypeOK, Callbacks, Rust!Phases
<1>3. ASSUME NEW o \in Ops
      PROVE  Rust!OperationSound(o)
  BY IdleType DEF Rust!Init, Rust!OperationSound, Rust!Alive
<1>4. Rust!EngineSound
  BY DEF Rust!Init, Rust!EngineSound
<1>5. Rust!NoTaskForgotten
  BY DEF Rust!Init, Rust!NoTaskForgotten
<1> QED BY <1>2, <1>3, <1>4, <1>5 DEF Rust!FuturesInv

LEMMA FuturesStep ==
  ASSUME Rust!FuturesConstants, Rust!FuturesInv, [Rust!Next]_(Rust!vars)
  PROVE  Rust!FuturesInv'
<1>1. CASE UNCHANGED Rust!vars
  BY <1>1 DEF Rust!vars, Rust!FuturesInv, Rust!TypeOK, Rust!OperationSound, Rust!EngineSound, Rust!Referenced,
              Rust!NoTaskForgotten
<1>2. ASSUME NEW o \in Ops, OperationStep(o)
      PROVE  Rust!FuturesInv'
  <2>1. /\ Rust!TypeOK /\ Rust!OperationSound(o) /\ Rust!EngineSound /\ Rust!NoTaskForgotten
        /\ \A p \in Ops : Rust!OperationSound(p)
    BY DEF Rust!FuturesInv
  <2>2. Rust!TypeOK'
    BY <1>2, <2>1, OperationTypes
  <2>3. \A p \in Ops : Rust!OperationSound(p)'
    BY <1>2, <2>1, SelfSound, OthersSound
  <2>4. Rust!EngineSound'
    BY <1>2, <2>1, OperationKeepsEngine
  <2>5. Rust!NoTaskForgotten'
    BY <1>2, <2>1, TaskNext
  <2> QED BY <2>2, <2>3, <2>4, <2>5 DEF Rust!FuturesInv
<1>3. CASE EngineStep
  <2>1. Rust!TypeOK'
    BY <1>3, EngineTypes DEF Rust!FuturesInv
  <2> QED BY <1>3, <2>1, EngineKeepsAll DEF Rust!FuturesInv
<1> QED BY <1>1, <1>2, <1>3 DEF Rust!Next, OperationStep, EngineStep

\* A context that is boxed belongs to a call under way or to a request, and
\* neither is left when the engine is gone.
LEMMA FuturesImplied ==
  ASSUME Rust!FuturesConstants, Rust!FuturesInv
  PROVE  Rust!FuturesSafe
<1>1. Rust!NoTaskForgotten
  BY DEF Rust!FuturesInv
<1>2. Rust!CancelOnLiveEngine
  BY DEF Rust!FuturesInv, Rust!EngineSound, Rust!Referenced, Rust!CancelOnLiveEngine
<1>3. \A o \in Ops : callback[o].at # "bad"
  BY DEF Rust!FuturesInv, Rust!OperationSound
<1>4. ASSUME engine = "gone", NEW o \in Ops
      PROVE  context[o] # "live"
  <2>1. future[o] # "called"
    BY <1>4 DEF Rust!FuturesInv, Rust!OperationSound, Rust!EngineSound, Rust!Referenced
  <2>2. ~pending[o]
    BY <1>4 DEF Rust!FuturesInv, Rust!OperationSound, Rust!EngineSound, Rust!FuturesConstants
  <2> QED BY <2>1, <2>2 DEF Rust!FuturesInv, Rust!OperationSound
<1> QED BY <1>1, <1>2, <1>3, <1>4 DEF Rust!FuturesSafe, Rust!ContextsFreedOnce

\* Rust futures, for every number of operations, slots, pollers and tasks.  A
\* task that sleeps while its result is there is about to be woken, also when
\* the future moved between tasks; callback_trampoline is always given a
\* context that is still boxed, and none is left when the engine is gone; and
\* IoFuture::drop never calls aura_cancel on an engine that has been destroyed.
THEOREM FuturesAreSafe ==
  ASSUME Rust!FuturesConstants
  PROVE  Rust!Spec => []Rust!FuturesSafe
<1>1. Rust!Init => Rust!FuturesInv
  BY FuturesInit
<1>2. Rust!FuturesInv /\ [Rust!Next]_(Rust!vars) => Rust!FuturesInv'
  BY FuturesStep
<1>3. Rust!FuturesInv => Rust!FuturesSafe
  BY FuturesImplied
<1> QED BY <1>1, <1>2, <1>3, PTL DEF Rust!Spec
=============================================================================
