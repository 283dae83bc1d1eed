------------------------------ MODULE RingSelect ------------------------------
(***************************************************************************)
(* select_ring: which ring the next submission of a thread goes to, in the *)
(* four modes, with the thread-local state each of them keeps from one     *)
(* engine to the next.  An engine can be destroyed and another one created *)
(* while threads still hold what they cached for the first.                *)
(***************************************************************************)
EXTENDS Integers, FiniteSets, FiniteSetsExt

CONSTANTS
  Threads,
  RingCounts,    \* ring counts an engine may be created with
  Modes,         \* subset of {"adaptive", "cpu_local", "round_robin", "thread_local"}
  Addresses,     \* where an engine's memory may lie
  Reuse,         \* whether a new engine may lie where a freed one lay
  MaxEngines,    \* bound on engines created
  MaxPending,    \* pending requests of a ring
  Limit,         \* in-flight limit of a ring
  Sticky         \* pthread_self of each thread, as a number

VARIABLES
  engine,        \* the live engine: [addr, rings, mode]
  past,          \* addresses of engines freed before
  engines,       \* engines created so far
  next_ring, owner_count,
  pending_count, \* per ring of the live engine
  avg_ring_pending,
  tls_owned_ring, tls_engine, \* per thread: ring or -1, address or 0
  cached_cpu,    \* per thread
  pick           \* the last selection; other: the ring that lost the comparison

vars == <<engine, past, engines, next_ring, owner_count, pending_count, avg_ring_pending,
          tls_owned_ring, tls_engine, cached_cpu, pick>>

MaxRings == Max(RingCounts)
AllRings == 0 .. MaxRings - 1
Rings == 0 .. engine.rings - 1
Stay(r) == [ring |-> r, local |-> r, other |-> r, spilled |-> FALSE]
Fresh(e) ==
  /\ engine' = e
  /\ next_ring' = 0
  /\ owner_count' = [r \in AllRings |-> 0]
  /\ pending_count' = [r \in AllRings |-> 0]
  /\ avg_ring_pending' = 0
  /\ pick' = Stay(0)
Engines(addrs) == [addr : addrs, rings : RingCounts, mode : Modes]

Init ==
  /\ engine \in Engines({CHOOSE a \in Addresses : TRUE})
  /\ past = {} /\ engines = 1
  /\ next_ring = 0 /\ owner_count = [r \in AllRings |-> 0]
  /\ pending_count = [r \in AllRings |-> 0] /\ avg_ring_pending = 0
  /\ tls_owned_ring = [t \in Threads |-> -1] /\ tls_engine = [t \in Threads |-> 0]
  /\ cached_cpu = [t \in Threads |-> -1]
  /\ pick = Stay(0)

\* aura_destroy by thread t, which clears its own thread-local pointers, and
\* a new engine, perhaps where the old one was.
Recreate(t) ==
  /\ engines < MaxEngines
  /\ engines' = engines + 1
  /\ past' = past \cup {engine.addr}
  /\ tls_owned_ring' = [tls_owned_ring EXCEPT ![t] = -1]
  /\ tls_engine' = [tls_engine EXCEPT ![t] = 0]
  /\ \E e \in Engines(IF Reuse THEN Addresses ELSE Addresses \ past') : Fresh(e)
  /\ UNCHANGED cached_cpu

\* Requests come and go, and the tick thread publishes the average.
Load(r, n) ==
  /\ pending_count' = [pending_count EXCEPT ![r] = n]
  /\ UNCHANGED <<engine, past, engines, next_ring, owner_count, avg_ring_pending,
                 tls_owned_ring, tls_engine, cached_cpu, pick>>
Tick ==
  /\ avg_ring_pending' = SumFunction([r \in Rings |-> pending_count[r]]) \div engine.rings
  /\ UNCHANGED <<engine, past, engines, next_ring, owner_count, pending_count,
                 tls_owned_ring, tls_engine, cached_cpu, pick>>

-----------------------------------------------------------------------------
\* Fault: a ring pointer inside the new engine's array is taken as valid.
OwnsRing_AnyEngine(t) == tls_owned_ring[t] \in Rings

\* select_ring_thread_local's test of the thread's cached ring.
OwnsRing(t) ==
  /\ tls_owned_ring[t] \in Rings
  /\ tls_engine[t] = engine.addr

select_ring_thread_local(t) ==
  IF OwnsRing(t)
  THEN /\ pick' = Stay(tls_owned_ring[t])
       /\ UNCHANGED <<next_ring, owner_count, tls_owned_ring, tls_engine>>
  ELSE LET r == next_ring % engine.rings
       IN  /\ next_ring' = next_ring + 1
           /\ owner_count' = [owner_count EXCEPT ![r] = @ + 1]
           /\ tls_owned_ring' = [tls_owned_ring EXCEPT ![t] = r]
           /\ tls_engine' = [tls_engine EXCEPT ![t] = engine.addr]
           /\ pick' = Stay(r)

RoundRobin(t) ==
  LET r == next_ring % engine.rings
  IN  /\ next_ring' = (next_ring + 1) % engine.rings
      /\ pick' = Stay(r)
      /\ UNCHANGED <<owner_count, tls_owned_ring, tls_engine>>

\* select_ring_cpu_local: the cached CPU, now and then refreshed, if it names
\* a ring; otherwise the thread sticks to a ring of its own.
select_ring_cpu_local(t, cpu) ==
  IF cpu \in Rings THEN cpu ELSE Sticky[t] % engine.rings

\* Fault: the second index is moved past the larger hole first.
TwoChoices_Swapped(local, x, y) ==
  LET a == IF x >= local THEN x + 1 ELSE x
      lo == IF local < a THEN local ELSE a
      hi == IF local < a THEN a ELSE local
      b1 == IF y >= hi THEN y + 1 ELSE y
      b == IF b1 >= lo THEN b1 + 1 ELSE b1
  IN  <<a, IF engine.rings > 2 THEN b % engine.rings ELSE a>>

\* The two rings compared when spilling: x of rc - 1 and y of rc - 2 values,
\* moved past the local ring and past each other.
TwoChoices(local, x, y) ==
  LET a == IF x >= local THEN x + 1 ELSE x
      lo == IF local < a THEN local ELSE a
      hi == IF local < a THEN a ELSE local
      b1 == IF y >= lo THEN y + 1 ELSE y
      b == IF b1 >= hi THEN b1 + 1 ELSE b1
  IN  <<a, IF engine.rings > 2 THEN b ELSE a>>

\* Below three quarters of the limit, or not far above the average, stay.
StaysLocal(local) ==
  \/ pending_count[local] < (Limit * 3) \div 4
  \/ avg_ring_pending > 0 /\ pending_count[local] <= avg_ring_pending * 2

Adaptive(t, local) ==
  /\ IF StaysLocal(local)
     THEN pick' = Stay(local)
     ELSE \E x \in 0 .. engine.rings - 2, y \in 0 .. Max({0, engine.rings - 3}) :
            LET c == TwoChoices(local, x, y)
                w == IF pending_count[c[1]] <= pending_count[c[2]] THEN 1 ELSE 2
            IN  pick' = [ring |-> c[w], local |-> local, other |-> c[3 - w], spilled |-> TRUE]
  /\ UNCHANGED <<next_ring, owner_count, tls_owned_ring, tls_engine>>

\* select_ring.  An engine with one ring that is enabled has no choice.
select_ring(t) ==
  /\ \/ engine.mode = "thread_local" /\ select_ring_thread_local(t) /\ UNCHANGED cached_cpu
     \/ engine.mode = "round_robin" /\ RoundRobin(t) /\ UNCHANGED cached_cpu
     \/ /\ engine.mode \in {"cpu_local", "adaptive"}
        /\ \E cpu \in {cached_cpu[t]} \cup (-1 .. MaxRings) :
             LET local == select_ring_cpu_local(t, cpu)
             IN  /\ cached_cpu' = [cached_cpu EXCEPT ![t] = local]
                 /\ IF engine.mode = "adaptive" /\ engine.rings > 1
                    THEN Adaptive(t, local)
                    ELSE /\ pick' = Stay(local)
                         /\ UNCHANGED <<next_ring, owner_count, tls_owned_ring, tls_engine>>
  /\ UNCHANGED <<engine, past, engines, pending_count, avg_ring_pending>>

Next ==
  \/ \E t \in Threads : select_ring(t) \/ Recreate(t)
  \/ \E r \in Rings, n \in 0..MaxPending : Load(r, n)
  \/ Tick

Spec == Init /\ [][Next]_vars

-----------------------------------------------------------------------------
\* owner_count, which decides whether a ring may run without locks, counts
\* exactly the threads that will use the ring as theirs, whatever those
\* threads still remember of engines that are gone.
OwnersCounted ==
  engine.mode = "thread_local" =>
    \A r \in Rings :
      owner_count[r] = Cardinality({t \in Threads : OwnsRing(t) /\ tls_owned_ring[t] = r})

\* A spilled submission leaves the congested ring for a ring of this engine,
\* and when there are two others it has compared both with each other: the
\* indices skip the local ring and one another for every ring count.
SpillHelps ==
  pick.spilled =>
    /\ pick.ring \in Rings /\ pick.ring # pick.local
    /\ engine.rings > 2 => pick.other \in Rings \ {pick.ring, pick.local}

\* Both.
SelectionSound == OwnersCounted /\ SpillHelps

\* Engines have one ring or more and an address that is not NULL and that no
\* earlier engine had; pthread_self is a number.
SelectConstants ==
  /\ IsFiniteSet(Threads) /\ ~Reuse
  /\ Addresses # {} /\ 0 \notin Addresses
  /\ RingCounts \subseteq Nat \ {0}
  /\ \E n \in RingCounts : \A m \in RingCounts : m <= n
  /\ Sticky \in [Threads -> Nat]

\* The invariant behind SelectionSound: the engine a thread remembers is this
\* one or one that is gone.
Owners(r) == {t \in Threads : OwnsRing(t) /\ tls_owned_ring[t] = r}

OwnersExact == \A r \in Rings : owner_count[r] = Cardinality(Owners(r))

SelectTypes ==
  /\ engine \in Engines(Addresses)
  /\ next_ring \in Nat
  /\ owner_count \in [AllRings -> Nat]
  /\ tls_owned_ring \in [Threads -> Int]
  /\ tls_engine \in [Threads -> past \cup {0, engine.addr}]

SelectInv == SelectTypes /\ OwnersExact /\ SpillHelps
=============================================================================
