---------------------------- MODULE EngineProofs ----------------------------
(***************************************************************************)
(* Six smaller parts of the engine, each for every value of its constants: *)
(* the batch threshold between its writers, the chains of linked requests, *)
(* the selection of a ring, the event loop with the engine's end, what     *)
(* creating an engine acquires, and the ring lock.                         *)
(***************************************************************************)
EXTENDS Integers, Sequences, FiniteSetTheorems, SequenceTheorems, TLAPS

-----------------------------------------------------------------------------
(* The batch threshold *)

CONSTANTS Setters, Values, MinBatch, MaxBatch, IntMax
VARIABLES current_batch_threshold, batch_threshold_fixed, tick,
          batch_threshold, setter, asked, unfixed, overtaken

Batch == INSTANCE BatchThreshold

\* A step of the tick keeps the invariant: what it stores it decided while the
\* flag was clear.
LEMMA TickKeeps ==
  ASSUME Batch!ThresholdInv,
         Batch!TickLoad \/ Batch!TickDecide \/ Batch!TickStore
  PROVE  Batch!ThresholdInv'
<1>1. CASE Batch!TickLoad
  BY <1>1 DEF Batch!ThresholdInv, Batch!TickLoad
<1>2. CASE Batch!TickDecide
  BY <1>2 DEF Batch!ThresholdInv, Batch!TickDecide
<1>3. CASE Batch!TickStore
  BY <1>3 DEF Batch!ThresholdInv, Batch!TickStore
<1> QED BY <1>1, <1>2, <1>3

\* So does a step of a setter, whatever other setters are between their two
\* stores.
LEMMA SetterKeeps ==
  ASSUME Batch!ThresholdInv, NEW s \in Setters,
         Batch!SetAuto(s) \/ Batch!SetThreshold(s) \/ Batch!SetFixed(s)
  PROVE  Batch!ThresholdInv'
<1>1. CASE Batch!SetAuto(s)
  BY <1>1 DEF Batch!ThresholdInv, Batch!SetAuto
<1>2. CASE Batch!SetThreshold(s)
  BY <1>2 DEF Batch!ThresholdInv, Batch!SetThreshold
<1>3. CASE Batch!SetFixed(s)
  BY <1>3 DEF Batch!ThresholdInv, Batch!SetFixed
<1> QED BY <1>1, <1>2, <1>3

\* A fixed batch threshold is the one asked for last, unless a tick that was
\* under way before it was fixed has stored its own since, for every number of
\* threads inside aura_set_batch_threshold and every value they pass.
THEOREM FixedThresholdKept == Batch!Spec => []Batch!ThresholdKept
<1>1. Batch!Init => Batch!ThresholdInv
  BY DEF Batch!Init, Batch!ThresholdInv
<1>2. Batch!ThresholdInv /\ [Batch!Next]_(Batch!vars) => Batch!ThresholdInv'
  <2> SUFFICES ASSUME Batch!ThresholdInv, [Batch!Next]_(Batch!vars)
               PROVE  Batch!ThresholdInv'
    OBVIOUS
  <2>1. CASE UNCHANGED Batch!vars
    BY <2>1 DEF Batch!vars, Batch!ThresholdInv
  <2>2. CASE Batch!Next
    BY <2>2, TickKeeps, SetterKeeps DEF Batch!Next
  <2> QED BY <2>1, <2>2
<1>3. Batch!ThresholdInv => Batch!ThresholdKept
  BY DEF Batch!ThresholdInv, Batch!ThresholdKept
<1> QED BY <1>1, <1>2, <1>3, PTL DEF Batch!Spec

-----------------------------------------------------------------------------
(* Chains of linked requests *)

CONSTANTS MaxRequests, Capacity, Threshold, Cancelling
VARIABLES next, sq, inflight, tls_last_sqe, tls_link_ring, last, marked,
          promised, chained

Chain == INSTANCE LinkedChain

\* What the invariant says of an SQE in the queue.
LEMMA QueuedSqe ==
  ASSUME Chain!ChainInv, NEW k \in 1..Len(sq)
  PROVE  /\ sq[k] \in Chain!Sqe /\ sq[k].req \in Nat \ {0} /\ sq[k].req < next
         /\ sq[k].link => k = Len(sq) /\ tls_link_ring /\ sq[k].req = last
         /\ sq[k].req = tls_last_sqe => k = Len(sq) /\ sq[k].req = last
<1>1. sq \in Seq(Chain!Sqe)
  BY DEF Chain!ChainInv
<1>2. sq[k] \in Chain!Sqe
  BY <1>1
<1>3. sq[k].req \in Nat \ {0}
  BY <1>2 DEF Chain!Sqe
<1> QED BY <1>2, <1>3 DEF Chain!ChainInv, Chain!OnlyLastLinked

\* The queue as it stands holds no link between two of its SQEs.
LEMMA QueueUnchained ==
  ASSUME Chain!ChainInv
  PROVE  Chain!ChainsOf(sq) = {}
<1>1. Len(sq) \in Nat
  BY DEF Chain!ChainInv
<1>2. \A j \in 1..(Len(sq) - 1) : ~sq[j].link
  BY <1>1, QueuedSqe
<1> QED BY <1>2 DEF Chain!ChainsOf

\* A prepared SQE comes last in the queue, without the flag.
LEMMA Prepared ==
  ASSUME NEW q \in Seq(Chain!Sqe), next \in Nat \ {0}, NEW r,
         r = Append(q, [req |-> next, link |-> FALSE])
  PROVE  /\ r \in Seq(Chain!Sqe) /\ Len(r) = Len(q) + 1 /\ Len(q) \in Nat
         /\ \A k \in 1..Len(q) : r[k] = q[k]
         /\ r[Len(r)].req = next /\ ~r[Len(r)].link
<1>1. [req |-> next, link |-> FALSE] \in Chain!Sqe
  BY DEF Chain!Sqe
<1> QED BY <1>1

\* The one link a flushed queue may have is the one asked for.
LEMMA SubmitChains ==
  ASSUME Chain!ChainInv, NEW q \in Seq(Chain!Sqe), q = sq \/ q = <<>>, NEW r,
         r = Append(q, [req |-> next, link |-> FALSE])
  PROVE  Chain!ChainsOf(r) \subseteq
           IF tls_link_ring THEN {<<last, next>>} ELSE {}
<1>1. /\ r \in Seq(Chain!Sqe) /\ Len(r) = Len(q) + 1 /\ Len(q) \in Nat
      /\ \A k \in 1..Len(q) : r[k] = q[k]
      /\ r[Len(r)].req = next /\ ~r[Len(r)].link
  BY Prepared DEF Chain!ChainInv
<1>2. ASSUME NEW j \in 1..(Len(r) - 1), r[j].link
      PROVE  tls_link_ring /\ r[j].req = last /\ r[j + 1].req = next
  <2>1. j \in 1..Len(q) /\ r[j] = q[j]
    BY <1>1
  <2>2. q = sq /\ sq[j].link
    BY <1>2, <2>1
  <2>3. j = Len(q) /\ tls_link_ring /\ sq[j].req = last
    BY <2>1, <2>2, QueuedSqe
  <2> QED BY <1>1, <2>1, <2>2, <2>3
<1> QED BY <1>2 DEF Chain!ChainsOf

\* A submission keeps the invariant, whether the ring was full or not and
\* whether the call succeeds.
LEMMA SubmitKeeps ==
  ASSUME Chain!ChainInv, NEW done, Chain!Submit(done)
  PROVE  Chain!ChainInv'
<1> DEFINE full   == Chain!pending_count >= Capacity
           before == IF full THEN <<>> ELSE sq
           q      == Append(before, [req |-> next, link |-> FALSE])
           flush  == tls_link_ring \/ Len(q) >= Threshold
           sent   == IF full THEN Chain!ChainsOf(sq) ELSE {}
<1>1. \/ /\ sq' = (IF flush THEN <<>> ELSE q)
         /\ chained' = chained \cup sent
                         \cup (IF flush THEN Chain!ChainsOf(q) ELSE {})
         /\ promised' = IF tls_link_ring THEN promised \cup {<<last, next>>}
                                         ELSE promised
         /\ tls_last_sqe' = (IF flush THEN 0 ELSE next)
         /\ tls_link_ring' = FALSE /\ last' = next /\ next' = next + 1
      \/ /\ sq' = before /\ chained' = chained \cup sent
         /\ tls_last_sqe' = 0
         /\ UNCHANGED <<next, tls_link_ring, last, promised>>
  BY DEF Chain!Submit
<1>2. sent = {}
  BY QueueUnchained
<1>3. /\ before \in Seq(Chain!Sqe) /\ (before = sq \/ before = <<>>)
      /\ next \in Nat \ {0}
  BY DEF Chain!ChainInv
<1>4. /\ q \in Seq(Chain!Sqe) /\ Len(q) = Len(before) + 1 /\ Len(before) \in Nat
      /\ \A k \in 1..Len(before) : q[k] = before[k]
      /\ q[Len(q)].req = next /\ ~q[Len(q)].link
  BY <1>3, Prepared
<1>5. Chain!ChainsOf(q) \subseteq IF tls_link_ring THEN {<<last, next>>} ELSE {}
  BY <1>3, SubmitChains
<1>6. \A k \in 1..Len(before) :
        before[k] = sq[k] /\ k \in 1..Len(sq) /\ Len(before) = Len(sq)
  BY <1>3
<1> HIDE DEF full, before, q, flush, sent
<1>7. Chain!NoStrayChain'
  BY <1>1, <1>2, <1>5 DEF Chain!ChainInv, Chain!NoStrayChain
<1>8. next' \in Nat \ {0} /\ tls_link_ring' \in BOOLEAN
  <2>1. next' = next \/ next' = next + 1
    BY <1>1
  <2>2. tls_link_ring' = tls_link_ring \/ tls_link_ring' = FALSE
    BY <1>1
  <2>3. next' \in Nat \ {0}
    BY <1>3, <2>1
  <2>4. tls_link_ring' \in BOOLEAN
    BY <2>2 DEF Chain!ChainInv
  <2> QED BY <2>3, <2>4
<1>9. sq' \in Seq(Chain!Sqe)
  <2>1. sq' = <<>> \/ sq' = q \/ sq' = before
    BY <1>1
  <2>2. <<>> \in Seq(Chain!Sqe)
    OBVIOUS
  <2> QED BY <1>3, <1>4, <2>1, <2>2
<1>10. Chain!OnlyLastLinked'
  <2>1. CASE sq' = <<>>
    BY <2>1 DEF Chain!OnlyLastLinked
  <2>2. CASE sq' = before /\ UNCHANGED <<next, tls_link_ring, last>>
                          /\ tls_last_sqe' = 0
    <3> SUFFICES ASSUME NEW k \in 1..Len(sq')
                 PROVE  /\ sq'[k].req < next /\ sq'[k].req # 0
                        /\ sq'[k].link => k = Len(sq') /\ tls_link_ring
                                                       /\ sq'[k].req = last
      BY <2>2 DEF Chain!OnlyLastLinked
    <3>1. sq'[k] = sq[k] /\ k \in 1..Len(sq) /\ Len(sq') = Len(sq)
      BY <1>6, <2>2
    <3> QED BY <3>1, QueuedSqe
  <2>3. CASE /\ sq' = q /\ ~flush /\ tls_last_sqe' = next
             /\ tls_link_ring' = FALSE /\ last' = next /\ next' = next + 1
    <3>1. ~tls_link_ring
      BY <2>3 DEF flush
    <3>2. ASSUME NEW k \in 1..Len(q)
          PROVE  /\ q[k].req < next + 1 /\ ~q[k].link
                 /\ q[k].req = next => k = Len(q)
      <4>1. CASE k = Len(q)
        BY <1>3, <1>4, <4>1
      <4>2. CASE k # Len(q)
        <5>1. k \in 1..Len(before)
          BY <1>4, <4>2
        <5>2. q[k] = sq[k] /\ k \in 1..Len(sq)
          BY <1>4, <1>6, <5>1
        <5>3. sq[k].req < next /\ ~sq[k].link /\ sq[k].req \in Nat
          BY <3>1, <5>2, QueuedSqe
        <5> QED BY <1>3, <5>2, <5>3
      <4> QED BY <4>1, <4>2
    <3> QED BY <2>3, <3>2 DEF Chain!OnlyLastLinked
  <2> QED BY <1>1, <2>1, <2>2, <2>3
<1> QED BY <1>7, <1>8, <1>9, <1>10 DEF Chain!ChainInv

\* A cancel keeps it: its SQE is linked to nothing, and nothing later can link
\* the request behind which it stands.
LEMMA CancelKeeps ==
  ASSUME Chain!ChainInv, NEW t, Chain!aura_cancel(t)
  PROVE  Chain!ChainInv'
<1>1. /\ sq' = Append(sq, [req |-> next, link |-> FALSE])
      /\ tls_last_sqe' = 0 /\ next' = next + 1 /\ ~tls_link_ring
      /\ UNCHANGED <<tls_link_ring, last, promised, chained>>
  BY DEF Chain!aura_cancel
<1>2. sq \in Seq(Chain!Sqe) /\ next \in Nat \ {0}
  BY DEF Chain!ChainInv
<1>3. /\ sq' \in Seq(Chain!Sqe) /\ Len(sq') = Len(sq) + 1 /\ Len(sq) \in Nat
      /\ \A k \in 1..Len(sq) : sq'[k] = sq[k]
      /\ sq'[Len(sq')].req = next /\ ~sq'[Len(sq')].link
  BY <1>1, <1>2, Prepared
<1>4. ASSUME NEW k \in 1..Len(sq')
      PROVE  sq'[k].req < next + 1 /\ ~sq'[k].link /\ sq'[k].req # 0
  <2>1. CASE k = Len(sq')
    BY <1>2, <1>3, <2>1
  <2>2. CASE k # Len(sq')
    <3>1. k \in 1..Len(sq) /\ sq'[k] = sq[k]
      BY <1>3, <2>2
    <3>2. sq[k].req < next /\ ~sq[k].link /\ sq[k].req \in Nat \ {0}
      BY <1>1, <3>1, QueuedSqe
    <3> QED BY <1>2, <3>1, <3>2
  <2> QED BY <2>1, <2>2
<1>5. Chain!NoStrayChain'
  BY <1>1 DEF Chain!ChainInv, Chain!NoStrayChain
<1>6. Chain!OnlyLastLinked'
  BY <1>1, <1>4 DEF Chain!OnlyLastLinked
<1> QED BY <1>1, <1>2, <1>3, <1>5, <1>6 DEF Chain!ChainInv

\* aura_request_set_linked marks the last SQE or none.
LEMMA LinkKeeps ==
  ASSUME Chain!ChainInv, Chain!aura_request_set_linked
  PROVE  Chain!ChainInv'
<1>1. /\ sq' = [k \in 1..Len(sq) |->
                  IF sq[k].req = tls_last_sqe
                  THEN [sq[k] EXCEPT !.link = TRUE] ELSE sq[k]]
      /\ tls_link_ring' = TRUE
      /\ UNCHANGED <<next, tls_last_sqe, last, promised, chained>>
  BY DEF Chain!aura_request_set_linked
<1>2. sq \in Seq(Chain!Sqe) /\ Len(sq) \in Nat
  BY DEF Chain!ChainInv
<1>3. ASSUME NEW k \in 1..Len(sq)
      PROVE  /\ sq'[k] \in Chain!Sqe /\ sq'[k].req = sq[k].req
             /\ sq'[k].link => sq[k].link \/ sq[k].req = tls_last_sqe
  <2>1. sq[k] \in Chain!Sqe
    BY <1>2
  <2> QED BY <1>1, <2>1 DEF Chain!Sqe
<1>4. sq' \in Seq(Chain!Sqe) /\ Len(sq') = Len(sq)
  BY <1>1, <1>2, <1>3
<1>5. Chain!NoStrayChain'
  BY <1>1 DEF Chain!ChainInv, Chain!NoStrayChain
<1>6. Chain!OnlyLastLinked'
  <2> SUFFICES ASSUME NEW k \in 1..Len(sq)
               PROVE  /\ sq'[k].req < next
                      /\ sq'[k].link => k = Len(sq) /\ sq'[k].req = last
                      /\ sq'[k].req = tls_last_sqe =>
                           k = Len(sq) /\ sq'[k].req = last
    BY <1>1, <1>4 DEF Chain!OnlyLastLinked
  <2> QED BY <1>3, QueuedSqe
<1> QED BY <1>1, <1>4, <1>5, <1>6 DEF Chain!ChainInv

\* aura_poll flushes a queue without a link.
LEMMA PollKeeps ==
  ASSUME Chain!ChainInv, NEW done, Chain!Poll(done)
  PROVE  Chain!ChainInv'
<1>1. Chain!NoStrayChain'
  BY QueueUnchained DEF Chain!Poll, Chain!ChainInv, Chain!NoStrayChain
<1>2. Chain!OnlyLastLinked'
  BY DEF Chain!Poll, Chain!OnlyLastLinked
<1> QED BY <1>1, <1>2 DEF Chain!Poll, Chain!ChainInv

\* The kernel is never given a chain that aura_request_set_linked was not
\* asked for: a request only waits for the one marked just before it, and a
\* cancel for none, for every batch threshold, in-flight limit and number of
\* requests.
THEOREM ChainsAsked == Chain!Spec => []Chain!NoStrayChain
<1>1. Chain!Init => Chain!ChainInv
  <2>1. <<>> \in Seq(Chain!Sqe) /\ 1..Len(<<>>) = {}
    OBVIOUS
  <2>2. Chain!Init => next \in Nat \ {0} /\ sq \in Seq(Chain!Sqe)
    BY <2>1 DEF Chain!Init
  <2>3. Chain!Init => tls_link_ring \in BOOLEAN /\ Chain!NoStrayChain
    BY DEF Chain!Init, Chain!NoStrayChain
  <2>4. Chain!Init => Chain!OnlyLastLinked
    BY <2>1 DEF Chain!Init, Chain!OnlyLastLinked
  <2> QED BY <2>2, <2>3, <2>4 DEF Chain!ChainInv
<1>2. Chain!ChainInv /\ [Chain!Next]_(Chain!vars) => Chain!ChainInv'
  <2> SUFFICES ASSUME Chain!ChainInv, [Chain!Next]_(Chain!vars)
               PROVE  Chain!ChainInv'
    OBVIOUS
  <2>1. CASE UNCHANGED Chain!vars
    BY <2>1 DEF Chain!vars, Chain!ChainInv, Chain!OnlyLastLinked,
                Chain!NoStrayChain
  <2>2. CASE Chain!Next
    BY <2>2, SubmitKeeps, CancelKeeps, LinkKeeps, PollKeeps DEF Chain!Next
  <2> QED BY <2>1, <2>2
<1>3. Chain!ChainInv => Chain!NoStrayChain
  BY DEF Chain!ChainInv
<1> QED BY <1>1, <1>2, <1>3, PTL DEF Chain!Spec

-----------------------------------------------------------------------------
(* The selection of a ring *)

CONSTANTS Threads, RingCounts, Modes, Addresses, Reuse, MaxEngines, MaxPending,
          Limit, Sticky
VARIABLES engine, past, engines, next_ring, owner_count, pending_count,
          avg_ring_pending, tls_owned_ring, tls_engine, cached_cpu, pick

Select == INSTANCE RingSelect

\* The instance counts like FiniteSets.
LEMMA SameCount ==
  ASSUME NEW S
  PROVE  /\ Select!IsFiniteSet(S) <=> IsFiniteSet(S)
         /\ Select!Cardinality(S) = Cardinality(S)
BY DEF Select!IsFiniteSet, IsFiniteSet, Select!Cardinality, Cardinality

\* A number modulo the ring count is a ring.
LEMMA Modulo ==
  ASSUME NEW x \in Nat, NEW n \in Nat \ {0}
  PROVE  x % n \in 0 .. n - 1
OBVIOUS

\* The engine has rings, and they are among those the model has counters for.
LEMMA EngineRings ==
  ASSUME Select!SelectConstants, NEW e \in Select!Engines(Addresses)
  PROVE  /\ e.rings \in Nat \ {0} /\ e.addr \in Addresses
         /\ 0 .. e.rings - 1 \subseteq Select!AllRings
<1>1. e.rings \in RingCounts /\ e.addr \in Addresses
  BY DEF Select!Engines
<1>2. PICK n \in RingCounts : \A m \in RingCounts : m <= n
  BY DEF Select!SelectConstants
<1>3. RingCounts \subseteq Nat \ {0}
  BY DEF Select!SelectConstants
<1>4. Select!MaxRings \in RingCounts /\ \A m \in RingCounts : Select!MaxRings >= m
  BY <1>2, <1>3 DEF Select!MaxRings, Select!Max
<1>5. PICK k : k = Select!MaxRings
  OBVIOUS
<1>6. e.rings \in Nat \ {0} /\ k \in Nat /\ e.rings <= k
  BY <1>1, <1>3, <1>4, <1>5
<1>7. 0 .. e.rings - 1 \subseteq 0 .. k - 1
  BY <1>6
<1> QED BY <1>1, <1>5, <1>6, <1>7 DEF Select!AllRings

\* TwoChoices skips the local ring and, when there are three rings or more,
\* gives two that differ.
LEMMA ChoicesDiffer ==
  ASSUME engine.rings \in Nat, NEW local \in Select!Rings,
         engine.rings > 1,
         NEW x \in 0 .. engine.rings - 2, NEW y \in Nat,
         engine.rings > 2 => y <= engine.rings - 3
  PROVE  LET c == Select!TwoChoices(local, x, y)
         IN  /\ c[1] \in Select!Rings \ {local}
             /\ c[2] \in Select!Rings \ {local}
             /\ engine.rings > 2 => c[1] # c[2]
BY DEF Select!TwoChoices, Select!Rings

\* A selection by a thread that owns no ring of this engine makes it an owner.
LEMMA ClaimKeeps ==
  ASSUME Select!SelectConstants, Select!SelectInv, NEW t \in Threads,
         Select!select_ring_thread_local(t),
         UNCHANGED <<engine, past>>
  PROVE  Select!SelectInv'
<1>1. /\ engine.rings \in Nat \ {0} /\ engine.addr \in Addresses
      /\ Select!Rings \subseteq Select!AllRings /\ next_ring \in Nat
  BY EngineRings DEF Select!SelectInv, Select!SelectTypes, Select!Rings
<1>2. CASE Select!OwnsRing(t)
  <2>1. /\ UNCHANGED <<next_ring, owner_count, tls_owned_ring, tls_engine>>
        /\ ~pick'.spilled
    BY <1>2 DEF Select!select_ring_thread_local, Select!Stay
  <2> QED BY <2>1 DEF Select!SelectInv, Select!SelectTypes, Select!OwnersExact,
                      Select!SpillHelps, Select!Rings, Select!Owners,
                      Select!OwnsRing
<1>3. CASE ~Select!OwnsRing(t)
  <2>1. PICK r : r = next_ring % engine.rings
    OBVIOUS
  <2>2. /\ next_ring' = next_ring + 1
        /\ owner_count' = [owner_count EXCEPT ![r] = @ + 1]
        /\ tls_owned_ring' = [tls_owned_ring EXCEPT ![t] = r]
        /\ tls_engine' = [tls_engine EXCEPT ![t] = engine.addr]
        /\ ~pick'.spilled
    BY <1>3, <2>1 DEF Select!select_ring_thread_local, Select!Stay
  <2>3. r \in Select!Rings /\ r \in Select!AllRings /\ r \in Int
    <3>1. next_ring % engine.rings \in 0 .. engine.rings - 1
      BY <1>1, Modulo
    <3> QED BY <1>1, <2>1, <3>1 DEF Select!Rings
  <2>4. /\ next_ring' \in Nat /\ owner_count' \in [Select!AllRings -> Nat]
        /\ tls_owned_ring' \in [Threads -> Int]
        /\ tls_engine' \in [Threads -> past \cup {0, engine.addr}]
    BY <2>2, <2>3 DEF Select!SelectInv, Select!SelectTypes
  <2>5. /\ \A u \in Threads : Select!OwnsRing(u)' <=>
             (u = t \/ Select!OwnsRing(u))
        /\ tls_owned_ring'[t] = r
        /\ \A u \in Threads \ {t} : tls_owned_ring'[u] = tls_owned_ring[u]
    BY <2>2, <2>3 DEF Select!OwnsRing, Select!SelectInv, Select!SelectTypes,
                      Select!Rings
  <2>6. ASSUME NEW q \in Select!Rings
        PROVE  owner_count'[q] = Cardinality(Select!Owners(q)')
    <3>1. IsFiniteSet(Select!Owners(q))
      <4>1. Select!Owners(q) \subseteq Threads
        BY DEF Select!Owners
      <4> QED BY <4>1, FS_Subset, SameCount DEF Select!SelectConstants
    <3>2. owner_count[q] = Cardinality(Select!Owners(q))
      BY SameCount DEF Select!SelectInv, Select!OwnersExact
    <3>3. CASE q = r
      <4>1. Select!Owners(q)' = Select!Owners(q) \cup {t}
        BY <2>5, <3>3 DEF Select!Owners
      <4>2. t \notin Select!Owners(q)
        BY <1>3 DEF Select!Owners
      <4>3. Cardinality(Select!Owners(q) \cup {t}) =
              Cardinality(Select!Owners(q)) + 1
        BY <3>1, <4>2, FS_AddElement
      <4>4. owner_count'[q] = owner_count[q] + 1
        BY <2>2, <2>3, <3>3 DEF Select!SelectInv, Select!SelectTypes
      <4> QED BY <3>2, <4>1, <4>3, <4>4
    <3>4. CASE q # r
      <4>1. Select!Owners(q)' = Select!Owners(q)
        BY <1>3, <2>5, <3>4 DEF Select!Owners
      <4>2. owner_count'[q] = owner_count[q]
        BY <1>1, <2>2, <3>4 DEF Select!SelectInv, Select!SelectTypes
      <4> QED BY <3>2, <4>1, <4>2
    <3> QED BY <3>3, <3>4
  <2>7. Select!SelectTypes'
    BY <2>4 DEF Select!SelectInv, Select!SelectTypes
  <2>8. Select!OwnersExact'
    BY <2>6, SameCount DEF Select!OwnersExact, Select!Rings
  <2> QED BY <2>2, <2>7, <2>8 DEF Select!SelectInv, Select!SpillHelps
<1> QED BY <1>2, <1>3

\* A step that leaves the engine and its owners keeps all but SpillHelps.
LEMMA OwnersKept ==
  ASSUME Select!SelectInv, next_ring' \in Nat, Select!SpillHelps',
         UNCHANGED <<engine, past, owner_count, tls_owned_ring, tls_engine>>
  PROVE  Select!SelectInv'
BY DEF Select!SelectInv, Select!SelectTypes, Select!OwnersExact, Select!Rings,
       Select!Owners, Select!OwnsRing

\* A spill from a ring of this engine goes to another ring of it.
LEMMA SpillKeeps ==
  ASSUME Select!SelectConstants, Select!SelectInv, NEW t \in Threads,
         NEW local \in Select!Rings, engine.rings > 1,
         Select!Adaptive(t, local), UNCHANGED engine
  PROVE  Select!SpillHelps'
<1>1. engine.rings \in Nat \ {0}
  BY EngineRings DEF Select!SelectInv, Select!SelectTypes
<1>2. CASE Select!StaysLocal(local)
  BY <1>2 DEF Select!Adaptive, Select!Stay, Select!SpillHelps
<1>3. CASE ~Select!StaysLocal(local)
  <2>1. PICK x \in 0 .. engine.rings - 2,
             y \in 0 .. Select!Max({0, engine.rings - 3}) :
          LET c == Select!TwoChoices(local, x, y)
              w == IF pending_count[c[1]] <= pending_count[c[2]] THEN 1 ELSE 2
          IN  pick' = [ring |-> c[w], local |-> local, other |-> c[3 - w],
                       spilled |-> TRUE]
    BY <1>3 DEF Select!Adaptive
  <2>2. y \in Nat /\ (engine.rings > 2 => y <= engine.rings - 3)
    <3>1. Select!Max({0, engine.rings - 3}) \in {0, engine.rings - 3}
      BY <1>1 DEF Select!Max
    <3>2. engine.rings > 2 => Select!Max({0, engine.rings - 3}) = engine.rings - 3
      BY <1>1 DEF Select!Max
    <3> QED BY <1>1, <3>1, <3>2
  <2>3. PICK c : c = Select!TwoChoices(local, x, y)
    OBVIOUS
  <2>4. /\ c[1] \in Select!Rings \ {local} /\ c[2] \in Select!Rings \ {local}
        /\ engine.rings > 2 => c[1] # c[2]
    BY <1>1, <2>2, <2>3, ChoicesDiffer
  <2>5. \E w \in {1, 2} :
          pick' = [ring |-> c[w], local |-> local, other |-> c[3 - w],
                   spilled |-> TRUE]
    BY <2>1, <2>3
  <2>6. \/ /\ pick'.ring = c[1] /\ pick'.other = c[2] /\ pick'.local = local
        \/ /\ pick'.ring = c[2] /\ pick'.other = c[1] /\ pick'.local = local
    BY <2>5
  <2> QED BY <2>4, <2>6 DEF Select!SpillHelps, Select!Rings
<1> QED BY <1>2, <1>3

\* A selection keeps the invariant in every mode.
LEMMA SelectKeeps ==
  ASSUME Select!SelectConstants, Select!SelectInv, NEW t \in Threads,
         Select!select_ring(t)
  PROVE  Select!SelectInv'
<1>1. UNCHANGED <<engine, past>> /\ engine.rings \in Nat \ {0} /\ next_ring \in Nat
  BY EngineRings DEF Select!select_ring, Select!SelectInv, Select!SelectTypes
<1>2. CASE engine.mode = "thread_local" /\ Select!select_ring_thread_local(t)
  BY <1>1, <1>2, ClaimKeeps
<1>3. CASE engine.mode = "round_robin" /\ Select!RoundRobin(t)
  <2>1. next_ring' = (next_ring + 1) % engine.rings
    BY <1>3 DEF Select!RoundRobin
  <2>2. next_ring' \in Nat
    BY <1>1, <2>1, Modulo
  <2>3. Select!SpillHelps'
    BY <1>3 DEF Select!RoundRobin, Select!SpillHelps, Select!Stay
  <2> QED BY <1>1, <1>3, <2>2, <2>3, OwnersKept DEF Select!RoundRobin
<1>4. CASE \E cpu \in {cached_cpu[t]} \cup (-1 .. Select!MaxRings) :
             LET local == Select!select_ring_cpu_local(t, cpu)
             IN  IF engine.mode = "adaptive" /\ engine.rings > 1
                 THEN Select!Adaptive(t, local)
                 ELSE /\ pick' = Select!Stay(local)
                      /\ UNCHANGED <<next_ring, owner_count, tls_owned_ring,
                                     tls_engine>>
  <2>1. PICK cpu, local :
          /\ local = Select!select_ring_cpu_local(t, cpu)
          /\ IF engine.mode = "adaptive" /\ engine.rings > 1
             THEN Select!Adaptive(t, local)
             ELSE /\ pick' = Select!Stay(local)
                  /\ UNCHANGED <<next_ring, owner_count, tls_owned_ring,
                                 tls_engine>>
    BY <1>4
  <2>2. local \in Select!Rings
    <3>1. Sticky[t] \in Nat
      BY DEF Select!SelectConstants
    <3>2. Sticky[t] % engine.rings \in Select!Rings
      BY <1>1, <3>1, Modulo DEF Select!Rings
    <3> QED BY <2>1, <3>2 DEF Select!select_ring_cpu_local
  <2>3. UNCHANGED <<next_ring, owner_count, tls_owned_ring, tls_engine>>
    BY <2>1 DEF Select!Adaptive
  <2>4. Select!SpillHelps'
    <3>1. CASE engine.mode = "adaptive" /\ engine.rings > 1
      BY <1>1, <2>1, <2>2, <3>1, SpillKeeps
    <3>2. CASE ~(engine.mode = "adaptive" /\ engine.rings > 1)
      BY <2>1, <3>2 DEF Select!SpillHelps, Select!Stay
    <3> QED BY <3>1, <3>2
  <2> QED BY <1>1, <2>3, <2>4, OwnersKept
<1> QED BY <1>2, <1>3, <1>4 DEF Select!select_ring

\* A new engine has no owners: what threads remember is NULL or the address of
\* an engine that is gone.
LEMMA RecreateKeeps ==
  ASSUME Select!SelectConstants, Select!SelectInv, NEW t \in Threads,
         Select!Recreate(t)
  PROVE  Select!SelectInv'
<1>1. PICK e \in Select!Engines(Addresses \ past') : Select!Fresh(e)
  BY DEF Select!Recreate, Select!SelectConstants
<1>2. /\ engine' = e /\ next_ring' = 0 /\ ~pick'.spilled
      /\ owner_count' = [r \in Select!AllRings |-> 0]
      /\ past' = past \cup {engine.addr}
      /\ tls_owned_ring' = [tls_owned_ring EXCEPT ![t] = -1]
      /\ tls_engine' = [tls_engine EXCEPT ![t] = 0]
  BY <1>1 DEF Select!Recreate, Select!Fresh, Select!Stay
<1>3. e \in Select!Engines(Addresses) /\ e.addr \notin past' /\ e.addr \in Addresses
  BY <1>1 DEF Select!Engines
<1>4. /\ tls_owned_ring' \in [Threads -> Int]
      /\ tls_engine' \in [Threads -> past' \cup {0}]
  BY <1>2 DEF Select!SelectInv, Select!SelectTypes
<1>5. owner_count' \in [Select!AllRings -> Nat]
  BY <1>2
<1>6. ASSUME NEW r \in 0 .. e.rings - 1
      PROVE  owner_count'[r] = Cardinality(Select!Owners(r)')
  <2>1. Select!Owners(r)' = {}
    BY <1>2, <1>3, <1>4 DEF Select!Owners, Select!OwnsRing, Select!SelectConstants
  <2>2. owner_count'[r] = 0
    BY <1>2, <1>3, EngineRings
  <2> QED BY <2>1, <2>2, FS_EmptySet
<1>7. Select!SelectTypes'
  BY <1>2, <1>3, <1>4, <1>5 DEF Select!SelectTypes
<1>8. Select!OwnersExact'
  BY <1>2, <1>6, SameCount DEF Select!OwnersExact, Select!Rings
<1> QED BY <1>2, <1>7, <1>8 DEF Select!SelectInv, Select!SpillHelps

\* owner_count, which decides whether a ring may run without locks, counts the
\* threads that will use the ring as theirs, whatever they remember of engines
\* that are gone; and a spilled submission goes to another ring of this
\* engine, after comparing two of them where there are two.  For every number
\* of threads, rings and engines and every load.
THEOREM SelectionIsSound ==
  ASSUME Select!SelectConstants
  PROVE  Select!Spec => []Select!SelectionSound
<1>1. Select!Init => Select!SelectInv
  <2> SUFFICES ASSUME Select!Init
               PROVE  Select!SelectInv
    OBVIOUS
  <2>1. engine \in Select!Engines(Addresses)
    BY DEF Select!Init, Select!Engines, Select!SelectConstants
  <2>2. Select!Rings \subseteq Select!AllRings
    BY <2>1, EngineRings DEF Select!Rings
  <2>3. \A r \in Select!Rings : Select!Owners(r) = {} /\ owner_count[r] = 0
    <3>1. engine.addr # 0
      BY <2>1, EngineRings DEF Select!SelectConstants
    <3> QED BY <2>2, <3>1 DEF Select!Init, Select!Owners, Select!OwnsRing
  <2>4. \A r \in Select!Rings : owner_count[r] = Cardinality(Select!Owners(r))
    BY <2>3, FS_EmptySet
  <2>5. ~pick.spilled
    BY DEF Select!Init, Select!Stay
  <2>6. /\ next_ring \in Nat /\ owner_count \in [Select!AllRings -> Nat]
        /\ tls_owned_ring \in [Threads -> Int]
    BY DEF Select!Init
  <2>7. tls_engine \in [Threads -> past \cup {0, engine.addr}]
    BY DEF Select!Init
  <2>8. Select!OwnersExact
    BY <2>4, SameCount DEF Select!OwnersExact
  <2> QED BY <2>1, <2>5, <2>6, <2>7, <2>8
          DEF Select!SelectInv, Select!SelectTypes, Select!SpillHelps
<1>2. Select!SelectInv /\ [Select!Next]_(Select!vars) => Select!SelectInv'
  <2> SUFFICES ASSUME Select!SelectInv, [Select!Next]_(Select!vars)
               PROVE  Select!SelectInv'
    OBVIOUS
  <2>1. CASE UNCHANGED Select!vars
    <3>1. UNCHANGED <<engine, past, next_ring, owner_count, tls_owned_ring,
                      tls_engine, pick>>
      BY <2>1 DEF Select!vars
    <3>2. Select!SpillHelps' /\ next_ring' \in Nat
      BY <3>1 DEF Select!SelectInv, Select!SelectTypes, Select!SpillHelps,
                  Select!Rings
    <3> QED BY <3>1, <3>2, OwnersKept
  <2>2. ASSUME NEW t \in Threads, Select!select_ring(t) \/ Select!Recreate(t)
        PROVE  Select!SelectInv'
    BY <2>2, SelectKeeps, RecreateKeeps
  <2>3. CASE Select!Tick \/ \E r \in Select!Rings, n \in 0..MaxPending :
                              Select!Load(r, n)
    <3>1. UNCHANGED <<engine, past, next_ring, owner_count, tls_owned_ring,
                      tls_engine, pick>>
      BY <2>3 DEF Select!Tick, Select!Load
    <3>2. Select!SpillHelps' /\ next_ring' \in Nat
      BY <3>1 DEF Select!SelectInv, Select!SelectTypes, Select!SpillHelps,
                  Select!Rings
    <3> QED BY <3>1, <3>2, OwnersKept
  <2> QED BY <2>1, <2>2, <2>3 DEF Select!Next
<1>3. Select!SelectInv => Select!SelectionSound
  BY DEF Select!SelectInv, Select!SelectionSound, Select!OwnersCounted,
         Select!OwnersExact, Select!Owners
<1> QED BY <1>1, <1>2, <1>3, PTL DEF Select!Spec

-----------------------------------------------------------------------------
(* The event loop and the engine's end *)

CONSTANTS NRings, MaxDrain, FlushFails
VARIABLES queued, kernel, cq, eventfd, shutting_down, stop_requested, running,
          fatal_submit_errno, tick_running, call, pc, i, total, first_pending,
          drain_iterations, freed

Loop == INSTANCE EventLoop

\* A pass over ring r takes what its CQ holds and counts nothing below zero.
LEMMA FlushPollKeeps ==
  ASSUME Loop!LoopInv, NEW r \in Loop!Rings, NEW flush \in BOOLEAN,
         NEW fails \in BOOLEAN, NEW rs \in SUBSET Loop!Rings,
         Loop!FlushPoll(r, flush, fails, rs)
  PROVE  /\ queued' \in [Loop!Rings -> Nat] /\ kernel' \in [Loop!Rings -> Nat]
         /\ cq' \in [Loop!Rings -> Nat] /\ cq'[r] = 0
         /\ \A s \in Loop!Rings : s # r => cq'[s] = cq[s]
         /\ fatal_submit_errno' \in BOOLEAN
         /\ fatal_submit_errno => fatal_submit_errno'
<1> DEFINE sent == IF flush /\ ~fails THEN queued[r] ELSE 0
<1>1. /\ queued \in [Loop!Rings -> Nat] /\ kernel \in [Loop!Rings -> Nat]
      /\ cq \in [Loop!Rings -> Nat] /\ fatal_submit_errno \in BOOLEAN
  BY DEF Loop!LoopInv
<1>2. sent \in {0, queued[r]}
  OBVIOUS
<1>3. /\ queued' = [s \in Loop!Rings |->
                     (IF s = r THEN queued[s] - sent ELSE queued[s])
                       + (IF s \in rs THEN 1 ELSE 0)]
      /\ kernel' = [kernel EXCEPT ![r] = @ + sent]
      /\ cq' = [cq EXCEPT ![r] = 0]
      /\ fatal_submit_errno' = (fatal_submit_errno \/ fails)
  BY DEF Loop!FlushPoll
<1> HIDE DEF sent
<1>4. \A s \in Loop!Rings : queued'[s] \in Nat
  BY <1>1, <1>2, <1>3
<1> QED BY <1>1, <1>2, <1>3, <1>4

\* The scans and rescans of aura_wait.
LEMMA WaitKeeps ==
  ASSUME NRings \in Nat, Loop!LoopInv, Loop!Wait
  PROVE  Loop!LoopInv'
<1> USE DEF Loop!LoopInv
<1>1. CASE Loop!WaitScan
  <2>1. /\ pc = "scan" /\ i \in Loop!Rings /\ i' = i + 1
        /\ UNCHANGED <<pc, call, eventfd, freed, tick>>
    BY <1>1 DEF Loop!WaitScan, Loop!Rings, Loop!tickVars
  <2>2. PICK fails \in BOOLEAN, rs \in SUBSET Loop!Rings :
          Loop!FlushPoll(i, TRUE, fails, rs)
    BY <1>1 DEF Loop!WaitScan, Loop!Resubmissions
  <2>3. /\ queued' \in [Loop!Rings -> Nat] /\ kernel' \in [Loop!Rings -> Nat]
        /\ cq' \in [Loop!Rings -> Nat] /\ cq'[i] = 0
        /\ \A s \in Loop!Rings : s # i => cq'[s] = cq[s]
        /\ fatal_submit_errno' \in BOOLEAN
    BY <2>1, <2>2, FlushPollKeeps
  <2>4. ~freed
    BY <2>1 DEF Loop!Winding
  <2>5. Loop!Scanned'
    <3>1. ASSUME NEW s \in Loop!Rings, s < i', cq'[s] > 0
          PROVE  s < i /\ cq[s] > 0
      <4>1. s # i
        BY <2>3, <3>1
      <4>2. s \in Int /\ i \in Int /\ s < i + 1
        BY <2>1, <3>1 DEF Loop!Rings
      <4>3. s < i
        BY <4>1, <4>2
      <4> QED BY <2>3, <3>1, <4>1, <4>3
    <3>2. ASSUME NEW s \in Loop!Rings, s < i', cq'[s] > 0
          PROVE  eventfd'
      BY <2>1, <3>1, <3>2, Zenon DEF Loop!Scanned
    <3> QED BY <3>2 DEF Loop!Scanned
  <2> QED BY <2>1, <2>3, <2>4, <2>5 DEF Loop!Winding, Loop!LoopSafe,
             Loop!NoLostWakeup, Loop!FreedQuiet
<1>2. CASE Loop!WaitRescan
  <2>1. /\ pc \in {"rescan", "last"} /\ i \in Loop!Rings /\ i' = i + 1
        /\ UNCHANGED <<pc, call, eventfd, freed, tick>>
    BY <1>2 DEF Loop!WaitRescan, Loop!Rings, Loop!tickVars
  <2>2. PICK fails \in BOOLEAN, rs \in SUBSET Loop!Rings :
          Loop!FlushPoll(i, pc = "rescan", fails, rs)
    BY <1>2 DEF Loop!WaitRescan, Loop!Resubmissions
  <2>3. /\ queued' \in [Loop!Rings -> Nat] /\ kernel' \in [Loop!Rings -> Nat]
        /\ cq' \in [Loop!Rings -> Nat] /\ fatal_submit_errno' \in BOOLEAN
    <3>1. PICK flush \in BOOLEAN : flush = (pc = "rescan")
      OBVIOUS
    <3>2. Loop!FlushPoll(i, flush, fails, rs)
      BY <2>2, <3>1
    <3> QED BY <2>1, <3>2, FlushPollKeeps
  <2> QED BY <2>1, <2>3 DEF Loop!Scanned, Loop!Winding, Loop!LoopSafe,
             Loop!NoLostWakeup, Loop!FreedQuiet
<1>3. CASE Loop!WaitScanned
  <2>1. /\ pc = "scan" /\ i = NRings /\ i' = i
        /\ pc' \in {"some", "error", "none", "block"}
        /\ pc' = "error" => fatal_submit_errno
        /\ UNCHANGED <<queued, kernel, cq, call, eventfd, freed, tick,
                       fatal_submit_errno>>
    BY <1>3 DEF Loop!WaitScanned, Loop!Returns, Loop!ringVars, Loop!tickVars
  <2> QED BY <2>1 DEF Loop!Scanned, Loop!Winding, Loop!LoopSafe, Loop!Rings,
             Loop!NoLostWakeup, Loop!FreedQuiet
<1>4. CASE Loop!WaitWakes
  BY <1>4 DEF Loop!WaitWakes, Loop!ringVars, Loop!tickVars, Loop!Scanned,
     Loop!Winding, Loop!LoopSafe, Loop!NoLostWakeup, Loop!FreedQuiet
<1>5. CASE Loop!WaitRescanned
  <2>1. /\ pc \in {"rescan", "last"} /\ pc' \in {"some", "last", "timeout"}
        /\ i' \in Nat
        /\ UNCHANGED <<queued, kernel, cq, call, eventfd, freed, tick,
                       fatal_submit_errno>>
    BY <1>5 DEF Loop!WaitRescanned, Loop!Returns, Loop!ringVars, Loop!tickVars
  <2> QED BY <2>1 DEF Loop!Scanned, Loop!Winding, Loop!LoopSafe,
             Loop!NoLostWakeup, Loop!FreedQuiet
<1> QED BY <1>1, <1>2, <1>3, <1>4, <1>5 DEF Loop!Wait

\* The threads around the loop: a completion makes the eventfd readable, and
\* nothing comes to a ring once the engine is being freed.
LEMMA OthersKeep ==
  ASSUME Loop!LoopInv,
         \/ \E r \in Loop!Rings : Loop!Submit(r) \/ Loop!Complete(r)
         \/ Loop!aura_stop \/ Loop!Tick
  PROVE  Loop!LoopInv'
<1> USE DEF Loop!LoopInv
<1>1. ASSUME NEW r \in Loop!Rings, Loop!Submit(r)
      PROVE  Loop!LoopInv'
  <2>1. /\ queued' \in [Loop!Rings -> Nat] /\ kernel' \in [Loop!Rings -> Nat]
        /\ call # "destroy" /\ ~freed
        /\ UNCHANGED <<cq, eventfd, fatal_submit_errno, tick, call, pc, i, freed>>
    BY <1>1 DEF Loop!Submit, Loop!tickVars, Loop!waitVars
  <2> QED BY <2>1 DEF Loop!Scanned, Loop!Winding, Loop!LoopSafe,
             Loop!NoLostWakeup, Loop!FreedQuiet
<1>2. ASSUME NEW r \in Loop!Rings, Loop!Complete(r)
      PROVE  Loop!LoopInv'
  <2>1. /\ cq' \in [Loop!Rings -> Nat] /\ kernel' \in [Loop!Rings -> Nat]
        /\ eventfd' = TRUE
        /\ UNCHANGED <<queued, fatal_submit_errno, tick, call, pc, i, freed>>
    BY <1>2 DEF Loop!Complete, Loop!tickVars, Loop!waitVars
  <2>2. Loop!has_pending
    BY <1>2 DEF Loop!Complete, Loop!has_pending, Loop!pending_count
  <2> QED BY <2>1, <2>2 DEF Loop!Scanned, Loop!Winding, Loop!LoopSafe,
             Loop!NoLostWakeup, Loop!FreedQuiet
<1>3. CASE Loop!aura_stop \/ Loop!Tick
  <2>1. /\ tick = "exited" => tick' = "exited"
        /\ UNCHANGED <<queued, kernel, cq, eventfd, fatal_submit_errno, call, pc,
                       i, freed>>
    BY <1>3 DEF Loop!aura_stop, Loop!Tick, Loop!TickWakes, Loop!TickScans,
       Loop!ringVars, Loop!tickVars, Loop!waitVars
  <2> QED BY <2>1 DEF Loop!Scanned, Loop!Winding, Loop!LoopSafe,
             Loop!NoLostWakeup, Loop!FreedQuiet, Loop!has_pending,
             Loop!pending_count
<1> QED BY <1>1, <1>2, <1>3

\* A step that leaves the rings alone and does not block.
LEMMA ControlKeeps ==
  ASSUME Loop!LoopInv,
         UNCHANGED <<queued, kernel, cq, fatal_submit_errno, freed, tick>>,
         eventfd' \in BOOLEAN, i' \in Nat, pc' # "block", pc' = "scan" => i' = 0,
         call' = "none" => pc' = "out",
         call' = "destroy" /\ pc' # "join" => tick = "exited",
         pc' = "free" => /\ call' = "destroy"
                         /\ ~Loop!has_pending \/ fatal_submit_errno,
         pc' # "error", freed => call' = "none"
  PROVE  Loop!LoopInv'
<1>1. Loop!has_pending' <=> Loop!has_pending
  BY DEF Loop!has_pending, Loop!pending_count
<1>2. Loop!Scanned'
  BY DEF Loop!Scanned, Loop!Rings
<1>3. Loop!Winding'
  BY <1>1 DEF Loop!Winding
<1>4. Loop!LoopSafe'
  BY <1>1, Zenon DEF Loop!LoopInv, Loop!LoopSafe, Loop!NoLostWakeup,
     Loop!FreedQuiet
<1>5. freed' \in BOOLEAN /\ fatal_submit_errno' \in BOOLEAN
  BY Zenon DEF Loop!LoopInv
<1> QED BY <1>2, <1>3, <1>4, <1>5 DEF Loop!LoopInv

\* aura_run, aura_drain and aura_destroy, between their calls of aura_wait.
LEMMA CallersKeep ==
  ASSUME Loop!LoopInv,
         \/ Loop!Run \/ Loop!Drain \/ Loop!Destroy
         \/ Loop!aura_run \/ Loop!aura_drain \/ Loop!DestroyBegins
  PROVE  Loop!LoopInv'
<1>0. /\ i \in Nat /\ eventfd \in BOOLEAN /\ freed \in BOOLEAN
      /\ freed => call = "none"
      /\ call = "destroy" /\ pc # "join" => tick = "exited"
      /\ pc = "error" => fatal_submit_errno
  BY Zenon DEF Loop!LoopInv, Loop!Winding
<1>1. Loop!WaitEnter => i' = 0 /\ pc' = "scan" /\ eventfd' \in BOOLEAN
  BY Zenon DEF Loop!WaitEnter
<1> USE DEF Loop!ringVars, Loop!tickVars
<1>2. CASE Loop!Run
  <2>1. CASE Loop!RunClears
    BY <1>0, <2>1, ControlKeeps DEF Loop!RunClears
  <2>2. CASE Loop!RunStarts
    BY <1>0, <1>1, <2>2, ControlKeeps DEF Loop!RunStarts
  <2>3. CASE Loop!RunDecides
    <3>1. \/ Loop!RunReturns
          \/ \E n \in {0, drain_iterations + 1} : Loop!RunGoesOn(n)
      BY <2>3 DEF Loop!RunDecides
    <3>2. CASE Loop!RunReturns
      BY <1>0, <2>3, <3>2, ControlKeeps DEF Loop!RunDecides, Loop!RunReturns
    <3>3. CASE \E n \in {0, drain_iterations + 1} : Loop!RunGoesOn(n)
      BY <1>0, <1>1, <2>3, <3>3, ControlKeeps DEF Loop!RunDecides, Loop!RunGoesOn
    <3> QED BY <3>1, <3>2, <3>3
  <2> QED BY <1>2, <2>1, <2>2, <2>3 DEF Loop!Run
<1>3. CASE Loop!Drain
  <2>1. CASE Loop!DrainChecks
    <3>1. CASE Loop!DrainReturns /\ (Loop!has_pending => call = "drain")
                                 /\ UNCHANGED <<i, eventfd>>
      BY <1>0, <2>1, <3>1, ControlKeeps DEF Loop!DrainChecks, Loop!DrainReturns
    <3>2. CASE Loop!WaitEnter /\ UNCHANGED call
      BY <1>0, <1>1, <2>1, <3>2, ControlKeeps DEF Loop!DrainChecks
    <3> QED BY <2>1, <3>1, <3>2 DEF Loop!DrainChecks
  <2>2. CASE Loop!DrainDecides
    BY <1>0, <2>2, ControlKeeps DEF Loop!DrainDecides, Loop!DrainReturns
  <2> QED BY <1>3, <2>1, <2>2 DEF Loop!Drain
<1>4. CASE Loop!DestroyJoins
  BY <1>0, <1>4, ControlKeeps DEF Loop!DestroyJoins
<1>5. CASE Loop!DestroyFrees
  <2>1. /\ call = "destroy" /\ pc = "free" /\ freed' \in BOOLEAN
        /\ call' = "none" /\ pc' = "out"
        /\ UNCHANGED <<queued, kernel, cq, eventfd, fatal_submit_errno, tick, i>>
    BY <1>5, Zenon DEF Loop!DestroyFrees
  <2>2. ~Loop!has_pending \/ fatal_submit_errno
    BY <2>1 DEF Loop!LoopInv, Loop!Winding
  <2>3. Loop!has_pending' <=> Loop!has_pending
    BY <2>1 DEF Loop!has_pending, Loop!pending_count
  <2>4. Loop!LoopSafe'
    BY <1>0, <2>1, <2>2, <2>3 DEF Loop!LoopSafe, Loop!NoLostWakeup,
       Loop!FreedQuiet
  <2> QED BY <2>1, <2>4 DEF Loop!LoopInv, Loop!Scanned, Loop!Winding
<1>6. CASE Loop!aura_run \/ Loop!aura_drain \/ Loop!DestroyBegins
  BY <1>0, <1>6, ControlKeeps DEF Loop!aura_run, Loop!aura_drain,
     Loop!DestroyBegins
<1> QED BY <1>2, <1>3, <1>4, <1>5, <1>6 DEF Loop!Destroy

\* For every number of rings and requests: aura_wait never blocks with a
\* completion in some ring and the eventfd drained, and aura_destroy frees the
\* engine with nothing in flight, unless a fatal submit error made draining
\* impossible, and after the tick thread is gone.
THEOREM LoopIsSafe ==
  ASSUME NRings \in Nat
  PROVE  Loop!Spec => []Loop!LoopSafe
<1>1. Loop!Init => Loop!LoopInv
  <2> SUFFICES ASSUME Loop!Init PROVE Loop!LoopInv
    OBVIOUS
  <2>1. ~freed /\ freed \in BOOLEAN /\ eventfd \in BOOLEAN
        /\ fatal_submit_errno \in BOOLEAN
    BY Zenon DEF Loop!Init
  <2> QED BY <2>1 DEF Loop!Init, Loop!LoopInv, Loop!Scanned, Loop!Winding,
             Loop!LoopSafe, Loop!NoLostWakeup, Loop!FreedQuiet
<1>2. Loop!LoopInv /\ [Loop!Next]_(Loop!vars) => Loop!LoopInv'
  <2> SUFFICES ASSUME Loop!LoopInv, [Loop!Next]_(Loop!vars)
               PROVE  Loop!LoopInv'
    OBVIOUS
  <2>1. CASE UNCHANGED Loop!vars
    BY <2>1 DEF Loop!vars, Loop!LoopInv, Loop!Scanned, Loop!Winding,
       Loop!LoopSafe, Loop!NoLostWakeup, Loop!FreedQuiet, Loop!has_pending,
       Loop!pending_count
  <2>2. CASE Loop!Next
    BY <2>2, OthersKeep, WaitKeeps, CallersKeep DEF Loop!Next
  <2> QED BY <2>1, <2>2
<1>3. Loop!LoopInv => Loop!LoopSafe
  BY DEF Loop!LoopInv
<1> QED BY <1>1, <1>2, <1>3, PTL DEF Loop!Spec

-----------------------------------------------------------------------------
(* Creation and its cleanup *)

CONSTANTS DefaultDepth, MaxDepth, Depths, Mins, Initials
VARIABLES options, todo, held, setup, config, misuse, result

Create == INSTANCE EngineCreate

Options == [queue_depth : Depths, min_in_flight : Mins, initial_in_flight : Initials,
            thread_local : BOOLEAN, sqpoll : BOOLEAN, disable_adaptive : BOOLEAN]

\* What an engine is made of.
Names == {"engine", "reg_lock", "buffer_pool", "buf_size_map", "rings", "lock", "cq_lock",
          "ring", "requests", "free_request_stack", "event_fd", "eventfd_registered",
          "tick_thread"}

\* The parts of a ring.
LEMMA PartsOf ==
  ASSUME NEW r
  PROVE  /\ Create!Parts(r) = <<<<"lock", r>>, <<"cq_lock", r>>, <<"ring", r>>,
                                <<"requests", r>>, <<"free_request_stack", r>>>>
         /\ Create!OfRing(r) = {Create!Parts(r)[j] : j \in 1 .. 5}
         /\ Create!OfRing(r) = {<<"lock", r>>, <<"cq_lock", r>>, <<"ring", r>>,
                                <<"requests", r>>, <<"free_request_stack", r>>}
<1>1. Len(Create!RingParts) = 5
  BY DEF Create!RingParts
<1>2. Create!Parts(r) = [k \in 1 .. 5 |-> <<Create!RingParts[k], r>>]
  BY <1>1 DEF Create!Parts
<1>3. Create!Parts(r) = <<<<"lock", r>>, <<"cq_lock", r>>, <<"ring", r>>,
                                <<"requests", r>>, <<"free_request_stack", r>>>>
  BY <1>2 DEF Create!RingParts
<1>4. Create!OfRing(r) = {Create!Parts(r)[j] : j \in 1 .. 5}
  BY <1>2 DEF Create!OfRing, Create!ToSet
<1> QED BY <1>3, <1>4

\* A place in the list of all parts: which ring, and which part of it.
LEMMA FifthsOf ==
  ASSUME NEW x \in Nat
  PROVE  x \div 5 \in Nat /\ x % 5 \in 0 .. 4 /\ x = 5 * (x \div 5) + (x % 5)
OBVIOUS

\* Two lists, one after the other.
LEMMA ListsJoined ==
  ASSUME NEW S, NEW q \in Seq(S), NEW u \in Seq(S)
  PROVE  /\ q \o u \in Seq(S) /\ Len(q \o u) = Len(q) + Len(u)
         /\ \A k \in 1 .. Len(q) : (q \o u)[k] = q[k]
         /\ \A k \in 1 .. Len(u) : (q \o u)[Len(q) + k] = u[k]
BY ConcatProperties

\* Where the plan has each acquisition.
LEMMA PlanAt ==
  ASSUME Create!CreateConstants, NEW opts \in Options
  PROVE  LET P == Create!Plan(opts)
             e == IF opts.thread_local THEN 0 ELSE NRings
             t == IF opts.disable_adaptive THEN 0 ELSE 1
         IN  /\ P \in Seq(Names \X Int) /\ Len(P) = 6 + 5 * NRings + e + t
             /\ P[1] = Create!Own("engine") /\ P[2] = Create!Own("reg_lock")
             /\ P[3] = Create!Own("buffer_pool") /\ P[4] = Create!Own("buf_size_map")
             /\ P[5] = Create!Own("rings")
             /\ \A k \in 1 .. 5 * NRings :
                  P[5 + k] = Create!Parts((k - 1) \div 5)[1 + ((k - 1) % 5)]
             /\ P[6 + 5 * NRings] = Create!Own("event_fd")
             /\ \A k \in 1 .. e : P[6 + 5 * NRings + k] = <<"eventfd_registered", k - 1>>
             /\ t = 1 => P[7 + 5 * NRings + e] = Create!Own("tick_thread")
<1> DEFINE S == Names \X Int
           e == IF opts.thread_local THEN 0 ELSE NRings
           t == IF opts.disable_adaptive THEN 0 ELSE 1
           A == <<Create!Own("engine"), Create!Own("reg_lock"), Create!Own("buffer_pool"),
                  Create!Own("buf_size_map"), Create!Own("rings")>>
           B == [k \in 1 .. 5 * NRings |->
                   Create!Parts((k - 1) \div 5)[1 + ((k - 1) % 5)]]
           C == <<Create!Own("event_fd")>>
           D == IF opts.thread_local THEN <<>>
                ELSE [k \in 1 .. NRings |-> <<"eventfd_registered", k - 1>>]
           T == IF opts.disable_adaptive THEN <<>> ELSE <<Create!Own("tick_thread")>>
<1>1. Create!Plan(opts) = (((A \o B) \o C) \o D) \o T
  BY DEF Create!Plan
<1>2. NRings \in Nat /\ 5 * NRings \in Nat
  BY DEF Create!CreateConstants
<1>3. /\ A \in Seq(S) /\ Len(A) = 5
      /\ A[1] = Create!Own("engine") /\ A[2] = Create!Own("reg_lock")
      /\ A[3] = Create!Own("buffer_pool") /\ A[4] = Create!Own("buf_size_map")
      /\ A[5] = Create!Own("rings")
  <2>1. \A x \in Names : Create!Own(x) \in S
    BY DEF Create!Own
  <2>2. /\ Create!Own("engine") \in S /\ Create!Own("reg_lock") \in S
        /\ Create!Own("buffer_pool") \in S /\ Create!Own("buf_size_map") \in S
        /\ Create!Own("rings") \in S
    BY <2>1 DEF Names
  <2> HIDE DEF S
  <2> QED BY <2>2
<1>4. B \in Seq(S) /\ Len(B) = 5 * NRings
  <2>1. ASSUME NEW k \in 1 .. 5 * NRings
        PROVE  Create!Parts((k - 1) \div 5)[1 + ((k - 1) % 5)] \in S
    <3>1. (k - 1) \div 5 \in Int /\ 1 + ((k - 1) % 5) \in 1 .. 5
      BY <1>2
    <3> DEFINE r == (k - 1) \div 5
               j == 1 + ((k - 1) % 5)
    <3> HIDE DEF r, j
    <3>2. r \in Int /\ j \in 1 .. 5
      BY <3>1 DEF r, j
    <3>3. Create!Parts(r)[j] \in S
      <4>1. \A x \in Names : <<x, r>> \in S
        BY <3>2
      <4>2. /\ <<"lock", r>> \in S /\ <<"cq_lock", r>> \in S /\ <<"ring", r>> \in S
            /\ <<"requests", r>> \in S /\ <<"free_request_stack", r>> \in S
        BY <4>1 DEF Names
      <4> HIDE DEF S
      <4> QED BY <3>2, <4>2, PartsOf
    <3> QED BY <3>3 DEF r, j
  <2> QED BY <1>2, <2>1
<1>5. C \in Seq(S) /\ Len(C) = 1 /\ C[1] = Create!Own("event_fd")
  <2>1. Create!Own("event_fd") \in S
    BY DEF Create!Own, Names
  <2> HIDE DEF S
  <2> QED BY <2>1
<1>6. D \in Seq(S) /\ Len(D) = e /\ \A k \in 1 .. e : D[k] = <<"eventfd_registered", k - 1>>
  <2>1. \A k \in 1 .. NRings : <<"eventfd_registered", k - 1>> \in S
    BY <1>2 DEF Names
  <2> HIDE DEF S
  <2> QED BY <1>2, <2>1
<1>7. T \in Seq(S) /\ Len(T) = t /\ (t = 1 => T[1] = Create!Own("tick_thread"))
  <2>1. Create!Own("tick_thread") \in S
    BY DEF Create!Own, Names
  <2> HIDE DEF S
  <2> QED BY <2>1
<1>8. e \in Nat /\ t \in Nat
  BY <1>2
<1>9. \A k \in 1 .. 5 * NRings :
        B[k] = Create!Parts((k - 1) \div 5)[1 + ((k - 1) % 5)]
  OBVIOUS
<1> HIDE DEF S, A, B, C, D, T, e, t
<1> DEFINE AB == A \o B
           ABC == AB \o C
           ABCD == ABC \o D
           P == ABCD \o T
<1>11. /\ AB \in Seq(S) /\ Len(AB) = 5 + 5 * NRings
       /\ \A k \in 1 .. 5 : AB[k] = A[k]
       /\ \A k \in 1 .. 5 * NRings : AB[5 + k] = B[k]
  <2>0. A \in Seq(S) /\ B \in Seq(S)
    BY <1>3, <1>4
  <2>1. /\ A \o B \in Seq(S) /\ Len(A \o B) = Len(A) + Len(B)
        /\ \A k \in 1 .. Len(A) : (A \o B)[k] = A[k]
        /\ \A k \in 1 .. Len(B) : (A \o B)[Len(A) + k] = B[k]
    BY <2>0, ListsJoined
  <2> QED BY <1>2, <1>3, <1>4, <2>1
<1> HIDE DEF AB
<1>12. /\ ABC \in Seq(S) /\ Len(ABC) = 6 + 5 * NRings
       /\ \A k \in 1 .. 5 + 5 * NRings : ABC[k] = AB[k]
       /\ ABC[6 + 5 * NRings] = C[1]
  <2>1. /\ ABC \in Seq(S) /\ Len(ABC) = 5 + 5 * NRings + 1
        /\ \A k \in 1 .. 5 + 5 * NRings : ABC[k] = AB[k]
        /\ \A k \in 1 .. 1 : ABC[5 + 5 * NRings + k] = C[k]
    <3>0. AB \in Seq(S) /\ C \in Seq(S)
      BY <1>5, <1>11
    <3>1. /\ AB \o C \in Seq(S) /\ Len(AB \o C) = Len(AB) + Len(C)
          /\ \A k \in 1 .. Len(AB) : (AB \o C)[k] = AB[k]
          /\ \A k \in 1 .. Len(C) : (AB \o C)[Len(AB) + k] = C[k]
      BY <3>0, ListsJoined
    <3> QED BY <1>5, <1>11, <3>1
  <2>2. ABC[5 + 5 * NRings + 1] = C[1] /\ 5 + 5 * NRings + 1 = 6 + 5 * NRings
    BY <1>2, <2>1
  <2> QED BY <2>1, <2>2
<1> HIDE DEF ABC
<1>13. /\ ABCD \in Seq(S) /\ Len(ABCD) = 6 + 5 * NRings + e
       /\ \A k \in 1 .. 6 + 5 * NRings : ABCD[k] = ABC[k]
       /\ \A k \in 1 .. e : ABCD[6 + 5 * NRings + k] = D[k]
  <2>0. ABC \in Seq(S) /\ D \in Seq(S)
    BY <1>6, <1>12
  <2>1. /\ ABC \o D \in Seq(S) /\ Len(ABC \o D) = Len(ABC) + Len(D)
        /\ \A k \in 1 .. Len(ABC) : (ABC \o D)[k] = ABC[k]
        /\ \A k \in 1 .. Len(D) : (ABC \o D)[Len(ABC) + k] = D[k]
    BY <2>0, ListsJoined
  <2> QED BY <1>6, <1>12, <2>1
<1> HIDE DEF ABCD
<1>14. /\ P \in Seq(S) /\ Len(P) = 6 + 5 * NRings + e + t
       /\ \A k \in 1 .. 6 + 5 * NRings + e : P[k] = ABCD[k]
       /\ t = 1 => P[7 + 5 * NRings + e] = T[1]
  <2>1. /\ P \in Seq(S) /\ Len(P) = 6 + 5 * NRings + e + t
        /\ \A k \in 1 .. 6 + 5 * NRings + e : P[k] = ABCD[k]
        /\ \A k \in 1 .. t : P[6 + 5 * NRings + e + k] = T[k]
    <3>0. ABCD \in Seq(S) /\ T \in Seq(S)
      BY <1>7, <1>13
    <3>1. /\ ABCD \o T \in Seq(S) /\ Len(ABCD \o T) = Len(ABCD) + Len(T)
          /\ \A k \in 1 .. Len(ABCD) : (ABCD \o T)[k] = ABCD[k]
          /\ \A k \in 1 .. Len(T) : (ABCD \o T)[Len(ABCD) + k] = T[k]
      BY <3>0, ListsJoined
    <3> QED BY <1>7, <1>13, <3>1
  <2>2. t = 1 => P[6 + 5 * NRings + e + 1] = T[1]
    <3> HIDE DEF P
    <3> QED BY <1>8, <2>1
  <2>3. 6 + 5 * NRings + e + 1 = 7 + 5 * NRings + e
    BY <1>2, <1>8
  <2> QED BY <2>1, <2>2, <2>3
<1>15. Create!Plan(opts) = P
  BY <1>1 DEF ABCD, ABC, AB
<1> HIDE DEF P
<1>16. /\ \A k \in 1 .. 5 : P[k] = A[k]
       /\ \A k \in 1 .. 5 * NRings : P[5 + k] = B[k]
       /\ P[6 + 5 * NRings] = C[1]
       /\ \A k \in 1 .. e : P[6 + 5 * NRings + k] = D[k]
  <2>1. \A k \in 1 .. 6 + 5 * NRings : P[k] = ABC[k]
    BY <1>2, <1>8, <1>13, <1>14
  <2>2. \A k \in 1 .. 5 + 5 * NRings : P[k] = AB[k]
    BY <1>2, <1>12, <2>1
  <2>3. \A k \in 1 .. e : P[6 + 5 * NRings + k] = D[k]
    BY <1>2, <1>8, <1>13, <1>14
  <2>4. P[6 + 5 * NRings] = C[1]
    BY <1>2, <1>12, <2>1
  <2>5. \A k \in 1 .. 5 : P[k] = A[k]
    BY <1>2, <1>11, <2>2
  <2>6. \A k \in 1 .. 5 * NRings : P[5 + k] = B[k]
    BY <1>2, <1>11, <2>2
  <2> QED BY <2>3, <2>4, <2>5, <2>6
<1>17. /\ P[1] = A[1] /\ P[2] = A[2] /\ P[3] = A[3] /\ P[4] = A[4] /\ P[5] = A[5]
  BY <1>16
<1>18. /\ P[1] = Create!Own("engine") /\ P[2] = Create!Own("reg_lock")
       /\ P[3] = Create!Own("buffer_pool") /\ P[4] = Create!Own("buf_size_map")
       /\ P[5] = Create!Own("rings") /\ P[6 + 5 * NRings] = Create!Own("event_fd")
       /\ t = 1 => P[7 + 5 * NRings + e] = Create!Own("tick_thread")
  BY <1>3, <1>5, <1>7, <1>14, <1>16, <1>17
<1>19. \A k \in 1 .. 5 * NRings :
         P[5 + k] = Create!Parts((k - 1) \div 5)[1 + ((k - 1) % 5)]
  BY <1>9, <1>16
<1>20. \A k \in 1 .. e : P[6 + 5 * NRings + k] = <<"eventfd_registered", k - 1>>
  BY <1>6, <1>16
<1>21. P \in Seq(S) /\ Len(P) = 6 + 5 * NRings + e + t
  BY <1>14
<1> QED BY <1>15, <1>18, <1>19, <1>20, <1>21 DEF e, t, S

\* Ring after ring, part after part.
LEMMA RingsMade ==
  ASSUME Create!CreateConstants, NEW opts \in Options, NEW r \in Nat, NEW j \in 0 .. 4,
         5 * r + j <= 5 * NRings
  PROVE  {Create!Plan(opts)[k] : k \in 1 .. 5 + 5 * r + j} =
           {Create!Own("rings")} \cup Create!LadderPool
             \cup (UNION {Create!OfRing(s) : s \in 0 .. r - 1})
             \cup {Create!Parts(r)[k] : k \in 1 .. j}
<1> DEFINE P == Create!Plan(opts)
           H == {P[k] : k \in 1 .. 5 + 5 * r + j}
           whole == UNION {Create!OfRing(s) : s \in 0 .. r - 1}
           some == {Create!Parts(r)[k] : k \in 1 .. j}
           G == {Create!Own("rings")} \cup Create!LadderPool \cup whole \cup some
<1>1. NRings \in Nat
  BY DEF Create!CreateConstants
<1>2. /\ P[1] = Create!Own("engine") /\ P[2] = Create!Own("reg_lock")
      /\ P[3] = Create!Own("buffer_pool") /\ P[4] = Create!Own("buf_size_map")
      /\ P[5] = Create!Own("rings")
      /\ \A k \in 1 .. 5 * NRings :
           P[5 + k] = Create!Parts((k - 1) \div 5)[1 + ((k - 1) % 5)]
  BY PlanAt
<1>3. {Create!Own("rings")} \cup Create!LadderPool = {P[1], P[2], P[3], P[4], P[5]}
  BY <1>2 DEF Create!LadderPool, Create!LadderEngine, Create!Pool, Create!Core
<1>4. \A s : Create!OfRing(s) = {Create!Parts(s)[k] : k \in 1 .. 5}
  BY PartsOf
<1> HIDE DEF P
<1>5. ASSUME NEW k \in 1 .. 5 + 5 * r + j
      PROVE  P[k] \in G
  <2>1. CASE k <= 5
    <3>1. k = 1 \/ k = 2 \/ k = 3 \/ k = 4 \/ k = 5
      BY <2>1
    <3> QED BY <1>3, <3>1
  <2>2. CASE k > 5
    <3> DEFINE s == (k - 5 - 1) \div 5
               m == 1 + ((k - 5 - 1) % 5)
    <3>1. k - 5 \in 1 .. 5 * NRings /\ 5 + (k - 5) = k
      BY <1>1, <2>2
    <3>2. P[k] = Create!Parts(s)[m]
      <4>1. P[5 + (k - 5)] = Create!Parts(s)[m]
        BY <1>2, <3>1
      <4> QED BY <3>1, <4>1
    <3>3. s \in Nat /\ m \in 1 .. 5 /\ k - 5 = 5 * s + m
      BY <2>2
    <3> HIDE DEF s, m
    <3>4. s < r \/ (s = r /\ m \in 1 .. j)
      BY <2>2, <3>3
    <3>5. CASE s < r
      <4>1. P[k] \in Create!OfRing(s) /\ s \in 0 .. r - 1
        BY <1>4, <3>2, <3>3, <3>5
      <4> QED BY <4>1
    <3>6. CASE s = r /\ m \in 1 .. j
      <4>1. P[k] \in some
        BY <3>2, <3>6
      <4> QED BY <4>1
    <3> QED BY <3>4, <3>5, <3>6
  <2> QED BY <2>1, <2>2
<1>6. ASSUME NEW s \in Nat, NEW m \in 1 .. 5, 5 * s + m <= 5 * r + j
      PROVE  Create!Parts(s)[m] \in H
  <2> DEFINE k == 5 * s + m
  <2>1. k \in 1 .. 5 * NRings /\ 5 + k \in 1 .. 5 + 5 * r + j
    BY <1>1, <1>6
  <2>2. (k - 1) \div 5 = s /\ 1 + ((k - 1) % 5) = m
    OBVIOUS
  <2> HIDE DEF k
  <2>3. P[5 + k] = Create!Parts(s)[m]
    BY <1>2, <2>1, <2>2
  <2> QED BY <2>1, <2>3
<1>7. ASSUME NEW x \in G
      PROVE  x \in H
  <2>1. CASE x \in {P[1], P[2], P[3], P[4], P[5]}
    <3>1. \A k \in 1 .. 5 : k \in 1 .. 5 + 5 * r + j
      OBVIOUS
    <3>2. P[1] \in H /\ P[2] \in H /\ P[3] \in H /\ P[4] \in H /\ P[5] \in H
      BY <3>1
    <3> HIDE DEF H
    <3> QED BY <2>1, <3>2
  <2>2. CASE \E s \in 0 .. r - 1 : x \in Create!OfRing(s)
    <3>1. PICK s \in 0 .. r - 1 : x \in Create!OfRing(s)
      BY <2>2
    <3>2. PICK m \in 1 .. 5 : x = Create!Parts(s)[m]
      BY <1>4, <3>1
    <3>3. s \in Nat /\ 5 * s + m <= 5 * r + j
      OBVIOUS
    <3> HIDE DEF H
    <3> QED BY <1>6, <3>2, <3>3
  <2>3. CASE \E m \in 1 .. j : x = Create!Parts(r)[m]
    <3>1. PICK m \in 1 .. j : x = Create!Parts(r)[m]
      BY <2>3
    <3>2. m \in 1 .. 5 /\ 5 * r + m <= 5 * r + j
      OBVIOUS
    <3> HIDE DEF H
    <3> QED BY <1>6, <3>1, <3>2
  <2>4. \/ x \in {Create!Own("rings")} \cup Create!LadderPool
        \/ \E s \in 0 .. r - 1 : x \in Create!OfRing(s)
        \/ \E m \in 1 .. j : x = Create!Parts(r)[m]
    <3>1. x \in whole => \E s \in 0 .. r - 1 : x \in Create!OfRing(s)
      OBVIOUS
    <3>2. x \in some => \E m \in 1 .. j : x = Create!Parts(r)[m]
      OBVIOUS
    <3> HIDE DEF whole, some
    <3> QED BY <1>7, <3>1, <3>2
  <2> QED BY <1>3, <2>1, <2>2, <2>3, <2>4
<1>8. H = G
  <2>1. H \subseteq G
    <3> HIDE DEF G
    <3> QED BY <1>5
  <2>2. G \subseteq H
    <3> HIDE DEF G, H
    <3> QED BY <1>7
  <2> QED BY <2>1, <2>2
<1> QED BY <1>8 DEF P

\* All the rings are open.
LEMMA AllRingsMade ==
  ASSUME Create!CreateConstants, NEW opts \in Options
  PROVE  {Create!Plan(opts)[k] : k \in 1 .. 5 + 5 * NRings} = Create!LadderRings
<1>1. NRings \in Nat /\ 0 \in 0 .. 4 /\ 5 * NRings + 0 <= 5 * NRings
  BY DEF Create!CreateConstants
<1>2. {Create!Plan(opts)[k] : k \in 1 .. 5 + 5 * NRings + 0} =
        {Create!Own("rings")} \cup Create!LadderPool
          \cup (UNION {Create!OfRing(s) : s \in 0 .. NRings - 1})
          \cup {Create!Parts(NRings)[k] : k \in 1 .. 0}
  BY <1>1, RingsMade
<1>3. {Create!Parts(NRings)[k] : k \in 1 .. 0} = {} /\ 5 + 5 * NRings + 0 = 5 + 5 * NRings
  BY <1>1
<1> QED BY <1>2, <1>3 DEF Create!LadderRings, Create!Rings

\* So is the eventfd, registered with q of them.
LEMMA RegisteredMade ==
  ASSUME Create!CreateConstants, NEW opts \in Options,
         NEW q \in 0 .. (IF opts.thread_local THEN 0 ELSE NRings)
  PROVE  {Create!Plan(opts)[k] : k \in 1 .. 6 + 5 * NRings + q} =
           {<<"eventfd_registered", s>> : s \in 0 .. q - 1}
             \cup {Create!Own("event_fd")} \cup Create!LadderRings
<1> DEFINE P == Create!Plan(opts)
           e == IF opts.thread_local THEN 0 ELSE NRings
           reg == {<<"eventfd_registered", s>> : s \in 0 .. q - 1}
           H == {P[k] : k \in 1 .. 6 + 5 * NRings + q}
           R == {P[k] : k \in 1 .. 5 + 5 * NRings}
<1>1. NRings \in Nat /\ e \in Nat /\ q \in 0 .. e
  BY DEF Create!CreateConstants
<1>2. /\ P[6 + 5 * NRings] = Create!Own("event_fd")
      /\ \A k \in 1 .. e : P[6 + 5 * NRings + k] = <<"eventfd_registered", k - 1>>
  BY PlanAt
<1>3. R = Create!LadderRings
  BY AllRingsMade
<1> HIDE DEF P, e
<1>4. \A k \in 1 .. q : P[6 + 5 * NRings + k] = <<"eventfd_registered", k - 1>>
  BY <1>1, <1>2
<1>5. ASSUME NEW k \in 1 .. 6 + 5 * NRings + q
      PROVE  P[k] \in reg \cup {Create!Own("event_fd")} \cup R
  <2>1. CASE k <= 5 + 5 * NRings
    BY <1>1, <2>1
  <2>2. CASE k = 6 + 5 * NRings
    BY <1>2, <2>2
  <2>3. CASE k > 6 + 5 * NRings
    <3> DEFINE m == k - (6 + 5 * NRings)
    <3>1. m \in 1 .. q /\ 6 + 5 * NRings + m = k /\ m - 1 \in 0 .. q - 1
      BY <1>1, <2>3
    <3> HIDE DEF m
    <3>2. P[k] = <<"eventfd_registered", m - 1>>
      BY <1>4, <3>1
    <3>3. P[k] \in reg
      BY <3>1, <3>2
    <3> QED BY <3>3
  <2> QED BY <1>1, <2>1, <2>2, <2>3
<1>6. ASSUME NEW s \in 0 .. q - 1
      PROVE  <<"eventfd_registered", s>> \in H
  <2>1. s + 1 \in 1 .. q /\ 6 + 5 * NRings + (s + 1) \in 1 .. 6 + 5 * NRings + q
    BY <1>1
  <2>2. P[6 + 5 * NRings + (s + 1)] = <<"eventfd_registered", s + 1 - 1>>
    BY <1>4, <2>1
  <2> QED BY <2>1, <2>2
<1>7. P[6 + 5 * NRings] \in H
  BY <1>1
<1>8. R \subseteq H
  BY <1>1
<1>9. reg \subseteq H
  <2> HIDE DEF H
  <2> QED BY <1>6
<1>10. H \subseteq reg \cup {Create!Own("event_fd")} \cup R
  <2> HIDE DEF reg, R
  <2> QED BY <1>5
<1> HIDE DEF H, reg, R
<1>11. H = reg \cup {Create!Own("event_fd")} \cup R
  BY <1>2, <1>7, <1>8, <1>9, <1>10
<1> QED BY <1>3, <1>11 DEF H, reg, R, P

\* And with every ring that is to have it.
LEMMA EventfdMade ==
  ASSUME Create!CreateConstants, NEW opts \in Options
  PROVE  {Create!Plan(opts)[k] : k \in 1 .. 6 + 5 * NRings
                                          + (IF opts.thread_local THEN 0 ELSE NRings)} =
           Create!LadderEventfd(opts)
<1> DEFINE e == IF opts.thread_local THEN 0 ELSE NRings
<1>1. NRings \in Nat /\ e \in 0 .. e
  BY DEF Create!CreateConstants
<1>2. {Create!Plan(opts)[k] : k \in 1 .. 6 + 5 * NRings + e} =
        {<<"eventfd_registered", s>> : s \in 0 .. e - 1}
          \cup {Create!Own("event_fd")} \cup Create!LadderRings
  BY <1>1, RegisteredMade
<1>3. {<<"eventfd_registered", s>> : s \in 0 .. e - 1} \cup {Create!Own("event_fd")} =
        Create!EventFd(opts)
  <2>1. CASE opts.thread_local
    <3>1. {<<"eventfd_registered", s>> : s \in 0 .. e - 1} = {}
      BY <2>1
    <3> QED BY <2>1, <3>1 DEF Create!EventFd
  <2>2. CASE ~opts.thread_local
    BY <2>2 DEF Create!EventFd, Create!Rings
  <2> QED BY <2>1, <2>2
<1> QED BY <1>2, <1>3 DEF Create!LadderEventfd

\* However far the plan was followed, the ladder releases what is held.
LEMMA LaddersExact ==
  ASSUME Create!CreateConstants, options \in Options,
         NEW n \in 0 .. Len(Create!Plan(options)) - 1,
         held = {Create!Plan(options)[k] : k \in 1 .. n}
  PROVE  Create!Cleanup(Create!Plan(options)[n + 1]) = held
<1> DEFINE P == Create!Plan(options)
           e == IF options.thread_local THEN 0 ELSE NRings
           t == IF options.disable_adaptive THEN 0 ELSE 1
           p == P[n + 1]
<1>1. NRings \in Nat /\ e \in Nat /\ t \in Nat
  BY DEF Create!CreateConstants
<1>2. /\ Len(P) = 6 + 5 * NRings + e + t
      /\ P[1] = Create!Own("engine") /\ P[2] = Create!Own("reg_lock")
      /\ P[3] = Create!Own("buffer_pool") /\ P[4] = Create!Own("buf_size_map")
      /\ P[5] = Create!Own("rings")
      /\ \A k \in 1 .. 5 * NRings :
           P[5 + k] = Create!Parts((k - 1) \div 5)[1 + ((k - 1) % 5)]
      /\ P[6 + 5 * NRings] = Create!Own("event_fd")
      /\ \A k \in 1 .. e : P[6 + 5 * NRings + k] = <<"eventfd_registered", k - 1>>
      /\ t = 1 => P[7 + 5 * NRings + e] = Create!Own("tick_thread")
  BY PlanAt
<1>3. n \in Nat /\ n < 6 + 5 * NRings + e + t /\ held = {P[k] : k \in 1 .. n}
  BY <1>1, <1>2
<1> HIDE DEF P, e, t
<1>4. CASE n < 5
  <2>1. n = 0 \/ n = 1 \/ n = 2 \/ n = 3 \/ n = 4
    BY <1>3, <1>4
  <2>2. /\ n = 0 => held = {} /\ p = P[1]
        /\ n = 1 => held = {P[1]} /\ p = P[2]
        /\ n = 2 => held = {P[1], P[2]} /\ p = P[3]
        /\ n = 3 => held = {P[1], P[2], P[3]} /\ p = P[4]
        /\ n = 4 => held = {P[1], P[2], P[3], P[4]} /\ p = P[5]
    <3>1. /\ {P[k] : k \in 1 .. 0} = {}
          /\ {P[k] : k \in 1 .. 1} = {P[1]}
      OBVIOUS
    <3>2. 1 .. 2 = {1, 2} /\ 1 .. 3 = {1, 2, 3} /\ 1 .. 4 = {1, 2, 3, 4}
      OBVIOUS
    <3>3. {P[k] : k \in 1 .. 2} = {P[1], P[2]}
      BY <3>2
    <3>4. {P[k] : k \in 1 .. 3} = {P[1], P[2], P[3]}
      BY <3>2
    <3>5. {P[k] : k \in 1 .. 4} = {P[1], P[2], P[3], P[4]}
      BY <3>2
    <3>6. n = 0 => held = {} /\ p = P[1]
      BY <1>3, <3>1
    <3>7. n = 1 => held = {P[1]} /\ p = P[2]
      BY <1>3, <3>1
    <3>8. ASSUME n = 2 PROVE held = {P[1], P[2]} /\ p = P[3]
      <4>1. held = {P[k] : k \in 1 .. 2}
        BY <1>3, <3>8
      <4>2. n + 1 = 3
        BY <3>8
      <4>3. held = {P[1], P[2]}
        BY <3>3, <4>1
      <4>4. p = P[3]
        BY <4>2
      <4> QED BY <4>3, <4>4
    <3>9. ASSUME n = 3 PROVE held = {P[1], P[2], P[3]} /\ p = P[4]
      <4>1. held = {P[k] : k \in 1 .. 3}
        BY <1>3, <3>9
      <4>2. n + 1 = 4
        BY <3>9
      <4>3. held = {P[1], P[2], P[3]}
        BY <3>4, <4>1
      <4>4. p = P[4]
        BY <4>2
      <4> QED BY <4>3, <4>4
    <3>10. ASSUME n = 4 PROVE held = {P[1], P[2], P[3], P[4]} /\ p = P[5]
      <4>1. held = {P[k] : k \in 1 .. 4}
        BY <1>3, <3>10
      <4>2. n + 1 = 5
        BY <3>10
      <4>3. held = {P[1], P[2], P[3], P[4]}
        BY <3>5, <4>1
      <4>4. p = P[5]
        BY <4>2
      <4> QED BY <4>3, <4>4
    <3> QED BY <3>6, <3>7, <3>8, <3>9, <3>10
  <2> HIDE DEF p
  <2>3. Create!Cleanup(p) = held
    BY <1>2, <2>1, <2>2 DEF Create!Cleanup, Create!Own, Create!LadderEngine,
       Create!LadderPool, Create!Core, Create!Pool
  <2> QED BY <2>3 DEF p, P
<1>5. CASE n >= 5 /\ n < 5 + 5 * NRings
  <2> DEFINE r == (n - 5) \div 5
             j == (n - 5) % 5
  <2>1. /\ r \in Nat /\ j \in 0 .. 4 /\ n = 5 + 5 * r + j /\ 5 * r + j <= 5 * NRings
        /\ n - 4 \in 1 .. 5 * NRings /\ n - 4 - 1 = n - 5 /\ 5 + (n - 4) = n + 1
    <3>1. n - 5 \in Nat /\ n = 5 + (n - 5) /\ n - 5 <= 5 * NRings
      BY <1>1, <1>3, <1>5
    <3>3. r \in Nat /\ j \in 0 .. 4 /\ n - 5 = 5 * r + j
      BY <3>1, FifthsOf
    <3>4. n - 4 \in 1 .. 5 * NRings /\ n - 4 - 1 = n - 5 /\ 5 + (n - 4) = n + 1
      BY <1>1, <1>3, <1>5
    <3> HIDE DEF r, j
    <3> QED BY <1>3, <3>1, <3>3, <3>4
  <2>2. p = Create!Parts(r)[1 + j]
    <3>1. P[5 + (n - 4)] = Create!Parts((n - 4 - 1) \div 5)[1 + ((n - 4 - 1) % 5)]
      BY <1>2, <2>1
    <3> QED BY <2>1, <3>1
  <2> HIDE DEF r, j
  <2>3. held = {Create!Own("rings")} \cup Create!LadderPool
                 \cup (UNION {Create!OfRing(s) : s \in 0 .. r - 1})
                 \cup {Create!Parts(r)[k] : k \in 1 .. j}
    <3>1. held = {P[k] : k \in 1 .. 5 + 5 * r + j}
      BY <1>3, <2>1
    <3> QED BY <2>1, <3>1, RingsMade DEF P
  <2>4. /\ p[2] = r
        /\ p[1] \in {"lock", "cq_lock", "ring", "requests", "free_request_stack"}
    <3>1. 1 + j \in 1 .. 5
      BY <2>1
    <3> HIDE DEF p
    <3> QED BY <2>2, <3>1, PartsOf
  <2> HIDE DEF p
  <2>5. Create!Cleanup(p) = Create!RingsFail(p)
    BY <2>4 DEF Create!Cleanup
  <2>6. {Create!Parts(r)[k] : k \in 1 .. j} \subseteq Create!OfRing(r)
    <3>1. Create!OfRing(r) = {Create!Parts(r)[k] : k \in 1 .. 5}
      BY PartsOf
    <3>2. 1 .. j \subseteq 1 .. 5
      BY <2>1
    <3> QED BY <3>1, <3>2
  <2>7. Create!RingsFail(p) =
          (held \cap Create!OfRing(r))
            \cup (UNION {Create!OfRing(s) : s \in 0 .. r - 1})
            \cup {Create!Own("rings")} \cup Create!LadderPool
    BY <2>4 DEF Create!RingsFail
  <2> DEFINE whole == UNION {Create!OfRing(s) : s \in 0 .. r - 1}
             some == {Create!Parts(r)[k] : k \in 1 .. j}
  <2>8. /\ held = {Create!Own("rings")} \cup Create!LadderPool \cup whole \cup some
        /\ some \subseteq Create!OfRing(r)
        /\ Create!RingsFail(p) =
             (held \cap Create!OfRing(r)) \cup whole \cup {Create!Own("rings")}
               \cup Create!LadderPool
    BY <2>3, <2>6, <2>7
  <2> HIDE DEF whole, some
  <2>9. Create!RingsFail(p) = held
    BY <2>8
  <2> QED BY <2>5, <2>9 DEF p, P
<1>6. {P[k] : k \in 1 .. 5 + 5 * NRings} = Create!LadderRings
  BY AllRingsMade DEF P
<1>7. CASE n = 5 + 5 * NRings
  <2>1. p = Create!Own("event_fd") /\ held = Create!LadderRings
    <3>1. n + 1 = 6 + 5 * NRings
      BY <1>1, <1>7
    <3> QED BY <1>2, <1>3, <1>6, <1>7, <3>1
  <2> HIDE DEF p
  <2>2. Create!Cleanup(p) = held
    BY <2>1 DEF Create!Cleanup, Create!Own
  <2> QED BY <2>2 DEF p, P
<1>8. \A q \in 0 .. e : {P[k] : k \in 1 .. 6 + 5 * NRings + q} =
                          {<<"eventfd_registered", s>> : s \in 0 .. q - 1}
                            \cup {Create!Own("event_fd")} \cup Create!LadderRings
  BY RegisteredMade DEF P, e
<1>9. CASE n >= 6 + 5 * NRings /\ n < 6 + 5 * NRings + e
  <2> DEFINE q == n - (6 + 5 * NRings)
  <2>1. /\ q \in 0 .. e /\ n = 6 + 5 * NRings + q /\ q + 1 \in 1 .. e
        /\ n + 1 = 6 + 5 * NRings + (q + 1) /\ q + 1 - 1 = q
    <3> DEFINE m == 6 + 5 * NRings
    <3>1. m \in Nat /\ n \in Nat /\ e \in Nat /\ n >= m /\ n < m + e
      BY <1>1, <1>3, <1>9
    <3> HIDE DEF m
    <3>2. /\ n - m \in 0 .. e /\ n = m + (n - m) /\ n - m + 1 \in 1 .. e
          /\ n + 1 = m + (n - m + 1) /\ n - m + 1 - 1 = n - m
      BY <3>1
    <3> QED BY <3>2 DEF m
  <2> HIDE DEF q
  <2>2. p = <<"eventfd_registered", q>>
    <3>1. P[6 + 5 * NRings + (q + 1)] = <<"eventfd_registered", q + 1 - 1>>
      BY <1>2, <2>1
    <3> QED BY <2>1, <3>1
  <2>3. held = {<<"eventfd_registered", s>> : s \in 0 .. q - 1}
                 \cup {Create!Own("event_fd")} \cup Create!LadderRings
    BY <1>3, <1>8, <2>1
  <2> HIDE DEF p
  <2>4. Create!Cleanup(p) = {<<"eventfd_registered", s>> : s \in 0 .. q - 1}
                 \cup {Create!Own("event_fd")} \cup Create!LadderRings
    BY <2>2 DEF Create!Cleanup
  <2> QED BY <2>3, <2>4 DEF p, P
<1>10. CASE n >= 6 + 5 * NRings + e
  <2>1. t = 1 /\ n = 6 + 5 * NRings + e /\ n + 1 = 7 + 5 * NRings + e
    BY <1>1, <1>3, <1>10 DEF t
  <2>2. p = Create!Own("tick_thread")
    BY <1>2, <2>1
  <2>5. held = Create!LadderEventfd(options)
    BY <1>3, <2>1, EventfdMade DEF P, e
  <2> HIDE DEF p
  <2>6. Create!Cleanup(p) = Create!LadderEventfd(options)
    BY <2>2 DEF Create!Cleanup, Create!Own
  <2> QED BY <2>5, <2>6 DEF p, P
<1> QED BY <1>1, <1>3, <1>4, <1>5, <1>7, <1>9, <1>10

\* Creation begins with nothing.
LEMMA CreateStarts ==
  ASSUME Create!CreateConstants, Create!Init
  PROVE  Create!CreateInv
<1> USE DEF Create!Init
<1>1. options \in Options
  BY DEF Options
<1>2. /\ Create!Plan(options) \in Seq(Names \X Int) /\ Len(Create!Plan(options)) \in Nat
  BY <1>1, PlanAt
<1>3. Create!Made(0)
  <2>1. SubSeq(Create!Plan(options), 1, Len(Create!Plan(options))) = Create!Plan(options)
    BY <1>2
  <2> QED BY <2>1 DEF Create!Made
<1>4. 0 \in 0 .. Len(Create!Plan(options))
  BY <1>2
<1> QED BY <1>1, <1>3, <1>4 DEF Create!CreateInv, Create!NothingLeaks, Options

\* A step of creation.
LEMMA AcquireKeeps ==
  ASSUME Create!CreateConstants, Create!CreateInv, Create!Acquire
  PROVE  Create!CreateInv'
<1> DEFINE P == Create!Plan(options)
<1>1. /\ options \in Options /\ options' = options /\ misuse' = misuse
      /\ result = "creating" /\ result' \in {"creating", "engine"}
      /\ Create!Accepted(options)
  BY DEF Create!Acquire, Create!CreateInv, Options
<1>2. P \in Seq(Names \X Int) /\ Len(P) \in Nat
  BY <1>1, PlanAt
<1>3. PICK n \in 0 .. Len(P) : Create!Made(n)
  BY <1>1 DEF Create!CreateInv
<1> HIDE DEF P
<1>4. todo = SubSeq(P, n + 1, Len(P)) /\ held = {P[k] : k \in 1 .. n}
  BY <1>3 DEF Create!Made, P
<1>5. n < Len(P) /\ Head(todo) = P[n + 1] /\ Tail(todo) = SubSeq(P, n + 2, Len(P))
      /\ Len(todo) = Len(P) - n
  <2>1. todo # <<>>
    BY DEF Create!Acquire
  <2>2. n < Len(P)
    BY <1>2, <1>4, <2>1
  <2> QED BY <1>2, <1>4, <2>2
<1>6. Create!Made(n + 1)'
  <2>1. todo' = SubSeq(P, n + 1 + 1, Len(P))
    <3>1. n + 1 + 1 = n + 2
      OBVIOUS
    <3> QED BY <1>5, <3>1 DEF Create!Acquire
  <2>2. held' = {P[k] : k \in 1 .. n + 1}
    <3>1. held' = {P[k] : k \in 1 .. n} \cup {P[n + 1]}
      BY <1>4, <1>5 DEF Create!Acquire
    <3>2. 1 .. n + 1 = (1 .. n) \cup {n + 1}
      OBVIOUS
    <3> QED BY <3>1, <3>2
  <2> QED BY <1>1, <2>1, <2>2 DEF Create!Made, P
<1>7. result' = "engine" => n + 1 = Len(P)
  BY <1>2, <1>5 DEF Create!Acquire
<1>8. /\ DOMAIN config' = Create!Rings
      /\ \A r \in Create!Rings : <<"ring", r>> \in held' => Create!Configured(r)'
  <2>1. /\ DOMAIN config = Create!Rings /\ held' = held \cup {Head(todo)}
        /\ \A r \in Create!Rings : <<"ring", r>> \in held => Create!Configured(r)
    BY <1>1 DEF Create!CreateInv, Create!Acquire
  <2>2. CASE Head(todo)[1] = "ring"
    <3>1. PICK a : config' = [config EXCEPT ![Head(todo)[2]] =
                      [Create!RingConfig(options) EXCEPT
                         !.sqpoll = Create!RingConfig(options).sqpoll /\ a # "bare"]]
      BY <2>2 DEF Create!Acquire
    <3> DEFINE new == [Create!RingConfig(options) EXCEPT
                         !.sqpoll = Create!RingConfig(options).sqpoll /\ a # "bare"]
    <3>2. /\ new.max = Create!RingConfig(options).max
          /\ new.min = Create!RingConfig(options).min
          /\ new.initial = Create!RingConfig(options).initial
      BY DEF Create!RingConfig
    <3> HIDE DEF new
    <3>3. config' = [config EXCEPT ![Head(todo)[2]] = new]
      BY <3>1 DEF new
    <3>4. ASSUME NEW r \in Create!Rings, <<"ring", r>> \in held'
          PROVE  Create!Configured(r)'
      <4>1. CASE r = Head(todo)[2]
        BY <1>1, <2>1, <3>2, <3>3, <4>1 DEF Create!Configured
      <4>2. CASE r # Head(todo)[2]
        <5>1. <<"ring", r>> \in held
          BY <2>1, <3>4, <4>2
        <5>2. config'[r] = config[r]
          BY <2>1, <3>3, <4>2
        <5> QED BY <1>1, <2>1, <5>1, <5>2 DEF Create!Configured
      <4> QED BY <4>1, <4>2
    <3> QED BY <2>1, <3>3, <3>4
  <2>3. CASE Head(todo)[1] # "ring"
    <3>1. config' = config
      BY <2>3 DEF Create!Acquire
    <3>2. \A r \in Create!Rings : <<"ring", r>> \in held' => <<"ring", r>> \in held
      BY <2>1, <2>3
    <3> QED BY <1>1, <2>1, <3>1, <3>2 DEF Create!Configured
  <2> QED BY <2>2, <2>3
<1>9. Create!NothingLeaks'
  BY <1>1 DEF Create!CreateInv, Create!NothingLeaks
<1>10. n + 1 \in 0 .. Len(P)
  BY <1>2, <1>5
<1>11. Create!Accepted(options)'
  BY <1>1 DEF Create!Accepted, Create!qdepth, Create!effective_min
<1> QED BY <1>1, <1>6, <1>7, <1>8, <1>9, <1>10, <1>11 DEF Create!CreateInv, Options, P

\* What a whole engine holds.
LEMMA AllMade ==
  ASSUME Create!CreateConstants, options \in Options,
         Create!Made(Len(Create!Plan(options)))
  PROVE  /\ held = (IF options.disable_adaptive THEN {} ELSE {Create!Own("tick_thread")})
                     \cup Create!LadderEventfd(options)
         /\ \A r \in Create!Rings : <<"ring", r>> \in held
<1> DEFINE P == Create!Plan(options)
           e == IF options.thread_local THEN 0 ELSE NRings
           t == IF options.disable_adaptive THEN 0 ELSE 1
<1>1. NRings \in Nat /\ e \in Nat /\ t \in {0, 1}
  BY DEF Create!CreateConstants
<1>2. held = {P[k] : k \in 1 .. Len(P)}
  BY DEF Create!Made
<1>3. \A r \in Create!Rings : <<"ring", r>> \in held
  <2> SUFFICES ASSUME NEW r \in Create!Rings
               PROVE  <<"ring", r>> \in held
    OBVIOUS
  <2> DEFINE k == 5 * r + 3
  <2>1. r \in 0 .. NRings - 1
    BY DEF Create!Rings
  <2>2. k \in 1 .. 5 * NRings /\ (k - 1) \div 5 = r /\ 1 + ((k - 1) % 5) = 3
    BY <1>1, <2>1
  <2>3. /\ P[5 + k] = Create!Parts((k - 1) \div 5)[1 + ((k - 1) % 5)]
        /\ Len(P) = 6 + 5 * NRings + e + t
    BY <2>2, PlanAt
  <2> HIDE DEF k, e, t, P
  <2>4. P[5 + k] = <<"ring", r>>
    <3>1. P[5 + k] = Create!Parts(r)[3]
      BY <2>2, <2>3
    <3> QED BY <3>1, PartsOf
  <2>5. 5 + k \in 1 .. Len(P)
    BY <1>1, <2>2, <2>3
  <2> QED BY <1>2, <2>4, <2>5
<1>4. /\ Len(P) = 6 + 5 * NRings + e + t
      /\ t = 1 => P[7 + 5 * NRings + e] = Create!Own("tick_thread")
  BY PlanAt
<1>5. {P[k] : k \in 1 .. 6 + 5 * NRings + e} = Create!LadderEventfd(options)
  BY EventfdMade
<1> HIDE DEF P, e
<1>6. CASE options.disable_adaptive
  <2>1. Len(P) = 6 + 5 * NRings + e
    BY <1>1, <1>4, <1>6
  <2> QED BY <1>2, <1>3, <1>5, <1>6, <2>1
<1>7. CASE ~options.disable_adaptive
  <2> DEFINE m == 6 + 5 * NRings + e
  <2>1. m \in Nat /\ Len(P) = m + 1 /\ P[m + 1] = Create!Own("tick_thread")
    <3>1. 6 + 5 * NRings + e + 1 = 7 + 5 * NRings + e
      BY <1>1
    <3> QED BY <1>1, <1>4, <1>7, <3>1
  <2>2. {P[k] : k \in 1 .. m} = Create!LadderEventfd(options)
    BY <1>5
  <2> HIDE DEF m
  <2>3. 1 .. m + 1 = (1 .. m) \cup {m + 1}
    BY <2>1
  <2>4. held = {P[k] : k \in 1 .. m} \cup {P[m + 1]}
    BY <1>2, <2>1, <2>3
  <2>5. held = {Create!Own("tick_thread")} \cup Create!LadderEventfd(options)
    BY <2>1, <2>2, <2>4
  <2> QED BY <1>3, <1>7, <2>5
<1> QED BY <1>6, <1>7

\* Releasing what is held leaves nothing and releases nothing else.
LEMMA ReleaseKeeps ==
  ASSUME Create!CreateInv, Create!Release(held), result' \in {"failed", "destroyed"},
         UNCHANGED <<options, setup, config>>
  PROVE  Create!CreateInv'
<1>1. held' = {}
  BY DEF Create!Release
<1>2. ~misuse'
  <2>1. misuse' = (misuse \/ ~(held \subseteq held))
    BY DEF Create!Release
  <2>2. ~misuse
    BY DEF Create!CreateInv, Create!NothingLeaks
  <2> QED BY <2>1, <2>2
<1>3. Create!NothingLeaks'
  BY <1>1, <1>2 DEF Create!NothingLeaks
<1> QED BY <1>3 DEF Create!CreateInv

\* A creation that fails, wherever it has got to.
LEMMA FailKeeps ==
  ASSUME Create!CreateConstants, Create!CreateInv, Create!Fail
  PROVE  Create!CreateInv'
<1> DEFINE P == Create!Plan(options)
<1>1. options \in Options /\ result = "creating" /\ todo # <<>>
  BY DEF Create!Fail, Create!CreateInv, Options
<1>2. P \in Seq(Names \X Int) /\ Len(P) \in Nat
  BY <1>1, PlanAt
<1>3. PICK n \in 0 .. Len(P) : Create!Made(n)
  BY <1>1 DEF Create!CreateInv
<1> HIDE DEF P
<1>4. todo = SubSeq(P, n + 1, Len(P)) /\ held = {P[k] : k \in 1 .. n}
  BY <1>3 DEF Create!Made, P
<1>5. n \in 0 .. Len(P) - 1 /\ Head(todo) = P[n + 1]
  <2>1. n < Len(P)
    BY <1>1, <1>2, <1>4
  <2> QED BY <1>2, <1>4, <2>1
<1>6. Create!Cleanup(Head(todo)) = held
  BY <1>1, <1>4, <1>5, LaddersExact DEF P
<1>7. Create!Release(held)
  BY <1>6 DEF Create!Fail
<1> QED BY <1>7, ReleaseKeeps DEF Create!Fail

\* An engine that is destroyed.
LEMMA DestroyKeeps ==
  ASSUME Create!CreateConstants, Create!CreateInv, Create!aura_destroy
  PROVE  Create!CreateInv'
<1>1. options \in Options /\ result = "engine"
  BY DEF Create!aura_destroy, Create!CreateInv, Options
<1>2. Create!Made(Len(Create!Plan(options)))
  BY <1>1 DEF Create!CreateInv
<1>3. held = (IF options.disable_adaptive THEN {} ELSE {Create!Own("tick_thread")})
               \cup Create!LadderEventfd(options)
  BY <1>1, <1>2, AllMade
<1>4. Create!Release(held)
  BY <1>3 DEF Create!aura_destroy
<1> QED BY <1>4, ReleaseKeeps DEF Create!aura_destroy

\* The limits that validated options give a ring.
LEMMA LimitsSound ==
  ASSUME Create!CreateConstants, options \in Options, Create!Accepted(options)
  PROVE  LET c == Create!RingConfig(options)
             start == IF c.initial < c.min THEN c.min ELSE c.initial
         IN  1 <= c.min /\ c.min <= start /\ start <= c.max
<1>1. /\ options.queue_depth \in Int /\ options.min_in_flight \in Int
      /\ options.initial_in_flight \in Int
  BY DEF Create!CreateConstants, Options
<1>2. Create!qdepth(options) \in Nat /\ Create!qdepth(options) >= 4
  BY <1>1 DEF Create!CreateConstants, Create!qdepth, Create!Accepted
<1> QED BY <1>1, <1>2 DEF Create!RingConfig, Create!Accepted, Create!effective_min

\* The invariant says what creation promises.
LEMMA CreateInvSafe ==
  ASSUME Create!CreateConstants, Create!CreateInv
  PROVE  Create!CreateSafe
<1>1. Create!NothingLeaks
  BY DEF Create!CreateInv
<1>2. Create!ConfigSound
  <2> SUFFICES ASSUME result = "engine", NEW r \in Create!Rings
               PROVE  LET c == config[r]
                          start == IF c.initial < c.min THEN c.min ELSE c.initial
                      IN  1 <= c.min /\ c.min <= start /\ start <= c.max
    BY DEF Create!ConfigSound
  <2>1. options \in Options /\ Create!Accepted(options)
    BY DEF Create!CreateInv, Options
  <2>2. Create!Made(Len(Create!Plan(options)))
    BY DEF Create!CreateInv
  <2>3. <<"ring", r>> \in held
    BY <2>1, <2>2, AllMade
  <2>4. Create!Configured(r)
    BY <2>3 DEF Create!CreateInv
  <2> QED BY <2>1, <2>4, LimitsSound DEF Create!Configured
<1> QED BY <1>1, <1>2 DEF Create!CreateSafe

\* Whatever the options and however far creation gets, a failed creation and a
\* destroyed engine leave nothing behind, nothing is released that is not held
\* (the cleanup ladders of aura_create_with_options and ring_init, and
\* aura_destroy), and the rings of a finished engine have limits within their
\* queues.
THEOREM CreateIsSafe ==
  ASSUME Create!CreateConstants
  PROVE  Create!Spec => []Create!CreateSafe
<1>1. Create!Init => Create!CreateInv
  BY CreateStarts
<1>2. Create!CreateInv /\ [Create!Next]_Create!vars => Create!CreateInv'
  <2>1. CASE UNCHANGED Create!vars
    <3> SUFFICES ASSUME Create!CreateInv
                 PROVE  Create!CreateInv'
      BY <2>1
    <3> QED BY <2>1 DEF Create!CreateInv, Create!vars, Create!NothingLeaks, Create!Accepted,
       Create!Made, Create!Configured
  <2> QED BY <2>1, AcquireKeeps, FailKeeps, DestroyKeeps DEF Create!Next
<1>3. Create!CreateInv => Create!CreateSafe
  BY CreateInvSafe
<1> QED BY <1>1, <1>2, <1>3, PTL DEF Create!Spec
-----------------------------------------------------------------------------
(* The ring lock: the two sides of a ring are exclusive through the change *)
(* from lockless to shared use, for every number of threads that come to   *)
(* the ring, every drift of its user counters and with or without linked   *)
(* chains.                                                                 *)

CONSTANTS Callers, Chains, MaxDrift, NoThread
VARIABLES submitters, single_thread, st_users, lock, op, lock_st, owned, linked

Lock == INSTANCE RingLock

\* The types in the invariant.
LockTypes ==
  /\ owner_count \in Nat
  /\ single_thread \in BOOLEAN
  /\ st_users \in [Lock!Locks -> Int]
  /\ lock \in [Lock!Locks -> Threads \cup {NoThread}]
  /\ pc \in [Threads -> Lock!Pcs] /\ op \in [Threads -> Lock!Ops]
  /\ lock_st \in [Threads -> BOOLEAN]
  /\ owned \in [Threads -> BOOLEAN] /\ linked \in [Threads -> BOOLEAN]

\* What holds of a ring whose first owner only cancels.
Shared(o) ==
  Lock!OwnerCounted(o) /\ Lock!MutexHeld /\ \A t \in Threads \ {o} : Lock!Joined(o, t)

-----------------------------------------------------------------------------
(* Types *)

\* Taking or giving back a lock changes one counter or one holder.
LEMMA UnlockTypes ==
  ASSUME LockTypes, NEW k \in Lock!Locks, NEW st \in BOOLEAN, Lock!ring_unlock(k, st)
  PROVE  /\ st_users' \in [Lock!Locks -> Int]
         /\ lock' \in [Lock!Locks -> Threads \cup {NoThread}]
<1>1. CASE st
  BY <1>1 DEF LockTypes, Lock!ring_unlock
<1>2. CASE ~st
  BY <1>2 DEF LockTypes, Lock!ring_unlock
<1> QED BY <1>1, <1>2

\* A section is guarded by one of the ring's two locks.
LEMMA LockOfType ==
  ASSUME NEW o
  PROVE  Lock!LockOf(o) \in Lock!Locks
BY DEF Lock!LockOf, Lock!Locks

\* Every step of a begun call keeps the types.
LEMMA StepTypes ==
  ASSUME LockTypes, NEW t \in Threads, Lock!Step(t)
  PROVE  LockTypes'
<1> USE DEF Lock!flags, Lock!tls, Lock!Goto, Lock!RingLockFor
<1>1. Lock!LockOf(op[t]) \in Lock!Locks
  BY LockOfType
<1>2. CASE Lock!LockLoad(t)
  BY <1>2 DEF Lock!LockLoad, LockTypes, Lock!Pcs
<1>3. CASE Lock!LockBump(t)
  BY <1>1, <1>3 DEF Lock!LockBump, LockTypes, Lock!Pcs
<1>4. CASE Lock!LockRecheck(t)
  <2>1. CASE single_thread
    BY <1>4, <2>1 DEF Lock!LockRecheck, LockTypes, Lock!Pcs
  <2>2. CASE ~single_thread
    BY <1>1, <1>4, <2>2 DEF Lock!LockRecheck, LockTypes, Lock!Pcs
  <2> QED BY <2>1, <2>2
<1>5. CASE Lock!LockMutex(t)
  BY <1>1, <1>5 DEF Lock!LockMutex, LockTypes, Lock!Pcs
<1>6. CASE Lock!ClaimFirst(t) \/ Lock!ClaimShared(t) \/ Lock!SpinEnds(t)
  BY <1>6 DEF Lock!ClaimFirst, Lock!ClaimShared, Lock!SpinEnds, LockTypes, Lock!Pcs
<1>7. CASE Lock!submit_begin(t)
  BY <1>7 DEF Lock!submit_begin, LockTypes, Lock!Pcs, Lock!Ops
<1>8. CASE Lock!submit_end(t)
  <2>1. \/ UNCHANGED <<st_users, lock>>
        \/ Lock!ring_unlock("lock", lock_st[t])
    BY <1>8 DEF Lock!submit_end
  <2>2. /\ st_users' \in [Lock!Locks -> Int]
        /\ lock' \in [Lock!Locks -> Threads \cup {NoThread}]
    <3>1. "lock" \in Lock!Locks /\ lock_st[t] \in BOOLEAN
      BY DEF Lock!Locks, LockTypes
    <3> QED BY <2>1, <3>1, UnlockTypes DEF LockTypes
  <2>3. pc' \in [Threads -> Lock!Pcs] /\ op' \in [Threads -> Lock!Ops]
    BY <1>8 DEF Lock!submit_end, LockTypes, Lock!Pcs, Lock!Ops
  <2> QED BY <1>8, <2>2, <2>3 DEF Lock!submit_end, LockTypes
<1>9. CASE Lock!submit_abort(t)
  <2>1. "lock" \in Lock!Locks /\ lock_st[t] \in BOOLEAN
    BY DEF Lock!Locks, LockTypes
  <2>2. /\ st_users' \in [Lock!Locks -> Int]
        /\ lock' \in [Lock!Locks -> Threads \cup {NoThread}]
    BY <1>9, <2>1, UnlockTypes DEF Lock!submit_abort
  <2> QED BY <1>9, <2>2 DEF Lock!submit_abort, LockTypes, Lock!Pcs
<1>10. CASE Lock!FlushFastEnds(t) \/ Lock!ring_poll(t) \/ Lock!DrainFastEnds(t)
  BY <1>10 DEF Lock!FlushFastEnds, Lock!ring_poll, Lock!DrainFastEnds, LockTypes, Lock!Pcs, Lock!Ops
<1>11. CASE Lock!SectionEnds(t)
  <2>1. lock_st[t] \in BOOLEAN
    BY DEF LockTypes
  <2>2. /\ st_users' \in [Lock!Locks -> Int]
        /\ lock' \in [Lock!Locks -> Threads \cup {NoThread}]
    BY <1>1, <1>11, <2>1, UnlockTypes DEF Lock!SectionEnds
  <2>3. pc' \in [Threads -> Lock!Pcs] /\ op' \in [Threads -> Lock!Ops]
    BY <1>11 DEF Lock!SectionEnds, LockTypes, Lock!Pcs, Lock!Ops
  <2>4. linked' \in [Threads -> BOOLEAN]
    BY <1>11 DEF Lock!SectionEnds, LockTypes
  <2> QED BY <1>11, <2>2, <2>3, <2>4 DEF Lock!SectionEnds, LockTypes
<1> QED BY <1>2, <1>3, <1>4, <1>5, <1>6, <1>7, <1>8, <1>9, <1>10, <1>11 DEF Lock!Step

\* So does the start of a call.
LEMMA CallTypes ==
  ASSUME LockTypes, NEW t \in Threads, Lock!Call(t)
  PROVE  LockTypes'
<1> USE DEF Lock!flags, Lock!tls, Lock!Goto, Lock!RingLockFor, LockTypes, Lock!Pcs, Lock!Ops
<1>1. CASE Lock!Claim(t)
  BY <1>1 DEF Lock!Claim
<1>2. CASE Lock!Submit(t) \/ Lock!aura_request_set_linked(t)
  BY <1>2 DEF Lock!Submit, Lock!aura_request_set_linked
<1>3. CASE Lock!aura_poll(t) \/ Lock!aura_cancel(t)
  BY <1>3 DEF Lock!aura_poll, Lock!aura_cancel
<1> QED BY <1>1, <1>2, <1>3 DEF Lock!Call

-----------------------------------------------------------------------------
(* One thread alone *)

\* A step moves its own thread only, and is one of a thread that has begun a
\* call, submits or owns the ring.
LEMMA StepMoves ==
  ASSUME LockTypes, NEW t \in Threads, Lock!Step(t) \/ Lock!Call(t)
  PROVE  /\ submitters' = submitters
         /\ \A u \in Threads \ {t} : pc'[u] = pc[u] /\ owned'[u] = owned[u]
         /\ pc[t] # "idle" \/ t \in submitters \/ owned[t]
<1> USE DEF Lock!flags, Lock!tls, Lock!Goto, Lock!RingLockFor, LockTypes
<1>1. CASE Lock!Step(t)
  <2>1. CASE Lock!LockLoad(t) \/ Lock!LockBump(t) \/ Lock!LockRecheck(t) \/ Lock!LockMutex(t)
    BY <2>1 DEF Lock!LockLoad, Lock!LockBump, Lock!LockRecheck, Lock!LockMutex
  <2>2. CASE Lock!ClaimFirst(t) \/ Lock!ClaimShared(t) \/ Lock!SpinEnds(t)
    BY <2>2 DEF Lock!ClaimFirst, Lock!ClaimShared, Lock!SpinEnds
  <2>3. CASE Lock!submit_begin(t) \/ Lock!submit_end(t) \/ Lock!submit_abort(t)
    BY <2>3 DEF Lock!submit_begin, Lock!submit_end, Lock!submit_abort, Lock!InSubmission
  <2>4. CASE Lock!FlushFastEnds(t) \/ Lock!ring_poll(t) \/ Lock!DrainFastEnds(t)
    BY <2>4 DEF Lock!FlushFastEnds, Lock!ring_poll, Lock!DrainFastEnds
  <2>5. CASE Lock!SectionEnds(t)
    BY <2>5 DEF Lock!SectionEnds
  <2> QED BY <1>1, <2>1, <2>2, <2>3, <2>4, <2>5 DEF Lock!Step
<1>2. CASE Lock!Call(t)
  BY <1>2 DEF Lock!Call, Lock!Claim, Lock!Submit, Lock!aura_request_set_linked, Lock!aura_poll,
              Lock!aura_cancel
<1> QED BY <1>1, <1>2

\* A thread that has the ring to itself keeps it to itself.
LEMMA AloneNext ==
  ASSUME LockTypes, NEW o \in Threads, Lock!Alone(o),
         NEW t \in Threads, Lock!Step(t) \/ Lock!Call(t)
  PROVE  Lock!Alone(o)'
<1>1. t = o
  BY StepMoves DEF Lock!Alone, LockTypes
<1> QED BY <1>1, StepMoves DEF Lock!Alone

-----------------------------------------------------------------------------
(* The first owner of a shared ring *)

\* What the first owner can do: take a lock, leave its section, cancel again.
LEMMA OwnerMoves ==
  ASSUME LockTypes, NEW o \in Threads, Lock!OwnerCounted(o), Lock!Step(o) \/ Lock!Call(o)
  PROVE  \/ Lock!LockLoad(o) \/ Lock!LockBump(o) \/ Lock!LockRecheck(o) \/ Lock!LockMutex(o)
         \/ Lock!SectionEnds(o) \/ Lock!aura_request_set_linked(o) \/ Lock!aura_cancel(o)
BY DEF Lock!OwnerCounted, Lock!Step, Lock!Call, Lock!ClaimFirst, Lock!ClaimShared, Lock!SpinEnds,
       Lock!submit_begin, Lock!submit_end, Lock!submit_abort, Lock!InSubmission, Lock!FlushFastEnds,
       Lock!ring_poll, Lock!DrainFastEnds, Lock!Claim, Lock!Submit, Lock!aura_poll

\* None of it touches the threads that share the ring, the flag or the
\* owners' count.
LEMMA OwnerQuiet ==
  ASSUME LockTypes, NEW o \in Threads, Lock!OwnerCounted(o), Lock!Step(o) \/ Lock!Call(o)
  PROVE  /\ Lock!flags' = Lock!flags /\ owned' = owned
         /\ \A t \in Threads \ {o} :
              pc'[t] = pc[t] /\ op'[t] = op[t] /\ lock_st'[t] = lock_st[t]
<1> USE DEF Lock!flags, Lock!tls, Lock!Goto, Lock!RingLockFor, LockTypes
<1>1. CASE Lock!LockLoad(o) \/ Lock!LockBump(o)
  BY <1>1 DEF Lock!LockLoad, Lock!LockBump
<1>2. CASE Lock!LockRecheck(o) \/ Lock!LockMutex(o)
  BY <1>2 DEF Lock!LockRecheck, Lock!LockMutex
<1>3. CASE Lock!SectionEnds(o)
  <2>1. op[o] = "cancel"
    BY DEF Lock!OwnerCounted
  <2> QED BY <1>3, <2>1 DEF Lock!SectionEnds
<1>4. CASE Lock!aura_request_set_linked(o) \/ Lock!aura_cancel(o)
  BY <1>4 DEF Lock!aura_request_set_linked, Lock!aura_cancel
<1> QED BY <1>1, <1>2, <1>3, <1>4, OwnerMoves

\* Its counter stays exact.
LEMMA OwnerCount ==
  ASSUME LockTypes, NEW o \in Threads, Lock!OwnerCounted(o), Lock!Step(o) \/ Lock!Call(o)
  PROVE  Lock!OwnerCounted(o)'
<1> USE DEF Lock!tls, Lock!Goto, Lock!RingLockFor, LockTypes
<1>0. /\ Lock!LockOf(op[o]) = "lock" /\ "lock" \in Lock!Locks /\ "cq_lock" \in Lock!Locks
      /\ lock_st[o] \in BOOLEAN /\ op[o] = "cancel"
  BY DEF Lock!OwnerCounted, Lock!LockOf, Lock!Locks
<1>1. /\ o \notin submitters' /\ owned'[o] /\ owner_count' > 0
  BY OwnerQuiet DEF Lock!OwnerCounted, Lock!flags
<1> SUFFICES
      /\ op'[o] = "cancel"
      /\ pc'[o] \in {"idle", "load", "bump", "recheck", "mutex", "inside"}
      /\ st_users'["cq_lock"] = 0
      /\ st_users'["lock"] =
           IF pc'[o] = "recheck" \/ (pc'[o] = "inside" /\ lock_st'[o])
           THEN 1 ELSE 0
  BY <1>1 DEF Lock!OwnerCounted
<1>2. CASE Lock!LockLoad(o)
  BY <1>0, <1>2 DEF Lock!LockLoad, Lock!OwnerCounted
<1>3. CASE Lock!LockBump(o)
  BY <1>0, <1>3 DEF Lock!LockBump, Lock!OwnerCounted
<1>4. CASE Lock!LockRecheck(o)
  <2>1. CASE single_thread
    BY <1>0, <1>4, <2>1 DEF Lock!LockRecheck, Lock!OwnerCounted
  <2>2. CASE ~single_thread
    BY <1>0, <1>4, <2>2 DEF Lock!LockRecheck, Lock!OwnerCounted
  <2> QED BY <2>1, <2>2
<1>5. CASE Lock!LockMutex(o)
  BY <1>0, <1>5 DEF Lock!LockMutex, Lock!OwnerCounted
<1>6. CASE Lock!SectionEnds(o)
  <2>1. Lock!ring_unlock("lock", lock_st[o]) /\ pc'[o] = "idle" /\ op' = op
    BY <1>0, <1>6 DEF Lock!SectionEnds
  <2>2. CASE lock_st[o]
    BY <1>0, <1>6, <2>1, <2>2 DEF Lock!SectionEnds, Lock!OwnerCounted, Lock!ring_unlock
  <2>3. CASE ~lock_st[o]
    BY <1>0, <1>6, <2>1, <2>3 DEF Lock!SectionEnds, Lock!OwnerCounted, Lock!ring_unlock
  <2> QED BY <1>0, <2>2, <2>3
<1>7. CASE Lock!aura_request_set_linked(o) \/ Lock!aura_cancel(o)
  BY <1>0, <1>7 DEF Lock!aura_request_set_linked, Lock!aura_cancel, Lock!OwnerCounted
<1> QED BY <1>2, <1>3, <1>4, <1>5, <1>6, <1>7, OwnerMoves

\* It enters without the mutex only while the flag is up, so when nobody else
\* has joined the ring.
LEMMA OwnerLeavesJoined ==
  ASSUME LockTypes, NEW o \in Threads, Lock!OwnerCounted(o), Lock!Step(o) \/ Lock!Call(o),
         NEW t \in Threads \ {o}, Lock!Joined(o, t)
  PROVE  Lock!Joined(o, t)'
<1>1. /\ pc'[t] = pc[t] /\ lock_st'[t] = lock_st[t] /\ owned' = owned
      /\ single_thread' = single_thread
  BY OwnerQuiet DEF Lock!flags
<1>2. (pc'[o] = "inside" /\ lock_st'[o]) =>
        (pc[o] = "inside" /\ lock_st[o]) \/ single_thread
  <2> USE DEF Lock!tls, Lock!Goto, Lock!RingLockFor, LockTypes
  <2>1. CASE Lock!LockLoad(o) \/ Lock!LockBump(o)
    BY <2>1 DEF Lock!LockLoad, Lock!LockBump
  <2>2. CASE Lock!LockRecheck(o) \/ Lock!LockMutex(o)
    BY <2>2 DEF Lock!LockRecheck, Lock!LockMutex
  <2>3. CASE Lock!SectionEnds(o)
    BY <2>3 DEF Lock!SectionEnds, Lock!OwnerCounted
  <2>4. CASE Lock!aura_request_set_linked(o) \/ Lock!aura_cancel(o)
    BY <2>4 DEF Lock!aura_request_set_linked, Lock!aura_cancel
  <2> QED BY <2>1, <2>2, <2>3, <2>4, OwnerMoves
<1> QED BY <1>1, <1>2 DEF Lock!Joined

-----------------------------------------------------------------------------
(* The threads that share the ring with it *)

\* What a thread that joined can do: everything but enter lockless.
LEMMA JoinedMoves ==
  ASSUME LockTypes, NEW o \in Threads, Lock!OwnerCounted(o),
         NEW t \in Threads \ {o}, Lock!Joined(o, t), Lock!Step(t) \/ Lock!Call(t)
  PROVE  \/ Lock!LockLoad(t) \/ Lock!LockMutex(t)
         \/ Lock!ClaimShared(t) \/ Lock!SpinEnds(t)
         \/ Lock!submit_begin(t) \/ Lock!submit_end(t) \/ Lock!submit_abort(t)
         \/ Lock!ring_poll(t) \/ Lock!SectionEnds(t) \/ Lock!Call(t)
BY DEF Lock!Joined, Lock!Step, Lock!LockBump, Lock!LockRecheck, Lock!ClaimFirst, Lock!FlushFastEnds,
       Lock!DrainFastEnds

\* It leaves the owner and the others where they are, and never counts
\* itself.
LEMMA JoinedQuiet ==
  ASSUME LockTypes, NEW o \in Threads, Lock!OwnerCounted(o),
         NEW t \in Threads \ {o}, Lock!Joined(o, t), Lock!Step(t) \/ Lock!Call(t)
  PROVE  /\ submitters' = submitters /\ owner_count' > 0
         /\ st_users' = st_users
         /\ single_thread' => single_thread
         /\ \A u \in Threads \ {t} :
              /\ pc'[u] = pc[u] /\ op'[u] = op[u]
              /\ lock_st'[u] = lock_st[u] /\ owned'[u] = owned[u]
<1> USE DEF Lock!flags, Lock!tls, Lock!Goto, Lock!RingLockFor, LockTypes
<1>0. owner_count > 0 /\ owner_count \in Nat /\ ~lock_st[t]
  BY DEF Lock!OwnerCounted, Lock!Joined
<1>1. CASE Lock!LockLoad(t) \/ Lock!LockMutex(t) \/ Lock!ClaimShared(t) \/ Lock!SpinEnds(t)
  BY <1>0, <1>1 DEF Lock!LockLoad, Lock!LockMutex, Lock!ClaimShared, Lock!SpinEnds
<1>2. CASE Lock!submit_begin(t) \/ Lock!ring_poll(t)
  BY <1>0, <1>2 DEF Lock!submit_begin, Lock!ring_poll
<1>3. CASE Lock!submit_end(t) \/ Lock!submit_abort(t)
  BY <1>0, <1>3 DEF Lock!submit_end, Lock!submit_abort, Lock!ring_unlock
<1>4. CASE Lock!SectionEnds(t)
  BY <1>0, <1>4 DEF Lock!SectionEnds, Lock!ring_unlock
<1>5. CASE Lock!Call(t)
  BY <1>0, <1>5 DEF Lock!Call, Lock!Claim, Lock!Submit, Lock!aura_request_set_linked, Lock!aura_poll,
                    Lock!aura_cancel
<1> QED BY <1>1, <1>2, <1>3, <1>4, <1>5, JoinedMoves

\* So the owner's counter stays exact, and what holds of the others too.
LEMMA JoinedLeavesOthers ==
  ASSUME LockTypes, NEW o \in Threads, Lock!OwnerCounted(o),
         NEW t \in Threads \ {o}, Lock!Joined(o, t), Lock!Step(t) \/ Lock!Call(t)
  PROVE  /\ Lock!OwnerCounted(o)'
         /\ \A u \in Threads \ {o, t} : Lock!Joined(o, u) => Lock!Joined(o, u)'
<1>1. /\ pc'[o] = pc[o] /\ op'[o] = op[o] /\ lock_st'[o] = lock_st[o]
      /\ owned'[o] = owned[o]
  BY JoinedQuiet
<1>2. Lock!OwnerCounted(o)'
  BY <1>1, JoinedQuiet DEF Lock!OwnerCounted
<1>3. ASSUME NEW u \in Threads \ {o, t}, Lock!Joined(o, u)
      PROVE  Lock!Joined(o, u)'
  <2>1. /\ pc'[u] = pc[u] /\ lock_st'[u] = lock_st[u] /\ owned'[u] = owned[u]
        /\ single_thread' => single_thread
    BY JoinedQuiet
  <2> QED BY <1>1, <1>3, <2>1 DEF Lock!Joined
<1> QED BY <1>2, <1>3

\* It goes by the mutex, and through the spin only when the owner is out.
LEMMA JoinedNext ==
  ASSUME LockTypes, NEW o \in Threads, Lock!OwnerCounted(o),
         NEW t \in Threads \ {o}, Lock!Joined(o, t), Lock!Step(t) \/ Lock!Call(t)
  PROVE  Lock!Joined(o, t)'
<1> USE DEF Lock!flags, Lock!tls, Lock!Goto, Lock!RingLockFor, LockTypes
<1>0. /\ pc'[o] = pc[o] /\ lock_st'[o] = lock_st[o] /\ owner_count > 0
      /\ owner_count \in Nat
  BY JoinedQuiet DEF Lock!OwnerCounted
<1>1. CASE Lock!LockLoad(t) \/ Lock!LockMutex(t)
  BY <1>0, <1>1 DEF Lock!LockLoad, Lock!LockMutex, Lock!Joined
<1>2. CASE Lock!ClaimShared(t)
  BY <1>0, <1>2 DEF Lock!ClaimShared, Lock!Joined
<1>3. CASE Lock!SpinEnds(t)
  <2>1. st_users["lock"] <= 0
    BY <1>3 DEF Lock!SpinEnds, Lock!Locks
  <2>2. ~(pc[o] = "inside" /\ lock_st[o])
    BY <2>1 DEF Lock!OwnerCounted
  <2> QED BY <1>0, <1>3, <2>2 DEF Lock!SpinEnds, Lock!Joined
<1>4. CASE Lock!submit_begin(t) \/ Lock!ring_poll(t)
  BY <1>0, <1>4 DEF Lock!submit_begin, Lock!ring_poll, Lock!Joined
<1>5. CASE Lock!submit_end(t) \/ Lock!submit_abort(t)
  BY <1>0, <1>5 DEF Lock!submit_end, Lock!submit_abort, Lock!Joined, Lock!InSubmission
<1>6. CASE Lock!SectionEnds(t)
  BY <1>0, <1>6 DEF Lock!SectionEnds, Lock!Joined
<1>7. CASE Lock!Call(t)
  BY <1>0, <1>7 DEF Lock!Call, Lock!Claim, Lock!Submit, Lock!aura_request_set_linked, Lock!aura_poll,
                    Lock!aura_cancel, Lock!Joined
<1> QED BY <1>1, <1>2, <1>3, <1>4, <1>5, <1>6, <1>7, JoinedMoves

-----------------------------------------------------------------------------
(* The mutexes *)

\* A step leaves both mutexes alone, takes a free one or gives back its own.
MutexMoves(t) ==
  \/ /\ lock' = lock
     /\ pc'[t] = "inside" /\ ~lock_st'[t] =>
          /\ pc[t] = "inside" /\ ~lock_st[t]
          /\ Lock!LockOf(op'[t]) = Lock!LockOf(op[t])
  \/ /\ lock[Lock!LockOf(op[t])] = NoThread
     /\ lock' = [lock EXCEPT ![Lock!LockOf(op[t])] = t] /\ op'[t] = op[t]
  \/ /\ pc[t] = "inside" /\ ~lock_st[t] /\ pc'[t] # "inside"
     /\ lock' = [lock EXCEPT ![Lock!LockOf(op[t])] = NoThread]

\* The owner's steps are of these three kinds.
LEMMA OwnerMutex ==
  ASSUME LockTypes, NEW o \in Threads, Lock!OwnerCounted(o), Lock!Step(o) \/ Lock!Call(o)
  PROVE  MutexMoves(o)
<1> USE DEF Lock!flags, Lock!tls, Lock!Goto, Lock!RingLockFor, LockTypes, MutexMoves
<1>1. CASE Lock!LockLoad(o) \/ Lock!LockBump(o)
  BY <1>1 DEF Lock!LockLoad, Lock!LockBump
<1>2. CASE Lock!LockRecheck(o)
  BY <1>2 DEF Lock!LockRecheck
<1>3. CASE Lock!LockMutex(o)
  BY <1>3 DEF Lock!LockMutex
<1>4. CASE Lock!SectionEnds(o)
  <2>1. Lock!ring_unlock(Lock!LockOf(op[o]), lock_st[o]) /\ pc[o] = "inside"
    BY <1>4 DEF Lock!SectionEnds
  <2>2. pc'[o] = "idle"
    BY <1>4 DEF Lock!SectionEnds, Lock!OwnerCounted
  <2> QED BY <2>1, <2>2 DEF Lock!ring_unlock
<1>5. CASE Lock!aura_request_set_linked(o) \/ Lock!aura_cancel(o)
  BY <1>5 DEF Lock!aura_request_set_linked, Lock!aura_cancel
<1> QED BY <1>1, <1>2, <1>3, <1>4, <1>5, OwnerMoves

\* And so are those of a thread that joined.
LEMMA JoinedMutex ==
  ASSUME LockTypes, NEW o \in Threads, Lock!OwnerCounted(o),
         NEW t \in Threads \ {o}, Lock!Joined(o, t), Lock!Step(t) \/ Lock!Call(t)
  PROVE  MutexMoves(t)
<1> USE DEF Lock!flags, Lock!tls, Lock!Goto, Lock!RingLockFor, LockTypes, MutexMoves
<1>0. ~lock_st[t] /\ pc[t] # "fast"
  BY DEF Lock!Joined
<1>1. CASE Lock!LockLoad(t) \/ Lock!ClaimShared(t) \/ Lock!SpinEnds(t)
  BY <1>1 DEF Lock!LockLoad, Lock!ClaimShared, Lock!SpinEnds
<1>2. CASE Lock!LockMutex(t)
  BY <1>2 DEF Lock!LockMutex
<1>3. CASE Lock!submit_begin(t) \/ Lock!ring_poll(t)
  BY <1>3 DEF Lock!submit_begin, Lock!ring_poll
<1>4. CASE Lock!submit_end(t)
  <2>1. pc[t] = "inside" /\ op[t] = "submit"
    BY <1>0, <1>4 DEF Lock!submit_end, Lock!InSubmission
  <2>2. ~single_thread
    BY <2>1 DEF Lock!Joined
  <2>3. CASE linked[t]
    BY <1>0, <1>4, <2>1, <2>3 DEF Lock!submit_end, Lock!LockOf
  <2>4. CASE ~linked[t]
    BY <1>0, <1>4, <2>1, <2>2, <2>4 DEF Lock!submit_end, Lock!LockOf, Lock!ring_unlock
  <2> QED BY <2>3, <2>4
<1>5. CASE Lock!submit_abort(t)
  <2>1. pc[t] = "inside" /\ op[t] = "submit"
    BY <1>0, <1>5 DEF Lock!submit_abort, Lock!InSubmission
  <2> QED BY <1>0, <1>5, <2>1 DEF Lock!submit_abort, Lock!LockOf, Lock!ring_unlock
<1>6. CASE Lock!SectionEnds(t)
  <2>1. lock' = [lock EXCEPT ![Lock!LockOf(op[t])] = NoThread] /\ pc[t] = "inside"
    BY <1>0, <1>6 DEF Lock!SectionEnds, Lock!ring_unlock
  <2>2. pc'[t] # "inside"
    BY <1>6 DEF Lock!SectionEnds
  <2> QED BY <1>0, <2>1, <2>2
<1>7. CASE Lock!Call(t)
  BY <1>7 DEF Lock!Call, Lock!Claim, Lock!Submit, Lock!aura_request_set_linked, Lock!aura_poll,
              Lock!aura_cancel
<1> QED BY <1>1, <1>2, <1>3, <1>4, <1>5, <1>6, <1>7, JoinedMoves

\* A mutex stays with the thread in its section.
LEMMA MutexNext ==
  ASSUME Lock!LockConstants, LockTypes, Lock!MutexHeld, NEW t \in Threads, MutexMoves(t),
         \A u \in Threads \ {t} :
           pc'[u] = pc[u] /\ op'[u] = op[u] /\ lock_st'[u] = lock_st[u]
  PROVE  Lock!MutexHeld'
<1> SUFFICES ASSUME NEW u \in Threads, pc'[u] = "inside", ~lock_st'[u]
             PROVE  lock'[Lock!LockOf(op'[u])] = u
  BY DEF Lock!MutexHeld
<1>1. Lock!LockOf(op[t]) \in Lock!Locks /\ Lock!LockOf(op'[u]) \in Lock!Locks
  BY LockOfType
<1>2. CASE u = t
  BY <1>1, <1>2 DEF MutexMoves, Lock!MutexHeld, LockTypes
<1>3. CASE u # t
  <2>1. /\ pc[u] = "inside" /\ ~lock_st[u]
        /\ op'[u] = op[u] /\ lock[Lock!LockOf(op[u])] = u /\ u # NoThread
    BY <1>3 DEF Lock!MutexHeld, Lock!LockConstants
  <2>2. Lock!LockOf(op[u]) # Lock!LockOf(op[t]) \/ lock' = lock
    BY <1>3, <2>1 DEF MutexMoves, Lock!MutexHeld
  <2> QED BY <1>1, <2>1, <2>2 DEF MutexMoves, LockTypes
<1> QED BY <1>2, <1>3

-----------------------------------------------------------------------------
(* The ring as a whole *)

\* A ring shared with its first owner stays so.
LEMMA SharedNext ==
  ASSUME Lock!LockConstants, LockTypes, NEW o \in Threads, Shared(o),
         NEW t \in Threads, Lock!Step(t) \/ Lock!Call(t)
  PROVE  Shared(o)'
<1>0. Lock!OwnerCounted(o) /\ Lock!MutexHeld /\ \A u \in Threads \ {o} : Lock!Joined(o, u)
  BY DEF Shared
<1>1. CASE t = o
  <2>1. Lock!OwnerCounted(o)'
    BY <1>0, <1>1, OwnerCount
  <2>2. \A u \in Threads \ {o} : Lock!Joined(o, u)'
    BY <1>0, <1>1, OwnerLeavesJoined
  <2>3. Lock!MutexHeld'
    BY <1>0, <1>1, OwnerQuiet, OwnerMutex, MutexNext
  <2> QED BY <2>1, <2>2, <2>3 DEF Shared
<1>2. CASE t # o
  <2>0. t \in Threads \ {o} /\ Lock!Joined(o, t)
    BY <1>0, <1>2
  <2>1. /\ Lock!OwnerCounted(o)'
        /\ \A u \in Threads \ {o, t} : Lock!Joined(o, u)'
    BY <1>0, <2>0, JoinedLeavesOthers
  <2>2. Lock!Joined(o, t)'
    BY <1>0, <2>0, JoinedNext
  <2>3. Lock!MutexHeld'
    BY <1>0, <2>0, JoinedQuiet, JoinedMutex, MutexNext
  <2>4. \A u \in Threads \ {o} : Lock!Joined(o, u)'
    BY <2>1, <2>2
  <2> QED BY <2>1, <2>3, <2>4 DEF Shared
<1> QED BY <1>1, <1>2

\* The invariant is its types and one of the two cases.
LEMMA InvCases ==
  Lock!LockInv <=> LockTypes /\ \E o \in Threads : Lock!Alone(o) \/ Shared(o)
BY DEF Lock!LockInv, LockTypes, Shared

\* The instance counts like FiniteSets.
LEMMA SameNumber ==
  ASSUME NEW S
  PROVE  Lock!Cardinality(S) = Cardinality(S)
BY DEF Lock!Cardinality, Cardinality, Lock!IsFiniteSet, IsFiniteSet

\* It holds when the threads have not yet come to the ring.
LEMMA LockInit ==
  ASSUME Lock!LockConstants, Lock!Init
  PROVE  Lock!LockInv
<1>1. PICK c \in Callers :
        /\ submitters = c.submitters
        /\ owner_count = Cardinality(c.owners)
        /\ single_thread = (Cardinality(c.owners) = 1)
        /\ owned = [t \in Threads |-> t \in c.owners]
  BY SameNumber DEF Lock!Init
<1>2. PICK o \in Threads :
        \/ c.submitters \subseteq {o} /\ c.owners \subseteq {o}
        \/ c.owners = {o} /\ o \notin c.submitters
  BY DEF Lock!LockConstants
<1>3. Cardinality({}) = 0 /\ Cardinality({o}) = 1
  BY FS_EmptySet, FS_Singleton
<1>4. c.owners = {} \/ c.owners = {o}
  BY <1>2
<1>5. LockTypes
  <2>1. owner_count \in {0, 1}
    BY <1>1, <1>3, <1>4
  <2>2. single_thread \in BOOLEAN
    BY <1>1
  <2>3. owned \in [Threads -> BOOLEAN]
    BY <1>1
  <2>4. /\ pc \in [Threads -> Lock!Pcs] /\ op \in [Threads -> Lock!Ops]
        /\ lock_st \in [Threads -> BOOLEAN] /\ linked \in [Threads -> BOOLEAN]
    BY DEF Lock!Init, Lock!Pcs, Lock!Ops
  <2>5. /\ st_users \in [Lock!Locks -> Int]
        /\ lock \in [Lock!Locks -> Threads \cup {NoThread}]
    BY DEF Lock!Init
  <2> QED BY <2>1, <2>2, <2>3, <2>4, <2>5 DEF LockTypes
<1>6. CASE c.submitters \subseteq {o} /\ c.owners \subseteq {o}
  BY <1>1, <1>5, <1>6, InvCases DEF Lock!Init, Lock!Alone
<1>7. CASE c.owners = {o} /\ o \notin c.submitters
  <2>1. Lock!OwnerCounted(o)
    <3>1. o \notin submitters /\ owned[o] /\ owner_count > 0
      <4>1. o \notin submitters /\ owner_count = Cardinality({o})
        BY <1>1, <1>7
      <4>2. owned[o]
        BY <1>1, <1>7
      <4> QED BY <1>3, <4>1, <4>2
    <3>2. /\ op[o] = "cancel" /\ pc[o] = "idle"
          /\ st_users["cq_lock"] = 0 /\ st_users["lock"] = 0
      BY DEF Lock!Init, Lock!Locks
    <3> QED BY <3>1, <3>2 DEF Lock!OwnerCounted
  <2>2. Lock!MutexHeld
    BY DEF Lock!Init, Lock!MutexHeld
  <2>3. \A t \in Threads \ {o} : Lock!Joined(o, t)
    BY <1>1, <1>7 DEF Lock!Init, Lock!Joined
  <2> QED BY <1>5, <2>1, <2>2, <2>3, InvCases DEF Shared
<1> QED BY <1>2, <1>6, <1>7

\* Every step keeps it.
LEMMA LockStep ==
  ASSUME Lock!LockConstants, Lock!LockInv, [Lock!Next]_(Lock!vars)
  PROVE  Lock!LockInv'
<1>1. CASE UNCHANGED Lock!vars
  BY <1>1 DEF Lock!vars, Lock!LockInv, Lock!Alone, Lock!OwnerCounted, Lock!Joined, Lock!MutexHeld
<1>2. CASE Lock!Next
  <2>1. PICK t \in Threads : Lock!Step(t) \/ Lock!Call(t)
    BY <1>2 DEF Lock!Next
  <2>2. LockTypes
    BY InvCases
  <2>3. PICK o \in Threads : Lock!Alone(o) \/ Shared(o)
    BY InvCases
  <2>4. LockTypes'
    BY <2>1, <2>2, StepTypes, CallTypes
  <2>5. Lock!Alone(o)' \/ Shared(o)'
    BY <2>1, <2>2, <2>3, AloneNext, SharedNext
  <2> QED BY <2>4, <2>5 DEF Lock!LockInv, LockTypes, Shared
<1> QED BY <1>1, <1>2

\* A thread alone has nobody to meet; of two threads that share the ring both
\* hold the same mutex.
LEMMA Exclusive ==
  ASSUME Lock!LockInv
  PROVE  Lock!MutualExclusion
<1> SUFFICES ASSUME NEW t \in Threads, NEW u \in Threads, t # u
             PROVE  ~(Lock!InSq(t) /\ Lock!InSq(u)) /\ ~(Lock!InCq(t) /\ Lock!InCq(u))
  BY DEF Lock!MutualExclusion
<1>1. PICK o \in Threads : Lock!Alone(o) \/ Shared(o)
  BY InvCases
<1>2. CASE Lock!Alone(o)
  BY <1>2 DEF Lock!Alone, Lock!InSq, Lock!InCq
<1>3. CASE Shared(o)
  <2>1. \A x \in Threads : Lock!InSq(x) =>
          pc[x] = "inside" /\ Lock!LockOf(op[x]) = "lock"
    BY <1>3 DEF Shared, Lock!OwnerCounted, Lock!Joined, Lock!InSq, Lock!LockOf
  <2>2. \A x \in Threads : Lock!InCq(x) =>
          pc[x] = "inside" /\ Lock!LockOf(op[x]) = "cq_lock"
    BY <1>3 DEF Shared, Lock!OwnerCounted, Lock!Joined, Lock!InCq, Lock!LockOf
  <2>3. pc[t] = "inside" /\ pc[u] = "inside" => ~lock_st[t] /\ ~lock_st[u]
    BY <1>3 DEF Shared, Lock!Joined
  <2> QED BY <1>3, <2>1, <2>2, <2>3 DEF Shared, Lock!MutexHeld
<1> QED BY <1>1, <1>2, <1>3

\* Two threads are never at once on the submission side of the ring, nor at
\* once on its completion side, through the change from lockless use by the
\* first owner (ring_lock's counters) to shared use by any number of joining
\* threads (select_ring_thread_local's spin and the mutexes), for the cases of
\* LockConstants.
THEOREM RingSidesExclusive ==
  ASSUME Lock!LockConstants
  PROVE  Lock!Spec => []Lock!MutualExclusion
<1>1. Lock!Init => Lock!LockInv
  BY LockInit
<1>2. Lock!LockInv /\ [Lock!Next]_(Lock!vars) => Lock!LockInv'
  BY LockStep
<1>3. Lock!LockInv => Lock!MutualExclusion
  BY Exclusive
<1> QED BY <1>1, <1>2, <1>3, PTL DEF Lock!Spec
=============================================================================
