----------------------------- MODULE RingProofs -----------------------------
(***************************************************************************)
(* Machine-checked proofs about Ring, for every number of threads, nesting *)
(* depth, queue depth, batch size and set of flush faults: slots are       *)
(* conserved and, on top of that, the counters are exact, the in-flight    *)
(* limit is respected, a request with a slot always finds an SQE, a cancel *)
(* never ends a later request, and the ring implements the request         *)
(* lifecycle.                                                              *)
(***************************************************************************)
EXTENDS Ring, FiniteSetTheorems, SequenceTheorems, TLAPS

-----------------------------------------------------------------------------
(* Queues: what the operations on them do to the set of slots in a queue, and
   that they keep a queue free of repetitions *)

\* What Append adds to a queue: SQEs, CQEs and retire entries.
LEMMA AppendRange ==
  ASSUME NEW S, NEW q \in Seq(S), NEW s \in S
  PROVE  /\ Range(Append(q, s)) = Range(q) \cup {s}
         /\ IsInjective(q) /\ s \notin Range(q) => IsInjective(Append(q, s))
<1> DEFINE r == Append(q, s)
<1>1. /\ r \in Seq(S) /\ Len(r) = Len(q) + 1 /\ r[Len(q) + 1] = s
      /\ \A i \in 1 .. Len(q) : r[i] = q[i]
  BY AppendProperties
<1>2. Range(q) = {q[i] : i \in 1 .. Len(q)} /\ Range(r) = {r[i] : i \in 1 .. Len(r)}
  BY <1>1, RangeEquality, ZenonT(40)
<1>3. Range(r) = Range(q) \cup {s}
  BY <1>1, <1>2
<1>4. ASSUME IsInjective(q), s \notin Range(q) PROVE IsInjective(r)
  BY <1>1, <1>2, <1>4 DEF IsInjective
<1> QED BY <1>3, <1>4

\* What Tail takes from a queue.
LEMMA TailRange ==
  ASSUME NEW S, NEW q \in Seq(S), q # <<>>, IsInjective(q)
  PROVE  /\ Head(q) \in Range(q) /\ Head(q) \in S
         /\ Tail(q) \in Seq(S)
         /\ Range(Tail(q)) = Range(q) \ {Head(q)}
         /\ IsInjective(Tail(q))
<1> DEFINE r == Tail(q)
<1>1. /\ r \in Seq(S) /\ Len(r) = Len(q) - 1 /\ Head(q) = q[1] /\ Len(q) \in Nat \ {0}
      /\ \A i \in 1 .. Len(r) : r[i] = q[i + 1]
  BY HeadTailProperties
<1>2. Range(q) = {q[i] : i \in 1 .. Len(q)} /\ Range(r) = {r[i] : i \in 1 .. Len(r)}
  BY <1>1, RangeEquality, ZenonT(40)
<1>3. DOMAIN q = 1 .. Len(q) /\ DOMAIN r = 1 .. Len(r)
  BY <1>1
<1>4. Head(q) \in Range(q) /\ Head(q) \in S
  BY <1>1, <1>2
<1>5. IsInjective(r)
  BY <1>1, <1>3 DEF IsInjective
<1>6. ASSUME NEW x \in Range(r) PROVE x \in Range(q) \ {Head(q)}
  <2>1. PICK i \in 1 .. Len(r) : x = r[i]
    BY <1>2
  <2>2. i + 1 \in 1 .. Len(q) /\ x = q[i + 1] /\ i + 1 # 1
    BY <1>1, <2>1
  <2> QED BY <1>1, <1>2, <1>3, <2>2 DEF IsInjective
<1>7. ASSUME NEW x \in Range(q) \ {Head(q)} PROVE x \in Range(r)
  <2>1. PICK i \in 1 .. Len(q) : x = q[i]
    BY <1>2
  <2>2. i - 1 \in 1 .. Len(r) /\ x = r[i - 1]
    BY <1>1, <2>1
  <2> QED BY <1>2, <2>2
<1> QED BY <1>1, <1>4, <1>5, <1>6, <1>7

\* Splitting a queue: what a flush publishes, what a drain takes.
LEMMA SplitRange ==
  ASSUME NEW S, NEW q \in Seq(S), NEW k \in 0 .. Len(q), IsInjective(q)
  PROVE  LET u == SubSeq(q, 1, k)
             v == SubSeq(q, k + 1, Len(q))
         IN  /\ u \in Seq(S) /\ v \in Seq(S)
             /\ Len(u) = k /\ Len(v) = Len(q) - k
             /\ IsInjective(u) /\ IsInjective(v)
             /\ Range(u) \subseteq Range(q)
             /\ Range(v) = Range(q) \ Range(u)
<1> DEFINE u == SubSeq(q, 1, k)
           v == SubSeq(q, k + 1, Len(q))
<1>1. /\ Len(q) \in Nat /\ DOMAIN q = 1 .. Len(q)
      /\ \A i \in 1 .. Len(q) : q[i] \in S
  OBVIOUS
<1>2. /\ u \in Seq(S) /\ Len(u) = k
      /\ \A i \in 1 .. k : u[i] = q[i]
  <2>1. /\ \A i \in 1 .. k : q[i] \in S
        /\ k \in Int
    BY <1>1
  <2>2. /\ u \in Seq(S)
        /\ Len(u) = IF 1 <= k THEN k - 1 + 1 ELSE 0
        /\ \A i \in 1 .. k - 1 + 1 : u[i] = q[1 + i - 1]
    BY <2>1, SubSeqProperties
  <2> HIDE DEF u
  <2> QED BY <1>1, <2>2
<1>3. /\ v \in Seq(S) /\ Len(v) = Len(q) - k
      /\ \A i \in 1 .. Len(q) - k : v[i] = q[k + i]
  <2>1. /\ \A i \in (k + 1) .. Len(q) : q[i] \in S
        /\ k + 1 \in Int /\ Len(q) \in Int
    BY <1>1
  <2>2. /\ v \in Seq(S)
        /\ Len(v) = IF k + 1 <= Len(q) THEN Len(q) - (k + 1) + 1 ELSE 0
        /\ \A i \in 1 .. Len(q) - (k + 1) + 1 : v[i] = q[(k + 1) + i - 1]
    BY <2>1, SubSeqProperties
  <2> HIDE DEF v
  <2>3. Len(q) - (k + 1) + 1 = Len(q) - k
    BY <1>1
  <2>4. Len(v) = Len(q) - k
    <3>1. CASE k + 1 <= Len(q)
      BY <2>2, <2>3, <3>1
    <3>2. CASE ~(k + 1 <= Len(q))
      <4>1. Len(q) \in Int /\ k \in Int /\ k <= Len(q)
        BY <1>1
      <4>2. Len(q) = k
        BY <3>2, <4>1
      <4>3. Len(q) - k = 0
        BY <4>1, <4>2
      <4> QED BY <2>2, <3>2, <4>3
    <3> QED BY <3>1, <3>2
  <2>5. ASSUME NEW i \in 1 .. Len(q) - k PROVE v[i] = q[k + i]
    <3>1. (k + 1) + i - 1 = k + i
      BY <1>1
    <3> QED BY <2>2, <2>3, <3>1
  <2> QED BY <2>2, <2>4, <2>5
<1> HIDE DEF u, v
<1>4. /\ Range(q) = {q[i] : i \in 1 .. Len(q)}
      /\ Range(u) = {u[i] : i \in 1 .. k}
      /\ Range(v) = {v[i] : i \in 1 .. Len(q) - k}
  <2>1. Range(q) = {q[i] : i \in 1 .. Len(q)}
    BY RangeEquality
  <2>2. Range(u) = {u[i] : i \in 1 .. Len(u)}
    BY <1>2, RangeEquality
  <2>3. Range(v) = {v[i] : i \in 1 .. Len(v)}
    BY <1>3, RangeEquality
  <2> QED BY <1>2, <1>3, <2>1, <2>2, <2>3
<1>5. IsInjective(u)
  BY <1>1, <1>2 DEF IsInjective
<1>6. IsInjective(v)
  <2> SUFFICES ASSUME NEW i \in 1 .. Len(q) - k, NEW j \in 1 .. Len(q) - k, v[i] = v[j]
               PROVE  i = j
    BY <1>3 DEF IsInjective
  <2>1. k + i \in 1 .. Len(q) /\ k + j \in 1 .. Len(q) /\ q[k + i] = q[k + j]
    BY <1>1, <1>3
  <2>2. k + i = k + j
    BY <1>1, <2>1 DEF IsInjective
  <2> QED BY <2>2
<1>7. Range(u) \subseteq Range(q)
  BY <1>1, <1>2, <1>4
<1>8. ASSUME NEW x \in Range(v) PROVE x \in Range(q) \ Range(u)
  <2>1. PICK i \in 1 .. Len(q) - k : x = q[k + i]
    BY <1>3, <1>4
  <2>2. k + i \in 1 .. Len(q) /\ k + i \notin 1 .. k
    BY <1>1
  <2> QED BY <1>1, <1>2, <1>4, <2>1, <2>2 DEF IsInjective
<1>9. ASSUME NEW x \in Range(q) \ Range(u) PROVE x \in Range(v)
  <2>1. PICK i \in 1 .. Len(q) : x = q[i]
    BY <1>4
  <2>2. i \notin 1 .. k
    BY <1>2, <1>4, <2>1
  <2>3. i - k \in 1 .. Len(q) - k /\ x = v[i - k]
    BY <1>1, <1>3, <2>1, <2>2
  <2> QED BY <1>4, <2>3
<1> QED BY <1>2, <1>3, <1>5, <1>6, <1>7, <1>8, <1>9 DEF u, v

\* Joining two queues with nothing in common.
LEMMA ConcatRange ==
  ASSUME NEW S, NEW q \in Seq(S), NEW r \in Seq(S)
  PROVE  /\ q \o r \in Seq(S)
         /\ Range(q \o r) = Range(q) \cup Range(r)
         /\ IsInjective(q) /\ IsInjective(r) /\ Range(q) \cap Range(r) = {}
              => IsInjective(q \o r)
<1>1. /\ q \o r \in Seq(S) /\ Len(q \o r) = Len(q) + Len(r)
      /\ \A i \in 1 .. Len(q) + Len(r) :
           (q \o r)[i] = IF i <= Len(q) THEN q[i] ELSE r[i - Len(q)]
  BY ConcatProperties
<1>2. Range(q \o r) = Range(q) \cup Range(r)
  BY RangeConcatenation
<1>3. Range(q) = {q[i] : i \in 1 .. Len(q)} /\ Range(r) = {r[i] : i \in 1 .. Len(r)}
  BY RangeEquality
<1>4. ASSUME IsInjective(q), IsInjective(r), Range(q) \cap Range(r) = {}
      PROVE  IsInjective(q \o r)
  <2> SUFFICES ASSUME NEW i \in 1 .. Len(q) + Len(r), NEW j \in 1 .. Len(q) + Len(r),
                      (q \o r)[i] = (q \o r)[j]
               PROVE  i = j
    BY <1>1 DEF IsInjective
  <2>1. CASE i <= Len(q) /\ j <= Len(q)
    BY <1>1, <1>4, <2>1 DEF IsInjective
  <2>2. CASE i > Len(q) /\ j > Len(q)
    <3>1. /\ i - Len(q) \in 1 .. Len(r) /\ j - Len(q) \in 1 .. Len(r)
          /\ r[i - Len(q)] = r[j - Len(q)]
      BY <1>1, <2>2
    <3> QED BY <1>4, <3>1 DEF IsInjective
  <2>3. CASE i <= Len(q) /\ j > Len(q)
    <3>1. j - Len(q) \in 1 .. Len(r) /\ i \in 1 .. Len(q) /\ q[i] = r[j - Len(q)]
      BY <1>1, <2>3
    <3> QED BY <1>3, <1>4, <3>1
  <2>4. CASE i > Len(q) /\ j <= Len(q)
    <3>1. i - Len(q) \in 1 .. Len(r) /\ j \in 1 .. Len(q) /\ q[j] = r[i - Len(q)]
      BY <1>1, <2>4
    <3> QED BY <1>3, <1>4, <3>1
  <2> QED BY <2>1, <2>2, <2>3, <2>4
<1> QED BY <1>1, <1>2, <1>4

\* What popping a stack takes from it.
LEMMA FrontRange ==
  ASSUME NEW S, NEW q \in Seq(S), q # <<>>, IsInjective(q)
  PROVE  LET f == SubSeq(q, 1, Len(q) - 1)
             x == q[Len(q)]
         IN  /\ f \in Seq(S) /\ IsInjective(f)
             /\ x \in Range(q) /\ Range(f) = Range(q) \ {x}
<1> DEFINE k == Len(q) - 1
           f == SubSeq(q, 1, k)
           v == SubSeq(q, k + 1, Len(q))
<1>1. Len(q) \in Nat \ {0} /\ k \in 0 .. Len(q) /\ k + 1 = Len(q) /\ Len(q) - k = 1
  OBVIOUS
<1>2. /\ f \in Seq(S) /\ v \in Seq(S) /\ Len(v) = 1
      /\ IsInjective(f) /\ Range(f) \subseteq Range(q)
      /\ Range(v) = Range(q) \ Range(f)
  BY <1>1, SplitRange
<1>3. v[1] = q[Len(q)]
  <2>1. \A i \in (k + 1) .. Len(q) : q[i] \in S
    BY <1>1
  <2>2. \A i \in 1 .. Len(q) - (k + 1) + 1 : v[i] = q[(k + 1) + i - 1]
    BY <1>1, <2>1, SubSeqProperties
  <2>3. 1 \in 1 .. Len(q) - (k + 1) + 1 /\ (k + 1) + 1 - 1 = Len(q)
    BY <1>1
  <2> QED BY <2>2, <2>3
<1> HIDE DEF f, v
<1>4. Range(v) = {v[i] : i \in 1 .. 1}
  BY <1>2, RangeEquality
<1>5. Range(v) = {q[Len(q)]}
  BY <1>3, <1>4
<1> QED BY <1>2, <1>5 DEF f

\* Sequences of one and of two elements.
LEMMA ShortRange ==
  ASSUME NEW S, NEW x \in S, NEW y \in S
  PROVE  /\ <<x>> \in Seq(S) /\ Range(<<x>>) = {x} /\ IsInjective(<<x>>)
         /\ <<x, y>> \in Seq(S) /\ Range(<<x, y>>) = {x, y}
         /\ x # y => IsInjective(<<x, y>>)
<1>1. <<x>> \in Seq(S) /\ <<x, y>> \in Seq(S)
  OBVIOUS
<1>2. Range(<<x>>) = {x} /\ IsInjective(<<x>>)
  BY DEF Range, IsInjective
<1>3. Range(<<x, y>>) = {x, y}
  BY DEF Range
<1>4. x # y => IsInjective(<<x, y>>)
  BY DEF IsInjective
<1> QED BY <1>1, <1>2, <1>3, <1>4

-----------------------------------------------------------------------------
(* Places *)

\* Moving a set of slots from one place to another keeps every slot at
\* exactly one place.
LEMMA MoveSlots ==
  ASSUME NEW f, NEW g, OnePlace(f),
         NEW p \in Places, NEW q \in Places, p # q,
         NEW S, S \subseteq f[p],
         g[p] = f[p] \ S, g[q] = f[q] \cup S,
         \A r \in Places \ {p, q} : g[r] = f[r]
  PROVE  OnePlace(g)
<1> SUFFICES ASSUME NEW s \in Slots
             PROVE  \E x \in Places : \A r \in Places : s \in g[r] <=> r = x
  BY DEF OnePlace
<1>1. PICK x \in Places : \A r \in Places : s \in f[r] <=> r = x
  BY DEF OnePlace
<1>2. CASE s \in S
  <2>1. x = p
    BY <1>1, <1>2
  <2>2. \A r \in Places : s \in g[r] <=> r = q
    BY <1>1, <1>2, <2>1
  <2> QED BY <2>2
<1>3. CASE s \notin S
  <2>1. \A r \in Places : s \in g[r] <=> s \in f[r]
    BY <1>3
  <2> QED BY <1>1, <2>1
<1> QED BY <1>2, <1>3

Pool        == <<"pool", NoAct>>
Sq          == <<"sq", NoAct>>
Kq          == <<"kq", NoAct>>
InFlight    == <<"inflight", NoAct>>
Cq          == <<"cq", NoAct>>
Held(a)     == <<"held", a>>
Batch(a)    == <<"batch", a>>
Retire(a)   == <<"retire", a>>

\* The places, by name.
LEMMA PlaceNames ==
  /\ \A x \in {Pool, Sq, Kq, InFlight, Cq} : x \in Places
  /\ \A a \in Acts : Held(a) \in Places /\ Batch(a) \in Places /\ Retire(a) \in Places
  /\ \A p \in Places :
       \/ p \in {Pool, Sq, Kq, InFlight, Cq}
       \/ \E a \in Acts : p \in {Held(a), Batch(a), Retire(a)}
BY DEF Places, Shared, Local, Pool, Sq, Kq, InFlight, Cq, Held, Batch, Retire

\* The contents of each place.
LEMMA AtValues ==
  /\ At[Pool] = Range(free)
  /\ At[Sq] = Range(sq)
  /\ At[Kq] = Range(kq)
  /\ At[InFlight] = inflight
  /\ At[Cq] = Range(cq)
  /\ \A a \in Acts :
       /\ At[Held(a)] = IF pc[a] \in Holding THEN {req[a]} ELSE {}
       /\ At[Batch(a)] = Range(batch[a])
       /\ At[Retire(a)] = Range(retire[a])
<1> USE PlaceNames DEF At
<1>1. At[Pool] = Range(free) /\ At[Sq] = Range(sq) /\ At[Kq] = Range(kq)
      /\ At[InFlight] = inflight /\ At[Cq] = Range(cq)
  BY DEF Pool, Sq, Kq, InFlight, Cq
<1>2. ASSUME NEW a \in Acts
      PROVE  /\ At[Held(a)] = IF pc[a] \in Holding THEN {req[a]} ELSE {}
             /\ At[Batch(a)] = Range(batch[a])
             /\ At[Retire(a)] = Range(retire[a])
  BY DEF Held, Batch, Retire
<1> QED BY <1>1, <1>2

\* The same of the next state.
LEMMA AtValuesNext ==
  /\ At'[Pool] = Range(free')
  /\ At'[Sq] = Range(sq')
  /\ At'[Kq] = Range(kq')
  /\ At'[InFlight] = inflight'
  /\ At'[Cq] = Range(cq')
  /\ \A a \in Acts :
       /\ At'[Held(a)] = IF pc'[a] \in Holding THEN {req'[a]} ELSE {}
       /\ At'[Batch(a)] = Range(batch'[a])
       /\ At'[Retire(a)] = Range(retire'[a])
<1> USE PlaceNames DEF At
<1>1. At'[Pool] = Range(free') /\ At'[Sq] = Range(sq') /\ At'[Kq] = Range(kq')
      /\ At'[InFlight] = inflight' /\ At'[Cq] = Range(cq')
  BY DEF Pool, Sq, Kq, InFlight, Cq
<1>2. ASSUME NEW a \in Acts
      PROVE  /\ At'[Held(a)] = IF pc'[a] \in Holding THEN {req'[a]} ELSE {}
             /\ At'[Batch(a)] = Range(batch'[a])
             /\ At'[Retire(a)] = Range(retire'[a])
  BY DEF Held, Batch, Retire
<1> QED BY <1>1, <1>2

\* Different places have different names.
LEMMA PlacesDiffer ==
  /\ Pool # Sq /\ Pool # Kq /\ Pool # InFlight /\ Pool # Cq
  /\ Sq # Kq /\ Sq # InFlight /\ Sq # Cq
  /\ Kq # InFlight /\ Kq # Cq /\ InFlight # Cq
  /\ \A a \in Acts : \A x \in {Pool, Sq, Kq, InFlight, Cq} :
       x # Held(a) /\ x # Batch(a) /\ x # Retire(a)
  /\ \A a, b \in Acts : /\ Held(a) # Batch(b) /\ Held(a) # Retire(b)
                        /\ Batch(a) # Retire(b)
                        /\ Held(a) = Held(b) => a = b
                        /\ Batch(a) = Batch(b) => a = b
                        /\ Retire(a) = Retire(b) => a = b
BY DEF Pool, Sq, Kq, InFlight, Cq, Held, Batch, Retire

-----------------------------------------------------------------------------
(* Consequences of the invariant in one state *)

\* No slot is at two places.
LEMMA Apart ==
  ASSUME OnePlace(At), NEW p \in Places, NEW q \in Places, p # q,
         NEW s \in Slots, s \in At[p]
  PROVE  s \notin At[q]
BY DEF OnePlace

\* A slot in a batch is pending; a slot to be given back is neither pending
\* nor pooled: the defensive branches are not taken.
LEMMA NoBug ==
  ASSUME RingInv
  PROVE  NoBugBranch
<1> USE DEF RingInv, SlotsPartitioned
<1>1. ASSUME NEW s \in Slots, NEW p \in Places, s \in At[p],
             p # Pool, p # Sq, p # Kq, p # InFlight, p # Cq,
             \A b \in Acts : p # Batch(b)
      PROVE  Puttable(s)
  <2>1. /\ s \notin Range(free) /\ s \notin Range(sq) /\ s \notin Range(kq)
        /\ s \notin inflight /\ s \notin Range(cq)
        /\ \A b \in Acts : s \notin Range(batch[b])
    <3>1. \A q \in Places : q # p => s \notin At[q]
      BY <1>1, Apart
    <3>2. /\ s \notin At[Pool] /\ s \notin At[Sq] /\ s \notin At[Kq]
          /\ s \notin At[InFlight] /\ s \notin At[Cq]
          /\ \A b \in Acts : s \notin At[Batch(b)]
      BY <1>1, <3>1, PlaceNames
    <3> QED BY <3>2, AtValues
  <2> QED BY <2>1 DEF FlagsAgree, Puttable
<1>2. ASSUME NEW a \in Acts, NEW s \in Range(batch[a]) PROVE pending[s]
  <2>1. s \in Slots
    BY <1>2, RangeOfSeq DEF TypeOK, QueueTypes
  <2> QED BY <1>2, <2>1 DEF FlagsAgree
<1>3. ASSUME NEW a \in Acts, NEW s \in Range(retire[a]) PROVE Puttable(s)
  <2>1. s \in Slots
    BY <1>3, RangeOfSeq DEF TypeOK, QueueTypes
  <2>2. s \in At[Retire(a)]
    BY <1>3, AtValues
  <2> QED BY <1>1, <2>1, <2>2, PlaceNames, PlacesDiffer
<1>4. ASSUME NEW a \in Acts, pc[a] \in Holding PROVE Puttable(req[a])
  <2>1. req[a] \in Slots
    BY <1>4 DEF LocalsAgree
  <2>2. req[a] \in At[Held(a)]
    BY <1>4, AtValues
  <2> QED BY <1>1, <2>1, <2>2, PlaceNames, PlacesDiffer
<1> QED BY <1>2, <1>3, <1>4 DEF NoBugBranch

\* ring_put_request on slots that pass its checks.
LEMMA PutEffect ==
  ASSUME TypeOK, NEW slots \in Seq(Slots), \A s \in Range(slots) : Puttable(s),
         ring_put_requests(slots)
  PROVE  /\ free' = free \o slots
         /\ in_pool' = [s \in Slots |-> in_pool[s] \/ s \in Range(slots)]
         /\ free' \in Seq(Slots) /\ in_pool' \in [Slots -> BOOLEAN]
         /\ op' \in [Slots -> Ops] /\ target' \in [Slots -> Slots \cup {NoSlot}]
         /\ canceled' \subseteq Slots /\ asked' \subseteq Slots /\ aimed' \subseteq Slots
<1>1. {s \in Range(slots) : Puttable(s)} = Range(slots)
  OBVIOUS
<1>2. /\ free' = free \o slots
      /\ in_pool' = [s \in Slots |-> in_pool[s] \/ s \in Range(slots)]
  BY <1>1 DEF ring_put_requests
<1>3. free' \in Seq(Slots)
  BY <1>2, ConcatProperties DEF TypeOK, RingTypes
<1>4. in_pool' \in [Slots -> BOOLEAN]
  BY <1>2, Zenon DEF TypeOK, RequestTypes
<1>5. /\ op' \in [Slots -> Ops] /\ target' \in [Slots -> Slots \cup {NoSlot}]
      /\ canceled' \subseteq Slots /\ asked' \subseteq Slots /\ aimed' \subseteq Slots
  BY DEF ring_put_requests, TypeOK, RequestTypes, Ops
<1> QED BY <1>2, <1>3, <1>4, <1>5

\* A flush publishes a prefix of the SQ, possibly an empty one.
LEMMA FlushEffect ==
  ASSUME TypeOK, IsInjective(sq), flush_ring_checked
  PROVE  /\ \E k \in 0 .. Len(sq) : /\ sq' = SubSeq(sq, k + 1, Len(sq))
                                    /\ kq' = kq \o SubSeq(sq, 1, k)
         /\ sq' \in Seq(Slots) /\ kq' \in Seq(Slots) /\ queued_sqes' \in Nat
         /\ fatal' \in BOOLEAN /\ eventfd' \in BOOLEAN
<1>1. fatal' \in BOOLEAN /\ eventfd' \in BOOLEAN
  BY Zenon DEF TypeOK, EngineTypes, flush_ring_checked, FlushDone, FlushFatal
<1>2. sq \in Seq(Slots) /\ kq \in Seq(Slots) /\ Len(sq) \in Nat /\ Len(kq) \in Nat
      /\ queued_sqes \in Nat
  BY DEF TypeOK, QueueTypes, RingTypes
<1>3. \/ sq' = sq /\ kq' = kq /\ queued_sqes' = queued_sqes
      \/ \E k \in Accepted : /\ sq' = SubSeq(sq, k + 1, Len(sq))
                             /\ kq' = kq \o SubSeq(sq, 1, k)
                             /\ queued_sqes' = Clamped(Reported(k))
  BY Zenon DEF flush_ring_checked, FlushDone, FlushFatal
<1>4. CASE sq' = sq /\ kq' = kq /\ queued_sqes' = queued_sqes
  <2>1. sq = SubSeq(sq, 0 + 1, Len(sq)) /\ kq = kq \o SubSeq(sq, 1, 0)
    BY <1>2, SubSeqFull, SubSeqEmpty, ConcatEmptySeq
  <2>2. 0 \in 0 .. Len(sq)
    BY <1>2
  <2>3. \E k \in 0 .. Len(sq) : /\ sq' = SubSeq(sq, k + 1, Len(sq))
                                /\ kq' = kq \o SubSeq(sq, 1, k)
    BY <1>4, <2>1, <2>2, Zenon
  <2> QED BY <1>1, <1>2, <1>4, <2>3
<1>5. ASSUME NEW k \in Accepted,
             sq' = SubSeq(sq, k + 1, Len(sq)), kq' = kq \o SubSeq(sq, 1, k),
             queued_sqes' = Clamped(Reported(k))
      PROVE  /\ k \in 0 .. Len(sq) /\ sq' \in Seq(Slots) /\ kq' \in Seq(Slots)
             /\ queued_sqes' \in Nat
  <2>1. k \in 0 .. Len(sq)
    BY <1>2 DEF Accepted
  <2>2. sq' \in Seq(Slots) /\ SubSeq(sq, 1, k) \in Seq(Slots)
    BY <1>2, <1>5, <2>1, SplitRange
  <2>3. kq' \in Seq(Slots)
    BY <1>2, <1>5, <2>2, ConcatProperties
  <2>4. Reported(k) \in Nat
    BY <1>2, <2>1 DEF Reported
  <2>5. queued_sqes' \in Nat
    BY <1>2, <1>5, <2>4 DEF Clamped
  <2> QED BY <2>1, <2>2, <2>3, <2>5
<1>6. CASE \E k \in Accepted : /\ sq' = SubSeq(sq, k + 1, Len(sq))
                               /\ kq' = kq \o SubSeq(sq, 1, k)
                               /\ queued_sqes' = Clamped(Reported(k))
  BY <1>1, <1>5, <1>6, Zenon
<1> QED BY <1>3, <1>4, <1>6

\* A call that returns, moves on or starts a drain keeps the types of its
\* locals.
LEMMA CallMoves ==
  ASSUME CallTypes, NEW a \in Acts
  PROVE  /\ Return(a) => CallTypes'
         /\ \A l \in PcValues : Goto(a, l) => pc' \in [Acts -> PcValues]
         /\ \A b \in {"return", "recheck"} \cup {"waited", "final"} :
              StartDrain(a, b) /\ UNCHANGED callVars => CallTypes'
<1>1. Return(a) => CallTypes'
  BY DEF Return, Goto, CallTypes, PcValues, Ops
<1>2. ASSUME NEW l \in PcValues, Goto(a, l) PROVE pc' \in [Acts -> PcValues]
  BY <1>2 DEF Goto, CallTypes
<1>3. ASSUME NEW b \in {"return", "recheck"} \cup {"waited", "final"},
             StartDrain(a, b), UNCHANGED callVars
      PROVE  CallTypes'
  BY <1>3 DEF StartDrain, Goto, CallTypes, PcValues, callVars
<1> QED BY <1>1, <1>2, <1>3

\* Taking a slot keeps the types.
LEMMA TakeTypes ==
  ASSUME TypeOK, NEW a \in Acts, NEW s \in Slots, NEW kind \in Ops,
         NEW label \in PcValues, TakeSlot(a, s, kind, label),
         UNCHANGED <<want, tgt, backVars>>
  PROVE  RequestTypes' /\ CallTypes' /\ lock' \in Acts /\ free' \in Seq(Slots)
<1>1. free \in Seq(Slots) /\ free # <<>> /\ Len(free) \in Nat \ {0}
      /\ free' = SubSeq(free, 1, Len(free) - 1) /\ lock' = a
  BY DEF TakeSlot, TypeOK, RingTypes
<1>2. \A i \in 1 .. Len(free) - 1 : free[i] \in Slots
  BY <1>1
<1>3. free' \in Seq(Slots)
  BY <1>1, <1>2, SubSeqProperties
<1>4. RequestTypes'
  BY DEF TakeSlot, TypeOK, RequestTypes, history
<1>5. CallTypes'
  BY DEF TakeSlot, Goto, TypeOK, CallTypes, backVars
<1> QED BY <1>1, <1>3, <1>4, <1>5

\* ring_get_request keeps the types.
LEMMA GetTypes ==
  ASSUME TypeOK, NEW a \in Acts, ring_get_request(a)
  PROVE  RequestTypes' /\ CallTypes' /\ lock' \in Acts \cup {NoAct} /\ free' \in Seq(Slots)
<1>1. ASSUME NEW s \in Slots, TakeSlot(a, s, want[a], "held"),
             UNCHANGED <<want, tgt, backVars>>
      PROVE  RequestTypes' /\ CallTypes' /\ lock' \in Acts /\ free' \in Seq(Slots)
  <2>1. want[a] \in Ops /\ "held" \in PcValues
    BY DEF TypeOK, CallTypes, PcValues
  <2> QED BY <1>1, <2>1, TakeTypes
<1>2. ASSUME lock' = NoAct, Return(a), UNCHANGED <<free, reqVars, canceled, history>>
      PROVE  RequestTypes' /\ CallTypes' /\ lock' \in Acts \cup {NoAct} /\ free' \in Seq(Slots)
  <2>1. CallTypes'
    BY <1>2, CallMoves DEF TypeOK
  <2> QED BY <1>2, <2>1 DEF TypeOK, RingTypes, RequestTypes, reqVars, history
<1> QED BY <1>1, <1>2 DEF ring_get_request
-----------------------------------------------------------------------------
(* Types *)

\* Every step of a submission preserves the types.
LEMMA SubmitTypes ==
  ASSUME RingInv, NEW a \in Acts, SubmitCall(a) \/ SubmitStep(a)
  PROVE  TypeOK'
<1> USE DEF countVars, reqVars, engineVars, kernelVars, listVars, backVars,
            drainVars, callVars, waitVars, history
<1>0. /\ TypeOK /\ RingTypes /\ RequestTypes /\ EngineTypes /\ QueueTypes
      /\ CallTypes /\ IsInjective(sq)
  BY DEF RingInv, TypeOK, SlotsPartitioned, NoRepeats
<1>1. CASE SubmitCall(a)
  <2>1. CallTypes'
    BY <1>0, <1>1, RingConstants DEF SubmitCall, Goto, CallTypes, PcValues, Ops
  <2> QED BY <1>0, <1>1, <2>1
          DEF SubmitCall, TypeOK, RingTypes, RequestTypes, EngineTypes, QueueTypes
<1>2. CASE SubmitBegin(a)
  <2>1. RequestTypes' /\ CallTypes' /\ lock' \in Acts \cup {NoAct} /\ free' \in Seq(Slots)
    BY <1>0, <1>2, GetTypes DEF SubmitBegin
  <2> QED BY <1>0, <1>2, <2>1
          DEF SubmitBegin, TypeOK, RingTypes, EngineTypes, QueueTypes
<1>3. CASE SubmitBeginFull(a)
  <2>1. /\ sq' \in Seq(Slots) /\ kq' \in Seq(Slots) /\ queued_sqes' \in Nat
        /\ fatal' \in BOOLEAN /\ eventfd' \in BOOLEAN
    BY <1>0, <1>3, FlushEffect DEF SubmitBeginFull, flush_ring_checked
  <2>2. CallTypes' /\ lock' \in Acts \cup {NoAct}
    <3>1. CASE Return(a) /\ UNCHANGED lock
      BY <1>0, <3>1, CallMoves DEF RingTypes
    <3>2. CASE StartDrain(a, "recheck") /\ UNCHANGED <<lock, callVars>>
      <4>1. CallTypes'
        BY <1>0, <3>2, CallMoves DEF callVars
      <4> QED BY <1>0, <3>2, <4>1 DEF RingTypes
    <3>3. CASE lock' = a /\ Goto(a, "recheck") /\ UNCHANGED <<callVars, backVars>>
      BY <1>0, <3>3 DEF Goto, CallTypes, PcValues
    <3> QED BY <1>3, <3>1, <3>2, <3>3 DEF SubmitBeginFull
  <2> QED BY <1>0, <1>3, <2>1, <2>2
          DEF SubmitBeginFull, TypeOK, RingTypes, RequestTypes, EngineTypes, QueueTypes
<1>4. CASE SubmitRecheck(a)
  <2>1. RequestTypes' /\ CallTypes' /\ lock' \in Acts \cup {NoAct} /\ free' \in Seq(Slots)
    <3>1. CASE lock' = NoAct /\ Return(a) /\ UNCHANGED <<free, reqVars, canceled, history>>
      BY <1>0, <3>1, CallMoves DEF RingTypes, RequestTypes
    <3>2. CASE ring_get_request(a)
      BY <1>0, <3>2, GetTypes
    <3> QED BY <1>4, <3>1, <3>2 DEF SubmitRecheck
  <2> QED BY <1>0, <1>4, <2>1
          DEF SubmitRecheck, TypeOK, RingTypes, EngineTypes, QueueTypes
<1>5. CASE RingSubmit(a)
  <2>1. req[a] \in Slots
    BY <1>5 DEF RingSubmit, RingInv, LocalsAgree, Holding
  <2>2. sq' \in Seq(Slots) /\ pending' \in [Slots -> BOOLEAN]
        /\ queued_sqes' \in Nat /\ pending_count' \in Int
    BY <1>0, <1>5, <2>1, AppendProperties, SMTT(40)
       DEF RingSubmit, QueueSqe, RingTypes, RequestTypes, QueueTypes
  <2>3. fixed_inflight' \in [{"file", "buffer"} -> Int]
    BY <1>0, <1>5 DEF RingSubmit, Bump, RingTypes
  <2>4. CallTypes'
    BY <1>0, <1>5 DEF RingSubmit, Goto, CallTypes, PcValues
  <2> QED BY <1>0, <1>5, <2>2, <2>3, <2>4
          DEF RingSubmit, TypeOK, RingTypes, RequestTypes, EngineTypes, QueueTypes
<1>6. CASE SubmitAbort(a)
  <2>1. req[a] \in Slots /\ Puttable(req[a])
    BY <1>6, NoBug DEF SubmitAbort, RingInv, LocalsAgree, Holding, NoBugBranch
  <2>2. <<req[a]>> \in Seq(Slots) /\ \A s \in Range(<<req[a]>>) : Puttable(s)
    BY <2>1 DEF Range
  <2>3. /\ free' \in Seq(Slots) /\ in_pool' \in [Slots -> BOOLEAN]
        /\ op' \in [Slots -> Ops] /\ target' \in [Slots -> Slots \cup {NoSlot}]
        /\ canceled' \subseteq Slots /\ asked' \subseteq Slots /\ aimed' \subseteq Slots
    BY <1>0, <1>6, <2>2, PutEffect DEF SubmitAbort
  <2>4. CallTypes'
    BY <1>0, <1>6, CallMoves DEF SubmitAbort
  <2> QED BY <1>0, <1>6, <2>3, <2>4
          DEF SubmitAbort, TypeOK, RingTypes, RequestTypes, EngineTypes, QueueTypes
<1>7. CASE SubmitEnd(a)
  <2>1. /\ sq' \in Seq(Slots) /\ kq' \in Seq(Slots) /\ queued_sqes' \in Nat
        /\ fatal' \in BOOLEAN /\ eventfd' \in BOOLEAN
    <3>1. CASE flush_ring_checked
      BY <1>0, <3>1, FlushEffect
    <3>2. CASE UNCHANGED <<sq, kq, queued_sqes, fatal, eventfd>>
      BY <1>0, <3>2 DEF RingTypes, EngineTypes, QueueTypes
    <3> QED BY <1>7, <3>1, <3>2 DEF SubmitEnd
  <2>2. fixed_inflight' \in [{"file", "buffer"} -> Int]
    BY <1>0, <1>7 DEF SubmitEnd, Bump, RingTypes
  <2>3. CallTypes'
    BY <1>0, <1>7, CallMoves DEF SubmitEnd
  <2> QED BY <1>0, <1>7, <2>1, <2>2, <2>3
          DEF SubmitEnd, TypeOK, RingTypes, RequestTypes, EngineTypes, QueueTypes
<1> QED BY <1>1, <1>2, <1>3, <1>4, <1>5, <1>6, <1>7 DEF SubmitStep

\* Every step of aura_cancel preserves the types.
LEMMA CancelTypes ==
  ASSUME RingInv, NEW a \in Acts,
         (\E s \in Slots : CancelCall(a, s)) \/ CancelStep(a)
  PROVE  TypeOK'
<1> USE DEF countVars, reqVars, engineVars, kernelVars, listVars, backVars,
            drainVars, callVars, waitVars, history
<1>0. /\ TypeOK /\ RingTypes /\ RequestTypes /\ EngineTypes /\ QueueTypes
      /\ CallTypes /\ IsInjective(sq)
  BY DEF RingInv, TypeOK, SlotsPartitioned, NoRepeats
<1>1. ASSUME NEW s \in Slots, CancelCall(a, s) PROVE TypeOK'
  <2>1. CallTypes' /\ asked' \subseteq Slots
    BY <1>0, <1>1 DEF CancelCall, Goto, CallTypes, RequestTypes, PcValues
  <2> QED BY <1>0, <1>1, <2>1
          DEF CancelCall, TypeOK, RingTypes, RequestTypes, EngineTypes, QueueTypes
<1>2. CASE CancelBegin(a)
  <2>1. RequestTypes' /\ CallTypes' /\ lock' \in Acts \cup {NoAct} /\ free' \in Seq(Slots)
    <3>1. CASE Return(a) /\ UNCHANGED <<lock, free, reqVars, canceled, history>>
      BY <1>0, <3>1, CallMoves DEF RingTypes, RequestTypes
    <3>2. ASSUME NEW s \in Slots, TakeSlot(a, s, "cancel", "cancelheld"),
                 UNCHANGED <<want, tgt, backVars>>
          PROVE  RequestTypes' /\ CallTypes' /\ lock' \in Acts /\ free' \in Seq(Slots)
      <4>1. "cancel" \in Ops /\ "cancelheld" \in PcValues
        BY DEF Ops, PcValues
      <4> QED BY <1>0, <3>2, <4>1, TakeTypes DEF backVars
    <3> QED BY <1>2, <3>1, <3>2 DEF CancelBegin
  <2> QED BY <1>0, <1>2, <2>1
          DEF CancelBegin, TypeOK, RingTypes, EngineTypes, QueueTypes
<1>3. CASE RingSubmitCancel(a)
  <2>1. req[a] \in Slots /\ tgt[a] \in Slots
    BY <1>3 DEF RingSubmitCancel, RingInv, LocalsAgree, Holding
  <2>2. sq' \in Seq(Slots) /\ queued_sqes' \in Nat /\ pending_count' \in Int
    BY <1>0, <1>3, <2>1, AppendProperties
       DEF RingSubmitCancel, QueueSqe, RingTypes, QueueTypes
  <2>3. RequestTypes'
    BY <1>0, <1>3, <2>1 DEF RingSubmitCancel, QueueSqe, RequestTypes
  <2>4. CallTypes'
    BY <1>0, <1>3 DEF RingSubmitCancel, Goto, CallTypes, PcValues
  <2> QED BY <1>0, <1>3, <2>2, <2>3, <2>4
          DEF RingSubmitCancel, TypeOK, RingTypes, EngineTypes, QueueTypes
<1>4. CASE CancelTooLate(a)
  <2>1. req[a] \in Slots /\ Puttable(req[a])
    BY <1>4, NoBug DEF CancelTooLate, RingInv, LocalsAgree, Holding, NoBugBranch
  <2>2. <<req[a]>> \in Seq(Slots) /\ \A s \in Range(<<req[a]>>) : Puttable(s)
    BY <2>1 DEF Range
  <2>3. /\ free' \in Seq(Slots) /\ in_pool' \in [Slots -> BOOLEAN]
        /\ op' \in [Slots -> Ops] /\ target' \in [Slots -> Slots \cup {NoSlot}]
        /\ canceled' \subseteq Slots /\ asked' \subseteq Slots /\ aimed' \subseteq Slots
    BY <1>0, <1>4, <2>2, PutEffect DEF CancelTooLate
  <2>4. CallTypes'
    BY <1>0, <1>4, CallMoves DEF CancelTooLate
  <2> QED BY <1>0, <1>4, <2>3, <2>4
          DEF CancelTooLate, TypeOK, RingTypes, RequestTypes, EngineTypes, QueueTypes
<1>5. CASE CancelEnd(a)
  <2>1. /\ sq' \in Seq(Slots) /\ kq' \in Seq(Slots) /\ queued_sqes' \in Nat
        /\ fatal' \in BOOLEAN /\ eventfd' \in BOOLEAN
    BY <1>0, <1>5, FlushEffect DEF CancelEnd
  <2>2. CallTypes'
    BY <1>0, <1>5, CallMoves DEF CancelEnd
  <2> QED BY <1>0, <1>5, <2>1, <2>2
          DEF CancelEnd, TypeOK, RingTypes, RequestTypes, EngineTypes, QueueTypes
<1> QED BY <1>1, <1>2, <1>3, <1>4, <1>5 DEF CancelStep

\* Every step of a completion drain preserves the types.
LEMMA DrainTypes ==
  ASSUME RingInv, NEW a \in Acts, DrainStep(a)
  PROVE  TypeOK'
<1> USE DEF countVars, reqVars, engineVars, kernelVars, listVars, backVars,
            drainVars, callVars, waitVars, history
<1>0. /\ TypeOK /\ RingTypes /\ RequestTypes /\ EngineTypes /\ QueueTypes
      /\ CallTypes /\ IsInjective(sq)
  BY DEF RingInv, TypeOK, SlotsPartitioned, NoRepeats
<1>1. CASE TakeBatch(a)
  <2> DEFINE n == IF Len(cq) < PollBatch THEN Len(cq) ELSE PollBatch
  <2>1. cq \in Seq(Slots) /\ n \in 0 .. Len(cq) /\ IsInjective(cq)
    BY <1>0, RingConstants DEF QueueTypes, RingInv, SlotsPartitioned, NoRepeats
  <2>2. SubSeq(cq, 1, n) \in Seq(Slots) /\ SubSeq(cq, n + 1, Len(cq)) \in Seq(Slots)
    <3> HIDE DEF n
    <3> QED BY <2>1, SplitRange
  <2>3. CASE n = 0 /\ DrainReturn(a) /\ UNCHANGED <<cq, batch>>
    <3>1. CallTypes'
      <4>1. CASE Return(a)
        BY <1>0, <4>1, CallMoves
      <4>2. CASE ~Return(a)
        BY <1>0, <2>3, <4>2 DEF DrainReturn, Goto, CallTypes, PcValues
      <4> QED BY <4>1, <4>2
    <3> QED BY <1>0, <1>1, <2>3, <3>1
            DEF TakeBatch, TypeOK, RingTypes, RequestTypes, EngineTypes, QueueTypes
  <2>4. CASE /\ n > 0
             /\ batch' = [batch EXCEPT ![a] = SubSeq(cq, 1, n)]
             /\ cq' = SubSeq(cq, n + 1, Len(cq))
             /\ got' = [got EXCEPT ![a] = TRUE]
             /\ Goto(a, "process")
             /\ UNCHANGED <<after, callVars>>
    <3>1. CallTypes'
      BY <1>0, <2>4 DEF Goto, CallTypes, PcValues
    <3>2. QueueTypes'
      <4> HIDE DEF n
      <4> QED BY <1>0, <1>1, <2>2, <2>4 DEF TakeBatch, QueueTypes
    <3> QED BY <1>0, <1>1, <3>1, <3>2
            DEF TakeBatch, TypeOK, RingTypes, RequestTypes, EngineTypes
  <2> QED BY <1>1, <2>3, <2>4 DEF TakeBatch
<1>2. CASE ProcessCompletion(a)
  <2> DEFINE s == Head(batch[a])
  <2>1. batch[a] \in Seq(Slots) /\ batch[a] # <<>> /\ retire[a] \in Seq(Slots)
    BY <1>0, <1>2 DEF ProcessCompletion, QueueTypes
  <2>2. s \in Slots /\ Tail(batch[a]) \in Seq(Slots)
    BY <2>1, HeadTailProperties
  <2>3. Append(retire[a], s) \in Seq(Slots)
    BY <2>1, <2>2, AppendProperties
  <2> HIDE DEF s
  <2>4. QueueTypes'
    BY <1>0, <1>2, <2>2, <2>3 DEF ProcessCompletion, QueueTypes, s
  <2>5. CallTypes'
    BY <1>0, <1>2 DEF ProcessCompletion, Goto, CallTypes, PcValues
  <2>6. RequestTypes'
    BY <1>0, <1>2, <2>2 DEF ProcessCompletion, RequestTypes, s
  <2>7. fixed_inflight' \in [{"file", "buffer"} -> Int]
    <3>1. fixed_inflight \in [{"file", "buffer"} -> Int]
      BY <1>0 DEF RingTypes
    <3>2. \/ fixed_inflight' = fixed_inflight
          \/ fixed_inflight' = [k \in DOMAIN fixed_inflight |->
                 fixed_inflight[k] - (IF op[Head(batch[a])] = k THEN 1 ELSE 0)]
      BY <1>2 DEF ProcessCompletion
    <3> QED BY <3>1, <3>2
  <2> QED BY <1>0, <1>2, <2>4, <2>5, <2>6, <2>7
          DEF ProcessCompletion, TypeOK, RingTypes, EngineTypes
<1>3. CASE CallbackReturn(a)
  <2>1. CallTypes'
    BY <1>0, <1>3 DEF CallbackReturn, Goto, CallTypes, PcValues
  <2> QED BY <1>0, <1>3, <2>1
          DEF CallbackReturn, TypeOK, RingTypes, RequestTypes, EngineTypes, QueueTypes
<1>4. CASE RetireBatch(a)
  <2>1. retire[a] \in Seq(Slots) /\ \A s \in Range(retire[a]) : Puttable(s)
    BY <1>0, NoBug DEF QueueTypes, NoBugBranch
  <2>2. /\ free' \in Seq(Slots) /\ in_pool' \in [Slots -> BOOLEAN]
        /\ op' \in [Slots -> Ops] /\ target' \in [Slots -> Slots \cup {NoSlot}]
        /\ canceled' \subseteq Slots /\ asked' \subseteq Slots /\ aimed' \subseteq Slots
    BY <1>0, <1>4, <2>1, PutEffect DEF RetireBatch
  <2>3. pending_count' \in Int
    BY <1>0, <1>4, <2>1 DEF RetireBatch, RingTypes
  <2>4. CallTypes'
    BY <1>0, <1>4 DEF RetireBatch, Goto, CallTypes, PcValues
  <2>5. QueueTypes'
    BY <1>0, <1>4, EmptySeq DEF RetireBatch, QueueTypes
  <2> QED BY <1>0, <1>4, <2>2, <2>3, <2>4, <2>5
          DEF RetireBatch, TypeOK, RingTypes, RequestTypes, EngineTypes
<1> QED BY <1>1, <1>2, <1>3, <1>4 DEF DrainStep

\* The event loop's outermost call is an activation.
LEMMA LoopAct == loopAct \in Acts
BY RingConstants DEF loopAct, Acts

\* Every step of aura_flush, aura_poll, aura_wait and the shutdown signal
\* preserves the types.
LEMMA LoopTypes ==
  ASSUME RingInv,
         (\E a \in Acts : FlushCall(a)) \/ PollCall \/ WaitCall \/ LoopStep \/ Shutdown
  PROVE  TypeOK'
<1> USE DEF countVars, reqVars, engineVars, kernelVars, listVars, backVars,
            drainVars, callVars, waitVars, history
<1>0. /\ TypeOK /\ RingTypes /\ RequestTypes /\ EngineTypes /\ QueueTypes
      /\ CallTypes /\ IsInjective(sq)
  BY DEF RingInv, TypeOK, SlotsPartitioned, NoRepeats
<1>1. ASSUME NEW a \in Acts, FlushCall(a) PROVE TypeOK'
  <2>1. /\ sq' \in Seq(Slots) /\ kq' \in Seq(Slots) /\ queued_sqes' \in Nat
        /\ fatal' \in BOOLEAN /\ eventfd' \in BOOLEAN
    BY <1>0, <1>1, FlushEffect DEF FlushCall
  <2> QED BY <1>0, <1>1, <2>1
          DEF FlushCall, TypeOK, RingTypes, RequestTypes, EngineTypes, QueueTypes, CallTypes
<1>2. CASE PollFlush \/ WakeFlush
  <2>1. /\ sq' \in Seq(Slots) /\ kq' \in Seq(Slots) /\ queued_sqes' \in Nat
        /\ fatal' \in BOOLEAN /\ eventfd' \in BOOLEAN
    BY <1>0, <1>2, FlushEffect DEF PollFlush, WakeFlush
  <2>2. CallTypes'
    BY <1>0, <1>2, CallMoves, LoopAct DEF PollFlush, WakeFlush
  <2> QED BY <1>0, <1>2, <2>1, <2>2
          DEF PollFlush, WakeFlush, TypeOK, RingTypes, RequestTypes, EngineTypes, QueueTypes
<1>3. CASE WaitFlush
  <2>1. /\ sq' \in Seq(Slots) /\ kq' \in Seq(Slots) /\ queued_sqes' \in Nat
        /\ fatal' \in BOOLEAN /\ eventfd' \in BOOLEAN
    BY <1>0, <1>3, FlushEffect DEF WaitFlush, flush_ring_checked
  <2>2. CallTypes'
    BY <1>0, <1>3, CallMoves, LoopAct DEF WaitFlush
  <2>3. w_fatal' \in BOOLEAN /\ w_pending' \in BOOLEAN
    <3>1. w_fatal' \in BOOLEAN
      BY <1>0, <1>3, Zenon DEF WaitFlush, EngineTypes
    <3>2. w_pending' = (pending_count > 0)
      BY <1>3 DEF WaitFlush
    <3>3. w_pending' \in BOOLEAN
      BY <3>2, SMT
    <3> QED BY <3>1, <3>3
  <2> QED BY <1>0, <1>3, <2>1, <2>2, <2>3
          DEF WaitFlush, TypeOK, RingTypes, RequestTypes, EngineTypes, QueueTypes
<1>4. CASE PollCall \/ WaitCall \/ WaitDrainFd \/ WaitWake
  <2>1. CallTypes'
    BY <1>0, <1>4, LoopAct
       DEF PollCall, WaitCall, WaitDrainFd, WaitWake, Goto, CallTypes, PcValues
  <2> QED BY <1>0, <1>4, <2>1
          DEF PollCall, WaitCall, WaitDrainFd, WaitWake, TypeOK, RingTypes, RequestTypes, EngineTypes, QueueTypes
<1>5. CASE WaitReturn
  <2>1. CallTypes'
    BY <1>0, <1>5, CallMoves, LoopAct DEF WaitReturn
  <2> QED BY <1>0, <1>5, <2>1
          DEF WaitReturn, TypeOK, RingTypes, RequestTypes, EngineTypes, QueueTypes
<1>6. CASE WaitBlock
  <2>1. CallTypes'
    BY <1>0, <1>6, LoopAct DEF WaitBlock, Goto, CallTypes, PcValues
  <2> QED BY <1>0, <1>6, <2>1
          DEF WaitBlock, TypeOK, RingTypes, RequestTypes, EngineTypes, QueueTypes
<1>7. CASE WaitTimeout
  <2>1. CallTypes'
    BY <1>0, <1>7, CallMoves, LoopAct DEF WaitTimeout
  <2> QED BY <1>0, <1>7, <2>1
          DEF WaitTimeout, TypeOK, RingTypes, RequestTypes, EngineTypes, QueueTypes
<1>8. CASE Shutdown
  BY <1>0, <1>8 DEF Shutdown, TypeOK, RingTypes, RequestTypes, EngineTypes, QueueTypes, CallTypes
<1> QED BY <1>1, <1>2, <1>3, <1>4, <1>5, <1>6, <1>7, <1>8 DEF LoopStep

\* Every step of the kernel preserves the types.
LEMMA KernelTypes ==
  ASSUME RingInv, Kernel
  PROVE  TypeOK'
<1> USE DEF countVars, reqVars, engineVars, kernelVars, listVars, backVars,
            drainVars, callVars, waitVars, history
<1>0. /\ TypeOK /\ RingTypes /\ RequestTypes /\ EngineTypes /\ QueueTypes
      /\ CallTypes /\ IsInjective(sq)
  BY DEF RingInv, TypeOK, SlotsPartitioned, NoRepeats
<1>1. cq \in Seq(Slots) /\ kq \in Seq(Slots) /\ inflight \subseteq Slots
  BY <1>0 DEF QueueTypes
<1>2. CASE KernelIssue
  <2> DEFINE s == Head(kq)
  <2>1. s \in Slots /\ Tail(kq) \in Seq(Slots) /\ kq' = Tail(kq)
    BY <1>1, <1>2, HeadTailProperties DEF KernelIssue
  <2>2. \A t \in inflight : <<s>> \in Seq(Slots) /\ <<t, s>> \in Seq(Slots)
    BY <1>1, <2>1
  <2>3. <<s>> \in Seq(Slots)
    BY <2>1
  <2>4. /\ inflight' \subseteq Slots /\ canceled' \subseteq Slots
        /\ eventfd' \in BOOLEAN /\ cq' \in Seq(Slots)
    <3>1. CASE inflight' = inflight \cup {s} /\ UNCHANGED <<cq, eventfd, canceled>>
      BY <1>0, <1>1, <2>1, <3>1 DEF RequestTypes, EngineTypes
    <3>2. CASE Post(<<s>>) /\ UNCHANGED <<inflight, canceled>>
      BY <1>0, <1>1, <2>3, <3>2, ConcatProperties DEF Post, RequestTypes
    <3>3. CASE /\ target[s] \in inflight
               /\ inflight' = inflight \ {target[s]}
               /\ canceled' = canceled \cup {target[s]}
               /\ Post(<<target[s], s>>)
      <4>1. <<target[s], s>> \in Seq(Slots)
        BY <2>2, <3>3
      <4> QED BY <1>0, <1>1, <3>3, <4>1, ConcatProperties DEF Post, RequestTypes
    <3> QED BY <1>2, <3>1, <3>2, <3>3 DEF KernelIssue
  <2> HIDE DEF s
  <2> QED BY <1>0, <1>2, <2>1, <2>4
          DEF KernelIssue, TypeOK, RingTypes, RequestTypes, EngineTypes, QueueTypes, CallTypes
<1>3. ASSUME NEW s \in Slots, KernelComplete(s) PROVE TypeOK'
  <2>1. <<s>> \in Seq(Slots)
    OBVIOUS
  <2>2. cq' \in Seq(Slots)
    BY <1>1, <1>3, <2>1, ConcatProperties DEF KernelComplete, Post
  <2> QED BY <1>0, <1>3, <2>2
          DEF KernelComplete, Post, TypeOK, RingTypes, RequestTypes, EngineTypes, QueueTypes, CallTypes
<1> QED BY <1>2, <1>3 DEF Kernel
-----------------------------------------------------------------------------
(* Slots *)

\* The slots in the hands of submitters.
HeldSame == \A b \in Acts : At'[Held(b)] = At[Held(b)]

\* A step that at most publishes SQEs keeps the slots conserved.
LEMMA FlushSlots ==
  ASSUME RingInv, HeldSame,
         flush_ring_checked \/ UNCHANGED <<sq, kq>>,
         UNCHANGED <<free, in_pool, pending, inflight, cq, listVars>>
  PROVE  SlotsPartitioned' /\ FlagsAgree'
<1>0. /\ TypeOK /\ OnePlace(At) /\ NoRepeats /\ FlagsAgree
      /\ sq \in Seq(Slots) /\ kq \in Seq(Slots) /\ IsInjective(sq) /\ IsInjective(kq)
  BY DEF RingInv, SlotsPartitioned, NoRepeats, TypeOK, QueueTypes
<1>1. PICK k \in 0 .. Len(sq) : /\ sq' = SubSeq(sq, k + 1, Len(sq))
                                /\ kq' = kq \o SubSeq(sq, 1, k)
  <2>1. CASE flush_ring_checked
    BY <1>0, <2>1, FlushEffect
  <2>2. CASE UNCHANGED <<sq, kq>>
    <3>1. sq = SubSeq(sq, 0 + 1, Len(sq)) /\ kq = kq \o SubSeq(sq, 1, 0)
      BY <1>0, SubSeqFull, SubSeqEmpty, ConcatEmptySeq
    <3>2. 0 \in 0 .. Len(sq)
      BY <1>0
    <3> QED BY <2>2, <3>1, <3>2, Zenon
  <2> QED BY <2>1, <2>2
<1> DEFINE u == SubSeq(sq, 1, k)
<1>2. /\ u \in Seq(Slots) /\ IsInjective(u) /\ IsInjective(sq')
      /\ Range(u) \subseteq Range(sq) /\ Range(sq') = Range(sq) \ Range(u)
  BY <1>0, <1>1, SplitRange
<1>3. kq' = kq \o u
  BY <1>1
<1> HIDE DEF u
<1>4. Range(kq) \cap Range(u) = {}
  <2>1. \A s \in Range(u) : s \in Slots /\ s \in At[Sq]
    BY <1>0, <1>2, AtValues, RangeOfSeq
  <2> QED BY <1>0, <2>1, Apart, AtValues, PlaceNames, PlacesDiffer
<1>5. Range(kq') = Range(kq) \cup Range(u) /\ IsInjective(kq')
  BY <1>0, <1>2, <1>3, <1>4, ConcatRange
<1>6. OnePlace(At')
  <2>1. /\ Range(u) \subseteq At[Sq] /\ At'[Sq] = At[Sq] \ Range(u)
        /\ At'[Kq] = At[Kq] \cup Range(u)
    BY <1>2, <1>5, AtValues, AtValuesNext
  <2>2. \A r \in Places \ {Sq, Kq} : At'[r] = At[r]
    <3>1. At'[Pool] = At[Pool] /\ At'[InFlight] = At[InFlight] /\ At'[Cq] = At[Cq]
      BY AtValues, AtValuesNext
    <3>2. \A b \in Acts : /\ At'[Held(b)] = At[Held(b)]
                          /\ At'[Batch(b)] = At[Batch(b)]
                          /\ At'[Retire(b)] = At[Retire(b)]
      BY AtValues, AtValuesNext DEF HeldSame, listVars
    <3> QED BY <3>1, <3>2, PlaceNames
  <2> QED BY <1>0, <2>1, <2>2, MoveSlots, PlaceNames, PlacesDiffer
<1>7. NoRepeats'
  BY <1>0, <1>2, <1>5 DEF NoRepeats, listVars
<1>8. FlagsAgree'
  BY <1>0, <1>2, <1>5 DEF FlagsAgree, listVars
<1> QED BY <1>6, <1>7, <1>8 DEF SlotsPartitioned

\* What the lemmas on slots start from.
LEMMA SlotFacts ==
  ASSUME RingInv
  PROVE  /\ TypeOK /\ OnePlace(At) /\ NoRepeats /\ FlagsAgree /\ LocalsAgree
         /\ free \in Seq(Slots) /\ sq \in Seq(Slots) /\ kq \in Seq(Slots)
         /\ cq \in Seq(Slots) /\ inflight \subseteq Slots
         /\ batch \in [Acts -> Seq(Slots)] /\ retire \in [Acts -> Seq(Slots)]
         /\ in_pool \in [Slots -> BOOLEAN] /\ pending \in [Slots -> BOOLEAN]
         /\ pc \in [Acts -> PcValues] /\ req \in [Acts -> Slots \cup {NoSlot}]
         /\ IsInjective(free) /\ IsInjective(sq) /\ IsInjective(kq) /\ IsInjective(cq)
         /\ \A a \in Acts : IsInjective(batch[a]) /\ IsInjective(retire[a])
BY DEF RingInv, SlotsPartitioned, NoRepeats, TypeOK, RingTypes, QueueTypes,
       RequestTypes, CallTypes

\* A slot that is at some place is at none of the others.
LEMMA OnlyAt ==
  ASSUME RingInv, NEW s \in Slots, NEW p \in Places, s \in At[p]
  PROVE  /\ p # Pool => s \notin Range(free)
         /\ p # Sq => s \notin Range(sq)
         /\ p # Kq => s \notin Range(kq)
         /\ p # InFlight => s \notin inflight
         /\ p # Cq => s \notin Range(cq)
         /\ \A b \in Acts : /\ p # Batch(b) => s \notin Range(batch[b])
                            /\ p # Retire(b) => s \notin Range(retire[b])
                            /\ p # Held(b) /\ pc[b] \in Holding => s # req[b]
<1>1. \A q \in Places : q # p => s \notin At[q]
  BY SlotFacts, Apart
<1>2. /\ p # Pool => s \notin Range(free)
      /\ p # Sq => s \notin Range(sq)
      /\ p # Kq => s \notin Range(kq)
      /\ p # InFlight => s \notin inflight
      /\ p # Cq => s \notin Range(cq)
  BY <1>1, AtValues, PlaceNames
<1>3. ASSUME NEW b \in Acts
      PROVE  /\ p # Batch(b) => s \notin Range(batch[b])
             /\ p # Retire(b) => s \notin Range(retire[b])
             /\ p # Held(b) /\ pc[b] \in Holding => s # req[b]
  <2>1. /\ At[Held(b)] = IF pc[b] \in Holding THEN {req[b]} ELSE {}
        /\ At[Batch(b)] = Range(batch[b]) /\ At[Retire(b)] = Range(retire[b])
    BY AtValues
  <2>2. Held(b) \in Places /\ Batch(b) \in Places /\ Retire(b) \in Places
    BY PlaceNames
  <2> QED BY <1>1, <2>1, <2>2
<1> QED BY <1>2, <1>3

\* A place whose variables a step leaves alone keeps its slots.
LEMMA FrameAt ==
  /\ free' = free => At'[Pool] = At[Pool]
  /\ sq' = sq => At'[Sq] = At[Sq]
  /\ kq' = kq => At'[Kq] = At[Kq]
  /\ inflight' = inflight => At'[InFlight] = At[InFlight]
  /\ cq' = cq => At'[Cq] = At[Cq]
  /\ \A b \in Acts :
       /\ pc'[b] = pc[b] /\ req'[b] = req[b] => At'[Held(b)] = At[Held(b)]
       /\ batch'[b] = batch[b] => At'[Batch(b)] = At[Batch(b)]
       /\ retire'[b] = retire[b] => At'[Retire(b)] = At[Retire(b)]
<1>1. ASSUME NEW b \in Acts
      PROVE  /\ pc'[b] = pc[b] /\ req'[b] = req[b] => At'[Held(b)] = At[Held(b)]
             /\ batch'[b] = batch[b] => At'[Batch(b)] = At[Batch(b)]
             /\ retire'[b] = retire[b] => At'[Retire(b)] = At[Retire(b)]
  <2>1. /\ At[Held(b)] = IF pc[b] \in Holding THEN {req[b]} ELSE {}
        /\ At[Batch(b)] = Range(batch[b]) /\ At[Retire(b)] = Range(retire[b])
    BY AtValues
  <2>2. /\ At'[Held(b)] = IF pc'[b] \in Holding THEN {req'[b]} ELSE {}
        /\ At'[Batch(b)] = Range(batch'[b]) /\ At'[Retire(b)] = Range(retire'[b])
    BY AtValuesNext
  <2> QED BY <2>1, <2>2
<1> QED BY <1>1, AtValues, AtValuesNext

\* A step that moves slots between two places and leaves the others alone.
LEMMA MoveStep ==
  ASSUME RingInv, NEW p \in Places, NEW q \in Places, p # q, NEW S, S \subseteq At[p],
         At'[p] = At[p] \ S, At'[q] = At[q] \cup S,
         \A x \in {Pool, Sq, Kq, InFlight, Cq} : x # p /\ x # q => At'[x] = At[x],
         \A b \in Acts : \A x \in {Held(b), Batch(b), Retire(b)} :
           x # p /\ x # q => At'[x] = At[x]
  PROVE  OnePlace(At')
<1>1. \A r \in Places \ {p, q} : At'[r] = At[r]
  BY PlaceNames
<1>2. OnePlace(At)
  BY SlotFacts
<1> QED BY <1>1, <1>2, MoveSlots

\* ring_get_request takes the slot from the free stack alone.
LEMMA TakeSlots ==
  ASSUME RingInv, NEW a \in Acts, NEW s \in Slots, NEW kind, NEW label \in Holding,
         TakeSlot(a, s, kind, label), pc[a] \notin Holding,
         UNCHANGED <<sq, kq, inflight, cq, listVars>>
  PROVE  SlotsPartitioned' /\ FlagsAgree'
<1>1. /\ free # <<>> /\ s = free[Len(free)]
      /\ free' = SubSeq(free, 1, Len(free) - 1)
      /\ in_pool' = [in_pool EXCEPT ![s] = FALSE]
      /\ pending' = [pending EXCEPT ![s] = FALSE]
      /\ req' = [req EXCEPT ![a] = s] /\ pc' = [pc EXCEPT ![a] = label]
  BY DEF TakeSlot, Goto
<1>2. s \in Range(free) /\ Range(free') = Range(free) \ {s} /\ IsInjective(free')
  BY <1>1, SlotFacts, FrontRange
<1>3. /\ pc'[a] = label /\ req'[a] = s
      /\ \A b \in Acts \ {a} : pc'[b] = pc[b] /\ req'[b] = req[b]
  BY <1>1, SlotFacts
<1>4. OnePlace(At')
  <2>1. /\ {s} \subseteq At[Pool] /\ At'[Pool] = At[Pool] \ {s}
        /\ At'[Held(a)] = At[Held(a)] \cup {s}
    BY <1>2, <1>3, AtValues, AtValuesNext
  <2>2. At'[Sq] = At[Sq] /\ At'[Kq] = At[Kq] /\ At'[InFlight] = At[InFlight] /\ At'[Cq] = At[Cq]
    BY FrameAt
  <2>3. \A b \in Acts : At'[Batch(b)] = At[Batch(b)] /\ At'[Retire(b)] = At[Retire(b)]
    BY FrameAt DEF listVars
  <2>4. \A b \in Acts : b # a => At'[Held(b)] = At[Held(b)]
    BY <1>3, FrameAt
  <2>5. Pool \in Places /\ Held(a) \in Places /\ Pool # Held(a)
    BY PlaceNames, PlacesDiffer
  <2>6. \A x \in {Pool, Sq, Kq, InFlight, Cq} : x # Pool /\ x # Held(a) => At'[x] = At[x]
    BY <2>2
  <2>7. \A b \in Acts : \A x \in {Held(b), Batch(b), Retire(b)} :
          x # Pool /\ x # Held(a) => At'[x] = At[x]
    BY <2>3, <2>4
  <2> QED BY <2>1, <2>5, <2>6, <2>7, MoveStep
<1>5. NoRepeats'
  BY <1>2, SlotFacts DEF NoRepeats, listVars
<1>6. FlagsAgree'
  <2>1. s \in At[Pool]
    BY <1>2, AtValues
  <2>2. /\ s \notin Range(sq) /\ s \notin Range(kq) /\ s \notin inflight
        /\ s \notin Range(cq) /\ \A b \in Acts : s \notin Range(batch[b])
    BY <2>1, OnlyAt, PlaceNames, PlacesDiffer
  <2> QED BY <1>1, <1>2, <2>2, SlotFacts DEF FlagsAgree, listVars
<1> QED BY <1>4, <1>5, <1>6 DEF SlotsPartitioned

\* Writing an SQE moves the slot from its holder to the SQ.
LEMMA QueueSlots ==
  ASSUME RingInv, NEW a \in Acts, pc[a] \in Holding, QueueSqe(req[a]),
         NEW label, label \notin Holding, Goto(a, label),
         UNCHANGED <<req, free, in_pool, kq, inflight, cq, listVars>>
  PROVE  SlotsPartitioned' /\ FlagsAgree'
<1> DEFINE s == req[a]
<1>1. s \in Slots /\ s \in At[Held(a)] /\ At[Held(a)] = {s}
  BY SlotFacts, AtValues DEF LocalsAgree
<1>2. sq' = Append(sq, s) /\ pending' = [pending EXCEPT ![s] = TRUE]
  BY DEF QueueSqe
<1>3. /\ s \notin Range(free) /\ s \notin Range(sq)
  BY <1>1, OnlyAt, PlaceNames, PlacesDiffer
<1>4. pc'[a] = label /\ \A b \in Acts \ {a} : pc'[b] = pc[b]
  BY SlotFacts DEF Goto
<1>5. Range(sq') = Range(sq) \cup {s} /\ IsInjective(sq')
  BY <1>1, <1>2, <1>3, SlotFacts, AppendRange
<1> HIDE DEF s
<1>6. OnePlace(At')
  <2>1. /\ {s} \subseteq At[Held(a)] /\ At'[Held(a)] = At[Held(a)] \ {s}
        /\ At'[Sq] = At[Sq] \cup {s}
    BY <1>1, <1>4, <1>5, AtValues, AtValuesNext
  <2>2. At'[Pool] = At[Pool] /\ At'[Kq] = At[Kq] /\ At'[InFlight] = At[InFlight] /\ At'[Cq] = At[Cq]
    BY FrameAt
  <2>3. \A b \in Acts : At'[Batch(b)] = At[Batch(b)] /\ At'[Retire(b)] = At[Retire(b)]
    BY FrameAt DEF listVars
  <2>4. \A b \in Acts : b # a => At'[Held(b)] = At[Held(b)]
    BY <1>4, FrameAt
  <2>5. Held(a) \in Places /\ Sq \in Places /\ Held(a) # Sq
    BY PlaceNames, PlacesDiffer
  <2>6. \A x \in {Pool, Sq, Kq, InFlight, Cq} : x # Held(a) /\ x # Sq => At'[x] = At[x]
    BY <2>2
  <2>7. \A b \in Acts : \A x \in {Held(b), Batch(b), Retire(b)} :
          x # Held(a) /\ x # Sq => At'[x] = At[x]
    BY <2>3, <2>4
  <2> QED BY <2>1, <2>5, <2>6, <2>7, MoveStep
<1>7. NoRepeats'
  BY <1>5, SlotFacts DEF NoRepeats, listVars
<1>8. FlagsAgree'
  BY <1>1, <1>2, <1>5, SlotFacts DEF FlagsAgree, listVars
<1> QED BY <1>6, <1>7, <1>8 DEF SlotsPartitioned

\* ring_put_request moves slots from a holder, or from a retired batch, to
\* the free stack.
LEMMA PutSlots ==
  ASSUME RingInv, NEW p \in Places, p # Pool, p # Sq, p # Kq, p # InFlight, p # Cq,
         \A b \in Acts : p # Batch(b),
         NEW slots \in Seq(Slots), IsInjective(slots), Range(slots) = At[p],
         \A s \in Range(slots) : Puttable(s), ring_put_requests(slots),
         At'[p] = {},
         \A b \in Acts : \A x \in {Held(b), Retire(b)} : x # p => At'[x] = At[x],
         \A b \in Acts : IsInjective(retire'[b]),
         UNCHANGED <<pending, sq, kq, inflight, cq, batch>>
  PROVE  SlotsPartitioned' /\ FlagsAgree'
<1>1. \A s \in Range(slots) :
        /\ s \in Slots /\ s \notin Range(free) /\ s \notin Range(sq)
        /\ s \notin Range(kq) /\ s \notin inflight /\ s \notin Range(cq)
        /\ \A b \in Acts : s \notin Range(batch[b])
  <2> SUFFICES ASSUME NEW s \in Range(slots)
               PROVE  /\ s \in Slots /\ s \notin Range(free) /\ s \notin Range(sq)
                      /\ s \notin Range(kq) /\ s \notin inflight /\ s \notin Range(cq)
                      /\ \A b \in Acts : s \notin Range(batch[b])
    OBVIOUS
  <2>1. s \in Slots /\ s \in At[p]
    BY RangeOfSeq
  <2> QED BY <2>1, OnlyAt
<1>2. /\ free' = free \o slots
      /\ in_pool' = [s \in Slots |-> in_pool[s] \/ s \in Range(slots)]
  BY SlotFacts, PutEffect
<1>3. Range(free') = Range(free) \cup Range(slots) /\ IsInjective(free')
  <2>1. free \in Seq(Slots) /\ IsInjective(free)
    BY SlotFacts
  <2>2. Range(free) \cap Range(slots) = {}
    BY <1>1
  <2> QED BY <1>2, <2>1, <2>2, ConcatRange
<1>4. OnePlace(At')
  <2>1. At'[p] = At[p] \ Range(slots) /\ At'[Pool] = At[Pool] \cup Range(slots)
    BY <1>3, AtValues, AtValuesNext
  <2>2. /\ At'[Sq] = At[Sq] /\ At'[Kq] = At[Kq]
        /\ At'[InFlight] = At[InFlight] /\ At'[Cq] = At[Cq]
    BY FrameAt
  <2>3. \A x \in {Pool, Sq, Kq, InFlight, Cq} : x # p /\ x # Pool => At'[x] = At[x]
    BY <2>2
  <2>4. \A b \in Acts : At'[Batch(b)] = At[Batch(b)]
    BY FrameAt
  <2>5. \A b \in Acts : \A x \in {Held(b), Batch(b), Retire(b)} :
          x # p /\ x # Pool => At'[x] = At[x]
    BY <2>4
  <2>6. Pool \in Places
    BY PlaceNames
  <2> QED BY <2>1, <2>3, <2>5, <2>6, MoveStep, ZenonT(40)
<1>5. NoRepeats'
  BY <1>3, SlotFacts DEF NoRepeats
<1>6. FlagsAgree'
  BY <1>1, <1>2, <1>3, SlotFacts DEF FlagsAgree
<1> QED BY <1>4, <1>5, <1>6 DEF SlotsPartitioned

\* Giving a held slot back unused.
LEMMA AbortSlots ==
  ASSUME RingInv, NEW a \in Acts, pc[a] \in Holding, ring_put_requests(<<req[a]>>),
         Return(a), UNCHANGED <<pending, sq, kq, inflight, cq, listVars>>
  PROVE  SlotsPartitioned' /\ FlagsAgree'
<1>1. req[a] \in Slots /\ At[Held(a)] = {req[a]} /\ Puttable(req[a])
  BY SlotFacts, AtValues, NoBug DEF LocalsAgree, NoBugBranch
<1>2. /\ <<req[a]>> \in Seq(Slots) /\ Range(<<req[a]>>) = {req[a]}
      /\ IsInjective(<<req[a]>>)
  BY <1>1, ShortRange
<1>3. pc'[a] = "idle" /\ \A b \in Acts : b # a => pc'[b] = pc[b] /\ req'[b] = req[b]
  BY SlotFacts DEF Return, Goto
<1>4. At'[Held(a)] = {}
  BY <1>3, AtValuesNext DEF Holding
<1>5. \A b \in Acts : \A x \in {Held(b), Retire(b)} : x # Held(a) => At'[x] = At[x]
  BY <1>3, FrameAt DEF listVars
<1>6. \A b \in Acts : IsInjective(retire'[b])
  BY SlotFacts DEF listVars
<1>7. /\ Held(a) \in Places /\ Held(a) # Pool /\ Held(a) # Sq /\ Held(a) # Kq
      /\ Held(a) # InFlight /\ Held(a) # Cq /\ \A b \in Acts : Held(a) # Batch(b)
  BY PlaceNames, PlacesDiffer
<1>8. UNCHANGED <<pending, sq, kq, inflight, cq, batch>>
  BY DEF listVars
<1>9. \A s \in Range(<<req[a]>>) : Puttable(s)
  BY <1>1, <1>2
<1> DEFINE slots == <<req[a]>>
<1>10. slots \in Seq(Slots) /\ Range(slots) = At[Held(a)] /\ IsInjective(slots)
       /\ ring_put_requests(slots) /\ \A s \in Range(slots) : Puttable(s)
  BY <1>1, <1>2, <1>9
<1> HIDE DEF slots
<1> QED BY <1>4, <1>5, <1>6, <1>7, <1>8, <1>10, PutSlots

\* ring_retire_batch gives a batch back.
LEMMA RetireSlots ==
  ASSUME RingInv, NEW a \in Acts, RetireBatch(a)
  PROVE  SlotsPartitioned' /\ FlagsAgree'
<1>1. /\ retire[a] \in Seq(Slots) /\ IsInjective(retire[a])
      /\ Range(retire[a]) = At[Retire(a)] /\ \A s \in Range(retire[a]) : Puttable(s)
  BY SlotFacts, AtValues, NoBug DEF NoBugBranch
<1>2. /\ ring_put_requests(retire[a]) /\ retire' = [retire EXCEPT ![a] = <<>>]
      /\ pc[a] = "process" /\ pc' = [pc EXCEPT ![a] = "drain"] /\ req' = req
      /\ UNCHANGED <<pending, sq, kq, inflight, cq, batch>>
  BY DEF RetireBatch, Goto, callVars
<1>3. retire'[a] = <<>> /\ \A b \in Acts : b # a => retire'[b] = retire[b]
  BY <1>2, SlotFacts
<1>4. Range(retire'[a]) = {} /\ IsInjective(retire'[a])
  BY <1>3 DEF Range, IsInjective
<1>5. At'[Retire(a)] = {}
  BY <1>4, AtValuesNext
<1>6. \A b \in Acts : At'[Held(b)] = At[Held(b)]
  <2> SUFFICES ASSUME NEW b \in Acts PROVE At'[Held(b)] = At[Held(b)]
    OBVIOUS
  <2>1. CASE b = a
    BY <1>2, <2>1, SlotFacts, AtValues, AtValuesNext DEF Holding
  <2>2. CASE b # a
    BY <1>2, <2>2, SlotFacts, FrameAt
  <2> QED BY <2>1, <2>2
<1>7. \A b \in Acts : b # a => At'[Retire(b)] = At[Retire(b)]
  BY <1>3, FrameAt
<1>8. \A b \in Acts : \A x \in {Held(b), Retire(b)} : x # Retire(a) => At'[x] = At[x]
  BY <1>6, <1>7
<1>9. \A b \in Acts : IsInjective(retire'[b])
  BY <1>3, <1>4, SlotFacts
<1>10. /\ Retire(a) \in Places /\ Retire(a) # Pool /\ Retire(a) # Sq /\ Retire(a) # Kq
       /\ Retire(a) # InFlight /\ Retire(a) # Cq /\ \A b \in Acts : Retire(a) # Batch(b)
  BY PlaceNames, PlacesDiffer
<1> QED BY <1>1, <1>2, <1>5, <1>8, <1>9, <1>10, PutSlots

\* A drain moves CQEs to its batch.
LEMMA BatchSlots ==
  ASSUME RingInv, NEW a \in Acts, TakeBatch(a)
  PROVE  SlotsPartitioned' /\ FlagsAgree'
<1> DEFINE n == IF Len(cq) < PollBatch THEN Len(cq) ELSE PollBatch
<1>0. /\ pc[a] = "drain" /\ batch[a] = <<>>
      /\ UNCHANGED <<free, in_pool, pending, sq, kq, inflight, retire>>
  BY SlotFacts DEF TakeBatch, LocalsAgree, reqVars
<1>1. n \in 0 .. Len(cq)
  BY SlotFacts, RingConstants
<1>2. \A b \in Acts : At'[Held(b)] = At[Held(b)]
  <2> SUFFICES ASSUME NEW b \in Acts PROVE At'[Held(b)] = At[Held(b)]
    OBVIOUS
  <2>1. \A c \in Acts : c # a => pc'[c] = pc[c] /\ req'[c] = req[c]
    BY SlotFacts DEF TakeBatch, DrainReturn, Return, Goto, callVars
  <2>2. pc'[a] \in {"idle", "drain", "recheck", "waited", "process"}
    BY <1>0, SlotFacts DEF TakeBatch, DrainReturn, Return, Goto
  <2>3. At[Held(a)] = {} /\ At'[Held(a)] = {}
    BY <1>0, <2>2, AtValues, AtValuesNext DEF Holding
  <2> QED BY <2>1, <2>3, FrameAt
<1>3. CASE UNCHANGED <<cq, batch>>
  <2>1. UNCHANGED <<sq, kq>> /\ UNCHANGED <<free, in_pool, pending, inflight, cq, listVars>>
    BY <1>0, <1>3 DEF listVars
  <2> QED BY <1>2, <2>1, FlushSlots DEF HeldSame
<1>4. CASE /\ batch' = [batch EXCEPT ![a] = SubSeq(cq, 1, n)]
           /\ cq' = SubSeq(cq, n + 1, Len(cq))
  <2> DEFINE u == SubSeq(cq, 1, n)
  <2> HIDE DEF n
  <2>1. /\ u \in Seq(Slots) /\ IsInjective(u) /\ IsInjective(cq')
        /\ Range(u) \subseteq Range(cq) /\ Range(cq') = Range(cq) \ Range(u)
    BY <1>1, <1>4, SlotFacts, SplitRange
  <2>2. batch'[a] = u /\ \A b \in Acts : b # a => batch'[b] = batch[b]
    BY <1>4, SlotFacts
  <2> HIDE DEF u
  <2>3. Range(batch[a]) = {}
    BY <1>0 DEF Range
  <2>4. OnePlace(At')
    <3>1. /\ Range(u) \subseteq At[Cq] /\ At'[Cq] = At[Cq] \ Range(u)
          /\ At'[Batch(a)] = At[Batch(a)] \cup Range(u)
      <4>1. At[Cq] = Range(cq) /\ At'[Cq] = Range(cq')
        BY AtValues, AtValuesNext
      <4>2. At[Batch(a)] = Range(batch[a]) /\ At'[Batch(a)] = Range(batch'[a])
        BY AtValues, AtValuesNext
      <4> QED BY <2>1, <2>2, <2>3, <4>1, <4>2
    <3>2. /\ At'[Pool] = At[Pool] /\ At'[Sq] = At[Sq] /\ At'[Kq] = At[Kq]
          /\ At'[InFlight] = At[InFlight]
      BY <1>0, FrameAt
    <3>3. \A b \in Acts : /\ b # a => At'[Batch(b)] = At[Batch(b)]
                          /\ At'[Retire(b)] = At[Retire(b)]
      BY <1>0, <2>2, FrameAt
    <3>4. \A x \in {Pool, Sq, Kq, InFlight, Cq} : x # Cq /\ x # Batch(a) => At'[x] = At[x]
      BY <3>2
    <3>5. \A b \in Acts : \A x \in {Held(b), Batch(b), Retire(b)} :
            x # Cq /\ x # Batch(a) => At'[x] = At[x]
      BY <1>2, <3>3
    <3>6. Cq \in Places /\ Batch(a) \in Places /\ Cq # Batch(a)
      BY PlaceNames, PlacesDiffer
    <3> QED BY <3>1, <3>4, <3>5, <3>6, MoveStep
  <2>5. NoRepeats'
    BY <1>0, <2>1, <2>2, SlotFacts DEF NoRepeats
  <2>6. FlagsAgree'
    <3> SUFFICES ASSUME NEW s \in Slots
                 PROVE  \/ s \in Range(cq) \/ \E b \in Acts : s \in Range(batch[b])
                        <=> \/ s \in Range(cq') \/ \E b \in Acts : s \in Range(batch'[b])
      BY <1>0, SlotFacts DEF FlagsAgree
    <3> QED BY <2>1, <2>2, <2>3
  <2> QED BY <2>4, <2>5, <2>6 DEF SlotsPartitioned
<1> QED BY <1>3, <1>4 DEF TakeBatch

\* process_completion moves a request from the batch to the retire list.
LEMMA ProcessSlots ==
  ASSUME RingInv, NEW a \in Acts, ProcessCompletion(a)
  PROVE  SlotsPartitioned' /\ FlagsAgree'
<1> DEFINE s == Head(batch[a])
<1>0. /\ pc[a] = "process" /\ batch[a] # <<>> /\ req' = req
      /\ batch' = [batch EXCEPT ![a] = Tail(@)]
      /\ UNCHANGED <<free, in_pool, sq, kq, inflight, cq>>
  BY DEF ProcessCompletion, callVars, kernelVars
<1>1. /\ s \in Range(batch[a]) /\ s \in Slots
      /\ Range(Tail(batch[a])) = Range(batch[a]) \ {s} /\ IsInjective(Tail(batch[a]))
  BY <1>0, SlotFacts, TailRange
<1>2. pending[s]
  BY <1>1, NoBug DEF NoBugBranch
<1>3. /\ pending' = [pending EXCEPT ![s] = FALSE]
      /\ retire' = [retire EXCEPT ![a] = Append(@, s)]
      /\ \E l \in {"process", "callback"} : pc' = [pc EXCEPT ![a] = l]
  BY <1>2 DEF ProcessCompletion, Goto
<1> HIDE DEF s
<1>4. /\ batch'[a] = Tail(batch[a]) /\ retire'[a] = Append(retire[a], s)
      /\ \A b \in Acts : b # a => /\ batch'[b] = batch[b] /\ retire'[b] = retire[b]
                                  /\ pc'[b] = pc[b]
      /\ pc'[a] \in {"process", "callback"}
  BY <1>0, <1>3, SlotFacts
<1>5. s \in At[Batch(a)]
  BY <1>1, AtValues
<1>6. /\ s \notin Range(retire[a]) /\ s \notin Range(sq) /\ s \notin Range(kq)
      /\ s \notin inflight /\ s \notin Range(cq)
      /\ \A b \in Acts : b # a => s \notin Range(batch[b])
  BY <1>1, <1>5, OnlyAt, PlaceNames, PlacesDiffer
<1>7. Range(retire'[a]) = Range(retire[a]) \cup {s} /\ IsInjective(retire'[a])
  BY <1>1, <1>4, <1>6, SlotFacts, AppendRange
<1>8. OnePlace(At')
  <2>1. /\ {s} \subseteq At[Batch(a)] /\ At'[Batch(a)] = At[Batch(a)] \ {s}
        /\ At'[Retire(a)] = At[Retire(a)] \cup {s}
    BY <1>1, <1>4, <1>5, <1>7, AtValues, AtValuesNext
  <2>2. /\ At'[Pool] = At[Pool] /\ At'[Sq] = At[Sq] /\ At'[Kq] = At[Kq]
        /\ At'[InFlight] = At[InFlight] /\ At'[Cq] = At[Cq]
    BY <1>0, FrameAt
  <2>3. At[Held(a)] = {} /\ At'[Held(a)] = {}
    BY <1>0, <1>4, AtValues, AtValuesNext DEF Holding
  <2>4. \A b \in Acts : b # a => /\ At'[Batch(b)] = At[Batch(b)]
                                 /\ At'[Retire(b)] = At[Retire(b)]
                                 /\ At'[Held(b)] = At[Held(b)]
    BY <1>0, <1>4, FrameAt
  <2>5. \A b \in Acts : \A x \in {Held(b), Batch(b), Retire(b)} :
          x # Batch(a) /\ x # Retire(a) => At'[x] = At[x]
    BY <2>3, <2>4
  <2>6. Batch(a) \in Places /\ Retire(a) \in Places /\ Batch(a) # Retire(a)
    BY PlaceNames, PlacesDiffer
  <2>7. \A x \in {Pool, Sq, Kq, InFlight, Cq} : x # Batch(a) /\ x # Retire(a) => At'[x] = At[x]
    BY <2>2
  <2> QED BY <2>1, <2>5, <2>6, <2>7, MoveStep
<1>9. NoRepeats'
  BY <1>0, <1>1, <1>4, <1>7, SlotFacts DEF NoRepeats
<1>10. FlagsAgree'
  <2> SUFFICES ASSUME NEW x \in Slots
               PROVE  /\ in_pool'[x] <=> x \in Range(free')
                      /\ pending'[x] <=> \/ x \in Range(sq') \/ x \in Range(kq')
                                         \/ x \in inflight' \/ x \in Range(cq')
                                         \/ \E b \in Acts : x \in Range(batch'[b])
    BY DEF FlagsAgree
  <2>1. in_pool'[x] <=> x \in Range(free')
    BY <1>0, SlotFacts DEF FlagsAgree
  <2>2. CASE x = s
    <3>1. ~pending'[x]
      BY <1>1, <1>3, <2>2, SlotFacts
    <3>2. \A b \in Acts : x \notin Range(batch'[b])
      BY <1>1, <1>4, <1>6, <2>2
    <3> QED BY <1>0, <1>6, <2>1, <2>2, <3>1, <3>2
  <2>3. CASE x # s
    <3>1. pending'[x] = pending[x]
      BY <1>3, <2>3, SlotFacts
    <3>2. \A b \in Acts : x \in Range(batch'[b]) <=> x \in Range(batch[b])
      BY <1>1, <1>4, <2>3
    <3> QED BY <1>0, <2>1, <3>1, <3>2, SlotFacts DEF FlagsAgree
  <2> QED BY <2>2, <2>3
<1> QED BY <1>8, <1>9, <1>10 DEF SlotsPartitioned

\* A step of the kernel that posts nothing but one CQE, of an operation that
\* was at p, keeps the slots conserved.
LEMMA PostSlots ==
  ASSUME RingInv, NEW s \in Slots, NEW p \in {Kq, InFlight}, s \in At[p],
         At'[p] = At[p] \ {s}, cq' = cq \o <<s>>,
         p = Kq => inflight' = inflight /\ kq' = Tail(kq) /\ kq # <<>> /\ s = Head(kq),
         p = InFlight => kq' = kq /\ inflight' = inflight \ {s},
         UNCHANGED <<free, in_pool, pending, sq, pc, req, batch, retire>>
  PROVE  SlotsPartitioned' /\ FlagsAgree'
<1>1. s \notin Range(cq) /\ p \in Places /\ Cq \in Places /\ p # Cq
  BY OnlyAt, PlaceNames, PlacesDiffer
<1> DEFINE t == <<s>>
<1>2. t \in Seq(Slots) /\ Range(t) = {s} /\ IsInjective(t) /\ cq' = cq \o t
  BY ShortRange
<1> HIDE DEF t
<1>3. Range(cq) \cap Range(t) = {}
  BY <1>1, <1>2
<1>4. Range(cq') = Range(cq) \cup {s} /\ IsInjective(cq')
  <2>1. cq \in Seq(Slots) /\ IsInjective(cq)
    BY SlotFacts
  <2>2. Range(cq \o t) = Range(cq) \cup Range(t) /\ IsInjective(cq \o t)
    BY <1>2, <1>3, <2>1, ConcatRange
  <2> QED BY <1>2, <2>2
<1>5. OnePlace(At')
  <2>1. At'[Cq] = At[Cq] \cup {s}
    BY <1>4, AtValues, AtValuesNext
  <2>2. At'[Pool] = At[Pool] /\ At'[Sq] = At[Sq]
    BY FrameAt
  <2>3. /\ p = Kq => At'[InFlight] = At[InFlight]
        /\ p = InFlight => At'[Kq] = At[Kq]
    BY FrameAt
  <2>4. \A x \in {Pool, Sq, Kq, InFlight, Cq} : x # p /\ x # Cq => At'[x] = At[x]
    BY <2>2, <2>3
  <2>5. \A b \in Acts : /\ At'[Held(b)] = At[Held(b)] /\ At'[Batch(b)] = At[Batch(b)]
                        /\ At'[Retire(b)] = At[Retire(b)]
    BY FrameAt
  <2>6. \A b \in Acts : \A x \in {Held(b), Batch(b), Retire(b)} :
          x # p /\ x # Cq => At'[x] = At[x]
    BY <2>5
  <2>7. {s} \subseteq At[p]
    OBVIOUS
  <2> QED BY <1>1, <2>1, <2>4, <2>6, <2>7, MoveStep, ZenonT(40)
<1>6. NoRepeats'
  <2>1. IsInjective(kq')
    <3>1. kq \in Seq(Slots) /\ IsInjective(kq)
      BY SlotFacts
    <3>2. CASE p = Kq
      <4>1. kq # <<>> /\ kq' = Tail(kq)
        BY <3>2
      <4> QED BY <3>1, <4>1, TailRange
    <3>3. CASE p = InFlight
      BY <3>1, <3>3
    <3> QED BY <3>2, <3>3
  <2> QED BY <1>4, <2>1, SlotFacts DEF NoRepeats
<1>7. FlagsAgree'
  <2>1. \A x \in Slots : /\ x \in Range(cq') <=> x \in Range(cq) \/ x = s
    BY <1>4
  <2>2. \A x \in Slots : x # s => /\ x \in Range(kq') <=> x \in Range(kq)
                                  /\ x \in inflight' <=> x \in inflight
    BY PlacesDiffer, AtValues, AtValuesNext
  <2>3. pending[s]
    BY SlotFacts, AtValues DEF FlagsAgree
  <2> QED BY <2>1, <2>2, <2>3, SlotFacts DEF FlagsAgree
<1> QED BY <1>5, <1>6, <1>7 DEF SlotsPartitioned

\* Every step of the kernel keeps the slots conserved.
LEMMA KernelSlots ==
  ASSUME RingInv, Kernel
  PROVE  SlotsPartitioned' /\ FlagsAgree'
<1> USE DEF reqVars, callVars, drainVars, listVars
<1>1. ASSUME NEW s \in Slots, KernelComplete(s) PROVE SlotsPartitioned' /\ FlagsAgree'
  <2>1. /\ s \in inflight /\ inflight' = inflight \ {s} /\ cq' = cq \o <<s>> /\ kq' = kq
        /\ UNCHANGED <<free, in_pool, pending, sq, pc, req, batch, retire>>
    BY <1>1 DEF KernelComplete, Post
  <2>2. s \in At[InFlight] /\ At'[InFlight] = At[InFlight] \ {s}
    BY <2>1, AtValues, AtValuesNext
  <2> QED BY <2>1, <2>2, PlacesDiffer, PostSlots
<1>2. CASE KernelIssue
  <2> DEFINE s == Head(kq)
  <2>1. /\ kq # <<>> /\ kq' = Tail(kq) /\ s = Head(kq)
        /\ UNCHANGED <<free, in_pool, pending, sq, pc, req, batch, retire>>
    BY <1>2 DEF KernelIssue
  <2>2. /\ s \in Slots /\ s \in Range(kq)
        /\ Range(kq') = Range(kq) \ {s} /\ IsInjective(kq')
    BY <2>1, SlotFacts, TailRange
  <2>3. \/ inflight' = inflight \cup {s} /\ cq' = cq
        \/ inflight' = inflight /\ cq' = cq \o <<s>>
        \/ /\ target[s] \in inflight /\ inflight' = inflight \ {target[s]}
           /\ cq' = cq \o <<target[s], s>>
    BY <1>2 DEF KernelIssue, Post
  <2> HIDE DEF s
  <2>4. /\ s \in At[Kq] /\ At'[Kq] = At[Kq] \ {s}
        /\ Kq \in Places /\ InFlight \in Places /\ Cq \in Places
        /\ Kq # InFlight /\ Kq # Cq /\ InFlight # Cq
    BY <2>2, AtValues, AtValuesNext, PlaceNames, PlacesDiffer
  <2>5. s \notin inflight /\ s \notin Range(cq)
    BY <2>2, <2>4, OnlyAt
  <2>6. At'[Pool] = At[Pool] /\ At'[Sq] = At[Sq]
    BY <2>1, FrameAt
  <2>7. \A b \in Acts : /\ At'[Held(b)] = At[Held(b)] /\ At'[Batch(b)] = At[Batch(b)]
                        /\ At'[Retire(b)] = At[Retire(b)]
    BY <2>1, FrameAt
  <2>8. CASE inflight' = inflight \cup {s} /\ cq' = cq
    <3>1. OnePlace(At')
      <4>1. At'[InFlight] = At[InFlight] \cup {s} /\ At'[Cq] = At[Cq]
        BY <2>8, AtValues, AtValuesNext
      <4>2. \A x \in {Pool, Sq, Kq, InFlight, Cq} : x # Kq /\ x # InFlight => At'[x] = At[x]
        BY <2>6, <4>1
      <4>3. \A b \in Acts : \A x \in {Held(b), Batch(b), Retire(b)} :
              x # Kq /\ x # InFlight => At'[x] = At[x]
        BY <2>7
      <4>4. {s} \subseteq At[Kq]
        BY <2>4
      <4> QED BY <2>4, <4>1, <4>2, <4>3, <4>4, MoveStep
    <3>2. NoRepeats'
      BY <2>1, <2>2, <2>8, SlotFacts DEF NoRepeats
    <3>3. FlagsAgree'
      BY <2>1, <2>2, <2>8, SlotFacts DEF FlagsAgree
    <3> QED BY <3>1, <3>2, <3>3 DEF SlotsPartitioned
  <2>9. CASE inflight' = inflight /\ cq' = cq \o <<s>>
    BY <2>1, <2>2, <2>4, <2>9, PostSlots
  <2>10. CASE /\ target[s] \in inflight /\ inflight' = inflight \ {target[s]}
              /\ cq' = cq \o <<target[s], s>>
    <3> DEFINE t == target[s]
               q == <<t, s>>
    <3>1. t \in inflight /\ t \in Slots /\ t # s /\ t \in At[InFlight]
      BY <2>5, <2>10, SlotFacts, AtValues
    <3>2. t \notin Range(cq)
      BY <2>4, <3>1, OnlyAt
    <3>3. q \in Seq(Slots) /\ Range(q) = {t, s} /\ IsInjective(q)
      BY <2>2, <3>1, ShortRange, ZenonT(40)
    <3>4. cq' = cq \o q /\ inflight' = inflight \ {t}
      BY <2>10
    <3> HIDE DEF t, q
    <3>5. Range(cq) \cap Range(q) = {}
      BY <2>5, <3>2, <3>3
    <3>6. Range(cq') = Range(cq) \cup {t, s} /\ IsInjective(cq')
      BY <3>3, <3>4, <3>5, SlotFacts, ConcatRange
    <3>7. OnePlace(At')
      <4> DEFINE mid == [At EXCEPT ![InFlight] = @ \ {t}, ![Cq] = @ \cup {t}]
      <4>1. DOMAIN At = Places
        BY DEF At
      <4>2. /\ mid[InFlight] = At[InFlight] \ {t} /\ mid[Cq] = At[Cq] \cup {t}
            /\ \A r \in Places \ {InFlight, Cq} : mid[r] = At[r]
        BY <2>4, <4>1
      <4> HIDE DEF mid
      <4>3. OnePlace(mid)
        <5>1. OnePlace(At) /\ {t} \subseteq At[InFlight]
          BY <3>1, SlotFacts
        <5> QED BY <2>4, <4>2, <5>1, MoveSlots
      <4>4. At'[InFlight] = mid[InFlight]
        BY <3>4, <4>2, AtValues, AtValuesNext
      <4>5. At'[Cq] = mid[Cq] \cup {s}
        BY <3>6, <4>2, AtValues, AtValuesNext
      <4>6. {s} \subseteq mid[Kq] /\ At'[Kq] = mid[Kq] \ {s}
        BY <2>4, <4>2
      <4>7. \A r \in Places \ {Kq, Cq} : At'[r] = mid[r]
        <5> SUFFICES ASSUME NEW r \in Places \ {Kq, Cq} PROVE At'[r] = mid[r]
          OBVIOUS
        <5>1. CASE r = InFlight
          BY <4>4, <5>1
        <5>2. CASE r # InFlight
          <6>1. At'[r] = At[r]
            BY <2>6, <2>7, <5>2, PlaceNames
          <6> QED BY <4>2, <5>2, <6>1
        <5> QED BY <5>1, <5>2
      <4> QED BY <2>4, <4>3, <4>5, <4>6, <4>7, MoveSlots
    <3>8. NoRepeats'
      BY <2>1, <2>2, <3>6, SlotFacts DEF NoRepeats
    <3>9. FlagsAgree'
      BY <2>1, <2>2, <3>1, <3>4, <3>6, SlotFacts DEF FlagsAgree
    <3> QED BY <3>7, <3>8, <3>9 DEF SlotsPartitioned
  <2> QED BY <2>3, <2>8, <2>9, <2>10
<1> QED BY <1>1, <1>2 DEF Kernel
-----------------------------------------------------------------------------
(* Locals *)

\* Every step keeps the locals of the activations in order.
LEMMA LocalsNext ==
  ASSUME RingInv, Next
  PROVE  LocalsAgree'
<1> USE SlotFacts DEF LocalsAgree, Holding, Goto, Return, StartDrain, callVars,
        backVars, listVars, drainVars
<1>0. CallTypes
  BY DEF RingInv, TypeOK
<1>1. ASSUME NEW a \in Acts, SubmitCall(a) \/ SubmitStep(a) PROVE LocalsAgree'
  <2>1. CASE SubmitCall(a) \/ SubmitAbort(a) \/ SubmitEnd(a)
    BY <1>0, <2>1 DEF SubmitCall, MayCall, SubmitAbort, SubmitEnd, CallTypes
  <2>4. CASE SubmitBeginFull(a)
    BY <1>0, <2>4 DEF SubmitBeginFull, CallTypes
  <2>2. CASE SubmitBegin(a) \/ SubmitRecheck(a)
    BY <1>0, <2>2, SMTT(40) DEF SubmitBegin, SubmitRecheck, ring_get_request, TakeSlot, CallTypes
  <2>3. CASE RingSubmit(a)
    BY <1>0, <2>3 DEF RingSubmit, CallTypes
  <2> QED BY <1>1, <2>1, <2>2, <2>3, <2>4 DEF SubmitStep
<1>2. ASSUME NEW a \in Acts, (\E s \in Slots : CancelCall(a, s)) \/ CancelStep(a)
      PROVE  LocalsAgree'
  <2>1. CASE \E s \in Slots : CancelCall(a, s)
    BY <1>0, <2>1 DEF CancelCall, MayCall, CallTypes
  <2>2. CASE CancelBegin(a)
    BY <1>0, <2>2 DEF CancelBegin, TakeSlot, CallTypes
  <2>3. CASE RingSubmitCancel(a)
    BY <1>0, <2>3 DEF RingSubmitCancel, CallTypes
  <2>4. CASE CancelTooLate(a) \/ CancelEnd(a)
    BY <1>0, <2>4 DEF CancelTooLate, CancelEnd, CallTypes
  <2> QED BY <1>2, <2>1, <2>2, <2>3, <2>4 DEF CancelStep
<1>3. ASSUME NEW a \in Acts, DrainStep(a) PROVE LocalsAgree'
  <2>1. CASE TakeBatch(a)
    BY <1>0, <2>1 DEF TakeBatch, DrainReturn, CallTypes
  <2>2. CASE ProcessCompletion(a)
    BY <1>0, <2>2, SMTT(40) DEF ProcessCompletion, CallTypes
  <2>3. CASE CallbackReturn(a) \/ RetireBatch(a)
    BY <1>0, <2>3, SMTT(40) DEF CallbackReturn, RetireBatch, CallTypes
  <2> QED BY <1>3, <2>1, <2>2, <2>3 DEF DrainStep
<1>4. CASE (\E a \in Acts : FlushCall(a)) \/ Shutdown
  BY <1>0, <1>4 DEF FlushCall, Shutdown, CallTypes
<1>5. CASE PollCall \/ WaitCall \/ LoopStep
  BY <1>0, <1>5, LoopAct, SMTT(40)
     DEF PollCall, WaitCall, LoopStep, PollFlush, WaitDrainFd, WaitFlush, WaitReturn,
         WaitBlock, WaitWake, WakeFlush, WaitTimeout, MayCall, CallTypes
<1>6. CASE Kernel
  BY <1>0, <1>6 DEF Kernel, KernelIssue, KernelComplete, CallTypes
<1> QED BY <1>1, <1>2, <1>3, <1>4, <1>5, <1>6 DEF Next
-----------------------------------------------------------------------------
(* The invariant *)

\* An activation that is not holding a slot before or after a step, or is not
\* concerned, leaves the held slots as they were.
LEMMA HoldsNothing ==
  ASSUME RingInv, NEW a \in Acts, pc[a] \notin Holding, pc'[a] \notin Holding,
         \A b \in Acts : b # a => pc'[b] = pc[b] /\ req'[b] = req[b]
  PROVE  HeldSame
<1>1. At[Held(a)] = {} /\ At'[Held(a)] = {}
  BY AtValues, AtValuesNext
<1> QED BY <1>1, FrameAt DEF HeldSame

\* Every step keeps the slots conserved and the flags in agreement.
LEMMA SlotsNext ==
  ASSUME RingInv, Next
  PROVE  SlotsPartitioned' /\ FlagsAgree'
<1> USE DEF callVars, backVars, listVars, drainVars, reqVars, kernelVars
<1>0. pc \in [Acts -> PcValues] /\ req \in [Acts -> Slots \cup {NoSlot}]
  BY SlotFacts
<1>1. ASSUME NEW a \in Acts, SubmitCall(a) \/ SubmitStep(a)
      PROVE  SlotsPartitioned' /\ FlagsAgree'
  <2>1. CASE SubmitCall(a) \/ SubmitEnd(a)
    <3>1. HeldSame
      BY <1>0, <2>1, HoldsNothing
         DEF SubmitCall, SubmitEnd, MayCall, Holding, Goto, Return
    <3> QED BY <2>1, <3>1, FlushSlots DEF SubmitCall, SubmitEnd
  <2>2. CASE SubmitBeginFull(a)
    <3>1. HeldSame
      BY <1>0, <2>2, HoldsNothing DEF SubmitBeginFull, Holding, Goto, Return, StartDrain
    <3> QED BY <2>2, <3>1, FlushSlots DEF SubmitBeginFull, flush_ring_checked
  <2>3. CASE SubmitBegin(a) \/ SubmitRecheck(a)
    <3>1. pc[a] \notin Holding /\ UNCHANGED <<sq, kq, inflight, cq, listVars>>
      BY <2>3 DEF SubmitBegin, SubmitRecheck, Holding
    <3>2. ASSUME NEW s \in Slots, TakeSlot(a, s, want[a], "held")
          PROVE  SlotsPartitioned' /\ FlagsAgree'
      <4>1. "held" \in Holding
        BY DEF Holding
      <4> QED BY <3>1, <3>2, <4>1, TakeSlots
    <3>3. CASE Return(a) /\ UNCHANGED <<free, reqVars>>
      <4>1. HeldSame
        BY <1>0, <3>1, <3>3, HoldsNothing DEF Holding, Goto, Return
      <4> QED BY <3>1, <3>3, <4>1, FlushSlots
    <3> QED BY <2>3, <3>2, <3>3 DEF SubmitBegin, SubmitRecheck, ring_get_request
  <2>4. CASE RingSubmit(a)
    <3>1. pc[a] \in Holding /\ "submitted" \notin Holding
      BY <2>4 DEF RingSubmit, Holding
    <3> QED BY <2>4, <3>1, QueueSlots DEF RingSubmit
  <2>5. CASE SubmitAbort(a)
    <3>1. pc[a] \in Holding
      BY <2>5 DEF SubmitAbort, Holding
    <3> QED BY <2>5, <3>1, AbortSlots DEF SubmitAbort
  <2> QED BY <1>1, <2>1, <2>2, <2>3, <2>4, <2>5 DEF SubmitStep
<1>2. ASSUME NEW a \in Acts, (\E s \in Slots : CancelCall(a, s)) \/ CancelStep(a)
      PROVE  SlotsPartitioned' /\ FlagsAgree'
  <2>1. CASE (\E s \in Slots : CancelCall(a, s)) \/ CancelEnd(a)
    <3>1. HeldSame
      BY <1>0, <2>1, HoldsNothing DEF CancelCall, CancelEnd, MayCall, Holding, Goto, Return
    <3> QED BY <2>1, <3>1, FlushSlots DEF CancelCall, CancelEnd
  <2>2. CASE CancelBegin(a)
    <3>1. pc[a] \notin Holding /\ UNCHANGED <<sq, kq, inflight, cq, listVars>>
      BY <2>2 DEF CancelBegin, Holding
    <3>2. ASSUME NEW s \in Slots, TakeSlot(a, s, "cancel", "cancelheld")
          PROVE  SlotsPartitioned' /\ FlagsAgree'
      <4>1. "cancelheld" \in Holding
        BY DEF Holding
      <4> QED BY <3>1, <3>2, <4>1, TakeSlots
    <3>3. CASE Return(a) /\ UNCHANGED <<free, reqVars>>
      <4>1. HeldSame
        BY <1>0, <3>1, <3>3, HoldsNothing DEF Holding, Goto, Return
      <4> QED BY <3>1, <3>3, <4>1, FlushSlots
    <3> QED BY <2>2, <3>2, <3>3 DEF CancelBegin
  <2>3. CASE RingSubmitCancel(a)
    <3>1. pc[a] \in Holding /\ "cancelqueued" \notin Holding
      BY <2>3 DEF RingSubmitCancel, Holding
    <3> QED BY <2>3, <3>1, QueueSlots DEF RingSubmitCancel
  <2>4. CASE CancelTooLate(a)
    <3>1. pc[a] \in Holding
      BY <2>4 DEF CancelTooLate, Holding
    <3> QED BY <2>4, <3>1, AbortSlots DEF CancelTooLate
  <2> QED BY <1>2, <2>1, <2>2, <2>3, <2>4 DEF CancelStep
<1>3. ASSUME NEW a \in Acts, DrainStep(a) PROVE SlotsPartitioned' /\ FlagsAgree'
  <2>1. CASE CallbackReturn(a)
    <3>1. HeldSame
      BY <1>0, <2>1, HoldsNothing DEF CallbackReturn, Holding, Goto
    <3> QED BY <2>1, <3>1, FlushSlots DEF CallbackReturn
  <2> QED BY <1>3, <2>1, BatchSlots, ProcessSlots, RetireSlots DEF DrainStep
<1>4. CASE (\E a \in Acts : FlushCall(a)) \/ Shutdown
  <2>1. HeldSame
    BY <1>4, FrameAt DEF FlushCall, Shutdown, HeldSame
  <2> QED BY <1>4, <2>1, FlushSlots DEF FlushCall, Shutdown
<1>5. CASE PollCall \/ WaitCall \/ LoopStep
  <2>1. /\ pc[loopAct] \notin Holding
        /\ \E l \in PcValues \ Holding : pc' = [pc EXCEPT ![loopAct] = l]
        /\ req' = req \/ req' = [req EXCEPT ![loopAct] = NoSlot]
    BY <1>5 DEF PollCall, WaitCall, LoopStep, PollFlush, WaitDrainFd, WaitFlush,
                WaitReturn, WaitBlock, WaitWake, WakeFlush, WaitTimeout, MayCall,
                Goto, Return, StartDrain, Holding, PcValues
  <2>2. HeldSame
    BY <1>0, <2>1, HoldsNothing, LoopAct
  <2>3. /\ flush_ring_checked \/ UNCHANGED <<sq, kq>>
        /\ UNCHANGED <<free, in_pool, pending, inflight, cq, listVars>>
    BY <1>5 DEF PollCall, WaitCall, LoopStep, PollFlush, WaitDrainFd, WaitFlush,
                WaitReturn, WaitBlock, WaitWake, WakeFlush, WaitTimeout,
                flush_ring_checked
  <2> QED BY <2>2, <2>3, FlushSlots
<1>6. CASE Kernel
  BY <1>6, KernelSlots
<1> QED BY <1>1, <1>2, <1>3, <1>4, <1>5, <1>6 DEF Next

\* The initial state satisfies the invariant.
LEMMA InitInv == Init => RingInv
<1> SUFFICES ASSUME Init PROVE RingInv
  OBVIOUS
<1>1. free = [i \in 1 .. QueueDepth |-> i - 1] /\ QueueDepth \in Nat \ {0}
  BY RingConstants DEF Init
<1>2. /\ free \in Seq(Slots) /\ DOMAIN free = 1 .. QueueDepth /\ Range(free) = Slots
      /\ IsInjective(free)
  <2>1. \A i \in 1 .. QueueDepth : free[i] = i - 1 /\ free[i] \in Slots
    BY <1>1 DEF Slots
  <2>2. free \in [1 .. QueueDepth -> Slots]
    BY <1>1, <2>1
  <2>3. free \in Seq(Slots) /\ DOMAIN free = 1 .. QueueDepth
    BY <1>1, <2>2, IsASeq
  <2>4. IsInjective(free)
    BY <2>1, <2>3 DEF IsInjective
  <2>5. \A s \in Slots : s + 1 \in 1 .. QueueDepth /\ free[s + 1] = s
    BY <1>1 DEF Slots
  <2>6. Range(free) = Slots
    BY <2>1, <2>3, <2>5 DEF Range
  <2> QED BY <2>3, <2>4, <2>6
<1>3. TypeOK
  <2>1. RingTypes
    BY <1>2 DEF Init, RingTypes
  <2>2. RequestTypes
    BY DEF Init, RequestTypes, Ops
  <2>3. EngineTypes
    BY DEF Init, EngineTypes
  <2>4. QueueTypes
    BY EmptySeq DEF Init, QueueTypes
  <2>5. CallTypes
    BY DEF Init, CallTypes, PcValues, Ops
  <2> QED BY <2>1, <2>2, <2>3, <2>4, <2>5 DEF TypeOK
<1>4. Range(<<>>) = {} /\ IsInjective(<<>>)
  BY DEF Range, IsInjective
<1>5. /\ sq = <<>> /\ kq = <<>> /\ cq = <<>> /\ inflight = {}
      /\ \A a \in Acts : batch[a] = <<>> /\ retire[a] = <<>> /\ pc[a] = "idle"
  BY DEF Init
<1>6. OnePlace(At)
  <2>1. At[Pool] = Slots
    BY <1>2, AtValues
  <2>2. \A x \in {Sq, Kq, InFlight, Cq} : At[x] = {}
    BY <1>4, <1>5, AtValues
  <2>3. \A a \in Acts : \A x \in {Held(a), Batch(a), Retire(a)} : At[x] = {}
    BY <1>4, <1>5, AtValues DEF Holding
  <2>4. \A r \in Places : r # Pool => At[r] = {}
    BY <2>2, <2>3, PlaceNames
  <2>5. Pool \in Places
    BY PlaceNames
  <2> QED BY <2>1, <2>4, <2>5 DEF OnePlace
<1>7. NoRepeats
  BY <1>2, <1>4, <1>5 DEF NoRepeats
<1>8. FlagsAgree
  BY <1>2, <1>4, <1>5 DEF FlagsAgree, Init
<1>9. LocalsAgree
  BY <1>5 DEF LocalsAgree, Holding
<1> QED BY <1>3, <1>6, <1>7, <1>8, <1>9 DEF RingInv, SlotsPartitioned

\* Every step preserves the invariant.
LEMMA StepInv == RingInv /\ [Next]_vars => RingInv'
<1> SUFFICES ASSUME RingInv, [Next]_vars PROVE RingInv'
  OBVIOUS
<1>1. CASE Next
  <2>1. TypeOK'
    BY <1>1, SubmitTypes, CancelTypes, DrainTypes, LoopTypes, KernelTypes DEF Next
  <2> QED BY <1>1, <2>1, SlotsNext, LocalsNext DEF RingInv
<1>2. CASE UNCHANGED vars
  <2>1. TypeOK'
    BY <1>2 DEF RingInv, vars, TypeOK, RingTypes, RequestTypes, EngineTypes,
                QueueTypes, CallTypes
  <2>2. HeldSame
    BY <1>2, FrameAt DEF vars, HeldSame
  <2>3. SlotsPartitioned' /\ FlagsAgree'
    BY <1>2, <2>2, FlushSlots DEF vars, listVars
  <2>4. LocalsAgree'
    BY <1>2 DEF RingInv, LocalsAgree, vars
  <2> QED BY <2>1, <2>3, <2>4 DEF RingInv
<1> QED BY <1>1, <1>2

\* The inductive invariant of the ring holds in every reachable state: types,
\* slot conservation, and the agreement of the flags and locals with the
\* places of the slots.
THEOREM RingInvariant == Spec => []RingInv
BY InitInv, StepInv, PTL DEF Spec

\* Type correctness of the ring.
THEOREM TypeCorrect == Spec => []TypeOK
<1>1. RingInv => TypeOK
  BY DEF RingInv
<1> QED BY <1>1, RingInvariant, PTL

\* Slot conservation: every request slot is at exactly one place and at most
\* once there, for any number of threads, any nesting of callbacks and any
\* pattern of partial, transient and fatal flush failures.
THEOREM SlotConservation == Spec => []SlotsPartitioned
<1>1. RingInv => SlotsPartitioned
  BY DEF RingInv
<1> QED BY <1>1, RingInvariant, PTL

\* The defensive branches of ring_put_request and process_completion are dead
\* code: no double free, no put of a pending slot, no duplicate completion.
THEOREM BugBranchesDead == Spec => []NoBugBranch
<1>1. RingInv => NoBugBranch
  BY NoBug
<1> QED BY <1>1, RingInvariant, PTL

-----------------------------------------------------------------------------
(* Counting *)

\* A queue without repetitions has as many entries as it has elements.
LEMMA CountRange ==
  ASSUME NEW S, NEW q \in Seq(S), IsInjective(q)
  PROVE  IsFiniteSet(Range(q)) /\ Cardinality(Range(q)) = Len(q)
<1>1. Len(q) \in Nat /\ DOMAIN q = 1 .. Len(q) /\ q \in [1 .. Len(q) -> S]
  OBVIOUS
<1>2. IsFiniteSet(1 .. Len(q)) /\ Cardinality(1 .. Len(q)) = Len(q)
  <2>1. 1 \in Int /\ Len(q) \in Int
    BY <1>1
  <2>2. /\ IsFiniteSet(1 .. Len(q))
        /\ Cardinality(1 .. Len(q)) = IF 1 > Len(q) THEN 0 ELSE Len(q) - 1 + 1
    BY <2>1, FS_Interval
  <2> QED BY <1>1, <2>2
<1>3. q \in Bijection(1 .. Len(q), Range(q))
  <2>1. q \in [1 .. Len(q) -> Range(q)]
    BY <1>1 DEF Range
  <2>2. q \in Injection(1 .. Len(q), Range(q))
    BY <1>1, <2>1 DEF Injection, IsInjective
  <2>3. q \in Surjection(1 .. Len(q), Range(q))
    BY <1>1, <2>1 DEF Surjection, Range
  <2> QED BY <2>2, <2>3 DEF Bijection
<1>4. ExistsBijection(1 .. Len(q), Range(q))
  BY <1>3 DEF ExistsBijection
<1> QED BY <1>2, <1>4, FS_Bijection

\* The ring has finitely many slots, and so has every set of slots.
LEMMA SlotsFinite ==
  /\ IsFiniteSet(Slots) /\ Cardinality(Slots) = QueueDepth
  /\ \A T \in SUBSET Slots :
       IsFiniteSet(T) /\ Cardinality(T) \in Nat /\ Cardinality(T) <= QueueDepth
<1>1. QueueDepth \in Nat \ {0} /\ 0 \in Int /\ QueueDepth - 1 \in Int
  BY RingConstants
<1>2. IsFiniteSet(Slots) /\ Cardinality(Slots) = QueueDepth
  <2>1. /\ IsFiniteSet(0 .. QueueDepth - 1)
        /\ Cardinality(0 .. QueueDepth - 1) =
             IF 0 > QueueDepth - 1 THEN 0 ELSE (QueueDepth - 1) - 0 + 1
    BY <1>1, FS_Interval
  <2> QED BY <1>1, <2>1 DEF Slots
<1>3. ASSUME NEW T \in SUBSET Slots
      PROVE  IsFiniteSet(T) /\ Cardinality(T) \in Nat /\ Cardinality(T) <= QueueDepth
  BY <1>2, FS_Subset, FS_CardinalityType
<1> QED BY <1>2, <1>3

-----------------------------------------------------------------------------
(* Steps *)

\* The activations that hold a slot, or run a callback, go on doing so with the
\* same slot, and no other starts to.
SameStanding ==
  \A b \in Acts :
    /\ pc'[b] \in Holding <=> pc[b] \in Holding
    /\ pc[b] \in Holding => req'[b] = req[b]
    /\ pc'[b] = "callback" <=> pc[b] = "callback"

\* The slot in hand is dropped only by the end of a submission or of a cancel.
KeepsReq ==
  \/ \E a \in Acts : SubmitEnd(a) \/ CancelEnd(a)
  \/ /\ fixed_inflight' = fixed_inflight
     /\ \A b \in Acts : req'[b] = req[b] \/ (pc[b] \notin Locked /\ req'[b] = NoSlot)

\* A step that leaves every request as it was; it may publish SQEs.
Quiet ==
  /\ UNCHANGED <<in_pool, pending, op, target, pending_count, canceled, aimed,
                 retire>>
  /\ SameStanding /\ KeepsReq
  /\ flush_ring_checked \/ UNCHANGED <<sq, kq, queued_sqes>>

\* A step that takes a slot.
Takes(a, s, kind, label) ==
  /\ pc[a] \in {"begin", "recheck", "cancel"} /\ lock \in {NoAct, a}
  /\ \/ label = "held" /\ kind = want[a] /\ GateOpen
     \/ label = "cancelheld" /\ kind = "cancel"
  /\ TakeSlot(a, s, kind, label)
  /\ UNCHANGED <<want, countVars, fixed_inflight, sq, kq, inflight, cq, listVars>>

\* A step that gives a held slot back unused.
GivesBack(a) ==
  /\ pc[a] \in Holding
  /\ ring_put_requests(<<req[a]>>)
  /\ lock' = NoAct
  /\ Return(a)
  /\ UNCHANGED <<countVars, fixed_inflight, pending, sq, kq, inflight, cq, listVars>>

\* One activation moves between points of its call that neither hold a slot
\* nor run a callback.
LEMMA MovesQuietly ==
  ASSUME TypeOK, NEW a \in Acts, NEW l, pc' = [pc EXCEPT ![a] = l],
         pc[a] \notin Holding \cup {"callback"}, l \notin Holding \cup {"callback"},
         req' = req \/ req' = [req EXCEPT ![a] = NoSlot]
  PROVE  /\ SameStanding
         /\ pc[a] \notin Locked /\ fixed_inflight' = fixed_inflight => KeepsReq
<1>1. pc \in [Acts -> PcValues] /\ req \in [Acts -> Slots \cup {NoSlot}]
  BY DEF TypeOK, CallTypes
<1>2. pc'[a] = l /\ \A b \in Acts : b # a => pc'[b] = pc[b] /\ req'[b] = req[b]
  BY <1>1
<1>3. req'[a] \in {req[a], NoSlot}
  BY <1>1
<1>4. SameStanding
  BY <1>2 DEF SameStanding
<1> QED BY <1>2, <1>3, <1>4 DEF KeepsReq

\* Every step takes a slot, writes an SQE, gives a slot back, processes or
\* retires completions, ends a callback, is the kernel issuing an SQE, or is
\* quiet.
LEMMA StepKinds ==
  ASSUME RingInv, [Next]_vars
  PROVE  \/ \E a \in Acts, s \in Slots, kind \in Ops, label \in Holding :
              Takes(a, s, kind, label)
         \/ \E a \in Acts : \/ RingSubmit(a) \/ RingSubmitCancel(a) \/ GivesBack(a)
                            \/ ProcessCompletion(a) \/ CallbackReturn(a)
                            \/ RetireBatch(a)
         \/ KernelIssue
         \/ Quiet
<1> USE DEF countVars, reqVars, engineVars, kernelVars, listVars, backVars,
            drainVars, callVars, waitVars, history
<1> DEFINE Goal == \/ \E a \in Acts, s \in Slots, kind \in Ops, label \in Holding :
                        Takes(a, s, kind, label)
                   \/ \E a \in Acts : \/ RingSubmit(a) \/ RingSubmitCancel(a)
                                      \/ GivesBack(a) \/ ProcessCompletion(a)
                                      \/ CallbackReturn(a) \/ RetireBatch(a)
                   \/ KernelIssue
                   \/ Quiet
<1>0. TypeOK /\ want \in [Acts -> Ops]
  BY DEF RingInv, TypeOK, CallTypes
<1>1. ASSUME NEW a \in Acts, SubmitCall(a) \/ SubmitStep(a) PROVE Goal
  <2>1. CASE SubmitCall(a) \/ SubmitEnd(a)
    <3>1. SameStanding /\ KeepsReq
      <4>1. CASE SubmitCall(a)
        BY <1>0, <4>1, MovesQuietly DEF SubmitCall, MayCall, Goto, Holding, Locked
      <4>2. CASE SubmitEnd(a)
        BY <1>0, <4>2, MovesQuietly DEF SubmitEnd, Goto, Return, Holding, KeepsReq
      <4> QED BY <2>1, <4>1, <4>2
    <3>2. Quiet
      BY <2>1, <3>1 DEF SubmitCall, SubmitEnd, Quiet
    <3> QED BY <3>2
  <2>2. CASE SubmitBeginFull(a)
    <3>1. SameStanding /\ KeepsReq
      BY <1>0, <2>2, MovesQuietly
         DEF SubmitBeginFull, Goto, Return, StartDrain, Holding, Locked
    <3>2. Quiet
      BY <2>2, <3>1 DEF SubmitBeginFull, Quiet, flush_ring_checked
    <3> QED BY <3>2
  <2>3. CASE SubmitBegin(a) \/ SubmitRecheck(a)
    <3>1. /\ pc[a] \in {"begin", "recheck", "cancel"} /\ lock \in {NoAct, a}
          /\ UNCHANGED <<countVars, fixed_inflight, sq, kq, inflight, cq, listVars>>
      BY <2>3 DEF SubmitBegin, SubmitRecheck
    <3>2. ASSUME NEW s \in Slots, TakeSlot(a, s, want[a], "held"), want' = want, GateOpen
          PROVE  Goal
      <4>1. "held" \in Holding /\ want[a] \in Ops
        BY <1>0 DEF Holding
      <4>2. Takes(a, s, want[a], "held")
        BY <3>1, <3>2 DEF Takes
      <4> QED BY <4>1, <4>2
    <3>3. CASE Return(a) /\ UNCHANGED <<free, reqVars, canceled, history>>
      <4>1. SameStanding /\ KeepsReq
        BY <1>0, <3>1, <3>3, MovesQuietly DEF Goto, Return, Holding, Locked
      <4>2. Quiet
        BY <3>1, <3>3, <4>1 DEF Quiet
      <4> QED BY <4>2
    <3> QED BY <2>3, <3>2, <3>3 DEF SubmitBegin, SubmitRecheck, ring_get_request
  <2>4. CASE RingSubmit(a)
    BY <2>4
  <2>5. CASE SubmitAbort(a)
    <3>1. GivesBack(a)
      BY <2>5 DEF SubmitAbort, GivesBack, Holding
    <3> QED BY <3>1
  <2> QED BY <1>1, <2>1, <2>2, <2>3, <2>4, <2>5 DEF SubmitStep
<1>2. ASSUME NEW a \in Acts, (\E s \in Slots : CancelCall(a, s)) \/ CancelStep(a)
      PROVE  Goal
  <2>1. CASE (\E s \in Slots : CancelCall(a, s)) \/ CancelEnd(a)
    <3>1. SameStanding /\ KeepsReq
      <4>1. CASE \E s \in Slots : CancelCall(a, s)
        BY <1>0, <4>1, MovesQuietly DEF CancelCall, MayCall, Goto, Holding, Locked
      <4>2. CASE CancelEnd(a)
        BY <1>0, <4>2, MovesQuietly DEF CancelEnd, Goto, Return, Holding, KeepsReq
      <4> QED BY <2>1, <4>1, <4>2
    <3>2. Quiet
      BY <2>1, <3>1 DEF CancelCall, CancelEnd, Quiet
    <3> QED BY <3>2
  <2>2. CASE CancelBegin(a)
    <3>1. /\ pc[a] \in {"begin", "recheck", "cancel"} /\ lock \in {NoAct, a}
          /\ UNCHANGED <<countVars, fixed_inflight, sq, kq, inflight, cq, listVars>>
      BY <2>2 DEF CancelBegin
    <3>2. ASSUME NEW s \in Slots, TakeSlot(a, s, "cancel", "cancelheld"), want' = want
          PROVE  Goal
      <4>1. "cancelheld" \in Holding /\ "cancel" \in Ops
        BY DEF Holding, Ops
      <4>2. Takes(a, s, "cancel", "cancelheld")
        BY <3>1, <3>2 DEF Takes
      <4> QED BY <4>1, <4>2
    <3>3. CASE Return(a) /\ UNCHANGED <<free, reqVars, canceled, history>>
      <4>1. SameStanding /\ KeepsReq
        BY <1>0, <3>1, <3>3, MovesQuietly DEF Goto, Return, Holding, Locked
      <4>2. Quiet
        BY <3>1, <3>3, <4>1 DEF Quiet
      <4> QED BY <4>2
    <3> QED BY <2>2, <3>2, <3>3 DEF CancelBegin
  <2>3. CASE RingSubmitCancel(a)
    BY <2>3
  <2>4. CASE CancelTooLate(a)
    <3>1. GivesBack(a)
      BY <2>4 DEF CancelTooLate, GivesBack, Holding
    <3> QED BY <3>1
  <2> QED BY <1>2, <2>1, <2>2, <2>3, <2>4 DEF CancelStep
<1>3. ASSUME NEW a \in Acts, DrainStep(a) PROVE Goal
  <2>1. CASE TakeBatch(a)
    <3>1. SameStanding /\ KeepsReq
      <4>1. /\ \E l \in PcValues \ (Holding \cup {"callback"}) : pc' = [pc EXCEPT ![a] = l]
            /\ req' = req \/ req' = [req EXCEPT ![a] = NoSlot]
            /\ pc[a] \notin Holding \cup {"callback"} /\ pc[a] \notin Locked
            /\ fixed_inflight' = fixed_inflight
        BY <1>0, <2>1 DEF TakeBatch, DrainReturn, Goto, Return, Holding, Locked,
                          PcValues, TypeOK, CallTypes
      <4> QED BY <1>0, <4>1, MovesQuietly
    <3>2. Quiet
      BY <2>1, <3>1 DEF TakeBatch, Quiet
    <3> QED BY <3>2
  <2> QED BY <1>3, <2>1 DEF DrainStep
<1>4. CASE (\E a \in Acts : FlushCall(a)) \/ Shutdown \/ UNCHANGED vars
  <2>1. SameStanding /\ KeepsReq
    BY <1>4 DEF FlushCall, Shutdown, vars, SameStanding, KeepsReq
  <2>2. Quiet
    BY <1>4, <2>1 DEF FlushCall, Shutdown, vars, Quiet
  <2> QED BY <2>2
<1>5. CASE PollCall \/ WaitCall \/ LoopStep
  <2>1. /\ pc[loopAct] \notin Holding \cup {"callback"} /\ pc[loopAct] \notin Locked
        /\ fixed_inflight' = fixed_inflight
        /\ \E l \in PcValues \ (Holding \cup {"callback"}) : pc' = [pc EXCEPT ![loopAct] = l]
        /\ req' = req \/ req' = [req EXCEPT ![loopAct] = NoSlot]
    BY <1>5 DEF PollCall, WaitCall, LoopStep, PollFlush, WaitDrainFd, WaitFlush,
                WaitReturn, WaitBlock, WaitWake, WakeFlush, WaitTimeout, MayCall,
                Goto, Return, StartDrain, Holding, Locked, PcValues
  <2>2. SameStanding /\ KeepsReq
    BY <1>0, <2>1, MovesQuietly, LoopAct
  <2>3. Quiet
    BY <1>5, <2>2 DEF PollCall, WaitCall, LoopStep, PollFlush, WaitDrainFd, WaitFlush,
                WaitReturn, WaitBlock, WaitWake, WakeFlush, WaitTimeout,
                flush_ring_checked, Quiet
  <2> QED BY <2>3
<1>6. CASE Kernel
  <2>1. ASSUME NEW s \in Slots, KernelComplete(s) PROVE Quiet
    BY <2>1 DEF KernelComplete, Quiet, SameStanding, KeepsReq
  <2> QED BY <1>6, <2>1 DEF Kernel
<1> QED BY <1>1, <1>2, <1>3, <1>4, <1>5, <1>6 DEF Next
-----------------------------------------------------------------------------
(* The lock *)

\* With ring->lock free, or held by a thread that has no slot, nobody has one.
LEMMA NobodyLocked ==
  ASSUME RingInv, LockAgree, NEW a \in Acts, pc[a] \notin Locked, lock \in {NoAct, a}
  PROVE  \A b \in Acts : pc[b] \notin Locked /\ req[b] = NoSlot
BY RingConstants DEF LockAgree

\* A step after which nobody has the lock with a slot in hand.
LEMMA LockReleased ==
  ASSUME \A b \in Acts : pc'[b] \notin Locked /\ req'[b] = NoSlot /\ want'[b] # "cancel"
  PROVE  LockAgree'
BY DEF LockAgree, Locked, Holding

\* A step that needs no lock: the thread that takes it has no slot.
LEMMA LockFrame ==
  ASSUME RingInv, LockAgree, NEW a \in Acts, pc[a] \notin Locked, pc'[a] \notin Locked,
         req'[a] \in {req[a], NoSlot}, want'[a] # "cancel",
         \A b \in Acts : b # a => pc'[b] = pc[b] /\ req'[b] = req[b] /\ want'[b] = want[b],
         UNCHANGED <<lock, op, sq, pending_count>>
  PROVE  LockAgree'
<1>1. req'[a] = NoSlot
  BY DEF LockAgree
<1> SUFFICES ASSUME NEW b \in Acts
             PROVE  /\ pc'[b] \in Locked => lock' = b
                    /\ req'[b] # NoSlot => pc'[b] \in Locked
                    /\ pc'[b] \in {"submitted", "cancelqueued"} => req'[b] \in Range(sq')
                    /\ want'[b] # "cancel"
                    /\ pc'[b] = "held" => op'[req'[b]] # "cancel"
                    /\ pc'[b] \in {"cancelheld", "cancelqueued"} => op'[req'[b]] = "cancel"
                    /\ pc'[b] = "held" /\ ~Passthrough =>
                         \E limit \in Limits : pending_count' < limit
  BY DEF LockAgree
<1>2. CASE b = a
  BY <1>1, <1>2 DEF Locked, Holding
<1>3. CASE b # a
  BY <1>3 DEF LockAgree
<1> QED BY <1>2, <1>3

\* Every step of a submission keeps what the lock protects.
LEMMA SubmitLock ==
  ASSUME RingInv, LockAgree, NEW a \in Acts, SubmitCall(a) \/ SubmitStep(a)
  PROVE  LockAgree'
<1> USE DEF countVars, reqVars, engineVars, kernelVars, listVars, backVars,
            drainVars, callVars, waitVars, history
<1>0. /\ TypeOK /\ pc \in [Acts -> PcValues] /\ req \in [Acts -> Slots \cup {NoSlot}]
      /\ want \in [Acts -> Ops] /\ op \in [Slots -> Ops] /\ pending_count \in Int
      /\ \A b \in Acts : want[b] # "cancel"
  BY DEF RingInv, TypeOK, CallTypes, RequestTypes, RingTypes, LockAgree
<1>1. CASE SubmitCall(a)
  <2>1. /\ pc[a] \notin Locked /\ pc'[a] \notin Locked /\ req' = req
        /\ want'[a] # "cancel"
        /\ \A b \in Acts : b # a => pc'[b] = pc[b] /\ want'[b] = want[b]
        /\ UNCHANGED <<lock, op, sq, pending_count>>
    BY <1>0, <1>1, RingConstants DEF SubmitCall, MayCall, Goto, Locked, Holding
  <2> QED BY <2>1, LockFrame
<1>2. CASE SubmitBegin(a) \/ SubmitRecheck(a)
  <2>1. pc[a] \notin Locked /\ lock \in {NoAct, a} /\ pending_count' = pending_count
    BY <1>2 DEF SubmitBegin, SubmitRecheck, Locked, Holding
  <2>2. \A b \in Acts : pc[b] \notin Locked /\ req[b] = NoSlot
    BY <2>1, NobodyLocked
  <2>3. ASSUME NEW s \in Slots, TakeSlot(a, s, want[a], "held"), want' = want, GateOpen
        PROVE  LockAgree'
    <3>1. /\ pc'[a] = "held" /\ req'[a] = s /\ lock' = a /\ op'[s] = want[a]
          /\ \A b \in Acts : b # a => pc'[b] = pc[b] /\ req'[b] = req[b]
      BY <1>0, <2>3 DEF TakeSlot, Goto
    <3>2. ~Passthrough => \E limit \in Limits : pending_count' < limit
      BY <2>1, <2>3 DEF GateOpen
    <3> QED BY <1>0, <2>2, <2>3, <3>1, <3>2 DEF LockAgree, Locked, Holding
  <2>4. CASE Return(a)
    <3>1. \A b \in Acts : pc'[b] \notin Locked /\ req'[b] = NoSlot /\ want'[b] # "cancel"
      BY <1>0, <2>2, <2>4 DEF Return, Goto, Locked, Holding
    <3> QED BY <3>1, LockReleased
  <2> QED BY <1>2, <2>3, <2>4 DEF SubmitBegin, SubmitRecheck, ring_get_request
<1>3. CASE SubmitBeginFull(a)
  <2>1. pc[a] \notin Locked /\ lock \in {NoAct, a}
    BY <1>3 DEF SubmitBeginFull, Locked, Holding
  <2>2. \A b \in Acts : pc[b] \notin Locked /\ req[b] = NoSlot
    BY <2>1, NobodyLocked
  <2>3. \A b \in Acts : pc'[b] \notin Locked /\ req'[b] = NoSlot /\ want'[b] # "cancel"
    BY <1>0, <1>3, <2>2 DEF SubmitBeginFull, StartDrain, Return, Goto, Locked, Holding
  <2> QED BY <2>3, LockReleased
<1>4. CASE RingSubmit(a)
  <2>1. lock = a /\ req[a] \in Slots
    BY <1>4 DEF RingSubmit, LockAgree, Locked, Holding, RingInv, LocalsAgree
  <2>2. \A b \in Acts : b # a => pc[b] \notin Locked /\ req[b] = NoSlot
    BY <2>1 DEF LockAgree
  <2>3. req[a] \in Range(sq')
    BY <1>4, <2>1, SlotFacts, AppendRange DEF RingSubmit, QueueSqe
  <2>4. /\ pc'[a] = "submitted" /\ lock' = lock /\ req' = req /\ want' = want
        /\ \A b \in Acts : b # a => pc'[b] = pc[b]
    BY <1>0, <1>4 DEF RingSubmit, Goto
  <2> QED BY <1>0, <2>1, <2>2, <2>3, <2>4 DEF LockAgree, Locked, Holding
<1>5. CASE SubmitAbort(a) \/ SubmitEnd(a)
  <2>1. lock = a
    BY <1>5 DEF SubmitAbort, SubmitEnd, LockAgree, Locked, Holding
  <2>2. \A b \in Acts : b # a => pc[b] \notin Locked /\ req[b] = NoSlot
    BY <2>1 DEF LockAgree
  <2>3. \A b \in Acts : pc'[b] \notin Locked /\ req'[b] = NoSlot /\ want'[b] # "cancel"
    BY <1>0, <1>5, <2>2 DEF SubmitAbort, SubmitEnd, Return, Goto, Locked, Holding
  <2> QED BY <2>3, LockReleased
<1> QED BY <1>1, <1>2, <1>3, <1>4, <1>5 DEF SubmitStep

\* Every step of aura_cancel keeps what the lock protects.
LEMMA CancelLock ==
  ASSUME RingInv, LockAgree, NEW a \in Acts,
         (\E s \in Slots : CancelCall(a, s)) \/ CancelStep(a)
  PROVE  LockAgree'
<1> USE DEF countVars, reqVars, engineVars, kernelVars, listVars, backVars,
            drainVars, callVars, waitVars, history
<1>0. /\ TypeOK /\ pc \in [Acts -> PcValues] /\ req \in [Acts -> Slots \cup {NoSlot}]
      /\ want \in [Acts -> Ops] /\ op \in [Slots -> Ops]
      /\ \A b \in Acts : want[b] # "cancel"
  BY DEF RingInv, TypeOK, CallTypes, RequestTypes, LockAgree
<1>1. CASE \E s \in Slots : CancelCall(a, s)
  <2>1. /\ pc[a] \notin Locked /\ pc'[a] \notin Locked /\ req' = req /\ want' = want
        /\ \A b \in Acts : b # a => pc'[b] = pc[b]
        /\ UNCHANGED <<lock, op, sq, pending_count>>
    BY <1>0, <1>1 DEF CancelCall, MayCall, Goto, Locked, Holding
  <2> QED BY <1>0, <2>1, LockFrame
<1>2. CASE CancelBegin(a)
  <2>1. pc[a] \notin Locked /\ lock \in {NoAct, a} /\ pending_count' = pending_count
    BY <1>2 DEF CancelBegin, Locked, Holding
  <2>2. \A b \in Acts : pc[b] \notin Locked /\ req[b] = NoSlot
    BY <2>1, NobodyLocked
  <2>3. ASSUME NEW s \in Slots, TakeSlot(a, s, "cancel", "cancelheld"), want' = want
        PROVE  LockAgree'
    <3>1. /\ pc'[a] = "cancelheld" /\ req'[a] = s /\ lock' = a /\ op'[s] = "cancel"
          /\ \A b \in Acts : b # a => pc'[b] = pc[b] /\ req'[b] = req[b]
      BY <1>0, <2>3 DEF TakeSlot, Goto
    <3> QED BY <1>0, <2>2, <2>3, <3>1 DEF LockAgree, Locked, Holding
  <2>4. CASE Return(a)
    <3>1. \A b \in Acts : pc'[b] \notin Locked /\ req'[b] = NoSlot /\ want'[b] # "cancel"
      BY <1>0, <2>2, <2>4 DEF Return, Goto, Locked, Holding
    <3> QED BY <3>1, LockReleased
  <2> QED BY <1>2, <2>3, <2>4 DEF CancelBegin
<1>3. CASE RingSubmitCancel(a)
  <2>1. lock = a /\ req[a] \in Slots /\ op[req[a]] = "cancel" /\ op' = op
    BY <1>3 DEF RingSubmitCancel, LockAgree, Locked, Holding, RingInv, LocalsAgree
  <2>2. \A b \in Acts : b # a => pc[b] \notin Locked /\ req[b] = NoSlot
    BY <2>1 DEF LockAgree
  <2>3. req[a] \in Range(sq')
    BY <1>3, <2>1, SlotFacts, AppendRange DEF RingSubmitCancel, QueueSqe
  <2>4. /\ pc'[a] = "cancelqueued" /\ lock' = lock /\ req' = req /\ want' = want
        /\ \A b \in Acts : b # a => pc'[b] = pc[b]
    BY <1>0, <1>3 DEF RingSubmitCancel, Goto
  <2> QED BY <1>0, <2>1, <2>2, <2>3, <2>4 DEF LockAgree, Locked, Holding
<1>4. CASE CancelTooLate(a) \/ CancelEnd(a)
  <2>1. lock = a
    BY <1>4 DEF CancelTooLate, CancelEnd, LockAgree, Locked, Holding
  <2>2. \A b \in Acts : b # a => pc[b] \notin Locked /\ req[b] = NoSlot
    BY <2>1 DEF LockAgree
  <2>3. \A b \in Acts : pc'[b] \notin Locked /\ req'[b] = NoSlot /\ want'[b] # "cancel"
    BY <1>0, <1>4, <2>2 DEF CancelTooLate, CancelEnd, Return, Goto, Locked, Holding
  <2> QED BY <2>3, LockReleased
<1> QED BY <1>1, <1>2, <1>3, <1>4 DEF CancelStep

\* Every step keeps what the lock protects.
LEMMA LockNext ==
  ASSUME RingInv, LockAgree, [Next]_vars
  PROVE  LockAgree'
<1> USE DEF countVars, reqVars, engineVars, kernelVars, listVars, backVars,
            drainVars, callVars, waitVars, history
<1>0. /\ TypeOK /\ pc \in [Acts -> PcValues] /\ req \in [Acts -> Slots \cup {NoSlot}]
      /\ want \in [Acts -> Ops] /\ \A b \in Acts : want[b] # "cancel"
  BY DEF RingInv, TypeOK, CallTypes, LockAgree
<1>1. ASSUME NEW a \in Acts, DrainStep(a) PROVE LockAgree'
  <2>1. CASE TakeBatch(a) \/ ProcessCompletion(a) \/ CallbackReturn(a)
    <3>1. /\ pc[a] \notin Locked /\ pc'[a] \notin Locked
          /\ req'[a] \in {req[a], NoSlot} /\ want'[a] # "cancel"
          /\ \A b \in Acts : b # a => pc'[b] = pc[b] /\ req'[b] = req[b] /\ want'[b] = want[b]
          /\ UNCHANGED <<lock, op, sq, pending_count>>
      BY <1>0, <2>1 DEF TakeBatch, ProcessCompletion, CallbackReturn, DrainReturn,
                        Return, Goto, Locked, Holding
    <3> QED BY <3>1, LockFrame
  <2>2. CASE RetireBatch(a)
    <3>1. pc[a] \notin Locked /\ lock \in {NoAct, a}
      BY <2>2 DEF RetireBatch, Locked, Holding
    <3>2. \A b \in Acts : pc[b] \notin Locked /\ req[b] = NoSlot
      BY <3>1, NobodyLocked
    <3>3. \A b \in Acts : pc'[b] \notin Locked /\ req'[b] = NoSlot /\ want'[b] # "cancel"
      BY <1>0, <2>2, <3>2 DEF RetireBatch, Goto, Locked, Holding
    <3> QED BY <3>3, LockReleased
  <2> QED BY <1>1, <2>1, <2>2 DEF DrainStep
<1>2. ASSUME NEW a \in Acts, FlushCall(a) PROVE LockAgree'
  <2>1. pc[a] \notin Locked /\ lock \in {NoAct, a}
    BY <1>2 DEF FlushCall, MayCall, Locked, Holding
  <2>2. \A b \in Acts : pc[b] \notin Locked /\ req[b] = NoSlot
    BY <2>1, NobodyLocked
  <2>3. \A b \in Acts : pc'[b] \notin Locked /\ req'[b] = NoSlot /\ want'[b] # "cancel"
    BY <1>0, <1>2, <2>2 DEF FlushCall
  <2> QED BY <2>3, LockReleased
<1>3. CASE PollFlush \/ WaitFlush \/ WakeFlush
  <2>1. pc[loopAct] \notin Locked /\ lock \in {NoAct, loopAct}
    BY <1>3 DEF PollFlush, WaitFlush, WakeFlush, Locked, Holding
  <2>2. \A b \in Acts : pc[b] \notin Locked /\ req[b] = NoSlot
    BY <2>1, NobodyLocked, LoopAct
  <2>3. \A b \in Acts : pc'[b] \notin Locked /\ req'[b] = NoSlot /\ want'[b] # "cancel"
    BY <1>0, <1>3, <2>2, LoopAct
       DEF PollFlush, WaitFlush, WakeFlush, StartDrain, Goto, Locked, Holding
  <2> QED BY <2>3, LockReleased
<1>4. CASE \/ PollCall \/ WaitCall \/ WaitDrainFd \/ WaitReturn \/ WaitBlock
           \/ WaitWake \/ WaitTimeout
  <2>1. /\ pc[loopAct] \notin Locked /\ pc'[loopAct] \notin Locked
        /\ req'[loopAct] \in {req[loopAct], NoSlot} /\ want'[loopAct] # "cancel"
        /\ \A b \in Acts : b # loopAct =>
             pc'[b] = pc[b] /\ req'[b] = req[b] /\ want'[b] = want[b]
        /\ UNCHANGED <<lock, op, sq, pending_count>>
    BY <1>0, <1>4, LoopAct
       DEF PollCall, WaitCall, WaitDrainFd, WaitReturn, WaitBlock, WaitWake,
           WaitTimeout, MayCall, StartDrain, Return, Goto, Locked, Holding
  <2> QED BY <2>1, LockFrame, LoopAct
<1>5. CASE Shutdown \/ Kernel \/ UNCHANGED vars
  <2>1. UNCHANGED <<lock, pc, req, want, op, sq, pending_count>>
    BY <1>5 DEF Shutdown, Kernel, KernelIssue, KernelComplete, vars
  <2> QED BY <2>1 DEF LockAgree
<1> QED BY <1>1, <1>2, <1>3, <1>4, <1>5, SubmitLock, CancelLock DEF Next, LoopStep

\* Nobody has the lock at first.
LEMMA InitLock == Init => LockAgree
<1> SUFFICES ASSUME Init PROVE LockAgree
  OBVIOUS
<1>1. \A b \in Acts : pc[b] = "idle" /\ req[b] = NoSlot /\ want[b] = "plain"
  BY DEF Init
<1> QED BY <1>1 DEF LockAgree, Locked, Holding
-----------------------------------------------------------------------------
(* The counters *)

\* A flush takes from queued_sqes exactly the SQEs it publishes, whatever
\* io_uring_submit reports.
LEMMA FlushCounts ==
  ASSUME RingInv, queued_sqes = Len(sq), flush_ring_checked
  PROVE  queued_sqes' = Len(sq')
<1>1. /\ sq \in Seq(Slots) /\ kq \in Seq(Slots) /\ IsInjective(sq)
      /\ Len(sq) \in Nat /\ Len(kq) \in Nat /\ Sqpoll \in BOOLEAN
  BY SlotFacts, RingConstants
<1>2. CASE UNCHANGED <<sq, kq, queued_sqes>>
  BY <1>2
<1>3. ASSUME NEW k \in Accepted, sq' = SubSeq(sq, k + 1, Len(sq)),
             queued_sqes' = Clamped(Reported(k))
      PROVE  queued_sqes' = Len(sq')
  <2>1. k \in 0 .. Len(sq) /\ (Sqpoll => k = Len(sq))
    BY <1>1 DEF Accepted
  <2>2. Len(sq') = Len(sq) - k
    BY <1>1, <1>3, <2>1, SplitRange
  <2>3. CASE Sqpoll
    <3>1. Reported(k) = Len(kq) + Len(sq) /\ Len(sq') = 0
      BY <1>1, <2>1, <2>2, <2>3 DEF Reported
    <3>2. ~(Reported(k) < queued_sqes)
      BY <1>1, <3>1
    <3> QED BY <1>3, <3>1, <3>2 DEF Clamped
  <2>4. CASE ~Sqpoll
    <3>1. Reported(k) = k
      BY <2>4 DEF Reported
    <3> QED BY <1>1, <1>3, <2>1, <2>2, <3>1 DEF Clamped
  <2> QED BY <1>1, <2>3, <2>4
<1> QED BY <1>2, <1>3 DEF flush_ring_checked, FlushDone, FlushFatal

\* Who is outstanding after a step, by kind of step.
LEMMA QuietOutstanding ==
  ASSUME in_pool' = in_pool, SameStanding
  PROVE  Outstanding' = Outstanding
BY DEF Outstanding, SameStanding

LEMMA TakeOutstanding ==
  ASSUME RingInv, NEW a \in Acts, NEW s \in Slots, NEW kind, NEW label \in Holding,
         Takes(a, s, kind, label)
  PROVE  Outstanding' = Outstanding
<1>1. /\ in_pool' = [in_pool EXCEPT ![s] = FALSE]
      /\ req' = [req EXCEPT ![a] = s] /\ pc' = [pc EXCEPT ![a] = label]
      /\ free # <<>> /\ s = free[Len(free)] /\ pc[a] \notin Holding
  BY DEF Takes, TakeSlot, Goto, Holding
<1>2. in_pool[s]
  <2>1. s \in Range(free)
    BY <1>1, SlotFacts, FrontRange
  <2> QED BY <2>1, SlotFacts DEF FlagsAgree
<1>3. /\ pc'[a] = label /\ req'[a] = s
      /\ \A b \in Acts : b # a => pc'[b] = pc[b] /\ req'[b] = req[b]
  BY <1>1, SlotFacts
<1>4. \A x \in Slots : x # s => in_pool'[x] = in_pool[x]
  BY <1>1, SlotFacts
<1>5. ASSUME NEW x \in Slots PROVE x \in Outstanding' <=> x \in Outstanding
  <2>1. CASE x = s
    BY <1>2, <1>3, <2>1 DEF Outstanding
  <2>2. CASE x # s
    BY <1>1, <1>3, <1>4, <2>2 DEF Outstanding
  <2> QED BY <2>1, <2>2
<1> QED BY <1>5 DEF Outstanding

LEMMA BackOutstanding ==
  ASSUME RingInv, NEW a \in Acts, GivesBack(a)
  PROVE  /\ Outstanding' = Outstanding
         /\ in_pool' = [s \in Slots |-> in_pool[s] \/ s = req[a]]
         /\ req[a] \in Slots /\ Puttable(req[a])
         /\ \A s \in Slots : s # req[a] => op'[s] = op[s] /\ target'[s] = target[s]
         /\ canceled' = canceled \ {req[a]} /\ aimed' = aimed \ {req[a]}
<1>1. pc[a] \in Holding /\ ring_put_requests(<<req[a]>>) /\ Return(a)
  BY DEF GivesBack
<1>2. req[a] \in Slots /\ Puttable(req[a])
  BY <1>1, SlotFacts, NoBug DEF LocalsAgree, NoBugBranch
<1>3. {s \in Range(<<req[a]>>) : Puttable(s)} = {req[a]} /\ Range(<<req[a]>>) = {req[a]}
  BY <1>2, ShortRange
<1>4. /\ in_pool' = [s \in Slots |-> in_pool[s] \/ s = req[a]]
      /\ \A s \in Slots : s # req[a] => op'[s] = op[s] /\ target'[s] = target[s]
      /\ canceled' = canceled \ {req[a]} /\ aimed' = aimed \ {req[a]}
  BY <1>1, <1>3 DEF ring_put_requests
<1>5. /\ pc'[a] = "idle"
      /\ \A b \in Acts : b # a => pc'[b] = pc[b] /\ req'[b] = req[b]
  BY <1>1, SlotFacts DEF Return, Goto
<1>6. ASSUME NEW x \in Slots PROVE x \in Outstanding' <=> x \in Outstanding
  <2>1. CASE x = req[a]
    BY <1>1, <1>2, <1>4, <2>1 DEF Outstanding
  <2>2. CASE x # req[a]
    <3>1. in_pool'[x] = (in_pool[x] \/ FALSE)
      BY <1>4, <2>2
    <3>2. \A b \in Acts : (pc'[b] \in Holding => req'[b] # x) <=> (pc[b] \in Holding => req[b] # x)
      BY <1>1, <1>5, <2>2 DEF Holding
    <3> QED BY <3>1, <3>2, Zenon DEF Outstanding
  <2> QED BY <2>1, <2>2
<1>7. Outstanding' = Outstanding
  BY <1>6 DEF Outstanding
<1> QED BY <1>2, <1>4, <1>7

LEMMA QueueOutstanding ==
  ASSUME RingInv, LockAgree, NEW a \in Acts, RingSubmit(a) \/ RingSubmitCancel(a)
  PROVE  /\ req[a] \in Slots /\ req[a] \notin Outstanding
         /\ Outstanding' = Outstanding \cup {req[a]}
<1>1. /\ pc[a] \in Holding /\ in_pool' = in_pool /\ req' = req
      /\ \E l \in {"submitted", "cancelqueued"} : pc' = [pc EXCEPT ![a] = l]
  BY DEF RingSubmit, RingSubmitCancel, Goto, Holding, callVars
<1>2. req[a] \in Slots /\ ~in_pool[req[a]]
  BY <1>1, SlotFacts, NoBug DEF LocalsAgree, NoBugBranch, Puttable
<1>3. /\ pc'[a] \notin Holding /\ \A b \in Acts : b # a => pc'[b] = pc[b]
  BY <1>1, SlotFacts DEF Holding
<1>4. \A b \in Acts : b # a => pc[b] \notin Holding
  BY <1>1 DEF LockAgree, Locked
<1>5. req[a] \notin Outstanding
  BY <1>1 DEF Outstanding
<1>6. ASSUME NEW x \in Slots PROVE x \in Outstanding' <=> x \in Outstanding \cup {req[a]}
  <2>1. \A b \in Acts : pc'[b] \notin Holding
    BY <1>3, <1>4
  <2>2. x \in Outstanding' <=> ~in_pool[x]
    BY <1>1, <2>1 DEF Outstanding
  <2>3. x \in Outstanding <=> ~in_pool[x] /\ req[a] # x
    BY <1>1, <1>4 DEF Outstanding
  <2> QED BY <1>2, <2>2, <2>3
<1>7. Outstanding' = Outstanding \cup {req[a]}
  BY <1>2, <1>6 DEF Outstanding
<1> QED BY <1>2, <1>5, <1>7

LEMMA RetireOutstanding ==
  ASSUME RingInv, LockAgree, NEW a \in Acts, RetireBatch(a)
  PROVE  /\ Range(retire[a]) \subseteq Outstanding
         /\ Outstanding' = Outstanding \ Range(retire[a])
         /\ in_pool' = [s \in Slots |-> in_pool[s] \/ s \in Range(retire[a])]
         /\ \A s \in Slots : s \notin Range(retire[a]) => op'[s] = op[s] /\ target'[s] = target[s]
         /\ canceled' = canceled \ Range(retire[a]) /\ aimed' = aimed \ Range(retire[a])
<1>1. /\ ring_put_requests(retire[a]) /\ lock = NoAct /\ pc[a] = "process"
      /\ req' = req /\ pc' = [pc EXCEPT ![a] = "drain"]
  BY DEF RetireBatch, Goto, callVars
<1>2. \A b \in Acts : pc[b] \notin Holding /\ pc'[b] \notin Holding
  BY <1>1, RingConstants, SlotFacts DEF LockAgree, Locked, Holding
<1>3. Range(retire[a]) \subseteq Slots /\ \A s \in Range(retire[a]) : Puttable(s)
  BY SlotFacts, NoBug, RangeOfSeq DEF NoBugBranch
<1>4. {s \in Range(retire[a]) : Puttable(s)} = Range(retire[a])
  BY <1>3
<1>5. /\ in_pool' = [s \in Slots |-> in_pool[s] \/ s \in Range(retire[a])]
      /\ \A s \in Slots : s \notin Range(retire[a]) => op'[s] = op[s] /\ target'[s] = target[s]
      /\ canceled' = canceled \ Range(retire[a]) /\ aimed' = aimed \ Range(retire[a])
  BY <1>1, <1>4 DEF ring_put_requests
<1>6. Range(retire[a]) \subseteq Outstanding
  BY <1>2, <1>3 DEF Outstanding, Puttable
<1>7. ASSUME NEW x \in Slots PROVE x \in Outstanding' <=> x \in Outstanding \ Range(retire[a])
  <2>1. in_pool'[x] <=> in_pool[x] \/ x \in Range(retire[a])
    BY <1>5, Zenon
  <2>2. /\ x \in Outstanding' <=> ~in_pool'[x]
        /\ x \in Outstanding <=> ~in_pool[x]
    BY <1>2 DEF Outstanding
  <2> QED BY <2>1, <2>2
<1>8. Outstanding' = Outstanding \ Range(retire[a])
  BY <1>7 DEF Outstanding
<1> QED BY <1>5, <1>6, <1>8

\* Every step keeps the counters exact.
LEMMA CountersNext ==
  ASSUME RingInv, LockAgree, CountersExact, [Next]_vars
  PROVE  CountersExact'
<1>0. /\ IsFiniteSet(Outstanding) /\ Cardinality(Outstanding) \in Nat
      /\ pending_count = Cardinality(Outstanding) /\ queued_sqes = Len(sq)
      /\ sq \in Seq(Slots) /\ Len(sq) \in Nat
  BY SlotsFinite, SlotFacts DEF Outstanding, CountersExact
<1>1. ASSUME NEW a \in Acts, NEW s \in Slots, NEW kind \in Ops, NEW label \in Holding,
             Takes(a, s, kind, label)
      PROVE  CountersExact'
  BY <1>0, <1>1, TakeOutstanding DEF Takes, countVars, CountersExact
<1>2. ASSUME NEW a \in Acts, RingSubmit(a) \/ RingSubmitCancel(a)
      PROVE  CountersExact'
  <2>1. /\ req[a] \in Slots /\ req[a] \notin Outstanding
        /\ Outstanding' = Outstanding \cup {req[a]}
    BY <1>2, QueueOutstanding
  <2>2. Cardinality(Outstanding') = Cardinality(Outstanding) + 1
    BY <1>0, <2>1, FS_AddElement
  <2>3. /\ sq' = Append(sq, req[a]) /\ queued_sqes' = queued_sqes + 1
        /\ pending_count' = pending_count + 1
    BY <1>2 DEF RingSubmit, RingSubmitCancel, QueueSqe
  <2>4. Len(sq') = Len(sq) + 1
    BY <1>0, <2>1, <2>3, AppendProperties
  <2> QED BY <1>0, <2>2, <2>3, <2>4 DEF CountersExact
<1>3. ASSUME NEW a \in Acts, GivesBack(a) PROVE CountersExact'
  BY <1>0, <1>3, BackOutstanding DEF GivesBack, countVars, CountersExact
<1>4. ASSUME NEW a \in Acts, ProcessCompletion(a) \/ CallbackReturn(a)
      PROVE  CountersExact'
  <2>1. /\ pc[a] \notin Holding /\ in_pool' = in_pool /\ req' = req
        /\ pc' = pc \/ \E l \in {"process", "callback"} : pc' = [pc EXCEPT ![a] = l]
        /\ UNCHANGED <<sq, pending_count, queued_sqes>>
    BY <1>4 DEF ProcessCompletion, CallbackReturn, Goto, Holding, callVars, reqVars, countVars
  <2>2. \A b \in Acts : pc'[b] \in Holding <=> pc[b] \in Holding
    BY <2>1, SlotFacts DEF Holding
  <2>3. Outstanding' = Outstanding
    BY <2>1, <2>2 DEF Outstanding
  <2> QED BY <1>0, <2>1, <2>3 DEF CountersExact
<1>5. ASSUME NEW a \in Acts, RetireBatch(a) PROVE CountersExact'
  <2> DEFINE R == Range(retire[a])
  <2>1. R \subseteq Outstanding /\ Outstanding' = Outstanding \ R
    BY <1>5, RetireOutstanding
  <2>2. Cardinality(R) = Len(retire[a])
    BY SlotFacts, CountRange
  <2>3. Outstanding \cap R = R
    BY <2>1
  <2>4. Cardinality(Outstanding') = Cardinality(Outstanding) - Len(retire[a])
    <3> HIDE DEF R
    <3>1. Cardinality(Outstanding \ R) = Cardinality(Outstanding) - Cardinality(Outstanding \cap R)
      BY <1>0, FS_Difference
    <3> QED BY <2>1, <2>2, <2>3, <3>1
  <2>5. /\ pending_count' = pending_count - Len(retire[a])
        /\ sq' = sq /\ queued_sqes' = queued_sqes
    BY <1>5 DEF RetireBatch
  <2> QED BY <1>0, <2>4, <2>5 DEF CountersExact
<1>6. CASE KernelIssue
  <2>1. UNCHANGED <<in_pool, pc, req, sq, pending_count, queued_sqes>>
    BY <1>6 DEF KernelIssue, reqVars, callVars, countVars
  <2>2. Outstanding' = Outstanding
    BY <2>1 DEF Outstanding
  <2> QED BY <1>0, <2>1, <2>2 DEF CountersExact
<1>7. CASE Quiet
  <2>1. Outstanding' = Outstanding /\ pending_count' = pending_count
    BY <1>7, QuietOutstanding DEF Quiet
  <2>2. queued_sqes' = Len(sq')
    BY <1>0, <1>7, FlushCounts DEF Quiet
  <2> QED BY <1>0, <2>1, <2>2 DEF CountersExact
<1> QED BY <1>1, <1>2, <1>3, <1>4, <1>5, <1>6, <1>7, StepKinds

\* The counters are exact at first.
LEMMA InitCounters == Init => CountersExact
<1> SUFFICES ASSUME Init PROVE CountersExact
  OBVIOUS
<1>1. Outstanding = {}
  BY DEF Init, Outstanding
<1> QED BY <1>1, FS_EmptySet DEF Init, CountersExact
-----------------------------------------------------------------------------
(* Registered files and buffers in flight *)

\* A request in a drain's batch is in nobody's hand.
LEMMA BatchNotInHand ==
  ASSUME RingInv, LockAgree, NEW a \in Acts, NEW s \in Range(batch[a])
  PROVE  s \in Slots /\ pending[s] /\ \A b \in Acts : req[b] # s
<1>1. s \in Slots /\ pending[s]
  BY SlotFacts, NoBug, RangeOfSeq DEF NoBugBranch
<1>2. s \in At[Batch(a)]
  BY AtValues
<1>3. s \notin Range(sq) /\ \A b \in Acts : pc[b] \in Holding => s # req[b]
  BY <1>1, <1>2, OnlyAt, PlaceNames, PlacesDiffer
<1>4. ASSUME NEW b \in Acts PROVE req[b] # s
  <2>1. s # NoSlot
    BY <1>1, RingConstants DEF Slots, NoSlot
  <2>2. req[b] = s => pc[b] \in Locked
    BY <2>1 DEF LockAgree
  <2>3. pc[b] \in {"submitted", "cancelqueued"} => req[b] \in Range(sq)
    BY DEF LockAgree
  <2> QED BY <1>3, <2>2, <2>3 DEF Locked
<1> QED BY <1>1, <1>4

\* A pooled slot is not pending.
LEMMA PooledNotPending ==
  ASSUME RingInv, NEW s \in Slots, s \in Range(free)
  PROVE  ~pending[s]
<1>1. s \in At[Pool]
  BY AtValues
<1>2. /\ s \notin Range(sq) /\ s \notin Range(kq) /\ s \notin inflight
      /\ s \notin Range(cq) /\ \A b \in Acts : s \notin Range(batch[b])
  BY <1>1, OnlyAt, PlaceNames, PlacesDiffer
<1> QED BY <1>2, SlotFacts DEF FlagsAgree

\* Steps that leave the users of registered files and buffers alone.
LEMMA SameUsers ==
  ASSUME NEW s,
         \A x \in Slots : x # s => /\ pending'[x] = pending[x] /\ op'[x] = op[x]
                                   /\ (\A b \in Acts : req'[b] # x)
                                        <=> (\A b \in Acts : req[b] # x),
         s \in Slots => ~pending[s] /\ ~pending'[s]
  PROVE  BufferUsers' = BufferUsers /\ FileUsers' = FileUsers
<1>1. ASSUME NEW x \in Slots
      PROVE  (x \in BufferUsers' <=> x \in BufferUsers) /\ (x \in FileUsers' <=> x \in FileUsers)
  <2>1. CASE x = s
    BY <2>1 DEF BufferUsers, FileUsers
  <2>2. CASE x # s
    BY <2>2 DEF BufferUsers, FileUsers
  <2> QED BY <2>1, <2>2
<1> QED BY <1>1 DEF BufferUsers, FileUsers

\* Every step keeps the two counters exact.
LEMMA FixedNext ==
  ASSUME RingInv, LockAgree, FixedInflightExact, [Next]_vars
  PROVE  FixedInflightExact'
<1>0. /\ IsFiniteSet(BufferUsers) /\ Cardinality(BufferUsers) \in Nat
      /\ IsFiniteSet(FileUsers) /\ Cardinality(FileUsers) \in Nat
      /\ fixed_inflight["buffer"] = Cardinality(BufferUsers)
      /\ fixed_inflight["file"] = Cardinality(FileUsers)
      /\ fixed_inflight \in [{"file", "buffer"} -> Int]
      /\ op \in [Slots -> Ops] /\ pending \in [Slots -> BOOLEAN]
      /\ NoSlot \notin Slots
  <2>1. BufferUsers \in SUBSET Slots /\ FileUsers \in SUBSET Slots
    BY DEF BufferUsers, FileUsers
  <2>2. NoSlot \notin Slots
    BY RingConstants DEF Slots, NoSlot
  <2> QED BY <2>1, <2>2, SlotsFinite DEF FixedInflightExact, RingInv, TypeOK, RingTypes, RequestTypes
<1>1. ASSUME NEW a \in Acts, NEW s \in Slots, NEW kind \in Ops, NEW label \in Holding,
             Takes(a, s, kind, label)
      PROVE  FixedInflightExact'
  <2>1. /\ free # <<>> /\ s = free[Len(free)] /\ fixed_inflight' = fixed_inflight
        /\ pending' = [pending EXCEPT ![s] = FALSE] /\ op' = [op EXCEPT ![s] = kind]
        /\ req' = [req EXCEPT ![a] = s] /\ lock \in {NoAct, a} /\ pc[a] \notin Locked
    BY <1>1 DEF Takes, TakeSlot, Locked, Holding
  <2>2. s \in Range(free)
    BY <2>1, SlotFacts, FrontRange
  <2>3. \A b \in Acts : req[b] = NoSlot
    BY <2>1, NobodyLocked
  <2>4. /\ ~pending[s] /\ ~pending'[s]
        /\ \A x \in Slots : x # s => pending'[x] = pending[x] /\ op'[x] = op[x]
    BY <1>0, <2>1, <2>2, PooledNotPending
  <2>5. \A x \in Slots : x # s => \A b \in Acts : req'[b] # x /\ req[b] # x
    BY <1>0, <2>1, <2>3, SlotFacts
  <2>6. BufferUsers' = BufferUsers /\ FileUsers' = FileUsers
    BY <2>4, <2>5, SameUsers
  <2> QED BY <1>0, <2>1, <2>6 DEF FixedInflightExact
<1>2. ASSUME NEW a \in Acts, RingSubmit(a) \/ RingSubmitCancel(a)
      PROVE  FixedInflightExact'
  <2> DEFINE s == req[a]
  <2>1. /\ pc[a] \in Holding /\ pending' = [pending EXCEPT ![s] = TRUE]
        /\ op' = op /\ req' = req
    BY <1>2 DEF RingSubmit, RingSubmitCancel, QueueSqe, Holding, callVars
  <2>2. s \in Slots /\ ~pending[s]
    BY <2>1, SlotFacts, NoBug DEF LocalsAgree, NoBugBranch, Puttable
  <2> HIDE DEF s
  <2>3. pending'[s] /\ \A x \in Slots : x # s => pending'[x] = pending[x]
    BY <1>0, <2>1, <2>2
  <2>4. FileUsers' = FileUsers
    <3>1. s \notin FileUsers /\ s \notin FileUsers'
      BY <2>1 DEF FileUsers, s
    <3>2. \A x \in Slots : x # s => (x \in FileUsers' <=> x \in FileUsers)
      BY <2>1, <2>3 DEF FileUsers
    <3> QED BY <3>1, <3>2 DEF FileUsers
  <2>5. BufferUsers' = BufferUsers \cup (IF op[s] = "buffer" THEN {s} ELSE {})
        /\ s \notin BufferUsers
    <3>1. s \notin BufferUsers /\ (s \in BufferUsers' <=> op[s] = "buffer")
      BY <2>1, <2>2, <2>3 DEF BufferUsers
    <3>2. \A x \in Slots : x # s => (x \in BufferUsers' <=> x \in BufferUsers)
      BY <2>1, <2>3 DEF BufferUsers
    <3> QED BY <2>2, <3>1, <3>2 DEF BufferUsers
  <2>6. CASE op[s] = "buffer"
    <3>1. RingSubmit(a)
      BY <1>2, <2>6 DEF RingSubmitCancel, LockAgree, s
    <3>2. fixed_inflight' = [fixed_inflight EXCEPT !["buffer"] = @ + 1]
      BY <2>6, <3>1 DEF RingSubmit, Bump, s
    <3>3. Cardinality(BufferUsers') = Cardinality(BufferUsers) + 1
      BY <1>0, <2>5, <2>6, FS_AddElement
    <3> QED BY <1>0, <2>4, <3>2, <3>3 DEF FixedInflightExact
  <2>7. CASE op[s] # "buffer"
    <3>1. fixed_inflight' = fixed_inflight
      BY <1>2, <2>7 DEF RingSubmit, RingSubmitCancel, Bump, s
    <3>2. BufferUsers' = BufferUsers
      BY <2>5, <2>7
    <3> QED BY <1>0, <2>4, <3>1, <3>2 DEF FixedInflightExact
  <2> QED BY <2>6, <2>7
<1>3. ASSUME NEW a \in Acts, GivesBack(a) PROVE FixedInflightExact'
  <2>1. /\ req[a] \in Slots /\ ~pending[req[a]]
        /\ \A s \in Slots : s # req[a] => op'[s] = op[s]
    BY <1>3, BackOutstanding DEF Puttable
  <2>2. /\ pending' = pending /\ fixed_inflight' = fixed_inflight
        /\ req' = [req EXCEPT ![a] = NoSlot]
    BY <1>3 DEF GivesBack, Return
  <2>3. \A x \in Slots : x # req[a] =>
          ((\A b \in Acts : req'[b] # x) <=> (\A b \in Acts : req[b] # x))
    BY <1>0, <2>2, SlotFacts
  <2>4. BufferUsers' = BufferUsers /\ FileUsers' = FileUsers
    BY <2>1, <2>2, <2>3, SameUsers
  <2> QED BY <1>0, <2>2, <2>4 DEF FixedInflightExact
<1>4. ASSUME NEW a \in Acts, ProcessCompletion(a) PROVE FixedInflightExact'
  <2> DEFINE s == Head(batch[a])
  <2>1. s \in Range(batch[a])
    BY <1>4, SlotFacts, TailRange DEF ProcessCompletion
  <2>2. s \in Slots /\ pending[s] /\ \A b \in Acts : req[b] # s
    BY <2>1, BatchNotInHand
  <2>3. /\ pending' = [pending EXCEPT ![s] = FALSE] /\ op' = op /\ req' = req
        /\ fixed_inflight' = [k \in DOMAIN fixed_inflight |->
               fixed_inflight[k] - (IF op[s] = k THEN 1 ELSE 0)]
    BY <1>4, <2>2 DEF ProcessCompletion, callVars
  <2> HIDE DEF s
  <2>4. ~pending'[s] /\ \A x \in Slots : x # s => pending'[x] = pending[x]
    BY <1>0, <2>2, <2>3
  <2>5. BufferUsers' = BufferUsers \ {s} /\ (s \in BufferUsers <=> op[s] = "buffer")
    BY <2>2, <2>3, <2>4 DEF BufferUsers
  <2>6. FileUsers' = FileUsers \ {s} /\ (s \in FileUsers <=> op[s] = "file")
    BY <2>2, <2>3, <2>4 DEF FileUsers
  <2>7. /\ fixed_inflight'["buffer"] =
             fixed_inflight["buffer"] - (IF op[s] = "buffer" THEN 1 ELSE 0)
        /\ fixed_inflight'["file"] =
             fixed_inflight["file"] - (IF op[s] = "file" THEN 1 ELSE 0)
    BY <1>0, <2>3
  <2>8. Cardinality(BufferUsers') =
          IF s \in BufferUsers THEN Cardinality(BufferUsers) - 1 ELSE Cardinality(BufferUsers)
    BY <1>0, <2>5, FS_RemoveElement
  <2>9. Cardinality(FileUsers') =
          IF s \in FileUsers THEN Cardinality(FileUsers) - 1 ELSE Cardinality(FileUsers)
    BY <1>0, <2>6, FS_RemoveElement
  <2> QED BY <1>0, <2>5, <2>6, <2>7, <2>8, <2>9 DEF FixedInflightExact
<1>5. ASSUME NEW a \in Acts, CallbackReturn(a) PROVE FixedInflightExact'
  <2>1. UNCHANGED <<pending, op, req, fixed_inflight>>
    BY <1>5 DEF CallbackReturn, reqVars, callVars
  <2>2. BufferUsers' = BufferUsers /\ FileUsers' = FileUsers
    BY <2>1 DEF BufferUsers, FileUsers
  <2> QED BY <1>0, <2>1, <2>2 DEF FixedInflightExact
<1>6. ASSUME NEW a \in Acts, RetireBatch(a) PROVE FixedInflightExact'
  <2>1. UNCHANGED <<pending, req, fixed_inflight>>
    BY <1>6 DEF RetireBatch, callVars
  <2>2. \A x \in Slots : pending[x] => op'[x] = op[x]
    <3>1. \A x \in Range(retire[a]) : ~pending[x]
      BY NoBug DEF NoBugBranch, Puttable
    <3> QED BY <1>6, <3>1, RetireOutstanding
  <2>3. BufferUsers' = BufferUsers /\ FileUsers' = FileUsers
    BY <2>1, <2>2 DEF BufferUsers, FileUsers
  <2> QED BY <1>0, <2>1, <2>3 DEF FixedInflightExact
<1>7. CASE KernelIssue
  <2>1. UNCHANGED <<pending, op, req, fixed_inflight>>
    BY <1>7 DEF KernelIssue, reqVars, callVars
  <2>2. BufferUsers' = BufferUsers /\ FileUsers' = FileUsers
    BY <2>1 DEF BufferUsers, FileUsers
  <2> QED BY <1>0, <2>1, <2>2 DEF FixedInflightExact
<1>8. CASE Quiet
  <2>1. pending' = pending /\ op' = op /\ BufferUsers' = BufferUsers
    BY <1>8 DEF Quiet, BufferUsers
  <2>2. ASSUME NEW a \in Acts, SubmitEnd(a) PROVE FixedInflightExact'
    <3> DEFINE s == req[a]
    <3>1. s \in Slots /\ pending[s] /\ lock = a
      BY <2>2, SlotFacts DEF SubmitEnd, LocalsAgree, LockAgree, Locked, FlagsAgree
    <3>2. \A b \in Acts : b # a => req[b] = NoSlot
      BY <3>1 DEF LockAgree
    <3>3. \A b \in Acts : req'[b] = NoSlot
      BY <2>2, <3>2, SlotFacts DEF SubmitEnd, Return
    <3> HIDE DEF s
    <3>4. s \notin FileUsers /\ (s \in FileUsers' <=> op[s] = "file")
      BY <1>0, <2>1, <3>1, <3>3 DEF FileUsers, s
    <3>5. \A x \in Slots : x # s => (x \in FileUsers' <=> x \in FileUsers)
      BY <1>0, <2>1, <3>2, <3>3 DEF FileUsers, s
    <3>6. CASE op[s] = "file"
      <4>1. FileUsers' = FileUsers \cup {s}
        BY <3>1, <3>4, <3>5, <3>6 DEF FileUsers
      <4>2. Cardinality(FileUsers') = Cardinality(FileUsers) + 1
        BY <1>0, <3>4, <4>1, FS_AddElement
      <4>3. fixed_inflight' = [fixed_inflight EXCEPT !["file"] = @ + 1]
        BY <2>2, <3>6 DEF SubmitEnd, Bump, s
      <4> QED BY <1>0, <2>1, <4>2, <4>3 DEF FixedInflightExact
    <3>7. CASE op[s] # "file"
      <4>1. FileUsers' = FileUsers
        BY <3>4, <3>5, <3>7 DEF FileUsers
      <4>2. fixed_inflight' = fixed_inflight
        BY <2>2, <3>7 DEF SubmitEnd, Bump, s
      <4> QED BY <1>0, <2>1, <4>1, <4>2 DEF FixedInflightExact
    <3> QED BY <3>6, <3>7
  <2>3. ASSUME NEW a \in Acts, CancelEnd(a) PROVE FixedInflightExact'
    <3>1. req[a] \in Slots /\ op[req[a]] = "cancel" /\ fixed_inflight' = fixed_inflight
      BY <2>3, SlotFacts DEF CancelEnd, LocalsAgree, LockAgree
    <3>2. req' = [req EXCEPT ![a] = NoSlot]
      BY <2>3 DEF CancelEnd, Return
    <3>3. \A x \in Slots : x # req[a] =>
            ((\A b \in Acts : req'[b] # x) <=> (\A b \in Acts : req[b] # x))
      BY <1>0, <3>2, SlotFacts
    <3>4. FileUsers' = FileUsers
      BY <2>1, <3>1, <3>3 DEF FileUsers
    <3> QED BY <1>0, <2>1, <3>1, <3>4 DEF FixedInflightExact
  <2>4. CASE /\ fixed_inflight' = fixed_inflight
             /\ \A b \in Acts : req'[b] = req[b] \/ (pc[b] \notin Locked /\ req'[b] = NoSlot)
    <3>1. \A b \in Acts : req'[b] = req[b]
      BY <2>4 DEF LockAgree
    <3>2. FileUsers' = FileUsers
      BY <2>1, <3>1 DEF FileUsers
    <3> QED BY <1>0, <2>1, <2>4, <3>2 DEF FixedInflightExact
  <2> QED BY <1>8, <2>2, <2>3, <2>4 DEF Quiet, KeepsReq
<1> QED BY <1>1, <1>2, <1>3, <1>4, <1>5, <1>6, <1>7, <1>8, StepKinds

\* No operation is in flight at first.
LEMMA InitFixed == Init => FixedInflightExact
<1> SUFFICES ASSUME Init PROVE FixedInflightExact
  OBVIOUS
<1>1. BufferUsers = {} /\ FileUsers = {}
  BY DEF Init, BufferUsers, FileUsers
<1> QED BY <1>1, FS_EmptySet DEF Init, FixedInflightExact
-----------------------------------------------------------------------------
(* The in-flight limit *)

\* A step that starts no operation.
LEMMA FewerDataOps ==
  ASSUME RingInv, LimitRespected, DataOps' \subseteq DataOps
  PROVE  LimitRespected'
<1>1. DataOps \in SUBSET Slots /\ DataOps' \in SUBSET Slots
  BY DEF DataOps, Outstanding
<1>2. /\ IsFiniteSet(DataOps) /\ Cardinality(DataOps) \in Nat
      /\ Cardinality(DataOps') \in Nat
  BY <1>1, SlotsFinite
<1>3. Cardinality(DataOps') <= Cardinality(DataOps)
  BY <1>2, FS_Subset
<1>4. ASSUME ~Passthrough
      PROVE  \E limit \in Limits : Cardinality(DataOps') <= limit
  <2>1. PICK limit \in Limits : Cardinality(DataOps) <= limit
    BY <1>4 DEF LimitRespected
  <2>2. limit \in Nat
    BY RingConstants
  <2> QED BY <1>2, <1>3, <2>1, <2>2
<1> QED BY <1>4 DEF LimitRespected

\* Every step respects the limit.
LEMMA LimitNext ==
  ASSUME RingInv, LockAgree, CountersExact, LimitRespected, [Next]_vars
  PROVE  LimitRespected'
<1>1. ASSUME NEW a \in Acts, NEW s \in Slots, NEW kind \in Ops, NEW label \in Holding,
             Takes(a, s, kind, label)
      PROVE  LimitRespected'
  <2>1. Outstanding' = Outstanding
    BY <1>1, TakeOutstanding
  <2>2. free # <<>> /\ s = free[Len(free)] /\ op' = [op EXCEPT ![s] = kind]
    BY <1>1 DEF Takes, TakeSlot
  <2>3. s \in Range(free)
    BY <2>2, SlotFacts, FrontRange
  <2>4. s \notin Outstanding
    BY <2>3, SlotFacts DEF Outstanding, FlagsAgree
  <2>5. \A x \in Slots : x # s => op'[x] = op[x]
    BY <2>2, SlotFacts DEF TypeOK, RequestTypes
  <2>6. DataOps' \subseteq DataOps
    BY <2>1, <2>4, <2>5 DEF DataOps, Outstanding
  <2> QED BY <2>6, FewerDataOps
<1>2. ASSUME NEW a \in Acts, RingSubmit(a) PROVE LimitRespected'
  <2>1. ASSUME ~Passthrough
        PROVE  \E limit \in Limits : Cardinality(DataOps') <= limit
    <3>1. PICK limit \in Limits : pending_count < limit
      BY <1>2, <2>1 DEF RingSubmit, LockAgree
    <3>2. CountersExact'
      BY CountersNext
    <3>3. DataOps' \subseteq Outstanding' /\ Outstanding' \in SUBSET Slots
      BY DEF DataOps, Outstanding
    <3>4. /\ IsFiniteSet(Outstanding') /\ Cardinality(Outstanding') \in Nat
          /\ Cardinality(DataOps') \in Nat
      BY <3>3, SlotsFinite
    <3>5. Cardinality(DataOps') <= Cardinality(Outstanding')
      BY <3>3, <3>4, FS_Subset
    <3>6. pending_count' = pending_count + 1 /\ pending_count' = Cardinality(Outstanding')
      BY <1>2, <3>2 DEF RingSubmit, QueueSqe, CountersExact
    <3>7. limit \in Nat /\ pending_count \in Int
      BY RingConstants DEF RingInv, TypeOK, RingTypes
    <3> QED BY <3>1, <3>4, <3>5, <3>6, <3>7
  <2> QED BY <2>1 DEF LimitRespected
<1>3. ASSUME NEW a \in Acts, RingSubmitCancel(a) PROVE LimitRespected'
  <2>1. Outstanding' = Outstanding \cup {req[a]} /\ op' = op /\ op[req[a]] = "cancel"
    BY <1>3, QueueOutstanding DEF RingSubmitCancel, LockAgree
  <2>2. DataOps' \subseteq DataOps
    BY <2>1 DEF DataOps
  <2> QED BY <2>2, FewerDataOps
<1>4. ASSUME NEW a \in Acts, GivesBack(a) PROVE LimitRespected'
  <2>1. /\ Outstanding' = Outstanding /\ pc[a] \in Holding
        /\ \A s \in Slots : s # req[a] => op'[s] = op[s]
    BY <1>4, BackOutstanding DEF GivesBack
  <2>2. req[a] \notin Outstanding
    BY <2>1 DEF Outstanding
  <2>3. DataOps' \subseteq DataOps
    BY <2>1, <2>2 DEF DataOps, Outstanding
  <2> QED BY <2>3, FewerDataOps
<1>5. ASSUME NEW a \in Acts, RetireBatch(a) PROVE LimitRespected'
  <2>1. /\ Outstanding' = Outstanding \ Range(retire[a])
        /\ \A s \in Slots : s \notin Range(retire[a]) => op'[s] = op[s]
    BY <1>5, RetireOutstanding
  <2>2. DataOps' \subseteq DataOps
    BY <2>1 DEF DataOps, Outstanding
  <2> QED BY <2>2, FewerDataOps
<1>6. CASE KernelIssue \/ Quiet \/ \E a \in Acts : ProcessCompletion(a) \/ CallbackReturn(a)
  <2>1. op' = op /\ in_pool' = in_pool
    BY <1>6 DEF KernelIssue, Quiet, ProcessCompletion, CallbackReturn, reqVars
  <2>2. \A b \in Acts : /\ pc'[b] \in Holding <=> pc[b] \in Holding
                        /\ pc[b] \in Holding => req'[b] = req[b]
    <3>1. CASE Quiet
      BY <3>1 DEF Quiet, SameStanding
    <3>2. CASE KernelIssue
      BY <3>2 DEF KernelIssue, callVars
    <3>3. ASSUME NEW a \in Acts, ProcessCompletion(a) \/ CallbackReturn(a)
          PROVE  \A b \in Acts : /\ pc'[b] \in Holding <=> pc[b] \in Holding
                                 /\ req'[b] = req[b]
      <4>1. /\ pc[a] \notin Holding /\ req' = req
            /\ pc' = pc \/ \E l \in {"process", "callback"} : pc' = [pc EXCEPT ![a] = l]
        BY <3>3 DEF ProcessCompletion, CallbackReturn, Goto, Holding, callVars
      <4> QED BY <4>1, SlotFacts DEF Holding
    <3> QED BY <1>6, <3>1, <3>2, <3>3
  <2>3. DataOps' \subseteq DataOps
    BY <2>1, <2>2 DEF DataOps, Outstanding
  <2> QED BY <2>3, FewerDataOps
<1> QED BY <1>1, <1>2, <1>3, <1>4, <1>5, <1>6, StepKinds

\* Nothing is in flight at first, and every limit admits that.
LEMMA InitLimit == Init => LimitRespected
<1> SUFFICES ASSUME Init PROVE \E limit \in Limits : Cardinality(DataOps) <= limit
  BY DEF LimitRespected
<1>1. DataOps = {}
  BY DEF Init, DataOps, Outstanding
<1>2. PICK limit \in Limits : limit \in Nat
  BY RingConstants
<1> QED BY <1>1, <1>2, FS_EmptySet

-----------------------------------------------------------------------------
(* The submission queue *)

\* Every SQE the kernel has not consumed owns a slot, and the caller owns one
\* more: there is room for its SQE.
LEMMA RoomForSqe ==
  ASSUME RingInv
  PROVE  SqNeverFull
<1> SUFFICES ASSUME NEW a \in Acts, pc[a] \in Holding
             PROVE  Len(sq) + Len(kq) < QueueDepth
  BY DEF SqNeverFull
<1> DEFINE U == Range(sq) \cup Range(kq)
<1>1. req[a] \in Slots /\ req[a] \in At[Held(a)]
  BY SlotFacts, AtValues DEF LocalsAgree
<1>2. req[a] \notin U
  BY <1>1, OnlyAt, PlaceNames, PlacesDiffer
<1>3. Range(sq) \cap Range(kq) = {}
  <2>1. \A s \in Range(sq) : s \in Slots /\ s \in At[Sq]
    BY SlotFacts, AtValues, RangeOfSeq
  <2> QED BY <2>1, OnlyAt, PlaceNames, PlacesDiffer
<1>4. /\ IsFiniteSet(Range(sq)) /\ Cardinality(Range(sq)) = Len(sq)
      /\ IsFiniteSet(Range(kq)) /\ Cardinality(Range(kq)) = Len(kq)
      /\ Len(sq) \in Nat /\ Len(kq) \in Nat
  BY SlotFacts, CountRange
<1>5. IsFiniteSet(U) /\ Cardinality(U) = Len(sq) + Len(kq)
  <2>1. /\ IsFiniteSet(U)
        /\ Cardinality(U) = Cardinality(Range(sq)) + Cardinality(Range(kq))
                              - Cardinality(Range(sq) \cap Range(kq))
    BY <1>4, FS_Union
  <2>2. Cardinality(Range(sq) \cap Range(kq)) = 0
    BY <1>3, FS_EmptySet
  <2> HIDE DEF U
  <2> QED BY <1>4, <2>1, <2>2
<1>6. U \cup {req[a]} \in SUBSET Slots
  BY <1>1, SlotFacts, RangeOfSeq
<1> HIDE DEF U
<1>7. Cardinality(U \cup {req[a]}) = Cardinality(U) + 1
  BY <1>2, <1>5, FS_AddElement
<1>8. Cardinality(U \cup {req[a]}) <= QueueDepth
  BY <1>6, SlotsFinite
<1> QED BY <1>4, <1>5, <1>7, <1>8, RingConstants
-----------------------------------------------------------------------------
(* Cancellation *)

\* The queue holds slots whose SQE is written, and none of them is pooled or
\* in the hand of a submitter that has yet to write it.
LEMMA QueueFacts ==
  ASSUME RingInv
  PROVE  /\ Queue \in Seq(Slots) /\ Len(Queue) = Len(kq) + Len(sq) /\ Len(Queue) \in Nat
         /\ \A i \in 1 .. Len(Queue) :
              /\ Queue[i] \in Slots /\ pending[Queue[i]]
              /\ Queue[i] \notin Range(free)
              /\ \A a \in Acts : pc[a] \in Holding => Queue[i] # req[a]
         /\ \A s \in inflight : \A i \in 1 .. Len(Queue) : Queue[i] # s
<1>1. /\ Queue \in Seq(Slots) /\ Len(Queue) = Len(kq) + Len(sq) /\ Len(Queue) \in Nat
      /\ \A i \in 1 .. Len(kq) + Len(sq) :
           Queue[i] = IF i <= Len(kq) THEN kq[i] ELSE sq[i - Len(kq)]
  BY SlotFacts, ConcatProperties DEF Queue
<1>2. ASSUME NEW i \in 1 .. Len(Queue)
      PROVE  /\ Queue[i] \in Slots /\ pending[Queue[i]]
             /\ Queue[i] \notin Range(free) /\ Queue[i] \notin inflight
             /\ \A a \in Acts : pc[a] \in Holding => Queue[i] # req[a]
  <2>1. Queue[i] \in Slots
    BY <1>1
  <2>2. Queue[i] \in Range(kq) \/ Queue[i] \in Range(sq)
    <3>1. Len(kq) \in Nat /\ Len(sq) \in Nat /\ DOMAIN kq = 1 .. Len(kq) /\ DOMAIN sq = 1 .. Len(sq)
      BY SlotFacts
    <3>2. CASE i <= Len(kq)
      BY <1>1, <3>1, <3>2 DEF Range
    <3>3. CASE ~(i <= Len(kq))
      <4>1. i - Len(kq) \in 1 .. Len(sq) /\ Queue[i] = sq[i - Len(kq)]
        BY <1>1, <3>1, <3>3
      <4> QED BY <3>1, <4>1 DEF Range
    <3> QED BY <3>2, <3>3
  <2>3. Queue[i] \in At[Kq] \/ Queue[i] \in At[Sq]
    BY <2>2, AtValues
  <2>4. /\ Queue[i] \notin Range(free) /\ Queue[i] \notin inflight
        /\ \A a \in Acts : pc[a] \in Holding => Queue[i] # req[a]
    BY <2>1, <2>3, OnlyAt, PlaceNames, PlacesDiffer
  <2>5. pending[Queue[i]]
    BY <2>1, <2>2, SlotFacts DEF FlagsAgree
  <2> QED BY <2>1, <2>4, <2>5
<1> QED BY <1>1, <1>2

\* Publishing SQEs keeps their order.
LEMMA FlushKeepsQueue ==
  ASSUME RingInv, flush_ring_checked \/ UNCHANGED <<sq, kq, queued_sqes>>
  PROVE  Queue' = Queue
<1>1. CASE UNCHANGED <<sq, kq, queued_sqes>>
  BY <1>1 DEF Queue
<1>2. CASE flush_ring_checked
  <2>1. PICK k \in 0 .. Len(sq) : /\ sq' = SubSeq(sq, k + 1, Len(sq))
                                  /\ kq' = kq \o SubSeq(sq, 1, k)
    BY <1>2, SlotFacts, FlushEffect
  <2> DEFINE u == SubSeq(sq, 1, k)
             v == SubSeq(sq, k + 1, Len(sq))
  <2>2. kq \in Seq(Slots) /\ u \in Seq(Slots) /\ v \in Seq(Slots)
    BY SlotFacts, SplitRange
  <2>3. u \o v = sq
    <3>1. sq \in Seq(Slots) /\ 1 \in 1 .. Len(sq) + 1 /\ k \in (1 - 1) .. Len(sq)
          /\ Len(sq) \in k .. Len(sq) /\ Len(sq) \in Nat
      BY SlotFacts
    <3>2. u \o v = SubSeq(sq, 1, Len(sq))
      BY <3>1, ConcatAdjacentSubSeq
    <3> QED BY <3>1, <3>2, SubSeqFull
  <2>4. Queue' = (kq \o u) \o v
    BY <2>1 DEF Queue
  <2> HIDE DEF u, v
  <2>5. (kq \o u) \o v = kq \o (u \o v)
    BY ONLY <2>2, ConcatAssociative, SMTT(40)
  <2> QED BY <2>3, <2>4, <2>5 DEF Queue
<1> QED BY <1>1, <1>2

\* Writing an SQE appends to the queue; issuing one takes its head.
LEMMA AppendQueue ==
  ASSUME RingInv, NEW s \in Slots, sq' = Append(sq, s), kq' = kq
  PROVE  /\ Len(Queue') = Len(Queue) + 1 /\ Queue'[Len(Queue) + 1] = s
         /\ \A i \in 1 .. Len(Queue) : Queue'[i] = Queue[i]
<1>1. kq \in Seq(Slots) /\ sq \in Seq(Slots) /\ <<s>> \in Seq(Slots)
  BY SlotFacts
<1>2. Queue' = Queue \o <<s>>
  BY <1>1, AppendIsConcat, ConcatAssociative, SMTT(40) DEF Queue
<1>3. /\ Len(Queue \o <<s>>) = Len(Queue) + Len(<<s>>)
      /\ \A i \in 1 .. Len(Queue) + Len(<<s>>) :
           (Queue \o <<s>>)[i] = IF i <= Len(Queue) THEN Queue[i] ELSE <<s>>[i - Len(Queue)]
  BY <1>1, QueueFacts, ConcatProperties
<1>4. Len(<<s>>) = 1 /\ <<s>>[1] = s /\ Len(Queue) \in Nat
  BY QueueFacts
<1>5. /\ Len(Queue) + 1 \in 1 .. Len(Queue) + Len(<<s>>) /\ ~(Len(Queue) + 1 <= Len(Queue))
      /\ Len(Queue) + 1 - Len(Queue) = 1
  BY <1>4
<1>6. Queue'[Len(Queue) + 1] = s
  BY <1>2, <1>3, <1>4, <1>5
<1>7. \A i \in 1 .. Len(Queue) : Queue'[i] = Queue[i]
  BY <1>2, <1>3, <1>4
<1> QED BY <1>2, <1>3, <1>4, <1>6, <1>7

LEMMA TailQueue ==
  ASSUME RingInv, kq # <<>>, kq' = Tail(kq), sq' = sq
  PROVE  /\ Len(Queue) \in Nat \ {0} /\ Queue[1] = Head(kq)
         /\ Len(Queue') = Len(Queue) - 1
         /\ \A i \in 1 .. Len(Queue) - 1 : Queue'[i] = Queue[i + 1]
<1>1. /\ Tail(kq) \in Seq(Slots) /\ Len(Tail(kq)) = Len(kq) - 1 /\ Head(kq) = kq[1]
      /\ Len(kq) \in Nat \ {0} /\ \A i \in 1 .. Len(Tail(kq)) : Tail(kq)[i] = kq[i + 1]
  BY SlotFacts, HeadTailProperties
<1>2. kq \in Seq(Slots) /\ sq \in Seq(Slots) /\ Len(sq) \in Nat
  BY SlotFacts
<1>3. /\ Len(Queue) = Len(kq) + Len(sq)
      /\ \A i \in 1 .. Len(kq) + Len(sq) :
           Queue[i] = IF i <= Len(kq) THEN kq[i] ELSE sq[i - Len(kq)]
  BY <1>2, ConcatProperties DEF Queue
<1>4. Queue' = Tail(kq) \o sq
  BY DEF Queue
<1>5. /\ Len(Queue') = Len(Tail(kq)) + Len(sq)
      /\ \A i \in 1 .. Len(Tail(kq)) + Len(sq) :
           Queue'[i] = IF i <= Len(Tail(kq)) THEN Tail(kq)[i] ELSE sq[i - Len(Tail(kq))]
  BY <1>1, <1>2, <1>4, ConcatProperties
<1>6. ASSUME NEW i \in 1 .. Len(Queue) - 1 PROVE Queue'[i] = Queue[i + 1]
  <2>1. i \in 1 .. Len(Tail(kq)) + Len(sq) /\ i + 1 \in 1 .. Len(kq) + Len(sq)
    BY <1>1, <1>2, <1>3
  <2>2. CASE i <= Len(Tail(kq))
    <3>1. i \in 1 .. Len(Tail(kq)) /\ i + 1 <= Len(kq)
      BY <1>1, <2>2
    <3>2. Queue'[i] = Tail(kq)[i] /\ Queue[i + 1] = kq[i + 1]
      BY <1>3, <1>5, <2>1, <2>2, <3>1
    <3> QED BY <1>1, <3>1, <3>2
  <2>3. CASE ~(i <= Len(Tail(kq)))
    <3>1. ~(i + 1 <= Len(kq)) /\ i - Len(Tail(kq)) = (i + 1) - Len(kq)
      BY <1>1, <2>3
    <3> QED BY <1>3, <1>5, <2>1, <2>3, <3>1
  <2> QED BY <2>2, <2>3
<1>7. Queue[1] = Head(kq)
  BY <1>1, <1>2, <1>3
<1> QED BY <1>1, <1>2, <1>3, <1>5, <1>6, <1>7

\* The slot t may be what a cancel SQE at position i of the queue names.
MayName(i, t) ==
  /\ t \in Slots
  /\ \/ t \in aimed \/ in_pool[t]
     \/ \E a \in Acts : pc[a] \in Holding /\ req[a] = t
     \/ \E j \in i + 1 .. Len(Queue) : Queue[j] = t

\* Every step keeps the order of cancels and targets.
LEMMA CancelsNext ==
  ASSUME RingInv, LockAgree, CancelsFirst, [Next]_vars
  PROVE  CancelsFirst'
<1>0. \A i \in 1 .. Len(Queue) : op[Queue[i]] = "cancel" => MayName(i, target[Queue[i]])
  BY DEF CancelsFirst, MayName
<1> DEFINE Goal == \A i \in 1 .. Len(Queue') :
                     op'[Queue'[i]] = "cancel" => MayName(i, target[Queue[i]])'
<1>1. Goal => CancelsFirst'
  BY DEF CancelsFirst, MayName
<1>2. ASSUME NEW a \in Acts, NEW s \in Slots, NEW kind \in Ops, NEW label \in Holding,
             Takes(a, s, kind, label)
      PROVE  CancelsFirst'
  <2>1. /\ pc[a] \notin Locked /\ lock \in {NoAct, a}
        /\ free # <<>> /\ s = free[Len(free)]
        /\ in_pool' = [in_pool EXCEPT ![s] = FALSE] /\ op' = [op EXCEPT ![s] = kind]
        /\ req' = [req EXCEPT ![a] = s] /\ pc' = [pc EXCEPT ![a] = label]
        /\ target' = target /\ aimed' = aimed /\ sq' = sq /\ kq' = kq
    BY <1>2 DEF Takes, TakeSlot, Goto, Locked, Holding, history
  <2>2. Queue' = Queue
    BY <2>1 DEF Queue
  <2>3. s \in Range(free)
    BY <2>1, SlotFacts, FrontRange
  <2>4. \A b \in Acts : pc[b] \notin Holding
    BY <2>1, NobodyLocked DEF Locked
  <2>5. /\ pc'[a] \in Holding /\ req'[a] = s
        /\ \A x \in Slots : x # s => in_pool'[x] = in_pool[x] /\ op'[x] = op[x]
    BY <2>1, SlotFacts DEF TypeOK, RequestTypes
  <2>6. ASSUME NEW i \in 1 .. Len(Queue'), op'[Queue'[i]] = "cancel"
        PROVE  MayName(i, target[Queue[i]])'
    <3>1. i \in 1 .. Len(Queue) /\ Queue[i] \in Slots /\ Queue[i] # s
      BY <2>2, <2>3, QueueFacts
    <3>2. MayName(i, target[Queue[i]])
      BY <1>0, <2>2, <2>5, <2>6, <3>1
    <3> QED BY <2>1, <2>2, <2>4, <2>5, <3>2 DEF MayName
  <2> QED BY <1>1, <2>6
<1>3. ASSUME NEW a \in Acts, RingSubmit(a) \/ RingSubmitCancel(a)
      PROVE  CancelsFirst'
  <2> DEFINE s == req[a]
             n == Len(Queue)
  <2>1. /\ pc[a] \in Holding /\ sq' = Append(sq, s) /\ kq' = kq /\ in_pool' = in_pool
        /\ op' = op /\ req' = req /\ aimed \subseteq aimed'
        /\ \E l \in {"submitted", "cancelqueued"} : pc' = [pc EXCEPT ![a] = l]
    BY <1>3 DEF RingSubmit, RingSubmitCancel, QueueSqe, Goto, Holding, callVars,
                kernelVars, history
  <2>2. s \in Slots /\ \A i \in 1 .. n : Queue[i] # s
    BY <2>1, SlotFacts, QueueFacts DEF LocalsAgree
  <2>3. \A x \in Slots : x # s => target'[x] = target[x]
    BY <1>3, SlotFacts DEF RingSubmit, RingSubmitCancel, TypeOK, RequestTypes
  <2>4. /\ Len(Queue') = n + 1 /\ Queue'[n + 1] = s
        /\ \A i \in 1 .. n : Queue'[i] = Queue[i]
    BY <2>1, <2>2, AppendQueue
  <2>5. \A b \in Acts : b # a => pc'[b] = pc[b]
    BY <2>1, SlotFacts
  <2>6. n \in Nat /\ \A i \in 1 .. n : Queue[i] \in Slots
    BY QueueFacts
  <2>7. op[s] = "cancel" => target'[s] \in Slots /\ target'[s] \in aimed'
    <3>1. CASE RingSubmit(a)
      BY <3>1 DEF RingSubmit, LockAgree
    <3>2. CASE RingSubmitCancel(a)
      BY <2>2, <3>2, SlotFacts DEF RingSubmitCancel, LocalsAgree, TypeOK, RequestTypes
    <3> QED BY <1>3, <3>1, <3>2
  <2> HIDE DEF s, n
  <2>8. ASSUME NEW i \in 1 .. Len(Queue'), op'[Queue'[i]] = "cancel"
        PROVE  MayName(i, target[Queue[i]])'
    <3>1. CASE i = n + 1
      BY <2>1, <2>4, <2>7, <2>8, <3>1 DEF MayName
    <3>2. CASE i # n + 1
      <4>1. i \in 1 .. n /\ Queue'[i] = Queue[i] /\ Queue[i] \in Slots /\ Queue[i] # s
        BY <2>2, <2>4, <2>6, <3>2
      <4>2. target'[Queue'[i]] = target[Queue[i]]
        BY <2>3, <4>1
      <4> DEFINE t == target[Queue[i]]
      <4>3. MayName(i, t)
        BY <1>0, <2>1, <2>8, <4>1 DEF n
      <4> HIDE DEF t
      <4>4. \/ t \in aimed' \/ in_pool'[t]
            \/ \E b \in Acts : pc'[b] \in Holding /\ req'[b] = t
            \/ \E j \in i + 1 .. Len(Queue') : Queue'[j] = t
        <5>1. CASE t \in aimed \/ in_pool[t]
          BY <2>1, <5>1
        <5>2. ASSUME NEW b \in Acts, pc[b] \in Holding, req[b] = t
              PROVE  \/ \E c \in Acts : pc'[c] \in Holding /\ req'[c] = t
                     \/ \E j \in i + 1 .. Len(Queue') : Queue'[j] = t
          <6>1. CASE b = a
            <7>1. n + 1 \in i + 1 .. Len(Queue') /\ Queue'[n + 1] = t
              BY <2>4, <2>6, <4>1, <5>2, <6>1 DEF s
            <7> QED BY <7>1
          <6>2. CASE b # a
            BY <2>1, <2>5, <5>2, <6>2
          <6> QED BY <6>1, <6>2
        <5>3. ASSUME NEW j \in i + 1 .. n, Queue[j] = t
              PROVE  \E k \in i + 1 .. Len(Queue') : Queue'[k] = t
          <6>1. j \in 1 .. n /\ j \in i + 1 .. Len(Queue')
            BY <2>4, <2>6, <4>1
          <6> QED BY <2>4, <5>3, <6>1
        <5> QED BY <4>3, <5>1, <5>2, <5>3 DEF MayName, n
      <4>5. t \in Slots
        BY <4>3 DEF MayName
      <4> QED BY <4>2, <4>4, <4>5 DEF MayName, t
    <3> QED BY <3>1, <3>2
  <2> QED BY <1>1, <2>8
<1>4. ASSUME NEW a \in Acts, GivesBack(a) PROVE CancelsFirst'
  <2>1. /\ in_pool' = [s \in Slots |-> in_pool[s] \/ s = req[a]]
        /\ req[a] \in Slots
        /\ \A s \in Slots : s # req[a] => op'[s] = op[s] /\ target'[s] = target[s]
        /\ aimed' = aimed \ {req[a]}
    BY <1>4, BackOutstanding
  <2>2. /\ pc[a] \in Holding /\ sq' = sq /\ kq' = kq
        /\ \A b \in Acts : b # a => pc'[b] = pc[b] /\ req'[b] = req[b]
    BY <1>4, SlotFacts DEF GivesBack, Return, Goto
  <2>3. Queue' = Queue
    BY <2>2 DEF Queue
  <2>4. \A x \in Slots : in_pool'[x] <=> in_pool[x] \/ x = req[a]
    BY <2>1, Zenon
  <2>5. ASSUME NEW i \in 1 .. Len(Queue'), op'[Queue'[i]] = "cancel"
        PROVE  MayName(i, target[Queue[i]])'
    <3>1. i \in 1 .. Len(Queue) /\ Queue[i] \in Slots /\ Queue[i] # req[a]
      BY <2>2, <2>3, QueueFacts
    <3>2. MayName(i, target[Queue[i]])
      BY <1>0, <2>1, <2>3, <2>5, <3>1
    <3>3. target'[Queue'[i]] = target[Queue[i]]
      BY <2>1, <2>3, <3>1
    <3> DEFINE t == target[Queue[i]]
    <3> HIDE DEF t
    <3>4. CASE t = req[a]
      BY <2>1, <2>4, <3>3, <3>4 DEF MayName, t
    <3>5. CASE t # req[a]
      BY <2>1, <2>2, <2>3, <2>4, <3>2, <3>3, <3>5 DEF MayName, t
    <3> QED BY <3>4, <3>5
  <2> QED BY <1>1, <2>5
<1>5. ASSUME NEW a \in Acts, RetireBatch(a) PROVE CancelsFirst'
  <2> DEFINE R == Range(retire[a])
  <2>1. /\ in_pool' = [s \in Slots |-> in_pool[s] \/ s \in R]
        /\ \A s \in Slots : s \notin R => op'[s] = op[s] /\ target'[s] = target[s]
        /\ aimed' = aimed \ R
    BY <1>5, RetireOutstanding
  <2>2. /\ lock = NoAct /\ pc[a] \notin Locked /\ sq' = sq /\ kq' = kq
    BY <1>5 DEF RetireBatch, Locked, Holding
  <2>3. Queue' = Queue
    BY <2>2 DEF Queue
  <2>4. \A b \in Acts : pc[b] \notin Holding
    BY <2>2, NobodyLocked DEF Locked
  <2>5. \A s \in R : ~pending[s]
    BY NoBug DEF NoBugBranch, Puttable
  <2> HIDE DEF R
  <2>6. \A x \in Slots : in_pool'[x] <=> in_pool[x] \/ x \in R
    BY <2>1, Zenon
  <2>7. ASSUME NEW i \in 1 .. Len(Queue'), op'[Queue'[i]] = "cancel"
        PROVE  MayName(i, target[Queue[i]])'
    <3>1. i \in 1 .. Len(Queue) /\ Queue[i] \in Slots /\ Queue[i] \notin R
      BY <2>3, <2>5, QueueFacts
    <3>2. MayName(i, target[Queue[i]])
      BY <1>0, <2>1, <2>3, <2>7, <3>1
    <3>3. target'[Queue'[i]] = target[Queue[i]]
      BY <2>1, <2>3, <3>1
    <3> DEFINE t == target[Queue[i]]
    <3> HIDE DEF t
    <3>4. CASE t \in R
      BY <2>6, <3>2, <3>3, <3>4 DEF MayName, t
    <3>5. CASE t \notin R
      BY <2>1, <2>3, <2>4, <2>6, <3>2, <3>3, <3>5 DEF MayName, t
    <3> QED BY <3>4, <3>5
  <2> QED BY <1>1, <2>7
<1>6. ASSUME NEW a \in Acts, ProcessCompletion(a) \/ CallbackReturn(a)
      PROVE  CancelsFirst'
  <2>1. /\ UNCHANGED <<sq, kq, op, target, in_pool, aimed, req>> /\ pc[a] \notin Holding
        /\ pc' = pc \/ \E l \in {"process", "callback"} : pc' = [pc EXCEPT ![a] = l]
    BY <1>6 DEF ProcessCompletion, CallbackReturn, Goto, Holding, callVars, reqVars,
                kernelVars, history
  <2>2. \A b \in Acts : pc'[b] \in Holding <=> pc[b] \in Holding
    BY <2>1, SlotFacts DEF Holding
  <2>3. Queue' = Queue
    BY <2>1 DEF Queue
  <2>4. Goal
    BY <1>0, <2>1, <2>2, <2>3 DEF MayName
  <2> QED BY <1>1, <2>4
<1>7. CASE KernelIssue
  <2>1. /\ UNCHANGED <<sq, op, target, in_pool, aimed, req, pc>>
        /\ kq # <<>> /\ kq' = Tail(kq)
    BY <1>7 DEF KernelIssue, reqVars, callVars, history
  <2> DEFINE n == Len(Queue)
  <2>2. /\ n \in Nat \ {0} /\ Len(Queue') = n - 1
        /\ \A i \in 1 .. n - 1 : Queue'[i] = Queue[i + 1]
    BY <2>1, TailQueue
  <2> HIDE DEF n
  <2>3. ASSUME NEW i \in 1 .. Len(Queue'), op'[Queue'[i]] = "cancel"
        PROVE  MayName(i, target[Queue[i]])'
    <3>1. i \in 1 .. n - 1 /\ i + 1 \in 1 .. n /\ Queue'[i] = Queue[i + 1]
      BY <2>2
    <3> DEFINE t == target[Queue[i + 1]]
    <3>2. MayName(i + 1, t)
      BY <1>0, <2>1, <2>3, <3>1 DEF n
    <3> HIDE DEF t
    <3>3. ASSUME NEW j \in i + 1 + 1 .. n, Queue[j] = t
          PROVE  \E k \in i + 1 .. Len(Queue') : Queue'[k] = t
      <4>1. j - 1 \in i + 1 .. Len(Queue') /\ j - 1 \in 1 .. n - 1 /\ (j - 1) + 1 = j
        BY <2>2, <3>1
      <4>2. Queue'[j - 1] = t
        BY <2>2, <3>3, <4>1
      <4> QED BY <4>1, <4>2
    <3>4. target'[Queue'[i]] = t
      BY <2>1, <3>1 DEF t
    <3> QED BY <2>1, <3>2, <3>3, <3>4 DEF MayName, n
  <2> QED BY <1>1, <2>3
<1>8. CASE Quiet
  <2>1. /\ UNCHANGED <<op, target, in_pool, aimed>>
        /\ \A b \in Acts : /\ pc'[b] \in Holding <=> pc[b] \in Holding
                           /\ pc[b] \in Holding => req'[b] = req[b]
    BY <1>8 DEF Quiet, SameStanding
  <2>2. Queue' = Queue
    BY <1>8, FlushKeepsQueue DEF Quiet
  <2>3. Goal
    BY <1>0, <2>1, <2>2 DEF MayName
  <2> QED BY <1>1, <2>3
<1> QED BY <1>2, <1>3, <1>4, <1>5, <1>6, <1>7, <1>8, StepKinds

\* Every step ends only requests that a cancel was aimed at.
LEMMA AimedNext ==
  ASSUME RingInv, LockAgree, CancelsFirst, CancelHitsAimed, [Next]_vars
  PROVE  CancelHitsAimed'
<1>1. CASE \E a \in Acts, s \in Slots, kind \in Ops, label \in Holding :
             Takes(a, s, kind, label)
  BY <1>1 DEF Takes, TakeSlot, history, CancelHitsAimed
<1>2. ASSUME NEW a \in Acts, GivesBack(a) PROVE CancelHitsAimed'
  BY <1>2, BackOutstanding DEF CancelHitsAimed
<1>3. ASSUME NEW a \in Acts, RetireBatch(a) PROVE CancelHitsAimed'
  BY <1>3, RetireOutstanding DEF CancelHitsAimed
<1>4. ASSUME NEW a \in Acts,
             \/ RingSubmit(a) \/ RingSubmitCancel(a)
             \/ ProcessCompletion(a) \/ CallbackReturn(a)
      PROVE  CancelHitsAimed'
  BY <1>4 DEF RingSubmit, RingSubmitCancel, ProcessCompletion, CallbackReturn,
              kernelVars, history, CancelHitsAimed
<1>5. CASE Quiet
  BY <1>5 DEF Quiet, CancelHitsAimed
<1>6. CASE KernelIssue
  <2> DEFINE s == Head(kq)
  <2>1. aimed' = aimed /\ kq # <<>> /\ kq' = Tail(kq) /\ sq' = sq
    BY <1>6 DEF KernelIssue, history
  <2>2. CASE canceled' = canceled
    BY <2>1, <2>2 DEF CancelHitsAimed
  <2>3. CASE /\ op[s] = "cancel" /\ target[s] \in inflight
             /\ canceled' = canceled \cup {target[s]}
    <3>1. 1 \in 1 .. Len(Queue) /\ Queue[1] = s
      BY <2>1, TailQueue
    <3> DEFINE t == target[s]
    <3>2. MayName(1, t)
      BY <2>3, <3>1 DEF CancelsFirst, MayName
    <3>3. t \in Slots /\ t \in At[InFlight]
      BY <2>3, <3>2, AtValues DEF MayName
    <3>4. t \notin Range(free) /\ \A a \in Acts : pc[a] \in Holding => t # req[a]
      BY <3>3, OnlyAt, PlaceNames, PlacesDiffer
    <3>5. ~in_pool[t]
      BY <3>3, <3>4, SlotFacts DEF FlagsAgree
    <3>6. \A j \in 1 + 1 .. Len(Queue) : Queue[j] # t
      BY <2>3, QueueFacts
    <3>7. t \in aimed
      BY <3>2, <3>4, <3>5, <3>6 DEF MayName
    <3> QED BY <2>1, <2>3, <3>7 DEF CancelHitsAimed
  <2> QED BY <1>6, <2>2, <2>3 DEF KernelIssue
<1> QED BY <1>1, <1>2, <1>3, <1>4, <1>5, <1>6, StepKinds

\* No cancel is queued at first.
LEMMA InitCancels == Init => CancelsFirst /\ CancelHitsAimed
<1> SUFFICES ASSUME Init PROVE CancelsFirst /\ CancelHitsAimed
  OBVIOUS
<1>1. RingInv /\ Len(kq) = 0 /\ Len(sq) = 0
  BY InitInv DEF Init
<1>2. Len(Queue) = 0
  BY <1>1, QueueFacts
<1> QED BY <1>2 DEF CancelsFirst, CancelHitsAimed, Init
-----------------------------------------------------------------------------
(* The inductive invariant *)

LEMMA StrongInit == Init => RingStrong
BY InitInv, InitLock, InitCounters, InitFixed, InitLimit, InitCancels DEF RingStrong

LEMMA StrongStep == RingStrong /\ [Next]_vars => RingStrong'
<1> SUFFICES ASSUME RingStrong, [Next]_vars PROVE RingStrong'
  OBVIOUS
<1>1. /\ RingInv /\ LockAgree /\ CountersExact /\ FixedInflightExact
      /\ LimitRespected /\ CancelsFirst /\ CancelHitsAimed
  BY DEF RingStrong
<1>2. RingInv'
  BY <1>1, StepInv
<1>3. LockAgree' /\ CountersExact' /\ FixedInflightExact' /\ LimitRespected'
  BY <1>1, LockNext, CountersNext, FixedNext, LimitNext
<1>4. CancelsFirst' /\ CancelHitsAimed'
  BY <1>1, CancelsNext, AimedNext
<1> QED BY <1>2, <1>3, <1>4 DEF RingStrong

\* The inductive invariant of the ring, with what ring->lock protects, the
\* counters, the limit and the order of cancels, holds in every reachable
\* state.
THEOREM RingStrongInvariant == Spec => []RingStrong
BY StrongInit, StrongStep, PTL DEF Spec

\* pending_count and queued_sqes are exact, whatever the flush failures: no
\* request is counted twice or forgotten, and the clamped decrement of
\* ring_flush never hides one.
THEOREM CountersCorrect == Spec => []CountersExact
<1>1. RingStrong => CountersExact
  BY DEF RingStrong
<1> QED BY <1>1, RingStrongInvariant, PTL

\* With fixed_file_inflight and fixed_buf_inflight, all four counters are.
THEOREM AllCountersCorrect == Spec => []AllCountsExact
<1>1. RingStrong => AllCountsExact
  BY DEF RingStrong, AllCountsExact
<1> QED BY <1>1, RingStrongInvariant, PTL

\* The operations in flight never exceed the largest limit published, although
\* submit_begin gives the lock up between its two checks.
THEOREM LimitKept == Spec => []LimitRespected
<1>1. RingStrong => LimitRespected
  BY DEF RingStrong
<1> QED BY <1>1, RingStrongInvariant, PTL

\* submit_get_sqe never finds the SQ full.
THEOREM SqeAvailable == Spec => []SqNeverFull
<1>1. RingInv => SqNeverFull
  BY RoomForSqe
<1> QED BY <1>1, RingInvariant, PTL

\* A cancel SQE never ends a later request in the slot it names, however long
\* it stays unpublished.
THEOREM CancelsAimed == Spec => []CancelHitsAimed
<1>1. RingStrong => CancelHitsAimed
  BY DEF RingStrong
<1> QED BY <1>1, RingStrongInvariant, PTL

-----------------------------------------------------------------------------
(* The request lifecycle *)

InHand(s)     == \E a \in Acts : pc[a] \in Holding /\ req[a] = s
InCallback(s) == \E a \in Acts : pc[a] = "callback" /\ retire[a][Len(retire[a])] = s

\* The phase of a slot, and of the same slot after a step.
LEMMA PhaseValues ==
  /\ Phase = [s \in Slots |-> IF in_pool[s] THEN "free"
                              ELSE IF InHand(s) THEN "held"
                              ELSE IF pending[s] THEN "submitted"
                              ELSE IF InCallback(s) THEN "callback" ELSE "done"]
  /\ Phase' = [s \in Slots |-> IF in_pool'[s] THEN "free"
                               ELSE IF InHand(s)' THEN "held"
                               ELSE IF pending'[s] THEN "submitted"
                               ELSE IF InCallback(s)' THEN "callback" ELSE "done"]
BY DEF Phase, InHand, InCallback

\* A slot whose flags and holders a step leaves alone keeps its phase.
LEMMA SamePhase ==
  ASSUME NEW s \in Slots, in_pool'[s] <=> in_pool[s], pending'[s] <=> pending[s],
         InHand(s)' <=> InHand(s), InCallback(s)' <=> InCallback(s)
  PROVE  Phase'[s] = Phase[s]
BY PhaseValues, Zenon

\* The request whose callback runs is on the retire list of that drain only.
LEMMA LastRetired ==
  ASSUME RingInv, NEW a \in Acts, pc[a] = "callback"
  PROVE  retire[a][Len(retire[a])] \in Range(retire[a])
<1>1. retire[a] # <<>> /\ retire[a] \in Seq(Slots)
  BY SlotFacts DEF LocalsAgree
<1>2. Len(retire[a]) \in DOMAIN retire[a]
  BY <1>1
<1> QED BY <1>2 DEF Range

LEMMA RetireAlone ==
  ASSUME RingInv, NEW a \in Acts, NEW s \in Range(retire[a])
  PROVE  /\ s \in Slots /\ ~in_pool[s] /\ ~pending[s] /\ ~InHand(s)
         /\ \A b \in Acts : b # a => s \notin Range(retire[b])
<1>1. s \in Slots /\ Puttable(s)
  BY SlotFacts, NoBug, RangeOfSeq DEF NoBugBranch
<1>2. s \in At[Retire(a)]
  BY AtValues
<1>3. \A b \in Acts : /\ pc[b] \in Holding => s # req[b]
                      /\ b # a => s \notin Range(retire[b])
  BY <1>1, <1>2, OnlyAt, PlaceNames, PlacesDiffer
<1> QED BY <1>1, <1>3 DEF Puttable, InHand

\* One activation moves: a slot that it neither holds nor calls back for,
\* before or after, keeps its standing.
LEMMA SameHands ==
  ASSUME NEW a \in Acts, NEW t,
         \A b \in Acts : b # a => /\ pc'[b] = pc[b] /\ req'[b] = req[b]
                                  /\ retire'[b] = retire[b],
         pc[a] \in Holding => req[a] # t,
         pc'[a] \in Holding => req'[a] # t,
         pc[a] = "callback" => retire[a][Len(retire[a])] # t,
         pc'[a] = "callback" => retire'[a][Len(retire'[a])] # t
  PROVE  (InHand(t)' <=> InHand(t)) /\ (InCallback(t)' <=> InCallback(t))
BY DEF InHand, InCallback

\* One slot changes phase.
LEMMA OneMoves ==
  ASSUME NEW s \in Slots, NEW from, NEW to, Phase[s] = from, Phase'[s] = to,
         \A t \in Slots : t # s => Phase'[t] = Phase[t]
  PROVE  Lifecycle!Step(s, from, to)
<1>1. /\ Phase = [t \in Slots |-> Phase[t]]
      /\ Phase' = [t \in Slots |-> Phase'[t]]
  BY PhaseValues
<1>2. Phase' = [Phase EXCEPT ![s] = to]
  BY <1>1
<1> QED BY <1>2 DEF Lifecycle!Step

\* A slot in the hands of one thread is in no callback, and in no other hands.
LEMMA HeldAlone ==
  ASSUME RingInv, LockAgree, NEW a \in Acts, pc[a] \in Holding
  PROVE  /\ req[a] \in Slots /\ Puttable(req[a])
         /\ \A b \in Acts : pc[b] \in Holding => b = a
         /\ \A b \in Acts : req[a] \notin Range(retire[b])
         /\ ~InCallback(req[a])
<1>1. req[a] \in Slots /\ Puttable(req[a])
  BY SlotFacts, NoBug DEF LocalsAgree, NoBugBranch
<1>2. \A b \in Acts : pc[b] \in Holding => b = a
  BY DEF LockAgree, Locked
<1>3. \A b \in Acts : req[a] \notin Range(retire[b])
  BY RetireAlone DEF InHand
<1> QED BY <1>1, <1>2, <1>3, LastRetired DEF InCallback

LEMMA TakePhase ==
  ASSUME RingStrong, NEW a \in Acts, NEW s \in Slots, NEW kind \in Ops,
         NEW label \in Holding, Takes(a, s, kind, label)
  PROVE  Lifecycle!Acquire(s)
<1>1. RingInv /\ TypeOK
  BY SlotFacts DEF RingStrong
<1>2. /\ in_pool \in [Slots -> BOOLEAN] /\ pending \in [Slots -> BOOLEAN]
      /\ pc \in [Acts -> PcValues] /\ req \in [Acts -> Slots \cup {NoSlot}]
      /\ free \in Seq(Slots)
  BY <1>1 DEF TypeOK, RingTypes, RequestTypes, CallTypes
<1>3. /\ in_pool' = [in_pool EXCEPT ![s] = FALSE]
      /\ pending' = [pending EXCEPT ![s] = FALSE]
      /\ pc' = [pc EXCEPT ![a] = label] /\ req' = [req EXCEPT ![a] = s]
      /\ retire' = retire /\ pc[a] \notin Holding /\ pc[a] # "callback"
      /\ label # "callback"
      /\ free # <<>> /\ s = free[Len(free)]
  BY DEF Takes, TakeSlot, Goto, listVars, Holding
<1>4. in_pool[s]
  <2>1. Len(free) \in DOMAIN free
    BY <1>2, <1>3
  <2>2. s \in Range(free)
    BY <1>3, <2>1 DEF Range
  <2> QED BY <1>1, <2>2 DEF RingInv, FlagsAgree
<1>5. Phase[s] = "free"
  BY <1>4, PhaseValues
<1>6. Phase'[s] = "held"
  <2>1. pc'[a] = label /\ req'[a] = s /\ ~in_pool'[s]
    BY <1>2, <1>3
  <2>2. InHand(s)'
    BY <2>1 DEF InHand
  <2> QED BY <2>1, <2>2, PhaseValues
<1>7. ASSUME NEW t \in Slots, t # s PROVE Phase'[t] = Phase[t]
  <2>1. in_pool'[t] = in_pool[t] /\ pending'[t] = pending[t]
    BY <1>2, <1>3, <1>7
  <2>2. pc'[a] = label /\ req'[a] = s
        /\ \A b \in Acts : b # a => pc'[b] = pc[b] /\ req'[b] = req[b]
    BY <1>2, <1>3
  <2>3. (InHand(t)' <=> InHand(t)) /\ (InCallback(t)' <=> InCallback(t))
    BY <1>3, <1>7, <2>2, SameHands
  <2> QED BY <2>1, <2>3, SamePhase
<1> QED BY <1>5, <1>6, <1>7, OneMoves DEF Lifecycle!Acquire

LEMMA SubmitPhase ==
  ASSUME RingStrong, NEW a \in Acts, RingSubmit(a) \/ RingSubmitCancel(a)
  PROVE  Lifecycle!Submit(req[a])
<1>1. RingInv /\ LockAgree /\ TypeOK
  BY SlotFacts DEF RingStrong
<1>2. /\ in_pool \in [Slots -> BOOLEAN] /\ pending \in [Slots -> BOOLEAN]
      /\ pc \in [Acts -> PcValues]
  BY <1>1 DEF TypeOK, RequestTypes, CallTypes
<1>0. PICK s : s = req[a]
  OBVIOUS
<1>3. /\ pc[a] \in Holding /\ pending' = [pending EXCEPT ![s] = TRUE]
      /\ in_pool' = in_pool /\ req' = req /\ retire' = retire
      /\ \E l \in {"submitted", "cancelqueued"} : pc' = [pc EXCEPT ![a] = l]
  BY <1>0 DEF RingSubmit, RingSubmitCancel, QueueSqe, Goto, callVars, drainVars, listVars, Holding
<1>4. /\ s \in Slots /\ ~in_pool[s] /\ \A b \in Acts : pc[b] \in Holding => b = a
  BY <1>0, <1>1, <1>3, HeldAlone DEF Puttable
<1>5. pc'[a] \in {"submitted", "cancelqueued"} /\ \A b \in Acts : b # a => pc'[b] = pc[b]
  BY <1>2, <1>3
<1>6. pc[a] # "callback" /\ pc'[a] # "callback" /\ pc'[a] \notin Holding
  BY <1>3, <1>5 DEF Holding
<1>7. Phase[s] = "held"
  <2>1. InHand(s)
    BY <1>0, <1>3 DEF InHand
  <2> QED BY <1>4, <2>1, PhaseValues
<1>8. Phase'[s] = "submitted"
  <2>1. ~InHand(s)'
    BY <1>4, <1>5, <1>6 DEF InHand
  <2>2. ~in_pool'[s] /\ pending'[s]
    BY <1>2, <1>3, <1>4
  <2> QED BY <1>4, <2>1, <2>2, PhaseValues
<1>9. ASSUME NEW t \in Slots, t # s PROVE Phase'[t] = Phase[t]
  <2>1. in_pool'[t] = in_pool[t] /\ pending'[t] = pending[t]
    BY <1>2, <1>3, <1>9
  <2>2. (InHand(t)' <=> InHand(t)) /\ (InCallback(t)' <=> InCallback(t))
    BY <1>0, <1>3, <1>5, <1>6, <1>9, SameHands
  <2> QED BY <2>1, <2>2, SamePhase
<1> QED BY <1>0, <1>4, <1>7, <1>8, <1>9, OneMoves DEF Lifecycle!Submit

LEMMA ReleasePhase ==
  ASSUME RingStrong, NEW a \in Acts, GivesBack(a)
  PROVE  req[a] \in Slots /\ Lifecycle!Release(req[a])
<1> DEFINE s == req[a]
<1>1. RingInv /\ LockAgree /\ TypeOK
  BY SlotFacts DEF RingStrong
<1>2. /\ in_pool \in [Slots -> BOOLEAN] /\ pc \in [Acts -> PcValues]
      /\ req \in [Acts -> Slots \cup {NoSlot}]
  BY <1>1 DEF TypeOK, RequestTypes, CallTypes
<1>3. /\ pc[a] \in Holding /\ pending' = pending /\ retire' = retire
      /\ ring_put_requests(<<s>>)
      /\ pc' = [pc EXCEPT ![a] = "idle"] /\ req' = [req EXCEPT ![a] = NoSlot]
  BY DEF GivesBack, Return, listVars, Goto
<1>4. s \in Slots /\ Puttable(s)
  BY <1>1, <1>3, HeldAlone
<1>5. in_pool' = [t \in Slots |-> in_pool[t] \/ t = s]
  <2>1. <<s>> \in Seq(Slots) /\ Range(<<s>>) = {s}
    BY <1>4 DEF Range
  <2> QED BY <1>1, <1>3, <1>4, <2>1, PutEffect
<1>6. /\ pc'[a] = "idle" /\ pc'[a] \notin Holding /\ pc[a] # "callback"
      /\ \A b \in Acts : b # a => pc'[b] = pc[b] /\ req'[b] = req[b]
  BY <1>2, <1>3 DEF Holding
<1>7. Phase[s] = "held"
  <2>1. InHand(s)
    BY <1>3 DEF InHand
  <2> QED BY <1>4, <2>1, PhaseValues DEF Puttable
<1>8. Phase'[s] = "free"
  BY <1>4, <1>5, PhaseValues
<1>9. ASSUME NEW t \in Slots, t # s PROVE Phase'[t] = Phase[t]
  <2>1. in_pool'[t] = in_pool[t] /\ pending'[t] = pending[t]
    BY <1>2, <1>3, <1>5, <1>9
  <2>2. (InHand(t)' <=> InHand(t)) /\ (InCallback(t)' <=> InCallback(t))
    BY <1>3, <1>6, <1>9, SameHands
  <2> QED BY <2>1, <2>2, SamePhase
<1> QED BY <1>4, <1>7, <1>8, <1>9, OneMoves DEF Lifecycle!Release

LEMMA ProcessPhase ==
  ASSUME RingStrong, NEW a \in Acts, ProcessCompletion(a)
  PROVE  \E s \in Slots : Lifecycle!Deliver(s) \/ Lifecycle!Discard(s)
<1>0. PICK s : s = Head(batch[a])
  OBVIOUS
<1>1. RingInv /\ LockAgree /\ TypeOK
  BY SlotFacts DEF RingStrong
<1>2. /\ pending \in [Slots -> BOOLEAN] /\ pc \in [Acts -> PcValues]
      /\ batch[a] \in Seq(Slots) /\ retire \in [Acts -> Seq(Slots)]
  BY <1>1 DEF TypeOK, RequestTypes, CallTypes, QueueTypes
<1>3. /\ pc[a] = "process" /\ batch[a] # <<>> /\ in_pool' = in_pool /\ req' = req
  BY DEF ProcessCompletion, callVars
<1>4. s \in Range(batch[a])
  <2>1. 1 \in DOMAIN batch[a] /\ s = batch[a][1]
    BY <1>0, <1>2, <1>3
  <2> QED BY <2>1 DEF Range
<1>5. s \in Slots /\ pending[s] /\ ~InHand(s)
  BY <1>1, <1>4, BatchNotInHand DEF InHand
<1>6. ~in_pool[s] /\ \A b \in Acts : s \notin Range(retire[b])
  <2>1. s \in At[Batch(a)]
    BY <1>4, AtValues
  <2>2. s \notin Range(free) /\ \A b \in Acts : s \notin Range(retire[b])
    BY <1>1, <1>5, <2>1, OnlyAt, PlaceNames, PlacesDiffer
  <2> QED BY <1>1, <1>5, <2>2 DEF RingInv, FlagsAgree
<1>7. Phase[s] = "submitted"
  BY <1>5, <1>6, PhaseValues
<1>8. /\ pending' = [pending EXCEPT ![s] = FALSE]
      /\ retire' = [retire EXCEPT ![a] = Append(@, s)]
      /\ \/ pc' = [pc EXCEPT ![a] = "process"]
         \/ pc' = [pc EXCEPT ![a] = "callback"]
  BY <1>0, <1>5 DEF ProcessCompletion, Goto
<1>9. /\ \A b \in Acts : b # a => /\ pc'[b] = pc[b] /\ req'[b] = req[b]
                                  /\ retire'[b] = retire[b]
      /\ retire'[a][Len(retire'[a])] = s
      /\ pc'[a] \in {"process", "callback"} /\ ~pending'[s]
      /\ pc[a] \notin Holding /\ pc'[a] \notin Holding
  <2>1. retire[a] \in Seq(Slots) /\ retire'[a] = Append(retire[a], s)
    BY <1>2, <1>8
  <2>2. retire'[a][Len(retire'[a])] = s
    BY <1>5, <2>1
  <2> QED BY <1>2, <1>3, <1>5, <1>8, <2>2 DEF Holding
<1>10. ~InHand(s)'
  BY <1>3, <1>5, <1>9 DEF InHand
<1>11. ASSUME NEW t \in Slots, t # s PROVE Phase'[t] = Phase[t]
  <2>1. in_pool'[t] = in_pool[t] /\ pending'[t] = pending[t]
    BY <1>2, <1>3, <1>8, <1>11
  <2>2. (InHand(t)' <=> InHand(t)) /\ (InCallback(t)' <=> InCallback(t))
    BY <1>3, <1>9, <1>11, SameHands
  <2> QED BY <2>1, <2>2, SamePhase
<1>12. CASE pc'[a] = "callback"
  <2>1. InCallback(s)'
    BY <1>9, <1>12 DEF InCallback
  <2>2. Phase'[s] = "callback"
    BY <1>3, <1>5, <1>6, <1>9, <1>10, <2>1, PhaseValues
  <2> QED BY <1>5, <1>7, <1>11, <2>2, OneMoves DEF Lifecycle!Deliver
<1>13. CASE pc'[a] = "process"
  <2>1. ASSUME NEW b \in Acts, pc'[b] = "callback", retire'[b][Len(retire'[b])] = s
        PROVE  FALSE
    <3>1. b # a /\ pc[b] = "callback" /\ retire[b][Len(retire[b])] = s
      BY <1>9, <1>13, <2>1
    <3> QED BY <1>1, <1>6, <3>1, LastRetired
  <2>2. ~InCallback(s)'
    BY <2>1 DEF InCallback
  <2>3. Phase'[s] = "done"
    BY <1>3, <1>5, <1>6, <1>9, <1>10, <2>2, PhaseValues
  <2> QED BY <1>5, <1>7, <1>11, <2>3, OneMoves DEF Lifecycle!Discard
<1> QED BY <1>9, <1>12, <1>13

LEMMA FinishPhase ==
  ASSUME RingStrong, NEW a \in Acts, CallbackReturn(a)
  PROVE  \E s \in Slots : Lifecycle!Finish(s)
<1>0. PICK s : s = retire[a][Len(retire[a])]
  OBVIOUS
<1>1. RingInv /\ LockAgree /\ TypeOK
  BY SlotFacts DEF RingStrong
<1>2. pc \in [Acts -> PcValues]
  BY <1>1 DEF TypeOK, CallTypes
<1>3. /\ pc[a] = "callback" /\ pc' = [pc EXCEPT ![a] = "process"]
      /\ UNCHANGED <<in_pool, pending, req, retire>>
  BY DEF CallbackReturn, Goto, reqVars, callVars, drainVars, listVars
<1>4. /\ s \in Slots /\ ~in_pool[s] /\ ~pending[s] /\ ~InHand(s)
      /\ \A b \in Acts : b # a => s \notin Range(retire[b])
  BY <1>0, <1>1, <1>3, LastRetired, RetireAlone
<1>5. /\ pc'[a] = "process" /\ \A b \in Acts : b # a => pc'[b] = pc[b]
      /\ pc[a] \notin Holding /\ pc'[a] \notin Holding
  BY <1>2, <1>3 DEF Holding
<1>6. Phase[s] = "callback"
  <2>1. InCallback(s)
    BY <1>0, <1>3 DEF InCallback
  <2> QED BY <1>4, <2>1, PhaseValues
<1>7. Phase'[s] = "done"
  <2>1. ~InHand(s)'
    BY <1>3, <1>4, <1>5 DEF InHand
  <2>2. ASSUME NEW b \in Acts, pc'[b] = "callback", retire'[b][Len(retire'[b])] = s
        PROVE  FALSE
    <3>1. b # a /\ pc[b] = "callback" /\ retire[b][Len(retire[b])] = s
      BY <1>3, <1>5, <2>2
    <3> QED BY <1>1, <1>4, <3>1, LastRetired
  <2>3. ~InCallback(s)'
    BY <2>2 DEF InCallback
  <2> QED BY <1>3, <1>4, <2>1, <2>3, PhaseValues
<1>8. ASSUME NEW t \in Slots, t # s PROVE Phase'[t] = Phase[t]
  <2>1. (InHand(t)' <=> InHand(t)) /\ (InCallback(t)' <=> InCallback(t))
    BY <1>0, <1>3, <1>5, <1>8, SameHands
  <2> QED BY <1>3, <2>1, SamePhase
<1> QED BY <1>4, <1>6, <1>7, <1>8, OneMoves DEF Lifecycle!Finish

LEMMA RetirePhase ==
  ASSUME RingStrong, NEW a \in Acts, RetireBatch(a)
  PROVE  \E S \in SUBSET Slots : Lifecycle!Recycle(S)
<1> DEFINE S == Range(retire[a])
<1>1. RingInv /\ LockAgree /\ TypeOK
  BY SlotFacts DEF RingStrong
<1>2. /\ pc \in [Acts -> PcValues] /\ retire \in [Acts -> Seq(Slots)]
      /\ in_pool \in [Slots -> BOOLEAN]
  BY <1>1 DEF TypeOK, CallTypes, QueueTypes, RequestTypes
<1>3. /\ pc[a] = "process" /\ pc' = [pc EXCEPT ![a] = "drain"]
      /\ retire' = [retire EXCEPT ![a] = <<>>] /\ ring_put_requests(retire[a])
      /\ UNCHANGED <<pending, req>>
  BY DEF RetireBatch, Goto, callVars
<1>4. /\ S \subseteq Slots
      /\ \A s \in S : /\ ~in_pool[s] /\ ~pending[s] /\ ~InHand(s)
                      /\ \A b \in Acts : b # a => s \notin Range(retire[b])
  BY <1>1, RetireAlone
<1>5. in_pool' = [s \in Slots |-> in_pool[s] \/ s \in S]
  <2>1. retire[a] \in Seq(Slots) /\ \A s \in Range(retire[a]) : Puttable(s)
    BY <1>2, <1>4 DEF Puttable
  <2> QED BY <1>1, <1>3, <2>1, PutEffect
<1>6. \A b \in Acts : b # a => /\ pc'[b] = pc[b] /\ req'[b] = req[b]
                               /\ retire'[b] = retire[b]
  BY <1>2, <1>3
<1>7. pc'[a] = "drain" /\ pc[a] \notin Holding /\ pc'[a] \notin Holding
  BY <1>2, <1>3 DEF Holding
<1>8. ASSUME NEW s \in S PROVE Phase[s] = "done" /\ Phase'[s] = "free"
  <2>1. ASSUME NEW b \in Acts, pc[b] = "callback", retire[b][Len(retire[b])] = s
        PROVE  FALSE
    <3>1. b # a
      BY <1>3, <2>1
    <3> QED BY <1>1, <1>4, <1>8, <2>1, <3>1, LastRetired
  <2>2. ~InCallback(s)
    BY <2>1 DEF InCallback
  <2>3. in_pool'[s]
    BY <1>4, <1>5, <1>8
  <2> QED BY <1>4, <1>8, <2>2, <2>3, PhaseValues
<1>9. ASSUME NEW t \in Slots, t \notin S PROVE Phase'[t] = Phase[t]
  <2>1. in_pool'[t] = in_pool[t] /\ pending'[t] = pending[t]
    BY <1>2, <1>3, <1>5, <1>9
  <2>2. (InHand(t)' <=> InHand(t)) /\ (InCallback(t)' <=> InCallback(t))
    BY <1>3, <1>6, <1>7, SameHands
  <2> QED BY <2>1, <2>2, SamePhase
<1>10. Phase' = [t \in Slots |-> IF t \in S THEN "free" ELSE Phase[t]]
  <2>1. Phase' = [t \in Slots |-> Phase'[t]]
    BY PhaseValues
  <2> QED BY <1>8, <1>9, <2>1
<1> QED BY <1>4, <1>8, <1>10 DEF Lifecycle!Recycle

LEMMA QuietPhase ==
  ASSUME RingStrong, Quiet \/ KernelIssue
  PROVE  UNCHANGED Phase
<1>1. /\ UNCHANGED <<in_pool, pending, retire>>
      /\ \A b \in Acts : /\ pc'[b] \in Holding <=> pc[b] \in Holding
                         /\ pc[b] \in Holding => req'[b] = req[b]
                         /\ pc'[b] = "callback" <=> pc[b] = "callback"
  BY DEF Quiet, SameStanding, KernelIssue, reqVars, callVars, drainVars, listVars
<1>2. ASSUME NEW t \in Slots PROVE Phase'[t] = Phase[t]
  <2>1. (InHand(t)' <=> InHand(t)) /\ (InCallback(t)' <=> InCallback(t))
    BY <1>1 DEF InHand, InCallback
  <2> QED BY <1>1, <2>1, SamePhase
<1>3. /\ Phase = [t \in Slots |-> Phase[t]]
      /\ Phase' = [t \in Slots |-> Phase'[t]]
  BY PhaseValues
<1> QED BY <1>2, <1>3

\* The ring implements the request lifecycle: for every number of slots,
\* threads and levels of callbacks, and whatever the flush failures, a request
\* is completed once, and its slot is handed out again only after the callback
\* has returned.
THEOREM LifecycleImplemented == Spec => ImplementsLifecycle
<1>1. Init => Lifecycle!Init
  <2> SUFFICES ASSUME Init PROVE Lifecycle!Init
    OBVIOUS
  <2>1. \A s \in Slots : in_pool[s]
    BY DEF Init
  <2>2. Phase = [s \in Slots |-> "free"]
    BY <2>1, PhaseValues
  <2> QED BY <2>2 DEF Lifecycle!Init
<1>2. RingStrong /\ [Next]_vars => [Lifecycle!Next]_Phase
  <2> SUFFICES ASSUME RingStrong, [Next]_vars PROVE [Lifecycle!Next]_Phase
    OBVIOUS
  <2>1. RingInv /\ LockAgree
    BY DEF RingStrong
  <2>2. ASSUME NEW a \in Acts, NEW s \in Slots, NEW kind \in Ops,
               NEW label \in Holding, Takes(a, s, kind, label)
        PROVE  Lifecycle!Next
    BY <2>2, TakePhase DEF Lifecycle!Next
  <2>3. ASSUME NEW a \in Acts, RingSubmit(a) \/ RingSubmitCancel(a)
        PROVE  Lifecycle!Next
    <3>1. pc[a] \in Holding
      BY <2>3 DEF RingSubmit, RingSubmitCancel, Holding
    <3>2. req[a] \in Slots
      BY <2>1, <3>1, HeldAlone
    <3> QED BY <2>3, <3>2, SubmitPhase DEF Lifecycle!Next
  <2>4. ASSUME NEW a \in Acts, GivesBack(a) PROVE Lifecycle!Next
    BY <2>4, ReleasePhase DEF Lifecycle!Next
  <2>5. ASSUME NEW a \in Acts, ProcessCompletion(a) PROVE Lifecycle!Next
    BY <2>5, ProcessPhase DEF Lifecycle!Next
  <2>6. ASSUME NEW a \in Acts, CallbackReturn(a) PROVE Lifecycle!Next
    BY <2>6, FinishPhase DEF Lifecycle!Next
  <2>7. ASSUME NEW a \in Acts, RetireBatch(a) PROVE Lifecycle!Next
    BY <2>7, RetirePhase DEF Lifecycle!Next
  <2>8. CASE Quiet \/ KernelIssue
    BY <2>8, QuietPhase
  <2> QED BY <2>1, <2>2, <2>3, <2>4, <2>5, <2>6, <2>7, <2>8, StepKinds
<1> QED BY <1>1, <1>2, RingStrongInvariant, PTL DEF Spec, ImplementsLifecycle, Lifecycle!Spec
=============================================================================
