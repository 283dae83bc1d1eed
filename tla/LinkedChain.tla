----------------------------- MODULE LinkedChain -----------------------------
(***************************************************************************)
(* Linked requests (aura_request_set_linked) on the ring of a THREAD_LOCAL *)
(* engine that one thread owns: the thread-local link state, the SQE the   *)
(* flag is set on after the fact, and the flushes that decide which SQEs   *)
(* the kernel sees as one chain.  The kernel chains an SQE that carries    *)
(* IOSQE_IO_LINK to the next one of the same submission; the last SQE of a *)
(* submission ends every chain.                                            *)
(***************************************************************************)
EXTENDS Integers, Sequences, FiniteSets

CONSTANTS
  MaxRequests,   \* bound on the requests submitted
  Capacity,      \* the in-flight limit that ring_can_submit checks
  Threshold,     \* the batch threshold of ring_should_flush
  Cancelling     \* whether the thread calls aura_cancel between submissions

VARIABLES
  next,          \* number of the next request
  sq,            \* SQEs not yet submitted: [req, link]
  inflight,      \* requests submitted and not completed
  tls_last_sqe,  \* the request whose SQE was prepared last, 0 for none
  tls_link_ring, \* the next submission belongs to a chain
  last,          \* the request the application got last
  marked,        \* requests aura_request_set_linked returned 0 for
  promised,      \* <<r, s>>: s was the submission that followed a marked r
  chained        \* <<r, s>>: the kernel chained s to r

vars == <<next, sq, inflight, tls_last_sqe, tls_link_ring, last, marked, promised, chained>>

Init ==
  /\ next = 1 /\ sq = <<>> /\ inflight = {}
  /\ tls_last_sqe = 0 /\ tls_link_ring = FALSE /\ last = 0
  /\ marked = {} /\ promised = {} /\ chained = {}

Requests == {sq[k].req : k \in 1..Len(sq)}
pending_count == Len(sq) + Cardinality(inflight)

\* What io_uring_submit makes of a queue of SQEs.
ChainsOf(q) == {<<q[k].req, q[k + 1].req>> : k \in {j \in 1..(Len(q) - 1) : q[j].link}}

\* A submission.  submit_begin flushes a full ring and reaps the completions
\* `done' it finds; without room even then the call fails with EAGAIN.  The
\* request gets an SQE, and submit_end flushes at the threshold or, in a
\* chain, always.
Submit(done) ==
  LET full   == pending_count >= Capacity
      before == IF full THEN <<>> ELSE sq
      kept   == IF full THEN (inflight \cup Requests) \ done ELSE inflight
      q      == Append(before, [req |-> next, link |-> FALSE])
      flush  == tls_link_ring \/ Len(q) >= Threshold
      sent   == IF full THEN ChainsOf(sq) ELSE {}
  IN  /\ next <= MaxRequests
      /\ ~full => done = {}
      /\ IF Len(before) + Cardinality(kept) < Capacity
         THEN /\ sq' = IF flush THEN <<>> ELSE q
              /\ inflight' = IF flush THEN kept \cup {q[k].req : k \in 1..Len(q)} ELSE kept
              /\ chained' = chained \cup sent \cup (IF flush THEN ChainsOf(q) ELSE {})
              /\ promised' = IF tls_link_ring THEN promised \cup {<<last, next>>} ELSE promised
              /\ tls_last_sqe' = IF flush THEN 0 ELSE next
              /\ tls_link_ring' = FALSE
              /\ last' = next
              /\ next' = next + 1
         ELSE /\ sq' = before /\ inflight' = kept
              /\ chained' = chained \cup sent
              /\ tls_last_sqe' = 0
              /\ UNCHANGED <<next, tls_link_ring, last, promised>>
      /\ UNCHANGED marked

\* Fault: the cancel leaves the last request's SQE as the one to be linked.
aura_cancel_Stale(t) ==
  /\ Cancelling /\ next <= MaxRequests /\ pending_count < Capacity /\ ~tls_link_ring
  /\ t \in Requests \cup inflight
  /\ sq' = Append(sq, [req |-> next, link |-> FALSE])
  /\ next' = next + 1
  /\ UNCHANGED <<inflight, tls_last_sqe, tls_link_ring, last, marked, promised, chained>>

\* aura_cancel prepares an SQE of its own behind the last request and forgets
\* which SQE was that request's.  It is not called inside a chain.
aura_cancel(t) ==
  /\ Cancelling /\ next <= MaxRequests /\ pending_count < Capacity /\ ~tls_link_ring
  /\ t \in Requests \cup inflight
  /\ sq' = Append(sq, [req |-> next, link |-> FALSE])
  /\ tls_last_sqe' = 0
  /\ next' = next + 1
  /\ UNCHANGED <<inflight, tls_link_ring, last, marked, promised, chained>>

\* aura_request_set_linked of the request submitted last: the flag goes on
\* the SQE if there still is one, and success is returned in any case.
aura_request_set_linked ==
  /\ last # 0 /\ ~tls_link_ring /\ last \in Requests \cup inflight
  /\ sq' = [k \in 1..Len(sq) |->
              IF sq[k].req = tls_last_sqe THEN [sq[k] EXCEPT !.link = TRUE] ELSE sq[k]]
  /\ marked' = marked \cup {last}
  /\ tls_link_ring' = TRUE
  /\ UNCHANGED <<next, inflight, tls_last_sqe, last, promised, chained>>

\* aura_poll or aura_wait outside a chain: flush, and reap some completions.
Poll(done) ==
  /\ ~tls_link_ring /\ (sq # <<>> \/ done # {})
  /\ sq' = <<>>
  /\ inflight' = (inflight \ done) \cup Requests
  /\ chained' = chained \cup ChainsOf(sq)
  /\ tls_last_sqe' = IF sq = <<>> THEN tls_last_sqe ELSE 0
  /\ UNCHANGED <<next, tls_link_ring, last, marked, promised>>

Next ==
  \/ \E done \in SUBSET (inflight \cup Requests) : Submit(done)
  \/ \E t \in 1..MaxRequests : aura_cancel(t)
  \/ aura_request_set_linked
  \/ \E done \in SUBSET inflight : Poll(done)

Spec == Init /\ [][Next]_vars

-----------------------------------------------------------------------------
\* Nothing is chained that was not asked for: a request only ever waits for
\* the request marked just before it, never for an older one and never a
\* cancel for the request it is to cancel.
NoStrayChain == chained \subseteq promised

Sqe == [req : Nat \ {0}, link : BOOLEAN]

\* Why: only the last SQE of the queue may carry the flag, and only while the
\* next submission, which flushes, is pinned to its chain; tls_last_sqe is no
\* other's than the last SQE.
OnlyLastLinked ==
  \A k \in 1..Len(sq) :
    /\ sq[k].req < next
    /\ sq[k].link => k = Len(sq) /\ tls_link_ring /\ sq[k].req = last
    /\ sq[k].req = tls_last_sqe => k = Len(sq) /\ sq[k].req = last

ChainInv ==
  /\ next \in Nat \ {0} /\ tls_link_ring \in BOOLEAN /\ sq \in Seq(Sqe)
  /\ OnlyLastLinked
  /\ NoStrayChain

\* The documented contract: the submission that follows a marked request is
\* chained to it.
ChainKept == \A p \in promised : {p[1], p[2]} \cap Requests = {} => p \in chained
=============================================================================
