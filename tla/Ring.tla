-------------------------------- MODULE Ring --------------------------------
(***************************************************************************)
(* One io_uring ring of an AuraIO engine shared by several threads: the    *)
(* request slots and their free stack, submission (submit_begin,           *)
(* ring_submit_*, submit_end, submit_abort), aura_cancel, aura_flush, the  *)
(* batched completion drain with its callbacks (ring_drain_cqes,           *)
(* process_completion, ring_retire_batch), aura_poll and aura_wait.        *)
(*                                                                         *)
(* The ring is in its multi-threaded mode (single_thread is false): every  *)
(* submission section runs under ring->lock, CQEs are taken under cq_lock, *)
(* and callbacks run under no lock.  The kernel is external: it takes      *)
(* published SQEs in order, finishes each operation at any later time and  *)
(* posts one CQE per SQE.                                                  *)
(*                                                                         *)
(* A library call in progress is an activation <<t, d>>: thread t at       *)
(* nesting depth d.  Depth 1 is a call of the application, depth d + 1 a   *)
(* call made by a callback that runs inside the call at depth d.           *)
(***************************************************************************)
EXTENDS Integers, Sequences, FiniteSets, Functions

CONSTANTS
  Threads,      \* application threads
  EventLoop,    \* the one thread that calls aura_poll and aura_wait
  MaxDepth,     \* bound: nesting depth of library calls made by callbacks
  QueueDepth,   \* ctx->max_requests, also the size of the SQ ring
  PollBatch,    \* ctx->poll_batch_size
  Limits,       \* the in-flight limits the adaptive controller publishes
  Passthrough,  \* TRUE: the controller may be in passthrough mode
  Thresholds,   \* the batch thresholds the controller publishes
  Kinds,        \* kinds of data operations: subset of {"plain","file","buffer"}
  FlushFaults,  \* what io_uring_submit may do: {"partial","transient","fatal"}
  Sqpoll,       \* TRUE: a kernel thread consumes the SQ (IORING_SETUP_SQPOLL)
  Forever,      \* TRUE: aura_wait is called with timeout_ms = -1
  NoAct         \* no activation

Slots  == 0 .. QueueDepth - 1
NoSlot == -1
Acts   == Threads \X (1 .. MaxDepth)

ASSUME RingConstants ==
  /\ EventLoop \in Threads
  /\ MaxDepth \in Nat \ {0}
  /\ QueueDepth \in Nat \ {0}
  /\ PollBatch \in Nat \ {0}
  /\ Limits \subseteq Nat \ {0} /\ Limits # {}
  /\ Passthrough \in BOOLEAN
  /\ Thresholds \subseteq Nat \ {0}
  /\ Kinds \subseteq {"plain", "file", "buffer"}
  /\ FlushFaults \subseteq {"partial", "transient", "fatal"}
  /\ Sqpoll \in BOOLEAN
  /\ Forever \in BOOLEAN
  /\ NoAct \notin Acts

VARIABLES
  \* ring_ctx_t
  lock,            \* holder of ring->lock
  free,            \* free_request_stack[0 .. free_request_count - 1]
  pending_count,
  queued_sqes,
  fixed_inflight,  \* fixed_file_inflight and fixed_buf_inflight
  \* aura_request_t
  in_pool,
  pending,
  op,              \* op_type, as far as the ring tells operations apart
  target,          \* target address in the SQE of a cancel request
  \* aura_engine_t
  fatal,           \* fatal_submit_errno # 0
  shutting_down,
  eventfd,         \* the eventfd counter is not zero
  \* kernel side of the ring
  sq,              \* SQEs written and not yet published to the kernel
  kq,              \* SQEs published, not yet issued by the kernel
  inflight,        \* operations the kernel is working on
  cq,              \* CQEs posted and not yet seen
  canceled,        \* requests whose CQE carries -ECANCELED
  \* local state of each activation
  pc,
  req,             \* the slot held between ring_get_request and its submission
  want,            \* kind of the operation being submitted
  tgt,             \* the request aura_cancel was called with
  batch,           \* CQEs taken in this round of ring_drain_cqes, not processed
  retire,          \* requests processed in this round, not retired
  after,           \* where the drain returns to
  got,             \* the drain processed at least one CQE
  w_fatal,         \* fatal_latched of aura_wait
  w_pending,       \* first_pending >= 0 in aura_wait
  \* history
  asked,           \* requests aura_cancel was called for
  aimed            \* requests a cancel SQE was written for

lockVars   == <<lock>>
countVars  == <<pending_count, queued_sqes>>
reqVars    == <<in_pool, pending, op, target>>
engineVars == <<fatal, shutting_down, eventfd>>
kernelVars == <<kq, inflight, cq, canceled>>
listVars   == <<batch, retire>>
backVars   == <<after, got>>
drainVars  == <<listVars, backVars>>
callVars   == <<req, want, tgt>>
waitVars   == <<w_fatal, w_pending>>
history    == <<asked, aimed>>

vars == <<lock, free, pending_count, queued_sqes, fixed_inflight,
          in_pool, pending, op, target, fatal, shutting_down, eventfd,
          sq, kq, inflight, cq, canceled,
          pc, req, want, tgt, batch, retire, after, got, w_fatal, w_pending,
          asked, aimed>>

Ops == {"plain", "file", "buffer", "cancel"}
PcValues == {"idle", "begin", "recheck", "held", "submitted", "cancel",
             "cancelheld", "cancelqueued", "drain", "process", "callback",
             "pollflush", "waitfd", "waitflush", "waited", "blocked",
             "wakeflush"}

Init ==
  /\ lock = NoAct
  /\ free = [i \in 1 .. QueueDepth |-> i - 1]
  /\ pending_count = 0 /\ queued_sqes = 0
  /\ fixed_inflight = [k \in {"file", "buffer"} |-> 0]
  /\ in_pool = [s \in Slots |-> TRUE]
  /\ pending = [s \in Slots |-> FALSE]
  /\ op = [s \in Slots |-> "plain"]
  /\ target = [s \in Slots |-> NoSlot]
  /\ fatal = FALSE /\ shutting_down = FALSE /\ eventfd = FALSE
  /\ sq = <<>> /\ kq = <<>> /\ inflight = {} /\ cq = <<>> /\ canceled = {}
  /\ pc = [a \in Acts |-> "idle"]
  /\ req = [a \in Acts |-> NoSlot]
  /\ want = [a \in Acts |-> "plain"]
  /\ tgt = [a \in Acts |-> NoSlot]
  /\ batch = [a \in Acts |-> <<>>]
  /\ retire = [a \in Acts |-> <<>>]
  /\ after = [a \in Acts |-> "return"]
  /\ got = [a \in Acts |-> FALSE]
  /\ w_fatal = FALSE /\ w_pending = FALSE
  /\ asked = {} /\ aimed = {}
-----------------------------------------------------------------------------
(* Helpers *)

\* A call may start at depth 1, or inside a running callback.
MayCall(a) ==
  /\ pc[a] = "idle"
  /\ a[2] > 1 => pc[<<a[1], a[2] - 1>>] = "callback"

Goto(a, label) == pc' = [pc EXCEPT ![a] = label]

\* The call returns; its locals are dead.
Return(a) ==
  /\ Goto(a, "idle")
  /\ req' = [req EXCEPT ![a] = NoSlot]
  /\ want' = [want EXCEPT ![a] = "plain"]
  /\ tgt' = [tgt EXCEPT ![a] = NoSlot]
  /\ after' = [after EXCEPT ![a] = "return"]
  /\ got' = [got EXCEPT ![a] = FALSE]

StartDrain(a, back) ==
  /\ Goto(a, "drain")
  /\ after' = [after EXCEPT ![a] = back]
  /\ got' = [got EXCEPT ![a] = FALSE]

\* ring_can_submit.  The tick thread moves the limit and the mode at any
\* time, so each reading picks its own.
GateOpen   == Passthrough \/ \E limit \in Limits : pending_count < limit
GateClosed == \E limit \in Limits : pending_count >= limit

\* ring_put_request for the slots of a sequence, in order.  A slot already in
\* the pool, or still pending, is logged as a BUG and not returned.  Nothing
\* reads the other fields of a pooled slot; the model keeps them at their
\* initial values.
Puttable(s) == ~in_pool[s] /\ ~pending[s]
ring_put_requests(slots) ==
  LET back == {s \in Range(slots) : Puttable(s)}
      good == IF back = Range(slots) THEN slots ELSE SelectSeq(slots, Puttable)
  IN
  /\ free' = free \o good
  /\ in_pool' = [s \in Slots |-> in_pool[s] \/ s \in back]
  /\ op' = [s \in Slots |-> IF s \in back THEN "plain" ELSE op[s]]
  /\ target' = [s \in Slots |-> IF s \in back THEN NoSlot ELSE target[s]]
  /\ canceled' = canceled \ back
  /\ asked' = asked \ back /\ aimed' = aimed \ back

\* io_uring_submit returned without error, or with one that is retried later.
\* The SQ thread of SQPOLL reports every SQE it has not consumed yet, so the
\* return value may exceed queued_sqes; the decrement is clamped.
Accepted ==
  IF "partial" \in FlushFaults /\ ~Sqpoll THEN 0 .. Len(sq) ELSE {Len(sq)}
Reported(k) == IF Sqpoll THEN Len(kq) + Len(sq) ELSE k
\* Fault: the counter is cleared whatever was accepted.
Clamped_Cleared(n) == 0
\* Fault: the decrement is not clamped.
Clamped_Unclamped(n) == queued_sqes - n
Clamped(n) == IF n < queued_sqes THEN queued_sqes - n ELSE 0

\* Fault: the newest SQEs are published first.
FlushDone_NewestFirst ==
  /\ UNCHANGED <<fatal, eventfd>>
  /\ \/ \E k \in Accepted :
          /\ sq' = SubSeq(sq, 1, Len(sq) - k)
          /\ kq' = kq \o SubSeq(sq, Len(sq) - k + 1, Len(sq))
          /\ queued_sqes' = Clamped(Reported(k))
     \/ "transient" \in FlushFaults /\ UNCHANGED <<sq, kq, queued_sqes>>

FlushDone ==
  /\ UNCHANGED <<fatal, eventfd>>
  /\ \/ /\ queued_sqes = 0
        /\ UNCHANGED <<sq, kq, queued_sqes>>
     \/ /\ queued_sqes > 0
        /\ \E k \in Accepted :
             /\ sq' = SubSeq(sq, k + 1, Len(sq))
             /\ kq' = kq \o SubSeq(sq, 1, k)
             /\ queued_sqes' = Clamped(Reported(k))
     \/ /\ queued_sqes > 0
        /\ "transient" \in FlushFaults
        /\ UNCHANGED <<sq, kq, queued_sqes>>

\* ring_flush failed with a fatal errno, which is latched; the first latch
\* writes the eventfd to wake a blocked aura_wait.
FlushFatal ==
  /\ queued_sqes > 0
  /\ "fatal" \in FlushFaults
  /\ fatal' = TRUE
  /\ eventfd' = (eventfd \/ ~fatal)
  /\ UNCHANGED <<sq, kq, queued_sqes>>

flush_ring_checked == FlushDone \/ FlushFatal
-----------------------------------------------------------------------------
(* Submission *)

\* Fault: free_request_count is not decremented.
TakeSlot_NoPop(a, s, kind, label) ==
  /\ free # <<>>
  /\ s = free[Len(free)]
  /\ in_pool' = [in_pool EXCEPT ![s] = FALSE]
  /\ pending' = [pending EXCEPT ![s] = FALSE]
  /\ op' = [op EXCEPT ![s] = kind]
  /\ req' = [req EXCEPT ![a] = s]
  /\ lock' = a
  /\ Goto(a, label)
  /\ UNCHANGED <<free, target, canceled, history>>

\* Pop a slot and clear its variant fields; the caller keeps ring->lock.
TakeSlot(a, s, kind, label) ==
  /\ free # <<>>
  /\ s = free[Len(free)]
  /\ free' = SubSeq(free, 1, Len(free) - 1)
  /\ in_pool' = [in_pool EXCEPT ![s] = FALSE]
  /\ pending' = [pending EXCEPT ![s] = FALSE]
  /\ op' = [op EXCEPT ![s] = kind]
  /\ req' = [req EXCEPT ![a] = s]
  /\ lock' = a
  /\ Goto(a, label)
  /\ UNCHANGED <<target, canceled, history>>

\* ring_get_request: a slot, or ENOMEM and the lock released when the pool is
\* empty.
ring_get_request(a) ==
  \/ /\ \E s \in Slots : TakeSlot(a, s, want[a], "held")
     /\ UNCHANGED <<want, tgt, backVars>>
  \/ /\ free = <<>>
     /\ lock' = NoAct
     /\ Return(a)
     /\ UNCHANGED <<free, reqVars, canceled, history>>

\* aura_read and the other entry points, up to the checks that submit_begin
\* makes before it takes ring->lock.
SubmitCall(a) ==
  /\ MayCall(a)
  /\ ~fatal /\ ~shutting_down
  /\ \E kind \in Kinds : want' = [want EXCEPT ![a] = kind]
  /\ Goto(a, "begin")
  /\ UNCHANGED <<lock, free, countVars, fixed_inflight, reqVars, engineVars,
                 sq, kernelVars, req, tgt, drainVars, waitVars, history>>

\* The locked part of submit_begin when there is capacity.
SubmitBegin(a) ==
  /\ pc[a] = "begin" /\ lock = NoAct
  /\ GateOpen
  /\ ring_get_request(a)
  /\ UNCHANGED <<countVars, fixed_inflight, engineVars, sq, kq, inflight, cq,
                 listVars, waitVars>>

\* submit_begin at the limit: flush, then give the lock up and drain
\* completions on this thread.  For an operation on a registered file or
\* buffer reg_lock is held and allow_poll is false: no drain, and the lock is
\* kept.
SubmitBeginFull(a) ==
  /\ pc[a] = "begin" /\ lock = NoAct
  /\ GateClosed
  /\ \/ /\ FlushFatal
        /\ Return(a)
        /\ UNCHANGED lock
     \/ /\ want[a] = "plain"
        /\ FlushDone
        /\ StartDrain(a, "recheck")
        /\ UNCHANGED <<lock, callVars>>
     \/ /\ want[a] # "plain"
        /\ FlushDone
        /\ lock' = a
        /\ Goto(a, "recheck")
        /\ UNCHANGED <<callVars, backVars>>
  /\ UNCHANGED <<free, pending_count, fixed_inflight, reqVars, shutting_down,
                 inflight, cq, canceled, listVars, waitVars, history>>

\* Fault: the limit is not checked again.
SubmitRecheck_Unchecked(a) ==
  /\ pc[a] = "recheck" /\ lock \in {NoAct, a}
  /\ ring_get_request(a)
  /\ UNCHANGED <<countVars, fixed_inflight, engineVars, sq, kq, inflight, cq,
                 listVars, waitVars>>

\* submit_begin checks the limit again, after taking the lock again if it
\* drained.
SubmitRecheck(a) ==
  /\ pc[a] = "recheck" /\ lock \in {NoAct, a}
  /\ \/ GateOpen /\ ring_get_request(a)
     \/ /\ GateClosed
        /\ lock' = NoAct
        /\ Return(a)
        /\ UNCHANGED <<free, reqVars, canceled, history>>
  /\ UNCHANGED <<countVars, fixed_inflight, engineVars, sq, kq, inflight, cq,
                 listVars, waitVars>>

\* Fault: pending is not set.
QueueSqe_NotPending(s) ==
  /\ Len(sq) + Len(kq) < QueueDepth
  /\ sq' = Append(sq, s)
  /\ queued_sqes' = queued_sqes + 1
  /\ pending_count' = pending_count + 1
  /\ UNCHANGED pending

\* Write the SQE of slot s and count it (data_finish, meta_finish).
QueueSqe(s) ==
  /\ Len(sq) + Len(kq) < QueueDepth
  /\ sq' = Append(sq, s)
  /\ pending' = [pending EXCEPT ![s] = TRUE]
  /\ queued_sqes' = queued_sqes + 1
  /\ pending_count' = pending_count + 1

\* Fault: the counters of fixed files and buffers are not incremented.
Bump_Never(kind, s, n) == UNCHANGED fixed_inflight

Bump(kind, s, n) ==
  IF op[s] = kind
  THEN fixed_inflight' = [fixed_inflight EXCEPT ![kind] = @ + n]
  ELSE UNCHANGED fixed_inflight

\* ring_submit_*; a registered-buffer operation is counted just before.
RingSubmit(a) ==
  /\ pc[a] = "held"
  /\ QueueSqe(req[a])
  /\ Bump("buffer", req[a], 1)
  /\ Goto(a, "submitted")
  /\ UNCHANGED <<lock, free, in_pool, op, target, engineVars, kernelVars,
                 callVars, drainVars, waitVars, history>>

\* Fault: submit_abort does not give the slot back.
SubmitAbort_Leaks(a) ==
  /\ pc[a] = "held"
  /\ lock' = NoAct
  /\ Return(a)
  /\ UNCHANGED <<free, countVars, fixed_inflight, reqVars, engineVars, sq,
                 kernelVars, listVars, waitVars, history>>

\* ring_submit_* refuses the operation (length or iovec count out of range)
\* and submit_abort gives the slot and the lock back.
SubmitAbort(a) ==
  /\ pc[a] = "held"
  /\ ring_put_requests(<<req[a]>>)
  /\ lock' = NoAct
  /\ Return(a)
  /\ UNCHANGED <<countVars, fixed_inflight, pending, engineVars, sq, kq,
                 inflight, cq, listVars, waitVars>>

\* submit_end: count a registered file, flush at the batch threshold, unlock.
SubmitEnd(a) ==
  /\ pc[a] = "submitted"
  /\ Bump("file", req[a], 1)
  /\ \/ (\E th \in Thresholds : queued_sqes >= th) /\ flush_ring_checked
     \/ /\ \E th \in Thresholds : queued_sqes < th
        /\ UNCHANGED <<sq, kq, queued_sqes, fatal, eventfd>>
  /\ lock' = NoAct
  /\ Return(a)
  /\ UNCHANGED <<free, pending_count, reqVars, shutting_down, inflight, cq,
                 canceled, listVars, waitVars, history>>
-----------------------------------------------------------------------------
(* Cancellation *)

\* aura_cancel up to its unlocked check.  The application passes a handle
\* that aura_read and the like have returned.
CancelCall(a, s) ==
  /\ MayCall(a)
  /\ ~shutting_down
  /\ pending[s] /\ op[s] # "cancel"
  /\ \A b \in Acts : req[b] # s
  /\ tgt' = [tgt EXCEPT ![a] = s]
  /\ asked' = asked \cup {s}
  /\ Goto(a, "cancel")
  /\ UNCHANGED <<lock, free, countVars, fixed_inflight, reqVars, engineVars,
                 sq, kernelVars, req, want, drainVars, waitVars, aimed>>

\* aura_cancel under ring->lock: check again, take a slot for the cancel.
CancelBegin(a) ==
  /\ pc[a] = "cancel" /\ lock = NoAct
  /\ \/ /\ pending[tgt[a]]
        /\ \E s \in Slots : TakeSlot(a, s, "cancel", "cancelheld")
        /\ UNCHANGED <<want, tgt, backVars>>
     \/ /\ ~pending[tgt[a]] \/ free = <<>>
        /\ Return(a)
        /\ UNCHANGED <<lock, free, reqVars, canceled, history>>
  /\ UNCHANGED <<countVars, fixed_inflight, engineVars, sq, kq, inflight, cq,
                 listVars, waitVars>>

\* ring_submit_cancel: the SQE names the target by the address of its slot.
RingSubmitCancel(a) ==
  /\ pc[a] = "cancelheld"
  /\ pending[tgt[a]]
  /\ QueueSqe(req[a])
  /\ target' = [target EXCEPT ![req[a]] = tgt[a]]
  /\ aimed' = aimed \cup {tgt[a]}
  /\ Goto(a, "cancelqueued")
  /\ UNCHANGED <<lock, free, fixed_inflight, in_pool, op, engineVars,
                 kernelVars, callVars, drainVars, waitVars, asked>>

\* ring_submit_cancel finds the target completed (EALREADY): slot given back.
CancelTooLate(a) ==
  /\ pc[a] = "cancelheld"
  /\ ~pending[tgt[a]]
  /\ ring_put_requests(<<req[a]>>)
  /\ lock' = NoAct
  /\ Return(a)
  /\ UNCHANGED <<countVars, fixed_inflight, pending, engineVars, sq, kq,
                 inflight, cq, listVars, waitVars>>

\* aura_cancel flushes at once, whatever the batch threshold, and unlocks.
CancelEnd(a) ==
  /\ pc[a] = "cancelqueued"
  /\ flush_ring_checked
  /\ lock' = NoAct
  /\ Return(a)
  /\ UNCHANGED <<free, pending_count, fixed_inflight, reqVars, shutting_down,
                 inflight, cq, canceled, listVars, waitVars, history>>
-----------------------------------------------------------------------------
(* Completion drain: ring_drain_cqes *)

\* Where a drain that found the CQ empty returns to.
DrainReturn(a) ==
  \/ /\ after[a] = "return" \/ (after[a] = "final" /\ got[a])
     /\ Return(a)
  \/ /\ after[a] = "final" /\ ~got[a]  \* aura_wait woke in vain: polls again
     /\ after' = [after EXCEPT ![a] = "return"]
     /\ UNCHANGED <<pc, callVars, got>>
  \/ /\ after[a] = "recheck"
     /\ Goto(a, "recheck")
     /\ after' = [after EXCEPT ![a] = "return"]
     /\ got' = [got EXCEPT ![a] = FALSE]
     /\ UNCHANGED callVars
  \/ /\ after[a] = "waited"
     /\ Goto(a, "waited")
     /\ UNCHANGED <<callVars, backVars>>

\* Under cq_lock: take at most poll_batch_size CQEs.
TakeBatch(a) ==
  LET n == IF Len(cq) < PollBatch THEN Len(cq) ELSE PollBatch IN
  /\ pc[a] = "drain"
  /\ \/ /\ n = 0
        /\ DrainReturn(a)
        /\ UNCHANGED <<cq, batch>>
     \/ /\ n > 0
        /\ batch' = [batch EXCEPT ![a] = SubSeq(cq, 1, n)]
        /\ cq' = SubSeq(cq, n + 1, Len(cq))
        /\ got' = [got EXCEPT ![a] = TRUE]
        /\ Goto(a, "process")
        /\ UNCHANGED <<after, callVars>>
  /\ UNCHANGED <<lock, free, countVars, fixed_inflight, reqVars, engineVars,
                 sq, kq, inflight, canceled, retire, waitVars, history>>

\* process_completion of the next CQE of the batch, with no lock held, up to
\* the callback.  A CQE of a request that is not pending is skipped.  A
\* cancel request has no callback.
ProcessCompletion(a) ==
  LET s == Head(batch[a]) IN
  /\ pc[a] = "process" /\ batch[a] # <<>>
  /\ batch' = [batch EXCEPT ![a] = Tail(@)]
  /\ IF pending[s]
     THEN /\ pending' = [pending EXCEPT ![s] = FALSE]
          /\ fixed_inflight' = [k \in DOMAIN fixed_inflight |->
                 fixed_inflight[k] - (IF op[s] = k THEN 1 ELSE 0)]
          /\ retire' = [retire EXCEPT ![a] = Append(@, s)]
          /\ Goto(a, IF op[s] = "cancel" THEN "process" ELSE "callback")
     ELSE UNCHANGED <<pending, fixed_inflight, retire, pc>>
  /\ UNCHANGED <<lock, free, countVars, in_pool, op, target, engineVars, sq,
                 kernelVars, callVars, after, got, waitVars, history>>

\* The callback returns; every library call it made has returned before.
CallbackReturn(a) ==
  /\ pc[a] = "callback"
  /\ a[2] < MaxDepth => pc[<<a[1], a[2] + 1>>] = "idle"
  /\ Goto(a, "process")
  /\ UNCHANGED <<lock, free, countVars, fixed_inflight, reqVars, engineVars,
                 sq, kernelVars, callVars, drainVars, waitVars, history>>

\* Fault: a slot is retired while its callback runs.
RetireBatch_DuringCallback(a) ==
  /\ pc[a] = "callback"
  /\ lock = NoAct
  /\ ring_put_requests(retire[a])
  /\ pending_count' = pending_count - Len(retire[a])
  /\ retire' = [retire EXCEPT ![a] = <<>>]
  /\ Goto(a, "process")
  /\ UNCHANGED <<lock, queued_sqes, fixed_inflight, pending, engineVars, sq,
                 kq, inflight, cq, callVars, batch, after, got, waitVars>>

\* ring_retire_batch, under ring->lock, and the next round of the drain.
RetireBatch(a) ==
  /\ pc[a] = "process" /\ batch[a] = <<>>
  /\ lock = NoAct
  /\ ring_put_requests(retire[a])
  /\ pending_count' = pending_count - Len(retire[a])
  /\ retire' = [retire EXCEPT ![a] = <<>>]
  /\ Goto(a, "drain")
  /\ UNCHANGED <<lock, queued_sqes, fixed_inflight, pending, engineVars, sq,
                 kq, inflight, cq, callVars, batch, after, got, waitVars>>
-----------------------------------------------------------------------------
(* aura_flush, aura_poll and aura_wait.  The last two are called by the    *)
(* event-loop thread only, and not from a callback.                        *)

loopAct == <<EventLoop, 1>>

FlushCall(a) ==
  /\ MayCall(a) /\ lock = NoAct
  /\ flush_ring_checked
  /\ UNCHANGED <<lock, free, pending_count, fixed_inflight, reqVars,
                 shutting_down, inflight, cq, canceled, pc, callVars,
                 drainVars, waitVars, history>>

\* aura_poll: drain the eventfd, then flush (trylock, or the blocking second
\* pass when the trylock failed and nothing completed), then drain the CQ.
PollCall ==
  /\ MayCall(loopAct)
  /\ eventfd' = FALSE
  /\ Goto(loopAct, "pollflush")
  /\ UNCHANGED <<lock, free, countVars, fixed_inflight, reqVars, fatal,
                 shutting_down, sq, kernelVars, callVars, drainVars, waitVars,
                 history>>

\* Fault: aura_poll does not flush.
PollFlush_NoFlush ==
  /\ pc[loopAct] = "pollflush"
  /\ StartDrain(loopAct, "return")
  /\ UNCHANGED <<listVars, lock, free, countVars, fixed_inflight, reqVars,
                 engineVars, sq, kernelVars, callVars, waitVars, history>>

PollFlush ==
  /\ pc[loopAct] = "pollflush" /\ lock = NoAct
  /\ flush_ring_checked
  /\ StartDrain(loopAct, "return")
  /\ UNCHANGED <<listVars, lock, free, pending_count, fixed_inflight, reqVars,
                 shutting_down, inflight, cq, canceled, callVars, waitVars,
                 history>>

\* aura_wait: note whether a fatal error is latched ...
WaitCall ==
  /\ MayCall(loopAct)
  /\ w_fatal' = fatal
  /\ Goto(loopAct, "waitfd")
  /\ UNCHANGED <<lock, free, countVars, fixed_inflight, reqVars, engineVars,
                 sq, kernelVars, callVars, drainVars, w_pending, history>>

\* ... drain the eventfd ...
WaitDrainFd ==
  /\ pc[loopAct] = "waitfd"
  /\ eventfd' = FALSE
  /\ Goto(loopAct, "waitflush")
  /\ UNCHANGED <<lock, free, countVars, fixed_inflight, reqVars, fatal,
                 shutting_down, sq, kernelVars, callVars, drainVars, waitVars,
                 history>>

\* ... flush and read pending_count under ring->lock, then drain the CQ ...
WaitFlush ==
  /\ pc[loopAct] = "waitflush" /\ lock = NoAct
  /\ \/ FlushDone /\ UNCHANGED w_fatal
     \/ FlushFatal /\ w_fatal' = TRUE
  /\ w_pending' = (pending_count > 0)
  /\ StartDrain(loopAct, "waited")
  /\ UNCHANGED <<listVars, lock, free, pending_count, fixed_inflight, reqVars,
                 shutting_down, inflight, cq, canceled, callVars, history>>

\* ... return if something completed, is fatal, or if nothing is pending ...
WaitReturn ==
  /\ pc[loopAct] = "waited"
  /\ got[loopAct] \/ w_fatal \/ ~w_pending
  /\ Return(loopAct)
  /\ w_fatal' = FALSE /\ w_pending' = FALSE
  /\ UNCHANGED <<lock, free, countVars, fixed_inflight, reqVars, engineVars,
                 sq, kernelVars, listVars, history>>

\* ... else block on the eventfd.
WaitBlock ==
  /\ pc[loopAct] = "waited"
  /\ ~got[loopAct] /\ ~w_fatal /\ w_pending
  /\ Goto(loopAct, "blocked")
  /\ after' = [after EXCEPT ![loopAct] = "return"]
  /\ w_fatal' = FALSE /\ w_pending' = FALSE
  /\ UNCHANGED <<lock, free, countVars, fixed_inflight, reqVars, engineVars,
                 sq, kernelVars, callVars, listVars, got, history>>

\* poll() reports the eventfd readable: drain it, flush, drain the CQ.
WaitWake ==
  /\ pc[loopAct] = "blocked"
  /\ eventfd
  /\ eventfd' = FALSE
  /\ Goto(loopAct, "wakeflush")
  /\ UNCHANGED <<lock, free, countVars, fixed_inflight, reqVars, fatal,
                 shutting_down, sq, kernelVars, callVars, drainVars, waitVars,
                 history>>

WakeFlush ==
  /\ pc[loopAct] = "wakeflush" /\ lock = NoAct
  /\ flush_ring_checked
  /\ StartDrain(loopAct, "final")
  /\ UNCHANGED <<listVars, lock, free, pending_count, fixed_inflight, reqVars,
                 shutting_down, inflight, cq, canceled, callVars, waitVars,
                 history>>

\* poll() times out: one more drain without a flush, then ETIMEDOUT.
WaitTimeout ==
  /\ pc[loopAct] = "blocked"
  /\ ~Forever
  /\ StartDrain(loopAct, "return")
  /\ UNCHANGED <<listVars, lock, free, countVars, fixed_inflight, reqVars, engineVars,
                 sq, kernelVars, callVars, waitVars, history>>

\* aura_destroy signals shutdown.  The documented contract: every other
\* thread has stopped using the engine, and it is not called by a callback.
Shutdown ==
  /\ pc[loopAct] = "idle" /\ ~shutting_down
  /\ \A a \in Acts : a[1] # EventLoop => pc[a] = "idle"
  /\ shutting_down' = TRUE
  /\ UNCHANGED <<lock, free, countVars, fixed_inflight, reqVars, fatal,
                 eventfd, sq, kernelVars, pc, callVars, drainVars, waitVars,
                 history>>
-----------------------------------------------------------------------------
(* The kernel (external) *)

Post(slots) ==
  /\ cq' = cq \o slots
  /\ eventfd' = TRUE

\* The oldest published SQE is issued.  A cancel that finds its target among
\* the operations in flight either ends it or comes too late for it.
KernelIssue ==
  /\ kq # <<>>
  /\ kq' = Tail(kq)
  /\ LET s == Head(kq) IN
     \/ /\ op[s] # "cancel"
        /\ inflight' = inflight \cup {s}
        /\ UNCHANGED <<cq, eventfd, canceled>>
     \/ /\ op[s] = "cancel"
        /\ Post(<<s>>)
        /\ UNCHANGED <<inflight, canceled>>
     \/ /\ op[s] = "cancel" /\ target[s] \in inflight
        /\ inflight' = inflight \ {target[s]}
        /\ canceled' = canceled \cup {target[s]}
        /\ Post(<<target[s], s>>)
  /\ UNCHANGED <<lock, free, countVars, fixed_inflight, reqVars, fatal,
                 shutting_down, sq, pc, callVars, drainVars, waitVars, history>>

KernelComplete(s) ==
  /\ s \in inflight
  /\ inflight' = inflight \ {s}
  /\ Post(<<s>>)
  /\ UNCHANGED <<lock, free, countVars, fixed_inflight, reqVars, fatal,
                 shutting_down, sq, kq, canceled, pc, callVars, drainVars,
                 waitVars, history>>
-----------------------------------------------------------------------------
SubmitStep(a) ==
  \/ SubmitBegin(a) \/ SubmitBeginFull(a) \/ SubmitRecheck(a)
  \/ RingSubmit(a) \/ SubmitAbort(a) \/ SubmitEnd(a)

CancelStep(a) ==
  \/ CancelBegin(a) \/ RingSubmitCancel(a) \/ CancelTooLate(a) \/ CancelEnd(a)

DrainStep(a) ==
  \/ TakeBatch(a) \/ ProcessCompletion(a) \/ CallbackReturn(a) \/ RetireBatch(a)

LoopStep ==
  \/ PollFlush \/ WaitDrainFd \/ WaitFlush \/ WaitReturn \/ WaitBlock
  \/ WaitWake \/ WakeFlush \/ WaitTimeout

Kernel == KernelIssue \/ \E s \in Slots : KernelComplete(s)

Next ==
  \/ \E a \in Acts : SubmitCall(a) \/ SubmitStep(a) \/ CancelStep(a) \/ DrainStep(a)
  \/ \E a \in Acts : FlushCall(a)
  \/ \E a \in Acts, s \in Slots : CancelCall(a, s)
  \/ PollCall \/ WaitCall \/ LoopStep \/ Shutdown
  \/ Kernel

Spec == Init /\ [][Next]_vars

\* Scheduling.  A thread inside the library keeps running, and a thread that
\* asks for ring->lock again and again gets it (strong fairness where a step
\* needs the lock); a callback ends; the event loop keeps calling aura_poll
\* or aura_wait; the kernel issues and finishes what it was given.  Nobody is
\* obliged to submit, cancel, flush or shut down.
LibraryStep(a) ==
  \/ SubmitStep(a) \/ CancelStep(a) \/ DrainStep(a)
  \/ a = loopAct /\ LoopStep

Fairness ==
  /\ \A a \in Acts : SF_vars(LibraryStep(a))
  /\ SF_vars(PollCall \/ WaitCall)
  /\ WF_vars(KernelIssue) /\ \A s \in Slots : WF_vars(KernelComplete(s))

FairSpec == Spec /\ Fairness
-----------------------------------------------------------------------------
(* Properties *)

RingTypes ==
  /\ lock \in Acts \cup {NoAct}
  /\ free \in Seq(Slots)
  /\ pending_count \in Int /\ queued_sqes \in Nat
  /\ fixed_inflight \in [{"file", "buffer"} -> Int]

RequestTypes ==
  /\ in_pool \in [Slots -> BOOLEAN] /\ pending \in [Slots -> BOOLEAN]
  /\ op \in [Slots -> Ops]
  /\ target \in [Slots -> Slots \cup {NoSlot}]
  /\ canceled \subseteq Slots /\ asked \subseteq Slots /\ aimed \subseteq Slots

EngineTypes ==
  /\ fatal \in BOOLEAN /\ shutting_down \in BOOLEAN /\ eventfd \in BOOLEAN
  /\ w_fatal \in BOOLEAN /\ w_pending \in BOOLEAN

QueueTypes ==
  /\ sq \in Seq(Slots) /\ kq \in Seq(Slots) /\ cq \in Seq(Slots)
  /\ inflight \subseteq Slots
  /\ batch \in [Acts -> Seq(Slots)] /\ retire \in [Acts -> Seq(Slots)]

CallTypes ==
  /\ pc \in [Acts -> PcValues]
  /\ req \in [Acts -> Slots \cup {NoSlot}]
  /\ want \in [Acts -> Ops]
  /\ tgt \in [Acts -> Slots \cup {NoSlot}]
  /\ after \in [Acts -> {"return", "recheck", "waited", "final"}]
  /\ got \in [Acts -> BOOLEAN]

\* The type invariant.
TypeOK == RingTypes /\ RequestTypes /\ EngineTypes /\ QueueTypes /\ CallTypes

\* The places a request slot can be at.
Shared == {"pool", "sq", "kq", "inflight", "cq"}
Local  == {"held", "batch", "retire"}
Places == (Shared \X {NoAct}) \cup (Local \X Acts)

\* A slot is held from ring_get_request until its SQE is written.
Holding == {"held", "cancelheld"}

\* The slots at each place.
At == [p \in Places |->
  CASE p[1] = "pool"     -> Range(free)
    [] p[1] = "sq"       -> Range(sq)
    [] p[1] = "kq"       -> Range(kq)
    [] p[1] = "inflight" -> inflight
    [] p[1] = "cq"       -> Range(cq)
    [] p[1] = "held"     -> IF pc[p[2]] \in Holding THEN {req[p[2]]} ELSE {}
    [] p[1] = "batch"    -> Range(batch[p[2]])
    [] p[1] = "retire"   -> Range(retire[p[2]])]

OnePlace(f) ==
  \A s \in Slots : \E p \in Places : \A r \in Places : s \in f[r] <=> r = p
NoRepeats ==
  /\ IsInjective(free) /\ IsInjective(sq) /\ IsInjective(kq) /\ IsInjective(cq)
  /\ \A a \in Acts : IsInjective(batch[a]) /\ IsInjective(retire[a])

\* Slot conservation: whatever the threads, their callbacks and the kernel
\* do, every request slot is at exactly one place - the free stack, in the
\* hands of one submitter, in the SQ, in the kernel, in the CQ, or in one
\* drain's batch - and at most once in it.  So ring_get_request never hands
\* out a slot that is still in use, and no slot is ever lost.
SlotsPartitioned == OnePlace(At) /\ NoRepeats

\* The flags of a request tell where it is: in_pool on the free stack, pending
\* from the SQE until process_completion.  The two defensive checks of
\* ring_put_request and the unlocked check of aura_cancel rest on this.
FlagsAgree ==
  \A s \in Slots :
    /\ in_pool[s] <=> s \in Range(free)
    /\ pending[s] <=> \/ s \in Range(sq) \/ s \in Range(kq) \/ s \in inflight
                      \/ s \in Range(cq) \/ \E a \in Acts : s \in Range(batch[a])

\* What an activation's locals hold at each point of its call.
LocalsAgree ==
  \A a \in Acts :
    /\ pc[a] \in Holding \cup {"submitted", "cancelqueued"} => req[a] \in Slots
    /\ pc[a] \in {"cancel", "cancelheld", "cancelqueued"} => tgt[a] \in Slots
    /\ pc[a] \notin {"process", "callback"} => batch[a] = <<>> /\ retire[a] = <<>>
    /\ pc[a] = "callback" => retire[a] # <<>>

\* The inductive invariant behind slot conservation.
RingInv == TypeOK /\ SlotsPartitioned /\ FlagsAgree /\ LocalsAgree

\* Requests between their submission and ring_retire_batch.
Outstanding ==
  {s \in Slots : ~in_pool[s] /\ \A a \in Acts : pc[a] \in Holding => req[a] # s}

\* pending_count, which gates submissions and ends aura_drain, is exactly the
\* number of requests submitted and not retired, and queued_sqes exactly the
\* number of SQEs not yet published, through partial and failed submits, the
\* clamped decrement and batched retirement.
CountersExact ==
  /\ pending_count = Cardinality(Outstanding)
  /\ queued_sqes = Len(sq)

\* A registered file or buffer counts as in flight exactly while an operation
\* on it is submitted and its CQE not processed; finalizing a deferred
\* unregistration relies on a zero meaning that the kernel uses none.
BufferUsers == {s \in Slots : pending[s] /\ op[s] = "buffer"}
FileUsers   == {s \in Slots : /\ pending[s] /\ op[s] = "file"
                               /\ \A a \in Acts : req[a] # s}
FixedInflightExact ==
  /\ fixed_inflight["buffer"] = Cardinality(BufferUsers)
  /\ fixed_inflight["file"] = Cardinality(FileUsers)

\* The four counters together.
AllCountsExact == CountersExact /\ FixedInflightExact

\* The defensive branches of ring_put_request (double free, pending slot) and
\* of process_completion (completion of a request that is not pending) are
\* never taken: no duplicate and no stale completion reaches them.
NoBugBranch ==
  \A a \in Acts :
    /\ \A s \in Range(batch[a]) : pending[s]
    /\ \A s \in Range(retire[a]) : Puttable(s)
    /\ pc[a] \in Holding => Puttable(req[a])

DataOps == {s \in Outstanding : op[s] # "cancel"}

\* Outside passthrough mode the operations in flight never exceed the largest
\* limit the controller may publish, although submitters check it, drop the
\* lock to drain completions, and check again.
LimitRespected ==
  ~Passthrough => \E limit \in Limits : Cardinality(DataOps) <= limit

\* A request that got a slot always finds an SQE: submit_get_sqe never fails
\* with EBUSY, because every unconsumed SQE owns one of the queue_depth slots.
SqNeverFull ==
  \A a \in Acts : pc[a] \in Holding => Len(sq) + Len(kq) < QueueDepth

\* A cancel SQE names its target by slot address.  It never ends a later
\* request that reuses the slot, however long the SQE stays unpublished after
\* a failed flush: only a request that was pending when the cancel SQE was
\* written completes with -ECANCELED.
CancelHitsAimed == canceled \subseteq aimed

\* The points of a call at which ring->lock is held with a slot in hand.
Locked == Holding \cup {"submitted", "cancelqueued"}

\* What ring->lock protects.  Between ring_get_request and the unlock that ends
\* the call the thread has the lock, its SQE stays unpublished until its own
\* flush, and the limit it was admitted under still has room.
LockAgree ==
  \A a \in Acts :
    /\ pc[a] \in Locked => lock = a
    /\ req[a] # NoSlot => pc[a] \in Locked
    /\ pc[a] \in {"submitted", "cancelqueued"} => req[a] \in Range(sq)
    /\ want[a] # "cancel"
    /\ pc[a] = "held" => op[req[a]] # "cancel"
    /\ pc[a] \in {"cancelheld", "cancelqueued"} => op[req[a]] = "cancel"
    /\ pc[a] = "held" /\ ~Passthrough => \E limit \in Limits : pending_count < limit

\* The SQEs in the order in which the kernel issues them.
Queue == kq \o sq

\* The target of a cancel SQE that was not issued yet: the request it was aimed
\* at, or, if that one has completed and its slot was reused, a request whose
\* own SQE is not written yet or comes later in the queue.
CancelsFirst ==
  \A i \in 1 .. Len(Queue) : op[Queue[i]] = "cancel" =>
    LET t == target[Queue[i]] IN
    /\ t \in Slots
    /\ \/ t \in aimed \/ in_pool[t]
       \/ \E a \in Acts : pc[a] \in Holding /\ req[a] = t
       \/ \E j \in i + 1 .. Len(Queue) : Queue[j] = t

\* The inductive invariant behind the counters, the limit and cancellation.
RingStrong ==
  /\ RingInv /\ LockAgree
  /\ CountersExact /\ FixedInflightExact /\ LimitRespected
  /\ CancelsFirst /\ CancelHitsAimed

\* Where each slot is in the life of a request, for RequestLifecycle.
Phase ==
  [s \in Slots |->
    IF in_pool[s] THEN "free"
    ELSE IF \E a \in Acts : pc[a] \in Holding /\ req[a] = s THEN "held"
    ELSE IF pending[s] THEN "submitted"
    ELSE IF \E a \in Acts : /\ pc[a] = "callback"
                            /\ retire[a][Len(retire[a])] = s THEN "callback"
    ELSE "done"]

Lifecycle == INSTANCE RequestLifecycle WITH phase <- Phase

\* The ring implements the request lifecycle: one completion per submitted
\* request, and no reuse of its slot before the callback has returned.
ImplementsLifecycle == Lifecycle!Spec

\* Every slot handed out comes back to the pool: no request is stuck unflushed
\* below the batch threshold, in the kernel, or in the CQ, and no slot leaks.
SlotsComeBack == \A s \in Slots : ~in_pool[s] ~> in_pool[s]

\* The drain of aura_destroy ends: once shutdown is signalled the requests in
\* flight reach zero and stay there.
ShutdownDrains == shutting_down ~> [](pending_count = 0)

\* aura_wait(-1) returns once the operations that it waits for are complete.
WaitReturns == pc[loopAct] = "blocked" ~> pc[loopAct] # "blocked"

\* Only a request that aura_cancel was called for completes with -ECANCELED.
CancelHitsAsked == canceled \subseteq asked
=============================================================================
