------------------------------ MODULE RingLock ------------------------------
(***************************************************************************)
(* Who may be inside one ring of a THREAD_LOCAL engine.  A ring with a     *)
(* single owner runs without its two mutexes: the flag single_thread says  *)
(* so, ring_lock and ring_cq_lock then only count their users (st_users,   *)
(* st_cq_users), and submit_begin, submit_end, aura_poll and ring_poll     *)
(* skip even that.  A second thread that is given the ring clears the flag *)
(* and spins until the counters are zero.                                  *)
(*                                                                         *)
(* Every atomic load, store or read-modify-write is a step of its own, in  *)
(* program order and sequentially consistent (the code asks for less:      *)
(* release and acquire).  What a section does to the queue is left out:    *)
(* Ring.tla has it.                                                        *)
(***************************************************************************)
EXTENDS Integers, FiniteSets

CONSTANTS
  Threads,      \* the threads that use the ring
  Callers,      \* the cases: which threads submit and poll (the others only
                \* cancel), and which had claimed the ring at the start
  Chains,       \* whether a submitter may call aura_request_set_linked
  MaxDrift,     \* bound: how far st_users may be off when a call begins
  NoThread      \* an unlocked mutex

VARIABLES
  submitters,     \* the threads that call aura_poll and the submit functions
  owner_count,    \* ring->owner_count
  single_thread,  \* ring->single_thread
  st_users,       \* st_users["lock"] is ring->st_users, ["cq_lock"] st_cq_users
  lock,           \* the holder of ring->lock and of ring->cq_lock
  pc,             \* where each thread is
  op,             \* what it takes the lock for
  lock_st,        \* the result of its last ring_lock (submit_ctx_t.lock_st)
  owned,          \* tls_owned_ring is set
  linked          \* tls_link_ring is set

vars == <<submitters, owner_count, single_thread, st_users, lock, pc, op,
          lock_st, owned, linked>>
flags == <<submitters, owner_count, single_thread>>
tls == <<owned, linked>>

Locks == {"lock", "cq_lock"}
\* "submit" is the body of a submission, "chain" the flush that ends a linked
\* chain, "flush" the first half of aura_poll, "reap" and "retire" the two
\* halves of ring_drain_cqes, "cancel" aura_cancel.
Ops == {"submit", "chain", "flush", "reap", "retire", "cancel"}
Pcs == {"idle", "enable", "share", "spin", "begin", "load", "bump", "recheck",
        "mutex", "inside", "fast", "flush_fast", "poll", "drain_fast"}

LockOf(o) == IF o = "reap" THEN "cq_lock" ELSE "lock"

\* A ring whose first owner has long claimed it runs lockless; a ring nobody
\* has claimed uses its mutexes (aura_create, options->single_thread unset).
Init ==
  /\ \E c \in Callers :
      /\ submitters = c.submitters
      /\ owner_count = Cardinality(c.owners)
      /\ single_thread = (Cardinality(c.owners) = 1)
      /\ owned = [t \in Threads |-> t \in c.owners]
  /\ st_users = [k \in Locks |-> 0]
  /\ lock = [k \in Locks |-> NoThread]
  /\ pc = [t \in Threads |-> "idle"]
  /\ op = [t \in Threads |-> "cancel"]
  /\ lock_st = [t \in Threads |-> FALSE]
  /\ linked = [t \in Threads |-> FALSE]

Goto(t, label) == pc' = [pc EXCEPT ![t] = label]
RingLockFor(t, o) == Goto(t, "load") /\ op' = [op EXCEPT ![t] = o]

-----------------------------------------------------------------------------
(* ring_lock, ring_cq_lock, ring_unlock, ring_cq_unlock.                   *)

\* The first load of single_thread.
LockLoad(t) ==
  /\ pc[t] = "load"
  /\ Goto(t, IF single_thread THEN "bump" ELSE "mutex")
  /\ UNCHANGED <<flags, st_users, lock, op, lock_st, tls>>

LockBump(t) ==
  /\ pc[t] = "bump"
  /\ st_users' = [st_users EXCEPT ![LockOf(op[t])] = @ + 1]
  /\ Goto(t, "recheck")
  /\ UNCHANGED <<flags, lock, op, lock_st, tls>>

\* Fault: the flag is not read again after the bump.
LockRecheck_Never(t) ==
  /\ pc[t] = "recheck"
  /\ Goto(t, "inside")
  /\ lock_st' = [lock_st EXCEPT ![t] = TRUE]
  /\ UNCHANGED <<flags, st_users, lock, op, tls>>

\* Fault: a thread sent to the mutex stays counted.
LockRecheck_Kept(t) ==
  /\ pc[t] = "recheck"
  /\ Goto(t, IF single_thread THEN "inside" ELSE "mutex")
  /\ lock_st' = [lock_st EXCEPT ![t] = single_thread \/ @]
  /\ UNCHANGED <<flags, st_users, lock, op, tls>>

\* The second load: a flag cleared since sends the thread to the mutex.
LockRecheck(t) ==
  /\ pc[t] = "recheck"
  /\ IF single_thread
     THEN /\ Goto(t, "inside")
          /\ lock_st' = [lock_st EXCEPT ![t] = TRUE]
          /\ UNCHANGED st_users
     ELSE /\ Goto(t, "mutex")
          /\ st_users' = [st_users EXCEPT ![LockOf(op[t])] = @ - 1]
          /\ UNCHANGED lock_st
  /\ UNCHANGED <<flags, lock, op, tls>>

LockMutex(t) ==
  /\ pc[t] = "mutex"
  /\ lock[LockOf(op[t])] = NoThread
  /\ lock' = [lock EXCEPT ![LockOf(op[t])] = t]
  /\ lock_st' = [lock_st EXCEPT ![t] = FALSE]
  /\ Goto(t, "inside")
  /\ UNCHANGED <<flags, st_users, op, tls>>

ring_unlock(k, st) ==
  IF st THEN st_users' = [st_users EXCEPT ![k] = @ - 1] /\ UNCHANGED lock
        ELSE lock' = [lock EXCEPT ![k] = NoThread] /\ UNCHANGED st_users

-----------------------------------------------------------------------------
(* select_ring_thread_local, at a thread's first submission.               *)

Claim(t) ==
  /\ pc[t] = "idle" /\ t \in submitters /\ ~owned[t]
  /\ owner_count' = owner_count + 1
  /\ Goto(t, IF owner_count = 0 THEN "enable" ELSE "share")
  /\ UNCHANGED <<submitters, single_thread, st_users, lock, op, lock_st,
                 tls>>

ClaimFirst(t) ==
  /\ pc[t] = "enable"
  /\ single_thread' = TRUE
  /\ owned' = [owned EXCEPT ![t] = TRUE]
  /\ Goto(t, "begin")
  /\ UNCHANGED <<submitters, owner_count, st_users, lock, op, lock_st,
                 linked>>

ClaimShared(t) ==
  /\ pc[t] = "share"
  /\ single_thread' = FALSE
  /\ Goto(t, "spin")
  /\ UNCHANGED <<submitters, owner_count, st_users, lock, op, lock_st, tls>>

\* Both counters have been seen at zero or below.
SpinEnds(t) ==
  /\ pc[t] = "spin"
  /\ \A k \in Locks : st_users[k] <= 0
  /\ owned' = [owned EXCEPT ![t] = TRUE]
  /\ Goto(t, "begin")
  /\ UNCHANGED <<flags, st_users, lock, op, lock_st, linked>>

-----------------------------------------------------------------------------
(* The submit functions.                                                   *)

Submit(t) ==
  /\ pc[t] = "idle" /\ t \in submitters /\ owned[t]
  /\ Goto(t, "begin")
  /\ UNCHANGED <<flags, st_users, lock, op, lock_st, tls>>

\* submit_begin: a sole owner outside a chain takes nothing, and its context
\* says lock_st = true.
submit_begin(t) ==
  /\ pc[t] = "begin"
  /\ IF single_thread /\ ~linked[t]
     THEN /\ Goto(t, "fast")
          /\ lock_st' = [lock_st EXCEPT ![t] = TRUE]
          /\ UNCHANGED op
     ELSE RingLockFor(t, "submit") /\ UNCHANGED lock_st
  /\ UNCHANGED <<flags, st_users, lock, tls>>

InSubmission(t) == pc[t] = "fast" \/ (pc[t] = "inside" /\ op[t] = "submit")

\* submit_end decides anew whether the caller is a sole owner.  The tail of a
\* chain begun lockless takes the lock for its flush.
submit_end(t) ==
  /\ InSubmission(t)
  /\ \/ /\ single_thread /\ ~linked[t]
        /\ Goto(t, "idle")
        /\ UNCHANGED <<st_users, lock, op>>
     \/ /\ linked[t] /\ lock_st[t]
        /\ RingLockFor(t, "chain")
        /\ UNCHANGED <<st_users, lock>>
     \/ /\ linked[t] /\ ~lock_st[t]
        /\ Goto(t, "inside") /\ op' = [op EXCEPT ![t] = "chain"]
        /\ UNCHANGED <<st_users, lock>>
     \/ /\ ~single_thread /\ ~linked[t]
        /\ ring_unlock("lock", lock_st[t])
        /\ Goto(t, "idle")
        /\ UNCHANGED op
  /\ UNCHANGED <<flags, lock_st, tls>>

\* Fault: the error path forgets ring->lock.
submit_abort_Kept(t) ==
  /\ InSubmission(t)
  /\ linked' = [linked EXCEPT ![t] = FALSE]
  /\ Goto(t, "idle")
  /\ UNCHANGED <<flags, st_users, lock, op, lock_st, owned>>

\* ring_submit_* rejected the request: submit_abort gives back the lock that
\* lock_st says was taken.
submit_abort(t) ==
  /\ InSubmission(t)
  /\ linked' = [linked EXCEPT ![t] = FALSE]
  /\ ring_unlock("lock", lock_st[t])
  /\ Goto(t, "idle")
  /\ UNCHANGED <<flags, op, lock_st, owned>>

\* aura_request_set_linked pins the thread's next submission to the ring.
aura_request_set_linked(t) ==
  /\ Chains /\ pc[t] = "idle" /\ owned[t]
  /\ linked' = [linked EXCEPT ![t] = TRUE]
  /\ UNCHANGED <<flags, st_users, lock, pc, op, lock_st, owned>>

-----------------------------------------------------------------------------
(* aura_poll and aura_cancel.                                              *)

aura_poll(t) ==
  /\ pc[t] = "idle" /\ t \in submitters /\ owned[t]
  /\ IF single_thread THEN Goto(t, "flush_fast") /\ UNCHANGED op
                      ELSE RingLockFor(t, "flush")
  /\ UNCHANGED <<flags, st_users, lock, lock_st, tls>>

FlushFastEnds(t) ==
  /\ pc[t] = "flush_fast"
  /\ Goto(t, "poll")
  /\ UNCHANGED <<flags, st_users, lock, op, lock_st, tls>>

ring_poll(t) ==
  /\ pc[t] = "poll"
  /\ IF single_thread THEN Goto(t, "drain_fast") /\ UNCHANGED op
                      ELSE RingLockFor(t, "reap")
  /\ UNCHANGED <<flags, st_users, lock, lock_st, tls>>

DrainFastEnds(t) ==
  /\ pc[t] = "drain_fast"
  /\ Goto(t, "idle")
  /\ UNCHANGED <<flags, st_users, lock, op, lock_st, tls>>

\* The documentation excludes THREAD_LOCAL rings from use across threads, so
\* a thread cancels its own requests.
aura_cancel(t) ==
  /\ pc[t] = "idle" /\ owned[t]
  /\ RingLockFor(t, "cancel")
  /\ UNCHANGED <<flags, st_users, lock, lock_st, tls>>

\* The end of a section entered by ring_lock, other than a submission's.
SectionEnds(t) ==
  /\ pc[t] = "inside" /\ op[t] # "submit"
  /\ ring_unlock(LockOf(op[t]), lock_st[t])
  /\ linked' = [linked EXCEPT ![t] = @ /\ op[t] # "chain"]
  /\ CASE op[t] = "flush" -> Goto(t, "poll") /\ UNCHANGED op
       [] op[t] = "reap"  -> RingLockFor(t, "retire")
       [] OTHER           -> Goto(t, "idle") /\ UNCHANGED op
  /\ UNCHANGED <<flags, lock_st, owned>>

-----------------------------------------------------------------------------
Step(t) ==
  \/ LockLoad(t) \/ LockBump(t) \/ LockRecheck(t) \/ LockMutex(t)
  \/ ClaimFirst(t) \/ ClaimShared(t) \/ SpinEnds(t)
  \/ submit_begin(t) \/ submit_end(t) \/ submit_abort(t)
  \/ FlushFastEnds(t) \/ ring_poll(t) \/ DrainFastEnds(t) \/ SectionEnds(t)

Call(t) ==
  \/ Claim(t) \/ Submit(t) \/ aura_request_set_linked(t)
  \/ aura_poll(t) \/ aura_cancel(t)

Bounded == \A k \in Locks : st_users[k] \in -MaxDrift .. MaxDrift

Next == \E t \in Threads : Step(t) \/ (Bounded /\ Call(t))

\* A call that was begun goes on: threads are scheduled, and a mutex that is
\* free again and again is given to its waiter in the end.
Fairness == \A t \in Threads : WF_vars(Step(t)) /\ SF_vars(LockMutex(t))

Spec == Init /\ [][Next]_vars /\ Fairness

-----------------------------------------------------------------------------
TypeOK ==
  /\ owner_count \in 0..Cardinality(Threads)
  /\ single_thread \in BOOLEAN
  /\ st_users \in [Locks -> Int]
  /\ lock \in [Locks -> Threads \cup {NoThread}]
  /\ pc \in [Threads -> Pcs] /\ op \in [Threads -> Ops]
  /\ lock_st \in [Threads -> BOOLEAN]
  /\ owned \in [Threads -> BOOLEAN] /\ linked \in [Threads -> BOOLEAN]

\* The sections of the submission side and of the completion side.
InSq(t) ==
  \/ pc[t] \in {"fast", "flush_fast", "drain_fast"}
  \/ pc[t] = "inside" /\ op[t] # "reap"
InCq(t) == pc[t] = "drain_fast" \/ (pc[t] = "inside" /\ op[t] = "reap")

\* Two threads are never at once on the submission side of the ring, nor at
\* once on its completion side, whichever way each of them came in.
MutualExclusion ==
  \A t, u \in Threads :
    t # u => ~(InSq(t) /\ InSq(u)) /\ ~(InCq(t) /\ InCq(u))

\* The threads ring_lock has counted and ring_unlock has not yet uncounted.
Counted(k) ==
  {t \in Threads : /\ LockOf(op[t]) = k
                   /\ pc[t] = "recheck" \/ (pc[t] = "inside" /\ lock_st[t])}

\* st_users and st_cq_users are the number of threads inside a counted
\* section, so that the wait of a new owner is as long as a section, no more.
StUsersExact == \A k \in Locks : st_users[k] = Cardinality(Counted(k))

\* The cases the exclusion is promised for: one thread has the ring to itself,
\* or the ring's first owner only cancels once others are given it.  (A first
\* owner that submits is uncounted in submit_begin, and a joining thread does
\* not wait for it.)
LockConstants ==
  /\ NoThread \notin Threads
  /\ \A c \in Callers : \E o \in Threads :
       \/ c.submitters \subseteq {o} /\ c.owners \subseteq {o}
       \/ c.owners = {o} /\ o \notin c.submitters

\* A holder of a mutex is the thread that is in the section it guards.
MutexHeld ==
  \A t \in Threads :
    pc[t] = "inside" /\ ~lock_st[t] => lock[LockOf(op[t])] = t

\* Nobody but o has come to the ring.
Alone(o) ==
  /\ submitters \subseteq {o}
  /\ \A t \in Threads \ {o} : pc[t] = "idle" /\ ~owned[t]

\* The first owner is counted while it may be inside without the mutex ...
OwnerCounted(o) ==
  /\ o \notin submitters /\ owned[o] /\ op[o] = "cancel"
  /\ pc[o] \in {"idle", "load", "bump", "recheck", "mutex", "inside"}
  /\ owner_count > 0
  /\ st_users["cq_lock"] = 0
  /\ st_users["lock"] =
       IF pc[o] = "recheck" \/ (pc[o] = "inside" /\ lock_st[o]) THEN 1 ELSE 0

\* ... and a thread that shares the ring with it finds the flag down, goes by
\* the mutex, and is through the spin only when the owner is out.
Joined(o, t) ==
  /\ pc[t] \notin {"enable", "bump", "recheck", "fast", "flush_fast",
                   "drain_fast"}
  /\ ~lock_st[t]
  /\ (pc[t] \notin {"idle", "share"} \/ owned[t]) => ~single_thread
  /\ pc[t] \notin {"idle", "share", "spin"} => owned[t]
  /\ owned[t] => ~(pc[o] = "inside" /\ lock_st[o])

\* The invariant that makes the two sides of the ring exclusive.
LockInv ==
  /\ owner_count \in Nat
  /\ single_thread \in BOOLEAN
  /\ st_users \in [Locks -> Int]
  /\ lock \in [Locks -> Threads \cup {NoThread}]
  /\ pc \in [Threads -> Pcs] /\ op \in [Threads -> Ops]
  /\ lock_st \in [Threads -> BOOLEAN]
  /\ owned \in [Threads -> BOOLEAN] /\ linked \in [Threads -> BOOLEAN]
  /\ \E o \in Threads :
       \/ Alone(o)
       \/ OwnerCounted(o) /\ MutexHeld /\ \A t \in Threads \ {o} : Joined(o, t)

\* A thread that starts to claim the ring gets through the spin to its
\* submission.
ClaimEnds ==
  \A t \in Threads :
    pc[t] \in {"enable", "share", "spin"} ~> pc[t] = "begin"

\* A thread that waits for a mutex gets it: nobody leaves with it held.
LockGiven == \A t \in Threads : pc[t] = "mutex" ~> pc[t] = "inside"
=============================================================================
