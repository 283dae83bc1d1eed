---------------------------- MODULE Registration ----------------------------
(***************************************************************************)
(* Registered buffers and files of an AuraIO engine with several rings:    *)
(* registration, deferred and synchronous unregistration, replacement of a *)
(* registered file, and the submissions and completions that use the       *)
(* registered tables, under reg_lock.                                      *)
(*                                                                         *)
(* Both tables have one entry.  A ring is a set of request slots; its SQ   *)
(* and CQ are the states of its requests (module Ring has their detail).   *)
(* A section of ring->lock is one action here: its holder never waits for  *)
(* another lock.  lock_held is the lock of a call that returned without    *)
(* releasing it.  aura_poll stands for aura_wait too.                      *)
(*                                                                         *)
(* A library call in progress is an activation <<t, d>>: thread t, depth d *)
(* (depth d + 1: a call made by a callback inside the call at depth d).    *)
(* A call that fails before it changes anything is no step.                *)
(***************************************************************************)
EXTENDS Integers, FiniteSets

CONSTANTS
  Threads,          \* application threads
  EventLoop,        \* the one thread that calls aura_poll and aura_unregister
  MaxDepth,         \* bound: nesting depth of library calls made by callbacks
  NRings,           \* engine->ring_count
  RequestsPerRing,  \* request slots of a ring
  Fds,              \* file descriptors
  FileIndices,      \* indices passed with AURA_FIXED_FILE; the table has one entry
  SoleOwner,        \* ring_is_sole_owner: one thread, one ring, no ring lock
  NoTable,          \* registered_files or registered_buffers is NULL
  NoAct,            \* no activation
  NoSlot            \* no request slot

Types == {"buffers", "files"}
Rings == 1 .. NRings
Slots == Rings \X (1 .. RequestsPerRing)
Acts  == Threads \X (1 .. MaxDepth)

\* What a registered table holds: the iovecs are told apart by nobody.
Contents(ty) == IF ty = "files" THEN Fds ELSE {"iovecs"}

ASSUME RegistrationConstants ==
  /\ EventLoop \in Threads
  /\ MaxDepth \in Nat \ {0}
  /\ NRings \in Nat \ {0}
  /\ RequestsPerRing \in Nat \ {0}
  /\ FileIndices \subseteq Nat
  /\ SoleOwner \in BOOLEAN
  /\ SoleOwner => Threads = {EventLoop} /\ NRings = 1
  /\ NoTable \notin Fds \cup {"iovecs"}
  /\ NoAct \notin Acts
  /\ NoSlot \notin Slots

VARIABLES
  \* aura_engine_t
  registered,     \* buffers_registered, files_registered
  unreg_pending,  \* buffers_unreg_pending, files_unreg_pending
  table,          \* registered_buffers, registered_files
  fatal,          \* fatal_submit_errno # 0
  readers,        \* reg_lock: the activations that hold it for reading
  writer,         \* reg_lock: the activation that holds it for writing
  \* ring_ctx_t
  lock_held,      \* rings whose ring->lock is held by no call in progress
  inflight,       \* fixed_buf_inflight, fixed_file_inflight, per ring
  req,            \* aura_request_t and where its SQE or CQE is
  \* kernel side
  kernel,         \* the tables registered with each ring
  \* library calls in progress
  act

vars == <<registered, unreg_pending, table, fatal, readers, writer, lock_held,
          inflight, req, kernel, act>>
engine == <<registered, unreg_pending, table, fatal>>
rings  == <<lock_held, inflight, req>>

-----------------------------------------------------------------------------
(* Activations and requests *)

\* An operation: buf, it uses a registered buffer; fixed, index: it was
\* called with AURA_FIXED_FILE; file: it uses the registered file; fd: the
\* registered file that its caller means.
Op(buf, fixed, index, fd, file) ==
  [buf |-> buf, fixed |-> fixed, index |-> index, fd |-> fd, file |-> file]
NoOp == Op(FALSE, FALSE, 0, NoTable, FALSE)

\* pc: where the call is.  ring, slot: the ring it works on, the request whose
\* callback it runs.  then: where it continues after a drain or finalization.
\* ty, wait: what it unregisters, and whether it is aura_unregister, which waits.
Idle == [pc |-> "out", op |-> NoOp, ring |-> 1, slot |-> NoSlot,
         then |-> "return", ty |-> "none", wait |-> FALSE]

FreeRequest == [state |-> "free", buf |-> FALSE, file |-> FALSE,
                fd |-> NoTable, got |-> NoTable]

\* Requests the library has submitted and whose completion it has not seen.
Submitted == {"queued", "sent", "cqe"}

Uses(s, ty) == IF ty = "files" THEN req[s].file ELSE req[s].buf

Init ==
  /\ registered = [ty \in Types |-> FALSE]
  /\ unreg_pending = [ty \in Types |-> FALSE]
  /\ table = [ty \in Types |-> NoTable]
  /\ fatal = FALSE
  /\ readers = {}
  /\ writer = NoAct
  /\ lock_held = {}
  /\ inflight = [ty \in Types |-> [r \in Rings |-> 0]]
  /\ req = [s \in Slots |-> FreeRequest]
  /\ kernel = [r \in Rings |-> [ty \in Types |-> NoTable]]
  /\ act = [a \in Acts |-> Idle]

\* An application thread may call at depth 1, a callback one level deeper.
MayCall(a) ==
  /\ act[a].pc = "out"
  /\ a[2] > 1 => act[<<a[1], a[2] - 1>>].pc = "callback"

\* aura.h: registration operations "must be serialized": the application does
\* not start one while another thread is in one.
Serialized(a) ==
  \A b \in Acts : b[1] # a[1]
    => act[b].ty = "none" /\ act[b].pc \notin {"update", "updating"}

Goto(a, pc) == act' = [act EXCEPT ![a].pc = pc]
Return(a)   == act' = [act EXCEPT ![a] = Idle]

RdFree == writer = NoAct
WrFree == writer = NoAct /\ readers = {}

-----------------------------------------------------------------------------
(* Submission *)

\* resolve_registered_file_locked: the caller's descriptor is in the table.
Resolves(fd) ==
  registered["files"] /\ ~unreg_pending["files"] /\ table["files"] = fd

Resolved(buf, fd) ==
  IF Resolves(fd) THEN Op(buf, FALSE, 0, fd, TRUE) ELSE Op(buf, FALSE, 0, NoTable, FALSE)

\* validate_fixed_file, which takes no lock.  The table has one entry.
ValidFixedFile(index) == registered["files"] /\ index < 1

\* A comment there makes it the caller's duty: no AURA_FIXED_FILE submission
\* while files are being unregistered (nor before they are registered).
FixedFileAllowed ==
  /\ registered["files"] /\ ~unreg_pending["files"]
  /\ \A a \in Acts : act[a].pc = "request" => act[a].ty # "files"
FixedFileInProgress == \E a \in Acts : act[a].op.fixed

\* The call goes on to submit_begin, on any ring that select_ring may choose.
Begin(a, op, locked) ==
  /\ ~fatal
  /\ \E r \in Rings :
       act' = [act EXCEPT ![a] = [Idle EXCEPT !.pc = "begin", !.op = op,
                                              !.ring = r, !.then = "again"]]
  /\ readers' = IF locked THEN readers \cup {a} ELSE readers
  /\ UNCHANGED <<engine, writer, rings, kernel>>

\* resolve_file_begin for a plain descriptor: the read lock is kept only if
\* the file is registered.
ResolveFile(a) ==
  /\ MayCall(a)
  /\ registered["files"] => RdFree
  /\ \E fd \in Fds : Begin(a, Resolved(FALSE, fd), Resolves(fd))

\* submit_unregistered_io with AURA_FIXED_FILE: no lock.
FixedFile(a) ==
  /\ MayCall(a)
  /\ FixedFileAllowed
  /\ \E index \in FileIndices :
       /\ ValidFixedFile(index)
       /\ Begin(a, Op(FALSE, TRUE, index, table["files"], TRUE), FALSE)

\* validate_registered_buffer: the read lock is kept on success, and the
\* descriptor is resolved under it.
ValidateBuffer(a) ==
  /\ MayCall(a)
  /\ RdFree
  /\ registered["buffers"] /\ ~unreg_pending["buffers"]
  /\ \/ \E fd \in Fds : Begin(a, Resolved(TRUE, fd), TRUE)
     \/ /\ FixedFileAllowed
        /\ \E index \in FileIndices :
             Begin(a, Op(TRUE, TRUE, index, table["files"], TRUE), TRUE)

\* End of a submission: resolve_file_end, or the unlock of the buffer path.
Leave(a) == readers' = readers \ {a} /\ Return(a)

\* ring_flush: the kernel takes the queued SQEs of ring r and looks their
\* files up in the ring's table.
Flushed(q, r) ==
  [s \in Slots |-> IF s[1] = r /\ q[s].state = "queued"
                   THEN [q[s] EXCEPT !.state = "sent",
                           !.got = IF q[s].file THEN kernel[r]["files"] ELSE @]
                   ELSE q[s]]

Free(r) == {s \in Slots : s[1] = r /\ req[s].state = "free"}

AllowPoll_Always(op) == TRUE

\* submit_begin may drain completions unless the caller holds reg_lock or
\* uses the table.
AllowPoll(op) == ~op.buf /\ ~op.file

\* The rest of the call once it has request s of a ring: the bad index that
\* submit_registered_buffer_io returns on without releasing ring->lock or
\* the request, or the SQE, the counters, and the flush that the batch
\* threshold may ask for.
Queue(a, s) ==
  LET op == act[a].op
      r  == s[1]
      q  == [req EXCEPT ![s] = [state |-> "queued", buf |-> op.buf,
                                file |-> op.file, fd |-> op.fd, got |-> NoTable]]
  IN  IF op.buf /\ op.fixed /\ ~ValidFixedFile(op.index)
      THEN /\ lock_held' = IF SoleOwner THEN lock_held ELSE lock_held \cup {r}
           /\ req' = [req EXCEPT ![s].state = "held"]
           /\ UNCHANGED inflight
      ELSE /\ inflight' = [inflight EXCEPT
                !["buffers"][r] = @ + (IF op.buf THEN 1 ELSE 0),
                !["files"][r] = @ + (IF op.file THEN 1 ELSE 0)]
           /\ req' \in {q, Flushed(q, r)}
           /\ UNCHANGED lock_held

\* submit_begin with capacity, and the rest of the call.  "again" is its
\* second look at the ring, after a drain.
Submit(a) ==
  /\ act[a].pc \in {"begin", "again"} /\ act[a].ring \notin lock_held
  /\ \E s \in Free(act[a].ring) : Queue(a, s)
  /\ Leave(a)
  /\ UNCHANGED <<engine, writer, kernel>>

\* submit_begin without capacity: flush, then drain or EAGAIN.  The path of a
\* sole owner drains without asking whether it may.
SubmitFull(a) ==
  /\ act[a].pc = "begin" /\ act[a].ring \notin lock_held
  /\ Free(act[a].ring) = {}
  /\ req' = Flushed(req, act[a].ring)
  /\ IF SoleOwner \/ AllowPoll(act[a].op)
     THEN Goto(a, "drain") /\ UNCHANGED readers
     ELSE Leave(a)
  /\ UNCHANGED <<engine, writer, lock_held, inflight, kernel>>

\* EAGAIN after the drain; or ring_submit_* fails and submit_abort gives
\* everything back.
SubmitRefused(a) ==
  /\ \/ act[a].pc = "again" /\ Free(act[a].ring) = {}
     \/ act[a].pc \in {"begin", "again"} /\ Free(act[a].ring) # {}
  /\ act[a].ring \notin lock_held
  /\ Leave(a)
  /\ UNCHANGED <<engine, writer, rings, kernel>>

-----------------------------------------------------------------------------
(* Completion *)

KernelComplete(s) ==
  /\ req[s].state = "sent"
  /\ req' = [req EXCEPT ![s].state = "cqe"]
  /\ UNCHANGED <<engine, readers, writer, lock_held, inflight, kernel, act>>

\* process_completion up to the callback: the counters go down first.
ProcessCompletion(a) ==
  /\ act[a].pc = "drain"
  /\ \E s \in Slots :
       /\ s[1] = act[a].ring /\ req[s].state = "cqe"
       /\ req' = [req EXCEPT ![s] = [FreeRequest EXCEPT !.state = "callback"]]
       /\ inflight' = [inflight EXCEPT
            !["buffers"][s[1]] = @ - (IF req[s].buf THEN 1 ELSE 0),
            !["files"][s[1]] = @ - (IF req[s].file THEN 1 ELSE 0)]
       /\ act' = [act EXCEPT ![a].pc = "callback", ![a].slot = s]
  /\ UNCHANGED <<engine, readers, writer, lock_held, kernel>>

\* The callback returns and ring_retire_batch frees the request.
Retire(a) ==
  /\ act[a].pc = "callback"
  /\ a[2] < MaxDepth => act[<<a[1], a[2] + 1>>].pc = "out"
  /\ act[a].ring \notin lock_held
  /\ req' = [req EXCEPT ![act[a].slot] = FreeRequest]
  /\ act' = [act EXCEPT ![a].pc = "drain", ![a].slot = NoSlot]
  /\ UNCHANGED <<engine, readers, writer, lock_held, inflight, kernel>>

\* The CQ is empty: back to submit_begin, or to the next ring of aura_poll,
\* which ends with maybe_finalize_deferred_unregistration.
DrainReturn(a) ==
  /\ act[a].pc = "drain"
  /\ \A s \in Slots : s[1] = act[a].ring => req[s].state # "cqe"
  /\ \/ act[a].then = "again" /\ Goto(a, "again")
     \/ /\ act[a].then = "ring" /\ act[a].ring < NRings
        /\ act' = [act EXCEPT ![a].pc = "ring", ![a].ring = @ + 1]
     \/ /\ act[a].then = "ring" /\ act[a].ring = NRings
        /\ act' = [act EXCEPT ![a].pc = "finalize", ![a].ring = 1,
                              ![a].then = "waited"]
  /\ UNCHANGED <<engine, readers, writer, rings, kernel>>

\* aura_poll and aura_wait: finalize, then flush and drain ring after ring.
PollCall(a) ==
  /\ a = <<EventLoop, 1>> /\ MayCall(a)
  /\ act' = [act EXCEPT ![a].pc = "finalize", ![a].then = "ring"]
  /\ UNCHANGED <<engine, readers, writer, rings, kernel>>

PollRing(a) ==
  /\ act[a].pc = "ring" /\ act[a].ring \notin lock_held
  /\ req' = Flushed(req, act[a].ring)
  /\ Goto(a, "drain")
  /\ UNCHANGED <<engine, readers, writer, lock_held, inflight, kernel>>

-----------------------------------------------------------------------------
(* Unregistration *)

\* Where a call continues after finalization.
After(a) ==
  IF act[a].then = "ring" THEN Goto(a, "ring")
  ELSE IF act[a].wait THEN Goto(a, "check")
  ELSE Return(a)

MaybeFinalize_Never(a) ==  \* polls do not finalize
  /\ act[a].pc = "finalize"
  /\ After(a)
  /\ UNCHANGED <<engine, readers, writer, rings, kernel>>

\* maybe_finalize_deferred_unregistration: the unlocked fast path, or a look
\* at the flags under the read lock.
MaybeFinalize(a) ==
  /\ act[a].pc = "finalize"
  /\ IF \A ty \in Types : ~registered[ty]
     THEN After(a)
     ELSE /\ RdFree
          /\ IF \E ty \in Types : unreg_pending[ty] THEN Goto(a, "wrlock")
                                                    ELSE After(a)
  /\ UNCHANGED <<engine, readers, writer, rings, kernel>>

Drained_FirstRing(ty) == inflight[ty][1] = 0

\* fixed_buf_inflight_total, fixed_file_inflight_total: the sum is 0 when
\* every ring's counter is.
Drained(ty) == \A r \in Rings : inflight[ty][r] = 0

Final(ty) == registered[ty] /\ unreg_pending[ty] /\ Drained(ty)

\* finalize_deferred_unregistration, under the write lock.
FinalizeUnregistration(a) ==
  /\ act[a].pc = "wrlock"
  /\ WrFree
  /\ registered' = [ty \in Types |-> registered[ty] /\ ~Final(ty)]
  /\ unreg_pending' = [ty \in Types |-> unreg_pending[ty] /\ ~Final(ty)]
  /\ table' = [ty \in Types |-> IF Final(ty) THEN NoTable ELSE table[ty]]
  /\ kernel' = [r \in Rings |-> [ty \in Types |->
                   IF Final(ty) THEN NoTable ELSE kernel[r][ty]]]
  /\ After(a)
  /\ UNCHANGED <<fatal, readers, writer, rings>>

\* aura_request_unregister from any call or callback, and aura_unregister,
\* which inside a callback is the same.
UnregisterCall(a) ==
  /\ MayCall(a) /\ Serialized(a)
  /\ \E ty \in Types, wait \in BOOLEAN :
       /\ registered[ty] \/ unreg_pending[ty]
       /\ ty = "files" => ~FixedFileInProgress
       /\ wait => a = <<EventLoop, 1>>
       /\ act' = [act EXCEPT ![a].pc = "request", ![a].ty = ty, ![a].wait = wait]
  /\ UNCHANGED <<engine, readers, writer, rings, kernel>>

\* request_unregister_generic, under the write lock.
RequestUnregister(a) ==
  LET ty == act[a].ty
  IN  /\ act[a].pc = "request"
      /\ WrFree
      /\ IF registered[ty] \/ unreg_pending[ty]
         THEN /\ unreg_pending' = [unreg_pending EXCEPT ![ty] = TRUE]
              /\ Goto(a, "wrlock")
         ELSE /\ IF act[a].wait THEN Goto(a, "check") ELSE Return(a)
              /\ UNCHANGED unreg_pending
      /\ UNCHANGED <<registered, table, fatal, readers, writer, rings, kernel>>

\* aura_unregister looks under the read lock whether it is done, and calls
\* aura_wait if not.
UnregisterWait(a) ==
  /\ act[a].pc = "check"
  /\ RdFree
  /\ IF registered[act[a].ty] \/ unreg_pending[act[a].ty]
     THEN act' = [act EXCEPT ![a].pc = "finalize", ![a].then = "ring"]
     ELSE Return(a)
  /\ UNCHANGED <<engine, readers, writer, rings, kernel>>

\* After 10 seconds of waiting, or when aura_wait fails, it gives up.
UnregisterTimeout(a) ==
  /\ act[a].pc = "check" /\ act[a].then = "waited"
  /\ RdFree
  /\ registered[act[a].ty] \/ unreg_pending[act[a].ty]
  /\ Return(a)
  /\ UNCHANGED <<engine, readers, writer, rings, kernel>>

-----------------------------------------------------------------------------
(* Registration and update *)

\* aura_register_buffers, aura_register_files: one write-locked section.
\* done is the number of rings whose registration succeeds; if one fails the
\* earlier ones are unregistered again.
RegisterTable(a, ty) ==
  /\ MayCall(a) /\ Serialized(a)
  /\ WrFree
  /\ ~registered[ty] /\ ~unreg_pending[ty]
  /\ \E c \in Contents(ty), done \in 0 .. NRings :
       /\ kernel' = [r \in Rings |-> [kernel[r] EXCEPT ![ty] =
                        IF done = NRings THEN c ELSE NoTable]]
       /\ table' = [table EXCEPT ![ty] = IF done = NRings THEN c ELSE NoTable]
       /\ registered' = [registered EXCEPT ![ty] = (done = NRings)]
  /\ UNCHANGED <<unreg_pending, fatal, readers, writer, rings, act>>

aura_register_buffers(a) == RegisterTable(a, "buffers")
aura_register_files(a)   == RegisterTable(a, "files")

\* aura_update_file with another descriptor, called from anywhere.
UpdateCall(a) ==
  /\ MayCall(a) /\ Serialized(a)
  /\ registered["files"]
  /\ \E fd \in Fds \ {table["files"]} :
       act' = [act EXCEPT ![a].pc = "update", ![a].op.fd = fd]
  /\ UNCHANGED <<engine, readers, writer, rings, kernel>>

\* It takes the write lock and checks the flags.
UpdateLock(a) ==
  /\ act[a].pc = "update"
  /\ WrFree
  /\ IF registered["files"] /\ ~unreg_pending["files"]
     THEN writer' = a /\ Goto(a, "updating")
     ELSE UNCHANGED writer /\ Return(a)
  /\ UNCHANGED <<engine, readers, rings, kernel>>

\* One ring after the other gets the new file; then the engine's copy.
UpdateRing(a) ==
  LET r == act[a].ring
  IN  /\ act[a].pc = "updating"
      /\ kernel' = [kernel EXCEPT ![r]["files"] = act[a].op.fd]
      /\ IF r < NRings
         THEN /\ act' = [act EXCEPT ![a].ring = r + 1]
              /\ UNCHANGED <<table, writer>>
         ELSE /\ table' = [table EXCEPT !["files"] = act[a].op.fd]
              /\ writer' = NoAct
              /\ Return(a)
      /\ UNCHANGED <<registered, unreg_pending, fatal, readers, rings>>

UpdateFails_NoRollback(a) ==  \* the earlier rings keep the new file
  /\ act[a].pc = "updating"
  /\ writer' = NoAct
  /\ Return(a)
  /\ UNCHANGED <<registered, unreg_pending, table, fatal, readers, rings, kernel>>

\* A ring refuses: the earlier ones are set back, except those in failed,
\* which also refuse; then the engine latches a fatal error.
UpdateFails(a) ==
  /\ act[a].pc = "updating"
  /\ \E failed \in SUBSET (1 .. act[a].ring - 1) :
       /\ kernel' = [r \in Rings |-> [kernel[r] EXCEPT !["files"] =
            IF r < act[a].ring /\ r \notin failed THEN table["files"] ELSE @]]
       /\ fatal' = (fatal \/ failed # {})
  /\ writer' = NoAct
  /\ Return(a)
  /\ UNCHANGED <<registered, unreg_pending, table, readers, rings>>

-----------------------------------------------------------------------------
Call(a) ==
  \/ ResolveFile(a) \/ FixedFile(a) \/ ValidateBuffer(a)
  \/ UnregisterCall(a) \/ UpdateCall(a)
  \/ aura_register_buffers(a) \/ aura_register_files(a)

Step(a) ==
  \/ Submit(a) \/ SubmitFull(a) \/ SubmitRefused(a)
  \/ ProcessCompletion(a) \/ Retire(a) \/ DrainReturn(a)
  \/ PollRing(a)
  \/ MaybeFinalize(a) \/ FinalizeUnregistration(a) \/ RequestUnregister(a)
  \/ UnregisterWait(a) \/ UnregisterTimeout(a)
  \/ UpdateLock(a) \/ UpdateRing(a) \/ UpdateFails(a)

Next ==
  \/ \E a \in Acts : Call(a) \/ PollCall(a) \/ Step(a)
  \/ \E s \in Slots : KernelComplete(s)

Spec == Init /\ [][Next]_vars

\* A call in progress takes its next step; one that needs a lock that is free
\* again and again gets it.  The event loop keeps polling, the kernel keeps
\* completing.  Nobody has to submit, register or unregister.
Fairness ==
  /\ \A a \in Acts : SF_vars(Step(a))
  /\ SF_vars(PollCall(<<EventLoop, 1>>))
  /\ \A s \in Slots : WF_vars(KernelComplete(s))

FairSpec == Spec /\ Fairness

-----------------------------------------------------------------------------
(* Properties *)

Requests ==
  [state : {"free", "held", "callback"} \cup Submitted, buf : BOOLEAN,
   file : BOOLEAN, fd : Fds \cup {NoTable}, got : Fds \cup {NoTable}]

Ops == [buf : BOOLEAN, fixed : BOOLEAN, index : Nat, fd : Fds \cup {NoTable},
        file : BOOLEAN]

Pcs == {"out", "begin", "again", "drain", "callback", "ring",
        "finalize", "wrlock", "request", "check", "update", "updating"}

Activations == [pc : Pcs, op : Ops, ring : Rings, slot : Slots \cup {NoSlot},
                then : {"return", "again", "ring", "waited"},
                ty : Types \cup {"none"}, wait : BOOLEAN]

Tables == {tables \in [Types -> Fds \cup {"iovecs", NoTable}] :
             \A ty \in Types : tables[ty] \in Contents(ty) \cup {NoTable}}

\* Types of the engine's, the rings' and the calls' state.  The in-flight
\* counters of registered resources, which are unsigned, never pass zero.
TypeOK ==
  /\ registered \in [Types -> BOOLEAN]
  /\ unreg_pending \in [Types -> BOOLEAN]
  /\ table \in Tables
  /\ fatal \in BOOLEAN
  /\ readers \subseteq Acts
  /\ writer \in Acts \cup {NoAct}
  /\ lock_held \subseteq Rings
  /\ inflight \in [Types -> [Rings -> Nat]]
  /\ req \in [Slots -> Requests]
  /\ kernel \in [Rings -> Tables]
  /\ act \in [Acts -> Activations]

\* The operations of ring r that use the table ty and that the library has not
\* seen complete.
Users(ty, r) == {s \in Slots : s[1] = r /\ req[s].state \in Submitted /\ Uses(s, ty)}

\* fixed_buf_inflight and fixed_file_inflight count them.
InflightExact == \A ty \in Types, r \in Rings : inflight[ty][r] = Cardinality(Users(ty, r))

\* A table is registered with the engine and with every ring, or with none.
TablesAgree ==
  \A ty \in Types :
    /\ unreg_pending[ty] => registered[ty]
    /\ registered[ty] <=> table[ty] # NoTable
    /\ \A r \in Rings : registered[ty] <=> kernel[r][ty] # NoTable

\* What a submission that passed its checks may still rely on: the read lock
\* keeps the table, or, for AURA_FIXED_FILE, the caller's duty does.
OpsAllowed ==
  \A a \in Acts :
    LET op == act[a].op IN
    /\ op.buf => registered["buffers"] /\ a \in readers
    /\ op.file => registered["files"] /\ (op.fixed \/ a \in readers)
    /\ op.fixed => /\ op.file /\ ~unreg_pending["files"]
                   /\ \A b \in Acts : act[b].pc = "request" => act[b].ty # "files"

\* What a call's locals hold at each point.
CallsAgree ==
  \A a \in Acts :
    /\ act[a].pc = "out" => act[a] = Idle
    /\ act[a].pc = "request" => act[a].ty \in Types
    /\ act[a].pc = "callback" => /\ act[a].slot \in Slots
                                 /\ req[act[a].slot].state = "callback"
    /\ \A b \in Acts : /\ act[a].pc = "callback" /\ act[b].pc = "callback"
                        /\ act[a].slot = act[b].slot
                        => a = b

\* aura_update_file has the write lock while it goes from ring to ring; the
\* rings behind it have the new file, those before it the old one.
UpdatesAgree ==
  /\ writer \in Acts => act[writer].pc = "updating"
  /\ \A r \in Rings : kernel[r]["buffers"] = table["buffers"]
  /\ \A a \in Acts :
       /\ act[a].pc = "update" => act[a].ring = 1 /\ act[a].op.fd \in Fds
       /\ act[a].pc = "updating" =>
            /\ writer = a /\ registered["files"] /\ act[a].op.fd \in Fds
            /\ \A r \in Rings :
                 IF r < act[a].ring THEN kernel[r]["files"] = act[a].op.fd
                 ELSE kernel[r]["files"] = table["files"] \/ fatal

\* No table is freed or unregistered while an operation that uses it is
\* queued, in the kernel, or waiting to be completed: the read lock spans the
\* check and the counter, and finalization needs the write lock and a zero
\* counter on every ring.
TableOutlivesUse ==
  \A s \in Slots, ty \in Types :
    req[s].state \in Submitted /\ Uses(s, ty)
      => /\ registered[ty]
         /\ table[ty] # NoTable
         /\ kernel[s[1]][ty] # NoTable

\* When no update is running, all rings have the engine's tables, however
\* registrations and updates failed on the way, unless a failed rollback has
\* latched the fatal error that refuses further submissions.
RingsAgree ==
  writer = NoAct =>
    \A r \in Rings, ty \in Types :
      \/ kernel[r][ty] = table[ty]
      \/ ty = "files" /\ fatal

\* The inductive invariant behind the two.
RegStrong ==
  /\ TypeOK /\ InflightExact /\ TablesAgree /\ OpsAllowed /\ CallsAgree
  /\ UpdatesAgree /\ TableOutlivesUse /\ RingsAgree

\* Activation a waits for a lock, or has callbacks that may.
Waiting(a) ==
  act[a].pc \in {"begin", "again", "ring", "callback", "request", "wrlock",
                 "update"}

\* aura_request_unregister "will NOT block waiting for in-flight operations",
\* and a submission holds the ring's lock only "briefly": nobody waits for
\* ever for reg_lock or for a ring's lock, in callbacks neither.
LocksObtained == \A a \in Acts : []<>(~Waiting(a))

\* A requested unregistration is carried out, as long as the event loop's
\* calls return: what is in flight drains, nothing new is let in, and some
\* poll finalizes.
UnregistrationCompletes ==
  []<>(act[<<EventLoop, 1>>].pc = "out")
    => \A ty \in Types : unreg_pending[ty] ~> ~registered[ty]

\* aura.h: "I/O submissions from other threads are safe during registration",
\* aura_update_file included: an operation reaches the file that its caller
\* named.
FileAsNamed ==
  \A s \in Slots : req[s].state \in {"sent", "cqe"} => req[s].got = req[s].fd
=============================================================================
