------------------------- MODULE RegistrationProofs -------------------------
(***************************************************************************)
(* Proofs about module Registration: no registered table goes away under   *)
(* an operation that uses it, and the rings' tables agree, for every       *)
(* number of threads, rings, requests, descriptors and nested callbacks.   *)
(***************************************************************************)
EXTENDS Registration, FiniteSetTheorems, TLAPS

-----------------------------------------------------------------------------
(* Types *)

LEMMA IdleType == Idle \in Activations /\ NoOp \in Ops /\ FreeRequest \in Requests
BY RegistrationConstants
   DEF Idle, Activations, NoOp, Op, Ops, Pcs, Rings, FreeRequest, Requests, Submitted

\* What Goto, Return and Leave do to the calls in progress.
LEMMA Moves ==
  ASSUME TypeOK, NEW a \in Acts
  PROVE  /\ \A pc \in Pcs : Goto(a, pc) =>
              /\ act' \in [Acts -> Activations]
              /\ act'[a] = [act[a] EXCEPT !.pc = pc]
              /\ \A b \in Acts : b # a => act'[b] = act[b]
         /\ Return(a) => /\ act' \in [Acts -> Activations]
                         /\ act'[a] = Idle
                         /\ \A b \in Acts : b # a => act'[b] = act[b]
<1>1. act \in [Acts -> Activations]
  BY DEF TypeOK
<1>2. ASSUME NEW pc \in Pcs, Goto(a, pc)
      PROVE  /\ act' \in [Acts -> Activations]
             /\ act'[a] = [act[a] EXCEPT !.pc = pc]
             /\ \A b \in Acts : b # a => act'[b] = act[b]
  <2>1. [act[a] EXCEPT !.pc = pc] \in Activations
    BY <1>1 DEF Activations
  <2>2. act' = [act EXCEPT ![a] = [act[a] EXCEPT !.pc = pc]]
    BY <1>1, <1>2 DEF Goto
  <2> QED BY <1>1, <2>1, <2>2
<1>3. ASSUME Return(a)
      PROVE  /\ act' \in [Acts -> Activations]
             /\ act'[a] = Idle
             /\ \A b \in Acts : b # a => act'[b] = act[b]
  BY <1>1, <1>3, IdleType DEF Return
<1> QED BY <1>2, <1>3

LEMMA FlushTypes ==
  ASSUME TypeOK, NEW q \in [Slots -> Requests], NEW r \in Rings
  PROVE  /\ Flushed(q, r) \in [Slots -> Requests]
         /\ \A s \in Slots : /\ Flushed(q, r)[s].buf = q[s].buf
                             /\ Flushed(q, r)[s].file = q[s].file
                             /\ \/ Flushed(q, r)[s].state = q[s].state
                                \/ q[s].state = "queued" /\ Flushed(q, r)[s].state = "sent"
<1>1. kernel[r]["files"] \in Fds \cup {NoTable}
  BY DEF TypeOK, Tables, Types, Contents
<1>2. ASSUME NEW s \in Slots
      PROVE  /\ Flushed(q, r)[s] \in Requests
             /\ Flushed(q, r)[s].buf = q[s].buf
             /\ Flushed(q, r)[s].file = q[s].file
             /\ \/ Flushed(q, r)[s].state = q[s].state
                \/ q[s].state = "queued" /\ Flushed(q, r)[s].state = "sent"
  <2>1. q[s] \in Requests
    OBVIOUS
  <2>2. CASE ~(s[1] = r /\ q[s].state = "queued")
    BY <2>1, <2>2 DEF Flushed
  <2>3. CASE s[1] = r /\ q[s].state = "queued"
    <3>1. Flushed(q, r)[s] = [q[s] EXCEPT !.state = "sent",
                                !.got = IF q[s].file THEN kernel[r]["files"] ELSE q[s].got]
      BY <2>3 DEF Flushed
    <3> QED BY <1>1, <2>1, <2>3, <3>1 DEF Requests, Submitted
  <2> QED BY <2>2, <2>3
<1>3. Flushed(q, r) = [s \in Slots |-> Flushed(q, r)[s]]
  BY DEF Flushed
<1> QED BY <1>2, <1>3

\* A call that goes from one point to another, with other locals.
LEMMA MoveTo ==
  ASSUME TypeOK, NEW a \in Acts, NEW f \in Activations, act' = [act EXCEPT ![a] = f]
  PROVE  /\ act' \in [Acts -> Activations] /\ act'[a] = f
         /\ \A b \in Acts : b # a => act'[b] = act[b]
BY DEF TypeOK

\* The operation that a submission starts with, and what it has checked.
Starts(a, op, locked) ==
  /\ MayCall(a) /\ op \in Ops /\ locked \in BOOLEAN
  /\ op.buf => registered["buffers"] /\ locked
  /\ op.file => registered["files"] /\ (op.fixed \/ locked)
  /\ op.fixed => op.file /\ FixedFileAllowed
  /\ locked => writer = NoAct
  /\ Begin(a, op, locked)

LEMMA StartKinds ==
  ASSUME TypeOK, NEW a \in Acts, ResolveFile(a) \/ FixedFile(a) \/ ValidateBuffer(a)
  PROVE  \E op, locked : Starts(a, op, locked)
<1> USE DEF Types, TypeOK, Tables, Contents
<1>1. ASSUME NEW buf \in BOOLEAN, NEW fd \in Fds
      PROVE  /\ Resolved(buf, fd) \in Ops /\ Resolved(buf, fd).buf = buf
             /\ ~Resolved(buf, fd).fixed
             /\ Resolved(buf, fd).file <=> Resolves(fd)
  BY DEF Resolved, Op, Ops, Resolves
<1>2. ASSUME NEW buf \in BOOLEAN, NEW index \in FileIndices
      PROVE  /\ Op(buf, TRUE, index, table["files"], TRUE) \in Ops
             /\ Op(buf, TRUE, index, table["files"], TRUE).buf = buf
             /\ Op(buf, TRUE, index, table["files"], TRUE).fixed
             /\ Op(buf, TRUE, index, table["files"], TRUE).file
  BY RegistrationConstants DEF Op, Ops
<1>3. CASE ResolveFile(a)
  <2>1. PICK fd \in Fds : Begin(a, Resolved(FALSE, fd), Resolves(fd))
    BY <1>3 DEF ResolveFile
  <2>2. Resolves(fd) \in BOOLEAN /\ (Resolves(fd) => registered["files"] /\ writer = NoAct)
    BY <1>3 DEF Resolves, ResolveFile, RdFree
  <2>3. Starts(a, Resolved(FALSE, fd), Resolves(fd))
    BY <1>1, <1>3, <2>1, <2>2 DEF Starts, ResolveFile
  <2> QED BY <2>3
<1>4. CASE FixedFile(a)
  <2>1. PICK index \in FileIndices : Begin(a, Op(FALSE, TRUE, index, table["files"], TRUE), FALSE)
    BY <1>4 DEF FixedFile
  <2>2. Starts(a, Op(FALSE, TRUE, index, table["files"], TRUE), FALSE)
    BY <1>2, <1>4, <2>1 DEF Starts, FixedFile, FixedFileAllowed
  <2> QED BY <2>2
<1>5. CASE ValidateBuffer(a)
  <2>1. ASSUME NEW fd \in Fds, Begin(a, Resolved(TRUE, fd), TRUE)
        PROVE  Starts(a, Resolved(TRUE, fd), TRUE)
    BY <1>1, <1>5, <2>1 DEF Starts, ValidateBuffer, RdFree, Resolves
  <2>2. ASSUME NEW index \in FileIndices, FixedFileAllowed,
               Begin(a, Op(TRUE, TRUE, index, table["files"], TRUE), TRUE)
        PROVE  Starts(a, Op(TRUE, TRUE, index, table["files"], TRUE), TRUE)
    BY <1>2, <1>5, <2>2 DEF Starts, ValidateBuffer, RdFree, FixedFileAllowed
  <2> QED BY <1>5, <2>1, <2>2 DEF ValidateBuffer
<1> QED BY <1>3, <1>4, <1>5

LEMMA BeginEffect ==
  ASSUME TypeOK, NEW a \in Acts, NEW op, NEW locked, Starts(a, op, locked)
  PROVE  /\ act' \in [Acts -> Activations]
         /\ act'[a].pc = "begin" /\ act'[a].op = op
         /\ \A b \in Acts : b # a => act'[b] = act[b]
         /\ readers' = IF locked THEN readers \cup {a} ELSE readers
         /\ UNCHANGED <<engine, writer, rings, kernel>>
<1>1. PICK r \in Rings :
        act' = [act EXCEPT ![a] = [Idle EXCEPT !.pc = "begin", !.op = op,
                                               !.ring = r, !.then = "again"]]
  BY DEF Starts, Begin
<1>2. op \in Ops
  BY DEF Starts
<1>3. LET f == [Idle EXCEPT !.pc = "begin", !.op = op, !.ring = r, !.then = "again"]
      IN  f \in Activations /\ f.pc = "begin" /\ f.op = op
  BY <1>1, <1>2, IdleType DEF Activations, Pcs
<1>4. /\ act' \in [Acts -> Activations]
      /\ act'[a].pc = "begin" /\ act'[a].op = op
      /\ \A b \in Acts : b # a => act'[b] = act[b]
  BY <1>1, <1>3, MoveTo
<1> QED BY <1>4 DEF Starts, Begin

\* A call goes on to a point where it neither runs a callback nor changes a
\* registration, or it returns.
Walks(a) ==
  /\ act[a].pc # "updating"
  /\ act' \in [Acts -> Activations]
  /\ \A b \in Acts : b # a => act'[b] = act[b]
  /\ \/ act'[a] = Idle
     \/ /\ act'[a].op = act[a].op /\ readers' = readers
        /\ act'[a].pc \notin {"out", "request", "callback", "update", "updating"}
  /\ readers' = readers \/ readers' = readers \ {a}
  /\ writer' = writer

LEMMA WalkKinds ==
  ASSUME TypeOK, NEW a \in Acts,
         \/ Submit(a) \/ SubmitFull(a) \/ SubmitRefused(a) \/ Retire(a)
         \/ DrainReturn(a) \/ PollCall(a) \/ PollRing(a) \/ MaybeFinalize(a)
         \/ FinalizeUnregistration(a) \/ RequestUnregister(a)
         \/ UnregisterWait(a) \/ UnregisterTimeout(a)
  PROVE  Walks(a)
<1>1. act \in [Acts -> Activations] /\ act[a] \in Activations
  BY DEF TypeOK
<1> DEFINE Away == {"out", "request", "callback", "update", "updating"}
           On == /\ act' \in [Acts -> Activations]
                 /\ \A b \in Acts : b # a => act'[b] = act[b]
                 /\ act'[a].op = act[a].op /\ act'[a].pc \notin Away
           Home == /\ act' \in [Acts -> Activations]
                   /\ \A b \in Acts : b # a => act'[b] = act[b]
                   /\ act'[a] = Idle
<1>2. ASSUME NEW pc \in Pcs, pc \notin Away, Goto(a, pc) PROVE On
  <2>1. /\ act'[a] = [act[a] EXCEPT !.pc = pc] /\ act' \in [Acts -> Activations]
        /\ \A b \in Acts : b # a => act'[b] = act[b]
    BY <1>2, Moves
  <2>2. act'[a].op = act[a].op /\ act'[a].pc = pc
    BY <1>1, <2>1 DEF Activations
  <2> QED BY <1>2, <2>1, <2>2
<1>3. ASSUME Return(a) PROVE Home
  BY <1>3, Moves
<1>4. ASSUME NEW f \in Activations, act' = [act EXCEPT ![a] = f],
             f.op = act[a].op, f.pc \notin Away
      PROVE  On
  BY <1>4, MoveTo
<1>5. ASSUME After(a) PROVE On \/ Home
  <2>1. "ring" \in Pcs \ Away /\ "check" \in Pcs \ Away
    BY DEF Pcs
  <2> HIDE DEF On, Home
  <2> QED BY <1>2, <1>3, <1>5, <2>1 DEF After
<1>6. "again" \in Pcs \ Away /\ "drain" \in Pcs \ Away /\ "wrlock" \in Pcs \ Away
      /\ "check" \in Pcs \ Away
  BY DEF Pcs
<1>7. CASE Submit(a) \/ SubmitRefused(a)
  <2>1. Home
    BY <1>3, <1>7 DEF Submit, SubmitRefused, Leave
  <2> QED BY <1>7, <2>1 DEF Walks, Submit, SubmitRefused, Leave
<1>8. CASE SubmitFull(a)
  <2>1. \/ On /\ readers' = readers
        \/ Home /\ readers' = readers \ {a}
    <3> HIDE DEF On, Home
    <3> QED BY <1>2, <1>3, <1>6, <1>8 DEF SubmitFull, Leave
  <2> QED BY <1>8, <2>1 DEF Walks, SubmitFull
<1>9. CASE Retire(a)
  <2> DEFINE f == [act[a] EXCEPT !.pc = "drain", !.slot = NoSlot]
  <2>1. f \in Activations /\ f.op = act[a].op /\ f.pc = "drain"
    BY <1>1, <1>6 DEF Activations
  <2>2. act' = [act EXCEPT ![a] = f]
    BY <1>1, <1>9 DEF Retire
  <2>3. On
    <3> HIDE DEF f, On
    <3> QED BY <1>4, <2>1, <2>2
  <2> QED BY <1>9, <2>3 DEF Walks, Retire
<1>10. CASE DrainReturn(a)
  <2>0. NRings \in Nat \ {0} /\ act[a].ring \in 1 .. NRings
    BY <1>1, RegistrationConstants DEF Activations, Rings
  <2>1. CASE Goto(a, "again")
    BY <1>2, <1>6, <1>10, <2>1 DEF Walks, DrainReturn
  <2>2. CASE act[a].ring < NRings /\ act' = [act EXCEPT ![a].pc = "ring", ![a].ring = @ + 1]
    <3> DEFINE f == [act[a] EXCEPT !.pc = "ring", !.ring = act[a].ring + 1]
    <3>1. f \in Activations /\ f.op = act[a].op /\ f.pc = "ring"
      BY <1>1, <2>0, <2>2 DEF Activations, Pcs, Rings
    <3>2. act' = [act EXCEPT ![a] = f]
      BY <1>1, <2>2
    <3>3. On
      <4> HIDE DEF f, On
      <4> QED BY <1>4, <3>1, <3>2
    <3> QED BY <1>10, <3>3 DEF Walks, DrainReturn
  <2>3. CASE act' = [act EXCEPT ![a].pc = "finalize", ![a].ring = 1, ![a].then = "waited"]
    <3> DEFINE f == [act[a] EXCEPT !.pc = "finalize", !.ring = 1, !.then = "waited"]
    <3>1. f \in Activations /\ f.op = act[a].op /\ f.pc = "finalize"
      <4>1. 1 \in Rings
        BY <2>0 DEF Rings
      <4> QED BY <1>1, <4>1 DEF Activations, Pcs
    <3>2. act' = [act EXCEPT ![a] = f]
      BY <1>1, <2>3
    <3>3. On
      <4> HIDE DEF f, On
      <4> QED BY <1>4, <3>1, <3>2
    <3> QED BY <1>10, <3>3 DEF Walks, DrainReturn
  <2> QED BY <1>10, <2>1, <2>2, <2>3 DEF DrainReturn
<1>11. CASE PollCall(a) \/ (UnregisterWait(a) /\ ~Return(a))
  <2> DEFINE f == [act[a] EXCEPT !.pc = "finalize", !.then = "ring"]
  <2>1. f \in Activations /\ f.op = act[a].op /\ f.pc = "finalize"
    BY <1>1 DEF Activations, Pcs
  <2>2. act' = [act EXCEPT ![a] = f]
    BY <1>1, <1>11 DEF PollCall, UnregisterWait
  <2>3. On
    <3> HIDE DEF f, On
    <3> QED BY <1>4, <2>1, <2>2
  <2> QED BY <1>11, <2>3 DEF Walks, PollCall, UnregisterWait, MayCall
<1>12. CASE PollRing(a)
  BY <1>2, <1>6, <1>12 DEF Walks, PollRing
<1>13. CASE MaybeFinalize(a) \/ FinalizeUnregistration(a) \/ RequestUnregister(a)
  <2>1. On \/ Home
    <3> HIDE DEF On, Home
    <3> QED BY <1>2, <1>3, <1>5, <1>6, <1>13
            DEF MaybeFinalize, FinalizeUnregistration, RequestUnregister
  <2> QED BY <1>13, <2>1
          DEF Walks, MaybeFinalize, FinalizeUnregistration, RequestUnregister
<1>14. CASE (UnregisterWait(a) /\ Return(a)) \/ UnregisterTimeout(a)
  <2>1. Home
    BY <1>3, <1>14 DEF UnregisterTimeout
  <2> QED BY <1>14, <2>1 DEF Walks, UnregisterWait, UnregisterTimeout
<1> QED BY <1>7, <1>8, <1>9, <1>10, <1>11, <1>12, <1>13, <1>14

\* The requests and the counters after the steps that touch them.
LEMMA QueueEffect ==
  ASSUME TypeOK, NEW a \in Acts, NEW s \in Slots, Queue(a, s), act[a].ring = s[1]
  PROVE  \/ /\ inflight' = inflight /\ req' = [req EXCEPT ![s].state = "held"]
            /\ lock_held' \in {lock_held, lock_held \cup {s[1]}}
         \/ /\ inflight' = [inflight EXCEPT
                 !["buffers"][s[1]] = @ + (IF act[a].op.buf THEN 1 ELSE 0),
                 !["files"][s[1]] = @ + (IF act[a].op.file THEN 1 ELSE 0)]
            /\ req' \in [Slots -> Requests]
            /\ req'[s].state \in Submitted
            /\ req'[s].buf = act[a].op.buf /\ req'[s].file = act[a].op.file
            /\ \A x \in Slots : x # s =>
                 /\ req'[x].buf = req[x].buf /\ req'[x].file = req[x].file
                 /\ \/ req'[x].state = req[x].state
                    \/ req[x].state = "queued" /\ req'[x].state = "sent"
            /\ lock_held' = lock_held
<1> DEFINE op == act[a].op
           new == [state |-> "queued", buf |-> op.buf, file |-> op.file,
                   fd |-> op.fd, got |-> NoTable]
           q == [req EXCEPT ![s] = new]
<1>1. op \in Ops /\ req \in [Slots -> Requests] /\ s[1] \in Rings
  BY DEF TypeOK, Activations, Slots
<1>2. new \in Requests /\ new.state = "queued" /\ new.buf = op.buf /\ new.file = op.file
  BY <1>1 DEF Ops, Requests, Submitted
<1>3. CASE op.buf /\ op.fixed /\ ~ValidFixedFile(op.index)
  BY <1>3 DEF Queue
<1>4. CASE ~(op.buf /\ op.fixed /\ ~ValidFixedFile(op.index))
  <2>1. /\ inflight' = [inflight EXCEPT
                 !["buffers"][s[1]] = @ + (IF op.buf THEN 1 ELSE 0),
                 !["files"][s[1]] = @ + (IF op.file THEN 1 ELSE 0)]
        /\ req' \in {q, Flushed(q, s[1])} /\ lock_held' = lock_held
    BY <1>4 DEF Queue
  <2>2. q \in [Slots -> Requests] /\ q[s] = new /\ \A x \in Slots : x # s => q[x] = req[x]
    <3> HIDE DEF new
    <3> QED BY <1>1, <1>2
  <2>3. /\ Flushed(q, s[1]) \in [Slots -> Requests]
        /\ \A x \in Slots :
             /\ Flushed(q, s[1])[x].buf = q[x].buf
             /\ Flushed(q, s[1])[x].file = q[x].file
             /\ \/ Flushed(q, s[1])[x].state = q[x].state
                \/ q[x].state = "queued" /\ Flushed(q, s[1])[x].state = "sent"
    <3> HIDE DEF q
    <3> QED BY <1>1, <2>2, FlushTypes
  <2>4. /\ req' \in [Slots -> Requests]
        /\ \A x \in Slots : /\ req'[x].buf = q[x].buf /\ req'[x].file = q[x].file
                            /\ \/ req'[x].state = q[x].state
                               \/ q[x].state = "queued" /\ req'[x].state = "sent"
    <3> HIDE DEF q
    <3> QED BY <2>1, <2>2, <2>3
  <2>5. /\ req'[s].state \in Submitted
        /\ req'[s].buf = op.buf /\ req'[s].file = op.file
    <3> HIDE DEF q, new
    <3> QED BY <1>2, <2>2, <2>4 DEF Submitted
  <2>6. \A x \in Slots : x # s =>
          /\ req'[x].buf = req[x].buf /\ req'[x].file = req[x].file
          /\ \/ req'[x].state = req[x].state
             \/ req[x].state = "queued" /\ req'[x].state = "sent"
    <3> HIDE DEF q, new
    <3> QED BY <2>2, <2>4
  <2> QED BY <2>1, <2>4, <2>5, <2>6
<1> QED BY <1>3, <1>4
-----------------------------------------------------------------------------
(* The counters *)

LEMMA SlotsFinite == IsFiniteSet(Slots)
<1>1. NRings \in Int /\ RequestsPerRing \in Int /\ 1 \in Int
  BY RegistrationConstants
<1>2. IsFiniteSet(Rings) /\ IsFiniteSet(1 .. RequestsPerRing)
  BY <1>1, FS_Interval DEF Rings
<1> QED BY <1>2, FS_Product DEF Slots

LEMMA UsersFinite ==
  ASSUME NEW ty \in Types, NEW r \in Rings
  PROVE  IsFiniteSet(Users(ty, r)) /\ Cardinality(Users(ty, r)) \in Nat
<1>1. Users(ty, r) \subseteq Slots
  BY DEF Users
<1> QED BY <1>1, SlotsFinite, FS_Subset, FS_CardinalityType

\* Request x counts for table ty.
Counts(x, ty) == req[x].state \in Submitted /\ Uses(x, ty)

LEMMA UsersValue ==
  /\ \A ty, r : Users(ty, r) = {x \in Slots : x[1] = r /\ Counts(x, ty)}
  /\ \A ty, r : Users(ty, r)' = {x \in Slots : x[1] = r /\ Counts(x, ty)'}
BY DEF Users, Counts

\* Steps after which the same requests count.
SameUse == /\ inflight' = inflight
           /\ \A x \in Slots, ty \in Types : Counts(x, ty)' <=> Counts(x, ty)

LEMMA SameInflight ==
  ASSUME TypeOK, InflightExact, SameUse
  PROVE  InflightExact' /\ inflight' \in [Types -> [Rings -> Nat]]
<1>1. ASSUME NEW ty \in Types, NEW r \in Rings PROVE Users(ty, r)' = Users(ty, r)
  BY UsersValue DEF SameUse
<1>2. ASSUME NEW ty \in Types, NEW r \in Rings
      PROVE  inflight'[ty][r] = Cardinality(Users(ty, r)')
  BY <1>1 DEF InflightExact, SameUse
<1>3. InflightExact'
  BY <1>2 DEF InflightExact
<1> QED BY <1>3 DEF TypeOK, SameUse

\* One request starts to count, or one that counted does not any more.
LEMMA OneInflight ==
  ASSUME TypeOK, InflightExact, NEW s \in Slots, NEW U \in SUBSET Types, NEW n \in {-1, 1},
         \A x \in Slots, ty \in Types : x # s => (Counts(x, ty)' <=> Counts(x, ty)),
         \A ty \in Types : /\ n = 1 => ~Counts(s, ty) /\ (Counts(s, ty)' <=> ty \in U)
                           /\ n = -1 => (Counts(s, ty) <=> ty \in U) /\ ~Counts(s, ty)',
         inflight' = [inflight EXCEPT
           !["buffers"][s[1]] = @ + (IF "buffers" \in U THEN n ELSE 0),
           !["files"][s[1]] = @ + (IF "files" \in U THEN n ELSE 0)]
  PROVE  InflightExact' /\ inflight' \in [Types -> [Rings -> Nat]]
<1>1. inflight \in [Types -> [Rings -> Nat]] /\ s[1] \in Rings
  BY DEF TypeOK, Slots
<1>2. ASSUME NEW ty \in Types, NEW r \in Rings
      PROVE  /\ Cardinality(Users(ty, r)') =
                  Cardinality(Users(ty, r)) + (IF ty \in U /\ r = s[1] THEN n ELSE 0)
             /\ Cardinality(Users(ty, r)') \in Nat
  <2>0. IsFiniteSet(Users(ty, r)) /\ Cardinality(Users(ty, r)) \in Nat
    BY UsersFinite
  <2>1. CASE ~(ty \in U /\ r = s[1])
    <3>1. \A x \in Slots : (x[1] = r /\ Counts(x, ty)') <=> (x[1] = r /\ Counts(x, ty))
      BY <2>1
    <3>2. Users(ty, r)' = Users(ty, r)
      BY <3>1, UsersValue
    <3> QED BY <2>0, <2>1, <3>2
  <2>2. CASE ty \in U /\ r = s[1] /\ n = 1
    <3>1. s \notin Users(ty, r) /\ Users(ty, r)' = Users(ty, r) \cup {s}
      BY <2>2, UsersValue
    <3>2. Cardinality(Users(ty, r) \cup {s}) = Cardinality(Users(ty, r)) + 1
      BY <2>0, <3>1, FS_AddElement
    <3> QED BY <2>0, <2>2, <3>1, <3>2
  <2>3. CASE ty \in U /\ r = s[1] /\ n = -1
    <3>1. s \in Users(ty, r) /\ Users(ty, r)' = Users(ty, r) \ {s}
      BY <2>3, UsersValue
    <3>2. /\ IsFiniteSet(Users(ty, r) \ {s})
          /\ Cardinality(Users(ty, r) \ {s}) = Cardinality(Users(ty, r)) - 1
      BY <2>0, <3>1, FS_RemoveElement
    <3>3. Cardinality(Users(ty, r) \ {s}) \in Nat
      BY <3>2, FS_CardinalityType
    <3> QED BY <2>0, <2>3, <3>1, <3>2, <3>3
  <2> QED BY <2>1, <2>2, <2>3
<1>3. ASSUME NEW ty \in Types, NEW r \in Rings
      PROVE  inflight'[ty][r] = inflight[ty][r] + (IF ty \in U /\ r = s[1] THEN n ELSE 0)
  BY <1>1, <1>3 DEF Types
<1>4. inflight' \in [Types -> [Rings -> Int]]
  BY <1>1 DEF Types
<1>5. ASSUME NEW ty \in Types, NEW r \in Rings
      PROVE  inflight'[ty][r] = Cardinality(Users(ty, r)') /\ inflight'[ty][r] \in Nat
  <2>1. inflight[ty][r] = Cardinality(Users(ty, r))
    BY DEF InflightExact
  <2> DEFINE d == IF ty \in U /\ r = s[1] THEN n ELSE 0
  <2>2. /\ Cardinality(Users(ty, r)') = Cardinality(Users(ty, r)) + d
        /\ Cardinality(Users(ty, r)') \in Nat
    BY <1>2
  <2>3. inflight'[ty][r] = inflight[ty][r] + d
    BY <1>3
  <2> HIDE DEF d
  <2> QED BY <2>1, <2>2, <2>3
<1>6. InflightExact'
  BY <1>5 DEF InflightExact
<1> QED BY <1>4, <1>5, <1>6

\* What a step does to the requests: their types and counters stay right, only
\* a submission that uses a table makes a request count for it, and a request
\* stays in its callback until that has returned.
RequestsKept ==
  /\ req' \in [Slots -> Requests] /\ lock_held' \subseteq Rings
  /\ InflightExact' /\ inflight' \in [Types -> [Rings -> Nat]]
  /\ \A x \in Slots, ty \in Types :
       Counts(x, ty)' => \/ Counts(x, ty)
                         \/ \E a \in Acts : /\ Submit(a)
                                            /\ ty = "buffers" => act[a].op.buf
                                            /\ ty = "files" => act[a].op.file
  /\ \A x \in Slots : req[x].state = "callback" =>
       req'[x].state = "callback" \/ \E a \in Acts : Retire(a) /\ act[a].slot = x

LEMMA SameRequests ==
  ASSUME TypeOK, InflightExact, UNCHANGED rings
  PROVE  RequestsKept
<1>1. SameUse
  BY DEF SameUse, rings, Counts, Uses
<1> QED BY <1>1, SameInflight DEF RequestsKept, SameUse, TypeOK, rings

LEMMA FlushRequests ==
  ASSUME TypeOK, InflightExact, NEW r \in Rings, req' = Flushed(req, r),
         UNCHANGED <<lock_held, inflight>>
  PROVE  RequestsKept
<1>1. /\ req' \in [Slots -> Requests]
      /\ \A s \in Slots : /\ req'[s].buf = req[s].buf
                          /\ req'[s].file = req[s].file
                          /\ \/ req'[s].state = req[s].state
                             \/ req[s].state = "queued" /\ req'[s].state = "sent"
  <2>1. req \in [Slots -> Requests]
    BY DEF TypeOK
  <2> QED BY <2>1, FlushTypes
<1>2. SameUse
  BY <1>1 DEF SameUse, Counts, Uses, Submitted
<1> QED BY <1>1, <1>2, SameInflight DEF RequestsKept, SameUse, TypeOK

LEMMA SubmitRequests ==
  ASSUME TypeOK, InflightExact, NEW a \in Acts, Submit(a)
  PROVE  RequestsKept
<1>1. PICK s \in Free(act[a].ring) : Queue(a, s)
  BY DEF Submit
<1>2. s \in Slots /\ s[1] = act[a].ring /\ req[s].state = "free"
  BY DEF Free
<1>3. act[a].op \in Ops /\ req \in [Slots -> Requests] /\ s[1] \in Rings
  BY <1>2 DEF TypeOK, Activations, Slots
<1>4. \A ty \in Types : ~Counts(s, ty)
  BY <1>2 DEF Counts, Submitted
<1>5. CASE /\ inflight' = inflight /\ req' = [req EXCEPT ![s].state = "held"]
           /\ lock_held' \in {lock_held, lock_held \cup {s[1]}}
  <2>1. [req[s] EXCEPT !.state = "held"] \in Requests
    BY <1>2, <1>3 DEF Requests
  <2>2. /\ req' \in [Slots -> Requests] /\ req'[s].state = "held"
        /\ \A x \in Slots : x # s => req'[x] = req[x]
    <3>1. req' = [req EXCEPT ![s] = [req[s] EXCEPT !.state = "held"]]
      BY <1>3, <1>5
    <3> QED BY <1>2, <1>3, <2>1, <3>1 DEF Requests
  <2>3. SameUse
    BY <1>4, <1>5, <2>2 DEF SameUse, Counts, Uses, Submitted
  <2> QED BY <1>2, <1>3, <1>5, <2>2, <2>3, SameInflight DEF RequestsKept, SameUse, TypeOK
<1>6. CASE /\ inflight' = [inflight EXCEPT
                !["buffers"][s[1]] = @ + (IF act[a].op.buf THEN 1 ELSE 0),
                !["files"][s[1]] = @ + (IF act[a].op.file THEN 1 ELSE 0)]
           /\ req' \in [Slots -> Requests]
           /\ req'[s].state \in Submitted
           /\ req'[s].buf = act[a].op.buf /\ req'[s].file = act[a].op.file
           /\ \A x \in Slots : x # s =>
                /\ req'[x].buf = req[x].buf /\ req'[x].file = req[x].file
                /\ \/ req'[x].state = req[x].state
                   \/ req[x].state = "queued" /\ req'[x].state = "sent"
           /\ lock_held' = lock_held
  <2>1. PICK U \in SUBSET Types : /\ "buffers" \in U <=> act[a].op.buf
                                  /\ "files" \in U <=> act[a].op.file
    <3>1. LET U == {ty \in Types : IF ty = "buffers" THEN act[a].op.buf ELSE act[a].op.file}
          IN  /\ U \in SUBSET Types /\ ("buffers" \in U <=> act[a].op.buf)
              /\ ("files" \in U <=> act[a].op.file)
      BY DEF Types
    <3> QED BY <3>1
  <2>2. \A x \in Slots, ty \in Types : x # s => (Counts(x, ty)' <=> Counts(x, ty))
    BY <1>6 DEF Counts, Uses, Submitted
  <2>3. \A ty \in Types : Counts(s, ty)' <=> ty \in U
    BY <1>6, <2>1 DEF Counts, Uses, Types
  <2>4. InflightExact' /\ inflight' \in [Types -> [Rings -> Nat]]
    <3>1. inflight' = [inflight EXCEPT
            !["buffers"][s[1]] = @ + (IF "buffers" \in U THEN 1 ELSE 0),
            !["files"][s[1]] = @ + (IF "files" \in U THEN 1 ELSE 0)]
      BY <1>6, <2>1
    <3>2. 1 \in {-1, 1} /\ 1 # -1
      OBVIOUS
    <3> QED BY <1>2, <1>4, <2>2, <2>3, <3>1, <3>2, OneInflight
  <2>5. \A x \in Slots, ty \in Types : Counts(x, ty)' =>
          \/ Counts(x, ty)
          \/ /\ ty = "buffers" => act[a].op.buf
             /\ ty = "files" => act[a].op.file
    BY <2>1, <2>2, <2>3
  <2>6. \A x \in Slots : req[x].state = "callback" => req'[x].state = "callback"
    BY <1>2, <1>6
  <2> QED BY <1>6, <2>4, <2>5, <2>6 DEF RequestsKept, TypeOK
<1> QED BY <1>1, <1>2, <1>5, <1>6, QueueEffect

LEMMA CompletionRequests ==
  ASSUME TypeOK, InflightExact, NEW a \in Acts, ProcessCompletion(a)
  PROVE  RequestsKept
<1>1. PICK s \in Slots :
        /\ s[1] = act[a].ring /\ req[s].state = "cqe"
        /\ req' = [req EXCEPT ![s] = [FreeRequest EXCEPT !.state = "callback"]]
        /\ inflight' = [inflight EXCEPT
             !["buffers"][s[1]] = @ - (IF req[s].buf THEN 1 ELSE 0),
             !["files"][s[1]] = @ - (IF req[s].file THEN 1 ELSE 0)]
  BY DEF ProcessCompletion
<1>2. /\ req \in [Slots -> Requests] /\ inflight \in [Types -> [Rings -> Nat]]
      /\ s[1] \in Rings
  BY DEF TypeOK, Slots
<1>3. /\ [FreeRequest EXCEPT !.state = "callback"] \in Requests
      /\ [FreeRequest EXCEPT !.state = "callback"].state = "callback"
  BY DEF FreeRequest, Requests
<1>4. /\ req' \in [Slots -> Requests] /\ req'[s].state = "callback"
      /\ \A x \in Slots : x # s => req'[x] = req[x]
  BY <1>1, <1>2, <1>3
<1>5. PICK U \in SUBSET Types : /\ "buffers" \in U <=> req[s].buf
                                /\ "files" \in U <=> req[s].file
  <2>1. LET U == {ty \in Types : IF ty = "buffers" THEN req[s].buf ELSE req[s].file}
        IN  /\ U \in SUBSET Types /\ ("buffers" \in U <=> req[s].buf)
            /\ ("files" \in U <=> req[s].file)
    BY DEF Types
  <2> QED BY <2>1
<1>6. \A x \in Slots, ty \in Types : x # s => (Counts(x, ty)' <=> Counts(x, ty))
  BY <1>4 DEF Counts, Uses
<1>7. \A ty \in Types : (Counts(s, ty) <=> ty \in U) /\ ~Counts(s, ty)'
  BY <1>1, <1>4, <1>5 DEF Counts, Uses, Types, Submitted
<1>8. inflight' = [inflight EXCEPT
        !["buffers"][s[1]] = @ + (IF "buffers" \in U THEN -1 ELSE 0),
        !["files"][s[1]] = @ + (IF "files" \in U THEN -1 ELSE 0)]
  <2>1. /\ inflight["buffers"][s[1]] \in Nat /\ inflight["files"][s[1]] \in Nat
    BY <1>2 DEF Types
  <2>2. /\ inflight["buffers"][s[1]] - (IF req[s].buf THEN 1 ELSE 0)
             = inflight["buffers"][s[1]] + (IF "buffers" \in U THEN -1 ELSE 0)
        /\ inflight["files"][s[1]] - (IF req[s].file THEN 1 ELSE 0)
             = inflight["files"][s[1]] + (IF "files" \in U THEN -1 ELSE 0)
    BY <1>5, <2>1
  <2> QED BY <1>1, <1>2, <2>2 DEF Types
<1>9. InflightExact' /\ inflight' \in [Types -> [Rings -> Nat]]
  <2>1. -1 \in {-1, 1} /\ -1 # 1
    OBVIOUS
  <2> QED BY <1>6, <1>7, <1>8, <2>1, OneInflight
<1>10. \A x \in Slots, ty \in Types : Counts(x, ty)' => Counts(x, ty)
  BY <1>6, <1>7
<1>11. \A x \in Slots : req[x].state = "callback" => req'[x].state = "callback"
  BY <1>4
<1> QED BY <1>4, <1>9, <1>10, <1>11 DEF RequestsKept, ProcessCompletion, TypeOK

LEMMA RetireRequests ==
  ASSUME TypeOK, InflightExact, CallsAgree, NEW a \in Acts, Retire(a)
  PROVE  RequestsKept
<1>1. PICK s : s = act[a].slot
  OBVIOUS
<1>2. s \in Slots /\ req[s].state = "callback" /\ req' = [req EXCEPT ![s] = FreeRequest]
  BY <1>1 DEF Retire, CallsAgree
<1>3. req \in [Slots -> Requests]
  BY DEF TypeOK
<1>4. /\ req' \in [Slots -> Requests] /\ req'[s] = FreeRequest
      /\ \A x \in Slots : x # s => req'[x] = req[x]
  BY <1>2, <1>3, IdleType
<1>5. SameUse
  BY <1>2, <1>4 DEF SameUse, Counts, Uses, Submitted, FreeRequest, Retire
<1>6. \A x \in Slots : req[x].state = "callback" =>
         req'[x].state = "callback" \/ \E b \in Acts : Retire(b) /\ act[b].slot = x
  BY <1>1, <1>4
<1> QED BY <1>4, <1>5, <1>6, SameInflight DEF RequestsKept, SameUse, TypeOK, Retire

LEMMA KernelRequests ==
  ASSUME TypeOK, InflightExact, NEW s \in Slots, KernelComplete(s)
  PROVE  RequestsKept
<1>1. req \in [Slots -> Requests] /\ req[s].state = "sent"
  BY DEF TypeOK, KernelComplete
<1>2. /\ [req[s] EXCEPT !.state = "cqe"] \in Requests
      /\ [req[s] EXCEPT !.state = "cqe"].state = "cqe"
      /\ [req[s] EXCEPT !.state = "cqe"].buf = req[s].buf
      /\ [req[s] EXCEPT !.state = "cqe"].file = req[s].file
  BY <1>1 DEF Requests, Submitted
<1>3. req' = [req EXCEPT ![s] = [req[s] EXCEPT !.state = "cqe"]]
  BY <1>1 DEF KernelComplete
<1>4. /\ req' \in [Slots -> Requests] /\ req'[s].state = "cqe"
      /\ req'[s].buf = req[s].buf /\ req'[s].file = req[s].file
      /\ \A x \in Slots : x # s => req'[x] = req[x]
  BY <1>1, <1>2, <1>3
<1>5. SameUse
  BY <1>1, <1>4 DEF SameUse, Counts, Uses, Submitted, KernelComplete
<1> QED BY <1>1, <1>4, <1>5, SameInflight DEF RequestsKept, SameUse, TypeOK, KernelComplete

LEMMA RequestsNext ==
  ASSUME TypeOK, InflightExact, CallsAgree, [Next]_vars
  PROVE  RequestsKept
<1>1. ASSUME NEW a \in Acts, SubmitFull(a) \/ PollRing(a) PROVE RequestsKept
  <2>1. act[a].ring \in Rings
    BY DEF TypeOK, Activations
  <2> QED BY <1>1, <2>1, FlushRequests DEF SubmitFull, PollRing
<1>2. ASSUME NEW a \in Acts,
             \/ Call(a) \/ PollCall(a) \/ SubmitRefused(a) \/ DrainReturn(a)
             \/ MaybeFinalize(a) \/ FinalizeUnregistration(a) \/ RequestUnregister(a)
             \/ UnregisterWait(a) \/ UnregisterTimeout(a)
             \/ UpdateLock(a) \/ UpdateRing(a) \/ UpdateFails(a)
      PROVE  UNCHANGED rings
  <2>1. CASE Call(a)
    BY <2>1 DEF Call, ResolveFile, FixedFile, ValidateBuffer, Begin, UnregisterCall,
         UpdateCall, aura_register_buffers, aura_register_files, RegisterTable
  <2>2. CASE PollCall(a) \/ SubmitRefused(a) \/ DrainReturn(a)
    BY <2>2 DEF PollCall, SubmitRefused, DrainReturn
  <2>3. CASE \/ MaybeFinalize(a) \/ FinalizeUnregistration(a) \/ RequestUnregister(a)
             \/ UnregisterWait(a) \/ UnregisterTimeout(a)
    BY <2>3 DEF MaybeFinalize, FinalizeUnregistration, RequestUnregister,
         UnregisterWait, UnregisterTimeout
  <2>4. CASE UpdateLock(a) \/ UpdateRing(a) \/ UpdateFails(a)
    BY <2>4 DEF UpdateLock, UpdateRing, UpdateFails
  <2> QED BY <1>2, <2>1, <2>2, <2>3, <2>4
<1>3. CASE UNCHANGED vars
  BY <1>3, SameRequests DEF vars, rings
<1>4. CASE Next
  BY <1>1, <1>2, <1>4, SameRequests, SubmitRequests, CompletionRequests,
     RetireRequests, KernelRequests DEF Next, Step
<1> QED BY <1>3, <1>4
-----------------------------------------------------------------------------
(* The calls in progress *)

LEMMA CallEffect ==
  ASSUME TypeOK, CallsAgree, NEW a \in Acts
  PROVE  /\ UnregisterCall(a) =>
              /\ act' \in [Acts -> Activations]
              /\ \A b \in Acts : b # a => act'[b] = act[b]
              /\ act'[a].pc = "request" /\ act'[a].op = NoOp /\ act'[a].ty \in Types
              /\ act'[a].ty = "files" => ~FixedFileInProgress
              /\ UNCHANGED <<engine, readers, writer, rings, kernel>>
         /\ UpdateCall(a) =>
              /\ act' \in [Acts -> Activations]
              /\ \A b \in Acts : b # a => act'[b] = act[b]
              /\ act'[a].pc = "update" /\ act'[a].ring = 1 /\ act'[a].op.fd \in Fds
              /\ ~act'[a].op.buf /\ ~act'[a].op.file /\ ~act'[a].op.fixed
              /\ UNCHANGED <<engine, readers, writer, rings, kernel>>
<1>1. act \in [Acts -> Activations] /\ (MayCall(a) => act[a] = Idle)
  BY DEF TypeOK, CallsAgree, MayCall
<1>2. ASSUME UnregisterCall(a)
      PROVE  /\ act' \in [Acts -> Activations]
             /\ \A b \in Acts : b # a => act'[b] = act[b]
             /\ act'[a].pc = "request" /\ act'[a].op = NoOp /\ act'[a].ty \in Types
             /\ act'[a].ty = "files" => ~FixedFileInProgress
             /\ UNCHANGED <<engine, readers, writer, rings, kernel>>
  <2>1. PICK ty \in Types, wait \in BOOLEAN :
          /\ ty = "files" => ~FixedFileInProgress
          /\ act' = [act EXCEPT ![a].pc = "request", ![a].ty = ty, ![a].wait = wait]
    BY <1>2 DEF UnregisterCall
  <2> DEFINE f == [Idle EXCEPT !.pc = "request", !.ty = ty, !.wait = wait]
  <2>2. f \in Activations /\ f.pc = "request" /\ f.op = NoOp /\ f.ty = ty
    BY IdleType DEF Activations, Pcs, Idle
  <2>3. act' = [act EXCEPT ![a] = f]
    BY <1>1, <1>2, <2>1 DEF UnregisterCall
  <2>4. /\ act' \in [Acts -> Activations]
        /\ \A b \in Acts : b # a => act'[b] = act[b]
        /\ act'[a] = f
    <3> HIDE DEF f
    <3> QED BY <2>2, <2>3, MoveTo
  <2> QED BY <1>2, <2>1, <2>2, <2>4, ZenonT(40) DEF UnregisterCall
<1>3. ASSUME UpdateCall(a)
      PROVE  /\ act' \in [Acts -> Activations]
             /\ \A b \in Acts : b # a => act'[b] = act[b]
             /\ act'[a].pc = "update" /\ act'[a].ring = 1 /\ act'[a].op.fd \in Fds
             /\ ~act'[a].op.buf /\ ~act'[a].op.file /\ ~act'[a].op.fixed
             /\ UNCHANGED <<engine, readers, writer, rings, kernel>>
  <2>1. PICK fd \in Fds : act' = [act EXCEPT ![a].pc = "update", ![a].op.fd = fd]
    BY <1>3 DEF UpdateCall
  <2> DEFINE o == [NoOp EXCEPT !.fd = fd]
             f == [Idle EXCEPT !.pc = "update", !.op = o]
  <2>2. o \in Ops /\ o.fd = fd /\ ~o.buf /\ ~o.file /\ ~o.fixed
    BY DEF NoOp, Op, Ops
  <2>3. f \in Activations /\ f.pc = "update" /\ f.ring = 1 /\ f.op = o
    <3> HIDE DEF o
    <3> QED BY <2>2, IdleType DEF Activations, Pcs, Idle
  <2>4. act' = [act EXCEPT ![a] = f]
    <3>1. act[a] = Idle /\ Idle.op = NoOp
      BY <1>1, <1>3 DEF UpdateCall, Idle
    <3>2. act' = [act EXCEPT ![a] = [act[a] EXCEPT !.pc = "update", !.op = [act[a].op EXCEPT !.fd = fd]]]
      BY <1>1, <2>1, IdleType DEF Activations
    <3> QED BY <3>1, <3>2
  <2>5. /\ act' \in [Acts -> Activations]
        /\ \A b \in Acts : b # a => act'[b] = act[b]
        /\ act'[a] = f
    <3> HIDE DEF f
    <3> QED BY <2>3, <2>4, MoveTo
  <2> QED
    <3> HIDE DEF o, f
    <3> QED BY <1>3, <2>2, <2>3, <2>5 DEF UpdateCall
<1> QED BY <1>2, <1>3

LEMMA CallbackEffect ==
  ASSUME TypeOK, NEW a \in Acts, ProcessCompletion(a)
  PROVE  /\ act' \in [Acts -> Activations]
         /\ \A b \in Acts : b # a => act'[b] = act[b]
         /\ act[a].pc = "drain" /\ act'[a].pc = "callback" /\ act'[a].op = act[a].op
         /\ act'[a].slot \in Slots /\ req[act'[a].slot].state = "cqe"
         /\ req'[act'[a].slot].state = "callback"
         /\ UNCHANGED <<engine, readers, writer, kernel>>
<1>1. PICK s \in Slots :
        /\ req[s].state = "cqe"
        /\ req' = [req EXCEPT ![s] = [FreeRequest EXCEPT !.state = "callback"]]
        /\ act' = [act EXCEPT ![a].pc = "callback", ![a].slot = s]
  BY DEF ProcessCompletion
<1>2. act \in [Acts -> Activations] /\ req \in [Slots -> Requests]
  BY DEF TypeOK
<1> DEFINE f == [act[a] EXCEPT !.pc = "callback", !.slot = s]
<1>3. f \in Activations /\ f.pc = "callback" /\ f.op = act[a].op /\ f.slot = s
  BY <1>2 DEF Activations, Pcs
<1>4. act' = [act EXCEPT ![a] = f]
  BY <1>1, <1>2
<1>5. /\ act' \in [Acts -> Activations] /\ act'[a] = f
      /\ \A b \in Acts : b # a => act'[b] = act[b]
  <2> HIDE DEF f
  <2> QED BY <1>3, <1>4, MoveTo
<1>6. req'[s].state = "callback"
  BY <1>1, <1>2 DEF FreeRequest
<1> QED BY <1>1, <1>3, <1>5, <1>6 DEF ProcessCompletion

LEMMA UpdateEffect ==
  ASSUME TypeOK, NEW a \in Acts, UpdateLock(a) \/ UpdateRing(a) \/ UpdateFails(a)
  PROVE  /\ act' \in [Acts -> Activations]
         /\ \A b \in Acts : b # a => act'[b] = act[b]
         /\ \/ Return(a) /\ act'[a] = Idle
            \/ /\ UpdateLock(a) /\ registered["files"] /\ writer' = a
               /\ act'[a].pc = "updating" /\ act'[a].op = act[a].op
               /\ act'[a].ring = act[a].ring
            \/ /\ UpdateRing(a) /\ act[a].ring < NRings /\ writer' = writer
               /\ act'[a].pc = "updating" /\ act'[a].op = act[a].op
               /\ act'[a].ring = act[a].ring + 1
         /\ UNCHANGED <<readers, rings, registered, unreg_pending>>
<1>0. act \in [Acts -> Activations] /\ act[a] \in Activations
      /\ NRings \in Nat \ {0} /\ act[a].ring \in 1 .. NRings
  BY RegistrationConstants DEF TypeOK, Activations, Rings
<1>1. CASE Return(a)
  <2>1. /\ act' \in [Acts -> Activations] /\ act'[a] = Idle
        /\ \A b \in Acts : b # a => act'[b] = act[b]
    BY <1>1, Moves
  <2> QED BY <1>1, <2>1 DEF UpdateLock, UpdateRing, UpdateFails, engine
<1>2. CASE UpdateLock(a) /\ ~Return(a)
  <2>1. "updating" \in Pcs
    BY DEF Pcs
  <2>2. Goto(a, "updating") /\ registered["files"] /\ writer' = a
    BY <1>2 DEF UpdateLock
  <2>3. /\ act' \in [Acts -> Activations]
        /\ act'[a] = [act[a] EXCEPT !.pc = "updating"]
        /\ \A b \in Acts : b # a => act'[b] = act[b]
    BY <2>1, <2>2, Moves
  <2>4. /\ act'[a].pc = "updating" /\ act'[a].op = act[a].op
        /\ act'[a].ring = act[a].ring
    BY <1>0, <2>3 DEF Activations
  <2> QED BY <1>2, <2>2, <2>3, <2>4 DEF UpdateLock, engine
<1>3. CASE UpdateRing(a) /\ ~Return(a)
  <2>1. /\ act[a].ring < NRings /\ act' = [act EXCEPT ![a].ring = act[a].ring + 1]
        /\ writer' = writer
    BY <1>3 DEF UpdateRing
  <2> DEFINE f == [act[a] EXCEPT !.ring = act[a].ring + 1]
  <2>2. /\ f \in Activations /\ f.pc = act[a].pc /\ f.op = act[a].op
        /\ f.ring = act[a].ring + 1 /\ act[a].pc = "updating"
    BY <1>0, <1>3, <2>1 DEF Activations, Rings, UpdateRing
  <2>3. act' = [act EXCEPT ![a] = f]
    BY <1>0, <2>1
  <2>4. /\ act' \in [Acts -> Activations] /\ act'[a] = f
        /\ \A b \in Acts : b # a => act'[b] = act[b]
    <3> HIDE DEF f
    <3> QED BY <2>2, <2>3, MoveTo
  <2> QED
    <3> HIDE DEF f
    <3> QED BY <1>3, <2>1, <2>2, <2>4 DEF UpdateRing
<1> QED BY <1>1, <1>2, <1>3 DEF UpdateFails

\* Every step is one of these, or leaves the calls alone.
LEMMA CallKinds ==
  ASSUME TypeOK, [Next]_vars
  PROVE  \/ \E a \in Acts : \/ Walks(a) \/ UnregisterCall(a) \/ UpdateCall(a)
                            \/ ProcessCompletion(a) \/ UpdateLock(a)
                            \/ UpdateRing(a) \/ UpdateFails(a)
         \/ \E a \in Acts : \E op, locked : Starts(a, op, locked)
         \/ UNCHANGED <<act, readers, writer, unreg_pending, fatal>>
<1>1. ASSUME NEW a \in Acts, Call(a)
      PROVE  \/ UnregisterCall(a) \/ UpdateCall(a)
             \/ \E op, locked : Starts(a, op, locked)
             \/ UNCHANGED <<act, readers, writer, unreg_pending, fatal>>
  <2>1. CASE ResolveFile(a) \/ FixedFile(a) \/ ValidateBuffer(a)
    BY <2>1, StartKinds
  <2>2. CASE aura_register_buffers(a) \/ aura_register_files(a)
    BY <2>2 DEF aura_register_buffers, aura_register_files, RegisterTable
  <2> QED BY <1>1, <2>1, <2>2 DEF Call
<1>2. ASSUME NEW s \in Slots, KernelComplete(s)
      PROVE  UNCHANGED <<act, readers, writer, unreg_pending, fatal>>
  BY <1>2 DEF KernelComplete, engine
<1>3. CASE UNCHANGED vars
  BY <1>3 DEF vars
<1>4. CASE Next
  BY <1>1, <1>2, <1>4, WalkKinds DEF Next, Step
<1> QED BY <1>3, <1>4

\* What CallsAgree says of one call, and of two.
CallAgrees(a) ==
  /\ act[a].pc = "out" => act[a] = Idle
  /\ act[a].pc = "request" => act[a].ty \in Types
  /\ act[a].pc = "callback" => /\ act[a].slot \in Slots
                               /\ req[act[a].slot].state = "callback"
Apart(a, b) ==
  act[a].pc = "callback" /\ act[b].pc = "callback" /\ act[a].slot = act[b].slot => a = b

LEMMA CallsAgreeParts ==
  /\ CallsAgree <=> (\A a \in Acts : CallAgrees(a)) /\ (\A a, b \in Acts : Apart(a, b))
  /\ CallsAgree' <=> (\A a \in Acts : CallAgrees(a)') /\ (\A a, b \in Acts : Apart(a, b)')
BY DEF CallsAgree, CallAgrees, Apart

\* A call that a step does not move keeps its locals right.
LEMMA StillAgrees ==
  ASSUME TypeOK, InflightExact, CallsAgree, [Next]_vars, NEW b \in Acts, act'[b] = act[b]
  PROVE  CallAgrees(b)'
<1>1. RequestsKept
  BY RequestsNext
<1>2. CASE act[b].pc = "callback"
  <2>1. act[b].slot \in Slots /\ req[act[b].slot].state = "callback"
    BY <1>2 DEF CallsAgree
  <2>2. ASSUME NEW c \in Acts, Retire(c), act[c].slot = act[b].slot PROVE FALSE
    <3>1. c = b
      BY <1>2, <2>2 DEF CallsAgree, Retire
    <3>2. act \in [Acts -> Activations] /\ act[b] \in Activations
      BY DEF TypeOK
    <3>3. act' = [act EXCEPT ![b].pc = "drain", ![b].slot = NoSlot]
      BY <2>2, <3>1 DEF Retire
    <3>4. act'[b].pc = "drain"
      BY <3>2, <3>3 DEF Activations
    <3> QED BY <1>2, <3>4
  <2>3. req'[act[b].slot].state = "callback"
    BY <1>1, <2>1, <2>2 DEF RequestsKept
  <2> QED BY <1>2, <2>1, <2>3 DEF CallAgrees
<1>3. CASE act[b].pc # "callback"
  BY <1>3 DEF CallsAgree, CallAgrees
<1> QED BY <1>2, <1>3

LEMMA CallsNext ==
  ASSUME TypeOK, InflightExact, CallsAgree, [Next]_vars
  PROVE  CallsAgree' /\ act' \in [Acts -> Activations]
<1>0. act \in [Acts -> Activations] /\ Idle.pc = "out"
  BY DEF TypeOK, Idle
\* A step that moves one call, which then runs no callback.
<1>1. ASSUME NEW a \in Acts, \A b \in Acts : b # a => act'[b] = act[b],
             act'[a].pc = "callback" => act'[a] = act[a],
             CallAgrees(a)'
      PROVE  CallsAgree'
  <2>1. \A b \in Acts : CallAgrees(b)'
    BY <1>1, StillAgrees
  <2>2. ASSUME NEW b \in Acts, NEW c \in Acts PROVE Apart(b, c)'
    <3>1. Apart(b, c)
      BY CallsAgreeParts
    <3> QED BY <1>1, <3>1 DEF Apart
  <2> QED BY <2>1, <2>2, CallsAgreeParts
<1>2. ASSUME NEW a \in Acts, Walks(a) PROVE CallsAgree' /\ act' \in [Acts -> Activations]
  <2>1. act'[a].pc # "callback" /\ CallAgrees(a)'
    BY <1>0, <1>2 DEF Walks, CallAgrees
  <2> QED BY <1>1, <1>2, <2>1 DEF Walks
<1>3. ASSUME NEW a \in Acts, UnregisterCall(a) \/ UpdateCall(a)
      PROVE  CallsAgree' /\ act' \in [Acts -> Activations]
  <2>1. /\ act' \in [Acts -> Activations]
        /\ \A b \in Acts : b # a => act'[b] = act[b]
        /\ \/ act'[a].pc = "request" /\ act'[a].ty \in Types
           \/ act'[a].pc = "update"
    BY <1>3, CallEffect
  <2>2. act'[a].pc # "callback" /\ CallAgrees(a)'
    BY <2>1 DEF CallAgrees
  <2> QED BY <1>1, <2>1, <2>2
<1>4. ASSUME NEW a \in Acts, ProcessCompletion(a)
      PROVE  CallsAgree' /\ act' \in [Acts -> Activations]
  <2>1. /\ act' \in [Acts -> Activations]
        /\ \A b \in Acts : b # a => act'[b] = act[b]
        /\ act'[a].pc = "callback" /\ act'[a].slot \in Slots
        /\ req[act'[a].slot].state = "cqe" /\ req'[act'[a].slot].state = "callback"
    BY <1>4, CallbackEffect
  <2>2. \A b \in Acts : CallAgrees(b)'
    <3>1. CallAgrees(a)'
      BY <2>1 DEF CallAgrees
    <3> QED BY <2>1, <3>1, StillAgrees
  <2>3. ASSUME NEW b \in Acts, b # a, act'[b].pc = "callback"
        PROVE  act'[b].slot # act'[a].slot
    BY <2>1, <2>3 DEF CallsAgree
  <2>4. ASSUME NEW b \in Acts, NEW c \in Acts PROVE Apart(b, c)'
    <3>1. Apart(b, c)
      BY CallsAgreeParts
    <3> QED BY <2>1, <2>3, <3>1 DEF Apart
  <2> QED BY <2>1, <2>2, <2>4, CallsAgreeParts
<1>5. ASSUME NEW a \in Acts, UpdateLock(a) \/ UpdateRing(a) \/ UpdateFails(a)
      PROVE  CallsAgree' /\ act' \in [Acts -> Activations]
  <2>1. /\ act' \in [Acts -> Activations]
        /\ \A b \in Acts : b # a => act'[b] = act[b]
        /\ act'[a] = Idle \/ act'[a].pc = "updating"
    BY <1>5, UpdateEffect
  <2>2. act'[a].pc # "callback" /\ CallAgrees(a)'
    BY <1>0, <2>1 DEF CallAgrees
  <2> QED BY <1>1, <2>1, <2>2
<1>6. ASSUME NEW a \in Acts, NEW op, NEW locked, Starts(a, op, locked)
      PROVE  CallsAgree' /\ act' \in [Acts -> Activations]
  <2>1. /\ act' \in [Acts -> Activations]
        /\ \A b \in Acts : b # a => act'[b] = act[b]
        /\ act'[a].pc = "begin"
    BY <1>6, BeginEffect
  <2>2. act'[a].pc # "callback" /\ CallAgrees(a)'
    BY <2>1 DEF CallAgrees
  <2> QED BY <1>1, <2>1, <2>2
<1>7. CASE UNCHANGED act
  <2>1. \A b \in Acts : CallAgrees(b)'
    BY <1>7, StillAgrees
  <2>2. \A b, c \in Acts : Apart(b, c)'
    BY <1>7, CallsAgreeParts DEF Apart
  <2> QED BY <1>0, <1>7, <2>1, <2>2, CallsAgreeParts
<1> QED BY <1>2, <1>3, <1>4, <1>5, <1>6, <1>7, CallKinds
-----------------------------------------------------------------------------
(* The engine's and the kernel's tables *)

LEMMA EngineKinds ==
  ASSUME TypeOK, [Next]_vars
  PROVE  \/ UNCHANGED <<engine, kernel>>
         \/ \E a \in Acts : \/ FinalizeUnregistration(a) \/ RequestUnregister(a)
                            \/ UpdateRing(a) \/ UpdateFails(a)
                            \/ \E ty \in Types : RegisterTable(a, ty)
<1>1. ASSUME NEW a \in Acts, Call(a)
      PROVE  UNCHANGED <<engine, kernel>> \/ \E ty \in Types : RegisterTable(a, ty)
  BY <1>1 DEF Call, ResolveFile, FixedFile, ValidateBuffer, Begin, UnregisterCall,
     UpdateCall, aura_register_buffers, aura_register_files, Types
<1>2. ASSUME NEW a \in Acts, \/ PollCall(a) \/ Submit(a) \/ SubmitFull(a)
                             \/ SubmitRefused(a) \/ ProcessCompletion(a) \/ Retire(a)
                             \/ DrainReturn(a) \/ PollRing(a)
      PROVE  UNCHANGED <<engine, kernel>>
  BY <1>2 DEF PollCall, Submit, SubmitFull, SubmitRefused, ProcessCompletion, Retire,
     DrainReturn, PollRing
<1>3. ASSUME NEW a \in Acts, \/ MaybeFinalize(a) \/ UnregisterWait(a)
                             \/ UnregisterTimeout(a) \/ UpdateLock(a)
      PROVE  UNCHANGED <<engine, kernel>>
  BY <1>3 DEF MaybeFinalize, UnregisterWait, UnregisterTimeout, UpdateLock
<1>4. ASSUME NEW s \in Slots, KernelComplete(s) PROVE UNCHANGED <<engine, kernel>>
  BY <1>4 DEF KernelComplete
<1>5. CASE UNCHANGED vars
  BY <1>5 DEF vars, engine
<1>6. CASE Next
  BY <1>1, <1>2, <1>3, <1>4, <1>6 DEF Next, Step
<1> QED BY <1>5, <1>6

EngineTypes == /\ registered \in [Types -> BOOLEAN]
               /\ unreg_pending \in [Types -> BOOLEAN]
               /\ table \in Tables /\ fatal \in BOOLEAN /\ kernel \in [Rings -> Tables]

\* One entry of a table is replaced.
Replaced(t, ty, c) == [t EXCEPT ![ty] = c]

LEMMA TablesExcept ==
  ASSUME NEW t \in Tables, NEW ty \in Types, NEW c \in Contents(ty) \cup {NoTable}
  PROVE  /\ Replaced(t, ty, c) \in Tables
         /\ Replaced(t, ty, c)[ty] = c
         /\ \A x \in Types : x # ty => Replaced(t, ty, c)[x] = t[x]
<1>1. t \in [Types -> Fds \cup {"iovecs", NoTable}]
  BY DEF Tables
<1>2. c \in Fds \cup {"iovecs", NoTable}
  BY DEF Contents
<1> QED BY <1>1, <1>2 DEF Tables, Replaced

LEMMA NoTableApart == \A ty \in Types : NoTable \notin Contents(ty)
BY RegistrationConstants DEF Contents

LEMMA FinalizeTables ==
  ASSUME TypeOK, TablesAgree, NEW a \in Acts, FinalizeUnregistration(a)
  PROVE  EngineTypes' /\ TablesAgree'
<1>0. EngineTypes
  BY DEF TypeOK, EngineTypes
<1>1. /\ registered' = [ty \in Types |-> registered[ty] /\ ~Final(ty)]
      /\ unreg_pending' = [ty \in Types |-> unreg_pending[ty] /\ ~Final(ty)]
      /\ table' = [ty \in Types |-> IF Final(ty) THEN NoTable ELSE table[ty]]
      /\ kernel' = [r \in Rings |-> [ty \in Types |->
                       IF Final(ty) THEN NoTable ELSE kernel[r][ty]]]
      /\ fatal' = fatal
  BY DEF FinalizeUnregistration
<1>2. ASSUME NEW t \in Tables
      PROVE  [ty \in Types |-> IF Final(ty) THEN NoTable ELSE t[ty]] \in Tables
  BY DEF Tables
<1>3. table' \in Tables /\ kernel' \in [Rings -> Tables]
  BY <1>0, <1>1, <1>2 DEF EngineTypes
<1>4. EngineTypes'
  <2>1. registered' \in [Types -> BOOLEAN] /\ unreg_pending' \in [Types -> BOOLEAN]
    BY <1>1
  <2> QED BY <1>0, <1>1, <1>3, <2>1 DEF EngineTypes
<1>5. ASSUME NEW ty \in Types
      PROVE  /\ unreg_pending'[ty] => registered'[ty]
             /\ registered'[ty] <=> table'[ty] # NoTable
             /\ \A r \in Rings : registered'[ty] <=> kernel'[r][ty] # NoTable
  <2>1. /\ unreg_pending[ty] => registered[ty]
        /\ registered[ty] <=> table[ty] # NoTable
        /\ \A r \in Rings : registered[ty] <=> kernel[r][ty] # NoTable
    BY DEF TablesAgree
  <2>2. /\ registered'[ty] <=> registered[ty] /\ ~Final(ty)
        /\ unreg_pending'[ty] <=> unreg_pending[ty] /\ ~Final(ty)
        /\ table'[ty] = IF Final(ty) THEN NoTable ELSE table[ty]
        /\ \A r \in Rings : kernel'[r][ty] = IF Final(ty) THEN NoTable ELSE kernel[r][ty]
    BY <1>1
  <2> QED BY <2>1, <2>2
<1> QED BY <1>4, <1>5 DEF TablesAgree

LEMMA RegisterTables ==
  ASSUME TypeOK, TablesAgree, NEW a \in Acts, NEW ty \in Types, RegisterTable(a, ty)
  PROVE  EngineTypes' /\ TablesAgree'
<1>0. EngineTypes
  BY DEF TypeOK, EngineTypes
<1>1. PICK c \in Contents(ty), done \in 0 .. NRings :
        /\ kernel' = [r \in Rings |-> [kernel[r] EXCEPT ![ty] =
                         IF done = NRings THEN c ELSE NoTable]]
        /\ table' = [table EXCEPT ![ty] = IF done = NRings THEN c ELSE NoTable]
        /\ registered' = [registered EXCEPT ![ty] = (done = NRings)]
  BY DEF RegisterTable
<1> DEFINE new == IF done = NRings THEN c ELSE NoTable
<1>2. new \in Contents(ty) \cup {NoTable} /\ (new # NoTable <=> done = NRings)
  BY NoTableApart
<1>3. /\ table' = Replaced(table, ty, new)
      /\ \A r \in Rings : kernel'[r] = Replaced(kernel[r], ty, new)
      /\ kernel' = [r \in Rings |-> kernel'[r]]
      /\ ~registered[ty] /\ ~unreg_pending[ty]
      /\ unreg_pending' = unreg_pending /\ fatal' = fatal
  BY <1>1 DEF RegisterTable, Replaced
<1> HIDE DEF new
<1>4. /\ table' \in Tables /\ table'[ty] = new
      /\ \A x \in Types : x # ty => table'[x] = table[x]
  BY <1>0, <1>2, <1>3, TablesExcept DEF EngineTypes
<1>5. \A r \in Rings : /\ kernel'[r] \in Tables /\ kernel'[r][ty] = new
                       /\ \A x \in Types : x # ty => kernel'[r][x] = kernel[r][x]
  BY <1>0, <1>2, <1>3, TablesExcept DEF EngineTypes
<1>6. /\ registered' \in [Types -> BOOLEAN] /\ (registered'[ty] <=> done = NRings)
      /\ \A x \in Types : x # ty => registered'[x] = registered[x]
  BY <1>0, <1>1 DEF EngineTypes
<1>7. EngineTypes'
  BY <1>0, <1>3, <1>4, <1>5, <1>6 DEF EngineTypes
<1>8. TablesAgree'
  BY <1>2, <1>3, <1>4, <1>5, <1>6 DEF TablesAgree
<1> QED BY <1>7, <1>8

LEMMA UpdateTables ==
  ASSUME TypeOK, TablesAgree, UpdatesAgree, NEW a \in Acts, UpdateRing(a) \/ UpdateFails(a)
  PROVE  EngineTypes' /\ TablesAgree'
<1>0. EngineTypes
  BY DEF TypeOK, EngineTypes
<1>1. act[a].pc = "updating" /\ act[a].ring \in Rings
  BY DEF TypeOK, Activations, UpdateRing, UpdateFails
<1>2. registered["files"] /\ act[a].op.fd \in Fds
  BY <1>1 DEF UpdatesAgree
<1>3. UNCHANGED <<registered, unreg_pending>> /\ fatal' \in BOOLEAN
  BY <1>0 DEF UpdateRing, UpdateFails, EngineTypes
<1>4. "files" \in Types /\ Contents("files") = Fds /\ NoTable \notin Fds
  BY RegistrationConstants DEF Types, Contents
<1>5. table["files"] \in Fds /\ \A r \in Rings : kernel[r]["files"] \in Fds
  BY <1>0, <1>2, <1>4 DEF TablesAgree, EngineTypes, Tables
<1>6. /\ table' \in Tables /\ table'["files"] \in Fds
      /\ \A x \in Types : x # "files" => table'[x] = table[x]
  <2>1. table' = table \/ table' = Replaced(table, "files", act[a].op.fd)
    BY DEF UpdateRing, UpdateFails, Replaced
  <2> QED BY <1>0, <1>2, <1>4, <1>5, <2>1, TablesExcept DEF EngineTypes
<1>7. /\ kernel' \in [Rings -> Tables]
      /\ \A r \in Rings : /\ kernel'[r]["files"] \in Fds
                          /\ \A x \in Types : x # "files" => kernel'[r][x] = kernel[r][x]
  <2>0. kernel \in [Rings -> Tables]
    BY <1>0 DEF EngineTypes
  <2>1. ASSUME NEW r \in Rings, NEW c \in Fds
        PROVE  /\ Replaced(kernel[r], "files", c) \in Tables
               /\ Replaced(kernel[r], "files", c)["files"] = c
               /\ \A x \in Types : x # "files" =>
                    Replaced(kernel[r], "files", c)[x] = kernel[r][x]
    BY <1>4, <2>0, TablesExcept
  <2>2. CASE UpdateRing(a)
    <3>1. kernel' = [kernel EXCEPT ![act[a].ring]
                       = Replaced(kernel[act[a].ring], "files", act[a].op.fd)]
      BY <1>1, <2>0, <2>2 DEF UpdateRing, Replaced
    <3> QED BY <1>1, <1>2, <1>5, <2>0, <2>1, <3>1
  <2>3. CASE UpdateFails(a)
    <3>1. PICK failed \in SUBSET (1 .. act[a].ring - 1) :
            kernel' = [r \in Rings |-> [kernel[r] EXCEPT !["files"] =
              IF r < act[a].ring /\ r \notin failed THEN table["files"] ELSE kernel[r]["files"]]]
      BY <2>3 DEF UpdateFails
    <3>2. \A r \in Rings : \E c \in Fds : kernel'[r] = Replaced(kernel[r], "files", c)
      BY <1>5, <3>1 DEF Replaced
    <3>3. kernel' = [r \in Rings |-> kernel'[r]]
      BY <3>1
    <3> QED BY <2>1, <3>2, <3>3
  <2> QED BY <2>2, <2>3
<1>8. EngineTypes'
  BY <1>0, <1>3, <1>6, <1>7 DEF EngineTypes
<1>9. TablesAgree'
  BY <1>2, <1>3, <1>4, <1>6, <1>7 DEF TablesAgree
<1> QED BY <1>8, <1>9

LEMMA TablesNext ==
  ASSUME TypeOK, TablesAgree, CallsAgree, UpdatesAgree, [Next]_vars
  PROVE  EngineTypes' /\ TablesAgree'
<1>0. EngineTypes
  BY DEF TypeOK, EngineTypes
<1>1. CASE UNCHANGED <<engine, kernel>>
  BY <1>0, <1>1 DEF engine, EngineTypes, TablesAgree
<1>2. ASSUME NEW a \in Acts, RequestUnregister(a) PROVE EngineTypes' /\ TablesAgree'
  <2>1. act[a].ty \in Types
    BY <1>2 DEF RequestUnregister, CallsAgree
  <2>2. /\ UNCHANGED <<registered, table, fatal, kernel>>
        /\ \/ UNCHANGED unreg_pending
           \/ /\ registered[act[a].ty] \/ unreg_pending[act[a].ty]
              /\ unreg_pending' = [unreg_pending EXCEPT ![act[a].ty] = TRUE]
    BY <1>2 DEF RequestUnregister
  <2>3. /\ unreg_pending' \in [Types -> BOOLEAN]
        /\ \A ty \in Types : unreg_pending'[ty] => registered[ty]
    BY <1>0, <2>1, <2>2 DEF TablesAgree, EngineTypes
  <2> QED BY <1>0, <2>2, <2>3 DEF TablesAgree, EngineTypes
<1> QED BY <1>1, <1>2, EngineKinds, FinalizeTables, RegisterTables, UpdateTables
-----------------------------------------------------------------------------
(* Submissions that have passed their checks *)

\* No step takes a table away from a submission that relies on it.
LEMMA FlagsKept ==
  ASSUME TypeOK, CallsAgree, OpsAllowed, [Next]_vars, NEW b \in Acts
  PROVE  /\ act[b].op.buf => registered'["buffers"]
         /\ act[b].op.file => registered'["files"]
         /\ act[b].op.fixed => ~unreg_pending'["files"]
<1>0. /\ registered \in [Types -> BOOLEAN] /\ unreg_pending \in [Types -> BOOLEAN]
      /\ "buffers" \in Types /\ "files" \in Types /\ "buffers" # "files"
  BY DEF TypeOK, Types
<1>1. /\ act[b].op.buf => registered["buffers"] /\ b \in readers
      /\ act[b].op.file => registered["files"] /\ (act[b].op.fixed \/ b \in readers)
      /\ act[b].op.fixed => /\ act[b].op.file /\ ~unreg_pending["files"]
                            /\ \A c \in Acts : act[c].pc = "request" => act[c].ty # "files"
  BY DEF OpsAllowed
<1>2. CASE UNCHANGED <<engine, kernel>>
  BY <1>1, <1>2 DEF engine
<1>3. ASSUME NEW a \in Acts, FinalizeUnregistration(a)
      PROVE  /\ act[b].op.buf => registered'["buffers"]
             /\ act[b].op.file => registered'["files"]
             /\ act[b].op.fixed => ~unreg_pending'["files"]
  <2>1. /\ readers = {}
        /\ registered'["files"] <=> registered["files"] /\ ~Final("files")
        /\ unreg_pending'["files"] <=> unreg_pending["files"] /\ ~Final("files")
    BY <1>0, <1>3 DEF FinalizeUnregistration, WrFree
  <2> QED BY <1>1, <2>1 DEF Final
<1>4. ASSUME NEW a \in Acts, RequestUnregister(a)
      PROVE  /\ act[b].op.buf => registered'["buffers"]
             /\ act[b].op.file => registered'["files"]
             /\ act[b].op.fixed => ~unreg_pending'["files"]
  <2>1. /\ registered' = registered
        /\ \/ unreg_pending' = unreg_pending
           \/ unreg_pending' = [unreg_pending EXCEPT ![act[a].ty] = TRUE]
        /\ act[a].pc = "request"
    BY <1>4 DEF RequestUnregister
  <2> QED BY <1>0, <1>1, <2>1
<1>5. ASSUME NEW a \in Acts, NEW ty \in Types, RegisterTable(a, ty)
      PROVE  /\ act[b].op.buf => registered'["buffers"]
             /\ act[b].op.file => registered'["files"]
             /\ act[b].op.fixed => ~unreg_pending'["files"]
  <2>1. /\ ~registered[ty] /\ unreg_pending' = unreg_pending
        /\ \E v : registered' = [registered EXCEPT ![ty] = v]
    BY <1>5 DEF RegisterTable
  <2> QED BY <1>0, <1>1, <2>1
<1>6. ASSUME NEW a \in Acts, UpdateRing(a) \/ UpdateFails(a)
      PROVE  UNCHANGED <<registered, unreg_pending>>
  BY <1>6 DEF UpdateRing, UpdateFails
<1> QED BY <1>1, <1>2, <1>3, <1>4, <1>5, <1>6, EngineKinds

\* What OpsAllowed says of one call.
OpAllowed(a) ==
  /\ act[a].op.buf => registered["buffers"] /\ a \in readers
  /\ act[a].op.file => registered["files"] /\ (act[a].op.fixed \/ a \in readers)
  /\ act[a].op.fixed => /\ act[a].op.file /\ ~unreg_pending["files"]
                        /\ \A b \in Acts : act[b].pc = "request" => act[b].ty # "files"

LEMMA OpsAllowedParts ==
  /\ OpsAllowed <=> \A a \in Acts : OpAllowed(a)
  /\ OpsAllowed' <=> \A a \in Acts : OpAllowed(a)'
BY DEF OpsAllowed, OpAllowed

LEMMA NoOpNeeds == ~NoOp.buf /\ ~NoOp.file /\ ~NoOp.fixed /\ Idle.op = NoOp /\ Idle.pc = "out"
BY DEF NoOp, Op, Idle

\* A step after which a call has the operation it had, or none, and no
\* unregistration of files has been requested.
LEMMA OpsKept ==
  ASSUME TypeOK, CallsAgree, OpsAllowed, [Next]_vars, NEW a \in Acts,
         \A b \in Acts : b # a => act'[b] = act[b],
         \A b \in Acts : b # a /\ b \in readers => b \in readers',
         \/ ~act'[a].op.buf /\ ~act'[a].op.file /\ ~act'[a].op.fixed
         \/ act'[a].op = act[a].op /\ readers' = readers,
         act'[a].pc # "request" \/ act'[a].ty # "files"
  PROVE  OpsAllowed' /\ \A b \in Acts : b # a => OpAllowed(b)'
<1>1. ASSUME NEW b \in Acts PROVE OpAllowed(b)'
  <2>1. /\ act[b].op.buf => registered'["buffers"]
        /\ act[b].op.file => registered'["files"]
        /\ act[b].op.fixed => ~unreg_pending'["files"]
    BY FlagsKept
  <2>2. OpAllowed(b)
    BY OpsAllowedParts
  <2>3. act[b].op.fixed => \A c \in Acts : act'[c].pc = "request" => act'[c].ty # "files"
    BY <2>2 DEF OpAllowed
  <2> QED BY <2>1, <2>2, <2>3 DEF OpAllowed
<1> QED BY <1>1, OpsAllowedParts

LEMMA OpsNext ==
  ASSUME TypeOK, CallsAgree, OpsAllowed, [Next]_vars
  PROVE  OpsAllowed'
<1>1. ASSUME NEW a \in Acts, Walks(a) PROVE OpsAllowed'
  BY <1>1, OpsKept, NoOpNeeds DEF Walks
<1>2. ASSUME NEW a \in Acts, UpdateCall(a) PROVE OpsAllowed'
  <2>1. /\ \A b \in Acts : b # a => act'[b] = act[b]
        /\ act'[a].pc = "update" /\ readers' = readers
        /\ ~act'[a].op.buf /\ ~act'[a].op.file /\ ~act'[a].op.fixed
    BY <1>2, CallEffect
  <2> QED BY <2>1, OpsKept
<1>3. ASSUME NEW a \in Acts, ProcessCompletion(a) PROVE OpsAllowed'
  <2>1. /\ \A b \in Acts : b # a => act'[b] = act[b]
        /\ act'[a].pc = "callback" /\ readers' = readers /\ act'[a].op = act[a].op
    BY <1>3, CallbackEffect
  <2> QED BY <2>1, OpsKept
<1>4. ASSUME NEW a \in Acts, UpdateLock(a) \/ UpdateRing(a) \/ UpdateFails(a)
      PROVE  OpsAllowed'
  <2>1. /\ \A b \in Acts : b # a => act'[b] = act[b]
        /\ readers' = readers
        /\ \/ act'[a] = Idle
           \/ act'[a].pc = "updating" /\ act'[a].op = act[a].op
    BY <1>4, UpdateEffect
  <2> QED BY <2>1, OpsKept, NoOpNeeds
<1>5. ASSUME NEW a \in Acts, UnregisterCall(a) PROVE OpsAllowed'
  <2>1. /\ \A b \in Acts : b # a => act'[b] = act[b]
        /\ act'[a].op = NoOp
        /\ act'[a].ty = "files" => ~FixedFileInProgress
        /\ UNCHANGED <<engine, readers>>
    BY <1>5, CallEffect
  <2>2. ASSUME NEW b \in Acts PROVE OpAllowed(b)'
    <3>1. OpAllowed(b)
      BY OpsAllowedParts
    <3>2. CASE b = a
      BY <2>1, <3>2, NoOpNeeds DEF OpAllowed
    <3>3. CASE b # a
      <4>1. act[b].op.fixed => act'[a].ty # "files"
        BY <2>1 DEF FixedFileInProgress
      <4> QED BY <2>1, <3>1, <3>3, <4>1 DEF OpAllowed, engine
    <3> QED BY <3>2, <3>3
  <2> QED BY <2>2, OpsAllowedParts
<1>6. ASSUME NEW a \in Acts, NEW op, NEW locked, Starts(a, op, locked) PROVE OpsAllowed'
  <2>1. /\ act'[a].pc = "begin" /\ act'[a].op = op
        /\ \A b \in Acts : b # a => act'[b] = act[b]
        /\ readers' = IF locked THEN readers \cup {a} ELSE readers
        /\ UNCHANGED engine
    BY <1>6, BeginEffect
  <2>2. ASSUME NEW b \in Acts, b # a PROVE OpAllowed(b)'
    <3>1. OpAllowed(b)
      BY OpsAllowedParts
    <3> QED BY <2>1, <2>2, <3>1 DEF OpAllowed, engine
  <2>3. OpAllowed(a)'
    <3>1. /\ op.buf => registered["buffers"] /\ locked
          /\ op.file => registered["files"] /\ (op.fixed \/ locked)
          /\ op.fixed => op.file /\ FixedFileAllowed
      BY <1>6 DEF Starts
    <3> QED BY <2>1, <3>1 DEF OpAllowed, FixedFileAllowed, engine
  <2> QED BY <2>2, <2>3, OpsAllowedParts
<1>7. CASE UNCHANGED <<act, readers, writer, unreg_pending, fatal>>
  <2>1. ASSUME NEW b \in Acts PROVE OpAllowed(b)'
    <3>1. /\ act[b].op.buf => registered'["buffers"]
          /\ act[b].op.file => registered'["files"]
      BY FlagsKept
    <3>2. OpAllowed(b)
      BY OpsAllowedParts
    <3> QED BY <1>7, <3>1, <3>2 DEF OpAllowed
  <2> QED BY <2>1, OpsAllowedParts
<1> QED BY <1>1, <1>2, <1>3, <1>4, <1>5, <1>6, <1>7, CallKinds
-----------------------------------------------------------------------------
(* aura_update_file *)

\* The parts of UpdatesAgree.
WriterUpdates  == writer \in Acts => act[writer].pc = "updating"
BuffersAgree   == \A r \in Rings : kernel[r]["buffers"] = table["buffers"]
FilesAgree     == \A r \in Rings : kernel[r]["files"] = table["files"] \/ fatal
UpdateReady(a) == act[a].pc = "update" => act[a].ring = 1 /\ act[a].op.fd \in Fds
UpdateRuns(a)  ==
  act[a].pc = "updating" =>
    /\ writer = a /\ registered["files"] /\ act[a].op.fd \in Fds
    /\ \A r \in Rings : /\ r < act[a].ring => kernel[r]["files"] = act[a].op.fd
                        /\ ~(r < act[a].ring) => kernel[r]["files"] = table["files"] \/ fatal

LEMMA UpdatesParts ==
  /\ UpdatesAgree <=> /\ WriterUpdates /\ BuffersAgree
                      /\ \A a \in Acts : UpdateReady(a) /\ UpdateRuns(a)
  /\ UpdatesAgree' <=> /\ WriterUpdates' /\ BuffersAgree'
                       /\ \A a \in Acts : UpdateReady(a)' /\ UpdateRuns(a)'
  /\ BuffersAgree => (RingsAgree <=> (writer = NoAct => FilesAgree))
  /\ BuffersAgree' => (RingsAgree' <=> (writer' = NoAct => FilesAgree'))
<1>1. /\ UpdatesAgree <=> /\ WriterUpdates /\ BuffersAgree
                          /\ \A a \in Acts : UpdateReady(a) /\ UpdateRuns(a)
      /\ UpdatesAgree' <=> /\ WriterUpdates' /\ BuffersAgree'
                           /\ \A a \in Acts : UpdateReady(a)' /\ UpdateRuns(a)'
  BY DEF UpdatesAgree, WriterUpdates, BuffersAgree, UpdateReady, UpdateRuns
<1>2. "files" \in Types /\ "buffers" \in Types
      /\ \A ty \in Types : ty = "files" \/ ty = "buffers"
  BY DEF Types
<1>3. /\ BuffersAgree => (RingsAgree <=> (writer = NoAct => FilesAgree))
      /\ BuffersAgree' => (RingsAgree' <=> (writer' = NoAct => FilesAgree'))
  BY <1>2 DEF BuffersAgree, RingsAgree, FilesAgree
<1> QED BY <1>1, <1>3

\* Without a writer no update runs.
LEMMA NobodyUpdates ==
  ASSUME UpdatesAgree, writer = NoAct, NEW b \in Acts
  PROVE  act[b].pc # "updating"
BY RegistrationConstants DEF UpdatesAgree

\* The tables are left alone, and one call at most moves, which is no update
\* in progress.
LEMMA UpdatesStill ==
  ASSUME UpdatesAgree, RingsAgree, NEW a \in Acts,
         UNCHANGED <<registered, table, fatal, kernel, writer>>,
         \A b \in Acts : b # a => act'[b] = act[b],
         act[a].pc # "updating", act'[a].pc # "updating", UpdateReady(a)'
  PROVE  UpdatesAgree' /\ RingsAgree'
<1>1. /\ WriterUpdates /\ BuffersAgree /\ (writer = NoAct => FilesAgree)
      /\ \A b \in Acts : UpdateReady(b) /\ UpdateRuns(b)
  BY UpdatesParts
<1>2. WriterUpdates'
  BY <1>1 DEF WriterUpdates
<1>3. BuffersAgree' /\ (writer' = NoAct => FilesAgree')
  BY <1>1 DEF BuffersAgree, FilesAgree
<1>4. \A b \in Acts : UpdateReady(b)' /\ UpdateRuns(b)'
  BY <1>1 DEF UpdateReady, UpdateRuns
<1> QED BY <1>2, <1>3, <1>4, UpdatesParts

\* Both tables of every ring change together, while nobody has the lock.
LEMMA UpdatesTogether ==
  ASSUME UpdatesAgree, writer = NoAct, writer' = NoAct, BuffersAgree', FilesAgree',
         \A b \in Acts : act'[b].pc # "updating" /\ UpdateReady(b)'
  PROVE  UpdatesAgree' /\ RingsAgree'
<1>1. WriterUpdates' /\ \A b \in Acts : UpdateReady(b)' /\ UpdateRuns(b)'
  BY RegistrationConstants DEF WriterUpdates, UpdateRuns
<1> QED BY <1>1, UpdatesParts

LEMMA UpdateLockStep ==
  ASSUME TypeOK, UpdatesAgree, RingsAgree, NEW a \in Acts, UpdateLock(a)
  PROVE  UpdatesAgree' /\ RingsAgree'
<1>1. /\ WriterUpdates /\ BuffersAgree /\ (writer = NoAct => FilesAgree)
      /\ \A b \in Acts : UpdateReady(b) /\ UpdateRuns(b)
  BY UpdatesParts
<1>2. /\ act[a].pc = "update" /\ writer = NoAct
      /\ UNCHANGED <<registered, table, fatal, kernel>>
  BY DEF UpdateLock, WrFree, engine
<1>3. /\ \A b \in Acts : b # a => act'[b] = act[b]
      /\ \/ act'[a] = Idle /\ Return(a)
         \/ /\ act'[a].pc = "updating" /\ act'[a].op = act[a].op
            /\ act'[a].ring = act[a].ring
            /\ registered["files"] /\ writer' = a
  BY <1>2, UpdateEffect DEF UpdateRing
<1>4. CASE writer' = writer /\ act'[a] = Idle
  BY <1>2, <1>3, <1>4, NoOpNeeds, UpdatesStill DEF UpdateReady
<1>5. CASE /\ act'[a].pc = "updating" /\ act'[a].op = act[a].op
           /\ act'[a].ring = act[a].ring
           /\ registered["files"] /\ writer' = a
  <2>1. act[a].ring = 1 /\ act[a].op.fd \in Fds /\ FilesAgree
    BY <1>1, <1>2 DEF UpdateReady
  <2>2. \A r \in Rings : ~(r < 1)
    BY DEF Rings
  <2>3. UpdateReady(a)' /\ UpdateRuns(a)'
    BY <1>2, <1>5, <2>1, <2>2 DEF UpdateReady, UpdateRuns, FilesAgree
  <2>4. ASSUME NEW b \in Acts, b # a PROVE UpdateReady(b)' /\ UpdateRuns(b)'
    <3>1. act[b].pc # "updating"
      BY <1>2, NobodyUpdates
    <3> QED BY <1>1, <1>3, <2>4, <3>1 DEF UpdateReady, UpdateRuns
  <2>5. WriterUpdates' /\ BuffersAgree'
    BY <1>1, <1>2, <1>5 DEF WriterUpdates, BuffersAgree
  <2>6. writer' # NoAct
    BY <1>5, RegistrationConstants
  <2> QED BY <2>3, <2>4, <2>5, <2>6, UpdatesParts
<1> QED
  <2>1. CASE writer' = writer
    BY <1>2, <1>3, <1>4, <1>5, <2>1
  <2>2. CASE writer' = a /\ Goto(a, "updating")
    <3>1. "updating" \in Pcs
      BY DEF Pcs
    <3>2. act'[a].pc = "updating"
      <4>1. act[a] \in Activations
        BY DEF TypeOK
      <4>2. act'[a] = [act[a] EXCEPT !.pc = "updating"]
        BY <2>2, <3>1, Moves
      <4> QED BY <4>1, <4>2 DEF Activations
    <3> QED BY <1>3, <1>5, <3>2, NoOpNeeds
  <2> QED BY <2>1, <2>2 DEF UpdateLock

LEMMA UpdateRingStep ==
  ASSUME TypeOK, UpdatesAgree, RingsAgree, NEW a \in Acts, UpdateRing(a)
  PROVE  UpdatesAgree' /\ RingsAgree'
<1>1. /\ BuffersAgree /\ \A b \in Acts : UpdateReady(b) /\ UpdateRuns(b)
  BY UpdatesParts
<1>2. /\ act[a].pc = "updating" /\ UNCHANGED <<registered, fatal>>
  BY DEF UpdateRing
<1>3. /\ writer = a /\ registered["files"] /\ act[a].op.fd \in Fds
      /\ \A r \in Rings :
           /\ r < act[a].ring => kernel[r]["files"] = act[a].op.fd
           /\ ~(r < act[a].ring) => kernel[r]["files"] = table["files"] \/ fatal
  BY <1>1, <1>2 DEF UpdateRuns
<1>4. /\ act[a].ring \in Rings /\ act[a].ring \in Nat /\ NRings \in Nat
      /\ \A r \in Rings : r \in Nat /\ r <= NRings
      /\ kernel \in [Rings -> Tables] /\ table \in Tables
      /\ "files" \in Types /\ "buffers" \in Types /\ "files" # "buffers"
  BY RegistrationConstants DEF TypeOK, Activations, Rings, Types
<1>5. \A r \in Rings :
        /\ kernel'[r]["files"] = IF r = act[a].ring THEN act[a].op.fd ELSE kernel[r]["files"]
        /\ kernel'[r]["buffers"] = kernel[r]["buffers"]
  BY <1>4 DEF UpdateRing, Tables
<1>6. \A b \in Acts : b # a => act'[b] = act[b] /\ act[b].pc # "updating"
  BY <1>1, <1>3, UpdateEffect DEF UpdateRuns
<1>7. CASE act[a].ring < NRings
  <2>1. /\ writer' = writer /\ table' = table
        /\ ~Return(a)
    <3>1. act' = [act EXCEPT ![a].ring = act[a].ring + 1]
      BY <1>7 DEF UpdateRing
    <3>2. act \in [Acts -> Activations] /\ act[a] \in Activations
      BY DEF TypeOK
    <3>3. act'[a].pc = "updating"
      BY <1>2, <3>1, <3>2 DEF Activations
    <3>4. ~Return(a)
      BY <3>3, Moves, NoOpNeeds
    <3> QED BY <1>7, <3>4 DEF UpdateRing
  <2>2. /\ act'[a].pc = "updating" /\ act'[a].op = act[a].op
        /\ act'[a].ring = act[a].ring + 1
    BY <1>2, <2>1, UpdateEffect DEF UpdateLock
  <2>3. \A r \in Rings : /\ r < act[a].ring + 1 => r < act[a].ring \/ r = act[a].ring
                         /\ ~(r < act[a].ring + 1) => ~(r < act[a].ring) /\ r # act[a].ring
    BY <1>4
  <2>4. UpdateReady(a)' /\ UpdateRuns(a)'
    BY <1>2, <1>3, <1>5, <2>1, <2>2, <2>3 DEF UpdateReady, UpdateRuns
  <2>5. \A b \in Acts : b # a => UpdateReady(b)' /\ UpdateRuns(b)'
    BY <1>1, <1>6 DEF UpdateReady, UpdateRuns
  <2>6. WriterUpdates' /\ BuffersAgree' /\ writer' # NoAct
    BY <1>1, <1>3, <1>5, <2>1, <2>2, RegistrationConstants DEF WriterUpdates, BuffersAgree
  <2> QED BY <2>4, <2>5, <2>6, UpdatesParts
<1>8. CASE ~(act[a].ring < NRings)
  <2>1. /\ table' = [table EXCEPT !["files"] = act[a].op.fd]
        /\ writer' = NoAct /\ act'[a] = Idle
    <3>1. Return(a) /\ writer' = NoAct /\ table' = [table EXCEPT !["files"] = act[a].op.fd]
      BY <1>8 DEF UpdateRing
    <3> QED BY <3>1, Moves
  <2>2. table'["files"] = act[a].op.fd /\ table'["buffers"] = table["buffers"]
    BY <1>4, <2>1 DEF Tables
  <2>3. \A r \in Rings : r < act[a].ring \/ r = act[a].ring
    BY <1>4, <1>8
  <2>4. FilesAgree' /\ BuffersAgree'
    BY <1>1, <1>3, <1>5, <2>2, <2>3 DEF FilesAgree, BuffersAgree
  <2>5. \A b \in Acts : UpdateReady(b)' /\ UpdateRuns(b)'
    BY <1>1, <1>6, <2>1, NoOpNeeds DEF UpdateReady, UpdateRuns
  <2>6. WriterUpdates'
    BY <2>1, RegistrationConstants DEF WriterUpdates
  <2> QED BY <2>4, <2>5, <2>6, UpdatesParts
<1> QED BY <1>7, <1>8

LEMMA UpdateFailsStep ==
  ASSUME TypeOK, UpdatesAgree, RingsAgree, NEW a \in Acts, UpdateFails(a)
  PROVE  UpdatesAgree' /\ RingsAgree'
<1>1. /\ BuffersAgree /\ \A b \in Acts : UpdateReady(b) /\ UpdateRuns(b)
  BY UpdatesParts
<1>2. /\ act[a].pc = "updating" /\ writer' = NoAct /\ Return(a)
      /\ UNCHANGED <<registered, table>>
  BY DEF UpdateFails
<1>3. /\ writer = a
      /\ \A r \in Rings : ~(r < act[a].ring) => kernel[r]["files"] = table["files"] \/ fatal
  BY <1>1, <1>2 DEF UpdateRuns
<1>4. PICK failed \in SUBSET (1 .. act[a].ring - 1) :
        /\ kernel' = [r \in Rings |-> [kernel[r] EXCEPT !["files"] =
             IF r < act[a].ring /\ r \notin failed THEN table["files"] ELSE kernel[r]["files"]]]
        /\ fatal' = (fatal \/ failed # {})
  BY DEF UpdateFails
<1>5. /\ kernel \in [Rings -> Tables]
      /\ "files" \in Types /\ "buffers" \in Types /\ "files" # "buffers"
  BY DEF TypeOK, Types
<1>6. \A r \in Rings :
        /\ kernel'[r]["files"] = IF r < act[a].ring /\ r \notin failed
                                 THEN table["files"] ELSE kernel[r]["files"]
        /\ kernel'[r]["buffers"] = kernel[r]["buffers"]
  BY <1>4, <1>5 DEF Tables
<1>7. FilesAgree' /\ BuffersAgree'
  BY <1>1, <1>2, <1>3, <1>4, <1>6 DEF FilesAgree, BuffersAgree
<1>8. /\ \A b \in Acts : b # a => act'[b] = act[b] /\ act[b].pc # "updating"
      /\ act'[a] = Idle
  <2>1. act'[a] = Idle /\ \A b \in Acts : b # a => act'[b] = act[b]
    BY <1>2, Moves
  <2> QED BY <1>1, <1>3, <2>1 DEF UpdateRuns
<1>9. \A b \in Acts : UpdateReady(b)' /\ UpdateRuns(b)'
  BY <1>1, <1>8, NoOpNeeds DEF UpdateReady, UpdateRuns
<1>10. WriterUpdates'
  BY <1>2, RegistrationConstants DEF WriterUpdates
<1> QED BY <1>7, <1>9, <1>10, UpdatesParts

LEMMA FinalizeStep ==
  ASSUME TypeOK, UpdatesAgree, RingsAgree, NEW a \in Acts, FinalizeUnregistration(a)
  PROVE  UpdatesAgree' /\ RingsAgree'
<1>1. /\ BuffersAgree /\ (writer = NoAct => FilesAgree)
      /\ \A b \in Acts : UpdateReady(b) /\ UpdateRuns(b)
  BY UpdatesParts
<1>2. writer = NoAct /\ writer' = NoAct /\ fatal' = fatal
  BY DEF FinalizeUnregistration, WrFree
<1>3. \A r \in Rings, ty \in Types :
        /\ table'[ty] = IF Final(ty) THEN NoTable ELSE table[ty]
        /\ kernel'[r][ty] = IF Final(ty) THEN NoTable ELSE kernel[r][ty]
  BY DEF FinalizeUnregistration
<1>4. BuffersAgree' /\ FilesAgree'
  <2>1. "files" \in Types /\ "buffers" \in Types
    BY DEF Types
  <2> QED BY <1>1, <1>2, <1>3, <2>1 DEF BuffersAgree, FilesAgree
<1>5. ASSUME NEW b \in Acts PROVE act'[b].pc # "updating" /\ UpdateReady(b)'
  <2>1. Walks(a) /\ act[b].pc # "updating"
    BY <1>2, WalkKinds, NobodyUpdates
  <2> QED BY <1>1, <2>1, NoOpNeeds DEF Walks, UpdateReady
<1> QED BY <1>2, <1>4, <1>5, UpdatesTogether

LEMMA RegisterStep ==
  ASSUME TypeOK, UpdatesAgree, RingsAgree, NEW a \in Acts, NEW ty \in Types,
         RegisterTable(a, ty)
  PROVE  UpdatesAgree' /\ RingsAgree'
<1>1. /\ BuffersAgree /\ (writer = NoAct => FilesAgree)
      /\ \A b \in Acts : UpdateReady(b) /\ UpdateRuns(b)
  BY UpdatesParts
<1>2. writer = NoAct /\ writer' = NoAct /\ fatal' = fatal /\ act' = act
  BY DEF RegisterTable, WrFree
<1>3. table \in Tables /\ kernel \in [Rings -> Tables] /\ "files" \in Types /\ "buffers" \in Types
  BY DEF TypeOK, Types
<1>4. PICK c : /\ kernel' = [r \in Rings |-> [kernel[r] EXCEPT ![ty] = c]]
               /\ table' = [table EXCEPT ![ty] = c]
  BY ZenonT(40) DEF RegisterTable
<1>5. \A r \in Rings, x \in Types :
        /\ table'[x] = IF x = ty THEN c ELSE table[x]
        /\ kernel'[r][x] = IF x = ty THEN c ELSE kernel[r][x]
  BY <1>3, <1>4 DEF Tables
<1>6. BuffersAgree' /\ FilesAgree'
  BY <1>1, <1>2, <1>3, <1>5 DEF BuffersAgree, FilesAgree
<1>7. ASSUME NEW b \in Acts PROVE act'[b].pc # "updating" /\ UpdateReady(b)'
  <2>1. act[b].pc # "updating"
    BY <1>2, NobodyUpdates
  <2> QED BY <1>1, <1>2, <2>1 DEF UpdateReady
<1> QED BY <1>2, <1>6, <1>7, UpdatesTogether

LEMMA UpdatesNext ==
  ASSUME TypeOK, CallsAgree, UpdatesAgree, RingsAgree, [Next]_vars
  PROVE  UpdatesAgree' /\ RingsAgree'
<1>1. ASSUME NEW a \in Acts, Walks(a), UNCHANGED <<registered, table, fatal, kernel>>
      PROVE  UpdatesAgree' /\ RingsAgree'
  BY <1>1, UpdatesStill, NoOpNeeds DEF Walks, UpdateReady
<1>2. ASSUME NEW a \in Acts, RequestUnregister(a) PROVE UpdatesAgree' /\ RingsAgree'
  BY <1>1, <1>2, WalkKinds DEF RequestUnregister
<1>3. CASE UNCHANGED <<engine, kernel>>
  <2>0. UNCHANGED <<registered, table, fatal, kernel>>
    BY <1>3 DEF engine
  <2>1. ASSUME NEW a \in Acts, UnregisterCall(a) \/ UpdateCall(a)
        PROVE  UpdatesAgree' /\ RingsAgree'
    <3>1. act[a].pc = "out"
      BY <2>1 DEF UnregisterCall, UpdateCall, MayCall
    <3>2. /\ \A b \in Acts : b # a => act'[b] = act[b]
          /\ act'[a].pc = "request" \/ (/\ act'[a].pc = "update" /\ act'[a].ring = 1
                                        /\ act'[a].op.fd \in Fds)
          /\ writer' = writer
      BY <2>1, CallEffect
    <3> QED BY <2>0, <3>1, <3>2, UpdatesStill DEF UpdateReady
  <2>2. ASSUME NEW a \in Acts, ProcessCompletion(a) PROVE UpdatesAgree' /\ RingsAgree'
    <3>1. /\ \A b \in Acts : b # a => act'[b] = act[b]
          /\ act[a].pc = "drain" /\ act'[a].pc = "callback" /\ writer' = writer
      BY <2>2, CallbackEffect
    <3> QED BY <2>0, <3>1, UpdatesStill DEF UpdateReady
  <2>3. ASSUME NEW a \in Acts, NEW op, NEW locked, Starts(a, op, locked)
        PROVE  UpdatesAgree' /\ RingsAgree'
    <3>1. /\ \A b \in Acts : b # a => act'[b] = act[b]
          /\ act[a].pc = "out" /\ act'[a].pc = "begin" /\ writer' = writer
      BY <2>3, BeginEffect DEF Starts, MayCall
    <3> QED BY <2>0, <3>1, UpdatesStill DEF UpdateReady
  <2>4. CASE UNCHANGED <<act, readers, writer, unreg_pending, fatal>>
    <3>1. \A b \in Acts : UpdateReady(b)' /\ UpdateRuns(b)'
      BY <2>0, <2>4, UpdatesParts DEF UpdateReady, UpdateRuns
    <3>2. WriterUpdates' /\ BuffersAgree' /\ (writer' = NoAct => FilesAgree')
      BY <2>0, <2>4, UpdatesParts DEF WriterUpdates, BuffersAgree, FilesAgree
    <3> QED BY <3>1, <3>2, UpdatesParts
  <2> QED BY <1>1, <2>0, <2>1, <2>2, <2>3, <2>4, CallKinds, UpdateLockStep,
             UpdateRingStep, UpdateFailsStep
<1> QED BY <1>2, <1>3, EngineKinds, FinalizeStep, RegisterStep, UpdateRingStep,
           UpdateFailsStep

LEMMA LockTypes ==
  ASSUME TypeOK, CallsAgree, [Next]_vars
  PROVE  readers' \subseteq Acts /\ writer' \in Acts \cup {NoAct}
<1>0. readers \subseteq Acts /\ writer \in Acts \cup {NoAct}
  BY DEF TypeOK
<1>1. ASSUME NEW a \in Acts, Walks(a)
      PROVE  readers' \subseteq Acts /\ writer' \in Acts \cup {NoAct}
  BY <1>0, <1>1 DEF Walks
<1>2. ASSUME NEW a \in Acts, UnregisterCall(a) \/ UpdateCall(a)
      PROVE  UNCHANGED <<readers, writer>>
  BY <1>2 DEF UnregisterCall, UpdateCall
<1>3. ASSUME NEW a \in Acts, ProcessCompletion(a) PROVE UNCHANGED <<readers, writer>>
  BY <1>3 DEF ProcessCompletion
<1>4. ASSUME NEW a \in Acts, UpdateLock(a) \/ UpdateRing(a) \/ UpdateFails(a)
      PROVE  readers' = readers /\ writer' \in {writer, a, NoAct}
  BY <1>4 DEF UpdateLock, UpdateRing, UpdateFails
<1>5. ASSUME NEW a \in Acts, NEW op, NEW locked, Starts(a, op, locked)
      PROVE  readers' \subseteq Acts /\ writer' \in Acts \cup {NoAct}
  BY <1>0, <1>5, BeginEffect
<1>6. CASE UNCHANGED <<act, readers, writer, unreg_pending, fatal>>
  BY <1>0, <1>6
<1> QED BY <1>0, <1>1, <1>2, <1>3, <1>4, <1>5, <1>6, CallKinds
-----------------------------------------------------------------------------
(* The inductive invariant *)

LEMMA UseNext ==
  ASSUME TypeOK, InflightExact, TablesAgree, OpsAllowed, CallsAgree, UpdatesAgree,
         TableOutlivesUse, [Next]_vars
  PROVE  TableOutlivesUse'
<1>1. TablesAgree' /\ RequestsKept
  BY TablesNext, RequestsNext
<1>2. ASSUME NEW x \in Slots, NEW ty \in Types, Counts(x, ty)'
      PROVE  registered'[ty]
  <2>1. CASE Counts(x, ty)
    <3>0. registered[ty] /\ x[1] \in Rings
      BY <2>1 DEF TableOutlivesUse, Counts, Slots
    <3>1. CASE UNCHANGED <<engine, kernel>>
      BY <3>0, <3>1 DEF engine
    <3>2. ASSUME NEW a \in Acts, FinalizeUnregistration(a) PROVE registered'[ty]
      <4>1. inflight[ty][x[1]] = Cardinality(Users(ty, x[1])) /\ x \in Users(ty, x[1])
        BY <2>1, <3>0, UsersValue DEF InflightExact
      <4>2. inflight[ty][x[1]] # 0
        BY <3>0, <4>1, UsersFinite, FS_EmptySet
      <4>3. ~Final(ty)
        BY <3>0, <4>2 DEF Final, Drained
      <4> QED BY <3>0, <3>2, <4>3 DEF FinalizeUnregistration
    <3>3. ASSUME NEW a \in Acts, RequestUnregister(a) \/ UpdateRing(a) \/ UpdateFails(a)
          PROVE  registered'[ty]
      BY <3>0, <3>3 DEF RequestUnregister, UpdateRing, UpdateFails
    <3>4. ASSUME NEW a \in Acts, NEW y \in Types, RegisterTable(a, y) PROVE registered'[ty]
      <4>1. ~registered[y] /\ \E v : registered' = [registered EXCEPT ![y] = v]
        BY <3>4 DEF RegisterTable
      <4> QED BY <3>0, <4>1 DEF TypeOK
    <3> QED BY <3>1, <3>2, <3>3, <3>4, EngineKinds
  <2>2. ASSUME NEW a \in Acts, ty = "buffers" => act[a].op.buf,
               ty = "files" => act[a].op.file
        PROVE  registered'[ty]
    BY <2>2, FlagsKept DEF Types
  <2> QED BY <1>1, <1>2, <2>1, <2>2 DEF RequestsKept
<1>3. ASSUME NEW x \in Slots, NEW ty \in Types, Counts(x, ty)'
      PROVE  registered'[ty] /\ table'[ty] # NoTable /\ kernel'[x[1]][ty] # NoTable
  <2>1. x[1] \in Rings
    BY DEF Slots
  <2> QED BY <1>1, <1>2, <1>3, <2>1 DEF TablesAgree
<1> QED BY <1>3 DEF TableOutlivesUse, Counts

LEMMA RegInit == Init => RegStrong
<1> SUFFICES ASSUME Init PROVE RegStrong
  OBVIOUS
<1> USE RegistrationConstants
<1>0. /\ \A s \in Slots : req[s] = FreeRequest
      /\ \A a \in Acts : act[a] = Idle
      /\ \A ty \in Types : ~registered[ty] /\ ~unreg_pending[ty] /\ table[ty] = NoTable
      /\ \A ty \in Types, r \in Rings : kernel[r][ty] = NoTable /\ inflight[ty][r] = 0
      /\ writer = NoAct /\ readers = {}
  BY DEF Init
<1>1. TypeOK
  <2>1. [ty \in Types |-> NoTable] \in Tables
    BY DEF Tables
  <2> QED BY <2>1, IdleType DEF Init, TypeOK
<1>2. InflightExact
  <2>1. \A ty \in Types, r \in Rings : Users(ty, r) = {}
    BY <1>0 DEF Users, FreeRequest, Submitted
  <2> QED BY <1>0, <2>1, FS_EmptySet DEF InflightExact
<1>3. TablesAgree
  BY <1>0 DEF TablesAgree
<1>4. OpsAllowed /\ CallsAgree
  BY <1>0, NoOpNeeds DEF OpsAllowed, CallsAgree
<1>5. UpdatesAgree /\ RingsAgree
  BY <1>0, NoOpNeeds DEF UpdatesAgree, RingsAgree, Types
<1>6. TableOutlivesUse
  BY <1>0 DEF TableOutlivesUse, FreeRequest, Submitted
<1> QED BY <1>1, <1>2, <1>3, <1>4, <1>5, <1>6 DEF RegStrong

LEMMA RegStep == RegStrong /\ [Next]_vars => RegStrong'
<1> SUFFICES ASSUME RegStrong, [Next]_vars PROVE RegStrong'
  OBVIOUS
<1>1. /\ TypeOK /\ InflightExact /\ TablesAgree /\ OpsAllowed /\ CallsAgree
      /\ UpdatesAgree /\ TableOutlivesUse /\ RingsAgree
  BY DEF RegStrong
<1>2. RequestsKept /\ CallsAgree' /\ act' \in [Acts -> Activations]
  BY <1>1, RequestsNext, CallsNext
<1>3. EngineTypes' /\ TablesAgree'
  BY <1>1, TablesNext
<1>4. readers' \subseteq Acts /\ writer' \in Acts \cup {NoAct}
  BY <1>1, LockTypes
<1>5. TypeOK'
  BY <1>2, <1>3, <1>4 DEF TypeOK, EngineTypes, RequestsKept
<1>6. OpsAllowed' /\ UpdatesAgree' /\ RingsAgree' /\ TableOutlivesUse'
  BY <1>1, OpsNext, UpdatesNext, UseNext
<1> QED BY <1>2, <1>3, <1>5, <1>6 DEF RegStrong, RequestsKept

\* The inductive invariant of registration holds in every reachable state.
THEOREM RegistrationInvariant == Spec => []RegStrong
BY RegInit, RegStep, PTL DEF Spec

\* The types of registration; the unsigned in-flight counters never pass zero.
THEOREM RegistrationTypes == Spec => []TypeOK
<1>1. RegStrong => TypeOK
  BY DEF RegStrong
<1> QED BY <1>1, RegistrationInvariant, PTL

\* No table is unregistered or freed while an operation that uses it is on its
\* way, for any number of rings and threads.
THEOREM TablesOutliveUse == Spec => []TableOutlivesUse
<1>1. RegStrong => TableOutlivesUse
  BY DEF RegStrong
<1> QED BY <1>1, RegistrationInvariant, PTL

\* Outside an update every ring has the engine's tables, unless a rollback has
\* failed and latched the fatal error.
THEOREM RingTablesAgree == Spec => []RingsAgree
<1>1. RegStrong => RingsAgree
  BY DEF RegStrong
<1> QED BY <1>1, RegistrationInvariant, PTL
=============================================================================
