----------------------------- MODULE CppEngine -----------------------------
(***************************************************************************)
(* The C++ interface: aura::Engine and the pool of callback contexts.      *)
(*                                                                         *)
(* submit_io takes a CallbackContext from the shard of the calling thread, *)
(* stores the callback and a closure that will release the context, and    *)
(* passes it to the C library; the trampoline, on whatever thread runs     *)
(* completions, calls the callback and then the closure. A shard is an     *)
(* array that doubles, threaded by a free list. The destructor marks the   *)
(* engine dead for its Buffers, destroys the C engine (which drains), and  *)
(* drops the pool.                                                         *)
(*                                                                         *)
(* A step is one mutex section, or what runs between two of them. A        *)
(* callback that submits is a submission while its operation runs.         *)
(***************************************************************************)
EXTENDS Integers, FiniteSets

CONSTANTS
  Ops,          \* the operations submitted, each once
  Shards,       \* the shards of the pool that threads hash to (8 in the code)
  InitialSize,  \* contexts of a new shard: 16 in the code, at least 2 here, as
                \* grow_shard puts the free list past an array of one
  Buffers,      \* the Buffer objects
  OtherThreads, \* whether a Buffer may die on a thread that knows nothing of
                \* the engine's destructor
  None

InUse == -2    \* kCallbackInUse
End == -1      \* the end of a free list

VARIABLES
  contexts,   \* the contexts of each shard, by index
  free_head,  \* the head of each shard's free list
  op,         \* where each operation is
  ctx,        \* its context, as <<shard, index>>
  ran,        \* the callback the trampoline called for it
  alive,      \* *engine_alive_
  handle,     \* the C engine: "none", "live", "destroying" or "gone"
  pool,       \* "none", "live" or "gone"
  buffer      \* where each Buffer is

vars == <<contexts, free_head, op, ctx, ran, alive, handle, pool, buffer>>
engine == <<alive, handle, pool>>

Empty == [next |-> InUse, callback |-> None, on_complete |-> FALSE]
\* init_shard and the loop of grow_shard: fresh contexts in a chain.
Chained(a, b) == [k \in a .. b - 1 |->
                    [Empty EXCEPT !.next = IF k = b - 1 THEN End ELSE k + 1]]
ContextOf(o) == contexts[ctx[o][1]][ctx[o][2]]

Init ==
  /\ contexts = [s \in Shards |-> Chained(0, InitialSize)]
  /\ free_head = [s \in Shards |-> 0]
  /\ op = [o \in Ops |-> "new"]
  /\ ctx = [o \in Ops |-> <<>>]
  /\ ran = [o \in Ops |-> None]
  /\ alive = FALSE /\ handle = "none" /\ pool = "none"
  /\ buffer = [b \in Buffers |-> "none"]

Goto(o, label) == op' = [op EXCEPT ![o] = label]

-----------------------------------------------------------------------------
(* Construction.                                                           *)

Construct ==
  /\ handle = "none"
  /\ handle' = "live" /\ alive' = TRUE /\ pool' = "live"
  /\ UNCHANGED <<contexts, free_head, op, ctx, ran, buffer>>

\* aura_create fails, or what follows throws and the handle is destroyed.
ConstructFails ==
  /\ handle = "none"
  /\ handle' = "gone" /\ pool' = "gone"
  /\ UNCHANGED <<contexts, free_head, op, ctx, ran, alive, buffer>>

-----------------------------------------------------------------------------
(* The pool.                                                               *)

\* An operation is submitted while the engine lives, and from a callback that
\* runs inside its destructor.
MaySubmit == \/ handle = "live"
             \/ handle = "destroying" /\ \E o \in Ops : op[o] = "running"

\* Fault: the head is read but not moved on.
Pop_Peek(s) ==
  /\ contexts' = [contexts EXCEPT ![s][free_head[s]].next = InUse]
  /\ UNCHANGED free_head

\* The head of the free list is handed out.
Pop(s) ==
  LET k == free_head[s]
  IN /\ free_head' = [free_head EXCEPT ![s] = contexts[s][k].next]
     /\ contexts' = [contexts EXCEPT ![s][k].next = InUse]

\* The first new context is handed out, the others are the free list.
GrowShard(s) ==
  LET n == Cardinality(DOMAIN contexts[s])
      grown == [Chained(n, 2 * n) EXCEPT ![n].next = InUse]
  IN /\ contexts' = [contexts EXCEPT ![s] =
           [k \in 0 .. 2 * n - 1 |-> IF k < n THEN @[k] ELSE grown[k]]]
     /\ free_head' = [free_head EXCEPT ![s] = n + 1]

\* CallbackPool::allocate, on the shard the calling thread hashes to.
Allocate(o, s) ==
  /\ op[o] = "new" /\ MaySubmit
  /\ IF free_head[s] >= 0
     THEN Pop(s) /\ ctx' = [ctx EXCEPT ![o] = <<s, free_head[s]>>]
     ELSE /\ GrowShard(s)
          /\ ctx' = [ctx EXCEPT ![o] = <<s, Cardinality(DOMAIN contexts[s])>>]
  /\ Goto(o, "allocated")
  /\ UNCHANGED <<ran, engine, buffer>>

\* CallbackPool::release: cleared and pushed, unless it is on the list already.
\* What the callback captured is destroyed after the section.
Release(o) ==
  LET s == ctx[o][1]  k == ctx[o][2]
  IN /\ op[o] \in {"cleanup", "undo"}
     /\ IF contexts[s][k].next = InUse
        THEN /\ contexts' = [contexts EXCEPT ![s][k] =
                               [Empty EXCEPT !.next = free_head[s]]]
             /\ free_head' = [free_head EXCEPT ![s] = k]
        ELSE UNCHANGED <<contexts, free_head>>
     /\ Goto(o, "done")
     /\ UNCHANGED <<ctx, ran, engine, buffer>>

-----------------------------------------------------------------------------
(* submit_io.                                                              *)

Fill(o) ==
  /\ op[o] = "allocated"
  /\ contexts' = [contexts EXCEPT ![ctx[o][1]][ctx[o][2]].callback = o,
                                  ![ctx[o][1]][ctx[o][2]].on_complete = TRUE]
  /\ Goto(o, "filled")
  /\ UNCHANGED <<free_head, ctx, ran, engine, buffer>>

\* Copying the callback throws: the context is released.
FillThrows(o) ==
  /\ op[o] = "allocated"
  /\ Goto(o, "undo")
  /\ UNCHANGED <<contexts, free_head, ctx, ran, engine, buffer>>

\* The C call takes the request; an engine in aura_destroy takes none.
Accepted(o) ==
  /\ op[o] = "filled" /\ handle = "live"
  /\ Goto(o, "pending")
  /\ UNCHANGED <<contexts, free_head, ctx, ran, engine, buffer>>

Refused(o) ==
  /\ op[o] = "filled"
  /\ Goto(o, "undo")
  /\ UNCHANGED <<contexts, free_head, ctx, ran, engine, buffer>>

Submitting == {o \in Ops : op[o] \in {"allocated", "filled", "undo"}}

-----------------------------------------------------------------------------
(* aura_detail_callback_trampoline.                                        *)

\* The callback in the context is called.
Invoke(o) ==
  /\ op[o] = "pending"
  /\ ran' = [ran EXCEPT ![o] = ContextOf(o).callback]
  /\ Goto(o, "running")
  /\ UNCHANGED <<contexts, free_head, ctx, engine, buffer>>

\* Fault: the closure is called where it is stored, and cleared afterwards.
Cleanup_ClearLast(o) ==
  LET s == ctx[o][1]  k == ctx[o][2]
  IN /\ \/ /\ op[o] = "running"
           /\ handle = "destroying" => Submitting = {}
           /\ contexts' = [contexts EXCEPT ![s][k] = [Empty EXCEPT !.next = free_head[s]]]
           /\ free_head' = [free_head EXCEPT ![s] = k]
           /\ Goto(o, "clear")
        \/ /\ op[o] = "clear"
           /\ contexts' = [contexts EXCEPT ![s][k].on_complete = FALSE]
           /\ Goto(o, "done")
           /\ UNCHANGED free_head
     /\ UNCHANGED <<ctx, ran, engine, buffer>>

\* The closure is moved out of the context before it is called: from its
\* release on, the context may be another operation's. A context without one
\* is left as it is. Inside the destructor the callback's own submissions end
\* before it returns.
Cleanup(o) ==
  /\ op[o] = "running"
  /\ handle = "destroying" => Submitting = {}
  /\ contexts' = [contexts EXCEPT ![ctx[o][1]][ctx[o][2]].on_complete = FALSE]
  /\ Goto(o, IF ContextOf(o).on_complete THEN "cleanup" ELSE "done")
  /\ UNCHANGED <<free_head, ctx, ran, engine, buffer>>

-----------------------------------------------------------------------------
(* Buffer.                                                                 *)

AllocateBuffer(b) ==
  /\ buffer[b] = "none" /\ handle = "live"
  /\ buffer' = [buffer EXCEPT ![b] = "owned"]
  /\ UNCHANGED <<contexts, free_head, op, ctx, ran, engine>>

\* Buffer::release_internal reads the flag ...
BufferLoad(b) ==
  /\ buffer[b] = "owned"
  /\ buffer' = [buffer EXCEPT ![b] = IF alive THEN "pool" ELSE "heap"]
  /\ UNCHANGED <<contexts, free_head, op, ctx, ran, engine>>

\* ... and frees through the engine, or to the heap.
BufferFree(b) ==
  /\ buffer[b] \in {"pool", "heap"}
  /\ buffer' = [buffer EXCEPT ![b] = "freed"]
  /\ UNCHANGED <<contexts, free_head, op, ctx, ran, engine>>

-----------------------------------------------------------------------------
(* ~Engine: destroy().                                                     *)

\* No thread is inside a method of the engine, and unless buffers die on other
\* threads, none is inside a Buffer's destructor.
Unused == /\ Submitting = {}
          /\ OtherThreads \/ \A b \in Buffers : buffer[b] # "pool"

\* Fault: the flag is left set.
DestroyBegin_Alive ==
  /\ handle = "live" /\ Unused
  /\ handle' = "destroying"
  /\ UNCHANGED <<contexts, free_head, op, ctx, ran, alive, pool, buffer>>

\* The flag is cleared before the C engine is touched.
DestroyBegin ==
  /\ handle = "live" /\ Unused
  /\ alive' = FALSE /\ handle' = "destroying"
  /\ UNCHANGED <<contexts, free_head, op, ctx, ran, pool, buffer>>

Settled == {"new", "done"}

\* Fault: the pool is dropped first.
DestroyEnd_PoolFirst ==
  /\ handle = "destroying"
  /\ \/ pool = "live" /\ pool' = "gone" /\ UNCHANGED handle
     \/ /\ pool = "gone" /\ \A o \in Ops : op[o] \in Settled
        /\ handle' = "gone" /\ UNCHANGED pool
  /\ UNCHANGED <<contexts, free_head, op, ctx, ran, alive, buffer>>

\* aura_destroy returns with every callback run; then the pool goes.
DestroyEnd ==
  /\ handle = "destroying" /\ \A o \in Ops : op[o] \in Settled
  /\ handle' = "gone" /\ pool' = "gone"
  /\ UNCHANGED <<contexts, free_head, op, ctx, ran, alive, buffer>>

-----------------------------------------------------------------------------
Next ==
  \/ Construct \/ ConstructFails \/ DestroyBegin \/ DestroyEnd
  \/ \E o \in Ops :
      \/ \E s \in Shards : Allocate(o, s)
      \/ Fill(o) \/ FillThrows(o) \/ Accepted(o) \/ Refused(o)
      \/ Invoke(o) \/ Cleanup(o) \/ Release(o)
  \/ \E b \in Buffers : AllocateBuffer(b) \/ BufferLoad(b) \/ BufferFree(b)

Spec == Init /\ [][Next]_vars

-----------------------------------------------------------------------------
\* The k-th context of a shard's free list, or a negative number past its end.
FreeAt(s) ==
  LET f[k \in Nat] == IF k = 0 THEN free_head[s]
                      ELSE IF f[k - 1] < 0 THEN End ELSE contexts[s][f[k - 1]].next
  IN [k \in 0 .. Cardinality(DOMAIN contexts[s]) |-> f[k]]

\* Type correctness.
TypeOK ==
  /\ \A s \in Shards :
      /\ contexts[s] \in [DOMAIN contexts[s] ->
           [next : InUse .. Cardinality(DOMAIN contexts[s]) - 1,
            callback : Ops \cup {None}, on_complete : BOOLEAN]]
      /\ free_head[s] \in {End} \cup DOMAIN contexts[s]
  /\ op \in [Ops -> {"new", "allocated", "filled", "undo", "pending",
                     "running", "cleanup", "done"}]
  /\ ran \in [Ops -> Ops \cup {None}]
  /\ alive \in BOOLEAN
  /\ handle \in {"none", "live", "destroying", "gone"}
  /\ pool \in {"none", "live", "gone"}
  /\ buffer \in [Buffers -> {"none", "owned", "pool", "heap", "freed"}]

\* The operations that hold a context of shard s, and which.
Holders(s) == {o \in Ops : op[o] \notin Settled /\ ctx[o][1] = s}
Used(s) == {ctx[o][2] : o \in Holders(s)}

\* Every context is either held by one operation or on its shard's free list,
\* once and cleared: none is lost, shared or released twice, through growth,
\* refused submissions and releases that race with allocations.
ContextsOwned ==
  \A s \in Shards :
    LET list == FreeAt(s)
        free == {k \in DOMAIN list : list[k] >= 0}
    IN /\ \A o, p \in Holders(s) : ctx[o][2] = ctx[p][2] => o = p
       /\ {list[k] : k \in free} = DOMAIN contexts[s] \ Used(s)
       /\ \A j, k \in free : list[j] = list[k] => j = k
       /\ \A k \in Used(s) : k \in DOMAIN contexts[s] /\ contexts[s][k].next = InUse
       /\ \A k \in DOMAIN contexts[s] \ Used(s) :
            contexts[s][k].callback = None /\ ~contexts[s][k].on_complete

\* The trampoline calls, for each operation, the callback given to submit_io.
CallbackIsOwn == \A o \in Ops : ran[o] \in {None, o}

\* Nothing is inside the pool when the destructor drops it, although callbacks
\* run and submit while aura_destroy drains.
PoolOutlivesOps == pool = "gone" => \A o \in Ops : op[o] \in Settled

\* A Buffer is never returned to an engine that is gone. With OtherThreads it
\* is: the flag is read before the engine's destructor and acted on after it,
\* although destroy() clears it first to prevent that.
BufferFreeSafe == \A b \in Buffers : buffer[b] = "pool" => handle # "gone"

\* What the interface promises. BufferFreeSafe needs that no Buffer dies on a
\* thread that knows nothing of the engine's destructor.
CppSafe ==
  /\ ContextsOwned /\ CallbackIsOwn /\ PoolOutlivesOps
  /\ OtherThreads \/ BufferFreeSafe

-----------------------------------------------------------------------------
(* The inductive invariant.                                                *)

CppConstants ==
  /\ InitialSize \in Nat /\ InitialSize >= 2
  /\ OtherThreads \in BOOLEAN
  /\ None \notin Ops

Contexts == [next : Int, callback : Ops \cup {None}, on_complete : BOOLEAN]

\* The m contexts q are the free list of shard s, in this order.
FreeList(s, m, q) ==
  /\ q \in [1 .. m -> DOMAIN contexts[s]]
  /\ \A i, j \in 1 .. m : q[i] = q[j] => i = j
  /\ free_head[s] = IF m = 0 THEN End ELSE q[1]
  /\ \A i \in 1 .. m : contexts[s][q[i]].next = IF i = m THEN End ELSE q[i + 1]
  /\ \A k \in DOMAIN contexts[s] : k \in Used(s) \/ \E i \in 1 .. m : q[i] = k
  /\ \A i \in 1 .. m : q[i] \notin Used(s)

\* A shard of n contexts, those nobody holds cleared and on its free list.
ShardSound(s) ==
  /\ \E n \in Nat : n >= 2 /\ contexts[s] \in [0 .. n - 1 -> Contexts]
  /\ \E m \in Nat : \E q \in [1 .. m -> DOMAIN contexts[s]] : FreeList(s, m, q)
  /\ \A k \in DOMAIN contexts[s] :
       k \in Used(s) \/ (contexts[s][k].callback = None /\ ~contexts[s][k].on_complete)

\* An operation under way has a context of its own, and from Fill to Cleanup
\* its callback and its closure are there.
HolderSound(o) ==
  /\ ctx[o][1] \in Shards /\ ctx[o][2] \in DOMAIN contexts[ctx[o][1]]
  /\ ContextOf(o).next = InUse
  /\ op[o] \in {"filled", "pending", "running"} =>
       ContextOf(o).callback = o /\ ContextOf(o).on_complete
  /\ \A p \in Ops : op[p] \notin Settled /\ ctx[p][1] = ctx[o][1] /\ ctx[p][2] = ctx[o][2] => p = o

\* The engine, its pool and its flag.
EngineSound ==
  /\ <<handle, pool>> \in {<<"none", "none">>, <<"live", "live">>,
                           <<"destroying", "live">>, <<"gone", "gone">>}
  /\ alive => handle = "live"
  /\ handle \in {"none", "gone"} => \A o \in Ops : op[o] \in Settled
  /\ \A b \in Buffers : buffer[b] = "pool" => OtherThreads \/ handle = "live"

CppInv ==
  /\ DOMAIN contexts = Shards /\ DOMAIN free_head = Shards
  /\ DOMAIN ctx = Ops /\ DOMAIN ran = Ops /\ DOMAIN buffer = Buffers
  /\ op \in [Ops -> {"new", "allocated", "filled", "undo", "pending",
                     "running", "cleanup", "done"}]
  /\ alive \in BOOLEAN
  /\ CallbackIsOwn
  /\ \A s \in Shards : ShardSound(s)
  /\ \A o \in Ops : op[o] \notin Settled => HolderSound(o)
  /\ EngineSound
=============================================================================
