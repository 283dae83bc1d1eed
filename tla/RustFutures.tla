---------------------------- MODULE RustFutures ----------------------------
(***************************************************************************)
(* The Rust interface: futures over the callback API.                      *)
(*                                                                         *)
(* async_read and its like box a CallbackContext, hand it to the C library *)
(* and return an IoFuture that shares a mutex-guarded IoState and a flag   *)
(* request_consumed with the callback. A task polls the future; the        *)
(* trampoline, on whatever thread runs completions, stores the result and  *)
(* wakes the task; dropping the future early cancels the request.          *)
(*                                                                         *)
(* A step is what one mutex section, one atomic access or one call into    *)
(* the library does. The C library is external: a request holds a slot     *)
(* from submission until its callback has returned, and is pending until   *)
(* its callback begins.                                                    *)
(***************************************************************************)
EXTENDS Integers, FiniteSets

CONSTANTS
  Ops,       \* the operations: each is one async_* call and its future;
             \* no poller has the name of one
  Slots,     \* the request slots of the engine
  Pollers,   \* the threads that call Engine::poll, wait, run and drain
  Wakers,    \* the tasks that may come to await a future, in turn
  Vectored,  \* the operations that are readv or writev
  None

\* The thread on which the last reference to the engine is dropped.
Destroyer == "destroyer"
\* The threads callbacks run on: a submission may process completions too.
Runners == Pollers \cup Ops \cup {Destroyer}

VARIABLES
  future,    \* where each operation's future is in its life
  result,    \* IoState.result
  waker,     \* IoState.waker
  consumed,  \* request_consumed
  context,   \* the boxed CallbackContext: "none", "live" (magic set), "freed"
  request,   \* IoFuture.request: the slot
  slot,      \* the operation a slot is held by
  pending,   \* aura_request.pending, by operation
  canceled,  \* the operations the kernel was asked to cancel
  callback,  \* where each operation's callback is, and what it carries
  task,      \* what the awaiting task does: "ready", "parked" or "done"
  current,   \* the waker of the task that awaits the future now
  output,    \* what the await returned
  handles,   \* the Engine itself is still held
  engine,    \* "live", "draining" (inside aura_destroy) or "gone"
  poll_lock  \* the holder of Engine::poll_lock

vars == <<future, result, waker, consumed, context, request, slot, pending,
          canceled, callback, task, current, output, handles, engine,
          poll_lock>>
state == <<result, waker>>
library == <<slot, pending, canceled>>
awaiting == <<task, current, output>>
shared == <<handles, engine, poll_lock>>

Results == {"ok", "error", "canceled"}
\* "called" is inside the library's submit function, "accepted" past it; "drop", "check" and
\* "recheck" are the three tests of IoFuture::drop, "cancel" its last call.
Phases == {"new", "called", "accepted", "held", "drop", "check", "recheck",
           "cancel", "gone"}
Alive == {"held", "drop", "check", "recheck", "cancel"}
Idle == [at |-> "none", on |-> None, res |-> None, waker |-> None]

\* Arc<EngineInner>: the Engine and every IoFuture hold one reference.
Referenced == handles \/ \E o \in Ops : future[o] \in Alive

Init ==
  /\ future = [o \in Ops |-> "new"]
  /\ result = [o \in Ops |-> None]
  /\ waker = [o \in Ops |-> None]
  /\ consumed = [o \in Ops |-> FALSE]
  /\ context = [o \in Ops |-> "none"]
  /\ request = [o \in Ops |-> None]
  /\ slot = [s \in Slots |-> None]
  /\ pending = [o \in Ops |-> FALSE]
  /\ canceled = {}
  /\ callback = [o \in Ops |-> Idle]
  /\ task = [o \in Ops |-> "ready"]
  /\ current \in {[o \in Ops |-> w] : w \in Wakers}
  /\ output = [o \in Ops |-> None]
  /\ handles = TRUE /\ engine = "live" /\ poll_lock = None

-----------------------------------------------------------------------------
(* Submission: AsyncEngine::async_*, submit_async, submit_with_callback.   *)

\* readv and writev refuse more iovecs than an i32 counts before anything is
\* made.
RefusedEarly(o) ==
  /\ future[o] = "new" /\ handles /\ o \in Vectored
  /\ future' = [future EXCEPT ![o] = "gone"]
  /\ UNCHANGED <<state, consumed, context, request, library, callback,
                 awaiting, shared>>

\* submit_with_callback boxes the context and calls the library.
Call(o) ==
  /\ future[o] = "new" /\ handles
  /\ future' = [future EXCEPT ![o] = "called"]
  /\ context' = [context EXCEPT ![o] = "live"]
  /\ UNCHANGED <<state, consumed, request, library, callback, awaiting, shared>>

\* The library has no callback of another request left to run on this thread.
Returning(o) == future[o] = "called" /\ \A p \in Ops : callback[p].on # o

\* The library takes the request: it is pending from here.
Accepted(o, s) ==
  /\ Returning(o) /\ slot[s] = None
  /\ future' = [future EXCEPT ![o] = "accepted"]
  /\ request' = [request EXCEPT ![o] = s]
  /\ slot' = [slot EXCEPT ![s] = o]
  /\ pending' = [pending EXCEPT ![o] = TRUE]
  /\ UNCHANGED <<state, consumed, context, canceled, callback, awaiting, shared>>

\* Fault: the refused context is left to the trampoline.
Refused_Kept(o) ==
  /\ Returning(o)
  /\ future' = [future EXCEPT ![o] = "gone"]
  /\ UNCHANGED <<state, consumed, context, request, library, callback, awaiting, shared>>

\* The library refuses (EAGAIN, ESHUTDOWN): drop_context takes the box back.
Refused(o) ==
  /\ Returning(o)
  /\ context' = [context EXCEPT ![o] = "freed"]
  /\ future' = [future EXCEPT ![o] = "gone"]
  /\ UNCHANGED <<state, consumed, request, library, callback, awaiting, shared>>

\* submit_async makes the future; the callback may have run before.
Submitted(o) ==
  /\ future[o] = "accepted"
  /\ future' = [future EXCEPT ![o] = "held"]
  /\ UNCHANGED <<state, consumed, context, request, library, callback,
                 awaiting, shared>>

-----------------------------------------------------------------------------
(* Completion: callback_trampoline and the closure of create_io_callback.  *)

\* A thread may run callbacks inside poll, wait, run or drain (under
\* poll_lock), inside a submission, and inside aura_destroy; one at a time.
MayRun(r) ==
  /\ \/ r \in Pollers /\ poll_lock = r
     \/ r \in Ops /\ future[r] = "called"
     \/ r = Destroyer /\ engine = "draining"
  /\ \A o \in Ops : callback[o].on # r

\* The trampoline finds the magic and clears it; the library has already
\* taken the request out of flight. A canceled request may still succeed.
Trampoline(r, o) ==
  /\ MayRun(r)
  /\ pending[o] /\ callback[o] = Idle
  /\ \E res \in IF o \in canceled THEN Results ELSE {"ok", "error"} :
       callback' = [callback EXCEPT ![o] =
         [at |-> IF context[o] = "live" THEN "enter" ELSE "bad",
          on |-> r, res |-> res, waker |-> None]]
  /\ pending' = [pending EXCEPT ![o] = FALSE]
  /\ context' = [context EXCEPT ![o] = "freed"]
  /\ UNCHANGED <<future, state, consumed, request, slot, canceled, awaiting, shared>>

\* The closure marks the request consumed first.
Consume(o) ==
  /\ callback[o].at = "enter"
  /\ consumed' = [consumed EXCEPT ![o] = TRUE]
  /\ callback' = [callback EXCEPT ![o].at = "consumed"]
  /\ UNCHANGED <<future, state, context, request, library, awaiting, shared>>

\* Fault: the waker is taken in a section before the one that stores.
Store_Early(o) ==
  /\ callback[o].at \in {"consumed", "taken"}
  /\ IF callback[o].at = "consumed"
     THEN /\ callback' = [callback EXCEPT ![o].at = "taken",
                                          ![o].waker = waker[o]]
          /\ waker' = [waker EXCEPT ![o] = None]
          /\ UNCHANGED result
     ELSE /\ result' = [result EXCEPT ![o] = callback[o].res]
          /\ callback' = [callback EXCEPT ![o].at = "stored"]
          /\ UNCHANGED waker
  /\ UNCHANGED <<future, consumed, context, request, library, awaiting, shared>>

\* One section stores the result and takes the waker.
Store(o) ==
  /\ callback[o].at = "consumed"
  /\ result' = [result EXCEPT ![o] = callback[o].res]
  /\ callback' = [callback EXCEPT ![o].at = "stored", ![o].waker = waker[o]]
  /\ waker' = [waker EXCEPT ![o] = None]
  /\ UNCHANGED <<future, consumed, context, request, library, awaiting, shared>>

\* Outside the section the waker schedules its task, if that still awaits;
\* the callback returns and the library takes the slot back.
Wake(o) ==
  /\ callback[o].at = "stored"
  /\ task' = IF task[o] = "parked" /\ callback[o].waker = current[o]
             THEN [task EXCEPT ![o] = "ready"] ELSE task
  /\ callback' = [callback EXCEPT ![o] = [Idle EXCEPT !.at = "returned"]]
  /\ slot' = [s \in Slots |-> IF slot[s] = o THEN None ELSE slot[s]]
  /\ UNCHANGED <<future, state, consumed, context, request, pending, canceled,
                 current, output, shared>>

-----------------------------------------------------------------------------
(* The task: Future::poll, and moving the future to another task.          *)

\* Fault: a waker once stored is kept.
Poll_KeepWaker(o) ==
  /\ future[o] = "held" /\ task[o] = "ready"
  /\ IF result[o] # None
     THEN /\ output' = [output EXCEPT ![o] = result[o]]
          /\ result' = [result EXCEPT ![o] = None]
          /\ task' = [task EXCEPT ![o] = "done"]
          /\ UNCHANGED waker
     ELSE /\ waker' = [waker EXCEPT ![o] = IF @ = None THEN current[o] ELSE @]
          /\ task' = [task EXCEPT ![o] = "parked"]
          /\ UNCHANGED <<output, result>>
  /\ UNCHANGED <<future, consumed, context, request, library, callback, current, shared>>

Poll(o) ==
  /\ future[o] = "held" /\ task[o] = "ready"
  /\ IF result[o] # None
     THEN /\ output' = [output EXCEPT ![o] = result[o]]
          /\ result' = [result EXCEPT ![o] = None]
          /\ task' = [task EXCEPT ![o] = "done"]
          /\ UNCHANGED waker
     ELSE /\ waker' = [waker EXCEPT ![o] = current[o]]
          /\ task' = [task EXCEPT ![o] = "parked"]
          /\ UNCHANGED <<output, result>>
  /\ UNCHANGED <<future, consumed, context, request, library, callback, current, shared>>

\* Another task awaits the future now and polls it with its own waker.
Move(o, w) ==
  /\ future[o] = "held" /\ task[o] = "parked" /\ w # current[o]
  /\ current' = [current EXCEPT ![o] = w]
  /\ task' = [task EXCEPT ![o] = "ready"]
  /\ UNCHANGED <<future, state, consumed, context, request, library, callback,
                 output, shared>>

-----------------------------------------------------------------------------
(* IoFuture::drop, after the await or before it.                           *)

\* The future is given up, at any time, or dropped after its result.
DropBegin(o) ==
  /\ future[o] = "held"
  /\ future' = [future EXCEPT ![o] = "drop"]
  /\ task' = [task EXCEPT ![o] = "done"]
  /\ UNCHANGED <<state, consumed, context, request, library, callback,
                 current, output, shared>>

\* The three tests in their order: the flag, the result under the mutex, the
\* flag again. Whichever fails, the fields are dropped and the future is gone.
DropTest(o) ==
  /\ \/ /\ future[o] = "drop"
        /\ future' = [future EXCEPT ![o] = IF consumed[o] THEN "gone" ELSE "check"]
     \/ /\ future[o] = "check"
        /\ future' = [future EXCEPT ![o] =
                        IF result[o] = None THEN "recheck" ELSE "gone"]
     \/ /\ future[o] = "recheck"
        /\ future' = [future EXCEPT ![o] = IF consumed[o] THEN "gone" ELSE "cancel"]
  /\ UNCHANGED <<state, consumed, context, request, library, callback,
                 awaiting, shared>>

\* aura_cancel looks at the slot: EALREADY unless whoever holds it is pending.
DropCancel(o) ==
  /\ future[o] = "cancel"
  /\ LET p == slot[request[o]]
     IN canceled' = canceled \cup {q \in {p} : q # None /\ pending[q]}
  /\ future' = [future EXCEPT ![o] = "gone"]
  /\ UNCHANGED <<state, consumed, context, request, slot, pending, callback,
                 awaiting, shared>>

-----------------------------------------------------------------------------
(* The engine.                                                             *)

\* poll, wait, run and drain hold poll_lock while the library runs callbacks.
PollEnter(r) ==
  /\ r \in Pollers /\ handles /\ poll_lock = None
  /\ poll_lock' = r
  /\ UNCHANGED <<future, state, consumed, context, request, library, callback,
                 awaiting, handles, engine>>

PollLeave(r) ==
  /\ poll_lock = r
  /\ \A o \in Ops : callback[o].on # r
  /\ poll_lock' = None
  /\ UNCHANGED <<future, state, consumed, context, request, library, callback,
                 awaiting, handles, engine>>

\* The Engine is dropped: no method of it is running (they borrow it).
EngineDrop ==
  /\ handles /\ poll_lock = None /\ \A o \in Ops : future[o] \notin {"called", "accepted"}
  /\ handles' = FALSE
  /\ UNCHANGED <<future, state, consumed, context, request, library, callback,
                 awaiting, engine, poll_lock>>

\* Fault: futures hold no reference.
InnerDrop_Weak ==
  /\ engine = "live" /\ ~handles
  /\ engine' = "draining"
  /\ UNCHANGED <<future, state, consumed, context, request, library, callback,
                 awaiting, handles, poll_lock>>

\* EngineInner::drop, with the last reference: aura_destroy begins.
InnerDrop ==
  /\ engine = "live" /\ ~Referenced
  /\ engine' = "draining"
  /\ UNCHANGED <<future, state, consumed, context, request, library, callback,
                 awaiting, handles, poll_lock>>

\* aura_destroy returns when nothing is in flight.
Destroyed ==
  /\ engine = "draining" /\ \A s \in Slots : slot[s] = None
  /\ engine' = "gone"
  /\ UNCHANGED <<future, state, consumed, context, request, library, callback,
                 awaiting, handles, poll_lock>>

-----------------------------------------------------------------------------
CallbackStep(o) == Consume(o) \/ Store(o) \/ Wake(o)
TaskStep(o) == Submitted(o) \/ Poll(o) \/ DropTest(o) \/ DropCancel(o)

Next ==
  \/ \E o \in Ops :
      \/ RefusedEarly(o) \/ Call(o) \/ Refused(o) \/ \E s \in Slots : Accepted(o, s)
      \/ TaskStep(o) \/ CallbackStep(o) \/ DropBegin(o)
      \/ \E w \in Wakers : Move(o, w)
      \/ \E r \in Runners : Trampoline(r, o)
  \/ \E r \in Pollers : PollEnter(r) \/ PollLeave(r)
  \/ EngineDrop \/ InnerDrop \/ Destroyed

\* Code runs on, the executor polls a task that is ready, and some thread keeps
\* processing completions while the Engine is held, as the comment at the top
\* of async_io.rs asks.
Fairness ==
  /\ \A o \in Ops : WF_vars(TaskStep(o)) /\ WF_vars(CallbackStep(o))
  /\ \A o \in Ops : SF_vars(\E r \in Pollers : Trampoline(r, o))
  /\ WF_vars(\E r \in Pollers : PollEnter(r))

Spec == Init /\ [][Next]_vars /\ Fairness

-----------------------------------------------------------------------------
\* Type correctness.
TypeOK ==
  /\ future \in [Ops -> Phases]
  /\ result \in [Ops -> Results \cup {None}]
  /\ waker \in [Ops -> Wakers \cup {None}]
  /\ consumed \in [Ops -> BOOLEAN]
  /\ context \in [Ops -> {"none", "live", "freed"}]
  /\ request \in [Ops -> Slots \cup {None}]
  /\ slot \in [Slots -> Ops \cup {None}]
  /\ pending \in [Ops -> BOOLEAN] /\ canceled \subseteq Ops
  /\ callback \in [Ops -> [at : {"none", "enter", "bad", "consumed", "taken",
                                 "stored", "returned"},
                           on : Runners \cup {None},
                           res : Results \cup {None}, waker : Wakers \cup {None}]]
  /\ task \in [Ops -> {"ready", "parked", "done"}]
  /\ current \in [Ops -> Wakers] /\ output \in [Ops -> Results \cup {None}]
  /\ handles \in BOOLEAN /\ engine \in {"live", "draining", "gone"}
  /\ poll_lock \in Pollers \cup {None}

\* A task that sleeps while its result is there is about to be woken: the
\* callback that stored the result holds the waker of the task that awaits
\* the future now, whichever tasks awaited it before.
NoTaskForgotten ==
  \A o \in Ops : task[o] = "parked" =>
    \/ waker[o] = current[o] /\ result[o] = None
    \/ callback[o].at = "stored" /\ callback[o].waker = current[o]

\* The trampoline is entered with a context that is boxed (its CRITICAL
\* branch never runs), and no context is left when the engine is gone.
ContextsFreedOnce ==
  /\ \A o \in Ops : callback[o].at # "bad"
  /\ engine = "gone" => \A o \in Ops : context[o] # "live"

\* IoFuture::drop calls aura_cancel on an engine that exists.
CancelOnLiveEngine ==
  \A o \in Ops : future[o] \in Alive => engine = "live"

\* The three together.
FuturesSafe == NoTaskForgotten /\ ContextsFreedOnce /\ CancelOnLiveEngine

\* None is neither an operation nor a result.
FuturesConstants == None \notin Ops \cup Results

\* A context is boxed from the call of submit_with_callback until the callback
\* begins or the library has refused; meanwhile the request holds a slot. A
\* result is there from the section that stores it until the task has it.
OperationSound(o) ==
  /\ future[o] \in {"new", "called"} => ~pending[o] /\ callback[o] = Idle
  /\ future[o] \in {"called", "accepted"} => handles
  /\ future[o] \in {"accepted"} \cup Alive => request[o] \in Slots
  /\ context[o] = "live" <=> future[o] = "called" \/ pending[o]
  /\ pending[o] => callback[o] = Idle /\ \E s \in Slots : slot[s] = o
  /\ callback[o].at \notin {"bad", "taken"}
  /\ callback[o].at \in {"enter", "consumed"} => callback[o].res \in Results
  /\ callback[o].at \in {"none", "enter", "consumed"} => result[o] = None
  /\ callback[o].at \in {"stored", "returned"} =>
       result[o] # None \/ task[o] = "done"

\* Whoever holds a reference keeps the engine, and it goes without requests.
EngineSound ==
  /\ Referenced => engine = "live"
  /\ engine = "gone" => \A s \in Slots : slot[s] = None

\* The invariant behind FuturesSafe.
FuturesInv ==
  /\ TypeOK
  /\ \A o \in Ops : OperationSound(o)
  /\ EngineSound
  /\ NoTaskForgotten

\* Not checked by a run: drop cancels no request but its own. The comment of
\* IoFuture::drop holds that a recycled slot answers EALREADY; a slot that
\* was recycled and is pending again does not.
DropCancelsOwn == \A o \in Ops : o \in canceled => future[o] # "held"

\* Every awaited future is resolved or dropped in the end, or the Engine is
\* dropped first and nobody processes completions any more.
FutureResolves ==
  \A o \in Ops : future[o] = "held" ~> (task[o] = "done" \/ ~handles)
=============================================================================
