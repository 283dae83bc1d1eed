----------------------------- MODULE MCWaiters ------------------------------
(***************************************************************************)
(* What waits for completions, for TLC: unregistration with the calls that *)
(* block on its locks, Rust futures, and C++ coroutines, side by side.     *)
(* Every behaviour is one of one part, under the fairness that part's      *)
(* module assumes.                                                         *)
(***************************************************************************)
EXTENDS Integers, FiniteSets, Sequences

CONSTANTS
  Nil   \* nothing: no activation, no table, no slot, no thread

\* What each coroutine awaits.
Script == [parent |-> <<"read", "child", "fsync">>, child |-> <<"openat">>,
           other |-> <<"close">>]

\* The component this behaviour is of; it never changes.
VARIABLE part

\* The value of the variables of the components that are not at work.
Off == "off"

-----------------------------------------------------------------------------
\* Registration on one ring, with callbacks that call the library.
VARIABLES
    g_registered, g_unreg_pending, g_table, g_fatal, g_readers, g_writer,
    g_lock_held, g_inflight, g_req, g_kernel, g_act

Reg == INSTANCE Registration WITH
    Threads <- {"loop", "app"}, EventLoop <- "loop", MaxDepth <- 2,
    NRings <- 1, RequestsPerRing <- 1, Fds <- {1}, FileIndices <- {0},
    SoleOwner <- FALSE, NoTable <- Nil, NoAct <- Nil, NoSlot <- Nil,
    registered <- g_registered, unreg_pending <- g_unreg_pending,
    table <- g_table, fatal <- g_fatal, readers <- g_readers,
    writer <- g_writer, lock_held <- g_lock_held, inflight <- g_inflight,
    req <- g_req, kernel <- g_kernel, act <- g_act

g_vars == <<g_registered, g_unreg_pending, g_table, g_fatal, g_readers,
            g_writer, g_lock_held, g_inflight, g_req, g_kernel, g_act>>

g_Off ==
    /\ g_registered = Off /\ g_unreg_pending = Off /\ g_table = Off
    /\ g_fatal = Off /\ g_readers = Off /\ g_writer = Off
    /\ g_lock_held = Off /\ g_inflight = Off /\ g_req = Off /\ g_kernel = Off
    /\ g_act = Off

-----------------------------------------------------------------------------
\* A Rust future, awaited by one task after another.
VARIABLES
    f_future, f_result, f_waker, f_consumed, f_context, f_request, f_slot,
    f_pending, f_canceled, f_callback, f_task, f_current, f_output,
    f_handles, f_engine, f_poll_lock

Rust == INSTANCE RustFutures WITH
    Ops <- {"o"}, Slots <- {1}, Pollers <- {"el", "w"},
    Wakers <- {"w1", "w2"}, Vectored <- {}, None <- Nil, future <- f_future,
    result <- f_result, waker <- f_waker, consumed <- f_consumed,
    context <- f_context, request <- f_request, slot <- f_slot,
    pending <- f_pending, canceled <- f_canceled, callback <- f_callback,
    task <- f_task, current <- f_current, output <- f_output,
    handles <- f_handles, engine <- f_engine, poll_lock <- f_poll_lock

f_vars == <<f_future, f_result, f_waker, f_consumed, f_context, f_request,
            f_slot, f_pending, f_canceled, f_callback, f_task, f_current,
            f_output, f_handles, f_engine, f_poll_lock>>

f_Off ==
    /\ f_future = Off /\ f_result = Off /\ f_waker = Off /\ f_consumed = Off
    /\ f_context = Off /\ f_request = Off /\ f_slot = Off /\ f_pending = Off
    /\ f_canceled = Off /\ f_callback = Off /\ f_task = Off
    /\ f_current = Off /\ f_output = Off /\ f_handles = Off /\ f_engine = Off
    /\ f_poll_lock = Off

-----------------------------------------------------------------------------
\* Coroutines: one that awaits operations and a task, and one beside it, on
\* two threads.
VARIABLES
    x_at, x_on, x_await, x_completed, x_result_, x_callback, x_runner,
    x_continuation, x_outcome

Coro == INSTANCE Coroutine WITH
    Coros <- DOMAIN Script, Script <- Script, Roots <- {"parent", "other"},
    Void <- {"other"}, Threads <- {"el", "w"}, JoinsFirst <- TRUE,
    None <- Nil, at <- x_at, on <- x_on, await <- x_await,
    completed <- x_completed, result_ <- x_result_, callback <- x_callback,
    runner <- x_runner, continuation <- x_continuation, outcome <- x_outcome

x_vars == <<x_at, x_on, x_await, x_completed, x_result_, x_callback,
            x_runner, x_continuation, x_outcome>>

x_Off ==
    /\ x_at = Off /\ x_on = Off /\ x_await = Off /\ x_completed = Off
    /\ x_result_ = Off /\ x_callback = Off /\ x_runner = Off
    /\ x_continuation = Off /\ x_outcome = Off

-----------------------------------------------------------------------------
vars == <<part, g_vars, f_vars, x_vars>>

Init ==
    \/ /\ part = "unregister" /\ Reg!Init
       /\ f_Off /\ x_Off
    \/ /\ part = "futures" /\ Rust!Init
       /\ g_Off /\ x_Off
    \/ /\ part = "coroutines" /\ Coro!Init
       /\ g_Off /\ f_Off

\* What a step of each part leaves alone.
g_Rest == <<part, f_vars, x_vars>>
f_Rest == <<part, g_vars, x_vars>>
x_Rest == <<part, g_vars, f_vars>>

Next ==
    \/ part = "unregister" /\ Reg!Next /\ UNCHANGED g_Rest
    \/ part = "futures" /\ Rust!Next /\ UNCHANGED f_Rest
    \/ part = "coroutines" /\ Coro!Next /\ UNCHANGED x_Rest

Reg_ == part = "unregister"
Rust_ == part = "futures"
Coro_ == part = "coroutines"

\* The fairness of the part at work.
Fairness ==
    /\ \A a \in Reg!Acts : SF_g_vars(Reg_ /\ Reg!Step(a))
    /\ SF_g_vars(Reg_ /\ Reg!PollCall(<<"loop", 1>>))
    /\ \A s \in Reg!Slots : WF_g_vars(Reg_ /\ Reg!KernelComplete(s))
    /\ WF_f_vars(Rust_ /\ Rust!TaskStep("o"))
    /\ WF_f_vars(Rust_ /\ Rust!CallbackStep("o"))
    /\ SF_f_vars(Rust_ /\ \E r \in {"el", "w"} : Rust!Trampoline(r, "o"))
    /\ WF_f_vars(Rust_ /\ \E r \in {"el", "w"} : Rust!PollEnter(r))
    /\ \A c \in DOMAIN Script :
         /\ WF_x_vars(Coro_ /\ Coro!Step(c))
         /\ WF_x_vars(Coro_ /\ Coro!CallbackExchange(c))
         /\ WF_x_vars(Coro_ /\ \E t \in {"el", "w"} : Coro!CallbackStore(t, c))

Spec == Init /\ [][Next]_vars /\ Fairness

-----------------------------------------------------------------------------
(* Properties *)

\* The constants of this instance are among those the theorem about coroutines is
\* for.
ASSUME PartsAsProved == Coro!CoroutineConstants

\* A C++ coroutine is resumed by exactly one of the two sides of the exchange of
\* completed_, after its result was written and when it is really suspended;
\* and no thread and no callback to come is inside the frame of a Task that
\* was destroyed.
CoroutineSafe == Coro_ => Coro!CoroutineSafe

\* aura_request_unregister "will NOT block waiting for in-flight operations",
\* and a submission holds the ring's lock only "briefly": nobody waits for
\* ever for reg_lock or for a ring's lock, in callbacks neither.
LocksObtained == \A a \in Reg!Acts : []<>(Reg_ => ~Reg!Waiting(a))

\* A requested unregistration is carried out, as long as the event loop's
\* calls return: what is in flight drains, nothing new is let in, and some
\* poll finalizes.
UnregistrationCompletes ==
    []<>(Reg_ => g_act[<<"loop", 1>>].pc = "out")
      => \A ty \in Reg!Types :
           (Reg_ /\ g_unreg_pending[ty]) ~> (Reg_ /\ ~g_registered[ty])

\* Both: nobody is left waiting, for a lock or for a deferred unregistration.
RegistrationLive == LocksObtained /\ UnregistrationCompletes

\* Every awaited Rust future is resolved or dropped in the end, or the Engine
\* is dropped first and nobody processes completions any more.
\* Started Tasks are done in the end: neither await_suspend nor the callback
\* leaves a coroutine to the other, and an awaited task goes back to the
\* coroutine that awaits it. (Each is started once.)
AwaitsEnd ==
    /\ (Rust_ /\ f_future["o"] = "held")
         ~> (Rust_ /\ (f_task["o"] = "done" \/ ~f_handles))
    /\ (Coro_ /\ \E c \in {"parent", "other"} : x_at[c] = "running")
         ~> (Coro_ /\ \A c \in {"parent", "other"} :
                        x_at[c] \in {"created", "final", "destroyed"})
=============================================================================
