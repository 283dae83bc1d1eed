----------------------------- MODULE Coroutine -----------------------------
(***************************************************************************)
(* C++ coroutines over the callback API: Task and the awaitables.          *)
(*                                                                         *)
(* co_await engine.async_read(...) submits from await_suspend with a       *)
(* callback that stores the result and resumes the coroutine, possibly on  *)
(* another thread and possibly before await_suspend has returned. The two  *)
(* sides exchange the flag completed_: whoever comes second goes on with   *)
(* the coroutine. co_await task runs the task's coroutine in place; its    *)
(* final suspend point transfers to the coroutine that awaits it.          *)
(*                                                                         *)
(* A coroutine body is its list of awaits and throws what an await throws. *)
(* Callbacks run on the threads that are inside the event loop.            *)
(***************************************************************************)
EXTENDS Integers, Sequences, FiniteSets

CONSTANTS
  Coros,      \* the coroutines
  Script,     \* what each awaits in turn: an operation, or another coroutine,
              \* which nobody else awaits
  Roots,      \* the ones whose Task the application holds
  Void,       \* the ones that are Task<void>
  Threads,    \* the threads: any may resume a Task or run the event loop
  JoinsFirst, \* a Task is destroyed only once no thread is inside its coroutine
  None

\* The awaitables, by the operations they submit. All follow one protocol.
IoAwaitable == {"read", "write"}
FsyncAwaitable == {"fsync", "fdatasync"}
OpenatAwaitable == {"openat"}
MetadataAwaitable == {"close", "fallocate", "ftruncate", "sync_file_range"}
StatxAwaitable == {"statx"}
Operations == IoAwaitable \cup FsyncAwaitable \cup OpenatAwaitable
                \cup MetadataAwaitable \cup StatxAwaitable

VARIABLES
  at,            \* where each coroutine is
  on,            \* the threads that execute it: one or none
  await,         \* the index of the await it is at
  completed,     \* completed_ of the awaitable it is at
  result_,       \* result_ of the awaitable it is at
  callback,      \* the awaitable's callback: "none", "pending", "stored", "done"
  runner,        \* the thread the callback runs on
  continuation,  \* promise.continuation_
  outcome        \* promise.result: "empty", "value" or "exception"

vars == <<at, on, await, completed, result_, callback, runner, continuation, outcome>>
awaitable == <<completed, result_, callback, runner>>

\* "suspend" is inside await_suspend, "resumed" before await_resume, "child"
\* awaiting a task, "returned" before its await_resume, "final" suspended at
\* the final suspend point (done() from then on) and still inside
\* FinalAwaiter::await_suspend if it is on a thread.
Places == {"created", "running", "suspend", "suspended", "resumed", "child",
           "returned", "final", "destroyed"}

Init ==
  /\ at = [c \in Coros |-> "created"]
  /\ on = [c \in Coros |-> {}]
  /\ await = [c \in Coros |-> 1]
  /\ completed = [c \in Coros |-> FALSE]
  /\ result_ = [c \in Coros |-> None]
  /\ callback = [c \in Coros |-> "none"]
  /\ runner = [c \in Coros |-> None]
  /\ continuation = [c \in Coros |-> None]
  /\ outcome = [c \in Coros |-> "empty"]

Goto(c, label) == at' = [at EXCEPT ![c] = label]
Idle(t) == \A c \in Coros : t \notin on[c] /\ runner[c] # t
Awaited(c) == Script[c][await[c]]
AtAwait(c) == at[c] = "running" /\ await[c] <= Len(Script[c])

-----------------------------------------------------------------------------
(* The awaitables.                                                         *)

\* Task::resume, once, by whoever holds the Task.
Resume(t, c) ==
  /\ c \in Roots /\ at[c] = "created" /\ Idle(t)
  /\ Goto(c, "running") /\ on' = [on EXCEPT ![c] = {t}]
  /\ UNCHANGED <<await, awaitable, continuation, outcome>>

\* await_suspend submits; the coroutine counts as suspended already.
AwaitSubmit(c) ==
  /\ AtAwait(c) /\ Awaited(c) \in Operations
  /\ Goto(c, "suspend")
  /\ completed' = [completed EXCEPT ![c] = FALSE]
  /\ result_' = [result_ EXCEPT ![c] = None]
  /\ callback' = [callback EXCEPT ![c] = "pending"]
  /\ UNCHANGED <<on, await, runner, continuation, outcome>>

\* The submission throws: its error is the result and nothing is suspended.
AwaitRefused(c) ==
  /\ AtAwait(c) /\ Awaited(c) \in Operations
  /\ Goto(c, "resumed")
  /\ completed' = [completed EXCEPT ![c] = FALSE]
  /\ result_' = [result_ EXCEPT ![c] = "error"]
  /\ callback' = [callback EXCEPT ![c] = "none"]
  /\ UNCHANGED <<on, await, runner, continuation, outcome>>

\* Fault: the coroutine is suspended whoever came first.
AwaitCommit_Always(c) ==
  /\ at[c] = "suspend"
  /\ completed' = [completed EXCEPT ![c] = TRUE]
  /\ Goto(c, "suspended") /\ on' = [on EXCEPT ![c] = {}]
  /\ UNCHANGED <<await, result_, callback, runner, continuation, outcome>>

\* The end of await_suspend: second, it goes on; first, it gives up the thread.
AwaitCommit(c) ==
  /\ at[c] = "suspend"
  /\ completed' = [completed EXCEPT ![c] = TRUE]
  /\ IF completed[c]
     THEN Goto(c, "resumed") /\ UNCHANGED on
     ELSE Goto(c, "suspended") /\ on' = [on EXCEPT ![c] = {}]
  /\ UNCHANGED <<await, result_, callback, runner, continuation, outcome>>

\* The callback, first step: result_ is written.
CallbackStore(t, c) ==
  /\ callback[c] = "pending" /\ Idle(t)
  /\ \E r \in {"ok", "error"} : result_' = [result_ EXCEPT ![c] = r]
  /\ callback' = [callback EXCEPT ![c] = "stored"]
  /\ runner' = [runner EXCEPT ![c] = t]
  /\ UNCHANGED <<at, on, await, completed, continuation, outcome>>

\* Fault: the callback resumes whoever came first.
CallbackExchange_Always(c) ==
  /\ callback[c] = "stored"
  /\ completed' = [completed EXCEPT ![c] = TRUE]
  /\ Goto(c, "resumed") /\ on' = [on EXCEPT ![c] = @ \cup {runner[c]}]
  /\ callback' = [callback EXCEPT ![c] = "done"]
  /\ runner' = [runner EXCEPT ![c] = None]
  /\ UNCHANGED <<await, result_, continuation, outcome>>

\* Second step: the exchange; second, it resumes the coroutine on its thread.
CallbackExchange(c) ==
  /\ callback[c] = "stored"
  /\ completed' = [completed EXCEPT ![c] = TRUE]
  /\ IF completed[c]
     THEN Goto(c, "resumed") /\ on' = [on EXCEPT ![c] = @ \cup {runner[c]}]
     ELSE UNCHANGED <<at, on>>
  /\ callback' = [callback EXCEPT ![c] = "done"]
  /\ runner' = [runner EXCEPT ![c] = None]
  /\ UNCHANGED <<await, result_, continuation, outcome>>

\* The body ends, by co_return or by unhandled_exception.
Finish(c, how) == Goto(c, "final") /\ outcome' = [outcome EXCEPT ![c] = how]

\* await_resume returns the result, or throws out of the coroutine.
AwaitResume(c) ==
  /\ at[c] = "resumed"
  /\ IF result_[c] = "error"
     THEN Finish(c, "exception") /\ UNCHANGED await
     ELSE /\ Goto(c, "running") /\ UNCHANGED outcome
          /\ await' = [await EXCEPT ![c] = @ + 1]
  /\ UNCHANGED <<on, awaitable, continuation>>

-----------------------------------------------------------------------------
(* Task.                                                                   *)

\* co_await on a Task: the awaiting coroutine becomes its continuation, and
\* the thread goes on with the task.
AwaitTask(c) ==
  /\ AtAwait(c) /\ Awaited(c) \in Coros
  /\ LET d == Awaited(c)
     IN /\ at' = [at EXCEPT ![c] = "child", ![d] = "running"]
        /\ on' = [on EXCEPT ![c] = {}, ![d] = on[c]]
        /\ continuation' = [continuation EXCEPT ![d] = c]
  /\ UNCHANGED <<await, awaitable, outcome>>

\* co_return: the result is stored and the final suspend point reached.
Return(c) ==
  /\ at[c] = "running" /\ await[c] > Len(Script[c])
  /\ Finish(c, IF c \in Void THEN "empty" ELSE "value")
  /\ UNCHANGED <<on, await, awaitable, continuation>>

\* FinalAwaiter::await_suspend: the thread goes to the continuation, if any.
FinalSuspend(c) ==
  /\ at[c] = "final" /\ on[c] # {}
  /\ LET p == continuation[c]
     IN IF p = None
        THEN on' = [on EXCEPT ![c] = {}] /\ UNCHANGED at
        ELSE on' = [on EXCEPT ![c] = {}, ![p] = on[c]] /\ Goto(p, "returned")
  /\ UNCHANGED <<await, awaitable, continuation, outcome>>

\* Awaiter::await_resume takes the task's value or rethrows its exception (a
\* Task<void> has only that); the awaited Task, a temporary, is destroyed.
TaskResume(c) ==
  /\ at[c] = "returned"
  /\ LET d == Awaited(c)  threw == outcome[d] = "exception"
     IN /\ at' = [at EXCEPT ![c] = IF threw THEN "final" ELSE "running",
                            ![d] = "destroyed"]
        /\ outcome' = [outcome EXCEPT ![c] = IF threw THEN "exception" ELSE @,
                                      ![d] = "empty"]
        /\ await' = [await EXCEPT ![c] = IF threw THEN @ ELSE @ + 1]
  /\ UNCHANGED <<on, awaitable, continuation>>

\* done() and get(), by the application: the result is moved out.
Get(c) ==
  /\ c \in Roots /\ at[c] = "final" /\ outcome[c] # "empty"
  /\ outcome' = [outcome EXCEPT ![c] = "empty"]
  /\ UNCHANGED <<at, on, await, awaitable, continuation>>

\* Fault: ~Task does not look at done().
Destroy_Suspended(c) ==
  /\ c \in Roots /\ at[c] \in {"final", "suspended"}
  /\ JoinsFirst => on[c] = {}
  /\ Goto(c, "destroyed")
  /\ UNCHANGED <<on, await, awaitable, continuation, outcome>>

\* ~Task of a task that is done destroys the frame (one that is not would
\* end the program: the application waits for done()).
Destroy(c) ==
  /\ c \in Roots /\ at[c] = "final"
  /\ JoinsFirst => on[c] = {}
  /\ Goto(c, "destroyed")
  /\ UNCHANGED <<on, await, awaitable, continuation, outcome>>

-----------------------------------------------------------------------------
Step(c) ==
  \/ AwaitSubmit(c) \/ AwaitRefused(c) \/ AwaitCommit(c) \/ AwaitResume(c)
  \/ AwaitTask(c) \/ Return(c) \/ FinalSuspend(c) \/ TaskResume(c)

Next ==
  \E c \in Coros :
    \/ Step(c) \/ CallbackExchange(c) \/ Get(c) \/ Destroy(c)
    \/ \E t \in Threads : Resume(t, c) \/ CallbackStore(t, c)

\* Code runs on, and some thread keeps running the event loop.
Fairness ==
  \A c \in Coros : /\ WF_vars(Step(c)) /\ WF_vars(CallbackExchange(c))
                   /\ WF_vars(\E t \in Threads : CallbackStore(t, c))

Spec == Init /\ [][Next]_vars /\ Fairness

-----------------------------------------------------------------------------
\* Type correctness.
TypeOK ==
  /\ at \in [Coros -> Places]
  /\ on \in [Coros -> SUBSET Threads]
  /\ await \in [Coros -> Nat] /\ \A c \in Coros : await[c] \in 1 .. Len(Script[c]) + 1
  /\ completed \in [Coros -> BOOLEAN]
  /\ result_ \in [Coros -> {"ok", "error", None}]
  /\ callback \in [Coros -> {"none", "pending", "stored", "done"}]
  /\ runner \in [Coros -> Threads \cup {None}]
  /\ continuation \in [Coros -> Coros \cup {None}]
  /\ outcome \in [Coros -> {"empty", "value", "exception"}]

\* A coroutine is resumed by one side only, after the callback has written the
\* result and when it is really suspended: no two threads execute it, a callback
\* that is about to resume finds it suspended, and await_resume finds a result
\* no callback will write.
ResumedOnce ==
  \A c \in Coros :
    /\ Cardinality(on[c]) <= 1
    /\ callback[c] = "stored" /\ completed[c] => at[c] = "suspended"
    /\ at[c] = "resumed" => result_[c] # None /\ callback[c] \in {"none", "done"}

\* No thread executes two coroutines at a time, and none a destroyed frame;
\* no callback is left that would touch one.
FramesOutliveUse ==
  /\ \A c, d \in Coros : on[c] \cap on[d] # {} => c = d
  /\ \A c \in Coros : at[c] = "destroyed" =>
       on[c] = {} /\ callback[c] \in {"none", "done"}

\* Both.
CoroutineSafe == ResumedOnce /\ FramesOutliveUse

\* A Task is awaited at most once, and not when the application holds it; the
\* application joins before it destroys.
CoroutineConstants ==
  /\ None \notin Coros \cup Threads \cup {"ok", "error"}
  /\ Coros \cap Operations = {} /\ JoinsFirst
  /\ Script \in [Coros -> Seq(Operations \cup (Coros \ Roots))]
  /\ \A c, e \in Coros : \A n \in DOMAIN Script[c], m \in DOMAIN Script[e] :
       Script[c][n] \in Coros /\ Script[c][n] = Script[e][m] => c = e /\ n = m

\* A coroutine executes on one thread, or on none where it is suspended.
OnOneThread(c) ==
  /\ at[c] \in {"running", "suspend", "resumed", "returned"} => on[c] # {}
  /\ at[c] \in {"created", "suspended", "child", "destroyed"} => on[c] = {}
  /\ \A t, u \in on[c] : t = u

\* The exchange of completed_: until the callback's side is over the flag says
\* whether await_suspend's is; once it is over, the result is there.
Handshake(c) ==
  /\ callback[c] = "stored" <=> runner[c] # None
  /\ callback[c] \in {"pending", "stored"} =>
       /\ at[c] \in {"suspend", "suspended"}
       /\ completed[c] <=> at[c] = "suspended"
  /\ at[c] \in {"suspend", "suspended", "resumed"} => await[c] <= Len(Script[c])
  /\ at[c] = "suspended" => callback[c] \in {"pending", "stored"}
  /\ at[c] = "suspend" => callback[c] \in {"pending", "stored"} \/ completed[c]
  /\ \/ callback[c] = "stored" \/ at[c] = "resumed"
     \/ at[c] = "suspend" /\ callback[c] # "pending"
     => result_[c] # None

\* A thread executes one coroutine, or one callback that may resume one.
ThreadsApart ==
  \A c, d \in Coros :
    /\ c # d => on[c] \cap on[d] = {}
    /\ runner[c] # None => runner[c] \notin on[d]
    /\ c # d => runner[c] # runner[d] \/ runner[c] = None

\* A task at work has a continuation that waits for it ...
AtWork(d) ==
  /\ at[d] \notin {"created", "destroyed"} /\ (at[d] = "final" => on[d] # {})
  /\ continuation[d] # None
Continued(d) ==
  /\ continuation[d] # None => d \notin Roots
  /\ AtWork(d) => /\ at[continuation[d]] = "child"
                  /\ Awaited(continuation[d]) = d

\* ... and a coroutine that waits for a task is its continuation; once it goes
\* on the task is over.
Waits(c) ==
  at[c] \in {"child", "returned"} =>
    /\ await[c] <= Len(Script[c])
    /\ Awaited(c) \in Coros /\ continuation[Awaited(c)] = c
    /\ at[c] = "returned" => at[Awaited(c)] = "final" /\ on[Awaited(c)] = {}

\* What a coroutine has still to await was not started.
AwaitedLater(c, n) ==
  \/ await[c] < n
  \/ await[c] = n /\ at[c] \notin {"child", "returned", "final", "destroyed"}
Unstarted ==
  \A c \in Coros : \A n \in DOMAIN Script[c] :
    Script[c][n] \in Coros /\ AwaitedLater(c, n) => at[Script[c][n]] = "created"

\* The inductive invariant.
CoroutineInv ==
  /\ TypeOK
  /\ \A c \in Coros : OnOneThread(c) /\ Handshake(c) /\ Continued(c) /\ Waits(c)
  /\ ThreadsApart /\ Unstarted

\* A started Task is done in the end: neither side leaves the coroutine to the
\* other, and every awaited task goes back to the coroutine that awaits it.
TasksEnd == \A c \in Roots : at[c] = "running" ~> at[c] \in {"final", "destroyed"}
=============================================================================
