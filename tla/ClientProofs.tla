---------------------------- MODULE ClientProofs ----------------------------
(***************************************************************************)
(* Parts built on the engine: the coroutines of the C++ interface, for     *)
(* every set of coroutines, whatever they await, and every number of       *)
(* threads; the visited set of atree, for every number of threads, keys    *)
(* and buckets and every hash function; the scan of atree, for every file  *)
(* system, number of workers and batch size; and the pipeline of aura-hash,*)
(* for every command line and every order the reads complete in.           *)
(***************************************************************************)
EXTENDS Coroutine, FiniteSetTheorems, SequenceTheorems, WellFoundedInduction,
        TLAPS

-----------------------------------------------------------------------------
(* Coroutines *)

\* What a script is: a sequence that its coroutine walks from the first entry.
LEMMA Scripts ==
  ASSUME CoroutineConstants, TypeOK
  PROVE  \A c \in Coros : /\ Len(Script[c]) \in Nat
                          /\ DOMAIN Script[c] = 1 .. Len(Script[c])
                          /\ await[c] \in Nat \ {0}
BY DEF CoroutineConstants, TypeOK

\* A coroutine that moves within its body, on its thread or to another one,
\* disturbs neither the coroutine that awaits it nor the tasks it has still to
\* start.
LEMMA BodyMoves ==
  ASSUME CoroutineConstants, CoroutineInv, NEW c \in Coros,
         at[c] \in {"running", "suspend", "suspended", "resumed"},
         at'[c] \in {"running", "suspend", "suspended", "resumed", "final"},
         await'[c] \in {await[c], await[c] + 1},
         \A e \in Coros : e # c =>
           at'[e] = at[e] /\ on'[e] = on[e] /\ await'[e] = await[e],
         UNCHANGED continuation
  PROVE  (\A e \in Coros : Continued(e)' /\ Waits(e)') /\ Unstarted'
<1>1. ASSUME NEW d \in Coros
      PROVE  Continued(d)'
  <2>1. continuation[d] # None => d \notin Roots
    BY DEF CoroutineInv, Continued
  <2>2. ASSUME AtWork(d)'
        PROVE  /\ continuation[d] \in Coros \ {c}
               /\ at[continuation[d]] = "child"
               /\ Awaited(continuation[d]) = d
    <3>1. AtWork(d)
      BY <2>2 DEF AtWork
    <3> QED BY <3>1 DEF CoroutineInv, TypeOK, Continued, AtWork
  <2>3. AtWork(d)' => /\ at'[continuation'[d]] = "child"
                      /\ Awaited(continuation[d])' = d
    BY <2>2 DEF Awaited
  <2> QED BY <2>1, <2>3 DEF Continued
<1>2. ASSUME NEW e \in Coros
      PROVE  Waits(e)'
  <2> SUFFICES ASSUME at'[e] \in {"child", "returned"}
               PROVE  Waits(e)'
    BY DEF Waits
  <2>1. e # c /\ at[e] = at'[e] /\ await'[e] = await[e] /\ Awaited(e)' = Awaited(e)
    BY DEF Awaited
  <2>2. /\ await[e] <= Len(Script[e])
        /\ Awaited(e) \in Coros /\ continuation[Awaited(e)] = e
        /\ at[e] = "returned" =>
             at[Awaited(e)] = "final" /\ on[Awaited(e)] = {}
    BY <2>1 DEF CoroutineInv, Waits
  <2>3. at[e] = "returned" => Awaited(e) # c
    BY <2>2
  <2> QED BY <2>1, <2>2, <2>3 DEF Waits
<1>3. ASSUME NEW e \in Coros, NEW n \in DOMAIN Script[e],
             Script[e][n] \in Coros, AwaitedLater(e, n)'
      PROVE  at'[Script[e][n]] = "created"
  <2>1. n \in Nat /\ await[e] \in Nat /\ await[c] \in Nat
    BY Scripts DEF CoroutineInv
  <2>2. AwaitedLater(e, n)
    BY <1>3, <2>1 DEF AwaitedLater
  <2>3. at[Script[e][n]] = "created"
    BY <1>3, <2>2 DEF CoroutineInv, Unstarted
  <2> QED BY <1>3, <2>3
<1> QED BY <1>1, <1>2, <1>3 DEF Unstarted

\* A thread goes over from one coroutine to another that was on none.
LEMMA Handover ==
  ASSUME CoroutineInv, NEW c \in Coros, NEW p \in Coros, c # p, on[p] = {},
         on'[c] = {}, on'[p] = on[c],
         \A e \in Coros \ {c, p} : on'[e] = on[e], UNCHANGED runner
  PROVE  ThreadsApart' /\ \A e \in Coros : \A t, u \in on'[e] : t = u
<1>1. ASSUME NEW e \in Coros
      PROVE  \/ on'[e] = {}
             \/ e = p /\ on'[e] = on[c]
             \/ e \notin {c, p} /\ on'[e] = on[e]
  OBVIOUS
<1>2. ThreadsApart
  BY DEF CoroutineInv
<1>3. ASSUME NEW e \in Coros, NEW d \in Coros
      PROVE  /\ e # d => on'[e] \cap on'[d] = {}
             /\ runner[e] # None => runner[e] \notin on'[d]
             /\ e # d => runner[e] # runner[d] \/ runner[e] = None
  BY <1>1, <1>2 DEF ThreadsApart
<1>4. \A e \in Coros : \A t, u \in on[e] : t = u
  BY DEF CoroutineInv, OnOneThread
<1>5. \A e \in Coros : \A t, u \in on'[e] : t = u
  BY <1>1, <1>4
<1> QED BY <1>3, <1>5 DEF ThreadsApart

\* await_suspend submits the operation, or is refused and goes on at once.
LEMMA SubmitKeeps ==
  ASSUME CoroutineConstants, CoroutineInv, NEW c \in Coros,
         AwaitSubmit(c) \/ AwaitRefused(c)
  PROVE  CoroutineInv'
<1> USE DEF AwaitSubmit, AwaitRefused, AtAwait, Goto
<1>1. TypeOK'
  BY DEF CoroutineInv, TypeOK, Places
<1>2. \A e \in Coros : OnOneThread(e)' /\ Handshake(e)'
  BY DEF CoroutineInv, TypeOK, CoroutineConstants, OnOneThread, Handshake
<1>3. ThreadsApart'
  BY DEF CoroutineInv, ThreadsApart
<1>4. (\A e \in Coros : Continued(e)' /\ Waits(e)') /\ Unstarted'
  BY BodyMoves DEF CoroutineInv, TypeOK
<1> QED BY <1>1, <1>2, <1>3, <1>4 DEF CoroutineInv

\* The coroutine's side of the exchange: it stays suspended, or finds that the
\* callback came first.
LEMMA CommitKeeps ==
  ASSUME CoroutineConstants, CoroutineInv, NEW c \in Coros, AwaitCommit(c)
  PROVE  CoroutineInv'
<1> USE DEF AwaitCommit, Goto
<1>1. TypeOK'
  BY DEF CoroutineInv, TypeOK, Places
<1>2. \A e \in Coros : OnOneThread(e)' /\ Handshake(e)'
  BY DEF CoroutineInv, TypeOK, CoroutineConstants, OnOneThread, Handshake
<1>3. \A e \in Coros : on'[e] \in {{}, on[e]}
  BY DEF CoroutineInv, TypeOK
<1>4. ThreadsApart'
  BY <1>3 DEF CoroutineInv, ThreadsApart
<1>5. (\A e \in Coros : Continued(e)' /\ Waits(e)') /\ Unstarted'
  BY BodyMoves DEF CoroutineInv, TypeOK
<1> QED BY <1>1, <1>2, <1>4, <1>5 DEF CoroutineInv

\* await_resume takes the result and goes on in the body, perhaps to its end.
LEMMA AwaitResumeKeeps ==
  ASSUME CoroutineConstants, CoroutineInv, NEW c \in Coros, AwaitResume(c)
  PROVE  CoroutineInv'
<1>1. /\ at[c] = "resumed" /\ await[c] <= Len(Script[c]) /\ on[c] # {}
      /\ await[c] \in Nat \ {0} /\ Len(Script[c]) \in Nat
      /\ callback[c] \notin {"pending", "stored"} /\ runner[c] = None
  BY Scripts DEF AwaitResume, CoroutineInv, Handshake, OnOneThread
<1>2. \E to \in {"running", "final"}, k \in {await[c], await[c] + 1} :
        /\ at' = [at EXCEPT ![c] = to]
        /\ await' = [await EXCEPT ![c] = k]
        /\ outcome' \in [Coros -> {"empty", "value", "exception"}]
        /\ UNCHANGED <<on, completed, result_, callback, runner, continuation>>
  <2>1. CASE result_[c] = "error"
    BY <2>1 DEF AwaitResume, Finish, Goto, awaitable, CoroutineInv, TypeOK
  <2>2. CASE result_[c] # "error"
    BY <2>2 DEF AwaitResume, Finish, Goto, awaitable, CoroutineInv, TypeOK
  <2> QED BY <2>1, <2>2
<1>3. PICK to \in {"running", "final"}, k \in {await[c], await[c] + 1} :
        /\ at' = [at EXCEPT ![c] = to]
        /\ await' = [await EXCEPT ![c] = k]
        /\ outcome' \in [Coros -> {"empty", "value", "exception"}]
        /\ UNCHANGED <<on, completed, result_, callback, runner, continuation>>
  BY <1>2
<1>4. TypeOK'
  BY <1>1, <1>3 DEF CoroutineInv, TypeOK, Places
<1>5. \A e \in Coros : OnOneThread(e)' /\ Handshake(e)'
  BY <1>1, <1>3 DEF CoroutineInv, TypeOK, OnOneThread, Handshake
<1>6. ThreadsApart'
  BY <1>3 DEF CoroutineInv, ThreadsApart
<1>7. (\A e \in Coros : Continued(e)' /\ Waits(e)') /\ Unstarted'
  BY <1>1, <1>3, BodyMoves DEF CoroutineInv, TypeOK
<1> QED BY <1>4, <1>5, <1>6, <1>7 DEF CoroutineInv

\* The callback's side of the exchange: it resumes the coroutine it finds
\* suspended on its own thread.
LEMMA ExchangeKeeps ==
  ASSUME CoroutineConstants, CoroutineInv, NEW c \in Coros, CallbackExchange(c)
  PROVE  CoroutineInv'
<1>0. /\ runner[c] \in Threads /\ runner[c] # None
      /\ completed[c] => on[c] = {} /\ at[c] = "suspended"
      /\ at[c] \in {"suspend", "suspended"} /\ callback[c] = "stored"
      /\ ~completed[c] => at[c] = "suspend"
      /\ result_[c] # None
  BY DEF CallbackExchange, CoroutineInv, TypeOK, Handshake, OnOneThread
<1>1. CASE completed[c]
  <2>1. /\ at' = [at EXCEPT ![c] = "resumed"]
        /\ on' = [on EXCEPT ![c] = {runner[c]}]
        /\ callback' = [callback EXCEPT ![c] = "done"]
        /\ runner' = [runner EXCEPT ![c] = None]
        /\ completed' = [completed EXCEPT ![c] = TRUE]
        /\ UNCHANGED <<await, result_, continuation, outcome>>
    BY <1>0, <1>1 DEF CallbackExchange, Goto, CoroutineInv, TypeOK
  <2>2. TypeOK'
    BY <1>0, <2>1 DEF CoroutineInv, TypeOK, Places
  <2>3. \A e \in Coros : OnOneThread(e)' /\ Handshake(e)'
    BY <1>0, <2>1 DEF CoroutineInv, TypeOK, OnOneThread, Handshake
  <2>4. ThreadsApart'
    BY <1>0, <2>1 DEF CoroutineInv, TypeOK, ThreadsApart
  <2>5. (\A e \in Coros : Continued(e)' /\ Waits(e)') /\ Unstarted'
    BY <1>0, <2>1, BodyMoves DEF CoroutineInv, TypeOK
  <2> QED BY <2>2, <2>3, <2>4, <2>5 DEF CoroutineInv
<1>2. CASE ~completed[c]
  <2>1. /\ callback' = [callback EXCEPT ![c] = "done"]
        /\ runner' = [runner EXCEPT ![c] = None]
        /\ completed' = [completed EXCEPT ![c] = TRUE]
        /\ UNCHANGED <<at, on, await, result_, continuation, outcome>>
    BY <1>2 DEF CallbackExchange, Goto
  <2>2. TypeOK'
    BY <1>0, <2>1 DEF CoroutineInv, TypeOK, Places
  <2>3. \A e \in Coros : OnOneThread(e)' /\ Handshake(e)'
    BY <1>0, <1>2, <2>1 DEF CoroutineInv, TypeOK, OnOneThread, Handshake
  <2>4. ThreadsApart'
    BY <1>0, <2>1 DEF CoroutineInv, TypeOK, ThreadsApart
  <2>5. (\A e \in Coros : Continued(e)' /\ Waits(e)') /\ Unstarted'
    BY <1>0, <2>1, BodyMoves DEF CoroutineInv, TypeOK
  <2> QED BY <2>2, <2>3, <2>4, <2>5 DEF CoroutineInv
<1> QED BY <1>1, <1>2

\* The final suspend point hands the thread to the continuation, which waits
\* for this task and no other.
LEMMA FinalKeeps ==
  ASSUME CoroutineConstants, CoroutineInv, NEW c \in Coros, FinalSuspend(c)
  PROVE  CoroutineInv'
<1>1. CASE continuation[c] = None
  <2>1. /\ on' = [on EXCEPT ![c] = {}] /\ at[c] = "final"
        /\ UNCHANGED <<at, await, completed, result_, callback, runner,
                       continuation, outcome>>
    BY <1>1 DEF FinalSuspend, awaitable
  <2>2. TypeOK' /\ \A e \in Coros : OnOneThread(e)' /\ Handshake(e)'
    BY <2>1 DEF CoroutineInv, TypeOK, OnOneThread, Handshake
  <2>3. ThreadsApart'
    BY <2>1 DEF CoroutineInv, TypeOK, ThreadsApart
  <2>4. \A e \in Coros : Continued(e)'
    BY <1>1, <2>1 DEF CoroutineInv, TypeOK, Continued, AtWork, Awaited
  <2>5. \A e \in Coros : Waits(e)'
    BY <1>1, <2>1 DEF CoroutineInv, TypeOK, Waits, Awaited
  <2>6. Unstarted'
    BY <2>1 DEF CoroutineInv, Unstarted, AwaitedLater
  <2> QED BY <2>2, <2>3, <2>4, <2>5, <2>6 DEF CoroutineInv
<1>2. CASE continuation[c] # None
  <2>1. PICK p \in Coros : p = continuation[c]
    BY <1>2 DEF CoroutineInv, TypeOK
  <2>2. /\ at[p] = "child" /\ Awaited(p) = c /\ on[p] = {}
        /\ at[c] = "final" /\ on[c] # {} /\ p # c
    BY <1>2, <2>1 DEF FinalSuspend, CoroutineInv, Continued, AtWork, OnOneThread
  <2>3. /\ on' = [on EXCEPT ![c] = {}, ![p] = on[c]]
        /\ at' = [at EXCEPT ![p] = "returned"]
        /\ UNCHANGED <<await, completed, result_, callback, runner,
                       continuation, outcome>>
    BY <1>2, <2>1 DEF FinalSuspend, awaitable, Goto
  <2>4. /\ on'[c] = {} /\ on'[p] = on[c]
        /\ \A e \in Coros \ {c, p} : on'[e] = on[e]
        /\ at'[p] = "returned" /\ \A e \in Coros \ {p} : at'[e] = at[e]
    BY <2>2, <2>3 DEF CoroutineInv, TypeOK
  <2>5. TypeOK'
    BY <2>3 DEF CoroutineInv, TypeOK, Places
  <2>7. ThreadsApart' /\ \A e \in Coros : \A t, u \in on'[e] : t = u
    BY <2>2, <2>3, <2>4, Handover
  <2>6. \A e \in Coros : OnOneThread(e)' /\ Handshake(e)'
    <3>1. ASSUME NEW e \in Coros
          PROVE  OnOneThread(e)'
      <4>1. OnOneThread(e)
        BY DEF CoroutineInv
      <4> QED BY <2>2, <2>4, <2>7, <4>1 DEF OnOneThread
    <3>2. ASSUME NEW e \in Coros
          PROVE  Handshake(e)'
      <4>1. Handshake(e)
        BY DEF CoroutineInv
      <4> QED BY <2>2, <2>3, <2>4, <4>1 DEF Handshake
    <3> QED BY <3>1, <3>2
  <2>8. ASSUME NEW d \in Coros
        PROVE  Continued(d)'
    <3>1. AtWork(d)' => AtWork(d) /\ d # c
      BY <2>2, <2>3, <2>4 DEF AtWork
    <3>2. AtWork(d) /\ d # c => continuation[d] \in Coros \ {p}
      BY <2>2 DEF CoroutineInv, TypeOK, Continued, AtWork
    <3> QED BY <2>3, <2>4, <3>1, <3>2 DEF CoroutineInv, Continued, Awaited
  <2>9. ASSUME NEW e \in Coros
        PROVE  Waits(e)'
    <3>1. Awaited(e)' = Awaited(e) /\ continuation' = continuation
      BY <2>3 DEF Awaited
    <3>0. Waits(e)
      BY DEF CoroutineInv
    <3>2. CASE e = p
      BY <2>1, <2>2, <2>3, <2>4, <3>0, <3>1, <3>2 DEF Waits
    <3>3. CASE e # p
      <4>1. at[e] = "returned" => Awaited(e) \notin {c, p}
        BY <2>2, <3>3 DEF CoroutineInv, Waits
      <4> QED BY <2>3, <2>4, <3>0, <3>1, <3>3, <4>1 DEF Waits
    <3> QED BY <3>2, <3>3
  <2>10. Unstarted'
    BY <2>2, <2>3, <2>4 DEF CoroutineInv, Unstarted, AwaitedLater
  <2> QED BY <2>5, <2>6, <2>7, <2>8, <2>9, <2>10 DEF CoroutineInv
<1> QED BY <1>1, <1>2

\* A task is awaited for the first time when it is awaited: it was not started.
LEMMA AwaitTaskKeeps ==
  ASSUME CoroutineConstants, CoroutineInv, NEW c \in Coros, AwaitTask(c)
  PROVE  CoroutineInv'
<1>1. PICK d \in Coros : d = Awaited(c)
  BY DEF AwaitTask
<1>2. /\ await[c] \in DOMAIN Script[c] /\ Script[c][await[c]] = d
      /\ at[c] = "running" /\ d \notin Roots
  BY <1>1, Scripts DEF AwaitTask, AtAwait, Awaited, CoroutineInv, CoroutineConstants
<1>3. at[d] = "created" /\ d # c /\ on[d] = {} /\ on[c] # {}
  BY <1>2, Scripts DEF CoroutineInv, Unstarted, AwaitedLater, OnOneThread
<1>4. /\ at' = [at EXCEPT ![c] = "child", ![d] = "running"]
      /\ on' = [on EXCEPT ![c] = {}, ![d] = on[c]]
      /\ continuation' = [continuation EXCEPT ![d] = c]
      /\ UNCHANGED <<await, completed, result_, callback, runner, outcome>>
  BY <1>1 DEF AwaitTask, awaitable
<1>5. /\ on'[c] = {} /\ on'[d] = on[c] /\ at'[c] = "child" /\ at'[d] = "running"
      /\ \A e \in Coros \ {c, d} : on'[e] = on[e] /\ at'[e] = at[e]
      /\ continuation'[d] = c
      /\ \A e \in Coros \ {d} : continuation'[e] = continuation[e]
  BY <1>3, <1>4 DEF CoroutineInv, TypeOK
<1>6. TypeOK'
  BY <1>4 DEF CoroutineInv, TypeOK, Places
<1>8. ThreadsApart' /\ \A e \in Coros : \A t, u \in on'[e] : t = u
  BY <1>3, <1>4, <1>5, Handover, ZenonT(40)
<1>7. \A e \in Coros : OnOneThread(e)' /\ Handshake(e)'
  <2>1. ASSUME NEW e \in Coros
        PROVE  OnOneThread(e)'
    <3>1. OnOneThread(e)
      BY DEF CoroutineInv
    <3> QED BY <1>2, <1>3, <1>5, <1>8, <3>1 DEF OnOneThread
  <2>2. ASSUME NEW e \in Coros
        PROVE  Handshake(e)'
    <3>1. Handshake(e)
      BY DEF CoroutineInv
    <3> QED BY <1>2, <1>3, <1>4, <1>5, <3>1 DEF Handshake
  <2> QED BY <2>1, <2>2
<1>9. \A e \in Coros : Awaited(e)' = Awaited(e)
  BY <1>4 DEF Awaited
<1>10. ASSUME NEW e \in Coros
       PROVE  Continued(e)'
  <2>1. CASE e = d
    BY <1>1, <1>2, <1>3, <1>5, <1>9, <2>1 DEF CoroutineConstants, Continued
  <2>2. CASE e # d
    <3>1. continuation'[e] = continuation[e] /\ (AtWork(e)' => AtWork(e))
      BY <1>2, <1>5, <2>2 DEF AtWork
    <3>2. AtWork(e) => continuation[e] \in Coros \ {c, d}
      BY <1>2, <1>3 DEF CoroutineInv, TypeOK, Continued, AtWork
    <3>3. (continuation[e] # None => e \notin Roots)
          /\ (AtWork(e) => /\ at[continuation[e]] = "child"
                           /\ Awaited(continuation[e]) = e)
      BY DEF CoroutineInv, Continued
    <3> QED BY <1>5, <1>9, <3>1, <3>2, <3>3 DEF Continued
  <2> QED BY <2>1, <2>2
<1>11. ASSUME NEW e \in Coros, NEW n \in DOMAIN Script[e], Script[e][n] = d
       PROVE  e = c /\ n = await[c]
  BY <1>2, <1>11 DEF CoroutineConstants
<1>12. ASSUME NEW e \in Coros
       PROVE  Waits(e)'
  <2>1. CASE e = c
    <3>1. await'[c] <= Len(Script[c])
      BY <1>2, <1>4, Scripts DEF CoroutineInv
    <3> QED BY <1>1, <1>5, <1>9, <2>1, <3>1 DEF Waits
  <2>2. CASE e = d
    BY <1>5, <2>2 DEF Waits
  <2>3. CASE e \notin {c, d} /\ at[e] \in {"child", "returned"}
    <3>1. await[e] \in DOMAIN Script[e]
      BY <2>3, Scripts DEF CoroutineInv, Waits
    <3>2. Awaited(e) # d
      BY <1>11, <2>3, <3>1 DEF Awaited
    <3>3. at[e] = "returned" => Awaited(e) # c
      BY <1>2, <2>3 DEF CoroutineInv, Waits
    <3>4. Waits(e)
      BY DEF CoroutineInv
    <3>5. at'[e] = at[e] /\ await'[e] <= Len(Script[e])
      BY <1>4, <1>5, <2>3, <3>4 DEF Waits
    <3>6. Awaited(e)' \in Coros /\ continuation'[Awaited(e)'] = e
      BY <1>5, <1>9, <2>3, <3>2, <3>4 DEF Waits
    <3>7. ASSUME at[e] = "returned"
          PROVE  at'[Awaited(e)'] = "final" /\ on'[Awaited(e)'] = {}
      BY <1>5, <1>9, <3>2, <3>3, <3>4, <3>7 DEF Waits
    <3> QED BY <3>5, <3>6, <3>7 DEF Waits
  <2>4. CASE e \notin {c, d} /\ at[e] \notin {"child", "returned"}
    BY <1>5, <2>4 DEF Waits
  <2> QED BY <2>1, <2>2, <2>3, <2>4
<1>13. ASSUME NEW e \in Coros, NEW n \in DOMAIN Script[e],
              Script[e][n] \in Coros, AwaitedLater(e, n)'
       PROVE  at'[Script[e][n]] = "created"
  <2>1. n \in Nat /\ await[e] \in Nat /\ await[c] \in Nat /\ await' = await
    BY <1>4, Scripts DEF CoroutineInv
  <2>2. AwaitedLater(e, n)
    <3>1. e = d => at[e] = "created"
      BY <1>3
    <3> QED BY <1>2, <1>5, <1>13, <2>1, <3>1 DEF AwaitedLater
  <2>3. at[Script[e][n]] = "created"
    BY <1>13, <2>2 DEF CoroutineInv, Unstarted
  <2>4. ~(e = c /\ n = await[c])
    BY <1>5, <1>13, <2>1 DEF AwaitedLater
  <2> QED BY <1>2, <1>5, <1>11, <1>13, <2>3, <2>4
<1>14. Unstarted'
  BY <1>13 DEF Unstarted
<1> QED BY <1>6, <1>7, <1>8, <1>10, <1>12, <1>14 DEF CoroutineInv

\* The awaited task is over when its result is taken; destroying it touches
\* nobody.
LEMMA TaskResumeKeeps ==
  ASSUME CoroutineConstants, CoroutineInv, NEW c \in Coros, TaskResume(c)
  PROVE  CoroutineInv'
<1>1. Waits(c) /\ at[c] = "returned" /\ on[c] # {}
  BY DEF TaskResume, CoroutineInv, OnOneThread
<1>2. PICK d \in Coros : d = Awaited(c)
  BY <1>1 DEF Waits
<1>3. /\ await[c] \in Nat \ {0} /\ await[c] <= Len(Script[c])
      /\ Len(Script[c]) \in Nat
      /\ await[c] \in DOMAIN Script[c] /\ Script[c][await[c]] = d
      /\ at[d] = "final" /\ on[d] = {} /\ continuation[d] = c /\ d # c
  BY <1>1, <1>2, Scripts DEF CoroutineInv, Waits, Awaited
<1>4. PICK to \in {"running", "final"}, k \in {await[c], await[c] + 1} :
        /\ at' = [at EXCEPT ![c] = to, ![d] = "destroyed"]
        /\ await' = [await EXCEPT ![c] = k]
        /\ to = "running" => k = await[c] + 1
        /\ outcome' \in [Coros -> {"empty", "value", "exception"}]
        /\ UNCHANGED <<on, completed, result_, callback, runner, continuation>>
  <2>1. CASE outcome[d] = "exception"
    BY <1>2, <2>1 DEF TaskResume, awaitable, CoroutineInv, TypeOK
  <2>2. CASE outcome[d] # "exception"
    BY <1>2, <2>2 DEF TaskResume, awaitable, CoroutineInv, TypeOK
  <2> QED BY <2>1, <2>2
<1>5. /\ at'[c] = to /\ at'[d] = "destroyed" /\ await'[c] = k
      /\ \A e \in Coros \ {c, d} : at'[e] = at[e]
      /\ \A e \in Coros \ {c} : await'[e] = await[e]
  BY <1>3, <1>4 DEF CoroutineInv, TypeOK
<1>6. TypeOK'
  BY <1>3, <1>4 DEF CoroutineInv, TypeOK, Places
<1>7. ASSUME NEW e \in Coros
      PROVE  OnOneThread(e)' /\ Handshake(e)'
  <2>1. OnOneThread(e) /\ Handshake(e)
    BY DEF CoroutineInv
  <2> QED BY <1>1, <1>3, <1>4, <1>5, <2>1 DEF OnOneThread, Handshake
<1>8. ThreadsApart'
  BY <1>4 DEF CoroutineInv, ThreadsApart
<1>9. ASSUME NEW e \in Coros
      PROVE  Continued(e)'
  <2>1. AtWork(e)' => AtWork(e)
    BY <1>1, <1>3, <1>4, <1>5 DEF AtWork
  <2>2. AtWork(e) => continuation[e] \in Coros \ {c, d}
    BY <1>1, <1>3 DEF CoroutineInv, TypeOK, Continued, AtWork
  <2>3. Continued(e)
    BY DEF CoroutineInv
  <2>4. AtWork(e)' => /\ at'[continuation[e]] = "child"
                      /\ Awaited(continuation[e])' = e
    BY <1>4, <1>5, <2>1, <2>2, <2>3, ZenonT(40) DEF Continued, Awaited
  <2> QED BY <1>4, <2>3, <2>4 DEF Continued
<1>10. ASSUME NEW e \in Coros, NEW n \in DOMAIN Script[e], Script[e][n] = d
       PROVE  e = c /\ n = await[c]
  BY <1>3, <1>10 DEF CoroutineConstants
<1>11. ASSUME NEW e \in Coros
       PROVE  Waits(e)'
  <2>1. CASE e \in {c, d} \/ at[e] \notin {"child", "returned"}
    BY <1>5, <2>1 DEF Waits
  <2>2. CASE e \notin {c, d} /\ at[e] \in {"child", "returned"}
    <3>1. Waits(e)
      BY DEF CoroutineInv
    <3>2. /\ await[e] \in DOMAIN Script[e] /\ Awaited(e)' = Awaited(e)
          /\ at'[e] = at[e] /\ await'[e] = await[e]
      BY <1>5, <2>2, <3>1, Scripts DEF CoroutineInv, Waits, Awaited
    <3>3. Awaited(e) # d
      BY <1>10, <2>2, <3>2 DEF Awaited
    <3>4. at[e] = "returned" => Awaited(e) # c
      BY <1>1, <3>1 DEF Waits
    <3> QED BY <1>4, <1>5, <2>2, <3>1, <3>2, <3>3, <3>4, ZenonT(40) DEF Waits
  <2> QED BY <2>1, <2>2
<1>12. ASSUME NEW e \in Coros, NEW n \in DOMAIN Script[e],
              Script[e][n] \in Coros, AwaitedLater(e, n)'
       PROVE  at'[Script[e][n]] = "created"
  <2>1. n \in Nat /\ await[e] \in Nat
    BY Scripts DEF CoroutineInv
  <2>2. AwaitedLater(e, n) /\ ~(e = c /\ n = await[c])
    BY <1>1, <1>3, <1>4, <1>5, <1>12, <2>1 DEF AwaitedLater
  <2>3. at[Script[e][n]] = "created"
    BY <1>12, <2>2 DEF CoroutineInv, Unstarted
  <2> QED BY <1>1, <1>5, <1>10, <1>12, <2>2, <2>3
<1>13. Unstarted'
  BY <1>12 DEF Unstarted
<1> QED BY <1>6, <1>7, <1>8, <1>9, <1>11, <1>13 DEF CoroutineInv

\* What the application does with a Task it holds, and the return of its body.
LEMMA RootKeeps ==
  ASSUME CoroutineConstants, CoroutineInv, NEW c \in Coros,
         Return(c) \/ Get(c) \/ Destroy(c)
  PROVE  CoroutineInv'
<1>1. CASE Return(c)
  <2> USE <1>1 DEF Return, Finish, Goto, awaitable
  <2>1. TypeOK'
    BY DEF CoroutineInv, TypeOK, Places
  <2>2. \A e \in Coros : OnOneThread(e)' /\ Handshake(e)'
    BY DEF CoroutineInv, TypeOK, OnOneThread, Handshake
  <2>3. ThreadsApart'
    BY DEF CoroutineInv, ThreadsApart
  <2>4. (\A e \in Coros : Continued(e)' /\ Waits(e)') /\ Unstarted'
    BY BodyMoves DEF CoroutineInv, TypeOK
  <2> QED BY <2>1, <2>2, <2>3, <2>4 DEF CoroutineInv
<1>2. CASE Get(c)
  <2> USE <1>2 DEF Get, awaitable
  <2>1. TypeOK' /\ \A e \in Coros : OnOneThread(e)' /\ Handshake(e)'
    BY DEF CoroutineInv, TypeOK, OnOneThread, Handshake
  <2>2. ThreadsApart' /\ Unstarted'
    BY DEF CoroutineInv, ThreadsApart, Unstarted, AwaitedLater
  <2>3. \A e \in Coros : Continued(e)' /\ Waits(e)'
    BY DEF CoroutineInv, Continued, Waits, AtWork, Awaited
  <2> QED BY <2>1, <2>2, <2>3 DEF CoroutineInv
<1>3. CASE Destroy(c)
  <2>1. /\ c \in Roots /\ at[c] = "final" /\ on[c] = {}
        /\ at' = [at EXCEPT ![c] = "destroyed"] /\ continuation[c] = None
        /\ UNCHANGED <<on, await, completed, result_, callback, runner,
                       continuation, outcome>>
    BY <1>3 DEF Destroy, Goto, awaitable, CoroutineConstants, CoroutineInv,
                Continued
  <2>2. TypeOK' /\ \A e \in Coros : OnOneThread(e)' /\ Handshake(e)'
    BY <2>1 DEF CoroutineInv, TypeOK, Places, OnOneThread, Handshake
  <2>3. ThreadsApart'
    BY <2>1 DEF CoroutineInv, ThreadsApart
  <2>4. ASSUME NEW e \in Coros
        PROVE  Continued(e)' /\ Waits(e)'
    <3>1. Continued(e) /\ Waits(e) /\ Awaited(e)' = Awaited(e)
      BY <2>1 DEF CoroutineInv, Awaited
    <3>2. at[e] = "returned" => Awaited(e) # c
      BY <2>1, <3>1 DEF Waits, CoroutineConstants
    <3>3. Waits(e)'
      BY <2>1, <3>1, <3>2 DEF Waits, CoroutineInv, TypeOK
    <3>4. AtWork(e)' => AtWork(e) /\ continuation[e] \in Coros \ {c}
      BY <2>1, <3>1 DEF AtWork, Continued, CoroutineInv, TypeOK
    <3> QED BY <2>1, <3>1, <3>3, <3>4 DEF Continued, Awaited, CoroutineInv, TypeOK
  <2>5. Unstarted'
    BY <2>1 DEF CoroutineInv, TypeOK, Unstarted, AwaitedLater
  <2> QED BY <2>2, <2>3, <2>4, <2>5 DEF CoroutineInv
<1> QED BY <1>1, <1>2, <1>3

\* A thread that is at nothing else starts a Task or runs a callback.
LEMMA IdleThreadKeeps ==
  ASSUME CoroutineConstants, CoroutineInv, NEW c \in Coros, NEW t \in Threads,
         Resume(t, c) \/ CallbackStore(t, c)
  PROVE  CoroutineInv'
<1>1. CASE Resume(t, c)
  <2>1. /\ c \in Roots /\ at[c] = "created" /\ continuation[c] = None
        /\ \A e \in Coros : t \notin on[e] /\ runner[e] # t
        /\ at' = [at EXCEPT ![c] = "running"] /\ on' = [on EXCEPT ![c] = {t}]
        /\ UNCHANGED <<await, completed, result_, callback, runner,
                       continuation, outcome>>
    BY <1>1 DEF Resume, Idle, Goto, awaitable, CoroutineInv, Continued
  <2>2. TypeOK' /\ \A e \in Coros : OnOneThread(e)' /\ Handshake(e)'
    BY <2>1 DEF CoroutineInv, TypeOK, Places, OnOneThread, Handshake
  <2>3. ThreadsApart'
    BY <2>1 DEF CoroutineInv, TypeOK, ThreadsApart
  <2>4. ASSUME NEW e \in Coros
        PROVE  Continued(e)' /\ Waits(e)'
    <3>1. Continued(e) /\ Waits(e) /\ Awaited(e)' = Awaited(e)
      BY <2>1 DEF CoroutineInv, Awaited
    <3>2. at[e] = "returned" => Awaited(e) # c
      BY <2>1, <3>1 DEF Waits, CoroutineConstants
    <3>3. Waits(e)'
      BY <2>1, <3>1, <3>2 DEF Waits, CoroutineInv, TypeOK
    <3>4. AtWork(e)' => AtWork(e) /\ continuation[e] \in Coros \ {c}
      BY <2>1, <3>1 DEF AtWork, Continued, CoroutineInv, TypeOK
    <3> QED BY <2>1, <3>1, <3>3, <3>4 DEF Continued, Awaited, CoroutineInv, TypeOK
  <2>5. Unstarted'
    <3>1. \A e \in Coros : \A n \in DOMAIN Script[e] : Script[e][n] # c
      BY <2>1 DEF CoroutineConstants, Operations
    <3> QED BY <2>1, <3>1 DEF CoroutineInv, TypeOK, Unstarted, AwaitedLater
  <2> QED BY <2>2, <2>3, <2>4, <2>5 DEF CoroutineInv
<1>2. CASE CallbackStore(t, c)
  <2>1. PICK r \in {"ok", "error"} :
          /\ callback[c] = "pending"
          /\ \A e \in Coros : t \notin on[e] /\ runner[e] # t
          /\ result_' = [result_ EXCEPT ![c] = r]
          /\ callback' = [callback EXCEPT ![c] = "stored"]
          /\ runner' = [runner EXCEPT ![c] = t]
          /\ UNCHANGED <<at, on, await, completed, continuation, outcome>>
    BY <1>2 DEF CallbackStore, Idle
  <2>2. TypeOK' /\ \A e \in Coros : OnOneThread(e)' /\ Handshake(e)'
    BY <2>1 DEF CoroutineConstants, CoroutineInv, TypeOK, OnOneThread, Handshake
  <2>3. ThreadsApart'
    BY <2>1 DEF CoroutineInv, TypeOK, ThreadsApart
  <2>4. Unstarted'
    BY <2>1 DEF CoroutineInv, Unstarted, AwaitedLater
  <2>5. \A e \in Coros : Continued(e)' /\ Waits(e)'
    BY <2>1 DEF CoroutineInv, Continued, Waits, AtWork, Awaited
  <2> QED BY <2>2, <2>3, <2>4, <2>5 DEF CoroutineInv
<1> QED BY <1>1, <1>2

\* At the start nothing was awaited.
LEMMA CoroutineInit ==
  ASSUME CoroutineConstants, Init
  PROVE  CoroutineInv
<1>1. TypeOK
  BY DEF CoroutineConstants, Init, TypeOK, Places
<1>2. \A c \in Coros : OnOneThread(c) /\ Handshake(c) /\ Continued(c) /\ Waits(c)
  BY DEF CoroutineConstants, Init, OnOneThread, Handshake, Continued, AtWork, Waits
<1>3. ThreadsApart /\ Unstarted
  BY DEF Init, ThreadsApart, Unstarted
<1> QED BY <1>1, <1>2, <1>3 DEF CoroutineInv

\* Every step keeps the invariant.
LEMMA CoroutineStep ==
  ASSUME CoroutineConstants, CoroutineInv, [Next]_vars
  PROVE  CoroutineInv'
<1>1. CASE UNCHANGED vars
  <2>1. TypeOK' /\ ThreadsApart'
    BY <1>1 DEF vars, CoroutineInv, TypeOK, ThreadsApart
  <2>2. \A c \in Coros : OnOneThread(c)' /\ Handshake(c)'
    BY <1>1 DEF vars, CoroutineInv, OnOneThread, Handshake
  <2>3. \A c \in Coros : Continued(c)' /\ Waits(c)'
    BY <1>1 DEF vars, CoroutineInv, Continued, Waits, AtWork, Awaited
  <2>4. Unstarted'
    BY <1>1 DEF vars, CoroutineInv, Unstarted, AwaitedLater
  <2> QED BY <2>1, <2>2, <2>3, <2>4 DEF CoroutineInv
<1>2. CASE Next
  BY <1>2, SubmitKeeps, CommitKeeps, AwaitResumeKeeps, ExchangeKeeps,
     FinalKeeps, AwaitTaskKeeps, TaskResumeKeeps, RootKeeps, IdleThreadKeeps
     DEF Next, Step
<1> QED BY <1>1, <1>2

\* For every set of coroutines, whatever each awaits, and every number of
\* threads: a coroutine is resumed by one side of the exchange only, when it is
\* suspended and its result is there; no thread executes two coroutines, no two
\* threads one, and nobody a frame that is destroyed.
THEOREM CoroutinesAreSafe ==
  ASSUME CoroutineConstants
  PROVE  Spec => []CoroutineSafe
<1>1. Init => CoroutineInv
  BY CoroutineInit
<1>2. CoroutineInv /\ [Next]_vars => CoroutineInv'
  BY CoroutineStep
<1>3. CoroutineInv => CoroutineSafe
  <2> SUFFICES ASSUME CoroutineInv PROVE CoroutineSafe
    OBVIOUS
  <2>1. ASSUME NEW c \in Coros
        PROVE  Cardinality(on[c]) <= 1
    <3>1. CASE on[c] = {}
      BY <3>1, FS_EmptySet
    <3>2. CASE on[c] # {}
      <4>1. PICK t : on[c] = {t}
        BY <3>2, SMTT(30) DEF CoroutineInv, OnOneThread
      <4> QED BY <4>1, FS_Singleton
    <3> QED BY <3>1, <3>2
  <2>2. ResumedOnce
    BY <2>1 DEF ResumedOnce, CoroutineInv, TypeOK, Handshake
  <2>3. FramesOutliveUse
    BY ZenonT(40) DEF FramesOutliveUse, CoroutineInv, TypeOK, ThreadsApart, OnOneThread,
           Handshake
  <2> QED BY <2>2, <2>3 DEF CoroutineSafe
<1> QED BY <1>1, <1>2, <1>3, PTL DEF Spec

-----------------------------------------------------------------------------
(* The visited set *)

CONSTANTS Keys, Homes, Inserts, Cap, Load, NoKey
VARIABLES hash, wants, buckets, keys, count, pc, idx, scan, steps, result

Visited == INSTANCE VisitedSet

\* The mask of a hash is a bucket, and the next bucket is one up or the first.
LEMMA MaskFacts ==
  ASSUME Visited!VisitedConstants, NEW n \in Nat
  PROVE  /\ Visited!Mask(n) \in Visited!Buckets
         /\ n \in Visited!Buckets =>
              Visited!Mask(n + 1) = IF n + 1 = Cap THEN 0 ELSE n + 1
<1>1. Cap \in Nat \ {0}
  BY DEF Visited!VisitedConstants
<1>2. n % Cap \in 0 .. Cap - 1
  BY <1>1
<1>3. ASSUME n \in 0 .. Cap - 1
      PROVE  (n + 1) % Cap = IF n + 1 = Cap THEN 0 ELSE n + 1
  <2>1. CASE n + 1 = Cap
    BY <1>1, <2>1
  <2>2. CASE n + 1 < Cap
    BY <1>1, <1>3, <2>2
  <2> QED BY <1>1, <1>3, <2>1, <2>2
<1> QED BY <1>2, <1>3 DEF Visited!Mask, Visited!Buckets

\* A key has a home bucket and a tag, which is neither of the marks.
LEMMA HomeFacts ==
  ASSUME Visited!VisitedConstants, Visited!VisitedTypes, NEW t \in Threads
  PROVE  /\ Visited!Home(t) \in Visited!Buckets
         /\ Visited!Tag(t) \in Nat
         /\ Visited!Tag(t) \notin {Visited!Empty, Visited!Pending}
<1>1. wants[t] \in Keys /\ hash[wants[t]] \in Nat
  BY DEF Visited!VisitedTypes
<1> QED BY <1>1, MaskFacts DEF Visited!Home, Visited!Tag, Visited!visited_tag,
           Visited!Empty, Visited!Pending

\* Distances are numbers; a bucket nearer than another is another one.
LEMMA DistanceFacts ==
  ASSUME Visited!VisitedConstants, Visited!VisitedTypes, NEW t \in Threads,
         NEW b \in Visited!Buckets, NEW c \in Visited!Buckets
  PROVE  /\ Visited!Distance(t, b) \in 0 .. Cap - 1
         /\ Visited!Distance(t, b) = Visited!Distance(t, c) => b = c
         /\ Visited!Distance(t, Visited!Home(t)) = 0
<1>1. Visited!Home(t) \in 0 .. Cap - 1 /\ Cap \in Nat
  BY HomeFacts DEF Visited!Buckets, Visited!VisitedConstants
<1> QED BY <1>1 DEF Visited!Distance, Visited!Buckets

\* Where a thread holds a key some thread stays with it.
LEMMA SomebodyStays ==
  ASSUME Visited!VisitedConstants, Visited!VisitedInv, NEW v \in Threads,
         Visited!Holds(v)
  PROVE  \E u \in Threads :
           /\ wants[u] = wants[v] /\ Visited!Stays(u)
           /\ Visited!Distance(u, idx[u]) <= Visited!Distance(v, idx[v])
<1>1. \A u \in Threads : Visited!Distance(u, idx[u]) \in Int
  BY DistanceFacts DEF Visited!VisitedInv, Visited!VisitedTypes
<1>2. CASE Visited!Stays(v)
  BY <1>1, <1>2
<1>3. CASE pc[v] = "release"
  BY <1>1, <1>3 DEF Visited!VisitedInv, Visited!LeftToOther
<1> QED BY <1>2, <1>3 DEF Visited!Holds

\* A bucket with the tag and the key of t is held by a thread with that key.
LEMMA FoundKeyHeld ==
  ASSUME Visited!VisitedConstants, Visited!VisitedInv, NEW t \in Threads,
         NEW b \in Visited!Buckets, buckets[b] = Visited!Tag(t),
         keys[b] = wants[t]
  PROVE  \E v \in Threads : Visited!Holds(v) /\ idx[v] = b /\ wants[v] = wants[t]
<1>1. buckets[b] \notin {Visited!Empty, Visited!Pending}
  BY HomeFacts DEF Visited!VisitedInv
<1> QED BY <1>1 DEF Visited!VisitedInv, Visited!Owned

\* A thread that looks for its key and has no bucket disturbs nobody; it may
\* say that the key is present where a thread holds it.
LEMMA SearchKeeps ==
  ASSUME Visited!VisitedConstants, Visited!VisitedInv, NEW t \in Threads,
         pc[t] \in {"load", "probe", "claim"},
         UNCHANGED <<hash, wants, buckets, keys, scan>>,
         \E to \in {"probe", "claim", "returned"},
            r \in {"none", "full", "present"}, b \in Visited!Buckets :
           /\ pc' = [pc EXCEPT ![t] = to]
           /\ result' = [result EXCEPT ![t] = r]
           /\ idx' = [idx EXCEPT ![t] = b]
           /\ to = "returned" <=> r # "none"
           /\ r = "present" => /\ buckets[idx[t]] = Visited!Tag(t)
                               /\ keys[idx[t]] = wants[t]
  PROVE  Visited!VisitedInv'
<1>1. PICK to \in {"probe", "claim", "returned"},
           r \in {"none", "full", "present"}, b \in Visited!Buckets :
           /\ pc' = [pc EXCEPT ![t] = to]
           /\ result' = [result EXCEPT ![t] = r]
           /\ idx' = [idx EXCEPT ![t] = b]
           /\ to = "returned" <=> r # "none"
           /\ r = "present" => /\ buckets[idx[t]] = Visited!Tag(t)
                               /\ keys[idx[t]] = wants[t]
  OBVIOUS
<1>2. Visited!VisitedTypes'
  BY <1>1 DEF Visited!VisitedInv, Visited!VisitedTypes
<1>3. /\ ~Visited!Claims(t) /\ ~Visited!Holds(t)
      /\ ~Visited!Claims(t)' /\ ~Visited!Holds(t)'
      /\ \A u \in Threads \ {t} :
           /\ pc'[u] = pc[u] /\ result'[u] = result[u] /\ idx'[u] = idx[u]
           /\ Visited!Claims(u)' = Visited!Claims(u)
           /\ Visited!Stays(u)' = Visited!Stays(u)
           /\ Visited!Holds(u)' = Visited!Holds(u)
  BY <1>1 DEF Visited!VisitedInv, Visited!VisitedTypes, Visited!Claims,
     Visited!Holds, Visited!Stays
<1>4. \A u \in Threads, c \in Visited!Buckets :
         /\ Visited!Tag(u)' = Visited!Tag(u)
         /\ Visited!Distance(u, c)' = Visited!Distance(u, c)
  BY DEF Visited!Tag, Visited!visited_tag, Visited!Distance, Visited!Home
<1>5. Visited!Owned'
  BY <1>1, <1>3, <1>4 DEF Visited!VisitedInv, Visited!Owned
<1>6. ASSUME NEW u \in Threads
      PROVE  Visited!LeftToOther(u)'
  <2>1. \A v \in Threads : Visited!Stays(v) =>
          /\ Visited!Stays(v)'
          /\ Visited!Distance(v, idx[v])' = Visited!Distance(v, idx[v])
    BY <1>3, <1>4 DEF Visited!VisitedInv, Visited!VisitedTypes, Visited!Holds
  <2>2. CASE u = t
    <3>1. ASSUME r = "present"
          PROVE  \E v \in Threads : wants[v] = wants[t] /\ Visited!Stays(v)
      <4>1. idx[t] \in Visited!Buckets
        BY DEF Visited!VisitedInv, Visited!VisitedTypes
      <4>2. PICK v \in Threads : Visited!Holds(v) /\ wants[v] = wants[t]
        BY <1>1, <3>1, <4>1, FoundKeyHeld
      <4> QED BY <4>2, SomebodyStays
    <3>2. pc'[t] = to /\ result'[t] = r
      BY <1>1 DEF Visited!VisitedInv, Visited!VisitedTypes
    <3> QED BY <2>1, <2>2, <3>1, <3>2 DEF Visited!LeftToOther
  <2>3. CASE u # t
    <3>1. /\ Visited!LeftToOther(u) /\ idx[u] \in Visited!Buckets
          /\ scan[u] \in Visited!Buckets
      BY DEF Visited!VisitedInv, Visited!VisitedTypes
    <3>2. /\ Visited!Distance(u, idx[u])' = Visited!Distance(u, idx[u])
          /\ Visited!Distance(u, scan[u])' = Visited!Distance(u, scan[u])
      BY <1>3, <1>4, <2>3, <3>1
    <3> QED BY <1>3, <2>1, <2>3, <3>1, <3>2 DEF Visited!LeftToOther
  <2> QED BY <2>2, <2>3
<1> QED BY <1>2, <1>5, <1>6 DEF Visited!VisitedInv

\* What a step of t that keeps its place in the table leaves alone.
LEMMA OthersStand ==
  ASSUME Visited!VisitedTypes, NEW t \in Threads, NEW to, NEW r,
         pc' = [pc EXCEPT ![t] = to], result' = [result EXCEPT ![t] = r],
         UNCHANGED <<hash, wants, idx>>
  PROVE  /\ pc'[t] = to /\ result'[t] = r
         /\ \A u \in Threads \ {t} :
              /\ pc'[u] = pc[u] /\ result'[u] = result[u]
              /\ Visited!Claims(u)' <=> Visited!Claims(u)
              /\ Visited!Stays(u)' <=> Visited!Stays(u)
              /\ Visited!Holds(u)' <=> Visited!Holds(u)
         /\ \A u \in Threads :
              /\ Visited!Tag(u)' = Visited!Tag(u)
              /\ Visited!Home(u)' = Visited!Home(u)
              /\ Visited!Distance(u, idx[u])' = Visited!Distance(u, idx[u])
              /\ \A c \in Visited!Buckets :
                   Visited!Distance(u, c)' = Visited!Distance(u, c)
<1>1. /\ pc'[t] = to /\ result'[t] = r
      /\ \A u \in Threads \ {t} : pc'[u] = pc[u] /\ result'[u] = result[u]
  BY DEF Visited!VisitedTypes
<1>2. \A u \in Threads :
        /\ Visited!Tag(u)' = Visited!Tag(u)
        /\ Visited!Home(u)' = Visited!Home(u)
        /\ Visited!Distance(u, idx[u])' = Visited!Distance(u, idx[u])
        /\ \A c \in Visited!Buckets :
             Visited!Distance(u, c)' = Visited!Distance(u, c)
  BY DEF Visited!Tag, Visited!visited_tag, Visited!Distance, Visited!Home
<1> QED BY <1>1, <1>2 DEF Visited!Claims, Visited!Stays, Visited!Holds

\* As long as those who stay go on to stay, the others are as well off as before.
LEMMA LeftKept ==
  ASSUME Visited!VisitedInv, NEW t \in Threads, NEW to, NEW r,
         pc' = [pc EXCEPT ![t] = to], result' = [result EXCEPT ![t] = r],
         UNCHANGED <<hash, wants, idx>>,
         Visited!Stays(t) => Visited!Stays(t)',
         \A u \in Threads \ {t} : scan'[u] = scan[u],
         NEW u \in Threads \ {t}
  PROVE  Visited!LeftToOther(u)'
<1> USE DEF Visited!VisitedInv
<1>1. \A v \in Threads : Visited!Stays(v) => Visited!Stays(v)'
  BY OthersStand
<1>2. /\ pc'[u] = pc[u] /\ result'[u] = result[u]
      /\ \A v \in Threads :
           Visited!Distance(v, idx[v])' = Visited!Distance(v, idx[v])
      /\ \A c \in Visited!Buckets :
           Visited!Distance(u, c)' = Visited!Distance(u, c)
  BY OthersStand
<1>3. scan'[u] = scan[u] /\ scan[u] \in Visited!Buckets /\ wants' = wants
  BY DEF Visited!VisitedTypes
<1>4. Visited!Distance(u, scan[u])' = Visited!Distance(u, scan[u])
  BY <1>2, <1>3
<1>5. Visited!LeftToOther(u)
  OBVIOUS
<1> HIDE DEF Visited!VisitedInv
<1> QED BY <1>1, <1>2, <1>3, <1>4, <1>5 DEF Visited!LeftToOther

\* The claim of an empty bucket, which nobody has, and the key written to it.
LEMMA ClaimKeeps ==
  ASSUME Visited!VisitedConstants, Visited!VisitedInv, NEW t \in Threads,
         \/ Visited!Claim(t) /\ buckets[idx[t]] = Visited!Empty
         \/ Visited!WriteKey(t)
  PROVE  Visited!VisitedInv'
<1> DEFINE to == IF pc[t] = "claim" THEN "key" ELSE "publish"
<1>1. /\ pc[t] \in {"claim", "key"} /\ result[t] = "none"
      /\ pc' = [pc EXCEPT ![t] = to] /\ result' = [result EXCEPT ![t] = "none"]
      /\ buckets' = [buckets EXCEPT ![idx[t]] = Visited!Pending]
      /\ keys' = IF to = "publish" THEN [keys EXCEPT ![idx[t]] = wants[t]] ELSE keys
      /\ UNCHANGED <<hash, wants, idx, scan>>
      /\ pc[t] = "claim" => buckets[idx[t]] = Visited!Empty
      /\ pc[t] = "key" => buckets[idx[t]] = Visited!Pending
  BY DEF Visited!Claim, Visited!WriteKey, Visited!Goto, Visited!ClaimMark,
     Visited!VisitedInv, Visited!VisitedTypes, Visited!Owned, Visited!Claims
<1>2. to \in {"key", "publish"}
  OBVIOUS
<1> HIDE DEF to
<1>3. Visited!VisitedTypes'
  BY <1>1, <1>2 DEF Visited!VisitedInv, Visited!VisitedTypes, Visited!Pending
<1>4. ASSUME NEW u \in Threads \ {t}, Visited!Claims(u) \/ Visited!Holds(u)
      PROVE  idx[u] # idx[t]
  <2>1. CASE pc[t] = "key"
    BY <1>4, <2>1 DEF Visited!VisitedInv, Visited!Owned, Visited!Claims
  <2>2. CASE pc[t] = "claim"
    <3>1. buckets[idx[u]] # Visited!Empty
      BY <1>4, HomeFacts DEF Visited!VisitedInv, Visited!Owned, Visited!Empty,
         Visited!Pending
    <3> QED BY <1>1, <2>2, <3>1
  <2> QED BY <1>1, <2>1, <2>2
<1>5. /\ pc'[t] = to /\ result'[t] = "none"
      /\ \A u \in Threads \ {t} :
           /\ pc'[u] = pc[u] /\ result'[u] = result[u]
           /\ Visited!Claims(u)' <=> Visited!Claims(u)
           /\ Visited!Stays(u)' <=> Visited!Stays(u)
           /\ Visited!Holds(u)' <=> Visited!Holds(u)
      /\ \A u \in Threads : Visited!Tag(u)' = Visited!Tag(u)
  BY <1>1, OthersStand DEF Visited!VisitedInv
<1>6. /\ ~Visited!Holds(t) /\ ~Visited!Holds(t)' /\ Visited!Claims(t)'
      /\ ~Visited!Stays(t)
  BY <1>1, <1>2, <1>5 DEF Visited!Holds, Visited!Claims, Visited!Stays
<1>7. /\ idx \in [Threads -> Visited!Buckets]
      /\ buckets'[idx[t]] = Visited!Pending
      /\ to = "publish" => keys'[idx[t]] = wants[t]
      /\ \A b \in Visited!Buckets : b # idx[t] =>
           buckets'[b] = buckets[b] /\ keys'[b] = keys[b]
  BY <1>1 DEF Visited!VisitedInv, Visited!VisitedTypes
<1>8. Visited!Owned'
  <2>1. ASSUME NEW u \in Threads
        PROVE  /\ Visited!Claims(u)' => buckets'[idx[u]] = Visited!Pending
               /\ pc'[u] = "publish" => keys'[idx[u]] = wants[u]
               /\ Visited!Holds(u)' => /\ buckets'[idx[u]] = Visited!Tag(u)
                                       /\ keys'[idx[u]] = wants[u]
    BY <1>4, <1>5, <1>6, <1>7 DEF Visited!VisitedInv, Visited!Owned, Visited!Claims
  <2>2. ASSUME NEW u \in Threads, NEW v \in Threads, idx[u] = idx[v],
               Visited!Claims(u)' \/ Visited!Holds(u)',
               Visited!Claims(v)' \/ Visited!Holds(v)'
        PROVE  u = v
    BY <1>4, <1>5, <2>2 DEF Visited!VisitedInv, Visited!Owned
  <2>3. ASSUME NEW b \in Visited!Buckets,
               buckets'[b] \notin {Visited!Empty, Visited!Pending}
        PROVE  \E u \in Threads : Visited!Holds(u)' /\ idx[u] = b
    <3>1. b # idx[t] /\ buckets[b] \notin {Visited!Empty, Visited!Pending}
      BY <1>7, <2>3
    <3> QED BY <1>5, <1>6, <3>1 DEF Visited!VisitedInv, Visited!Owned
  <2> QED BY <1>1, <1>5, <2>1, <2>2, <2>3 DEF Visited!Owned
<1>9. ASSUME NEW u \in Threads
      PROVE  Visited!LeftToOther(u)'
  <2>1. CASE u # t
    BY <1>1, <1>6, <2>1, LeftKept
  <2>2. CASE u = t
    BY <1>2, <1>5, <2>2 DEF Visited!LeftToOther
  <2> QED BY <2>1, <2>2
<1> QED BY <1>3, <1>8, <1>9 DEF Visited!VisitedInv

\* The tag published over the mark: the bucket is now held.
LEMMA PublishKeeps ==
  ASSUME Visited!VisitedConstants, Visited!VisitedInv, NEW t \in Threads,
         Visited!Publish(t)
  PROVE  Visited!VisitedInv'
<1>1. /\ pc[t] = "publish" /\ result[t] = "none"
      /\ pc' = [pc EXCEPT ![t] = "rescan"]
      /\ result' = [result EXCEPT ![t] = "none"]
      /\ buckets' = [buckets EXCEPT ![idx[t]] = Visited!Tag(t)]
      /\ scan' = [scan EXCEPT ![t] = Visited!Home(t)]
      /\ UNCHANGED <<hash, wants, keys, idx>>
  BY DEF Visited!Publish, Visited!Goto, Visited!VisitedInv, Visited!VisitedTypes
<1>2. /\ Visited!Tag(t) \in Nat /\ Visited!Home(t) \in Visited!Buckets
      /\ Visited!Tag(t) \notin {Visited!Empty, Visited!Pending}
  BY HomeFacts DEF Visited!VisitedInv
<1>3. Visited!VisitedTypes'
  BY <1>1, <1>2 DEF Visited!VisitedInv, Visited!VisitedTypes
<1>4. /\ pc'[t] = "rescan" /\ result'[t] = "none"
      /\ \A u \in Threads \ {t} :
           /\ pc'[u] = pc[u] /\ result'[u] = result[u]
           /\ Visited!Claims(u)' <=> Visited!Claims(u)
           /\ Visited!Stays(u)' <=> Visited!Stays(u)
           /\ Visited!Holds(u)' <=> Visited!Holds(u)
      /\ \A u \in Threads : Visited!Tag(u)' = Visited!Tag(u)
  BY <1>1, OthersStand DEF Visited!VisitedInv
<1>5. /\ Visited!Claims(t) /\ ~Visited!Stays(t)
      /\ Visited!Holds(t)' /\ ~Visited!Claims(t)'
  BY <1>1, <1>4 DEF Visited!Holds, Visited!Claims, Visited!Stays
<1>6. \A u \in Threads \ {t} : Visited!Claims(u) \/ Visited!Holds(u)
        => idx[u] # idx[t]
  BY <1>5 DEF Visited!VisitedInv, Visited!Owned
<1>7. /\ idx \in [Threads -> Visited!Buckets] /\ keys[idx[t]] = wants[t]
      /\ buckets'[idx[t]] = Visited!Tag(t)
      /\ \A b \in Visited!Buckets : b # idx[t] => buckets'[b] = buckets[b]
  BY <1>1 DEF Visited!VisitedInv, Visited!VisitedTypes, Visited!Owned
<1>8. Visited!Owned'
  <2>1. ASSUME NEW u \in Threads
        PROVE  /\ Visited!Claims(u)' => buckets'[idx[u]] = Visited!Pending
               /\ pc'[u] = "publish" => keys[idx[u]] = wants[u]
               /\ Visited!Holds(u)' => /\ buckets'[idx[u]] = Visited!Tag(u)
                                       /\ keys[idx[u]] = wants[u]
    BY <1>4, <1>5, <1>6, <1>7 DEF Visited!VisitedInv, Visited!Owned, Visited!Claims
  <2>2. ASSUME NEW u \in Threads, NEW v \in Threads, idx[u] = idx[v],
               Visited!Claims(u)' \/ Visited!Holds(u)',
               Visited!Claims(v)' \/ Visited!Holds(v)'
        PROVE  u = v
    BY <1>4, <1>6, <2>2 DEF Visited!VisitedInv, Visited!Owned
  <2>3. ASSUME NEW b \in Visited!Buckets,
               buckets'[b] \notin {Visited!Empty, Visited!Pending}
        PROVE  \E u \in Threads : Visited!Holds(u)' /\ idx[u] = b
    <3>1. CASE b = idx[t]
      BY <1>5, <3>1
    <3>2. CASE b # idx[t]
      <4>1. PICK u \in Threads : Visited!Holds(u) /\ idx[u] = b
        BY <1>7, <2>3, <3>2 DEF Visited!VisitedInv, Visited!Owned
      <4> QED BY <1>4, <3>2, <4>1
    <3> QED BY <3>1, <3>2
  <2> QED BY <1>1, <1>4, <2>1, <2>2, <2>3 DEF Visited!Owned
<1>9. ASSUME NEW u \in Threads
      PROVE  Visited!LeftToOther(u)'
  <2>1. CASE u # t
    <3>1. \A v \in Threads \ {t} : scan'[v] = scan[v]
      BY <1>1 DEF Visited!VisitedInv, Visited!VisitedTypes
    <3> QED BY <1>1, <1>5, <2>1, <3>1, LeftKept
  <2>2. CASE u = t
    <3>1. /\ scan'[t] = Visited!Home(t)
          /\ Visited!Distance(t, Visited!Home(t)) = 0
          /\ Visited!Distance(t, idx[t]) \in Nat
      BY <1>1, <1>2, <1>7, DistanceFacts DEF Visited!VisitedInv, Visited!VisitedTypes
    <3>2. /\ Visited!Distance(t, scan[t])' = Visited!Distance(t, scan'[t])
          /\ Visited!Distance(t, idx[t])' = Visited!Distance(t, idx[t])
      BY <1>1 DEF Visited!Distance, Visited!Home
    <3> QED BY <1>4, <2>2, <3>1, <3>2 DEF Visited!LeftToOther
  <2> QED BY <2>1, <2>2
<1> QED BY <1>3, <1>8, <1>9 DEF Visited!VisitedInv

\* A thread that keeps its bucket, whatever it does next.
LEMMA HolderKeeps ==
  ASSUME Visited!VisitedInv, NEW t \in Threads, NEW to, NEW r,
         pc' = [pc EXCEPT ![t] = to], result' = [result EXCEPT ![t] = r],
         UNCHANGED <<hash, wants, buckets, keys, idx>>,
         Visited!Holds(t), Visited!Holds(t)', ~Visited!Claims(t)'
  PROVE  Visited!Owned'
<1>1. /\ \A u \in Threads \ {t} :
           /\ pc'[u] = pc[u]
           /\ Visited!Claims(u)' <=> Visited!Claims(u)
           /\ Visited!Holds(u)' <=> Visited!Holds(u)
      /\ \A u \in Threads : Visited!Tag(u)' = Visited!Tag(u)
  BY OthersStand DEF Visited!VisitedInv
<1>2. pc'[t] # "publish"
  BY DEF Visited!Claims
<1>3. /\ \A u \in Threads : Visited!Holds(u)' <=> Visited!Holds(u)
      /\ \A u \in Threads : Visited!Claims(u)' => Visited!Claims(u)
      /\ \A u \in Threads : pc'[u] = "publish" => pc[u] = "publish"
  BY <1>1, <1>2
<1> QED BY <1>1, <1>3 DEF Visited!VisitedInv, Visited!Owned

\* The rescan moves on, or has come to the thread's own bucket.
LEMMA RescanKeeps ==
  ASSUME Visited!VisitedConstants, Visited!VisitedInv, NEW t \in Threads,
         \/ Visited!Rescan(t) /\ ~Visited!Duplicate(t)
         \/ Visited!Count(t)
  PROVE  Visited!VisitedInv'
<1> DEFINE to == IF scan[t] = idx[t] THEN "returned" ELSE "rescan"
           r  == IF scan[t] = idx[t] THEN "new" ELSE "none"
<1>1. /\ pc[t] = "rescan" /\ result[t] = "none"
      /\ pc' = [pc EXCEPT ![t] = to] /\ result' = [result EXCEPT ![t] = r]
      /\ scan[t] # idx[t] => scan' = [scan EXCEPT ![t] = Visited!Mask(@ + 1)]
      /\ scan[t] = idx[t] => scan' = scan
      /\ UNCHANGED <<hash, wants, buckets, keys, idx>>
  BY DEF Visited!Rescan, Visited!Count, Visited!Goto, Visited!Return,
     Visited!VisitedInv, Visited!VisitedTypes
<1>2. /\ to \in {"returned", "rescan"} /\ r \in {"new", "none"}
      /\ to = "returned" <=> r # "none"
      /\ to = "rescan" <=> scan[t] # idx[t]
  OBVIOUS
<1> HIDE DEF to, r
<1>3. /\ scan[t] \in Visited!Buckets /\ scan[t] \in Nat /\ idx[t] \in Visited!Buckets
      /\ Visited!Mask(scan[t] + 1) \in Visited!Buckets
  <2>1. scan[t] \in Visited!Buckets /\ idx[t] \in Visited!Buckets
    BY DEF Visited!VisitedInv, Visited!VisitedTypes
  <2>2. scan[t] \in Nat /\ scan[t] + 1 \in Nat
    BY <2>1 DEF Visited!Buckets
  <2> QED BY <2>1, <2>2, MaskFacts
<1>4. Visited!VisitedTypes'
  BY <1>1, <1>2, <1>3 DEF Visited!VisitedInv, Visited!VisitedTypes
<1>5. pc'[t] = to /\ result'[t] = r
  BY <1>1 DEF Visited!VisitedInv, Visited!VisitedTypes
<1>6. /\ Visited!Holds(t) /\ Visited!Stays(t)'
      /\ Visited!Holds(t)' /\ ~Visited!Claims(t)'
  BY <1>1, <1>2, <1>5 DEF Visited!Holds, Visited!Stays, Visited!Claims
<1>7. Visited!Owned'
  BY <1>1, <1>6, HolderKeeps
<1>8. ASSUME NEW u \in Threads
      PROVE  Visited!LeftToOther(u)'
  <2>1. CASE u # t
    <3>1. \A v \in Threads \ {t} : scan'[v] = scan[v]
      BY <1>1 DEF Visited!VisitedInv, Visited!VisitedTypes
    <3> QED BY <1>1, <1>6, <2>1, <3>1, LeftKept
  <2>2. CASE u = t
    <3>1. ASSUME to = "rescan"
          PROVE  Visited!Distance(t, scan'[t]) <= Visited!Distance(t, idx[t])
      <4>1. scan[t] # idx[t] /\ scan'[t] = Visited!Mask(scan[t] + 1)
        BY <1>1, <1>2, <3>1 DEF Visited!VisitedInv, Visited!VisitedTypes
      <4>2. /\ Visited!Distance(t, scan[t]) <= Visited!Distance(t, idx[t])
            /\ Visited!Distance(t, scan[t]) # Visited!Distance(t, idx[t])
            /\ Visited!Distance(t, scan[t]) \in 0 .. Cap - 1
            /\ Visited!Distance(t, idx[t]) \in 0 .. Cap - 1
        BY <1>1, <1>3, <4>1, DistanceFacts DEF Visited!VisitedInv, Visited!LeftToOther
      <4>3. scan'[t] = IF scan[t] + 1 = Cap THEN 0 ELSE scan[t] + 1
        BY <1>3, <4>1, MaskFacts
      <4>4. /\ Visited!Home(t) \in 0 .. Cap - 1 /\ Cap \in Nat
            /\ scan[t] \in 0 .. Cap - 1
        BY <1>3, HomeFacts DEF Visited!VisitedInv, Visited!Buckets,
           Visited!VisitedConstants
      <4>5. Visited!Distance(t, scan'[t]) = Visited!Distance(t, scan[t]) + 1
        BY <4>2, <4>3, <4>4 DEF Visited!Distance
      <4> QED BY <4>2, <4>5
    <3>2. /\ Visited!Distance(t, scan[t])' = Visited!Distance(t, scan'[t])
          /\ Visited!Distance(t, idx[t])' = Visited!Distance(t, idx[t])
      BY <1>1 DEF Visited!Distance, Visited!Home
    <3> QED BY <1>2, <1>5, <2>2, <3>1, <3>2 DEF Visited!LeftToOther
  <2> QED BY <2>1, <2>2
<1> QED BY <1>4, <1>7, <1>8 DEF Visited!VisitedInv

\* A second copy of the key on the way from home: it is nearer than the
\* thread's own, and whoever stays for it stays for those who relied on t.
LEMMA GiveWayKeeps ==
  ASSUME Visited!VisitedConstants, Visited!VisitedInv, NEW t \in Threads,
         Visited!Rescan(t), Visited!Duplicate(t)
  PROVE  Visited!VisitedInv'
<1>1. /\ pc[t] = "rescan" /\ result[t] = "none" /\ scan[t] # idx[t]
      /\ pc' = [pc EXCEPT ![t] = "release"]
      /\ result' = [result EXCEPT ![t] = "none"]
      /\ UNCHANGED <<hash, wants, buckets, keys, idx, scan>>
  BY DEF Visited!Rescan, Visited!Goto, Visited!VisitedInv, Visited!VisitedTypes
<1>2. Visited!VisitedTypes'
  BY <1>1 DEF Visited!VisitedInv, Visited!VisitedTypes
<1>3. /\ pc'[t] = "release" /\ result'[t] = "none"
      /\ \A u \in Threads \ {t} :
           /\ pc'[u] = pc[u] /\ result'[u] = result[u]
           /\ Visited!Stays(u)' <=> Visited!Stays(u)
      /\ \A u \in Threads :
           /\ Visited!Distance(u, idx[u])' = Visited!Distance(u, idx[u])
           /\ \A c \in Visited!Buckets :
                Visited!Distance(u, c)' = Visited!Distance(u, c)
  BY <1>1, OthersStand DEF Visited!VisitedInv
<1>4. /\ Visited!Holds(t) /\ Visited!Holds(t)' /\ ~Visited!Claims(t)'
  BY <1>1, <1>3 DEF Visited!Holds, Visited!Stays, Visited!Claims
<1>5. Visited!Owned'
  BY <1>1, <1>4, HolderKeeps
<1>6. \A u \in Threads : /\ idx[u] \in Visited!Buckets /\ scan[u] \in Visited!Buckets
                         /\ Visited!Distance(u, idx[u]) \in Int
  BY DistanceFacts DEF Visited!VisitedInv, Visited!VisitedTypes
<1>7. PICK w \in Threads \ {t} :
        /\ wants[w] = wants[t] /\ Visited!Stays(w)
        /\ Visited!Distance(w, idx[w]) < Visited!Distance(t, idx[t])
  <2>1. PICK v \in Threads :
          Visited!Holds(v) /\ idx[v] = scan[t] /\ wants[v] = wants[t]
    BY <1>6, FoundKeyHeld DEF Visited!Duplicate
  <2>2. PICK w \in Threads :
          /\ wants[w] = wants[v] /\ Visited!Stays(w)
          /\ Visited!Distance(w, idx[w]) <= Visited!Distance(v, idx[v])
    BY <2>1, SomebodyStays
  <2>3. Visited!Distance(v, idx[v]) = Visited!Distance(t, scan[t])
    BY <2>1 DEF Visited!Distance, Visited!Home
  <2>4. /\ Visited!Distance(t, scan[t]) <= Visited!Distance(t, idx[t])
        /\ Visited!Distance(t, scan[t]) # Visited!Distance(t, idx[t])
        /\ Visited!Distance(t, scan[t]) \in Int
    BY <1>1, <1>6, DistanceFacts DEF Visited!VisitedInv, Visited!LeftToOther
  <2>5. Visited!Distance(w, idx[w]) < Visited!Distance(t, idx[t])
    BY <1>6, <2>2, <2>3, <2>4
  <2>6. w # t
    BY <1>6, <2>5
  <2> QED BY <2>1, <2>2, <2>5, <2>6
<1>8. ASSUME NEW u \in Threads
      PROVE  Visited!LeftToOther(u)'
  <2>1. CASE u = t
    BY <1>1, <1>3, <1>7, <2>1 DEF Visited!LeftToOther
  <2>2. CASE u # t
    <3>1. Visited!LeftToOther(u)
      BY DEF Visited!VisitedInv
    <3>2. pc'[u] = pc[u] /\ result'[u] = result[u]
      BY <1>3, <2>2
    <3>3. pc[u] = "rescan" =>
            Visited!Distance(u, scan[u])' <= Visited!Distance(u, idx[u])'
      BY <1>1, <1>3, <1>6, <3>1 DEF Visited!LeftToOther
    <3>4. ASSUME NEW v \in Threads, Visited!Stays(v), wants[v] = wants[u]
          PROVE  \E x \in Threads :
                   /\ wants[x] = wants[u] /\ Visited!Stays(x)'
                   /\ Visited!Distance(x, idx[x])' <= Visited!Distance(v, idx[v])
      <4>1. CASE v # t
        BY <1>3, <1>6, <3>4, <4>1
      <4>2. CASE v = t
        BY <1>3, <1>6, <1>7, <3>4, <4>2
      <4> QED BY <4>1, <4>2
    <3>5. ASSUME pc[u] = "release"
          PROVE  \E x \in Threads :
                   /\ wants[x] = wants[u] /\ Visited!Stays(x)'
                   /\ Visited!Distance(x, idx[x])' < Visited!Distance(u, idx[u])'
      <4>1. PICK v \in Threads :
              /\ wants[v] = wants[u] /\ Visited!Stays(v)
              /\ Visited!Distance(v, idx[v]) < Visited!Distance(u, idx[u])
        BY <3>1, <3>5 DEF Visited!LeftToOther
      <4>2. PICK x \in Threads :
              /\ wants[x] = wants[u] /\ Visited!Stays(x)'
              /\ Visited!Distance(x, idx[x])' <= Visited!Distance(v, idx[v])
        BY <3>4, <4>1
      <4> QED BY <1>3, <1>6, <4>1, <4>2
    <3>6. result[u] = "present" =>
            \E x \in Threads : wants[x] = wants[u] /\ Visited!Stays(x)'
      BY <3>1, <3>4 DEF Visited!LeftToOther
    <3> QED BY <1>1, <3>2, <3>3, <3>5, <3>6 DEF Visited!LeftToOther
  <2> QED BY <2>1, <2>2
<1> QED BY <1>2, <1>5, <1>8 DEF Visited!VisitedInv

\* The copy given up: a nearer thread stays.
LEMMA ReleaseKeeps ==
  ASSUME Visited!VisitedConstants, Visited!VisitedInv, NEW t \in Threads,
         Visited!Release(t)
  PROVE  Visited!VisitedInv'
<1>1. /\ pc[t] = "release" /\ result[t] = "none"
      /\ pc' = [pc EXCEPT ![t] = "returned"]
      /\ result' = [result EXCEPT ![t] = "present"]
      /\ buckets' = [buckets EXCEPT ![idx[t]] = Visited!Empty]
      /\ UNCHANGED <<hash, wants, keys, idx, scan>>
  BY DEF Visited!Release, Visited!Return, Visited!Goto, Visited!VisitedInv,
     Visited!VisitedTypes
<1>2. Visited!VisitedTypes'
  BY <1>1 DEF Visited!VisitedInv, Visited!VisitedTypes, Visited!Empty
<1>3. /\ pc'[t] = "returned" /\ result'[t] = "present"
      /\ \A u \in Threads \ {t} :
           /\ pc'[u] = pc[u] /\ result'[u] = result[u]
           /\ Visited!Claims(u)' <=> Visited!Claims(u)
           /\ Visited!Stays(u)' <=> Visited!Stays(u)
           /\ Visited!Holds(u)' <=> Visited!Holds(u)
      /\ \A u \in Threads : Visited!Tag(u)' = Visited!Tag(u)
  BY <1>1, OthersStand DEF Visited!VisitedInv
<1>4. /\ Visited!Holds(t) /\ ~Visited!Stays(t)
      /\ ~Visited!Holds(t)' /\ ~Visited!Claims(t)'
  BY <1>1, <1>3 DEF Visited!Holds, Visited!Stays, Visited!Claims
<1>5. \A u \in Threads \ {t} : Visited!Claims(u) \/ Visited!Holds(u)
        => idx[u] # idx[t]
  BY <1>4 DEF Visited!VisitedInv, Visited!Owned
<1>6. /\ idx \in [Threads -> Visited!Buckets]
      /\ buckets'[idx[t]] = Visited!Empty
      /\ \A b \in Visited!Buckets : b # idx[t] => buckets'[b] = buckets[b]
  BY <1>1 DEF Visited!VisitedInv, Visited!VisitedTypes
<1>7. Visited!Owned'
  <2>1. ASSUME NEW u \in Threads
        PROVE  /\ Visited!Claims(u)' => buckets'[idx[u]] = Visited!Pending
               /\ pc'[u] = "publish" => keys[idx[u]] = wants[u]
               /\ Visited!Holds(u)' => /\ buckets'[idx[u]] = Visited!Tag(u)
                                       /\ keys[idx[u]] = wants[u]
    BY <1>3, <1>4, <1>5, <1>6 DEF Visited!VisitedInv, Visited!Owned, Visited!Claims
  <2>2. ASSUME NEW u \in Threads, NEW v \in Threads, idx[u] = idx[v],
               Visited!Claims(u)' \/ Visited!Holds(u)',
               Visited!Claims(v)' \/ Visited!Holds(v)'
        PROVE  u = v
    BY <1>3, <1>4, <2>2 DEF Visited!VisitedInv, Visited!Owned
  <2>3. ASSUME NEW b \in Visited!Buckets,
               buckets'[b] \notin {Visited!Empty, Visited!Pending}
        PROVE  \E u \in Threads : Visited!Holds(u)' /\ idx[u] = b
    <3>1. b # idx[t] /\ buckets[b] \notin {Visited!Empty, Visited!Pending}
      BY <1>6, <2>3
    <3>2. PICK u \in Threads : Visited!Holds(u) /\ idx[u] = b
      BY <3>1 DEF Visited!VisitedInv, Visited!Owned
    <3> QED BY <1>3, <3>1, <3>2
  <2> QED BY <1>1, <1>3, <2>1, <2>2, <2>3 DEF Visited!Owned
<1>8. ASSUME NEW u \in Threads
      PROVE  Visited!LeftToOther(u)'
  <2>1. CASE u # t
    BY <1>1, <1>4, <2>1, LeftKept
  <2>2. CASE u = t
    <3>1. PICK v \in Threads : wants[v] = wants[t] /\ Visited!Stays(v)
      BY <1>1 DEF Visited!VisitedInv, Visited!LeftToOther
    <3> QED BY <1>1, <1>3, <1>4, <2>2, <3>1 DEF Visited!LeftToOther
  <2> QED BY <2>1, <2>2
<1> QED BY <1>2, <1>7, <1>8 DEF Visited!VisitedInv

\* The searching steps, each as a step SearchKeeps allows.
LEMMA SearchSteps ==
  ASSUME Visited!VisitedConstants, Visited!VisitedInv, NEW t \in Threads,
         \/ Visited!CheckLoad(t) \/ Visited!Probe(t)
         \/ Visited!Claim(t) /\ buckets[idx[t]] # Visited!Empty
  PROVE  Visited!VisitedInv'
<1>1. /\ idx \in [Threads -> Visited!Buckets] /\ idx[t] \in Nat
      /\ Visited!Home(t) \in Visited!Buckets
      /\ Visited!Mask(idx[t] + 1) \in Visited!Buckets
      /\ pc \in [Threads -> {"load", "probe", "claim", "key", "publish",
                             "rescan", "release", "returned"}]
      /\ result \in [Threads -> {"none", "full", "present", "new"}]
      /\ pc[t] # "returned" => result[t] = "none"
  <2>1. /\ Visited!VisitedTypes /\ idx[t] \in Visited!Buckets
        /\ Visited!Home(t) \in Visited!Buckets
    BY HomeFacts DEF Visited!VisitedInv, Visited!VisitedTypes
  <2>2. idx[t] \in Nat
    BY <2>1 DEF Visited!Buckets
  <2> QED BY <2>1, <2>2, MaskFacts DEF Visited!VisitedTypes
<1>2. ASSUME Visited!Occupied(t, buckets[idx[t]]), pc[t] \in {"probe", "claim"},
             UNCHANGED <<hash, wants, buckets, keys, scan>>
      PROVE  Visited!VisitedInv'
  <2>1. CASE buckets[idx[t]] = Visited!Tag(t) /\ keys[idx[t]] = wants[t]
    <3>1. /\ pc' = [pc EXCEPT ![t] = "returned"]
          /\ result' = [result EXCEPT ![t] = "present"]
          /\ idx' = [idx EXCEPT ![t] = idx[t]]
      BY <1>1, <1>2, <2>1 DEF Visited!Occupied, Visited!Return, Visited!Goto
    <3> QED BY <1>1, <1>2, <2>1, <3>1, SearchKeeps
  <2>2. CASE ~(buckets[idx[t]] = Visited!Tag(t) /\ keys[idx[t]] = wants[t])
    <3>1. /\ idx' = [idx EXCEPT ![t] = Visited!Mask(idx[t] + 1)]
          /\ \/ /\ pc' = [pc EXCEPT ![t] = "returned"]
                /\ result' = [result EXCEPT ![t] = "full"]
             \/ /\ pc' = [pc EXCEPT ![t] = "probe"]
                /\ result' = [result EXCEPT ![t] = "none"]
      BY <1>1, <1>2, <2>2 DEF Visited!Occupied, Visited!PassOver, Visited!Return,
         Visited!Goto
    <3> QED BY <1>1, <1>2, <3>1, SearchKeeps
  <2> QED BY <2>1, <2>2
<1>3. CASE Visited!CheckLoad(t)
  <2>1. \/ /\ pc' = [pc EXCEPT ![t] = "returned"]
           /\ result' = [result EXCEPT ![t] = "full"]
           /\ idx' = [idx EXCEPT ![t] = idx[t]]
        \/ /\ pc' = [pc EXCEPT ![t] = "probe"]
           /\ result' = [result EXCEPT ![t] = "none"]
           /\ idx' = [idx EXCEPT ![t] = Visited!Home(t)]
    BY <1>1, <1>3 DEF Visited!CheckLoad, Visited!Return, Visited!Goto
  <2>2. /\ pc[t] = "load" /\ UNCHANGED <<hash, wants, buckets, keys, scan>>
    BY <1>3 DEF Visited!CheckLoad
  <2> QED BY <1>1, <2>1, <2>2, SearchKeeps
<1>4. CASE Visited!Probe(t)
  <2>1. pc[t] = "probe" /\ UNCHANGED <<hash, wants, buckets, keys, scan>>
    BY <1>4 DEF Visited!Probe
  <2>2. CASE buckets[idx[t]] = Visited!Empty
    <3>1. /\ pc' = [pc EXCEPT ![t] = "claim"]
          /\ result' = [result EXCEPT ![t] = "none"]
          /\ idx' = [idx EXCEPT ![t] = idx[t]]
      BY <1>1, <1>4, <2>2 DEF Visited!Probe, Visited!Goto
    <3> QED BY <1>1, <2>1, <3>1, SearchKeeps
  <2>3. CASE buckets[idx[t]] # Visited!Empty
    BY <1>2, <1>4, <2>1, <2>3 DEF Visited!Probe
  <2> QED BY <2>2, <2>3
<1>5. CASE Visited!Claim(t) /\ buckets[idx[t]] # Visited!Empty
  BY <1>2, <1>5 DEF Visited!Claim
<1> QED BY <1>3, <1>4, <1>5

\* The initial state: nobody has a bucket.
LEMMA VisitedInit ==
  ASSUME Visited!VisitedConstants, Visited!Init
  PROVE  Visited!VisitedInv
<1>1. 0 \in Visited!Buckets
  BY DEF Visited!VisitedConstants, Visited!Buckets
<1>2. Visited!VisitedTypes
  BY <1>1 DEF Visited!VisitedConstants, Visited!Init, Visited!VisitedTypes, Visited!Empty
<1>3. \A t \in Threads : pc[t] = "load" /\ result[t] = "none"
  BY DEF Visited!Init
<1>4. \A t \in Threads : ~Visited!Claims(t) /\ ~Visited!Holds(t)
  BY <1>3 DEF Visited!Claims, Visited!Holds, Visited!Stays
<1>5. Visited!Owned
  BY <1>3, <1>4 DEF Visited!Init, Visited!Owned
<1>6. \A t \in Threads : Visited!LeftToOther(t)
  BY <1>3 DEF Visited!LeftToOther
<1> QED BY <1>2, <1>5, <1>6 DEF Visited!VisitedInv

\* Every step, and a step that leaves the set alone.
LEMMA VisitedStep ==
  ASSUME Visited!VisitedConstants, Visited!VisitedInv,
         [Visited!Next]_Visited!vars
  PROVE  Visited!VisitedInv'
<1>1. ASSUME NEW t \in Threads, Visited!visited_insert(t)
      PROVE  Visited!VisitedInv'
  <2>1. CASE Visited!CheckLoad(t) \/ Visited!Probe(t)
    BY <2>1, SearchSteps
  <2>2. CASE Visited!Claim(t)
    BY <2>2, SearchSteps, ClaimKeeps
  <2>3. CASE Visited!WriteKey(t)
    BY <2>3, ClaimKeeps
  <2>4. CASE Visited!Publish(t)
    BY <2>4, PublishKeeps
  <2>5. CASE Visited!Rescan(t)
    BY <2>5, RescanKeeps, GiveWayKeeps
  <2>6. CASE Visited!Release(t)
    BY <2>6, ReleaseKeeps
  <2>7. CASE Visited!Count(t)
    BY <2>7, RescanKeeps
  <2> QED BY <1>1, <2>1, <2>2, <2>3, <2>4, <2>5, <2>6, <2>7
          DEF Visited!visited_insert
<1>2. CASE UNCHANGED Visited!vars
  BY <1>2 DEF Visited!vars, Visited!VisitedInv, Visited!VisitedTypes, Visited!Owned,
     Visited!LeftToOther, Visited!Claims, Visited!Holds, Visited!Stays,
     Visited!Tag, Visited!visited_tag, Visited!Distance, Visited!Home
<1> QED BY <1>1, <1>2 DEF Visited!Next

\* For every number of threads that insert, every set of keys, every table size
\* and hash function: a published tag of visited_insert has its key, and when all
\* who insert a directory have returned without finding the set full, one of them
\* was told that it is new, so the directory is scanned.
THEOREM VisitedSetIsSafe ==
  ASSUME Visited!VisitedConstants
  PROVE  Visited!Spec => []Visited!VisitedSafe
<1>1. Visited!Init => Visited!VisitedInv
  BY VisitedInit
<1>2. Visited!VisitedInv /\ [Visited!Next]_Visited!vars => Visited!VisitedInv'
  BY VisitedStep
<1>3. Visited!VisitedInv => Visited!VisitedSafe
  <2> SUFFICES ASSUME Visited!VisitedInv
               PROVE  Visited!KeyBeforeTag /\ Visited!SomeInserter
    BY DEF Visited!VisitedSafe
  <2>1. Visited!KeyBeforeTag
    <3> SUFFICES ASSUME NEW b \in Visited!Buckets,
                        buckets[b] \notin {Visited!Empty, Visited!Pending}
                 PROVE  /\ keys[b] # NoKey
                        /\ Visited!visited_tag(keys[b]) = buckets[b]
      BY DEF Visited!KeyBeforeTag
    <3>1. PICK t \in Threads : Visited!Holds(t) /\ idx[t] = b
      BY DEF Visited!VisitedInv, Visited!Owned
    <3>2. buckets[b] = Visited!Tag(t) /\ keys[b] = wants[t] /\ wants[t] \in Keys
      BY <3>1 DEF Visited!VisitedInv, Visited!Owned, Visited!VisitedTypes
    <3> QED BY <3>2 DEF Visited!Tag, Visited!VisitedConstants
  <2>2. Visited!SomeInserter
    <3> SUFFICES ASSUME NEW k \in Keys, NEW t \in Threads, wants[t] = k,
                        \A u \in Threads : wants[u] = k =>
                            result[u] \in {"new", "present"}
                 PROVE  \E u \in Threads : wants[u] = k /\ result[u] = "new"
      BY DEF Visited!SomeInserter
    <3>1. \A u \in Threads : wants[u] = k => pc[u] = "returned"
      BY DEF Visited!VisitedInv, Visited!VisitedTypes
    <3>2. CASE result[t] = "present"
      BY <3>1, <3>2 DEF Visited!VisitedInv, Visited!LeftToOther, Visited!Stays
    <3>3. CASE result[t] = "new"
      BY <3>3
    <3> QED BY <3>2, <3>3
  <2> QED BY <2>1, <2>2
<1> QED BY <1>1, <1>2, <1>3, PTL DEF Visited!Spec

-----------------------------------------------------------------------------
(* The scan *)

CONSTANTS Workers, Dirs, Root, Kids, Depth, Inode, NoInode, Typed, Limits,
          DirsPerBatch, Faults
VARIABLES max_depth, queue, pending, done, visited, interrupted, listed, is_dir,
          stat, batch, fds, flight, todo, skipped

Scan == INSTANCE DirScan

\* The two modules speak of the same cardinality.
LEMMA ScanCardinality ==
  ASSUME NEW S
  PROVE  /\ Scan!IsFiniteSet(S) <=> IsFiniteSet(S)
         /\ Scan!Cardinality(S) = Cardinality(S)
BY DEF Scan!IsFiniteSet, IsFiniteSet, Scan!Cardinality, Cardinality

\* main is not one of the workers.
LEMMA MainApart ==
  ASSUME Scan!ScanConstants
  PROVE  /\ Scan!Main \notin Workers /\ Scan!Procs = {Scan!Main} \cup Workers
         /\ IsFiniteSet(Workers) /\ Cardinality(Workers) \in Nat
         /\ Workers = 1 .. Cardinality(Workers) /\ IsFiniteSet(Dirs)
<1>1. /\ IsFiniteSet(Workers) /\ IsFiniteSet(Dirs)
      /\ Workers = 1 .. Cardinality(Workers)
  BY ScanCardinality DEF Scan!ScanConstants
<1>2. Cardinality(Workers) \in Nat
  BY <1>1, FS_CardinalityType
<1> QED BY <1>1, <1>2 DEF Scan!Main, Scan!Procs

\* The set that Total measures is finite and is put together of one piece for
\* each worker.
LEMMA TotalSplit ==
  ASSUME Scan!ScanConstants, NEW f \in [Workers -> Nat], NEW w \in Workers
  PROVE  LET rest == UNION {{v} \X (1 .. f[v]) : v \in Workers \ {w}}
         IN  Cardinality(rest) \in Nat /\ Scan!Total(f) = Cardinality(rest) + f[w]
<1> DEFINE Piece(v) == {v} \X (1 .. f[v])
           pieces == {Piece(v) : v \in Workers \ {w}}
           rest == UNION pieces
<1>1. \A v \in Workers : /\ IsFiniteSet(Piece(v))
                         /\ Cardinality(Piece(v)) = f[v]
  <2> SUFFICES ASSUME NEW v \in Workers
               PROVE  IsFiniteSet(Piece(v)) /\ Cardinality(Piece(v)) = f[v]
    OBVIOUS
  <2>1. IsFiniteSet({v}) /\ Cardinality({v}) = 1
    BY FS_Singleton
  <2>2. f[v] \in Nat
    OBVIOUS
  <2>3. IsFiniteSet(1 .. f[v]) /\ Cardinality(1 .. f[v]) = f[v]
    BY <2>2, FS_Interval
  <2>4. /\ IsFiniteSet(Piece(v))
        /\ Cardinality(Piece(v)) = Cardinality({v}) * Cardinality(1 .. f[v])
    BY <2>1, <2>3, FS_Product
  <2> QED BY <2>1, <2>2, <2>3, <2>4
<1>2. IsFiniteSet(pieces)
  <2> DEFINE g == [v \in Workers \ {w} |-> Piece(v)]
  <2>1. IsFiniteSet(Workers \ {w})
    BY MainApart, FS_RemoveElement
  <2> HIDE DEF Piece
  <2>2. g \in Surjection(Workers \ {w}, pieces)
    BY DEF Surjection
  <2> QED BY <2>1, <2>2, FS_Surjection
<1>3. IsFiniteSet(rest) /\ Cardinality(rest) \in Nat
  <2>1. \A T \in pieces : IsFiniteSet(T)
    BY <1>1
  <2> HIDE DEF pieces
  <2>2. IsFiniteSet(UNION pieces)
    BY <1>2, <2>1, FS_UNION
  <2> QED BY <2>2, FS_CardinalityType
<1>4. /\ UNION {Piece(v) : v \in Workers} = rest \cup Piece(w)
      /\ rest \cap Piece(w) = {}
  OBVIOUS
<1>5. Cardinality(rest \cup Piece(w)) = Cardinality(rest) + f[w]
  <2>1. Cardinality({}) = 0
    BY FS_EmptySet
  <2>2. f[w] \in Nat
    OBVIOUS
  <2>3. rest \cap Piece(w) = {}
    BY <1>4
  <2>4. IsFiniteSet(Piece(w)) /\ Cardinality(Piece(w)) = f[w]
    BY <1>1
  <2> HIDE DEF rest, Piece
  <2>5. Cardinality(rest \cup Piece(w)) =
          Cardinality(rest) + Cardinality(Piece(w)) - Cardinality(rest \cap Piece(w))
    BY <1>3, <2>4, FS_Union
  <2>6. Cardinality(rest \cap Piece(w)) = 0
    BY <2>1, <2>3
  <2>7. /\ Cardinality(rest) \in Nat
        /\ Cardinality(rest \cup Piece(w)) = Cardinality(rest) + f[w] - 0
    BY <1>3, <2>4, <2>5, <2>6
  <2> QED BY <2>2, <2>7
<1>6. Scan!Total(f) = Cardinality(UNION {Piece(v) : v \in Workers})
  BY ScanCardinality DEF Scan!Total
<1> QED BY <1>3, <1>4, <1>5, <1>6

\* A sum of natural numbers: what one worker adds to it, and what it bounds.
LEMMA TotalMoves ==
  ASSUME Scan!ScanConstants, NEW f \in [Workers -> Nat], NEW g \in [Workers -> Nat],
         NEW w \in Workers, \A v \in Workers \ {w} : g[v] = f[v]
  PROVE  /\ Scan!Total(f) \in Nat /\ f[w] <= Scan!Total(f)
         /\ Scan!Total(g) = Scan!Total(f) - f[w] + g[w]
<1> DEFINE rest(h) == UNION {{v} \X (1 .. h[v]) : v \in Workers \ {w}}
<1>1. /\ Cardinality(rest(f)) \in Nat /\ Scan!Total(f) = Cardinality(rest(f)) + f[w]
      /\ Cardinality(rest(g)) \in Nat /\ Scan!Total(g) = Cardinality(rest(g)) + g[w]
  BY TotalSplit
<1>2. rest(f) = rest(g)
  OBVIOUS
<1>3. f[w] \in Nat /\ g[w] \in Nat
  OBVIOUS
<1> HIDE DEF rest
<1> QED BY <1>1, <1>2, <1>3

\* A sum of zeros.
LEMMA TotalZero ==
  ASSUME Scan!ScanConstants, NEW f \in [Workers -> Nat]
  PROVE  /\ Scan!Total(f) \in Nat
         /\ (\A v \in Workers : f[v] = 0) => Scan!Total(f) = 0
<1>1. ASSUME \A v \in Workers : f[v] = 0
      PROVE  Scan!Total(f) = 0
  <2>1. UNION {{v} \X (1 .. f[v]) : v \in Workers} = {}
    BY <1>1
  <2> QED BY <2>1, FS_EmptySet, ScanCardinality DEF Scan!Total
<1>2. ASSUME NEW v \in Workers
      PROVE  Scan!Total(f) \in Nat
  BY TotalMoves
<1> QED BY <1>1, <1>2

\* The range of a sequence.
LEMMA RangeOf ==
  ASSUME NEW S, NEW q \in Seq(S), NEW d
  PROVE  d \in Scan!Range(q) <=> \E j \in 1 .. Len(q) : q[j] = d
BY DEF Scan!Range

\* What a thread's list loses with its first entry, and what a queue gains.
LEMMA RangeMoves ==
  ASSUME NEW S, NEW q \in Seq(S), NEW t \in Seq(S), NEW d
  PROVE  /\ q # <<>> => /\ Head(q) \in S /\ Tail(q) \in Seq(S)
                        /\ Len(Tail(q)) = Len(q) - 1 /\ Len(q) \in Nat \ {0}
                        /\ d \in Scan!Range(q) <=>
                             d = Head(q) \/ d \in Scan!Range(Tail(q))
         /\ q \o t \in Seq(S) /\ Len(q \o t) = Len(q) + Len(t)
         /\ d \in Scan!Range(q) \/ d \in Scan!Range(t) => d \in Scan!Range(q \o t)
<1>1. ASSUME q # <<>>
      PROVE  /\ Head(q) \in S /\ Tail(q) \in Seq(S)
             /\ Len(Tail(q)) = Len(q) - 1 /\ Len(q) \in Nat \ {0}
             /\ d \in Scan!Range(q) <=> d = Head(q) \/ d \in Scan!Range(Tail(q))
  <2>1. /\ Head(q) \in S /\ Tail(q) \in Seq(S) /\ Head(q) = q[1]
        /\ Len(Tail(q)) = Len(q) - 1 /\ Len(q) \in Nat \ {0}
        /\ \A i \in 1 .. Len(Tail(q)) : Tail(q)[i] = q[i + 1]
    BY <1>1, HeadTailProperties
  <2>2. ASSUME NEW j \in 1 .. Len(q), q[j] = d, j # 1
        PROVE  d \in Scan!Range(Tail(q))
    <3>1. j - 1 \in 1 .. Len(Tail(q)) /\ Tail(q)[j - 1] = q[j - 1 + 1]
      BY <2>1, <2>2
    <3>2. Tail(q)[j - 1] = d
      BY <2>2, <3>1
    <3> QED BY <2>1, <3>1, <3>2, RangeOf
  <2>3. ASSUME d = Head(q) \/ d \in Scan!Range(Tail(q))
        PROVE  d \in Scan!Range(q)
    <3>1. CASE d = Head(q)
      BY <2>1, <3>1, RangeOf
    <3>2. CASE d \in Scan!Range(Tail(q))
      <4>1. PICK i \in 1 .. Len(Tail(q)) : Tail(q)[i] = d
        BY <2>1, <3>2, RangeOf
      <4>2. i + 1 \in 1 .. Len(q) /\ q[i + 1] = d
        BY <2>1, <4>1
      <4> QED BY <4>2, RangeOf
    <3> QED BY <2>3, <3>1, <3>2
  <2> QED BY <2>1, <2>2, <2>3, RangeOf
<1>2. /\ q \o t \in Seq(S) /\ Len(q \o t) = Len(q) + Len(t)
      /\ Len(q) \in Nat /\ Len(t) \in Nat
      /\ \A i \in 1 .. Len(q) : (q \o t)[i] = q[i]
      /\ \A i \in 1 .. Len(t) : (q \o t)[Len(q) + i] = t[i]
  BY ConcatProperties
<1>3. ASSUME d \in Scan!Range(q)
      PROVE  d \in Scan!Range(q \o t)
  <2>1. PICK j \in 1 .. Len(q) : q[j] = d
    BY <1>3, RangeOf
  <2>2. j \in 1 .. Len(q \o t) /\ (q \o t)[j] = d
    BY <1>2, <2>1
  <2> QED BY <1>2, <2>2, RangeOf
<1>4. ASSUME d \in Scan!Range(t)
      PROVE  d \in Scan!Range(q \o t)
  <2>1. PICK j \in 1 .. Len(t) : t[j] = d
    BY <1>4, RangeOf
  <2>2. Len(q) + j \in 1 .. Len(q \o t) /\ (q \o t)[Len(q) + j] = d
    BY <1>2, <2>1
  <2> QED BY <1>2, <2>2, RangeOf
<1> QED BY <1>1, <1>2, <1>3, <1>4

\* A queue cut in two.
LEMMA RangeCut ==
  ASSUME NEW S, NEW q \in Seq(S), NEW n \in 0 .. Len(q), NEW d
  PROVE  LET taken == SubSeq(q, 1, n)  left == SubSeq(q, n + 1, Len(q))
         IN  /\ taken \in Seq(S) /\ left \in Seq(S)
             /\ Len(taken) = n /\ Len(left) = Len(q) - n
             /\ d \in Scan!Range(q) => d \in Scan!Range(taken) \/ d \in Scan!Range(left)
<1> DEFINE taken == SubSeq(q, 1, n)
           left == SubSeq(q, n + 1, Len(q))
<1>1. Len(q) \in Nat
  OBVIOUS
<1>2. /\ taken \in Seq(S) /\ Len(taken) = n
      /\ \A i \in 1 .. n : taken[i] = q[i]
  <2>1. \A i \in 1 .. n : q[i] \in S
    BY <1>1
  <2> QED BY <1>1, <2>1, SubSeqProperties
<1>3. /\ left \in Seq(S) /\ Len(left) = Len(q) - n
      /\ \A i \in 1 .. Len(q) - n : left[i] = q[n + i]
  <2>1. \A i \in n + 1 .. Len(q) : q[i] \in S
    BY <1>1
  <2>2. /\ left \in Seq(S)
        /\ Len(left) = IF n + 1 <= Len(q) THEN Len(q) - (n + 1) + 1 ELSE 0
        /\ \A i \in 1 .. Len(q) - (n + 1) + 1 : left[i] = q[n + 1 + i - 1]
    BY <1>1, <2>1, SubSeqProperties
  <2>3. Len(left) = Len(q) - n
    BY <1>1, <2>2
  <2>4. ASSUME NEW i \in 1 .. Len(q) - n
        PROVE  left[i] = q[n + i]
    <3>1. n + 1 + i - 1 = n + i /\ i \in 1 .. Len(q) - (n + 1) + 1
      BY <1>1
    <3> QED BY <2>2, <3>1
  <2> QED BY <2>2, <2>3, <2>4
<1>4. ASSUME NEW j \in 1 .. Len(q), q[j] = d
      PROVE  d \in Scan!Range(taken) \/ d \in Scan!Range(left)
  <2>1. CASE j <= n
    <3>1. j \in 1 .. Len(taken) /\ taken[j] = d
      BY <1>1, <1>2, <1>4, <2>1
    <3> QED BY <1>2, <3>1, RangeOf
  <2>2. CASE j > n
    <3>1. j - n \in 1 .. Len(left) /\ left[j - n] = q[n + (j - n)] /\ n + (j - n) = j
      <4>1. j - n \in 1 .. Len(q) - n /\ n + (j - n) = j
        BY <1>1, <2>2
      <4> QED BY <1>3, <4>1
    <3>2. left[j - n] = d
      BY <1>4, <3>1
    <3> QED BY <1>3, <3>1, <3>2, RangeOf
  <2> QED BY <1>1, <2>1, <2>2
<1> QED BY <1>2, <1>3, <1>4, RangeOf

\* SetToSeq lists a set of directories.
LEMMA Listed ==
  ASSUME Scan!ScanConstants, NEW c \in SUBSET Dirs
  PROVE  Scan!SetToSeq(c) \in Seq(Dirs) /\ Scan!Range(Scan!SetToSeq(c)) = c
<1>1. IsFiniteSet(c)
  BY MainApart, FS_Subset
<1>2. PICK n \in Nat : n = Cardinality(c) /\ ExistsBijection(1 .. n, c)
  BY <1>1, FS_CardinalityType
<1> DEFINE Lists(f) == f \in [1 .. n -> c] /\ Scan!IsInjective(f)
<1>3. \E f : Lists(f)
  BY <1>2 DEF ExistsBijection, Bijection, Injection, IsInjective, Scan!IsInjective
<1>4. Lists(Scan!SetToSeq(c))
  <2>1. Scan!SetToSeq(c) =
          CHOOSE f \in [1 .. Scan!Cardinality(c) -> c] : Scan!IsInjective(f)
    BY DEF Scan!SetToSeq
  <2>2. Scan!Cardinality(c) = n
    BY <1>2, ScanCardinality
  <2> QED BY <1>3, <2>1, <2>2
<1>5. IsFiniteSet(1 .. n) /\ Cardinality(1 .. n) = n
  BY FS_Interval
<1> DEFINE s == Scan!SetToSeq(c)
<1>6. s \in Injection(1 .. n, c)
  BY <1>4 DEF Injection, IsInjective, Scan!IsInjective
<1>7. s \in Surjection(1 .. n, c)
  BY <1>1, <1>2, <1>5, <1>6, FS_Injection
<1>8. s \in Seq(c) /\ s \in Seq(Dirs)
  BY <1>4
<1>9. Scan!Range(s) = c
  BY <1>4, <1>7 DEF Surjection, Scan!Range
<1> QED BY <1>8, <1>9

-----------------------------------------------------------------------------
(* Types *)

\* What a batch finds are directories.
LEMMA FoundDirs ==
  ASSUME Scan!TypeOK, NEW p \in Scan!Procs
  PROVE  Scan!Found(p) \subseteq Dirs
BY DEF Scan!TypeOK, Scan!Found

\* Every step of process_dir_batch keeps the types.
LEMMA BatchTypes ==
  ASSUME Scan!ScanConstants, Scan!TypeOK, NEW p \in Scan!Procs,
         Scan!process_dir_batch(p)
  PROVE  Scan!TypeOK'
<1> USE DEF Scan!Set, Scan!At, Scan!Goto, Scan!shared, Scan!tree
<1>1. /\ Scan!Main \notin Workers /\ Scan!Main \in Scan!Procs
      /\ Workers \subseteq Scan!Procs
  BY MainApart
<1>2. todo[p] # <<>> => /\ Head(todo[p]) \in Dirs /\ Tail(todo[p]) \in Seq(Dirs)
                        /\ Scan!Key(Head(todo[p])) \in
                             {Inode[d] : d \in Dirs} \cup {NoInode}
  BY DEF Scan!TypeOK, Scan!Key
<1>3. CASE Scan!OpenSkip(p)
  BY <1>2, <1>3 DEF Scan!OpenSkip, Scan!TypeOK
<1>4. CASE Scan!OpenAsync(p)
  <2>1. <<"open", Head(todo[p])>> \in Scan!Ops \X Dirs
    BY <1>2, <1>4 DEF Scan!OpenAsync, Scan!OpenNext, Scan!Ops
  <2> QED BY <1>2, <1>4, <2>1 DEF Scan!OpenAsync, Scan!OpenNext, Scan!TypeOK
<1>5. CASE Scan!OpenSync(p)
  <2>1. fds' \in [Scan!Procs -> SUBSET Dirs]
    <3>1. CASE fds' = [fds EXCEPT ![p] = fds[p] \cup {Head(todo[p])}]
      <4>1. Head(todo[p]) \in Dirs
        BY <1>2, <1>5 DEF Scan!OpenSync, Scan!OpenNext
      <4> QED BY <3>1, <4>1 DEF Scan!TypeOK
    <3>2. CASE fds' = fds
      BY <3>2 DEF Scan!TypeOK
    <3> QED BY <1>5, <3>1, <3>2 DEF Scan!OpenSync
  <2> QED BY <1>2, <1>5, <2>1 DEF Scan!OpenSync, Scan!OpenNext, Scan!TypeOK
<1>6. CASE Scan!OpensSubmitted(p)
  BY <1>1, <1>6 DEF Scan!OpensSubmitted, Scan!TypeOK, Scan!MainPcs, Scan!WorkerPcs,
     Scan!Batching
<1>7. CASE Scan!ReadAndStat(p)
  <2>1. Scan!Entries(p) \subseteq Dirs
    BY DEF Scan!Entries, Scan!TypeOK, Scan!ScanConstants
  <2>2. PICK asked, sync, good :
          /\ asked \subseteq Scan!Entries(p) /\ good \subseteq Scan!Entries(p)
          /\ flight' = [flight EXCEPT ![p] = flight[p] \cup
                          {<<"statx", d>> : d \in asked \ sync}]
          /\ stat' = stat \cup good
          /\ is_dir' = is_dir \cup good \cup (IF Typed THEN Scan!Entries(p) ELSE {})
    BY <1>7 DEF Scan!ReadAndStat
  <2>3. {<<"statx", d>> : d \in asked \ sync} \subseteq Scan!Ops \X Dirs
    BY <2>1, <2>2 DEF Scan!Ops
  <2>4. listed' \in [Dirs -> SUBSET Dirs]
    BY <1>7 DEF Scan!ReadAndStat, Scan!TypeOK, Scan!ScanConstants
  <2>5. /\ flight' \in [Scan!Procs -> SUBSET (Scan!Ops \X Dirs)]
        /\ stat' \subseteq Dirs /\ is_dir' \subseteq Dirs
    BY <2>1, <2>2, <2>3 DEF Scan!TypeOK
  <2>6. /\ pc' \in [Scan!Procs -> Scan!MainPcs \cup Scan!WorkerPcs]
        /\ pc'[Scan!Main] \in Scan!MainPcs
        /\ \A w \in Workers : pc'[w] \in Scan!WorkerPcs
    BY <1>1, <1>7 DEF Scan!ReadAndStat, Scan!TypeOK, Scan!MainPcs, Scan!WorkerPcs,
       Scan!Batching
  <2> QED BY <1>7, <2>4, <2>5, <2>6 DEF Scan!ReadAndStat, Scan!TypeOK
<1>8. CASE Scan!CloseAll(p)
  <2>1. PICK sync : flight' = [flight EXCEPT ![p] = flight[p] \cup
                                 {<<"close", d>> : d \in fds[p] \ sync}]
    BY <1>8 DEF Scan!CloseAll
  <2>2. {<<"close", d>> : d \in fds[p] \ sync} \subseteq Scan!Ops \X Dirs
    BY DEF Scan!Ops, Scan!TypeOK
  <2>3. flight' \in [Scan!Procs -> SUBSET (Scan!Ops \X Dirs)]
    BY <2>1, <2>2 DEF Scan!TypeOK
  <2> QED BY <1>1, <1>8, <2>3 DEF Scan!CloseAll, Scan!TypeOK, Scan!MainPcs,
             Scan!WorkerPcs, Scan!Batching
<1>9. CASE Scan!Complete(p)
  <2>1. PICK r \in flight[p], ok \in BOOLEAN :
          /\ flight' = [flight EXCEPT ![p] = flight[p] \ {r}]
          /\ \/ Scan!on_openat_complete(p, r[2], ok)
             \/ Scan!on_statx_complete(p, r[2], ok)
             \/ Scan!on_close_complete(p, r[2])
    BY <1>9 DEF Scan!Complete
  <2>2. r[2] \in Dirs /\ flight' \in [Scan!Procs -> SUBSET (Scan!Ops \X Dirs)]
    BY <2>1 DEF Scan!TypeOK
  <2>3. /\ fds' \in [Scan!Procs -> SUBSET Dirs] /\ listed' = listed
        /\ is_dir' \subseteq Dirs /\ stat' \subseteq Dirs
    <3>1. CASE Scan!on_openat_complete(p, r[2], ok)
      BY <2>2, <3>1 DEF Scan!TypeOK, Scan!on_openat_complete
    <3>2. CASE Scan!on_statx_complete(p, r[2], ok)
      BY <2>2, <3>2 DEF Scan!TypeOK, Scan!on_statx_complete
    <3>3. CASE Scan!on_close_complete(p, r[2])
      BY <3>3 DEF Scan!TypeOK, Scan!on_close_complete
    <3> QED BY <2>1, <3>1, <3>2, <3>3
  <2> QED BY <1>9, <2>2, <2>3 DEF Scan!Complete, Scan!TypeOK
<1> QED BY <1>3, <1>4, <1>5, <1>6, <1>7, <1>8, <1>9 DEF Scan!process_dir_batch

\* So does every step of worker_fn.
LEMMA WorkerTypes ==
  ASSUME Scan!ScanConstants, Scan!TypeOK, NEW p \in Workers, Scan!worker_fn(p)
  PROVE  Scan!TypeOK'
<1> USE DEF Scan!Set, Scan!At, Scan!Goto, Scan!Begin, Scan!shared, Scan!tree,
            Scan!MainPcs, Scan!WorkerPcs, Scan!Batching
<1>1. p # Scan!Main /\ Scan!Main \in Scan!Procs /\ Workers \subseteq Scan!Procs
  BY MainApart
<1>2. CASE Scan!CreateEngine(p)
  BY <1>1, <1>2 DEF Scan!CreateEngine, Scan!TypeOK
<1>3. CASE Scan!wq_pop_batch(p)
  <2> DEFINE n == IF Len(queue) < DirsPerBatch THEN Len(queue) ELSE DirsPerBatch
             taken == SubSeq(queue, 1, n)
             left == SubSeq(queue, n + 1, Len(queue))
  <2>1. n \in 0 .. Len(queue)
    BY DEF Scan!TypeOK, Scan!ScanConstants
  <2>2. taken \in Seq(Dirs) /\ left \in Seq(Dirs)
    BY <2>1, RangeCut DEF Scan!TypeOK
  <2>3. /\ queue' = left /\ batch' = [batch EXCEPT ![p] = taken]
        /\ pc' = [pc EXCEPT ![p] = "open"] /\ todo' = [todo EXCEPT ![p] = taken]
        /\ fds' = [fds EXCEPT ![p] = {}]
        /\ UNCHANGED <<pending, done, Scan!tree, visited, interrupted, flight, skipped>>
    BY <1>3 DEF Scan!wq_pop_batch
  <2> HIDE DEF taken, left
  <2> QED BY <1>1, <2>2, <2>3 DEF Scan!TypeOK
<1>4. CASE Scan!PopNothing(p)
  BY <1>1, <1>4 DEF Scan!PopNothing, Scan!TypeOK
<1>5. CASE Scan!Chain(p)
  <2>1. PICK c \in Scan!Chains(p) :
          /\ skipped' = skipped \cup (Scan!Found(p) \ Scan!Range(c))
          /\ IF c = <<>> THEN Scan!Begin(p, "retire", batch[p])
                         ELSE Scan!Begin(p, "count", c)
    BY <1>5 DEF Scan!Chain
  <2>2. c \in Seq(Dirs)
    <3>1. PICK e \in SUBSET Scan!Found(p) : c = Scan!SetToSeq(e)
      BY <2>1 DEF Scan!Chains
    <3> QED BY <1>1, <3>1, Listed, FoundDirs
  <2>3. skipped' \subseteq Dirs
    BY <1>1, <2>1, FoundDirs DEF Scan!TypeOK
  <2>4. \E to \in {"retire", "count"}, q \in Seq(Dirs) :
          pc' = [pc EXCEPT ![p] = to] /\ todo' = [todo EXCEPT ![p] = q]
    BY <1>1, <2>1, <2>2 DEF Scan!TypeOK
  <2> QED BY <1>1, <1>5, <2>3, <2>4 DEF Scan!Chain, Scan!TypeOK
<1>6. CASE Scan!Count(p)
  BY <1>1, <1>6 DEF Scan!Count, Scan!TypeOK
<1>7. CASE Scan!wq_push_batch(p)
  BY <1>1, <1>7 DEF Scan!wq_push_batch, Scan!TypeOK
<1>8. CASE Scan!Retire(p)
  <2>1. Tail(todo[p]) \in Seq(Dirs)
    BY <1>1, <1>8 DEF Scan!Retire, Scan!TypeOK
  <2> QED BY <1>1, <1>8, <2>1 DEF Scan!Retire, Scan!TypeOK
<1>9. CASE Scan!wq_signal_done(p)
  BY <1>1, <1>9 DEF Scan!wq_signal_done, Scan!TypeOK
<1>10. CASE Scan!Retired(p)
  BY <1>1, <1>10 DEF Scan!Retired, Scan!TypeOK
<1>11. CASE Scan!Drop(p)
  BY <1>1, <1>11 DEF Scan!Drop, Scan!TypeOK
<1>12. CASE Scan!Dropped(p)
  BY <1>1, <1>12 DEF Scan!Dropped, Scan!TypeOK
<1>13. CASE Scan!aura_destroy(p)
  BY <1>1, <1>13 DEF Scan!aura_destroy, Scan!TypeOK
<1> QED BY <1>2, <1>3, <1>4, <1>5, <1>6, <1>7, <1>8, <1>9, <1>10, <1>11, <1>12, <1>13
        DEF Scan!worker_fn

\* There are no more threads than CPUs.
LEMMA SpawnBound ==
  ASSUME Scan!ScanConstants, Scan!TypeOK, NEW w \in 1 .. Scan!NumWorkers
  PROVE  w \in Workers
<1> DEFINE kids == Cardinality(Scan!Found(Scan!Main))
<1>1. kids \in Nat
  <2>1. Scan!Found(Scan!Main) \subseteq Dirs
    BY MainApart, FoundDirs
  <2> QED BY <2>1, MainApart, FS_Subset, FS_CardinalityType
<1>2. Scan!NumWorkers = IF kids < Cardinality(Workers) THEN kids
                                                       ELSE Cardinality(Workers)
  BY ScanCardinality DEF Scan!NumWorkers
<1>3. Cardinality(Workers) \in Nat /\ Workers = 1 .. Cardinality(Workers)
  BY MainApart
<1> QED BY <1>1, <1>2, <1>3

\* And of scan_tree.
LEMMA MainTypes ==
  ASSUME Scan!ScanConstants, Scan!TypeOK, Scan!scan_tree
  PROVE  Scan!TypeOK'
<1> USE DEF Scan!Set, Scan!At, Scan!Goto, Scan!Begin, Scan!shared, Scan!tree,
            Scan!MainPcs, Scan!WorkerPcs, Scan!Batching
<1>1. /\ Scan!Main \notin Workers /\ Scan!Main \in Scan!Procs
      /\ Workers \subseteq Scan!Procs
  BY MainApart
<1>2. CASE Scan!RootRead
  BY <1>1, <1>2 DEF Scan!RootRead, Scan!TypeOK
<1>3. CASE Scan!aura_destroy(Scan!Main)
  <2>1. Scan!SetToSeq(Scan!Found(Scan!Main)) \in Seq(Dirs)
    BY <1>1, Listed, FoundDirs
  <2> QED BY <1>1, <1>3, <2>1 DEF Scan!aura_destroy, Scan!TypeOK
<1>4. CASE Scan!Seed
  <2>1. Head(todo[Scan!Main]) \in Dirs /\ Tail(todo[Scan!Main]) \in Seq(Dirs)
    BY <1>1, <1>4 DEF Scan!Seed, Scan!TypeOK
  <2>2. queue' \in Seq(Dirs) /\ pending' \in Int /\ skipped' \subseteq Dirs
    <3>1. CASE /\ pending' = pending + 1 /\ skipped' = skipped
               /\ queue' = Append(queue, Head(todo[Scan!Main]))
      BY <2>1, <3>1 DEF Scan!TypeOK
    <3>2. CASE /\ skipped' = skipped \cup {Head(todo[Scan!Main])}
               /\ UNCHANGED <<pending, queue>>
      BY <2>1, <3>2 DEF Scan!TypeOK
    <3> QED BY <1>4, <3>1, <3>2 DEF Scan!Seed
  <2> QED BY <1>1, <1>4, <2>1, <2>2 DEF Scan!Seed, Scan!TypeOK
<1>5. CASE Scan!Seeded
  BY <1>1, <1>5 DEF Scan!Seeded, Scan!TypeOK
<1>6. CASE Scan!Spawn
  <2>1. \A w \in 1 .. Scan!NumWorkers : w \in Workers
    BY MainApart, SpawnBound
  <2> QED BY <1>1, <1>6, <2>1 DEF Scan!Spawn, Scan!TypeOK
<1>7. CASE Scan!Join
  BY <1>1, <1>7 DEF Scan!Join, Scan!TypeOK
<1> QED BY <1>2, <1>3, <1>4, <1>5, <1>6, <1>7 DEF Scan!scan_tree

-----------------------------------------------------------------------------
(* Steps *)

\* What the workers have in hand are natural numbers.
LEMMA Hands ==
  ASSUME Scan!ScanConstants, Scan!TypeOK
  PROVE  /\ Scan!InHands \in [Workers -> Nat]
         /\ \A w \in Workers : /\ Scan!Held(w) \in Nat /\ Scan!Counted(w) \in Nat
                               /\ Scan!InHands[w] = Scan!Held(w) + Scan!Counted(w)
<1>1. ASSUME NEW w \in Workers
      PROVE  Scan!Held(w) \in Nat /\ Scan!Counted(w) \in Nat
  <2>1. Len(batch[w]) \in Nat /\ Len(todo[w]) \in Nat
    BY MainApart DEF Scan!TypeOK
  <2> QED BY <2>1 DEF Scan!Held, Scan!Counted
<1> QED BY <1>1 DEF Scan!InHands

\* The same after a step.
LEMMA HandsNext ==
  ASSUME Scan!ScanConstants, Scan!TypeOK'
  PROVE  /\ Scan!InHands' \in [Workers -> Nat]
         /\ \A w \in Workers : Scan!InHands'[w] = Scan!Held(w)' + Scan!Counted(w)'
<1>1. ASSUME NEW w \in Workers
      PROVE  Scan!Held(w)' \in Nat /\ Scan!Counted(w)' \in Nat
  <2>1. Len(batch'[w]) \in Nat /\ Len(todo'[w]) \in Nat
    BY MainApart DEF Scan!TypeOK
  <2> QED BY <2>1 DEF Scan!Held, Scan!Counted
<1> QED BY <1>1 DEF Scan!InHands

\* Where pending is zero nobody has anything; what one has is pending.
LEMMA HandsCounted ==
  ASSUME Scan!ScanConstants, Scan!TypeOK, Scan!PendingExact, NEW w \in Workers
  PROVE  /\ Scan!Held(w) + Scan!Counted(w) + Len(queue) <= pending
         /\ pending = 0 => Len(queue) = 0 /\ Scan!Held(w) = 0
<1>1. /\ Scan!InHands \in [Workers -> Nat] /\ Scan!Held(w) \in Nat
      /\ Scan!Counted(w) \in Nat
      /\ Scan!InHands[w] = Scan!Held(w) + Scan!Counted(w)
  BY Hands
<1>2. Scan!Total(Scan!InHands) \in Nat /\ Scan!InHands[w] <= Scan!Total(Scan!InHands)
  BY <1>1, TotalMoves
<1>3. Len(queue) \in Nat /\ pending \in Int
  BY DEF Scan!TypeOK
<1> QED BY <1>1, <1>2, <1>3 DEF Scan!PendingExact

\* Without SIGINT a thread that is not at a batch has no request.
LEMMA NoRequests ==
  ASSUME Scan!TypeOK, Scan!Phased, ~interrupted, NEW p \in Scan!Procs,
         \/ pc[p] \notin Scan!Batching
         \/ pc[p] = "close_drain" /\ Scan!Drained(p, "close")
  PROVE  flight[p] = {}
<1> SUFFICES ASSUME NEW r \in flight[p]
             PROVE  FALSE
  OBVIOUS
<1>1. r[1] \in {"open", "statx", "close"}
  BY DEF Scan!TypeOK, Scan!Ops
<1> QED BY <1>1 DEF Scan!Phased, Scan!Batching, Scan!At, Scan!Drained

\* The other threads wait with what they waited with.
LEMMA WaitsStand ==
  ASSUME NEW v \in Scan!Procs, NEW d,
         pc'[v] = pc[v], todo'[v] = todo[v], batch'[v] = batch[v],
         UNCHANGED <<listed, is_dir>>
  PROVE  Scan!WaitsWith(v, d)' <=> Scan!WaitsWith(v, d)
BY DEF Scan!WaitsWith, Scan!Found, Scan!At

\* A step of worker p keeps the invariant if it counts what it moves, drops no
\* directory, and leaves its requests behind.
LEMMA WorkerMoves ==
  ASSUME Scan!ScanConstants, Scan!ScanInv, Scan!TypeOK', NEW p \in Workers, NEW to,
         pc[p] \notin {"absent", "exited"}, to # "absent",
         pc' = [pc EXCEPT ![p] = to],
         \A v \in Scan!Procs \ {p} : /\ todo'[v] = todo[v] /\ batch'[v] = batch[v]
                                     /\ fds'[v] = fds[v],
         UNCHANGED <<max_depth, visited, interrupted, listed, is_dir, stat, flight>>,
         interrupted \/ flight[p] = {},
         to \in Scan!Batching => fds'[p] = {} /\ todo'[p] = batch'[p],
         to \in Scan!Batching \cup {"count", "push"} => batch'[p] # <<>>,
         to \in {"destroy", "exited"} => done' \/ interrupted,
         done => done',
         done' \/ (\E w \in Workers : Scan!At(w, "signal")') => pending' = 0,
         pending' - Len(queue') - Scan!InHands'[p] = pending - Len(queue) - Scan!InHands[p],
         skipped \subseteq skipped',
         ASSUME NEW d \in Dirs, Scan!Undisturbed',
                d \in Scan!Range(queue) \/ Scan!WaitsWith(p, d)
         PROVE  d \in Scan!Range(queue)' \/ Scan!WaitsWith(p, d)'
  PROVE  Scan!ScanInv'
<1> USE DEF Scan!ScanInv
<1>1. /\ p \in Scan!Procs /\ p # Scan!Main /\ Scan!Main \in Scan!Procs
      /\ Workers \subseteq Scan!Procs
  BY MainApart
<1>2. pc'[p] = to /\ \A v \in Scan!Procs \ {p} : pc'[v] = pc[v]
  BY <1>1 DEF Scan!TypeOK
<1>3. pc'[Scan!Main] = pc[Scan!Main] /\ pc[Scan!Main] # "returned" /\ ~Scan!Seeding
  BY <1>1, <1>2 DEF Scan!SeededFirst, Scan!At
<1>4. Scan!PendingExact'
  <2>1. /\ Scan!InHands \in [Workers -> Nat] /\ Scan!InHands' \in [Workers -> Nat]
    BY Hands, HandsNext
  <2>2. \A v \in Workers \ {p} : Scan!InHands'[v] = Scan!InHands[v]
    BY <1>1, <1>2 DEF Scan!InHands, Scan!Held, Scan!Counted, Scan!At
  <2>3. Scan!Total(Scan!InHands') =
          Scan!Total(Scan!InHands) - Scan!InHands[p] + Scan!InHands'[p]
    <3>1. \A f, g \in [Workers -> Nat] : (\A v \in Workers \ {p} : g[v] = f[v]) =>
            Scan!Total(g) = Scan!Total(f) - f[p] + g[p]
      BY TotalMoves
    <3> QED BY <2>1, <2>2, <3>1
  <2>4. /\ Scan!InHands[p] \in Nat /\ Scan!InHands'[p] \in Nat
        /\ Scan!Total(Scan!InHands) \in Nat
        /\ Len(queue) \in Nat /\ Len(queue') \in Nat /\ pending' \in Int
        /\ pending = Len(queue) + Scan!Total(Scan!InHands)
    <3>1. Scan!InHands[p] \in Nat /\ Scan!InHands'[p] \in Nat
      BY <2>1
    <3>2. Scan!Total(Scan!InHands) \in Nat
      BY <2>1, TotalZero
    <3>3. /\ Len(queue) \in Nat /\ Len(queue') \in Nat /\ pending' \in Int
          /\ pending = Len(queue) + Scan!Total(Scan!InHands)
      BY DEF Scan!TypeOK, Scan!PendingExact
    <3> QED BY <3>1, <3>2, <3>3
  <2>5. pending' = Len(queue') + Scan!Total(Scan!InHands')
    BY <2>3, <2>4
  <2> QED BY <2>5 DEF Scan!PendingExact
<1>5. Scan!SeededFirst'
  BY <1>1, <1>2, <1>3 DEF Scan!SeededFirst, Scan!Seeding, Scan!At
<1>6. Scan!EndSeen'
  <2>1. ASSUME NEW w \in Workers
        PROVE  /\ pc'[w] \in Scan!Batching \cup {"count", "push"} => batch'[w] # <<>>
               /\ pc'[w] \in {"destroy", "exited"} => done' \/ interrupted
    BY <1>1, <1>2 DEF Scan!EndSeen
  <2> QED BY <2>1 DEF Scan!EndSeen
<1>7. Scan!Phased'
  BY <1>2 DEF Scan!Phased, Scan!At
<1>8. Scan!Listing'
  <2>1. ASSUME ~interrupted, NEW v \in Scan!Procs, pc'[v] \in Scan!Batching
        PROVE  fds'[v] \subseteq Scan!Range(batch'[v])
    BY <1>2, <2>1 DEF Scan!Listing
  <2>2. ASSUME ~interrupted, NEW v \in Scan!Procs, pc'[v] = "open"
        PROVE  Scan!Range(todo'[v]) \subseteq Scan!Range(batch'[v])
    BY <1>2, <2>2 DEF Scan!Listing, Scan!At, Scan!Batching
  <2>3. ASSUME ~interrupted, NEW v \in Scan!Procs, NEW r \in flight[v]
        PROVE  /\ r[1] = "open"  => r[2] \in Scan!Range(batch'[v])
               /\ r[1] = "statx" => \E d \in Scan!Range(batch'[v]) : r[2] \in listed[d]
    BY <2>3 DEF Scan!Listing
  <2> QED BY <2>1, <2>2, <2>3 DEF Scan!Listing, Scan!At
<1>9. Scan!NoneLost'
  <2> SUFFICES ASSUME Scan!Undisturbed', NEW d \in is_dir,
                      Scan!Expanded(d), Scan!Key(d) \notin visited
               PROVE  \/ d \in Scan!Range(queue)'
                      \/ \E v \in Scan!Procs : Scan!WaitsWith(v, d)'
    BY DEF Scan!NoneLost, Scan!Expanded, Scan!Key
  <2>1. Scan!Undisturbed /\ d \in Dirs
    BY DEF Scan!Undisturbed, Scan!TypeOK
  <2>2. \/ d \in Scan!Range(queue) \/ Scan!WaitsWith(p, d)
        \/ \E v \in Scan!Procs \ {p} : Scan!WaitsWith(v, d)
    BY <2>1 DEF Scan!NoneLost
  <2>3. ASSUME NEW v \in Scan!Procs \ {p}, Scan!WaitsWith(v, d)
        PROVE  Scan!WaitsWith(v, d)'
    BY <1>2, <2>3, WaitsStand
  <2> QED BY <1>1, <2>1, <2>2, <2>3
<1> QED BY <1>4, <1>5, <1>6, <1>7, <1>8, <1>9

\* Every step of worker_fn.
LEMMA WorkerKeeps ==
  ASSUME Scan!ScanConstants, Scan!ScanInv, NEW p \in Workers, Scan!worker_fn(p)
  PROVE  Scan!ScanInv'
<1> USE DEF Scan!ScanInv
<1>1. Scan!TypeOK' /\ p # Scan!Main /\ p \in Scan!Procs /\ Workers \subseteq Scan!Procs
  BY WorkerTypes, MainApart
<1>2. /\ pc \in [Scan!Procs -> Scan!MainPcs \cup Scan!WorkerPcs]
      /\ todo \in [Scan!Procs -> Seq(Dirs)] /\ batch \in [Scan!Procs -> Seq(Dirs)]
      /\ fds \in [Scan!Procs -> SUBSET Dirs] /\ queue \in Seq(Dirs)
      /\ pending \in Int /\ Len(queue) \in Nat
      /\ Len(todo[p]) \in Nat /\ Len(batch[p]) \in Nat
      /\ max_depth' = max_depth
  BY <1>1 DEF Scan!TypeOK, Scan!worker_fn
<1>3. /\ Scan!InHands[p] = Scan!Held(p) + Scan!Counted(p)
      /\ Scan!InHands'[p] = Scan!Held(p)' + Scan!Counted(p)'
  BY <1>1, Hands, HandsNext
<1> DEFINE Working == Scan!Batching \cup {"count", "push"}
<1>31. /\ Scan!Held(p) = IF pc[p] \in Working THEN Len(batch[p])
                         ELSE IF pc[p] \in {"retire", "signal"} THEN Len(todo[p])
                         ELSE IF pc[p] = "dropped" THEN 1 ELSE 0
       /\ Scan!Counted(p) = IF pc[p] = "push" THEN Len(todo[p]) ELSE 0
  BY DEF Scan!Held, Scan!Counted, Scan!At, Scan!Batching
<1>32. /\ Scan!Held(p)' = IF pc'[p] \in Working THEN Len(batch'[p])
                         ELSE IF pc'[p] \in {"retire", "signal"} THEN Len(todo'[p])
                         ELSE IF pc'[p] = "dropped" THEN 1 ELSE 0
       /\ Scan!Counted(p)' = IF pc'[p] = "push" THEN Len(todo'[p]) ELSE 0
  BY DEF Scan!Held, Scan!Counted, Scan!At, Scan!Batching
<1> HIDE DEF Working
<1>33. Working = {"open", "open_drain", "statx_drain", "close_drain", "count", "push"}
  BY DEF Working, Scan!Batching
<1>4. pc[p] \notin Scan!Batching => interrupted \/ flight[p] = {}
  BY <1>1, NoRequests
<1>5. \A d : Scan!WaitsWith(p, d) =>
        \/ pc[p] \in {"open", "count", "push"} /\ d \in Scan!Range(todo[p])
        \/ pc[p] \in {"statx_drain", "close_drain"} /\ d \in Scan!Found(p)
  <2>1. pc[p] # "seed"
    BY DEF Scan!TypeOK, Scan!WorkerPcs, Scan!Batching
  <2> QED BY <1>1, <2>1 DEF Scan!WaitsWith
<1>6. done \/ (\E w \in Workers : pc[w] = "signal") => pending = 0
  BY DEF Scan!EndSeen, Scan!At
<1> DEFINE Quiet(to) ==
      /\ pc' = [pc EXCEPT ![p] = to]
      /\ UNCHANGED <<queue, pending, done, batch, fds, skipped, max_depth, visited,
                     interrupted, listed, is_dir, stat, flight>>
\* A step that moves on and has nothing in hand before and after.
<1>7. ASSUME NEW to \in {"pop", "drop", "destroy", "exited"}, Quiet(to),
             \A v \in Scan!Procs \ {p} : todo'[v] = todo[v],
             \/ pc[p] \in {"create", "pop", "drop", "destroy"}
             \/ pc[p] = "retire" /\ todo[p] = <<>>,
             to \in {"destroy", "exited"} => done \/ interrupted
      PROVE  Scan!ScanInv'
  <2>1. pc'[p] = to /\ \A v \in Scan!Procs \ {p} : pc'[v] = pc[v]
    BY <1>1, <1>2, <1>7
  <2>2. Scan!InHands[p] = 0 /\ Scan!InHands'[p] = 0
    <3>1. pc[p] = "retire" => Len(todo[p]) = 0
      BY <1>7
    <3>2. Scan!Held(p) = 0 /\ Scan!Counted(p) = 0
      BY <1>7, <1>31, <1>33, <3>1
    <3>3. Scan!Held(p)' = 0 /\ Scan!Counted(p)' = 0
      BY <1>7, <1>32, <1>33, <2>1
    <3> QED BY <1>3, <3>2, <3>3
  <2>3. \A d : ~Scan!WaitsWith(p, d)
    BY <1>5, <1>7
  <2>4. \A w \in Workers : pc'[w] = "signal" => pc[w] = "signal"
    BY <1>1, <1>7, <2>1
  <2>5. pc[p] \notin Scan!Batching /\ to \notin Scan!Batching
    BY <1>7 DEF Scan!Batching
  <2> QED BY <1>1, <1>2, <1>4, <1>6, <1>7, <2>2, <2>3, <2>4, <2>5, WorkerMoves
          DEF Scan!At
<1> USE DEF Scan!Set, Scan!At, Scan!Goto, Scan!Begin, Scan!shared, Scan!tree
<1>8. CASE Scan!CreateEngine(p)
  <2>1. PICK to \in {"pop", "drop", "destroy", "exited"} :
          pc' = [pc EXCEPT ![p] = to] /\ (to \in {"destroy", "exited"} => interrupted)
    BY <1>8 DEF Scan!CreateEngine
  <2> QED BY <1>2, <1>7, <1>8, <2>1 DEF Scan!CreateEngine
<1>9. CASE Scan!PopNothing(p)
  <2>1. PICK to \in {"destroy", "exited"} : pc' = [pc EXCEPT ![p] = to]
    BY <1>9 DEF Scan!PopNothing
  <2> QED BY <1>2, <1>7, <1>9, <2>1 DEF Scan!PopNothing
<1>10. CASE Scan!Retired(p)
  <2>1. PICK to \in {"destroy", "pop"} :
          pc' = [pc EXCEPT ![p] = to] /\ (to = "destroy" => interrupted)
    BY <1>10 DEF Scan!Retired
  <2> QED BY <1>2, <1>7, <1>10, <2>1 DEF Scan!Retired
<1>11. CASE Scan!aura_destroy(p)
  <2>1. PICK to \in {"pop", "drop", "destroy", "exited"} :
          pc' = [pc EXCEPT ![p] = to] /\ to = "exited"
    BY <1>1, <1>11 DEF Scan!aura_destroy
  <2>2. \A v \in Scan!Procs \ {p} : todo'[v] = todo[v]
    BY <1>2, <1>11 DEF Scan!aura_destroy
  <2>3. done \/ interrupted
    BY <1>11 DEF Scan!EndSeen, Scan!aura_destroy
  <2> QED BY <1>2, <1>7, <1>11, <2>1, <2>2, <2>3 DEF Scan!aura_destroy
<1>12. CASE Scan!wq_pop_batch(p)
  <2> DEFINE n == IF Len(queue) < DirsPerBatch THEN Len(queue) ELSE DirsPerBatch
             taken == SubSeq(queue, 1, n)
             left == SubSeq(queue, n + 1, Len(queue))
  <2>1. n \in 1 .. Len(queue) /\ n \in 0 .. Len(queue)
    <3>1. queue # <<>> /\ DirsPerBatch \in Nat \ {0}
      BY <1>12 DEF Scan!wq_pop_batch, Scan!ScanConstants
    <3>2. Len(queue) # 0
      BY <1>2, <3>1
    <3> QED BY <1>2, <3>1, <3>2
  <2>2. /\ pc[p] = "pop" /\ pc' = [pc EXCEPT ![p] = "open"]
        /\ todo' = [todo EXCEPT ![p] = taken] /\ batch' = [batch EXCEPT ![p] = taken]
        /\ fds' = [fds EXCEPT ![p] = {}] /\ queue' = left
        /\ UNCHANGED <<pending, done, visited, interrupted, listed, is_dir, stat,
                       flight, skipped>>
    BY <1>12 DEF Scan!wq_pop_batch
  <2> HIDE DEF n
  <2>3. /\ taken \in Seq(Dirs) /\ Len(taken) = n /\ Len(left) = Len(queue) - n
        /\ \A d : d \in Scan!Range(queue) =>
                   d \in Scan!Range(taken) \/ d \in Scan!Range(left)
    BY <1>2, <2>1, RangeCut
  <2> HIDE DEF taken, left
  <2>4. /\ pc'[p] = "open" /\ todo'[p] = taken /\ batch'[p] = taken /\ fds'[p] = {}
        /\ \A v \in Scan!Procs \ {p} : /\ pc'[v] = pc[v] /\ todo'[v] = todo[v]
                                       /\ batch'[v] = batch[v] /\ fds'[v] = fds[v]
    BY <1>1, <1>2, <2>2
  <2>5. taken # <<>>
    BY <2>1, <2>3
  <2>6. Scan!InHands[p] = 0 /\ Scan!InHands'[p] = n
    <3>1. Scan!Held(p) = 0 /\ Scan!Counted(p) = 0
      BY <1>31, <1>33, <2>2
    <3>2. Scan!Held(p)' = n /\ Scan!Counted(p)' = 0
      BY <1>32, <1>33, <2>3, <2>4
    <3> QED BY <1>3, <2>1, <3>1, <3>2
  <2>7. ASSUME NEW d, d \in Scan!Range(queue) \/ Scan!WaitsWith(p, d)
        PROVE  d \in Scan!Range(queue)' \/ Scan!WaitsWith(p, d)'
    <3>1. d \in Scan!Range(queue)
      BY <1>5, <2>2, <2>7
    <3>2. d \in Scan!Range(taken) => Scan!WaitsWith(p, d)'
      BY <2>4 DEF Scan!WaitsWith
    <3>3. d \in Scan!Range(left) => d \in Scan!Range(queue)'
      BY <2>2
    <3> QED BY <2>3, <3>1, <3>2, <3>3
  <2>8. done' \/ (\E w \in Workers : Scan!At(w, "signal")') => pending' = 0
    BY <1>1, <1>6, <2>2, <2>4
  <2>9. interrupted \/ flight[p] = {}
    BY <1>4, <2>2 DEF Scan!Batching
  <2>10. pending' - Len(queue') - Scan!InHands'[p] = pending - Len(queue) - Scan!InHands[p]
    BY <1>2, <2>1, <2>2, <2>3, <2>6
  <2> QED BY <1>1, <1>2, <2>2, <2>4, <2>5, <2>7, <2>8, <2>9, <2>10, WorkerMoves
<1>13. CASE Scan!Count(p)
  <2>1. /\ pc[p] = "count" /\ pc' = [pc EXCEPT ![p] = "push"]
        /\ pending' = pending + Len(todo[p])
        /\ UNCHANGED <<queue, done, batch, fds, todo, visited, interrupted, listed,
                       is_dir, stat, flight, skipped>>
    BY <1>13 DEF Scan!Count
  <2>2. pc'[p] = "push" /\ \A v \in Scan!Procs \ {p} : pc'[v] = pc[v]
    BY <1>1, <1>2, <2>1
  <2>3. batch[p] # <<>>
    BY <2>1 DEF Scan!EndSeen
  <2>4. /\ Scan!InHands[p] = Len(batch[p])
        /\ Scan!InHands'[p] = Len(batch[p]) + Len(todo[p])
    <3>1. Scan!Held(p) = Len(batch[p]) /\ Scan!Counted(p) = 0
      BY <1>31, <1>33, <2>1
    <3>2. Scan!Held(p)' = Len(batch[p]) /\ Scan!Counted(p)' = Len(todo[p])
      BY <1>32, <1>33, <2>1, <2>2
    <3> QED BY <1>2, <1>3, <3>1, <3>2
  <2>5. pending # 0
    <3>1. Scan!Held(p) = Len(batch[p])
      BY <1>31, <1>33, <2>1
    <3>2. Len(batch[p]) # 0
      BY <1>2, <2>3
    <3> QED BY <3>1, <3>2, HandsCounted
  <2>6. done' \/ (\E w \in Workers : Scan!At(w, "signal")') => pending' = 0
    BY <1>1, <1>6, <2>1, <2>2, <2>5
  <2>7. ASSUME NEW d, d \in Scan!Range(queue) \/ Scan!WaitsWith(p, d)
        PROVE  d \in Scan!Range(queue)' \/ Scan!WaitsWith(p, d)'
    BY <1>5, <2>1, <2>2, <2>7 DEF Scan!WaitsWith
  <2>8. interrupted \/ flight[p] = {}
    BY <1>4, <2>1 DEF Scan!Batching
  <2>9. pending' - Len(queue') - Scan!InHands'[p] = pending - Len(queue) - Scan!InHands[p]
    BY <1>2, <2>1, <2>4
  <2>10. "push" \notin Scan!Batching
    BY DEF Scan!Batching
  <2> QED BY <1>1, <1>2, <2>1, <2>3, <2>6, <2>7, <2>8, <2>9, <2>10, WorkerMoves
<1>14. CASE Scan!wq_push_batch(p)
  <2>1. /\ pc[p] = "push" /\ pc' = [pc EXCEPT ![p] = "retire"]
        /\ queue' = queue \o todo[p] /\ todo' = [todo EXCEPT ![p] = batch[p]]
        /\ UNCHANGED <<pending, done, batch, fds, visited, interrupted, listed,
                       is_dir, stat, flight, skipped>>
    BY <1>14 DEF Scan!wq_push_batch
  <2>2. /\ pc'[p] = "retire" /\ todo'[p] = batch[p]
        /\ \A v \in Scan!Procs \ {p} : pc'[v] = pc[v] /\ todo'[v] = todo[v]
    BY <1>1, <1>2, <2>1
  <2>3. /\ Scan!InHands[p] = Len(batch[p]) + Len(todo[p])
        /\ Scan!InHands'[p] = Len(batch[p])
    <3>1. Scan!Held(p) = Len(batch[p]) /\ Scan!Counted(p) = Len(todo[p])
      BY <1>31, <1>33, <2>1
    <3>2. Scan!Held(p)' = Len(batch[p]) /\ Scan!Counted(p)' = 0
      BY <1>32, <1>33, <2>1, <2>2
    <3> QED BY <1>2, <1>3, <3>1, <3>2
  <2>4. /\ Len(queue') = Len(queue) + Len(todo[p])
        /\ \A d : d \in Scan!Range(queue) \/ d \in Scan!Range(todo[p]) =>
                   d \in Scan!Range(queue')
    BY <1>1, <1>2, <2>1, RangeMoves
  <2>5. done' \/ (\E w \in Workers : Scan!At(w, "signal")') => pending' = 0
    BY <1>1, <1>6, <2>1, <2>2
  <2>6. ASSUME NEW d, d \in Scan!Range(queue) \/ Scan!WaitsWith(p, d)
        PROVE  d \in Scan!Range(queue)'
    BY <1>5, <2>1, <2>4, <2>6
  <2>7. interrupted \/ flight[p] = {}
    BY <1>4, <2>1 DEF Scan!Batching
  <2>8. pending' - Len(queue') - Scan!InHands'[p] = pending - Len(queue) - Scan!InHands[p]
    BY <1>2, <2>1, <2>3, <2>4
  <2>9. "retire" \notin Scan!Batching
    BY DEF Scan!Batching
  <2> QED BY <1>1, <1>2, <2>1, <2>2, <2>5, <2>6, <2>7, <2>8, <2>9, WorkerMoves
<1>15. CASE Scan!Retire(p)
  <2>1. PICK to \in {"signal", "retire"} :
          /\ pc[p] = "retire" /\ pc' = [pc EXCEPT ![p] = to] /\ todo[p] # <<>>
          /\ to = "signal" <=> pending = 1
          /\ pending' = pending - 1 /\ todo' = [todo EXCEPT ![p] = Tail(todo[p])]
          /\ UNCHANGED <<queue, done, batch, fds, visited, interrupted, listed,
                         is_dir, stat, flight, skipped>>
    BY <1>15 DEF Scan!Retire
  <2>2. /\ pc'[p] = to /\ todo'[p] = Tail(todo[p])
        /\ \A v \in Scan!Procs \ {p} : pc'[v] = pc[v] /\ todo'[v] = todo[v]
    BY <1>1, <1>2, <2>1
  <2>3. Len(Tail(todo[p])) = Len(todo[p]) - 1 /\ Len(todo[p]) \in Nat \ {0}
    BY <1>1, <1>2, <2>1, RangeMoves
  <2>4. Scan!Held(p) = Len(todo[p]) /\ Scan!Counted(p) = 0
    BY <1>31, <1>33, <2>1
  <2>5. Scan!Held(p)' = Len(todo[p]) - 1 /\ Scan!Counted(p)' = 0
    BY <1>32, <1>33, <2>2, <2>3
  <2>6. pending >= 1
    BY <1>2, <2>3, <2>4, HandsCounted
  <2>7. done' \/ (\E w \in Workers : Scan!At(w, "signal")') => pending' = 0
    BY <1>1, <1>2, <1>6, <2>1, <2>2, <2>6
  <2>8. \A d : ~Scan!WaitsWith(p, d)
    BY <1>5, <2>1
  <2>9. interrupted \/ flight[p] = {}
    BY <1>4, <2>1 DEF Scan!Batching
  <2>10. pending' - Len(queue') - Scan!InHands'[p] = pending - Len(queue) - Scan!InHands[p]
    BY <1>2, <1>3, <2>1, <2>3, <2>4, <2>5
  <2>11. to \notin Scan!Batching
    BY DEF Scan!Batching
  <2> QED BY <1>1, <1>2, <2>1, <2>2, <2>7, <2>8, <2>9, <2>10, <2>11, WorkerMoves
<1>16. CASE Scan!wq_signal_done(p)
  <2>1. /\ pc[p] = "signal" /\ pc' = [pc EXCEPT ![p] = "retire"] /\ done' = TRUE
        /\ UNCHANGED <<queue, pending, batch, fds, todo, visited, interrupted, listed,
                       is_dir, stat, flight, skipped>>
    BY <1>16 DEF Scan!wq_signal_done
  <2>2. pc'[p] = "retire" /\ \A v \in Scan!Procs \ {p} : pc'[v] = pc[v]
    BY <1>1, <1>2, <2>1
  <2>3. pending' = 0
    BY <1>6, <2>1
  <2>4. Scan!InHands[p] = Len(todo[p]) /\ Scan!InHands'[p] = Len(todo[p])
    <3>1. Scan!Held(p) = Len(todo[p]) /\ Scan!Counted(p) = 0
      BY <1>31, <1>33, <2>1
    <3>2. Scan!Held(p)' = Len(todo[p]) /\ Scan!Counted(p)' = 0
      BY <1>32, <1>33, <2>1, <2>2
    <3> QED BY <1>2, <1>3, <3>1, <3>2
  <2>5. \A d : ~Scan!WaitsWith(p, d)
    BY <1>5, <2>1
  <2>6. interrupted \/ flight[p] = {}
    BY <1>4, <2>1 DEF Scan!Batching
  <2>7. "retire" \notin Scan!Batching
    BY DEF Scan!Batching
  <2> QED BY <1>1, <1>2, <2>1, <2>3, <2>4, <2>5, <2>6, <2>7, WorkerMoves
<1>17. CASE Scan!Drop(p)
  <2>1. /\ pc[p] = "drop" /\ pc' = [pc EXCEPT ![p] = "dropped"] /\ queue # <<>>
        /\ queue' = Tail(queue) /\ skipped' = skipped \cup {Head(queue)}
        /\ UNCHANGED <<pending, done, batch, fds, todo, visited, interrupted, listed,
                       is_dir, stat, flight>>
    BY <1>17 DEF Scan!Drop
  <2>2. pc'[p] = "dropped" /\ \A v \in Scan!Procs \ {p} : pc'[v] = pc[v]
    BY <1>1, <1>2, <2>1
  <2>3. Len(queue') = Len(queue) - 1
    BY <1>2, <2>1, RangeMoves
  <2>4. Scan!InHands[p] = 0 /\ Scan!InHands'[p] = 1
    <3>1. Scan!Held(p) = 0 /\ Scan!Counted(p) = 0
      BY <1>31, <1>33, <2>1
    <3>2. Scan!Held(p)' = 1 /\ Scan!Counted(p)' = 0
      BY <1>32, <1>33, <2>1, <2>2
    <3> QED BY <1>3, <3>1, <3>2
  <2>5. done' \/ (\E w \in Workers : Scan!At(w, "signal")') => pending' = 0
    BY <1>1, <1>6, <2>1, <2>2
  <2>6. ~Scan!Undisturbed'
    BY <2>1 DEF Scan!Undisturbed
  <2>7. interrupted \/ flight[p] = {}
    BY <1>4, <2>1 DEF Scan!Batching
  <2>8. pending' - Len(queue') - Scan!InHands'[p] = pending - Len(queue) - Scan!InHands[p]
    BY <1>2, <2>1, <2>3, <2>4
  <2>9. "dropped" \notin Scan!Batching
    BY DEF Scan!Batching
  <2> QED BY <1>1, <1>2, <2>1, <2>5, <2>6, <2>7, <2>8, <2>9, WorkerMoves
<1>18. CASE Scan!Dropped(p)
  <2>1. PICK to \in {"exited", "drop"} :
          /\ pc[p] = "dropped" /\ pc' = [pc EXCEPT ![p] = to]
          /\ to = "exited" => interrupted
          /\ pending' = pending - 1
          /\ (done => done') /\ (done' => done \/ pending = 1)
          /\ UNCHANGED <<queue, batch, fds, todo, visited, interrupted, listed,
                         is_dir, stat, flight, skipped>>
    BY <1>18 DEF Scan!Dropped
  <2>2. pc'[p] = to /\ \A v \in Scan!Procs \ {p} : pc'[v] = pc[v]
    BY <1>1, <1>2, <2>1
  <2>3. Scan!Held(p) = 1 /\ Scan!Counted(p) = 0
    BY <1>31, <1>33, <2>1
  <2>4. Scan!Held(p)' = 0 /\ Scan!Counted(p)' = 0
    BY <1>32, <1>33, <2>2
  <2>5. pending >= 1
    BY <1>2, <2>3, HandsCounted
  <2>6. done' \/ (\E w \in Workers : Scan!At(w, "signal")') => pending' = 0
    BY <1>1, <1>2, <1>6, <2>1, <2>2, <2>5
  <2>7. \A d : ~Scan!WaitsWith(p, d)
    BY <1>5, <2>1
  <2>8. interrupted \/ flight[p] = {}
    BY <1>4, <2>1 DEF Scan!Batching
  <2>9. pending' - Len(queue') - Scan!InHands'[p] = pending - Len(queue) - Scan!InHands[p]
    BY <1>2, <1>3, <2>1, <2>3, <2>4
  <2>10. to \notin Scan!Batching
    BY DEF Scan!Batching
  <2> QED BY <1>1, <1>2, <2>1, <2>6, <2>7, <2>8, <2>9, <2>10, WorkerMoves
<1>19. CASE Scan!Chain(p)
  <2>1. PICK c \in Scan!Chains(p) :
          /\ skipped' = skipped \cup (Scan!Found(p) \ Scan!Range(c))
          /\ IF c = <<>>
             THEN pc' = [pc EXCEPT ![p] = "retire"] /\ todo' = [todo EXCEPT ![p] = batch[p]]
             ELSE pc' = [pc EXCEPT ![p] = "count"] /\ todo' = [todo EXCEPT ![p] = c]
    BY <1>19 DEF Scan!Chain
  <2>2. /\ pc[p] = "close_drain" /\ Scan!Drained(p, "close")
        /\ UNCHANGED <<queue, pending, done, batch, fds, visited, interrupted, listed,
                       is_dir, stat, flight>>
    BY <1>19 DEF Scan!Chain
  <2>3. PICK to \in {"retire", "count"}, q \in {batch[p], c} :
          /\ pc' = [pc EXCEPT ![p] = to] /\ todo' = [todo EXCEPT ![p] = q]
          /\ to = "retire" => c = <<>> /\ q = batch[p]
          /\ to = "count" => q = c
    BY <2>1
  <2>4. /\ pc'[p] = to /\ todo'[p] = q
        /\ \A v \in Scan!Procs \ {p} : pc'[v] = pc[v] /\ todo'[v] = todo[v]
    BY <1>1, <1>2, <2>3
  <2>5. Scan!InHands[p] = Len(batch[p]) /\ Scan!InHands'[p] = Len(batch[p])
    <3>1. Scan!Held(p) = Len(batch[p]) /\ Scan!Counted(p) = 0
      BY <1>31, <1>33, <2>2
    <3>2. Scan!Held(p)' = Len(batch[p]) /\ Scan!Counted(p)' = 0
      BY <1>32, <1>33, <2>2, <2>3, <2>4
    <3> QED BY <1>2, <1>3, <3>1, <3>2
  <2>6. interrupted \/ flight[p] = {}
    BY <1>1, <2>2, NoRequests
  <2>7. done' \/ (\E w \in Workers : Scan!At(w, "signal")') => pending' = 0
    BY <1>1, <1>6, <2>2, <2>4
  <2>8. ASSUME NEW d \in Dirs, Scan!Undisturbed',
               d \in Scan!Range(queue) \/ Scan!WaitsWith(p, d)
        PROVE  d \in Scan!Range(queue)' \/ Scan!WaitsWith(p, d)'
    <3>1. CASE d \in Scan!Range(queue)
      BY <2>2, <3>1
    <3>2. CASE d \in Scan!Found(p)
      <4>1. d \in Scan!Range(c)
        BY <2>1, <2>8, <3>2 DEF Scan!Undisturbed
      <4>2. c # <<>>
        BY <4>1 DEF Scan!Range
      <4>3. pc'[p] = "count" /\ todo'[p] = c
        BY <2>3, <2>4, <4>2
      <4> QED BY <4>1, <4>3 DEF Scan!WaitsWith
    <3> QED BY <1>5, <2>2, <2>8, <3>1, <3>2
  <2>9. batch[p] # <<>>
    BY <2>2 DEF Scan!EndSeen, Scan!Batching
  <2>10. to \notin Scan!Batching
    BY DEF Scan!Batching
  <2>11. pending' - Len(queue') - Scan!InHands'[p] = pending - Len(queue) - Scan!InHands[p]
    BY <1>2, <2>2, <2>5
  <2>12. skipped \subseteq skipped'
    BY <2>1
  <2> QED BY <1>1, <1>2, <2>2, <2>3, <2>4, <2>6, <2>7, <2>8, <2>9, <2>10, <2>11, <2>12,
             WorkerMoves
<1> QED BY <1>8, <1>9, <1>10, <1>11, <1>12, <1>13, <1>14, <1>15, <1>16, <1>17, <1>18,
           <1>19 DEF Scan!worker_fn

\* Where entries are only added, who waited waits.
LEMMA WaitsGrow ==
  ASSUME NEW v \in Scan!Procs, NEW d, Scan!TypeOK,
         pc'[v] = pc[v], todo'[v] = todo[v], batch'[v] = batch[v],
         is_dir \subseteq is_dir', \A b \in Dirs : listed[b] \subseteq listed'[b],
         Scan!WaitsWith(v, d)
  PROVE  Scan!WaitsWith(v, d)'
<1>1. Scan!Range(batch[v]) \subseteq Dirs
  BY DEF Scan!TypeOK, Scan!Range
<1>2. d \in Scan!Found(v) => d \in Scan!Found(v)'
  BY <1>1 DEF Scan!Found
<1> QED BY <1>2 DEF Scan!WaitsWith, Scan!At

\* process_dir_batch moves nothing between the queue and the workers' hands.
LEMMA BatchCounts ==
  ASSUME Scan!ScanConstants, Scan!ScanInv, NEW p \in Scan!Procs,
         Scan!process_dir_batch(p)
  PROVE  Scan!PendingExact' /\ Scan!SeededFirst' /\ Scan!EndSeen'
<1> USE DEF Scan!ScanInv, Scan!Set, Scan!At, Scan!Goto, Scan!shared, Scan!tree
<1>1. /\ Scan!Main \notin Workers /\ Scan!Main \in Scan!Procs
      /\ Workers \subseteq Scan!Procs
  BY MainApart
<1>2. /\ UNCHANGED <<queue, pending, done, interrupted, batch, skipped>>
  BY DEF Scan!process_dir_batch, Scan!OpenSkip, Scan!OpenAsync, Scan!OpenSync,
     Scan!OpenNext, Scan!OpensSubmitted, Scan!ReadAndStat, Scan!CloseAll, Scan!Complete,
     Scan!Batching
<1>21. \/ pc' = pc
       \/ /\ pc[p] \in Scan!Batching
          /\ \/ pc' = [pc EXCEPT ![p] = "open_drain"]
             \/ pc' = [pc EXCEPT ![p] = "statx_drain"]
             \/ pc' = [pc EXCEPT ![p] = "close_drain"]
  BY DEF Scan!process_dir_batch, Scan!OpenSkip, Scan!OpenAsync, Scan!OpenSync,
     Scan!OpenNext, Scan!OpensSubmitted, Scan!ReadAndStat, Scan!CloseAll, Scan!Complete,
     Scan!Batching
<1>22. \/ todo' = todo
       \/ pc[p] = "open" /\ todo' = [todo EXCEPT ![p] = Tail(todo[p])]
  <2>1. CASE Scan!OpenSkip(p) \/ Scan!OpenNext(p)
    BY <2>1 DEF Scan!OpenSkip, Scan!OpenNext
  <2>2. CASE Scan!OpensSubmitted(p) \/ Scan!CloseAll(p)
    BY <2>2 DEF Scan!OpensSubmitted, Scan!CloseAll
  <2>3. CASE Scan!ReadAndStat(p)
    BY <2>3 DEF Scan!ReadAndStat
  <2>4. CASE Scan!Complete(p)
    BY <2>4 DEF Scan!Complete
  <2> QED BY <2>1, <2>2, <2>3, <2>4
          DEF Scan!process_dir_batch, Scan!OpenAsync, Scan!OpenSync
<1>3. \A v \in Scan!Procs : \/ pc'[v] = pc[v]
                            \/ pc[v] \in Scan!Batching /\ pc'[v] \in Scan!Batching
  BY <1>21 DEF Scan!TypeOK, Scan!Batching
<1>4. \A v \in Scan!Procs : todo'[v] = todo[v] \/ pc[v] = "open"
  BY <1>22 DEF Scan!TypeOK
<1>5. Scan!PendingExact'
  <2>1. ASSUME NEW w \in Workers
        PROVE  Scan!Held(w)' = Scan!Held(w) /\ Scan!Counted(w)' = Scan!Counted(w)
    BY <1>1, <1>2, <1>3, <1>4 DEF Scan!Held, Scan!Counted, Scan!Batching
  <2>2. Scan!InHands' = Scan!InHands
    BY <2>1 DEF Scan!InHands
  <2> QED BY <1>2, <2>2 DEF Scan!PendingExact
<1>6. Scan!SeededFirst'
  <2>1. Scan!Undisturbed' <=> Scan!Undisturbed
    BY <1>2 DEF Scan!Undisturbed
  <2>2. \A v \in Scan!Procs : /\ pc'[v] = "absent" <=> pc[v] = "absent"
                              /\ pc'[v] = "join" <=> pc[v] = "join"
                              /\ pc'[v] = "exited" <=> pc[v] = "exited"
                              /\ pc'[v] = "returned" <=> pc[v] = "returned"
    BY <1>3 DEF Scan!Batching
  <2>3. Scan!Seeding' <=> Scan!Seeding
    BY <1>1, <1>3 DEF Scan!Seeding
  <2> QED BY <1>1, <1>2, <2>1, <2>2, <2>3 DEF Scan!SeededFirst
<1>7. Scan!EndSeen'
  <2>1. ASSUME NEW w \in Workers
        PROVE  /\ pc'[w] = "signal" => pc[w] = "signal"
               /\ pc'[w] \in Scan!Batching \cup {"count", "push"} => batch[w] # <<>>
               /\ pc'[w] \in {"destroy", "exited"} => done \/ interrupted
    BY <1>1, <1>3 DEF Scan!EndSeen, Scan!Batching
  <2> QED BY <1>2, <2>1 DEF Scan!EndSeen
<1> QED BY <1>5, <1>6, <1>7

\* Nor does it mix the requests of two phases, or open what is not its own.
LEMMA BatchPhases ==
  ASSUME Scan!ScanConstants, Scan!ScanInv, NEW p \in Scan!Procs,
         Scan!process_dir_batch(p), ~interrupted'
  PROVE  \A v \in Scan!Procs : \A r \in flight'[v] :
           /\ r[1] = "open"  => pc'[v] \in {"open", "open_drain"}
           /\ r[1] = "statx" => pc'[v] = "statx_drain"
           /\ r[1] = "close" => pc'[v] = "close_drain"
<1> USE DEF Scan!ScanInv, Scan!Set, Scan!At, Scan!Goto, Scan!shared, Scan!tree
<1>1. /\ flight \in [Scan!Procs -> SUBSET (Scan!Ops \X Dirs)]
      /\ pc \in [Scan!Procs -> Scan!MainPcs \cup Scan!WorkerPcs]
  BY DEF Scan!TypeOK
<1>2. ~interrupted
  BY DEF Scan!process_dir_batch, Scan!OpenSkip, Scan!OpenAsync, Scan!OpenSync,
     Scan!OpenNext, Scan!OpensSubmitted, Scan!ReadAndStat, Scan!CloseAll, Scan!Complete
<1> DEFINE Apart(v) == \A r \in flight[v] :
             /\ r[1] = "open"  => pc[v] \in {"open", "open_drain"}
             /\ r[1] = "statx" => pc[v] = "statx_drain"
             /\ r[1] = "close" => pc[v] = "close_drain"
<1>3. \A v \in Scan!Procs : Apart(v)
  BY <1>2 DEF Scan!Phased
<1>4. \A v \in Scan!Procs : \A r \in flight[v] : r[1] \in {"open", "statx", "close"}
  BY <1>1 DEF Scan!Ops
<1>5. CASE Scan!OpenSkip(p)
  BY <1>3, <1>5 DEF Scan!OpenSkip
<1>6. CASE Scan!OpenAsync(p)
  BY <1>1, <1>3, <1>6 DEF Scan!OpenAsync, Scan!OpenNext
<1>7. CASE Scan!OpenSync(p)
  BY <1>3, <1>7 DEF Scan!OpenSync, Scan!OpenNext
<1>8. CASE Scan!OpensSubmitted(p)
  BY <1>1, <1>3, <1>8 DEF Scan!OpensSubmitted
<1>9. CASE Scan!ReadAndStat(p)
  <2>1. flight[p] = {}
    BY <1>2, <1>3, <1>4, <1>9 DEF Scan!ReadAndStat, Scan!Drained
  <2>2. PICK asked, sync :
          flight' = [flight EXCEPT ![p] = flight[p] \cup
                       {<<"statx", d>> : d \in asked \ sync}]
    BY <1>9 DEF Scan!ReadAndStat
  <2>3. pc' = [pc EXCEPT ![p] = "statx_drain"]
    BY <1>9 DEF Scan!ReadAndStat
  <2> QED BY <1>1, <1>3, <2>1, <2>2, <2>3
<1>10. CASE Scan!CloseAll(p)
  <2>1. flight[p] = {}
    BY <1>2, <1>3, <1>4, <1>10 DEF Scan!CloseAll, Scan!Drained
  <2>2. PICK sync :
          flight' = [flight EXCEPT ![p] = flight[p] \cup
                       {<<"close", d>> : d \in fds[p] \ sync}]
    BY <1>10 DEF Scan!CloseAll
  <2>3. pc' = [pc EXCEPT ![p] = "close_drain"]
    BY <1>10 DEF Scan!CloseAll
  <2> QED BY <1>1, <1>3, <2>1, <2>2, <2>3
<1>11. CASE Scan!Complete(p)
  <2>1. PICK r : flight' = [flight EXCEPT ![p] = flight[p] \ {r}]
    BY <1>11 DEF Scan!Complete
  <2> QED BY <1>1, <1>3, <1>11, <2>1 DEF Scan!Complete
<1> QED BY <1>5, <1>6, <1>7, <1>8, <1>9, <1>10, <1>11 DEF Scan!process_dir_batch

\* The entries of a batch.
LEMMA BatchEntries ==
  ASSUME Scan!ScanConstants, Scan!ScanInv, NEW p \in Scan!Procs, ~interrupted,
         Scan!ReadAndStat(p)
  PROVE  /\ \A b \in Dirs : listed[b] \subseteq listed'[b] /\ listed'[b] \subseteq Kids[b]
         /\ \A d \in Scan!Entries(p) : \E b \in Scan!Range(batch[p]) : d \in listed'[b]
<1> USE DEF Scan!ScanInv
<1>1. listed' = [d \in Dirs |-> IF d \in fds[p] THEN Kids[d] ELSE listed[d]]
  BY DEF Scan!ReadAndStat
<1>2. \A b \in Dirs : listed[b] \subseteq Kids[b]
  BY DEF Scan!Listing
<1>3. fds[p] \subseteq Scan!Range(batch[p]) /\ fds[p] \subseteq Dirs
  BY DEF Scan!Listing, Scan!ReadAndStat, Scan!At, Scan!Batching, Scan!TypeOK
<1>4. ASSUME NEW d \in Scan!Entries(p)
      PROVE  \E b \in Scan!Range(batch[p]) : d \in listed'[b]
  <2>1. PICK b \in fds[p] : d \in Kids[b]
    BY DEF Scan!Entries
  <2> QED BY <1>1, <1>3, <2>1
<1> QED BY <1>1, <1>2, <1>4

\* What process_dir_batch opens, lists and stats.
LEMMA BatchLists ==
  ASSUME Scan!ScanConstants, Scan!ScanInv, NEW p \in Scan!Procs,
         Scan!process_dir_batch(p)
  PROVE  Scan!Listing'
<1> USE DEF Scan!ScanInv, Scan!Set, Scan!At, Scan!Goto, Scan!shared, Scan!tree
<1>1. /\ flight \in [Scan!Procs -> SUBSET (Scan!Ops \X Dirs)]
      /\ pc \in [Scan!Procs -> Scan!MainPcs \cup Scan!WorkerPcs]
      /\ fds \in [Scan!Procs -> SUBSET Dirs] /\ todo \in [Scan!Procs -> Seq(Dirs)]
      /\ batch \in [Scan!Procs -> Seq(Dirs)]
  BY DEF Scan!TypeOK
<1>2. interrupted' = interrupted /\ batch' = batch
  BY DEF Scan!process_dir_batch, Scan!OpenSkip, Scan!OpenAsync, Scan!OpenSync,
     Scan!OpenNext, Scan!OpensSubmitted, Scan!ReadAndStat, Scan!CloseAll, Scan!Complete
<1>3. \A b \in Dirs : listed'[b] \subseteq Kids[b]
  BY DEF Scan!process_dir_batch, Scan!OpenSkip, Scan!OpenAsync, Scan!OpenSync,
     Scan!OpenNext, Scan!OpensSubmitted, Scan!ReadAndStat, Scan!CloseAll, Scan!Complete,
     Scan!on_openat_complete, Scan!on_statx_complete, Scan!on_close_complete, Scan!Listing
<1> DEFINE Own(v) == Scan!Range(batch[v])
           Kept(v) ==
             /\ pc'[v] \in Scan!Batching => fds'[v] \subseteq Own(v)
             /\ pc'[v] = "open" => Scan!Range(todo'[v]) \subseteq Own(v)
             /\ \A r \in flight'[v] :
                  /\ r[1] = "open"  => r[2] \in Own(v)
                  /\ r[1] = "statx" => \E d \in Own(v) : r[2] \in listed'[d]
<1> SUFFICES ASSUME ~interrupted
             PROVE  \A v \in Scan!Procs : Kept(v)
  BY <1>2, <1>3 DEF Scan!Listing
<1>4. \A v \in Scan!Procs :
        /\ pc[v] \in Scan!Batching => fds[v] \subseteq Own(v)
        /\ pc[v] = "open" => Scan!Range(todo[v]) \subseteq Own(v)
        /\ \A r \in flight[v] :
             /\ r[1] = "open"  => r[2] \in Own(v)
             /\ r[1] = "statx" => \E d \in Own(v) : r[2] \in listed[d]
  BY DEF Scan!Listing
<1>5. \A v \in Scan!Procs : Own(v) \subseteq Dirs
  BY <1>1 DEF Scan!Range
<1> HIDE DEF Own
<1>6. ASSUME pc[p] = "open", todo[p] # <<>>
      PROVE  Head(todo[p]) \in Own(p) /\ Scan!Range(Tail(todo[p])) \subseteq Own(p)
  <2>1. \A d : d = Head(todo[p]) \/ d \in Scan!Range(Tail(todo[p])) =>
                 d \in Scan!Range(todo[p])
    BY <1>1, <1>6, RangeMoves
  <2> QED BY <1>4, <1>6, <2>1
<1>7. CASE Scan!OpenSkip(p)
  BY <1>1, <1>4, <1>6, <1>7 DEF Scan!OpenSkip
<1>8. CASE Scan!OpenAsync(p)
  BY <1>1, <1>4, <1>6, <1>8 DEF Scan!OpenAsync, Scan!OpenNext, Scan!Batching
<1>9. CASE Scan!OpenSync(p)
  BY <1>1, <1>4, <1>6, <1>9 DEF Scan!OpenSync, Scan!OpenNext, Scan!Batching
<1>10. CASE Scan!OpensSubmitted(p)
  BY <1>1, <1>4, <1>10 DEF Scan!OpensSubmitted, Scan!Batching
<1>11. CASE Scan!ReadAndStat(p)
  <2>1. PICK asked, sync :
          /\ asked \subseteq Scan!Entries(p)
          /\ flight' = [flight EXCEPT ![p] = flight[p] \cup
                          {<<"statx", d>> : d \in asked \ sync}]
    BY <1>11 DEF Scan!ReadAndStat
  <2>2. /\ \A b \in Dirs : listed[b] \subseteq listed'[b]
        /\ \A d \in Scan!Entries(p) : \E b \in Own(p) : d \in listed'[b]
    BY <1>11, BatchEntries DEF Own
  <2>3. /\ pc[p] = "open_drain" /\ pc' = [pc EXCEPT ![p] = "statx_drain"]
        /\ fds' = fds /\ todo' = todo
    BY <1>11 DEF Scan!ReadAndStat
  <2>4. ASSUME NEW v \in Scan!Procs, NEW r \in flight'[v]
        PROVE  /\ r[1] = "open"  => r[2] \in Own(v)
               /\ r[1] = "statx" => \E d \in Own(v) : r[2] \in listed'[d]
    <3>1. CASE r \in flight[v]
      BY <1>4, <1>5, <2>2, <3>1
    <3>2. CASE r \notin flight[v]
      <4>1. v = p /\ r \in {<<"statx", d>> : d \in asked \ sync}
        BY <1>1, <2>1, <2>4, <3>2
      <4>2. PICK d \in asked : r = <<"statx", d>>
        BY <4>1
      <4>3. r[1] = "statx" /\ r[2] \in Scan!Entries(p)
        BY <2>1, <4>2
      <4> QED BY <2>2, <4>1, <4>3
    <3> QED BY <3>1, <3>2
  <2> QED BY <1>1, <1>4, <2>3, <2>4 DEF Scan!Batching
<1>12. CASE Scan!CloseAll(p)
  <2>1. PICK sync :
          flight' = [flight EXCEPT ![p] = flight[p] \cup
                       {<<"close", d>> : d \in fds[p] \ sync}]
    BY <1>12 DEF Scan!CloseAll
  <2>2. /\ pc' = [pc EXCEPT ![p] = "close_drain"] /\ fds' = [fds EXCEPT ![p] = {}]
        /\ todo' = todo /\ listed' = listed
    BY <1>12 DEF Scan!CloseAll
  <2> QED BY <1>1, <1>4, <2>1, <2>2 DEF Scan!Batching
<1>13. CASE Scan!Complete(p)
  <2>1. PICK r \in flight[p], ok \in BOOLEAN :
          /\ flight' = [flight EXCEPT ![p] = flight[p] \ {r}]
          /\ \/ r[1] = "open" /\ Scan!on_openat_complete(p, r[2], ok)
             \/ Scan!on_statx_complete(p, r[2], ok)
             \/ Scan!on_close_complete(p, r[2])
    BY <1>13 DEF Scan!Complete
  <2>2. pc' = pc /\ todo' = todo
    BY <1>13 DEF Scan!Complete
  <2>3. /\ listed' = listed
        /\ \/ fds' = fds
           \/ fds' = [fds EXCEPT ![p] = fds[p] \cup {r[2]}] /\ r[2] \in Own(p)
    BY <1>4, <2>1 DEF Scan!on_openat_complete, Scan!on_statx_complete,
       Scan!on_close_complete
  <2> QED BY <1>1, <1>4, <2>1, <2>2, <2>3
<1> QED BY <1>7, <1>8, <1>9, <1>10, <1>11, <1>12, <1>13 DEF Scan!process_dir_batch

\* And loses none of the directories it finds.
LEMMA BatchLosesNone ==
  ASSUME Scan!ScanConstants, Scan!ScanInv, NEW p \in Scan!Procs,
         Scan!process_dir_batch(p)
  PROVE  Scan!NoneLost'
<1> USE DEF Scan!ScanInv, Scan!Set, Scan!At, Scan!Goto, Scan!shared, Scan!tree
<1>1. UNCHANGED <<queue, interrupted, batch, skipped, max_depth>>
  BY DEF Scan!process_dir_batch, Scan!OpenSkip, Scan!OpenAsync, Scan!OpenSync,
     Scan!OpenNext, Scan!OpensSubmitted, Scan!ReadAndStat, Scan!CloseAll, Scan!Complete
<1>2. /\ pc \in [Scan!Procs -> Scan!MainPcs \cup Scan!WorkerPcs]
      /\ todo \in [Scan!Procs -> Seq(Dirs)] /\ is_dir \subseteq Dirs
  BY DEF Scan!TypeOK
<1> SUFFICES ASSUME Scan!Undisturbed', NEW d \in is_dir', Scan!Expanded(d)',
                    Scan!Key(d)' \notin visited'
             PROVE  \/ d \in Scan!Range(queue)
                    \/ \E v \in Scan!Procs : Scan!WaitsWith(v, d)'
  BY <1>1 DEF Scan!NoneLost
<1>3. Scan!Undisturbed /\ ~interrupted /\ Scan!Expanded(d)
  BY <1>1 DEF Scan!Undisturbed, Scan!Expanded
<1>4. ASSUME d \in is_dir, Scan!Key(d) \notin visited
      PROVE  \/ d \in Scan!Range(queue) \/ Scan!WaitsWith(p, d)
             \/ \E v \in Scan!Procs \ {p} : Scan!WaitsWith(v, d)
  BY <1>3, <1>4 DEF Scan!NoneLost
\* A step that only adds entries, at a thread that waits with nothing new.
<1>5. ASSUME d \in is_dir, Scan!Key(d) \notin visited,
             is_dir \subseteq is_dir', \A b \in Dirs : listed[b] \subseteq listed'[b],
             \A v \in Scan!Procs \ {p} : pc'[v] = pc[v] /\ todo'[v] = todo[v],
             Scan!WaitsWith(p, d) => Scan!WaitsWith(p, d)'
      PROVE  \/ d \in Scan!Range(queue)
             \/ \E v \in Scan!Procs : Scan!WaitsWith(v, d)'
  <2>1. ASSUME NEW v \in Scan!Procs \ {p}, Scan!WaitsWith(v, d)
        PROVE  Scan!WaitsWith(v, d)'
    BY <1>1, <1>5, <2>1, WaitsGrow
  <2> QED BY <1>4, <1>5, <2>1
<1>6. CASE \/ Scan!OpenSkip(p)
           \/ Scan!OpenNext(p) /\ UNCHANGED <<pc, listed, is_dir, stat>>
  <2>1. /\ pc[p] = "open" /\ todo[p] # <<>> /\ todo' = [todo EXCEPT ![p] = Tail(todo[p])]
        /\ UNCHANGED <<pc, listed, is_dir, stat>> /\ visited \subseteq visited'
        /\ \/ ~Scan!Expanded(Head(todo[p]))
           \/ Scan!Key(Head(todo[p])) \in visited'
    BY <1>6 DEF Scan!OpenSkip, Scan!OpenNext
  <2>2. Scan!Key(d)' = Scan!Key(d)
    BY <2>1 DEF Scan!Key
  <2>3. d # Head(todo[p]) /\ d \in is_dir /\ Scan!Key(d) \notin visited
    BY <1>3, <2>1, <2>2
  <2>4. d \in Scan!Range(todo[p]) => d \in Scan!Range(todo'[p])
    <3>1. d \in Scan!Range(todo[p]) <=>
            d = Head(todo[p]) \/ d \in Scan!Range(Tail(todo[p]))
      BY <1>2, <2>1, RangeMoves
    <3> QED BY <1>2, <2>1, <2>3, <3>1
  <2>5. Scan!WaitsWith(p, d) => Scan!WaitsWith(p, d)'
    BY <2>1, <2>4 DEF Scan!WaitsWith
  <2> QED BY <1>2, <1>5, <2>1, <2>3, <2>5
<1>7. CASE Scan!OpensSubmitted(p)
  <2>1. /\ pc[p] = "open" /\ todo[p] = <<>> /\ pc' = [pc EXCEPT ![p] = "open_drain"]
        /\ UNCHANGED <<todo, listed, is_dir, stat, visited>>
    BY <1>7 DEF Scan!OpensSubmitted
  <2>2. ~Scan!WaitsWith(p, d)
    BY <2>1 DEF Scan!WaitsWith, Scan!Range
  <2>3. Scan!Key(d)' = Scan!Key(d)
    BY <2>1 DEF Scan!Key
  <2> QED BY <1>2, <1>5, <2>1, <2>2, <2>3
<1>8. CASE Scan!ReadAndStat(p)
  <2>1. PICK good :
          /\ good \subseteq Scan!Entries(p) /\ stat' = stat \cup good
          /\ is_dir' = is_dir \cup good \cup (IF Typed THEN Scan!Entries(p) ELSE {})
    BY <1>8 DEF Scan!ReadAndStat
  <2>2. /\ pc[p] = "open_drain" /\ pc' = [pc EXCEPT ![p] = "statx_drain"]
        /\ UNCHANGED <<todo, visited>>
    BY <1>8 DEF Scan!ReadAndStat
  <2>3. /\ \A b \in Dirs : listed[b] \subseteq listed'[b]
        /\ \A e \in Scan!Entries(p) : \E b \in Scan!Range(batch[p]) : e \in listed'[b]
    BY <1>3, <1>8, BatchEntries
  <2>4. CASE d \in Scan!Entries(p)
    <3>1. d \in Scan!Found(p)'
      BY <1>1, <2>3, <2>4 DEF Scan!Found
    <3> QED BY <1>2, <2>2, <3>1 DEF Scan!WaitsWith
  <2>5. CASE d \notin Scan!Entries(p)
    <3>1. d \in is_dir /\ Scan!Key(d)' = Scan!Key(d)
      BY <2>1, <2>5 DEF Scan!Key
    <3>2. ~Scan!WaitsWith(p, d)
      BY <2>2 DEF Scan!WaitsWith
    <3> QED BY <1>2, <1>5, <2>1, <2>2, <2>3, <3>1, <3>2
  <2> QED BY <2>4, <2>5
<1>9. CASE Scan!CloseAll(p)
  <2>1. /\ pc[p] = "statx_drain" /\ pc' = [pc EXCEPT ![p] = "close_drain"]
        /\ UNCHANGED <<todo, listed, is_dir, stat, visited>>
    BY <1>9 DEF Scan!CloseAll
  <2>2. Scan!WaitsWith(p, d) => Scan!WaitsWith(p, d)'
    BY <1>1, <1>2, <2>1 DEF Scan!WaitsWith, Scan!Found
  <2>3. Scan!Key(d)' = Scan!Key(d)
    BY <2>1 DEF Scan!Key
  <2> QED BY <1>2, <1>5, <2>1, <2>2, <2>3
<1>10. CASE Scan!Complete(p)
  <2>1. PICK r \in flight[p], ok \in BOOLEAN :
          \/ Scan!on_openat_complete(p, r[2], ok)
          \/ r[1] = "statx" /\ Scan!on_statx_complete(p, r[2], ok)
          \/ Scan!on_close_complete(p, r[2])
    BY <1>10 DEF Scan!Complete
  <2>2. pc' = pc /\ todo' = todo /\ visited' = visited
    BY <1>10 DEF Scan!Complete
  <2>3. /\ listed' = listed
        /\ \/ is_dir' = is_dir /\ stat' = stat
           \/ r[1] = "statx" /\ is_dir' = is_dir \cup {r[2]} /\ stat' = stat \cup {r[2]}
    BY <2>1 DEF Scan!on_openat_complete, Scan!on_statx_complete, Scan!on_close_complete
  <2>4. CASE r[1] = "statx" /\ d = r[2]
    <3>1. pc[p] = "statx_drain" /\ \E b \in Scan!Range(batch[p]) : d \in listed[b]
      BY <1>3, <2>4 DEF Scan!Phased, Scan!Listing
    <3>2. d \in Scan!Found(p)'
      BY <1>1, <2>3, <3>1 DEF Scan!Found
    <3> QED BY <2>2, <3>1, <3>2 DEF Scan!WaitsWith
  <2>5. CASE ~(r[1] = "statx" /\ d = r[2])
    <3>1. d \in is_dir /\ Scan!Key(d)' = Scan!Key(d) /\ is_dir \subseteq is_dir'
      BY <2>3, <2>5 DEF Scan!Key
    <3>2. Scan!WaitsWith(p, d) => Scan!WaitsWith(p, d)'
      BY <1>1, <2>2, <2>3, <3>1, WaitsGrow
    <3> QED BY <1>5, <2>2, <2>3, <3>1, <3>2
  <2> QED BY <2>4, <2>5
<1>11. Scan!OpenAsync(p) \/ Scan!OpenSync(p) =>
         Scan!OpenNext(p) /\ UNCHANGED <<pc, listed, is_dir, stat>>
  BY DEF Scan!OpenAsync, Scan!OpenSync
<1> QED BY <1>6, <1>7, <1>8, <1>9, <1>10, <1>11 DEF Scan!process_dir_batch

\* Every step of process_dir_batch.
LEMMA BatchKeeps ==
  ASSUME Scan!ScanConstants, Scan!ScanInv, NEW p \in Scan!Procs,
         Scan!process_dir_batch(p)
  PROVE  Scan!ScanInv'
<1>1. Scan!TypeOK'
  BY BatchTypes DEF Scan!ScanInv
<1>2. Scan!Phased'
  BY BatchPhases DEF Scan!Phased, Scan!At
<1> QED BY <1>1, <1>2, BatchCounts, BatchLists, BatchLosesNone DEF Scan!ScanInv

\* A step of the main thread outside process_dir_batch.
LEMMA MainMoves ==
  ASSUME Scan!ScanConstants, Scan!ScanInv, Scan!TypeOK', Scan!SeededFirst',
         \A w \in Workers : pc'[w] = pc[w] \/ (pc[w] = "absent" /\ pc'[w] = "create"),
         pc'[Scan!Main] \notin Scan!Batching,
         \A w \in Workers : todo'[w] = todo[w],
         UNCHANGED <<max_depth, visited, interrupted, done, listed, is_dir, stat, batch,
                     fds, flight>>,
         interrupted \/ flight[Scan!Main] = {},
         pending' - Len(queue') = pending - Len(queue),
         done \/ (\E w \in Workers : pc[w] = "signal") => pending' = 0,
         skipped \subseteq skipped',
         ASSUME NEW d \in Dirs, Scan!Undisturbed',
                d \in Scan!Range(queue) \/ Scan!WaitsWith(Scan!Main, d)
         PROVE  d \in Scan!Range(queue)' \/ Scan!WaitsWith(Scan!Main, d)'
  PROVE  Scan!ScanInv'
<1> USE DEF Scan!ScanInv, Scan!At
<1>1. /\ Scan!Main \notin Workers /\ Scan!Main \in Scan!Procs
      /\ Scan!Procs = {Scan!Main} \cup Workers
  BY MainApart
<1>2. Scan!PendingExact'
  <2>1. ASSUME NEW w \in Workers
        PROVE  Scan!Held(w)' = Scan!Held(w) /\ Scan!Counted(w)' = Scan!Counted(w)
    BY DEF Scan!Held, Scan!Counted
  <2>2. Scan!InHands' = Scan!InHands
    BY <2>1 DEF Scan!InHands
  <2>3. Scan!Total(Scan!InHands) \in Nat
    BY Hands, TotalZero
  <2>4. Len(queue) \in Nat /\ Len(queue') \in Nat /\ pending \in Int /\ pending' \in Int
    BY DEF Scan!TypeOK
  <2>5. pending' = Len(queue') + Scan!Total(Scan!InHands)
    BY <2>3, <2>4 DEF Scan!PendingExact
  <2> QED BY <2>2, <2>5 DEF Scan!PendingExact
<1>3. Scan!EndSeen'
  <2>1. ASSUME NEW w \in Workers
        PROVE  /\ pc'[w] = "signal" => pc[w] = "signal"
               /\ pc'[w] \in Scan!Batching \cup {"count", "push"} => batch[w] # <<>>
               /\ pc'[w] \in {"destroy", "exited"} => done \/ interrupted
    BY DEF Scan!EndSeen, Scan!Batching
  <2> QED BY <2>1 DEF Scan!EndSeen
<1>4. Scan!Phased'
  BY <1>1 DEF Scan!Phased
<1>5. Scan!Listing'
  <2>1. ASSUME ~interrupted, NEW v \in Scan!Procs
        PROVE  /\ pc'[v] \in Scan!Batching => fds[v] \subseteq Scan!Range(batch[v])
               /\ pc'[v] = "open" => Scan!Range(todo'[v]) \subseteq Scan!Range(batch[v])
    BY <1>1, <2>1 DEF Scan!Listing, Scan!Batching
  <2> QED BY <2>1 DEF Scan!Listing
<1>6. Scan!NoneLost'
  <2> SUFFICES ASSUME Scan!Undisturbed', NEW d \in is_dir,
                      Scan!Expanded(d), Scan!Key(d) \notin visited
               PROVE  \/ d \in Scan!Range(queue)'
                      \/ \E v \in Scan!Procs : Scan!WaitsWith(v, d)'
    BY DEF Scan!NoneLost, Scan!Expanded, Scan!Key
  <2>1. Scan!Undisturbed /\ d \in Dirs
    BY DEF Scan!Undisturbed, Scan!TypeOK
  <2>2. \/ d \in Scan!Range(queue) \/ Scan!WaitsWith(Scan!Main, d)
        \/ \E w \in Workers : Scan!WaitsWith(w, d)
    BY <1>1, <2>1 DEF Scan!NoneLost
  <2>3. ASSUME NEW w \in Workers, Scan!WaitsWith(w, d)
        PROVE  Scan!WaitsWith(w, d)'
    <3>1. pc[w] # "absent"
      BY <1>1, <2>3 DEF Scan!WaitsWith
    <3> QED BY <1>1, <2>3, <3>1, WaitsStand
  <2> QED BY <1>1, <2>1, <2>2, <2>3
<1> QED BY <1>2, <1>3, <1>4, <1>5, <1>6

\* Every step of scan_tree.
LEMMA MainKeeps ==
  ASSUME Scan!ScanConstants, Scan!ScanInv, Scan!scan_tree
  PROVE  Scan!ScanInv'
<1> USE DEF Scan!ScanInv, Scan!Set, Scan!At, Scan!Goto, Scan!shared, Scan!tree
<1>1. /\ Scan!Main \notin Workers /\ Scan!Main \in Scan!Procs
      /\ Scan!Procs = {Scan!Main} \cup Workers /\ Workers = 1 .. Cardinality(Workers)
      /\ Cardinality(Workers) \in Nat
  BY MainApart
<1>2. Scan!TypeOK' /\ max_depth' = max_depth
  BY MainTypes DEF Scan!scan_tree
<1>3. /\ pc \in [Scan!Procs -> Scan!MainPcs \cup Scan!WorkerPcs]
      /\ todo \in [Scan!Procs -> Seq(Dirs)] /\ queue \in Seq(Dirs)
      /\ pending \in Int /\ Len(queue) \in Nat
  BY DEF Scan!TypeOK
<1>4. pc[Scan!Main] \notin Scan!Batching => interrupted \/ flight[Scan!Main] = {}
  BY <1>1, NoRequests
<1>5. done \/ (\E w \in Workers : pc[w] = "signal") => pending = 0
  BY DEF Scan!EndSeen
<1>6. Scan!Seeding => ~done /\ \A w \in Workers : pc[w] = "absent"
  BY DEF Scan!SeededFirst
<1>7. CASE Scan!RootRead
  <2>1. /\ pc[Scan!Main] = "close_drain" /\ Scan!Drained(Scan!Main, "close")
        /\ pc' = [pc EXCEPT ![Scan!Main] = "destroy"]
        /\ UNCHANGED <<queue, pending, done, listed, is_dir, stat, visited, interrupted,
                       batch, fds, flight, todo, skipped>>
    BY <1>7 DEF Scan!RootRead
  <2>2. /\ pc'[Scan!Main] = "destroy" /\ \A w \in Workers : pc'[w] = pc[w]
        /\ "destroy" \notin Scan!Batching
    BY <1>1, <1>3, <2>1 DEF Scan!Batching
  <2>3. interrupted \/ flight[Scan!Main] = {}
    BY <1>1, <2>1, NoRequests
  <2>4. Scan!SeededFirst'
    BY <1>6, <2>1, <2>2 DEF Scan!SeededFirst, Scan!Seeding, Scan!Batching
  <2>5. ASSUME NEW d, Scan!WaitsWith(Scan!Main, d)
        PROVE  Scan!WaitsWith(Scan!Main, d)'
    BY <2>1, <2>2, <2>5 DEF Scan!WaitsWith, Scan!Found
  <2> QED BY <1>2, <1>5, <2>1, <2>2, <2>3, <2>4, <2>5, MainMoves
<1>8. CASE Scan!aura_destroy(Scan!Main)
  <2> DEFINE list == Scan!SetToSeq(Scan!Found(Scan!Main))
  <2>1. /\ pc[Scan!Main] = "destroy" /\ pc' = [pc EXCEPT ![Scan!Main] = "seed"]
        /\ todo' = [todo EXCEPT ![Scan!Main] = list]
        /\ UNCHANGED <<queue, pending, done, listed, is_dir, stat, visited, interrupted,
                       batch, fds, flight, skipped>>
    BY <1>8 DEF Scan!aura_destroy
  <2>2. Scan!Range(list) = Scan!Found(Scan!Main)
    BY <1>1, FoundDirs, Listed
  <2> HIDE DEF list
  <2>3. /\ pc'[Scan!Main] = "seed" /\ \A w \in Workers : pc'[w] = pc[w]
        /\ todo'[Scan!Main] = list /\ \A w \in Workers : todo'[w] = todo[w]
        /\ "seed" \notin Scan!Batching /\ "destroy" \notin Scan!Batching
    BY <1>1, <1>3, <2>1 DEF Scan!Batching
  <2>4. Scan!SeededFirst'
    BY <1>6, <2>1, <2>3 DEF Scan!SeededFirst, Scan!Seeding
  <2>5. ASSUME NEW d, Scan!WaitsWith(Scan!Main, d)
        PROVE  Scan!WaitsWith(Scan!Main, d)'
    BY <2>1, <2>2, <2>3, <2>5 DEF Scan!WaitsWith
  <2> QED BY <1>2, <1>4, <1>5, <2>1, <2>3, <2>4, <2>5, MainMoves
<1>9. CASE Scan!Seed
  <2>1. /\ pc[Scan!Main] = "seed" /\ todo[Scan!Main] # <<>>
        /\ todo' = [todo EXCEPT ![Scan!Main] = Tail(todo[Scan!Main])]
        /\ UNCHANGED <<done, listed, is_dir, stat, visited, interrupted, pc, batch, fds,
                       flight>>
    BY <1>9 DEF Scan!Seed
  <2>2. /\ todo'[Scan!Main] = Tail(todo[Scan!Main])
        /\ \A w \in Workers : todo'[w] = todo[w]
        /\ "seed" \notin Scan!Batching
    BY <1>1, <1>3, <2>1 DEF Scan!Batching
  <2>3. Scan!Seeding /\ Scan!Seeding'
    BY <2>1 DEF Scan!Seeding
  <2>4. Scan!SeededFirst'
    BY <1>6, <2>1, <2>3 DEF Scan!SeededFirst
  <2>5. ~(done \/ (\E w \in Workers : pc[w] = "signal"))
    BY <1>6, <2>3
  <2>6. \A d : d \in Scan!Range(todo[Scan!Main]) =>
                 d = Head(todo[Scan!Main]) \/ d \in Scan!Range(Tail(todo[Scan!Main]))
    BY <1>1, <1>3, <2>1, RangeMoves
  <2>7. CASE /\ pending' = pending + 1 /\ skipped' = skipped
             /\ queue' = Append(queue, Head(todo[Scan!Main]))
    <3>1. /\ Len(queue') = Len(queue) + 1
          /\ queue'[Len(queue) + 1] = Head(todo[Scan!Main])
          /\ \A j \in 1 .. Len(queue) : queue'[j] = queue[j]
          /\ queue' \in Seq(Dirs)
      BY <1>1, <1>2, <1>3, <2>1, <2>7 DEF Scan!TypeOK
    <3>2. \A d : d = Head(todo[Scan!Main]) \/ d \in Scan!Range(queue) =>
                   d \in Scan!Range(queue')
      <4>1. \A d : d \in Scan!Range(queue) => \E j \in 1 .. Len(queue) : queue[j] = d
        BY <1>3, RangeOf
      <4>2. \A d : (\E j \in 1 .. Len(queue') : queue'[j] = d) => d \in Scan!Range(queue')
        BY <3>1, RangeOf
      <4> QED BY <1>3, <3>1, <4>1, <4>2
    <3>3. ASSUME NEW d, d \in Scan!Range(queue) \/ Scan!WaitsWith(Scan!Main, d)
          PROVE  d \in Scan!Range(queue)' \/ Scan!WaitsWith(Scan!Main, d)'
      BY <2>1, <2>2, <2>6, <3>2, <3>3 DEF Scan!WaitsWith
    <3>4. pending' - Len(queue') = pending - Len(queue)
      BY <1>3, <2>7, <3>1
    <3> QED BY <1>2, <1>4, <2>1, <2>2, <2>4, <2>5, <2>7, <3>3, <3>4, MainMoves
  <2>8. CASE /\ skipped' = skipped \cup {Head(todo[Scan!Main])}
             /\ UNCHANGED <<pending, queue>>
    <3>1. ~Scan!Undisturbed'
      BY <2>8 DEF Scan!Undisturbed
    <3> QED BY <1>2, <1>4, <2>1, <2>2, <2>4, <2>5, <2>8, <3>1, MainMoves
  <2> QED BY <1>9, <2>7, <2>8 DEF Scan!Seed
<1>10. CASE Scan!Seeded
  <2>1. PICK to \in {"returned", "spawn"} :
          /\ pc[Scan!Main] = "seed" /\ todo[Scan!Main] = <<>>
          /\ to = "returned" <=> pending = 0
          /\ pc' = [pc EXCEPT ![Scan!Main] = to]
          /\ UNCHANGED <<queue, pending, done, listed, is_dir, stat, visited, interrupted,
                         batch, fds, flight, todo, skipped>>
    BY <1>10 DEF Scan!Seeded
  <2>2. /\ pc'[Scan!Main] = to /\ \A w \in Workers : pc'[w] = pc[w]
        /\ to \notin Scan!Batching /\ "seed" \notin Scan!Batching
    BY <1>1, <1>3, <2>1 DEF Scan!Batching
  <2>3. Scan!Seeding /\ ~Scan!Seeding'
    BY <2>1, <2>2 DEF Scan!Seeding
  <2>4. to = "returned" => queue = <<>>
    <3>1. Scan!Total(Scan!InHands) \in Nat
      BY Hands, TotalZero
    <3>2. to = "returned" => Len(queue) = 0
      BY <1>3, <2>1, <3>1 DEF Scan!PendingExact
    <3> QED BY <1>3, <3>2
  <2>5. Scan!SeededFirst'
    BY <1>6, <2>1, <2>2, <2>3, <2>4 DEF Scan!SeededFirst
  <2>6. \A d : ~Scan!WaitsWith(Scan!Main, d)
    BY <2>1 DEF Scan!WaitsWith, Scan!Range
  <2> QED BY <1>2, <1>4, <1>5, <2>1, <2>2, <2>5, <2>6, MainMoves
<1>11. CASE Scan!Join
  <2>1. /\ pc[Scan!Main] = "join" /\ pc' = [pc EXCEPT ![Scan!Main] = "returned"]
        /\ \A w \in Workers : pc[w] \in {"absent", "exited"}
        /\ UNCHANGED <<queue, pending, done, listed, is_dir, stat, visited, interrupted,
                       batch, fds, flight, todo, skipped>>
    BY <1>11 DEF Scan!Join
  <2>2. /\ pc'[Scan!Main] = "returned" /\ \A w \in Workers : pc'[w] = pc[w]
        /\ "returned" \notin Scan!Batching /\ "join" \notin Scan!Batching
    BY <1>1, <1>3, <2>1 DEF Scan!Batching
  <2>3. Scan!Undisturbed' => queue = <<>>
    <3>1. PICK w \in Workers : pc[w] = "exited"
      BY <2>1 DEF Scan!SeededFirst
    <3>2. done \/ interrupted
      BY <3>1 DEF Scan!EndSeen
    <3>3. pending = 0 => Len(queue) = 0
      BY HandsCounted
    <3> QED BY <1>3, <1>5, <2>1, <3>2, <3>3 DEF Scan!Undisturbed
  <2>4. Scan!SeededFirst'
    BY <2>1, <2>2, <2>3 DEF Scan!SeededFirst, Scan!Seeding
  <2>5. \A d : ~Scan!WaitsWith(Scan!Main, d)
    BY <2>1 DEF Scan!WaitsWith
  <2> QED BY <1>2, <1>4, <1>5, <2>1, <2>2, <2>4, <2>5, MainMoves
<1>12. CASE Scan!Spawn
  <2>1. PICK w \in 1 .. Scan!NumWorkers :
          /\ pc[w] = "absent" /\ \A v \in 1 .. w - 1 : pc[v] # "absent"
          /\ \/ pc' = [pc EXCEPT ![w] = "create",
                         ![Scan!Main] = IF w = Scan!NumWorkers THEN "join" ELSE "spawn"]
             \/ pc' = [pc EXCEPT ![Scan!Main] = IF w = 1 THEN "failed" ELSE "join"]
    BY <1>12 DEF Scan!Spawn
  <2>2. /\ pc[Scan!Main] = "spawn"
        /\ UNCHANGED <<queue, pending, done, listed, is_dir, stat, visited, interrupted,
                       batch, fds, flight, todo, skipped>>
    BY <1>12 DEF Scan!Spawn
  <2>3. w \in Workers /\ w \in Nat /\ w >= 1
    BY <1>1, SpawnBound
  <2>4. /\ pc'[Scan!Main] \in {"join", "spawn", "failed"}
        /\ \A v \in Workers : \/ pc'[v] = pc[v]
                              \/ pc[v] = "absent" /\ pc'[v] = "create"
    BY <1>1, <1>3, <2>1, <2>3
  <2>5. ASSUME pc'[Scan!Main] = "join"
        PROVE  \E v \in Workers : pc'[v] # "absent"
    <3>1. CASE pc' = [pc EXCEPT ![w] = "create",
                       ![Scan!Main] = IF w = Scan!NumWorkers THEN "join" ELSE "spawn"]
      BY <1>1, <1>3, <2>3, <3>1
    <3>2. CASE pc' = [pc EXCEPT ![Scan!Main] = IF w = 1 THEN "failed" ELSE "join"]
      <4>1. w # 1
        BY <1>1, <1>3, <2>5, <3>2
      <4>2. 1 \in 1 .. w - 1 /\ 1 \in Workers
        BY <1>1, <2>3, <4>1
      <4>3. pc'[1] = pc[1] /\ pc[1] # "absent"
        BY <1>1, <1>3, <2>1, <3>2, <4>2
      <4> QED BY <4>2, <4>3
    <3> QED BY <2>1, <3>1, <3>2
  <2>6. Scan!SeededFirst'
    BY <2>4, <2>5 DEF Scan!SeededFirst, Scan!Seeding, Scan!Batching
  <2>7. \A d : ~Scan!WaitsWith(Scan!Main, d)
    BY <2>2 DEF Scan!WaitsWith
  <2>8. pc[Scan!Main] \notin Scan!Batching /\ pc'[Scan!Main] \notin Scan!Batching
    BY <2>2, <2>4 DEF Scan!Batching
  <2> QED BY <1>2, <1>4, <1>5, <2>2, <2>4, <2>6, <2>7, <2>8, MainMoves
<1> QED BY <1>7, <1>8, <1>9, <1>10, <1>11, <1>12 DEF Scan!scan_tree

\* Every step.
LEMMA ScanKeeps ==
  ASSUME Scan!ScanConstants, Scan!ScanInv, [Scan!Next]_Scan!vars
  PROVE  Scan!ScanInv'
<1>1. CASE Scan!scan_tree
  BY <1>1, MainKeeps
<1>2. CASE \E p \in Scan!Procs : Scan!process_dir_batch(p)
  BY <1>2, BatchKeeps
<1>3. CASE \E w \in Workers : Scan!worker_fn(w)
  BY <1>3, WorkerKeeps
<1>4. CASE \/ Scan!sigint_handler /\ UNCHANGED max_depth
           \/ UNCHANGED Scan!vars
  <2>1. /\ UNCHANGED <<max_depth, queue, pending, done, visited, listed, is_dir, stat, pc,
                       batch, fds, flight, todo, skipped>>
        /\ interrupted' = interrupted \/ interrupted' = TRUE
    BY <1>4 DEF Scan!sigint_handler, Scan!vars, Scan!shared, Scan!tree
  <2>2. interrupted => interrupted'
    BY <2>1
  <2>3. Scan!TypeOK'
    BY <2>1 DEF Scan!ScanInv, Scan!TypeOK
  <2>4. Scan!PendingExact'
    <3>1. Scan!InHands' = Scan!InHands
      BY <2>1 DEF Scan!InHands, Scan!Held, Scan!Counted, Scan!At
    <3> QED BY <2>1, <3>1 DEF Scan!ScanInv, Scan!PendingExact
  <2>5. Scan!SeededFirst' /\ Scan!EndSeen'
    BY <2>1, <2>2 DEF Scan!ScanInv, Scan!SeededFirst, Scan!Seeding, Scan!EndSeen, Scan!At,
       Scan!Undisturbed
  <2>6. Scan!Phased' /\ Scan!Listing'
    BY <2>1, <2>2 DEF Scan!ScanInv, Scan!Phased, Scan!Listing, Scan!At
  <2>7. Scan!NoneLost'
    <3>1. \A v \in Scan!Procs, d \in is_dir :
            Scan!WaitsWith(v, d)' <=> Scan!WaitsWith(v, d)
      BY <2>1, WaitsStand
    <3> QED BY <2>1, <2>2, <3>1 DEF Scan!ScanInv, Scan!NoneLost, Scan!Undisturbed,
               Scan!Expanded, Scan!Key
  <2> QED BY <2>3, <2>4, <2>5, <2>6, <2>7 DEF Scan!ScanInv
<1> QED BY <1>1, <1>2, <1>3, <1>4 DEF Scan!Next

\* The root, about to be opened.
LEMMA ScanStarts ==
  ASSUME Scan!ScanConstants, Scan!Init
  PROVE  Scan!ScanInv
<1> USE DEF Scan!Init, Scan!At
<1>1. /\ Scan!Main \notin Workers /\ Scan!Main \in Scan!Procs
      /\ Scan!Procs = {Scan!Main} \cup Workers /\ Root \in Dirs
  BY MainApart DEF Scan!ScanConstants
<1>2. /\ pc[Scan!Main] = "open" /\ \A w \in Workers : pc[w] = "absent"
      /\ todo = batch /\ batch[Scan!Main] = <<Root>>
      /\ \A p \in Scan!Procs : flight[p] = {} /\ fds[p] = {}
  BY <1>1
<1>3. Scan!TypeOK
  <2>1. /\ batch \in [Scan!Procs -> Seq(Dirs)] /\ todo \in [Scan!Procs -> Seq(Dirs)]
        /\ fds \in [Scan!Procs -> SUBSET Dirs]
        /\ flight \in [Scan!Procs -> SUBSET (Scan!Ops \X Dirs)]
        /\ listed \in [Dirs -> SUBSET Dirs]
    BY <1>1
  <2>2. pc \in [Scan!Procs -> Scan!MainPcs \cup Scan!WorkerPcs]
    BY DEF Scan!MainPcs, Scan!WorkerPcs, Scan!Batching
  <2>3. "open" \in Scan!MainPcs /\ "absent" \in Scan!WorkerPcs
    BY DEF Scan!MainPcs, Scan!WorkerPcs, Scan!Batching
  <2>4. queue \in Seq(Dirs) /\ pending \in Int
    OBVIOUS
  <2>5. /\ done \in BOOLEAN /\ interrupted \in BOOLEAN
        /\ visited \subseteq {Inode[d] : d \in Dirs} \cup {NoInode}
        /\ is_dir \subseteq Dirs /\ stat \subseteq Dirs /\ skipped \subseteq Dirs
    BY <1>1
  <2> HIDE DEF Scan!Init
  <2> QED BY <1>2, <2>1, <2>2, <2>3, <2>4, <2>5 DEF Scan!TypeOK
<1>4. Scan!PendingExact
  <2>1. ASSUME NEW w \in Workers
        PROVE  Scan!Held(w) = 0 /\ Scan!Counted(w) = 0
    BY <1>2 DEF Scan!Held, Scan!Counted
  <2>2. Scan!InHands \in [Workers -> Nat] /\ \A w \in Workers : Scan!InHands[w] = 0
    BY <2>1 DEF Scan!InHands
  <2>3. Scan!Total(Scan!InHands) = 0
    BY <2>2, TotalZero
  <2> QED BY <2>3 DEF Scan!PendingExact
<1>5. Scan!SeededFirst /\ Scan!EndSeen
  BY <1>2 DEF Scan!SeededFirst, Scan!EndSeen, Scan!Batching
<1>6. Scan!Phased /\ Scan!Listing
  BY <1>2 DEF Scan!Phased, Scan!Listing
<1>7. Scan!NoneLost
  <2>1. Root \in Scan!Range(todo[Scan!Main])
    BY <1>2 DEF Scan!Range
  <2>2. Scan!WaitsWith(Scan!Main, Root)
    BY <1>2, <2>1 DEF Scan!WaitsWith
  <2> QED BY <1>1, <2>2 DEF Scan!NoneLost
<1> QED BY <1>3, <1>4, <1>5, <1>6, <1>7 DEF Scan!ScanInv

\* What the invariant says of the scan.
LEMMA ScanInvSafe ==
  ASSUME Scan!ScanConstants, Scan!ScanInv
  PROVE  Scan!ScanSafe
<1> USE DEF Scan!ScanInv, Scan!At
<1>1. Scan!Procs = {Scan!Main} \cup Workers /\ queue \in Seq(Dirs) /\ Len(queue) \in Nat
  BY MainApart DEF Scan!TypeOK
<1>2. Scan!DoneMeansEmpty
  <2> SUFFICES ASSUME done
               PROVE  queue = <<>> /\ \A w \in Workers : Scan!Held(w) = 0
    BY DEF Scan!DoneMeansEmpty
  <2>1. pending = 0
    BY DEF Scan!EndSeen
  <2>2. Scan!Total(Scan!InHands) \in Nat
    BY Hands, TotalZero
  <2>3. Len(queue) = 0
    BY <1>1, <2>1, <2>2 DEF Scan!PendingExact
  <2> QED BY <1>1, <2>1, <2>3, HandsCounted
<1>3. Scan!AllScanned
  <2> SUFFICES ASSUME pc[Scan!Main] = "returned", Scan!Undisturbed, NEW d \in is_dir,
                      Scan!Expanded(d), Scan!Key(d) \notin visited
               PROVE  FALSE
    BY DEF Scan!AllScanned
  <2>1. queue = <<>> /\ \A w \in Workers : pc[w] \in {"absent", "exited"}
    BY DEF Scan!SeededFirst
  <2>2. d \notin Scan!Range(queue)
    BY <2>1 DEF Scan!Range
  <2>3. \A v \in Scan!Procs : ~Scan!WaitsWith(v, d)
    BY <1>1, <2>1 DEF Scan!WaitsWith
  <2> QED BY <2>2, <2>3 DEF Scan!NoneLost
<1>4. Scan!ContextsOutliveRequests
  <2> SUFFICES ASSUME ~interrupted, NEW p \in Scan!Procs, NEW r \in flight[p]
               PROVE  /\ pc[p] \in {"open", "open_drain", "statx_drain", "close_drain"}
                      /\ r[1] = "statx" => pc[p] = "statx_drain"
    BY DEF Scan!ContextsOutliveRequests
  <2>1. r[1] \in {"open", "statx", "close"}
    BY DEF Scan!TypeOK, Scan!Ops
  <2> QED BY <2>1 DEF Scan!Phased
<1> QED BY <1>2, <1>3, <1>4 DEF Scan!ScanSafe

\* The scan of atree.c, for any number of CPUs, any file system, any batch size and
\* any of the faults: the pending counter of the work queue counts exactly what is
\* queued or in a worker's hands, the end is declared only when there is nothing of
\* either, a scan that returns undisturbed has entered every directory it found, and
\* without SIGINT no request outlives the context its callback writes to.
THEOREM ScanIsSafe ==
  ASSUME Scan!ScanConstants
  PROVE  Scan!Spec => []Scan!ScanSafe
<1>1. Scan!Init => Scan!ScanInv
  BY ScanStarts
<1>2. Scan!ScanInv /\ [Scan!Next]_Scan!vars => Scan!ScanInv'
  BY ScanKeeps
<1>3. Scan!ScanInv => Scan!ScanSafe
  BY ScanInvSafe
<1> QED BY <1>1, <1>2, <1>3, PTL DEF Scan!Spec

-----------------------------------------------------------------------------
(* aura-hash: every digest is fed its file in order, and what is printed   *)
(* is the digest of a whole file.                                          *)

CONSTANTS Scenarios, ShortReads, SectorSize, MaxPipeline, NoTask
VARIABLES config, first, feeding, task, current, slot, active_ops, error, ops,
          printed

Hash == INSTANCE HashPipeline

\* Finiteness and size mean the same in HashPipeline.
LEMMA HashCardinality ==
  ASSUME NEW S
  PROVE  /\ Hash!IsFiniteSet(S) <=> IsFiniteSet(S)
         /\ Hash!Cardinality(S) = Cardinality(S)
BY DEF Hash!IsFiniteSet, IsFiniteSet, Hash!Cardinality, Cardinality

\* A set of naturals has a least element.
LEMMA LeastOf ==
  ASSUME NEW T, T \subseteq Nat, T # {}
  PROVE  \E x \in T : \A y \in T : x <= y
<1> DEFINE I == {0 .. n : n \in T}
           R == StrictSubsetOrdering(Nat)
<1>1. I \subseteq FiniteSubsetsOf(Nat)
  <2> SUFFICES ASSUME NEW n \in T PROVE 0 .. n \in FiniteSubsetsOf(Nat)
    OBVIOUS
  <2>1. IsFiniteSet(0 .. n)
    BY FS_Interval
  <2> QED BY <2>1 DEF FiniteSubsetsOf
<1>2. IsWellFoundedOn(R, FiniteSubsetsOf(Nat))
  BY FS_StrictSubsetOrderingWellFounded
<1>3. I # {}
  OBVIOUS
<1>4. PICK z \in I : \A y \in I : ~(<<y, z>> \in R)
  <2> HIDE DEF I, R
  <2> QED BY <1>1, <1>2, <1>3, WFMin
<1>5. PICK x \in T : z = 0 .. x
  OBVIOUS
<1>6. ASSUME NEW y \in T, y < x PROVE FALSE
  <2>1. 0 .. y \in I /\ 0 .. y \subseteq 0 .. x /\ 0 .. y # 0 .. x
    BY <1>6
  <2>2. <<0 .. y, z>> \in R
    BY <1>5, <2>1 DEF StrictSubsetOrdering
  <2> QED BY <1>4, <2>1, <2>2
<1> QED BY <1>6

\* What the types say of one task and of one slot.
LEMMA RecordTypes ==
  ASSUME Hash!HashConstants, Hash!HashTypes
  PROVE  /\ Len(task) \in Nat /\ Hash!Tasks = 1 .. Len(task) /\ Hash!Tasks \subseteq Nat
         /\ NoTask \notin Hash!Tasks
         /\ \A t \in Hash!Tasks :
              /\ task[t] \in Hash!TaskRecords
              /\ task[t].size \in Nat /\ task[t].open \in BOOLEAN
              /\ task[t].read_offset \in Nat /\ task[t].hashed \in Seq(Nat)
              /\ task[t].active \in Int /\ task[t].reads_done \in BOOLEAN
              /\ task[t].done \in BOOLEAN
              /\ printed[t] \in SUBSET Seq(Nat)
         /\ \A s \in Hash!Slots :
              /\ slot[s] \in Hash!SlotRecords
              /\ slot[s].state \in {"free", "reading", "done"}
              /\ slot[s].task \in Nat \cup {NoTask}
              /\ slot[s].offset \in Nat /\ slot[s].bytes \in Nat
<1>1. Len(task) \in Nat /\ Hash!Tasks = 1 .. Len(task) /\ Hash!Tasks \subseteq Nat
  BY DEF Hash!HashTypes, Hash!Tasks
<1>2. NoTask \notin Hash!Tasks
  BY <1>1 DEF Hash!HashConstants
<1>3. \A t \in Hash!Tasks : task[t] \in Hash!TaskRecords
  BY <1>1 DEF Hash!HashTypes
<1>4. \A r \in Hash!TaskRecords :
        /\ r.size \in Nat /\ r.open \in BOOLEAN /\ r.read_offset \in Nat
        /\ r.hashed \in Seq(Nat) /\ r.active \in Int /\ r.reads_done \in BOOLEAN
        /\ r.done \in BOOLEAN
  BY DEF Hash!TaskRecords
<1>5. \A s \in Hash!Slots : slot[s] \in Hash!SlotRecords
  BY DEF Hash!HashTypes
<1>6. \A r \in Hash!SlotRecords :
        /\ r.state \in {"free", "reading", "done"} /\ r.task \in Nat \cup {NoTask}
        /\ r.offset \in Nat /\ r.bytes \in Nat
  BY DEF Hash!SlotRecords
<1>7. \A t \in Hash!Tasks : printed[t] \in SUBSET Seq(Nat)
  BY DEF Hash!HashTypes
<1> QED BY <1>1, <1>2, <1>3, <1>4, <1>5, <1>6, <1>7

\* The command line gives a depth and a chunk that are positive.
LEMMA ConfigFacts ==
  ASSUME Hash!HashConstants, Hash!HashTypes
  PROVE  /\ config.depth \in Nat \ {0} /\ config.chunk \in Nat \ {0} /\ config.limit \in Nat
         /\ Hash!Slots = 1 .. config.depth
BY DEF Hash!HashConstants, Hash!HashTypes, Hash!parse_args, Hash!Slots

\* One task changes.
LEMMA TaskMoves ==
  ASSUME Hash!HashTypes, NEW t \in Hash!Tasks, NEW r \in Hash!TaskRecords, task' = [task EXCEPT ![t] = r]
  PROVE  /\ task' \in Seq(Hash!TaskRecords) /\ Hash!Tasks' = Hash!Tasks
         /\ task'[t] = r /\ \A u \in Hash!Tasks \ {t} : task'[u] = task[u]
<1>1. task \in Seq(Hash!TaskRecords) /\ t \in 1 .. Len(task)
  BY DEF Hash!HashTypes, Hash!Tasks
<1>2. task' \in Seq(Hash!TaskRecords) /\ Len(task') = Len(task)
  BY <1>1, ExceptSeq
<1>3. \A u \in 1 .. Len(task) : task'[u] = IF u = t THEN r ELSE task[u]
  BY <1>1
<1> QED BY <1>1, <1>2, <1>3 DEF Hash!Tasks

\* One slot changes.
LEMMA SlotMoves ==
  ASSUME Hash!HashTypes, NEW s \in Hash!Slots, NEW r \in Hash!SlotRecords, slot' = [slot EXCEPT ![s] = r]
  PROVE  /\ slot' \in [Hash!Slots -> Hash!SlotRecords]
         /\ slot'[s] = r /\ \A u \in Hash!Slots \ {s} : slot'[u] = slot[u]
BY DEF Hash!HashTypes

\* The file submit_next_read goes on with.
LEMMA NextTaskIs ==
  ASSUME Hash!HashConstants, Hash!HashTypes, Hash!NextTask # NoTask
  PROVE  Hash!NextTask \in Hash!Tasks /\ ~task[Hash!NextTask].reads_done /\ ~task[Hash!NextTask].done
<1> DEFINE open == {t \in Hash!Tasks : t >= current /\ ~task[t].reads_done /\ ~task[t].done}
<1>1. open # {} /\ Hash!NextTask = CHOOSE t \in open : \A u \in open : t <= u
  BY DEF Hash!NextTask
<1>2. open \subseteq Nat
  BY RecordTypes
<1>3. open \subseteq Hash!Tasks /\ \A t \in open : ~task[t].reads_done /\ ~task[t].done
  OBVIOUS
<1> HIDE DEF open
<1>4. \E t \in open : \A u \in open : t <= u
  BY <1>1, <1>2, LeastOf
<1>5. Hash!NextTask \in open
  BY <1>1, <1>4
<1> QED BY <1>3, <1>5

\* The bytes of the next read: some, and no more than there are.
LEMMA ChunkIs ==
  ASSUME Hash!HashConstants, Hash!OrderInv, NEW t \in Hash!Tasks, ~task[t].reads_done, task[t].size > 0
  PROVE  /\ Hash!Chunk(t) \in Nat \ {0}
         /\ task[t].read_offset + Hash!Chunk(t) <= task[t].size
         /\ task[t].size <= config.chunk => task[t].read_offset = 0 /\ Hash!Chunk(t) = task[t].size
<1>1. Hash!HashTypes /\ Hash!TaskSound(t)
  BY DEF Hash!OrderInv
<1>2. /\ task[t].size \in Nat /\ task[t].read_offset \in Nat /\ config.chunk \in Nat \ {0}
      /\ task[t].read_offset < task[t].size
      /\ task[t].size <= config.chunk => task[t].read_offset = 0
  BY <1>1, RecordTypes, ConfigFacts DEF Hash!TaskSound
<1> QED BY <1>2 DEF Hash!Chunk

\* A slot that is left alone stays sound.
LEMMA SlotKept ==
  ASSUME NEW s, Hash!SlotSound(s), slot'[s] = slot[s], Hash!Tasks' = Hash!Tasks, config' = config,
         \A u \in Hash!Tasks : task'[u].size = task[u].size, s \in ops' => s \in ops
  PROVE  Hash!SlotSound(s)'
BY DEF Hash!SlotSound

\* So does a task.
LEMMA TaskKept ==
  ASSUME NEW t, Hash!TaskSound(t), task'[t] = task[t], printed'[t] = printed[t], config' = config
  PROVE  Hash!TaskSound(t)'
BY DEF Hash!TaskSound

\* A step that leaves slots and tasks alone.
LEMMA OnlyControl ==
  ASSUME Hash!HashConstants, Hash!OrderInv, UNCHANGED <<config, task, slot, ops, printed>>,
         pc' \in {"setup", "fill", "reading", "draining", "wait", "drain", "exited"},
         first' \in BOOLEAN, error' \in BOOLEAN, interrupted' \in BOOLEAN,
         at' \in Nat \ {0}, current' \in Nat, feeding' \in Hash!Tasks \cup {NoTask}, active_ops' \in Int,
         Hash!StepSound'
  PROVE  Hash!OrderInv'
<1>1. Hash!Tasks' = Hash!Tasks /\ Hash!Slots' = Hash!Slots
  BY DEF Hash!Tasks, Hash!Slots
<1>2. Hash!HashTypes'
  BY <1>1 DEF Hash!OrderInv, Hash!HashTypes, Hash!parse_args
<1>3. \A s \in Hash!Slots' : Hash!SlotSound(s)'
  BY <1>1, SlotKept DEF Hash!OrderInv
<1>4. \A t \in Hash!Tasks' : Hash!TaskSound(t)'
  BY <1>1, TaskKept DEF Hash!OrderInv
<1> QED BY <1>2, <1>3, <1>4 DEF Hash!OrderInv

LEMMA ControlKeeps ==
  ASSUME Hash!HashConstants, Hash!OrderInv,
         Hash!Setup \/ Hash!sigint_handler \/ Hash!FillPassed \/ Hash!LoopHead \/ Hash!WaitReturns \/ Hash!Exit
  PROVE  Hash!OrderInv'
<1>1. /\ UNCHANGED <<config, task, slot, ops, printed, feeding, current, active_ops>>
      /\ Hash!Tasks' = Hash!Tasks /\ Hash!Slots' = Hash!Slots
  BY DEF Hash!Setup, Hash!sigint_handler, Hash!FillPassed, Hash!LoopHead, Hash!WaitReturns, Hash!Exit, Hash!Tasks, Hash!Slots
<1>2. /\ first \in BOOLEAN /\ error \in BOOLEAN /\ interrupted \in BOOLEAN /\ at \in Nat \ {0}
      /\ current \in Nat /\ feeding \in Hash!Tasks \cup {NoTask} /\ active_ops \in Int
      /\ pc \in {"setup", "fill", "reading", "draining", "wait", "drain", "exited"}
      /\ Hash!StepSound
  BY DEF Hash!OrderInv, Hash!HashTypes
<1>3. /\ first' \in BOOLEAN /\ error' \in BOOLEAN /\ interrupted' \in BOOLEAN /\ at' \in Nat \ {0}
      /\ pc' \in {"setup", "fill", "reading", "draining", "wait", "drain", "exited"}
  <2>1. first' \in BOOLEAN
    BY <1>2 DEF Hash!Setup, Hash!sigint_handler, Hash!FillPassed, Hash!LoopHead, Hash!WaitReturns, Hash!Exit
  <2>2. error' \in BOOLEAN
    BY <1>2 DEF Hash!Setup, Hash!sigint_handler, Hash!FillPassed, Hash!LoopHead, Hash!WaitReturns, Hash!Exit
  <2>3. interrupted' \in BOOLEAN
    BY <1>2 DEF Hash!Setup, Hash!sigint_handler, Hash!FillPassed, Hash!LoopHead, Hash!WaitReturns, Hash!Exit
  <2>4. at' \in Nat \ {0}
    BY <1>2 DEF Hash!Setup, Hash!sigint_handler, Hash!FillPassed, Hash!LoopHead, Hash!WaitReturns, Hash!Exit
  <2>5. pc' \in {"setup", "fill", "reading", "draining", "wait", "drain", "exited"}
    BY <1>2 DEF Hash!Setup, Hash!sigint_handler, Hash!FillPassed, Hash!LoopHead, Hash!WaitReturns, Hash!Exit
  <2> QED BY <2>1, <2>2, <2>3, <2>4, <2>5
<1>4. Hash!StepSound'
  <2>1. CASE Hash!Setup
    BY <1>1, <1>2, <2>1 DEF Hash!Setup, Hash!StepSound, Hash!Submitting
  <2>2. CASE Hash!sigint_handler
    BY <1>1, <1>2, <2>2 DEF Hash!sigint_handler, Hash!StepSound, Hash!Submitting
  <2>3. CASE Hash!FillPassed
    BY <1>1, <1>2, <2>3 DEF Hash!FillPassed, Hash!StepSound, Hash!Submitting
  <2>4. CASE Hash!LoopHead
    BY <1>1, <1>2, <2>4 DEF Hash!LoopHead, Hash!StepSound, Hash!Submitting
  <2>5. CASE Hash!WaitReturns
    BY <1>1, <1>2, <2>5 DEF Hash!WaitReturns, Hash!StepSound, Hash!Submitting
  <2>6. CASE Hash!Exit
    BY <1>1, <1>2, <2>6 DEF Hash!Exit, Hash!StepSound, Hash!Submitting
  <2> QED BY <2>1, <2>2, <2>3, <2>4, <2>5, <2>6
<1> QED BY <1>1, <1>2, <1>3, <1>4, OnlyControl

\* What a step that changes one task leaves to be shown.
LEMMA OneTask ==
  ASSUME Hash!HashConstants, Hash!OrderInv, NEW t \in Hash!Tasks, NEW r \in Hash!TaskRecords,
         task' = [task EXCEPT ![t] = r], r.size = task[t].size, UNCHANGED config,
         \A u \in Hash!Tasks \ {t} : printed'[u] = printed[u], Hash!TaskSound(t)'
  PROVE  /\ task' \in Seq(Hash!TaskRecords) /\ Hash!Tasks' = Hash!Tasks /\ Hash!Slots' = Hash!Slots
         /\ task'[t] = r /\ \A u \in Hash!Tasks : task'[u].size = task[u].size
         /\ \A u \in Hash!Tasks \ {t} : task'[u] = task[u]
         /\ \A u \in Hash!Tasks' : Hash!TaskSound(u)'
<1>1. /\ task' \in Seq(Hash!TaskRecords) /\ Hash!Tasks' = Hash!Tasks
      /\ task'[t] = r /\ \A u \in Hash!Tasks \ {t} : task'[u] = task[u]
  BY TaskMoves DEF Hash!OrderInv
<1>2. Hash!Slots' = Hash!Slots
  BY DEF Hash!Slots
<1>3. \A u \in Hash!Tasks \ {t} : Hash!TaskSound(u)'
  BY <1>1, TaskKept DEF Hash!OrderInv
<1> QED BY <1>1, <1>2, <1>3

\* A file that cannot be opened, or is empty, is done at once.
LEMMA SkipKeeps ==
  ASSUME Hash!HashConstants, Hash!OrderInv, Hash!OpenFails \/ Hash!SubmitEmpty
  PROVE  Hash!OrderInv'
<1>0. PICK t : t = Hash!NextTask
  OBVIOUS
<1> DEFINE r == [task[t] EXCEPT !.reads_done = TRUE, !.done = TRUE]
<1>1. /\ t # NoTask /\ Hash!Filling /\ current' = t + 1
      /\ task' = [task EXCEPT ![t].reads_done = TRUE, ![t].done = TRUE]
      /\ UNCHANGED <<config, pc, first, at, feeding, slot, active_ops, error, interrupted, ops>>
      /\ printed' = printed \/ printed' = [printed EXCEPT ![t] = @ \cup {task[t].hashed}]
  BY <1>0 DEF Hash!OpenFails, Hash!SubmitEmpty, Hash!finalize_task
<1>2. Hash!HashTypes /\ Hash!StepSound
  BY DEF Hash!OrderInv
<1>3. t \in Hash!Tasks /\ t \in Nat /\ ~task[t].reads_done /\ ~task[t].done /\ task[t] \in Hash!TaskRecords
      /\ task[t].hashed \in Seq(Nat)
  BY <1>0, <1>1, <1>2, NextTaskIs, RecordTypes
<1>4. r \in Hash!TaskRecords /\ r.size = task[t].size /\ r.read_offset = task[t].read_offset
      /\ r.hashed = task[t].hashed /\ r.reads_done /\ r.done
  BY <1>3 DEF Hash!TaskRecords
<1>5. task' = [task EXCEPT ![t] = r]
  <2>1. task \in Seq(Hash!TaskRecords) /\ t \in DOMAIN task
    BY <1>2, <1>3, RecordTypes DEF Hash!HashTypes
  <2> QED BY <1>1, <2>1
<1>6. printed' \in [Hash!Tasks -> SUBSET Seq(Nat)] /\ \A u \in Hash!Tasks \ {t} : printed'[u] = printed[u]
  BY <1>1, <1>2, <1>3 DEF Hash!HashTypes
<1>7. Hash!TaskSound(t) /\ printed[t] = {} /\ printed \in [Hash!Tasks -> SUBSET Seq(Nat)]
  BY <1>2, <1>3 DEF Hash!OrderInv, Hash!TaskSound, Hash!HashTypes
<1>8. printed'[t] \subseteq {task[t].hashed}
  BY <1>1, <1>3, <1>7
<1> HIDE DEF r
<1>9. task'[t] = r
  BY <1>2, <1>3, <1>4, <1>5, TaskMoves
<1>10. Hash!TaskSound(t)'
  BY <1>1, <1>4, <1>7, <1>8, <1>9 DEF Hash!TaskSound
<1>11. /\ task' \in Seq(Hash!TaskRecords) /\ Hash!Tasks' = Hash!Tasks /\ Hash!Slots' = Hash!Slots
       /\ \A u \in Hash!Tasks : task'[u].size = task[u].size
       /\ \A u \in Hash!Tasks \ {t} : task'[u] = task[u]
       /\ \A u \in Hash!Tasks' : Hash!TaskSound(u)'
  BY <1>1, <1>3, <1>4, <1>5, <1>6, <1>10, OneTask
<1>12. Hash!HashTypes'
  BY <1>1, <1>2, <1>3, <1>6, <1>11 DEF Hash!HashTypes, Hash!parse_args
<1>13. \A s \in Hash!Slots' : Hash!SlotSound(s)'
  BY <1>1, <1>11, SlotKept DEF Hash!OrderInv
<1>14. Hash!StepSound'
  <2>1. pc = "fill" /\ ~Hash!Submitting /\ feeding = NoTask
    BY <1>1, <1>2 DEF Hash!Filling, Hash!Submitting, Hash!StepSound
  <2> QED BY <1>1, <1>2, <1>11, <2>1 DEF Hash!StepSound, Hash!Submitting
<1> QED BY <1>11, <1>12, <1>13, <1>14 DEF Hash!OrderInv

\* One task becomes r, one slot becomes p, the others stay.
TaskTo(t, r) ==
  /\ t \in Hash!Tasks /\ r \in Hash!TaskRecords /\ task' \in Seq(Hash!TaskRecords) /\ Hash!Tasks' = Hash!Tasks
  /\ task'[t] = r /\ \A u \in Hash!Tasks \ {t} : task'[u] = task[u]

SlotTo(s, p) ==
  /\ s \in Hash!Slots /\ p \in Hash!SlotRecords /\ slot' \in [Hash!Slots -> Hash!SlotRecords]
  /\ slot'[s] = p /\ \A u \in Hash!Slots \ {s} : slot'[u] = slot[u]

\* The effect of submit_next_read up to aura_read: t, n bytes from read_offset.
Begun(t, n) ==
  /\ pc = "fill" /\ pc' \in {"reading", "draining"} /\ ~error
  /\ at \in Hash!Slots /\ slot[at].state = "free"
  /\ pc' = "draining" => ~(Cardinality(ops) < config.limit)
  /\ ~task[t].reads_done /\ ~task[t].done
  /\ task[t].read_offset + n <= task[t].size
  /\ task[t].size <= config.chunk => task[t].read_offset = 0 /\ n = task[t].size
  /\ SlotTo(at, [state |-> "reading", task |-> t, offset |-> task[t].read_offset, bytes |-> n])
  /\ TaskTo(t, [task[t] EXCEPT !.open = TRUE, !.read_offset = @ + n,
                               !.reads_done = task[t].read_offset + n >= task[t].size])
  /\ current' \in Nat
  /\ UNCHANGED <<config, first, at, feeding, active_ops, error, interrupted, ops, printed>>

LEMMA BeginsEffect ==
  ASSUME Hash!HashConstants, Hash!OrderInv, Hash!ReadBegins
  PROVE  \E t \in Hash!Tasks, n \in Nat \ {0} : Begun(t, n)
<1>1. PICK t : t = Hash!NextTask
  OBVIOUS
<1>2. PICK n : n = Hash!Chunk(t)
  OBVIOUS
<1> DEFINE r == [task[t] EXCEPT !.open = TRUE, !.read_offset = @ + n,
                                !.reads_done = task[t].read_offset + n >= task[t].size]
           p == [state |-> "reading", task |-> t, offset |-> task[t].read_offset, bytes |-> n]
<1>3. /\ Hash!Filling /\ t # NoTask /\ task[t].size > 0
      /\ slot' = [slot EXCEPT ![at] = p]
      /\ task' = [task EXCEPT ![t].open = TRUE, ![t].read_offset = @ + n,
                              ![t].reads_done = task[t].read_offset + n >= task[t].size]
      /\ current' = (IF task[t].read_offset + n >= task[t].size THEN t + 1 ELSE current)
      /\ pc' = (IF Cardinality(ops) < config.limit THEN "reading" ELSE "draining")
      /\ UNCHANGED <<config, first, at, feeding, active_ops, error, interrupted, ops, printed>>
  BY <1>1, <1>2, HashCardinality DEF Hash!ReadBegins
<1>4. Hash!HashTypes /\ Hash!StepSound
  BY DEF Hash!OrderInv
<1>5. /\ t \in Hash!Tasks /\ t \in Nat /\ ~task[t].reads_done /\ ~task[t].done
      /\ task[t] \in Hash!TaskRecords /\ task[t].read_offset \in Nat /\ task[t].size \in Nat
  BY <1>1, <1>3, <1>4, NextTaskIs, RecordTypes
<1>6. /\ n \in Nat \ {0} /\ task[t].read_offset + n <= task[t].size
      /\ task[t].size <= config.chunk => task[t].read_offset = 0 /\ n = task[t].size
  BY <1>2, <1>3, <1>5, ChunkIs
<1>7. pc = "fill" /\ ~error /\ at \in Hash!Slots /\ slot[at].state = "free"
  <2>1. at \in Nat /\ at >= at
    BY <1>4 DEF Hash!HashTypes
  <2> QED BY <1>3, <1>4, <2>1 DEF Hash!Filling, Hash!StepSound
<1>8. r \in Hash!TaskRecords
  <2>1. PICK m \in Nat : m = task[t].read_offset + n
    BY <1>5, <1>6
  <2>2. [task[t] EXCEPT !.open = TRUE, !.read_offset = m, !.reads_done = TRUE] \in Hash!TaskRecords
    BY <1>5, <2>1 DEF Hash!TaskRecords
  <2>3. [task[t] EXCEPT !.open = TRUE, !.read_offset = m, !.reads_done = FALSE] \in Hash!TaskRecords
    BY <1>5, <2>1 DEF Hash!TaskRecords
  <2>4. (task[t].read_offset + n >= task[t].size) = TRUE \/ (task[t].read_offset + n >= task[t].size) = FALSE
    OBVIOUS
  <2>5. r = [task[t] EXCEPT !.open = TRUE, !.read_offset = m,
                            !.reads_done = task[t].read_offset + n >= task[t].size]
    BY <2>1
  <2> QED BY <2>2, <2>3, <2>4, <2>5
<1>9. task' = [task EXCEPT ![t] = r]
  <2>1. task \in Seq(Hash!TaskRecords) /\ t \in DOMAIN task
    BY <1>4, <1>5, RecordTypes DEF Hash!HashTypes
  <2> QED BY <1>3, <2>1
<1>10. p \in Hash!SlotRecords
  BY <1>5, <1>6 DEF Hash!SlotRecords
<1>11. current' \in Nat
  BY <1>3, <1>4, <1>5 DEF Hash!HashTypes
<1>12. SlotTo(at, p)
  <2> HIDE DEF p
  <2> QED BY <1>3, <1>4, <1>7, <1>10, SlotMoves DEF SlotTo
<1>13. TaskTo(t, r)
  <2> HIDE DEF r
  <2> QED BY <1>4, <1>5, <1>8, <1>9, TaskMoves DEF TaskTo
<1>14. pc' \in {"reading", "draining"} /\ (pc' = "draining" => ~(Cardinality(ops) < config.limit))
  BY <1>3
<1>15. Begun(t, n)
  BY <1>3, <1>5, <1>6, <1>7, <1>11, <1>12, <1>13, <1>14 DEF Begun
<1> QED BY <1>5, <1>6, <1>15

\* Slots in use are not free, so those with a read in the kernel are fewer
\* than the slots while one is free.
LEMMA NotAllBusy ==
  ASSUME Hash!HashConstants, Hash!OrderInv, at \in Hash!Slots, slot[at].state = "free"
  PROVE  Cardinality(ops) < config.depth
<1>1. ops \subseteq Hash!Slots \ {at}
  BY DEF Hash!OrderInv, Hash!HashTypes, Hash!SlotSound
<1>2. config.depth \in Nat \ {0} /\ Hash!Slots = 1 .. config.depth
  BY ConfigFacts DEF Hash!OrderInv
<1>3. IsFiniteSet(Hash!Slots) /\ Cardinality(Hash!Slots) = config.depth
  BY <1>2, FS_Interval
<1>4. IsFiniteSet(Hash!Slots \ {at}) /\ Cardinality(Hash!Slots \ {at}) = config.depth - 1
  BY <1>3, FS_RemoveElement
<1>5. Cardinality(ops) <= config.depth - 1 /\ Cardinality(ops) \in Nat
  BY <1>1, <1>4, FS_Subset, FS_CardinalityType
<1> QED BY <1>2, <1>5

LEMMA BeginsKeeps ==
  ASSUME Hash!HashConstants, Hash!OrderInv, Hash!ReadBegins
  PROVE  Hash!OrderInv'
<1>1. PICK t \in Hash!Tasks, n \in Nat \ {0} : Begun(t, n)
  BY BeginsEffect
<1>2. PICK r : r = [task[t] EXCEPT !.open = TRUE, !.read_offset = @ + n,
                                   !.reads_done = task[t].read_offset + n >= task[t].size]
  OBVIOUS
<1>3. PICK p : p = [state |-> "reading", task |-> t, offset |-> task[t].read_offset, bytes |-> n]
  OBVIOUS
<1>4. /\ SlotTo(at, p) /\ TaskTo(t, r) /\ pc = "fill" /\ pc' \in {"reading", "draining"}
      /\ slot[at].state = "free" /\ current' \in Nat
      /\ UNCHANGED <<config, first, at, feeding, active_ops, error, interrupted, ops, printed>>
  BY <1>1, <1>2, <1>3 DEF Begun
<1>5. Hash!HashTypes /\ Hash!StepSound /\ Hash!TaskSound(t)
  BY DEF Hash!OrderInv
<1>6. /\ task[t] \in Hash!TaskRecords /\ task[t].size \in Nat /\ task[t].read_offset \in Nat
      /\ task[t].hashed \in Seq(Nat)
  BY <1>5, RecordTypes
<1>7. /\ r.size = task[t].size /\ r.read_offset = task[t].read_offset + n
      /\ r.reads_done = (task[t].read_offset + n >= task[t].size)
      /\ r.hashed = task[t].hashed /\ r.done = task[t].done
  BY <1>2, <1>6 DEF Hash!TaskRecords
<1>8. p.state = "reading" /\ p.task = t /\ p.offset = task[t].read_offset /\ p.bytes = n
  BY <1>3
<1>9. /\ ~task[t].done /\ task[t].read_offset + n <= task[t].size
      /\ task[t].size <= config.chunk => task[t].read_offset = 0 /\ n = task[t].size
  BY <1>1 DEF Begun
<1>10. Hash!TaskSound(t)'
  <2>1. task'[t] = r /\ printed'[t] = printed[t] /\ config'.chunk = config.chunk
    BY <1>4 DEF TaskTo
  <2>2. /\ r.read_offset <= r.size
        /\ ~r.reads_done => r.read_offset < r.size
        /\ ~r.reads_done /\ r.size <= config.chunk => r.read_offset = 0
    <3>1. ~r.reads_done => ~(task[t].read_offset + n >= task[t].size)
      BY <1>7
    <3> QED BY <1>6, <1>7, <1>9, <3>1
  <2>3. /\ \A i \in DOMAIN r.hashed : r.hashed[i] = i - 1
        /\ printed[t] = {} /\ \A x, y \in printed[t] : x = y
    BY <1>5, <1>7, <1>9 DEF Hash!TaskSound
  <2> QED BY <2>1, <2>2, <2>3 DEF Hash!TaskSound
<1>11. Hash!Tasks' = Hash!Tasks /\ Hash!Slots' = Hash!Slots /\ \A u \in Hash!Tasks : task'[u].size = task[u].size
  BY <1>4, <1>7 DEF TaskTo, Hash!Slots
<1>12. \A u \in Hash!Tasks' : Hash!TaskSound(u)'
  <2>1. \A u \in Hash!Tasks \ {t} : Hash!TaskSound(u)'
    BY <1>4, TaskKept DEF Hash!OrderInv, TaskTo
  <2> QED BY <1>10, <1>11, <2>1
<1>13. at \in Hash!Slots /\ at \notin ops
  BY <1>4 DEF Hash!OrderInv, Hash!SlotSound, SlotTo
<1>14. Hash!SlotSound(at)'
  BY <1>1, <1>4, <1>8, <1>9, <1>11, <1>13 DEF SlotTo, Hash!SlotSound
<1>15. \A s \in Hash!Slots' : Hash!SlotSound(s)'
  <2>1. \A s \in Hash!Slots \ {at} : Hash!SlotSound(s)'
    BY <1>4, <1>11, SlotKept DEF Hash!OrderInv, SlotTo
  <2> QED BY <1>11, <1>14, <2>1, <1>4
<1>16. Hash!HashTypes'
  BY <1>4, <1>5, <1>11 DEF Hash!HashTypes, Hash!parse_args, TaskTo, SlotTo
<1>17. Hash!StepSound'
  <2>1. /\ at' \in Hash!Slots \ ops' /\ slot'[at'].state = "reading"
        /\ slot'[at'].offset + slot'[at'].bytes = task'[slot'[at'].task].read_offset
    BY <1>4, <1>7, <1>8, <1>13 DEF SlotTo, TaskTo
  <2>2. first' => \A s \in Hash!Slots' : s > at' => slot'[s].state = "free"
    <3>1. \A s \in Hash!Slots : s > at => s >= at /\ s # at
      BY <1>5, ConfigFacts DEF Hash!HashTypes
    <3> QED BY <1>4, <1>5, <1>11, <3>1 DEF Hash!StepSound, SlotTo
  <2>3. feeding' = NoTask
    BY <1>4, <1>5 DEF Hash!StepSound
  <2>4. config'.limit >= config'.depth => pc' # "draining"
    <3>1. Cardinality(ops) < config.depth
      BY <1>4, <1>13, NotAllBusy
    <3>2. pc' = "draining" => ~(Cardinality(ops) < config.limit)
      BY <1>1 DEF Begun
    <3>3. Cardinality(ops) \in Nat /\ config.depth \in Nat /\ config.limit \in Nat
      <4>1. IsFiniteSet(Hash!Slots) /\ config.depth \in Nat /\ config.limit \in Nat /\ ops \subseteq Hash!Slots
        <5>1. config.depth \in Nat /\ config.limit \in Nat /\ Hash!Slots = 1 .. config.depth
          BY <1>5, ConfigFacts
        <5>2. IsFiniteSet(1 .. config.depth)
          BY <5>1, FS_Interval
        <5> QED BY <1>5, <5>1, <5>2 DEF Hash!HashTypes
      <4> QED BY <4>1, FS_Subset, FS_CardinalityType
    <3> QED BY <1>4, <3>1, <3>2, <3>3
  <2>5. Hash!Slots' = Hash!Slots
    BY <1>11
  <2> QED BY <1>4, <2>1, <2>2, <2>3, <2>4, <2>5 DEF Hash!StepSound, Hash!Submitting
<1> QED BY <1>12, <1>15, <1>16, <1>17 DEF Hash!OrderInv

\* Slots that the step leaves alone, tasks that it leaves alone.
LEMMA OtherSlots ==
  ASSUME Hash!OrderInv, NEW s, NEW p, SlotTo(s, p), Hash!Tasks' = Hash!Tasks, UNCHANGED config,
         \A u \in Hash!Tasks : task'[u].size = task[u].size, ops' \subseteq ops \cup {s}, Hash!SlotSound(s)'
  PROVE  Hash!Slots' = Hash!Slots /\ \A u \in Hash!Slots' : Hash!SlotSound(u)'
<1>1. Hash!Slots' = Hash!Slots
  BY DEF Hash!Slots
<1>2. \A u \in Hash!Slots \ {s} : Hash!SlotSound(u)'
  BY SlotKept DEF Hash!OrderInv, SlotTo
<1> QED BY <1>1, <1>2

LEMMA OtherTasks ==
  ASSUME Hash!OrderInv, NEW t, NEW r, TaskTo(t, r), UNCHANGED config, r.size = task[t].size,
         \A u \in Hash!Tasks \ {t} : printed'[u] = printed[u], Hash!TaskSound(t)'
  PROVE  /\ Hash!Tasks' = Hash!Tasks /\ Hash!Slots' = Hash!Slots /\ \A u \in Hash!Tasks : task'[u].size = task[u].size
         /\ \A u \in Hash!Tasks' : Hash!TaskSound(u)'
<1>1. Hash!Tasks' = Hash!Tasks /\ Hash!Slots' = Hash!Slots /\ \A u \in Hash!Tasks : task'[u].size = task[u].size
  BY DEF TaskTo, Hash!Slots
<1>2. \A u \in Hash!Tasks \ {t} : Hash!TaskSound(u)'
  BY TaskKept DEF Hash!OrderInv, TaskTo
<1> QED BY <1>1, <1>2

\* aura_read has taken the request.
Submitted(t) ==
  /\ Hash!Submitting /\ feeding = NoTask /\ pc' = "fill" /\ at' = at + 1
  /\ at \in Hash!Slots \ ops /\ slot[at].state = "reading" /\ slot[at].task = t
  /\ TaskTo(t, [task[t] EXCEPT !.active = @ + 1])
  /\ ops' = ops \cup {at} /\ active_ops' = active_ops + 1
  /\ UNCHANGED <<config, first, feeding, current, slot, error, interrupted, printed>>

LEMMA SubmittedEffect ==
  ASSUME Hash!HashConstants, Hash!OrderInv, Hash!ReadSubmitted
  PROVE  \E t \in Hash!Tasks : Submitted(t)
<1>1. PICK t : t = slot[at].task
  OBVIOUS
<1>2. Hash!HashTypes /\ Hash!StepSound
  BY DEF Hash!OrderInv
<1>3. Hash!Submitting /\ at \in Hash!Slots \ ops /\ slot[at].state = "reading"
  BY <1>2 DEF Hash!ReadSubmitted, Hash!StepSound, Hash!Submitting
<1>4. t \in Hash!Tasks
  BY <1>1, <1>3 DEF Hash!OrderInv, Hash!SlotSound
<1>5. task[t] \in Hash!TaskRecords /\ task[t].active \in Int
  BY <1>2, <1>4, RecordTypes
<1> DEFINE r == [task[t] EXCEPT !.active = @ + 1]
<1>6. r \in Hash!TaskRecords
  BY <1>5 DEF Hash!TaskRecords
<1>7. task' = [task EXCEPT ![t] = r]
  <2>1. task \in Seq(Hash!TaskRecords) /\ t \in DOMAIN task
    BY <1>2, <1>4, RecordTypes DEF Hash!HashTypes
  <2>2. task' = [task EXCEPT ![t].active = @ + 1]
    BY <1>1 DEF Hash!ReadSubmitted
  <2> QED BY <2>1, <2>2
<1>8. TaskTo(t, r)
  <2> HIDE DEF r
  <2> QED BY <1>2, <1>4, <1>6, <1>7, TaskMoves DEF TaskTo
<1>9. /\ feeding = NoTask /\ pc' = "fill" /\ at' = at + 1 /\ ops' = ops \cup {at}
      /\ active_ops' = active_ops + 1
      /\ UNCHANGED <<config, first, feeding, current, slot, error, interrupted, printed>>
  BY DEF Hash!ReadSubmitted
<1> QED BY <1>1, <1>3, <1>4, <1>8, <1>9 DEF Submitted

LEMMA SubmittedKeeps ==
  ASSUME Hash!HashConstants, Hash!OrderInv, Hash!ReadSubmitted
  PROVE  Hash!OrderInv'
<1>1. PICK t \in Hash!Tasks : Submitted(t)
  BY SubmittedEffect
<1>2. PICK r : r = [task[t] EXCEPT !.active = @ + 1]
  OBVIOUS
<1>3. /\ TaskTo(t, r) /\ feeding = NoTask /\ pc' = "fill" /\ at' = at + 1 /\ ops' = ops \cup {at}
      /\ active_ops' = active_ops + 1 /\ Hash!Submitting
      /\ at \in Hash!Slots \ ops /\ slot[at].state = "reading"
      /\ UNCHANGED <<config, first, feeding, current, slot, error, interrupted, printed>>
  BY <1>1, <1>2 DEF Submitted
<1>4. Hash!HashTypes /\ Hash!StepSound /\ Hash!TaskSound(t)
  BY DEF Hash!OrderInv
<1>5. task[t] \in Hash!TaskRecords
  BY <1>4, RecordTypes
<1>6. /\ r.size = task[t].size /\ r.read_offset = task[t].read_offset
      /\ r.reads_done = task[t].reads_done /\ r.hashed = task[t].hashed /\ r.done = task[t].done
  BY <1>2, <1>5 DEF Hash!TaskRecords
<1>7. Hash!TaskSound(t)'
  BY <1>3, <1>4, <1>6 DEF TaskTo, Hash!TaskSound
<1>8. /\ Hash!Tasks' = Hash!Tasks /\ Hash!Slots' = Hash!Slots /\ \A u \in Hash!Tasks : task'[u].size = task[u].size
      /\ \A u \in Hash!Tasks' : Hash!TaskSound(u)'
  BY <1>3, <1>6, <1>7, OtherTasks
<1>9. \A s \in Hash!Slots' : Hash!SlotSound(s)'
  BY <1>3, <1>8 DEF Hash!OrderInv, Hash!SlotSound
<1>10. Hash!HashTypes'
  BY <1>3, <1>4, <1>8 DEF Hash!HashTypes, Hash!parse_args, TaskTo
<1>11. Hash!StepSound'
  <2>1. first' => \A s \in Hash!Slots' : s >= at' => slot'[s].state = "free"
    <3>1. \A s \in Hash!Slots : s >= at + 1 => s > at
      BY <1>4, ConfigFacts DEF Hash!HashTypes
    <3> QED BY <1>3, <1>4, <1>8, <3>1 DEF Hash!StepSound
  <2> QED BY <1>3, <2>1 DEF Hash!StepSound, Hash!Submitting
<1> QED BY <1>8, <1>9, <1>10, <1>11 DEF Hash!OrderInv

\* aura_read has refused: the slot and the bytes are given back.
Rejected(t) ==
  /\ Hash!Submitting /\ feeding = NoTask /\ pc' = "fill" /\ at' = at + 1 /\ error' = TRUE
  /\ at \in Hash!Slots \ ops /\ slot[at].state = "reading" /\ slot[at].task = t
  /\ SlotTo(at, [slot[at] EXCEPT !.state = "free", !.task = NoTask])
  /\ TaskTo(t, [task[t] EXCEPT !.read_offset = slot[at].offset])
  /\ UNCHANGED <<config, first, feeding, current, active_ops, interrupted, ops, printed>>

LEMMA RejectedEffect ==
  ASSUME Hash!HashConstants, Hash!OrderInv, Hash!ReadRejected
  PROVE  \E t \in Hash!Tasks : Rejected(t)
<1>1. PICK t : t = slot[at].task
  OBVIOUS
<1>2. Hash!HashTypes /\ Hash!StepSound
  BY DEF Hash!OrderInv
<1>3. /\ Hash!Submitting /\ at \in Hash!Slots \ ops /\ slot[at].state = "reading"
      /\ slot[at].offset + slot[at].bytes = task[t].read_offset
  BY <1>1, <1>2 DEF Hash!ReadRejected, Hash!StepSound, Hash!Submitting
<1>4. t \in Hash!Tasks
  BY <1>1, <1>3 DEF Hash!OrderInv, Hash!SlotSound
<1>5. /\ task[t] \in Hash!TaskRecords /\ task[t].read_offset \in Nat
      /\ slot[at] \in Hash!SlotRecords /\ slot[at].offset \in Nat /\ slot[at].bytes \in Nat
  BY <1>2, <1>3, <1>4, RecordTypes
<1> DEFINE r == [task[t] EXCEPT !.read_offset = slot[at].offset]
           p == [slot[at] EXCEPT !.state = "free", !.task = NoTask]
<1>6. r \in Hash!TaskRecords /\ p \in Hash!SlotRecords
  BY <1>5 DEF Hash!TaskRecords, Hash!SlotRecords
<1>7. task' = [task EXCEPT ![t] = r]
  <2>1. task \in Seq(Hash!TaskRecords) /\ t \in DOMAIN task
    BY <1>2, <1>4, RecordTypes DEF Hash!HashTypes
  <2>2. task' = [task EXCEPT ![t].read_offset = @ - slot[at].bytes]
    BY <1>1 DEF Hash!ReadRejected
  <2>3. task[t].read_offset - slot[at].bytes = slot[at].offset
    BY <1>3, <1>5
  <2> QED BY <2>1, <2>2, <2>3
<1>8. slot' = [slot EXCEPT ![at] = p]
  BY <1>2, <1>3 DEF Hash!ReadRejected, Hash!HashTypes
<1>9. TaskTo(t, r)
  <2> HIDE DEF r
  <2> QED BY <1>2, <1>4, <1>6, <1>7, TaskMoves DEF TaskTo
<1>10. SlotTo(at, p)
  <2> HIDE DEF p
  <2> QED BY <1>2, <1>3, <1>6, <1>8, SlotMoves DEF SlotTo
<1>11. /\ feeding = NoTask /\ pc' = "fill" /\ at' = at + 1 /\ error' = TRUE
       /\ UNCHANGED <<config, first, feeding, current, active_ops, interrupted, ops, printed>>
  BY DEF Hash!ReadRejected
<1> QED BY <1>1, <1>3, <1>4, <1>9, <1>10, <1>11 DEF Rejected

LEMMA RejectedKeeps ==
  ASSUME Hash!HashConstants, Hash!OrderInv, Hash!ReadRejected
  PROVE  Hash!OrderInv'
<1>1. PICK t \in Hash!Tasks : Rejected(t)
  BY RejectedEffect
<1>2. PICK r : r = [task[t] EXCEPT !.read_offset = slot[at].offset]
  OBVIOUS
<1>3. PICK p : p = [slot[at] EXCEPT !.state = "free", !.task = NoTask]
  OBVIOUS
<1>4. /\ TaskTo(t, r) /\ SlotTo(at, p) /\ feeding = NoTask /\ pc' = "fill" /\ at' = at + 1
      /\ error' = TRUE /\ Hash!Submitting
      /\ at \in Hash!Slots \ ops /\ slot[at].state = "reading" /\ slot[at].task = t
      /\ UNCHANGED <<config, first, feeding, current, active_ops, interrupted, ops, printed>>
  BY <1>1, <1>2, <1>3 DEF Rejected
<1>5. Hash!HashTypes /\ Hash!StepSound /\ Hash!TaskSound(t)
  BY DEF Hash!OrderInv
<1>6. /\ task[t] \in Hash!TaskRecords /\ slot[at] \in Hash!SlotRecords
      /\ task[t].size \in Nat /\ task[t].read_offset \in Nat
      /\ slot[at].offset \in Nat /\ slot[at].bytes \in Nat
      /\ slot[at].offset + slot[at].bytes = task[t].read_offset
  BY <1>4, <1>5, RecordTypes DEF Hash!StepSound
<1>7. /\ r.size = task[t].size /\ r.read_offset = slot[at].offset
      /\ r.reads_done = task[t].reads_done /\ r.hashed = task[t].hashed /\ r.done = task[t].done
  BY <1>2, <1>6 DEF Hash!TaskRecords
<1>8. p.state = "free" /\ p.task = NoTask
  BY <1>3, <1>6 DEF Hash!SlotRecords
<1>9. Hash!TaskSound(t)'
  <2>1. slot[at].offset <= task[t].read_offset
    BY <1>6
  <2>2. /\ slot[at].offset <= task[t].size
        /\ ~task[t].reads_done /\ task[t].size > 0 => slot[at].offset < task[t].size
        /\ ~task[t].reads_done /\ task[t].size <= config.chunk => slot[at].offset = 0
    BY <1>5, <1>6, <2>1 DEF Hash!TaskSound
  <2> QED BY <1>4, <1>5, <1>7, <2>2 DEF TaskTo, Hash!TaskSound
<1>10. /\ Hash!Tasks' = Hash!Tasks /\ Hash!Slots' = Hash!Slots /\ \A u \in Hash!Tasks : task'[u].size = task[u].size
       /\ \A u \in Hash!Tasks' : Hash!TaskSound(u)'
  BY <1>4, <1>7, <1>9, OtherTasks
<1>11. \A s : s = at => Hash!SlotSound(s)'
  BY <1>4, <1>8 DEF SlotTo, Hash!SlotSound
<1>12. \A s \in Hash!Slots' : Hash!SlotSound(s)'
  <2>1. \A s \in Hash!Slots \ {at} : Hash!SlotSound(s)'
    BY <1>4, <1>10, SlotKept DEF Hash!OrderInv, SlotTo
  <2> QED BY <1>4, <1>10, <1>11, <2>1
<1>13. Hash!HashTypes'
  BY <1>4, <1>5, <1>10 DEF Hash!HashTypes, Hash!parse_args, TaskTo, SlotTo
<1>14. Hash!StepSound'
  <2>1. first' => \A s \in Hash!Slots' : s >= at' => slot'[s].state = "free"
    <3>1. \A s \in Hash!Slots : s >= at + 1 => s > at /\ s # at
      BY <1>5, ConfigFacts DEF Hash!HashTypes
    <3> QED BY <1>4, <1>5, <1>10, <3>1 DEF Hash!StepSound, SlotTo
  <2> QED BY <1>4, <2>1 DEF Hash!StepSound, Hash!Submitting
<1> QED BY <1>10, <1>12, <1>13, <1>14 DEF Hash!OrderInv

\* The state that the callbacks find: they run for slots other than the one
\* whose read is being submitted.
LEMMA PollingFinds ==
  ASSUME Hash!HashConstants, Hash!OrderInv, Hash!Polling, NEW s \in ops
  PROVE  /\ s \in Hash!Slots /\ slot[s].state = "reading" /\ slot[s].task \in Hash!Tasks
         /\ slot[s].bytes > 0 /\ (Hash!Submitting => at \in Hash!Slots /\ s # at)
BY DEF Hash!OrderInv, Hash!HashTypes, Hash!SlotSound, Hash!StepSound

\* A read has failed.
Failed(s, t) ==
  /\ Hash!Polling /\ s \in ops /\ slot[s].task = t /\ slot[s].state = "reading"
  /\ SlotTo(s, [slot[s] EXCEPT !.state = "free", !.task = NoTask])
  /\ TaskTo(t, [task[t] EXCEPT !.active = @ - 1])
  /\ ops' = ops \ {s} /\ active_ops' = active_ops - 1
  /\ error' \in BOOLEAN /\ (error => error')
  /\ UNCHANGED <<config, pc, first, at, feeding, current, interrupted, printed>>

LEMMA FailedEffect ==
  ASSUME Hash!HashConstants, Hash!OrderInv, Hash!ReadFails
  PROVE  \E s \in Hash!Slots, t \in Hash!Tasks : /\ Failed(s, t)
                                                 /\ (\A n \in config.read_errors : n < 0) => error'
<1>1. PICK s \in ops, res \in config.read_errors :
        /\ Hash!Polling
        /\ error' = (error \/ res < 0)
        /\ slot' = [slot EXCEPT ![s].state = "free", ![s].task = NoTask]
        /\ active_ops' = active_ops - 1
        /\ task' = [task EXCEPT ![slot[s].task].active = @ - 1]
        /\ ops' = ops \ {s}
        /\ UNCHANGED <<config, pc, first, at, feeding, current, interrupted, printed>>
  BY DEF Hash!ReadFails
<1>2. PICK t : t = slot[s].task
  OBVIOUS
<1>3. Hash!HashTypes
  BY DEF Hash!OrderInv
<1>4. s \in Hash!Slots /\ slot[s].state = "reading" /\ t \in Hash!Tasks
  BY <1>1, <1>2, PollingFinds
<1>5. task[t] \in Hash!TaskRecords /\ task[t].active \in Int /\ slot[s] \in Hash!SlotRecords
  BY <1>3, <1>4, RecordTypes
<1> DEFINE r == [task[t] EXCEPT !.active = @ - 1]
           p == [slot[s] EXCEPT !.state = "free", !.task = NoTask]
<1>6. r \in Hash!TaskRecords /\ p \in Hash!SlotRecords
  <2>1. r \in Hash!TaskRecords
    <3>1. PICK m \in Int : m = task[t].active - 1
      BY <1>5
    <3>2. [task[t] EXCEPT !.active = m] \in Hash!TaskRecords
      BY <1>5 DEF Hash!TaskRecords
    <3> QED BY <3>1, <3>2
  <2>2. p \in Hash!SlotRecords
    BY <1>5 DEF Hash!SlotRecords
  <2> QED BY <2>1, <2>2
<1>7. task' = [task EXCEPT ![t] = r]
  <2>1. task \in Seq(Hash!TaskRecords) /\ t \in DOMAIN task
    BY <1>3, <1>4, RecordTypes DEF Hash!HashTypes
  <2>2. task' = [task EXCEPT ![t].active = @ - 1]
    BY <1>1, <1>2
  <2> QED BY <2>1, <2>2
<1>8. slot' = [slot EXCEPT ![s] = p]
  BY <1>1, <1>3, <1>4 DEF Hash!HashTypes
<1>9. TaskTo(t, r)
  <2> HIDE DEF r
  <2> QED BY <1>3, <1>4, <1>6, <1>7, TaskMoves DEF TaskTo
<1>10. SlotTo(s, p)
  <2> HIDE DEF p
  <2> QED BY <1>3, <1>4, <1>6, <1>8, SlotMoves DEF SlotTo
<1>11. error' \in BOOLEAN /\ (error => error')
  BY <1>1
<1>12. Failed(s, t)
  BY <1>1, <1>2, <1>4, <1>9, <1>10, <1>11 DEF Failed
<1>13. (\A n \in config.read_errors : n < 0) => error'
  BY <1>1
<1> QED BY <1>4, <1>12, <1>13

LEMMA FailedKeeps ==
  ASSUME Hash!HashConstants, Hash!OrderInv, Hash!ReadFails
  PROVE  Hash!OrderInv'
<1>1. PICK s \in Hash!Slots, t \in Hash!Tasks : Failed(s, t)
  BY FailedEffect
<1>2. PICK r : r = [task[t] EXCEPT !.active = @ - 1]
  OBVIOUS
<1>3. PICK p : p = [slot[s] EXCEPT !.state = "free", !.task = NoTask]
  OBVIOUS
<1>4. /\ TaskTo(t, r) /\ SlotTo(s, p) /\ Hash!Polling /\ s \in ops /\ ops' = ops \ {s}
      /\ active_ops' = active_ops - 1 /\ error' \in BOOLEAN
      /\ UNCHANGED <<config, pc, first, at, feeding, current, interrupted, printed>>
  BY <1>1, <1>2, <1>3 DEF Failed
<1>5. Hash!HashTypes /\ Hash!StepSound /\ Hash!TaskSound(t)
  BY DEF Hash!OrderInv
<1>6. task[t] \in Hash!TaskRecords /\ slot[s] \in Hash!SlotRecords
  BY <1>5, RecordTypes
<1>7. /\ r.size = task[t].size /\ r.read_offset = task[t].read_offset
      /\ r.reads_done = task[t].reads_done /\ r.hashed = task[t].hashed /\ r.done = task[t].done
  BY <1>2, <1>6 DEF Hash!TaskRecords
<1>8. p.state = "free" /\ p.task = NoTask
  BY <1>3, <1>6 DEF Hash!SlotRecords
<1>9. Hash!TaskSound(t)'
  BY <1>4, <1>5, <1>7 DEF TaskTo, Hash!TaskSound
<1>10. /\ Hash!Tasks' = Hash!Tasks /\ Hash!Slots' = Hash!Slots /\ \A u \in Hash!Tasks : task'[u].size = task[u].size
       /\ \A u \in Hash!Tasks' : Hash!TaskSound(u)'
  BY <1>4, <1>7, <1>9, OtherTasks
<1>11. Hash!SlotSound(s)'
  BY <1>4, <1>8 DEF SlotTo, Hash!SlotSound
<1>12. \A u \in Hash!Slots' : Hash!SlotSound(u)'
  BY <1>4, <1>10, <1>11, OtherSlots
<1>13. Hash!HashTypes'
  BY <1>4, <1>5, <1>10 DEF Hash!HashTypes, Hash!parse_args, TaskTo, SlotTo
<1>14. Hash!StepSound'
  <2>1. /\ slot'[s].state = "free" /\ \A u \in Hash!Slots \ {s} : slot'[u] = slot[u]
        /\ \A u \in Hash!Tasks : task'[u].read_offset = task[u].read_offset
    BY <1>4, <1>7, <1>8 DEF SlotTo, TaskTo
  <2>2. Hash!Submitting => at \in Hash!Slots /\ s # at /\ slot[at].task \in Hash!Tasks
    BY <1>4, <1>5, PollingFinds DEF Hash!OrderInv, Hash!SlotSound, Hash!StepSound
  <2>3. feeding = NoTask
    BY <1>4 DEF Hash!Polling
  <2> QED BY <1>4, <1>5, <1>10, <2>1, <2>2, <2>3 DEF Hash!StepSound, Hash!Submitting
<1> QED BY <1>10, <1>12, <1>13, <1>14 DEF Hash!OrderInv

\* A read has arrived, of n bytes.
Arrived(s, n) ==
  /\ Hash!Polling /\ s \in ops /\ slot[s].state = "reading" /\ slot[s].task \in Hash!Tasks
  /\ n > 0 /\ (~ShortReads => n = slot[s].bytes)
  /\ SlotTo(s, [slot[s] EXCEPT !.state = "done", !.bytes = n])
  /\ feeding' = slot[s].task /\ ops' = ops \ {s}
  /\ UNCHANGED <<config, pc, first, at, task, current, active_ops, error, interrupted, printed>>

LEMMA ArrivedEffect ==
  ASSUME Hash!HashConstants, Hash!OrderInv, Hash!ReadArrives
  PROVE  \E s \in Hash!Slots, n \in Nat : Arrived(s, n)
<1>0. PICK s \in ops :
        /\ Hash!Polling
        /\ \E n \in Hash!ReadSizes(s) :
              slot' = [slot EXCEPT ![s].state = "done", ![s].bytes = n]
        /\ feeding' = slot[s].task
        /\ ops' = ops \ {s}
        /\ UNCHANGED <<config, pc, first, at, task, current, active_ops, error, interrupted, printed>>
  BY DEF Hash!ReadArrives
<1>1. PICK n \in Hash!ReadSizes(s) :
        /\ Hash!Polling
        /\ slot' = [slot EXCEPT ![s].state = "done", ![s].bytes = n]
        /\ feeding' = slot[s].task
        /\ ops' = ops \ {s}
        /\ UNCHANGED <<config, pc, first, at, task, current, active_ops, error, interrupted, printed>>
  BY <1>0
<1>2. Hash!HashTypes
  BY DEF Hash!OrderInv
<1>3. s \in Hash!Slots /\ slot[s].state = "reading" /\ slot[s].task \in Hash!Tasks /\ slot[s].bytes > 0
  BY <1>1, PollingFinds
<1>4. slot[s] \in Hash!SlotRecords /\ slot[s].bytes \in Nat
  BY <1>2, <1>3, RecordTypes
<1>5. n \in Nat /\ n > 0 /\ (~ShortReads => n = slot[s].bytes)
  BY <1>3, <1>4 DEF Hash!ReadSizes
<1> DEFINE p == [slot[s] EXCEPT !.state = "done", !.bytes = n]
<1>6. p \in Hash!SlotRecords
  BY <1>4, <1>5 DEF Hash!SlotRecords
<1>7. slot' = [slot EXCEPT ![s] = p]
  BY <1>1, <1>2, <1>3 DEF Hash!HashTypes
<1>8. SlotTo(s, p)
  <2> HIDE DEF p
  <2> QED BY <1>2, <1>3, <1>6, <1>7, SlotMoves DEF SlotTo
<1>9. Arrived(s, n)
  BY <1>1, <1>3, <1>5, <1>8 DEF Arrived
<1> QED BY <1>3, <1>5, <1>9

LEMMA ArrivedKeeps ==
  ASSUME Hash!HashConstants, Hash!OrderInv, Hash!ReadArrives
  PROVE  Hash!OrderInv'
<1>1. PICK s \in Hash!Slots, n \in Nat : Arrived(s, n)
  BY ArrivedEffect
<1>2. PICK p : p = [slot[s] EXCEPT !.state = "done", !.bytes = n]
  OBVIOUS
<1>3. /\ SlotTo(s, p) /\ Hash!Polling /\ s \in ops /\ ops' = ops \ {s} /\ feeding' = slot[s].task
      /\ slot[s].task \in Hash!Tasks /\ slot[s].state = "reading" /\ n > 0
      /\ UNCHANGED <<config, pc, first, at, task, current, active_ops, error, interrupted, printed>>
  BY <1>1, <1>2 DEF Arrived
<1>4. Hash!HashTypes /\ Hash!StepSound /\ Hash!SlotSound(s)
  BY DEF Hash!OrderInv
<1>5. slot[s] \in Hash!SlotRecords
  BY <1>4, RecordTypes
<1>6. p.state = "done" /\ p.task = slot[s].task /\ p.offset = slot[s].offset /\ p.bytes = n
  BY <1>2, <1>5 DEF Hash!SlotRecords
<1>7. Hash!Tasks' = Hash!Tasks /\ Hash!Slots' = Hash!Slots /\ \A u \in Hash!Tasks : task'[u] = task[u]
  BY <1>3 DEF Hash!Tasks, Hash!Slots
<1>8. \A u \in Hash!Tasks' : Hash!TaskSound(u)'
  BY <1>3, <1>7, TaskKept DEF Hash!OrderInv
<1>9. Hash!SlotSound(s)'
  BY <1>3, <1>4, <1>6, <1>7 DEF SlotTo, Hash!SlotSound
<1>10. \A u \in Hash!Slots' : Hash!SlotSound(u)'
  BY <1>3, <1>7, <1>9, OtherSlots
<1>11. Hash!HashTypes'
  BY <1>3, <1>4, <1>7 DEF Hash!HashTypes, Hash!parse_args, SlotTo
<1>12. Hash!StepSound'
  <2>1. slot'[s] = p /\ \A u \in Hash!Slots \ {s} : slot'[u] = slot[u]
    BY <1>3 DEF SlotTo
  <2>2. Hash!Submitting => at \in Hash!Slots /\ s # at
    BY <1>3, PollingFinds
  <2>3. pc \in {"wait", "drain", "draining"}
    BY <1>3 DEF Hash!Polling
  <2>4. first /\ Hash!Submitting => \A u \in Hash!Slots : u > at => u # s
    BY <1>3, <1>4 DEF Hash!StepSound
  <2> QED BY <1>3, <1>4, <1>6, <1>7, <2>1, <2>2, <2>3, <2>4 DEF Hash!StepSound, Hash!Submitting
<1> QED BY <1>8, <1>10, <1>11, <1>12 DEF Hash!OrderInv

\* The digest after a chunk that starts where it ends.
LEMMA Extended ==
  ASSUME NEW h \in Seq(Nat), NEW off \in Nat, NEW n \in Nat, off = Len(h),
         \A i \in DOMAIN h : h[i] = i - 1
  PROVE  LET g == h \o [i \in 1 .. n |-> off + i - 1]
         IN  /\ g \in Seq(Nat) /\ Len(g) = off + n
             /\ \A i \in DOMAIN g : g[i] = i - 1
<1>1. PICK b : b = [i \in 1 .. n |-> off + i - 1]
  OBVIOUS
<1>2. b \in Seq(Nat) /\ Len(b) = n /\ \A i \in 1 .. n : b[i] = off + i - 1
  <2>1. \A i \in 1 .. n : off + i - 1 \in Nat
    OBVIOUS
  <2>2. b \in [1 .. n -> Nat] /\ \A i \in 1 .. n : b[i] = off + i - 1
    BY <1>1, <2>1
  <2> QED BY <2>2
<1>3. PICK g : g = h \o b
  OBVIOUS
<1>4. /\ g \in Seq(Nat) /\ Len(g) = off + n
      /\ \A i \in 1 .. Len(g) : g[i] = IF i <= Len(h) THEN h[i] ELSE b[i - Len(h)]
  <2>1. /\ h \o b \in Seq(Nat) /\ Len(h \o b) = Len(h) + Len(b)
        /\ \A i \in 1 .. Len(h) + Len(b) : (h \o b)[i] = IF i <= Len(h) THEN h[i] ELSE b[i - Len(h)]
    BY <1>2, ConcatProperties
  <2> QED BY <1>2, <1>3, <2>1
<1>5. ASSUME NEW i \in 1 .. Len(g) PROVE g[i] = i - 1
  <2>1. CASE i <= Len(h)
    <3>1. i \in DOMAIN h
      BY <1>4, <2>1
    <3> QED BY <1>4, <2>1, <3>1
  <2>2. CASE ~(i <= Len(h))
    <3>1. i - Len(h) \in 1 .. n /\ off + (i - Len(h)) - 1 = i - 1
      BY <1>4, <2>2
    <3>2. g[i] = b[i - Len(h)]
      BY <1>4, <2>2
    <3> QED BY <1>2, <3>1, <3>2
  <2> QED BY <2>1, <2>2
<1>6. DOMAIN g = 1 .. Len(g)
  BY <1>4
<1> QED BY <1>1, <1>3, <1>4, <1>5, <1>6

\* drain_completed has fed slot s; h is what the digest of t was fed so far.
Fed(s, t, h) ==
  /\ feeding = t /\ slot[s].state = "done" /\ slot[s].task = t
  /\ slot[s].offset = Len(task[t].hashed)
  /\ h \in Seq(Nat) /\ Len(h) = slot[s].offset + slot[s].bytes
  /\ \A i \in DOMAIN h : h[i] = i - 1
  /\ SlotTo(s, [slot[s] EXCEPT !.state = "free", !.task = NoTask])
  /\ TaskTo(t, [task[t] EXCEPT !.hashed = h, !.active = @ - 1])
  /\ active_ops' \in Int
  /\ UNCHANGED <<config, pc, first, at, feeding, current, error, interrupted, ops, printed>>

LEMMA FedEffect ==
  ASSUME Hash!HashConstants, Hash!OrderInv, Hash!FeedChunk
  PROVE  \E s \in Hash!Slots, t \in Hash!Tasks, h \in Seq(Nat) : Fed(s, t, h)
<1>1. PICK t : t = feeding
  OBVIOUS
<1>2. PICK s \in Hash!Feedable(t) :
        /\ task' = [task EXCEPT ![t].hashed = @ \o Hash!Bytes(s), ![t].active = @ - 1]
        /\ slot' = [slot EXCEPT ![s].state = "free", ![s].task = NoTask]
        /\ active_ops' = Hash!Retired(active_ops)
  BY <1>1 DEF Hash!FeedChunk
<1>3. /\ t # NoTask
      /\ UNCHANGED <<config, pc, first, at, feeding, current, error, interrupted, ops, printed>>
  BY <1>1 DEF Hash!FeedChunk
<1>4. Hash!HashTypes
  BY DEF Hash!OrderInv
<1>5. /\ s \in Hash!Slots /\ slot[s].state = "done" /\ slot[s].task = t
      /\ slot[s].offset = Len(task[t].hashed)
  BY <1>2 DEF Hash!Feedable
<1>6. t \in Hash!Tasks /\ active_ops \in Int
  BY <1>1, <1>3, <1>4 DEF Hash!HashTypes
<1>7. /\ task[t] \in Hash!TaskRecords /\ task[t].hashed \in Seq(Nat) /\ task[t].active \in Int
      /\ slot[s] \in Hash!SlotRecords /\ slot[s].offset \in Nat /\ slot[s].bytes \in Nat
  BY <1>4, <1>5, <1>6, RecordTypes
<1>8. PICK h : h = task[t].hashed \o Hash!Bytes(s)
  OBVIOUS
<1>9. h \in Seq(Nat) /\ Len(h) = slot[s].offset + slot[s].bytes /\ \A i \in DOMAIN h : h[i] = i - 1
  <2>1. \A i \in DOMAIN task[t].hashed : task[t].hashed[i] = i - 1
    BY <1>6 DEF Hash!OrderInv, Hash!TaskSound
  <2> QED BY <1>5, <1>7, <1>8, <2>1, Extended DEF Hash!Bytes
<1> DEFINE r == [task[t] EXCEPT !.hashed = h, !.active = @ - 1]
           p == [slot[s] EXCEPT !.state = "free", !.task = NoTask]
<1>10. r \in Hash!TaskRecords
  <2>1. PICK m \in Int : m = task[t].active - 1
    BY <1>7
  <2>2. [task[t] EXCEPT !.hashed = h, !.active = m] \in Hash!TaskRecords
    BY <1>7, <1>9 DEF Hash!TaskRecords
  <2> QED BY <2>1, <2>2
<1>11. p \in Hash!SlotRecords
  BY <1>7 DEF Hash!SlotRecords
<1>12. task' = [task EXCEPT ![t] = r]
  <2>1. task \in Seq(Hash!TaskRecords) /\ t \in DOMAIN task
    BY <1>4, <1>6, RecordTypes DEF Hash!HashTypes
  <2> QED BY <1>2, <1>8, <2>1
<1>13. slot' = [slot EXCEPT ![s] = p]
  BY <1>2, <1>4, <1>5 DEF Hash!HashTypes
<1>14. TaskTo(t, r)
  <2> HIDE DEF r
  <2> QED BY <1>4, <1>6, <1>10, <1>12, TaskMoves DEF TaskTo
<1>15. SlotTo(s, p)
  <2> HIDE DEF p
  <2> QED BY <1>4, <1>5, <1>11, <1>13, SlotMoves DEF SlotTo
<1>16. active_ops' \in Int
  BY <1>2, <1>6 DEF Hash!Retired
<1>17. Fed(s, t, h)
  BY <1>1, <1>3, <1>5, <1>9, <1>14, <1>15, <1>16 DEF Fed
<1> QED BY <1>5, <1>6, <1>9, <1>17

LEMMA FedKeeps ==
  ASSUME Hash!HashConstants, Hash!OrderInv, Hash!FeedChunk
  PROVE  Hash!OrderInv'
<1>1. PICK s \in Hash!Slots, t \in Hash!Tasks, h \in Seq(Nat) : Fed(s, t, h)
  BY FedEffect
<1>2. PICK r : r = [task[t] EXCEPT !.hashed = h, !.active = @ - 1]
  OBVIOUS
<1>3. PICK p : p = [slot[s] EXCEPT !.state = "free", !.task = NoTask]
  OBVIOUS
<1>4. /\ TaskTo(t, r) /\ SlotTo(s, p) /\ feeding = t /\ active_ops' \in Int
      /\ slot[s].state = "done" /\ slot[s].task = t
      /\ UNCHANGED <<config, pc, first, at, feeding, current, error, interrupted, ops, printed>>
  BY <1>1, <1>2, <1>3 DEF Fed
<1>5. Hash!HashTypes /\ Hash!StepSound /\ Hash!TaskSound(t) /\ Hash!SlotSound(s)
  BY DEF Hash!OrderInv
<1>6. task[t] \in Hash!TaskRecords /\ slot[s] \in Hash!SlotRecords /\ slot[s].offset \in Nat /\ slot[s].bytes \in Nat
  BY <1>5, RecordTypes
<1>7. /\ r.size = task[t].size /\ r.read_offset = task[t].read_offset
      /\ r.reads_done = task[t].reads_done /\ r.hashed = h /\ r.done = task[t].done
  BY <1>2, <1>6 DEF Hash!TaskRecords
<1>8. p.state = "free" /\ p.task = NoTask
  BY <1>3, <1>6 DEF Hash!SlotRecords
<1>9. /\ \A i \in DOMAIN h : h[i] = i - 1
      /\ h # <<>>
  <2>1. Len(h) = slot[s].offset + slot[s].bytes /\ slot[s].bytes > 0 /\ \A i \in DOMAIN h : h[i] = i - 1
    BY <1>1, <1>4, <1>5 DEF Fed, Hash!SlotSound
  <2>2. Len(h) > 0
    BY <1>6, <2>1
  <2> QED BY <2>1, <2>2
<1>10. Hash!TaskSound(t)'
  BY <1>4, <1>5, <1>7, <1>9 DEF TaskTo, Hash!TaskSound
<1>11. /\ Hash!Tasks' = Hash!Tasks /\ Hash!Slots' = Hash!Slots /\ \A u \in Hash!Tasks : task'[u].size = task[u].size
       /\ \A u \in Hash!Tasks' : Hash!TaskSound(u)'
  BY <1>4, <1>7, <1>10, OtherTasks
<1>12. s \notin ops
  BY <1>4, <1>5 DEF Hash!SlotSound
<1>13. Hash!SlotSound(s)'
  BY <1>4, <1>8, <1>12 DEF SlotTo, Hash!SlotSound
<1>14. \A u \in Hash!Slots' : Hash!SlotSound(u)'
  BY <1>4, <1>11, <1>13, OtherSlots
<1>15. Hash!HashTypes'
  BY <1>4, <1>5, <1>11 DEF Hash!HashTypes, Hash!parse_args, TaskTo, SlotTo
<1>16. Hash!StepSound'
  <2>1. /\ slot'[s].state = "free" /\ \A u \in Hash!Slots \ {s} : slot'[u] = slot[u]
        /\ \A u \in Hash!Tasks : task'[u].read_offset = task[u].read_offset
    BY <1>4, <1>7, <1>8 DEF SlotTo, TaskTo
  <2>2. Hash!Submitting => at \in Hash!Slots /\ s # at /\ slot[at].task \in Hash!Tasks
    BY <1>4, <1>5 DEF Hash!OrderInv, Hash!SlotSound, Hash!StepSound
  <2>3. feeding' = feeding /\ task'[feeding].hashed # <<>>
    BY <1>4, <1>7, <1>9 DEF TaskTo
  <2> QED BY <1>4, <1>5, <1>11, <2>1, <2>2, <2>3 DEF Hash!StepSound, Hash!Submitting
<1> QED BY <1>11, <1>14, <1>15, <1>16 DEF Hash!OrderInv

\* drain_completed returns; the file was complete, or nothing changes.
Ended(t) ==
  /\ feeding = t /\ feeding' = NoTask
  /\ \/ /\ Hash!FullyHashed(t)
        /\ TaskTo(t, [task[t] EXCEPT !.open = FALSE, !.done = TRUE])
        /\ printed' = [printed EXCEPT ![t] = @ \cup {task[t].hashed}]
     \/ UNCHANGED <<task, printed>>
  /\ UNCHANGED <<config, pc, first, at, current, slot, active_ops, error, interrupted, ops>>

LEMMA EndedEffect ==
  ASSUME Hash!HashConstants, Hash!OrderInv, Hash!FeedEnds
  PROVE  \E t \in Hash!Tasks : Ended(t)
<1>1. PICK t : t = feeding
  OBVIOUS
<1>2. Hash!HashTypes
  BY DEF Hash!OrderInv
<1>3. /\ t # NoTask /\ feeding' = NoTask
      /\ UNCHANGED <<config, pc, first, at, current, slot, active_ops, error, interrupted, ops>>
  BY <1>1 DEF Hash!FeedEnds
<1>4. t \in Hash!Tasks
  BY <1>1, <1>2, <1>3 DEF Hash!HashTypes
<1>5. task[t] \in Hash!TaskRecords
  BY <1>2, <1>4, RecordTypes
<1>6. CASE ~Hash!FullyHashed(t)
  <2>1. UNCHANGED <<task, printed>>
    BY <1>1, <1>6 DEF Hash!FeedEnds
  <2> QED BY <1>1, <1>3, <1>4, <2>1 DEF Ended
<1>7. CASE Hash!FullyHashed(t)
  <2> DEFINE r == [task[t] EXCEPT !.open = FALSE, !.done = TRUE]
  <2>1. /\ printed' = [printed EXCEPT ![t] = @ \cup {task[t].hashed}]
        /\ task' = [task EXCEPT ![t].open = FALSE, ![t].done = TRUE]
    BY <1>1, <1>7 DEF Hash!FeedEnds, Hash!finalize_task
  <2>2. r \in Hash!TaskRecords
    BY <1>5 DEF Hash!TaskRecords
  <2>3. task' = [task EXCEPT ![t] = r]
    <3>1. task \in Seq(Hash!TaskRecords) /\ t \in DOMAIN task
      BY <1>2, <1>4, RecordTypes DEF Hash!HashTypes
    <3> QED BY <2>1, <3>1
  <2>4. TaskTo(t, r)
    <3> HIDE DEF r
    <3> QED BY <1>2, <1>4, <2>2, <2>3, TaskMoves DEF TaskTo
  <2> QED BY <1>1, <1>3, <1>4, <1>7, <2>1, <2>4 DEF Ended
<1> QED BY <1>6, <1>7

LEMMA EndedKeeps ==
  ASSUME Hash!HashConstants, Hash!OrderInv, Hash!FeedEnds
  PROVE  Hash!OrderInv'
<1>1. PICK t \in Hash!Tasks : Ended(t)
  BY EndedEffect
<1>2. /\ feeding = t /\ feeding' = NoTask
      /\ UNCHANGED <<config, pc, first, at, current, slot, active_ops, error, interrupted, ops>>
  BY <1>1 DEF Ended
<1>3. Hash!HashTypes /\ Hash!StepSound /\ Hash!TaskSound(t)
  BY DEF Hash!OrderInv
<1>4. CASE UNCHANGED <<task, printed>>
  <2>1. Hash!StepSound'
    BY <1>2, <1>3, <1>4 DEF Hash!StepSound, Hash!Submitting, Hash!Slots
  <2>2. /\ pc \in {"setup", "fill", "reading", "draining", "wait", "drain", "exited"}
        /\ first \in BOOLEAN /\ error \in BOOLEAN /\ interrupted \in BOOLEAN
        /\ at \in Nat \ {0} /\ current \in Nat /\ active_ops \in Int
    BY <1>3 DEF Hash!HashTypes
  <2> QED BY <1>2, <1>4, <2>1, <2>2, OnlyControl
<1>5. CASE ~(UNCHANGED <<task, printed>>)
  <2>1. PICK r : r = [task[t] EXCEPT !.open = FALSE, !.done = TRUE]
    OBVIOUS
  <2>2. /\ Hash!FullyHashed(t) /\ TaskTo(t, r)
        /\ printed' = [printed EXCEPT ![t] = @ \cup {task[t].hashed}]
    BY <1>1, <1>5, <2>1 DEF Ended
  <2>3. task[t] \in Hash!TaskRecords /\ task[t].hashed \in Seq(Nat)
    BY <1>3, RecordTypes
  <2>4. /\ r.size = task[t].size /\ r.read_offset = task[t].read_offset
        /\ r.reads_done = task[t].reads_done /\ r.hashed = task[t].hashed /\ r.done
    BY <2>1, <2>3 DEF Hash!TaskRecords
  <2>5. printed[t] = {} /\ printed \in [Hash!Tasks -> SUBSET Seq(Nat)]
    BY <1>3, <2>2 DEF Hash!FullyHashed, Hash!TaskSound, Hash!HashTypes
  <2>6. /\ printed' \in [Hash!Tasks -> SUBSET Seq(Nat)] /\ printed'[t] = {task[t].hashed}
        /\ \A u \in Hash!Tasks \ {t} : printed'[u] = printed[u]
    BY <2>2, <2>3, <2>5
  <2>7. Hash!TaskSound(t)'
    BY <1>2, <1>3, <2>2, <2>4, <2>6 DEF TaskTo, Hash!TaskSound
  <2>8. /\ Hash!Tasks' = Hash!Tasks /\ Hash!Slots' = Hash!Slots /\ \A u \in Hash!Tasks : task'[u].size = task[u].size
        /\ \A u \in Hash!Tasks' : Hash!TaskSound(u)'
    BY <1>2, <2>2, <2>4, <2>6, <2>7, OtherTasks
  <2>9. \A u \in Hash!Slots' : Hash!SlotSound(u)'
    BY <1>2, <2>8, SlotKept DEF Hash!OrderInv
  <2>10. Hash!HashTypes'
    BY <1>2, <1>3, <2>2, <2>6, <2>8 DEF Hash!HashTypes, Hash!parse_args, TaskTo
  <2>11. Hash!StepSound'
    <3>1. \A u \in Hash!Tasks : task'[u].read_offset = task[u].read_offset
      BY <2>2, <2>4 DEF TaskTo
    <3>2. Hash!Submitting => at \in Hash!Slots /\ slot[at].task \in Hash!Tasks
      BY <1>3 DEF Hash!OrderInv, Hash!SlotSound, Hash!StepSound
    <3> QED BY <1>2, <1>3, <2>8, <3>1, <3>2 DEF Hash!StepSound, Hash!Submitting
  <2> QED BY <2>8, <2>9, <2>10, <2>11 DEF Hash!OrderInv
<1> QED BY <1>4, <1>5

\* Division with remainder, by a worker count.
LEMMA DivFacts ==
  ASSUME NEW a \in Nat, NEW n \in Nat \ {0}
  PROVE  /\ a \div n \in Nat
         /\ a = (n * (a \div n)) + (a % n)
OBVIOUS

LEMMA MulLess ==
  ASSUME NEW q \in Nat, NEW m \in Nat, NEW n \in Nat \ {0}, n * q < m * n
  PROVE  q < m
OBVIOUS

\* A set of which each element has a number of its own below m has at most m.
LEMMA Numbered ==
  ASSUME NEW K, IsFiniteSet(K), NEW m \in Nat, NEW f \in [K -> 0 .. m - 1],
         \A k, l \in K : f[k] = f[l] => k = l
  PROVE  Cardinality(K) <= m
<1>1. IsFiniteSet(0 .. m - 1) /\ Cardinality(0 .. m - 1) = m
  <2>1. m - 1 \in Int /\ 0 \in Int /\ (IF 0 > m - 1 THEN 0 ELSE m - 1 - 0 + 1) = m
    OBVIOUS
  <2> QED BY <2>1, FS_Interval
<1>2. PICK T : T = 0 .. m - 1
  OBVIOUS
<1>3. f \in [K -> T] /\ IsFiniteSet(T) /\ Cardinality(T) \in Nat /\ Cardinality(K) \in Nat
  BY <1>1, <1>2, FS_CardinalityType
<1>4. ~(Cardinality(T) < Cardinality(K))
  BY <1>3, FS_PigeonHole
<1> QED BY <1>1, <1>2, <1>3, <1>4

\* The files dealt to a worker are files of the list.
LEMMA ShareIs ==
  ASSUME NEW files \in Seq(Nat), NEW n \in Nat \ {0}, NEW w \in 0 .. n - 1
  PROVE  /\ Hash!Share(files, n, w) \in Seq(Nat)
         /\ \A i \in DOMAIN Hash!Share(files, n, w) :
              \E j \in DOMAIN files : Hash!Share(files, n, w)[i] = files[j]
<1> DEFINE K == {k \in DOMAIN files : (k - 1) % n = w}
           c == Cardinality(K)
<1>1. Len(files) \in Nat /\ DOMAIN files = 1 .. Len(files) /\ \A j \in DOMAIN files : files[j] \in Nat
  OBVIOUS
<1>2. IsFiniteSet(K) /\ c \in Nat
  <2>1. IsFiniteSet(1 .. Len(files)) /\ K \subseteq 1 .. Len(files)
    BY <1>1, FS_Interval
  <2> HIDE DEF K
  <2> QED BY <2>1, FS_Subset, FS_CardinalityType
<1>3. ASSUME NEW i \in 1 .. c PROVE (i - 1) * n + w + 1 \in 1 .. Len(files)
  <2>1. i \in Nat \ {0} /\ i <= c /\ w \in Nat
    BY <1>2
  <2> HIDE DEF c
  <2>2. PICK m \in Nat : m = i - 1
    BY <2>1
  <2>3. PICK z \in Nat : z = m * n /\ (i - 1) * n = z
    BY <2>2
  <2>9. CASE z + w + 1 <= Len(files)
    <3>1. z + w + 1 \in 1 .. Len(files)
      BY <1>1, <2>1, <2>9
    <3> QED BY <2>3, <3>1
  <2> SUFFICES ASSUME z + w + 1 > Len(files) PROVE FALSE
    BY <1>1, <2>1, <2>9
  <2> DEFINE f == [k \in K |-> (k - 1) \div n]
  <2>4. ASSUME NEW k \in K
        PROVE  f[k] \in 0 .. m - 1 /\ f[k] \in Nat /\ k - 1 = (n * f[k]) + w
    <3>1. k \in Nat \ {0} /\ k <= Len(files) /\ (k - 1) % n = w
      BY <1>1
    <3>2. PICK a \in Nat : a = k - 1
      BY <3>1
    <3>3. a % n = w /\ f[k] = a \div n /\ a < z + w
      BY <1>1, <2>1, <3>1, <3>2
    <3>4. a \div n \in Nat /\ a = (n * (a \div n)) + (a % n)
      BY DivFacts
    <3>5. PICK q \in Nat : q = a \div n
      BY <3>4
    <3>6. PICK y \in Nat : y = n * q
      OBVIOUS
    <3>7. a = y + w
      BY <3>3, <3>4, <3>5, <3>6
    <3>8. n * q < m * n
      BY <2>1, <2>3, <3>3, <3>6, <3>7
    <3>9. q < m
      BY <3>8, MulLess
    <3>10. f[k] = q
      BY <3>3, <3>5
    <3> HIDE DEF f
    <3> QED BY <3>2, <3>6, <3>7, <3>9, <3>10
  <2>5. f \in [K -> 0 .. m - 1]
    BY <2>4
  <2>6. \A k, l \in K : f[k] = f[l] => k = l
    <3> SUFFICES ASSUME NEW k \in K, NEW l \in K, f[k] = f[l] PROVE k = l
      OBVIOUS
    <3>1. k \in Nat /\ l \in Nat
      <4>1. k \in DOMAIN files /\ l \in DOMAIN files
        OBVIOUS
      <4> HIDE DEF K, f
      <4> QED BY <1>1, <4>1
    <3> HIDE DEF f
    <3>2. PICK x : x = n * f[k] + w
      OBVIOUS
    <3>3. k - 1 = x /\ l - 1 = x
      BY <2>4, <3>2
    <3> QED BY <3>1, <3>3
  <2> HIDE DEF f, K
  <2>7. Cardinality(K) <= m
    BY <1>2, <2>5, <2>6, Numbered
  <2>8. c <= m
    BY <2>7 DEF c
  <2> QED BY <1>2, <2>1, <2>2, <2>8
<1>4. Hash!Share(files, n, w) = [i \in 1 .. c |-> files[(i - 1) * n + w + 1]]
  BY HashCardinality DEF Hash!Share
<1> HIDE DEF c
<1>5. \A i \in 1 .. c : files[(i - 1) * n + w + 1] \in Nat
  BY <1>1, <1>3
<1>6. Hash!Share(files, n, w) \in [1 .. c -> Nat]
  BY <1>4, <1>5
<1>7. Hash!Share(files, n, w) \in Seq(Nat) /\ DOMAIN Hash!Share(files, n, w) = 1 .. c
  BY <1>2, <1>6
<1>8. ASSUME NEW i \in 1 .. c
      PROVE  \E j \in DOMAIN files : Hash!Share(files, n, w)[i] = files[j]
  <2>1. Hash!Share(files, n, w)[i] = files[(i - 1) * n + w + 1]
    BY <1>4
  <2> QED BY <1>1, <1>3, <2>1
<1> QED BY <1>7, <1>8

\* What a worker starts with.
LEMMA StartIs ==
  ASSUME Hash!HashConstants, Hash!Init
  PROVE  /\ config \in Scenarios /\ Hash!parse_args(config)
         /\ config.depth \in Nat \ {0} /\ config.chunk \in Nat \ {0} /\ config.limit \in Nat
         /\ task \in Seq(Hash!TaskRecords)
         /\ \A t \in Hash!Tasks :
              \E i \in DOMAIN Hash!build_task_list(config) :
                task[t] = Hash!add_file_task(Hash!build_task_list(config)[i])
<1>1. /\ config \in Scenarios /\ Hash!parse_args(config)
      /\ config.depth \in Nat \ {0} /\ config.chunk \in Nat \ {0} /\ config.limit \in Nat
      /\ config.cpus \in Nat \ {0} /\ Hash!build_task_list(config) \in Seq(Nat)
  BY DEF Hash!HashConstants, Hash!Init, Hash!parse_args
<1>2. PICK files \in Seq(Nat) : files = Hash!build_task_list(config)
  BY <1>1
<1>3. CASE files = <<>>
  <2>1. task = <<>>
    BY <1>2, <1>3 DEF Hash!Init
  <2> QED BY <1>1, <2>1 DEF Hash!Tasks
<1>4. CASE files # <<>>
  <2>1. Len(files) \in Nat \ {0}
    BY <1>4
  <2>2. PICK n \in Nat \ {0} : n = Hash!NumWorkers(config, files)
    BY <1>1, <2>1 DEF Hash!NumWorkers
  <2>3. PICK w \in 0 .. n - 1 :
           task = [i \in DOMAIN Hash!Share(files, n, w) |-> Hash!add_file_task(Hash!Share(files, n, w)[i])]
    BY <1>2, <1>4, <2>2 DEF Hash!Init
  <2>4. PICK sh \in Seq(Nat) : /\ sh = Hash!Share(files, n, w)
                               /\ \A i \in DOMAIN sh : \E j \in DOMAIN files : sh[i] = files[j]
    BY ShareIs
  <2>5. task = [i \in DOMAIN sh |-> Hash!add_file_task(sh[i])]
    BY <2>3, <2>4
  <2>6. Len(sh) \in Nat /\ DOMAIN sh = 1 .. Len(sh) /\ \A i \in DOMAIN sh : sh[i] \in Nat
    OBVIOUS
  <2>7. \A k \in Nat : Hash!add_file_task(k) \in Hash!TaskRecords
    BY DEF Hash!add_file_task, Hash!TaskRecords
  <2>8. task \in [1 .. Len(sh) -> Hash!TaskRecords]
    BY <2>5, <2>6, <2>7
  <2>9. task \in Seq(Hash!TaskRecords) /\ Hash!Tasks = 1 .. Len(sh)
    BY <2>6, <2>8 DEF Hash!Tasks
  <2>10. ASSUME NEW t \in Hash!Tasks
         PROVE  \E i \in DOMAIN files : task[t] = Hash!add_file_task(files[i])
    <3>1. PICK j \in DOMAIN files : sh[t] = files[j]
      BY <2>4, <2>6, <2>9
    <3>2. task[t] = Hash!add_file_task(sh[t])
      BY <2>5, <2>6, <2>9
    <3> QED BY <3>1, <3>2
  <2> QED BY <1>1, <1>2, <2>9, <2>10
<1> QED BY <1>3, <1>4

LEMMA OrderInit ==
  ASSUME Hash!HashConstants, Hash!Init
  PROVE  Hash!OrderInv
<1>1. /\ config \in Scenarios /\ Hash!parse_args(config)
      /\ config.depth \in Nat \ {0} /\ config.chunk \in Nat \ {0}
      /\ task \in Seq(Hash!TaskRecords)
  BY StartIs
<1>2. ASSUME NEW t \in Hash!Tasks PROVE \E k \in Nat : task[t] = Hash!add_file_task(k)
  <2>1. PICK i \in DOMAIN Hash!build_task_list(config) : task[t] = Hash!add_file_task(Hash!build_task_list(config)[i])
    BY StartIs
  <2>2. Hash!build_task_list(config) \in Seq(Nat)
    BY <1>1 DEF Hash!HashConstants
  <2>3. Hash!build_task_list(config)[i] \in Nat
    BY <2>2
  <2> QED BY <2>1, <2>3
<1>3. \A s \in Hash!Slots : slot[s] = Hash!FreeSlot
  BY DEF Hash!Init
<1>4. Hash!FreeSlot \in Hash!SlotRecords
  BY DEF Hash!FreeSlot, Hash!SlotRecords
<1>5. Hash!HashTypes
  <2>1. slot \in [Hash!Slots -> Hash!SlotRecords]
    BY <1>4 DEF Hash!Init
  <2>2. pc \in {"setup", "exited"}
    BY DEF Hash!Init
  <2>3. printed \in [Hash!Tasks -> SUBSET Seq(Nat)]
    BY DEF Hash!Init
  <2>4. feeding \in Hash!Tasks \cup {NoTask} /\ ops \subseteq Hash!Slots
    BY DEF Hash!Init
  <2>5. first \in BOOLEAN /\ error \in BOOLEAN /\ interrupted \in BOOLEAN
    BY DEF Hash!Init
  <2>6. at \in Nat \ {0} /\ current \in Nat /\ active_ops \in Int
    BY DEF Hash!Init
  <2> QED BY <1>1, <2>1, <2>2, <2>3, <2>4, <2>5, <2>6 DEF Hash!HashTypes
<1>6. \A s \in Hash!Slots : Hash!SlotSound(s)
  BY <1>3 DEF Hash!SlotSound, Hash!FreeSlot, Hash!Init
<1>7. ASSUME NEW t \in Hash!Tasks PROVE Hash!TaskSound(t)
  <2>1. PICK k \in Nat : task[t] = Hash!add_file_task(k)
    BY <1>2
  <2>2. /\ task[t].size = k /\ task[t].read_offset = 0 /\ task[t].hashed = <<>>
        /\ task[t].reads_done = FALSE
    BY <2>1 DEF Hash!add_file_task
  <2>3. printed[t] = {}
    BY DEF Hash!Init
  <2> QED BY <2>2, <2>3 DEF Hash!TaskSound
<1>8. Hash!StepSound
  <2>1. pc \in {"setup", "exited"} /\ first = TRUE /\ at = 1 /\ feeding = NoTask
    BY DEF Hash!Init
  <2>2. \A s \in Hash!Slots : slot[s].state = "free"
    BY <1>3 DEF Hash!FreeSlot
  <2> QED BY <2>1, <2>2 DEF Hash!StepSound, Hash!Submitting
<1> QED BY <1>5, <1>6, <1>7, <1>8 DEF Hash!OrderInv

LEMMA OrderKept ==
  ASSUME Hash!HashConstants, Hash!OrderInv, [Hash!Next]_(Hash!vars)
  PROVE  Hash!OrderInv'
<1>1. CASE UNCHANGED Hash!vars
  <2>1. Hash!Tasks' = Hash!Tasks /\ Hash!Slots' = Hash!Slots
    BY <1>1 DEF Hash!Tasks, Hash!Slots, Hash!vars
  <2>2. Hash!HashTypes' /\ Hash!StepSound'
    BY <1>1, <2>1 DEF Hash!vars, Hash!OrderInv, Hash!HashTypes, Hash!StepSound, Hash!Submitting, Hash!parse_args
  <2>3. \A s \in Hash!Slots' : Hash!SlotSound(s)'
    BY <1>1, <2>1 DEF Hash!vars, Hash!OrderInv, Hash!SlotSound
  <2>4. \A t \in Hash!Tasks' : Hash!TaskSound(t)'
    BY <1>1, <2>1 DEF Hash!vars, Hash!OrderInv, Hash!TaskSound
  <2> QED BY <2>2, <2>3, <2>4 DEF Hash!OrderInv
<1>2. CASE Hash!Setup \/ Hash!sigint_handler \/ Hash!FillPassed \/ Hash!LoopHead \/ Hash!WaitReturns \/ Hash!Exit
  BY <1>2, ControlKeeps
<1>3. CASE Hash!OpenFails \/ Hash!SubmitEmpty
  BY <1>3, SkipKeeps
<1>4. CASE Hash!ReadBegins
  BY <1>4, BeginsKeeps
<1>5. CASE Hash!ReadSubmitted
  BY <1>5, SubmittedKeeps
<1>6. CASE Hash!ReadRejected
  BY <1>6, RejectedKeeps
<1>7. CASE Hash!ReadFails
  BY <1>7, FailedKeeps
<1>8. CASE Hash!ReadArrives
  BY <1>8, ArrivedKeeps
<1>9. CASE Hash!FeedChunk
  BY <1>9, FedKeeps
<1>10. CASE Hash!FeedEnds
  BY <1>10, EndedKeeps
<1> QED BY <1>1, <1>2, <1>3, <1>4, <1>5, <1>6, <1>7, <1>8, <1>9, <1>10 DEF Hash!Next, Hash!Main, Hash!Callback

\* A set whose elements are all equal has at most one.
LEMMA AtMostOne ==
  ASSUME NEW S, \A x, y \in S : x = y
  PROVE  Cardinality(S) <= 1
<1>1. CASE S = {}
  BY <1>1, FS_EmptySet
<1>2. CASE S # {}
  <2>1. PICK x : x \in S
    BY <1>2
  <2>2. S = {x}
    BY <2>1
  <2> QED BY <2>2, FS_Singleton
<1> QED BY <1>1, <1>2

(***************************************************************************)
(* aura-hash feeds each digest the bytes of its file in order and without  *)
(* a gap, and prints at most one digest of it: for any command line and    *)
(* any order the reads complete in, short reads and failures included.     *)
(***************************************************************************)
THEOREM HashesInOrder ==
  ASSUME Hash!HashConstants
  PROVE  Hash!Spec => []Hash!FedInOrder
<1>1. Hash!Init => Hash!OrderInv
  BY OrderInit
<1>2. Hash!OrderInv /\ [Hash!Next]_(Hash!vars) => Hash!OrderInv'
  BY OrderKept
<1>3. Hash!OrderInv => Hash!FedInOrder
  <2> SUFFICES ASSUME Hash!OrderInv, NEW t \in Hash!Tasks
               PROVE  /\ \A i \in DOMAIN task[t].hashed : task[t].hashed[i] = i - 1
                      /\ Cardinality(printed[t]) <= 1
    BY HashCardinality DEF Hash!FedInOrder
  <2>1. /\ \A i \in DOMAIN task[t].hashed : task[t].hashed[i] = i - 1
        /\ \A x, y \in printed[t] : x = y
    BY DEF Hash!OrderInv, Hash!TaskSound
  <2>2. Cardinality(printed[t]) <= 1
    BY <2>1, AtMostOne
  <2> QED BY <2>1, <2>2
<1> QED BY <1>1, <1>2, <1>3, PTL DEF Hash!Spec

-----------------------------------------------------------------------------
\* The bytes of a task are left alone: its slots, and what it has been fed.
LEMMA TiledSame ==
  ASSUME NEW u, Hash!Tiled(u), UNCHANGED config,
         /\ task'[u].size = task[u].size /\ task'[u].read_offset = task[u].read_offset
         /\ task'[u].hashed = task[u].hashed /\ task'[u].active = task[u].active,
         task'[u].reads_done /\ ~task'[u].done => task[u].reads_done /\ ~task[u].done,
         printed'[u] = printed[u],
         \A s \in Hash!Slots : /\ slot'[s].task = u <=> slot[s].task = u
                               /\ slot[s].task = u =>
                                    /\ slot'[s].offset = slot[s].offset /\ slot'[s].bytes = slot[s].bytes
                                    /\ (Hash!Submitting' /\ s = at') <=> (Hash!Submitting /\ s = at)
  PROVE  Hash!Tiled(u)'
<1>1. Hash!Slots' = Hash!Slots
  BY DEF Hash!Slots
<1>2. Hash!Holding(u)' = Hash!Holding(u)
  BY <1>1 DEF Hash!Holding
<1>3. Hash!Counted(u)' = Hash!Counted(u)
  BY <1>2 DEF Hash!Holding, Hash!Counted
<1>4. \A s \in Hash!Holding(u) : slot'[s].offset = slot[s].offset /\ slot'[s].bytes = slot[s].bytes
  BY DEF Hash!Holding
<1>5. /\ Len(task'[u].hashed) <= task'[u].read_offset
      /\ \A s \in Hash!Holding(u)' : /\ Len(task'[u].hashed) <= slot'[s].offset
                                     /\ slot'[s].offset + slot'[s].bytes <= task'[u].read_offset
  BY <1>2, <1>4 DEF Hash!Tiled
<1>6. \A s, v \in Hash!Holding(u)' : s # v =>
         \/ slot'[s].offset + slot'[s].bytes <= slot'[v].offset
         \/ slot'[v].offset + slot'[v].bytes <= slot'[s].offset
  BY <1>2, <1>4 DEF Hash!Tiled
<1>7. \A k \in Len(task'[u].hashed) .. task'[u].read_offset - 1 :
         \E s \in Hash!Holding(u)' : slot'[s].offset <= k /\ k < slot'[s].offset + slot'[s].bytes
  BY <1>2, <1>4 DEF Hash!Tiled
<1>8. /\ task'[u].active = Cardinality(Hash!Counted(u)')
      /\ task'[u].reads_done /\ ~task'[u].done => task'[u].read_offset = task'[u].size
      /\ printed'[u] # {} => printed'[u] = {[i \in 1..task'[u].size |-> i - 1]}
  BY <1>3, HashCardinality DEF Hash!Tiled
<1> QED BY <1>5, <1>6, <1>7, <1>8, HashCardinality DEF Hash!Tiled

\* A digest that was fed n bytes in order.
LEMMA WholeDigest ==
  ASSUME NEW h \in Seq(Nat), NEW n \in Nat, Len(h) = n, \A i \in DOMAIN h : h[i] = i - 1
  PROVE  h = [i \in 1 .. n |-> i - 1]
<1>1. DOMAIN h = 1 .. n /\ h = [i \in DOMAIN h |-> h[i]]
  OBVIOUS
<1> QED BY <1>1

\* The slots of a task are among the slots, and their number is finite.
LEMMA CountedFinite ==
  ASSUME Hash!HashConstants, Hash!OrderInv, NEW t
  PROVE  /\ Hash!Counted(t) \subseteq Hash!Holding(t) /\ Hash!Holding(t) \subseteq Hash!Slots
         /\ IsFiniteSet(Hash!Counted(t)) /\ Cardinality(Hash!Counted(t)) \in Nat
<1>1. config.depth \in Nat /\ Hash!Slots = 1 .. config.depth
  BY ConfigFacts DEF Hash!OrderInv
<1>2. IsFiniteSet(Hash!Slots)
  BY <1>1, FS_Interval
<1>3. Hash!Counted(t) \subseteq Hash!Holding(t) /\ Hash!Holding(t) \subseteq Hash!Slots
  BY DEF Hash!Counted, Hash!Holding
<1> QED BY <1>2, <1>3, FS_Subset, FS_CardinalityType

LEMMA ControlTiles ==
  ASSUME Hash!HashConstants, Hash!OrderInv, \A u \in Hash!Tasks : Hash!Tiled(u),
         Hash!Setup \/ Hash!sigint_handler \/ Hash!FillPassed \/ Hash!LoopHead \/ Hash!WaitReturns \/ Hash!Exit
  PROVE  \A u \in Hash!Tasks : Hash!Tiled(u)'
<1>1. UNCHANGED <<config, task, slot, printed>>
  BY DEF Hash!Setup, Hash!sigint_handler, Hash!FillPassed, Hash!LoopHead, Hash!WaitReturns, Hash!Exit
<1>2. (UNCHANGED <<pc, at>>) \/ (~Hash!Submitting /\ ~Hash!Submitting')
  BY DEF Hash!Setup, Hash!sigint_handler, Hash!FillPassed, Hash!LoopHead, Hash!WaitReturns, Hash!Exit, Hash!Submitting
<1>3. \A n : (Hash!Submitting' /\ n = at') <=> (Hash!Submitting /\ n = at)
  BY <1>2 DEF Hash!Submitting
<1> QED BY <1>1, <1>3, TiledSame

LEMMA SkipTiles ==
  ASSUME Hash!HashConstants, Hash!OrderInv, \A u \in Hash!Tasks : Hash!Tiled(u), Hash!OpenFails \/ Hash!SubmitEmpty
  PROVE  \A u \in Hash!Tasks : Hash!Tiled(u)'
<1>0. PICK t : t = Hash!NextTask
  OBVIOUS
<1> DEFINE r == [task[t] EXCEPT !.reads_done = TRUE, !.done = TRUE]
<1>1. /\ t # NoTask /\ Hash!Filling
      /\ task' = [task EXCEPT ![t].reads_done = TRUE, ![t].done = TRUE]
      /\ UNCHANGED <<config, pc, at, slot>>
      /\ \/ printed' = printed
         \/ task[t].size = 0 /\ printed' = [printed EXCEPT ![t] = @ \cup {task[t].hashed}]
  BY <1>0 DEF Hash!OpenFails, Hash!SubmitEmpty, Hash!finalize_task
<1>2. Hash!HashTypes
  BY DEF Hash!OrderInv
<1>3. /\ t \in Hash!Tasks /\ ~task[t].done /\ task[t] \in Hash!TaskRecords
      /\ task[t].hashed \in Seq(Nat) /\ task[t].size \in Nat /\ task[t].read_offset \in Nat
  BY <1>0, <1>1, <1>2, NextTaskIs, RecordTypes
<1>4. /\ r \in Hash!TaskRecords /\ r.size = task[t].size /\ r.read_offset = task[t].read_offset
      /\ r.hashed = task[t].hashed /\ r.active = task[t].active /\ r.done
  BY <1>3 DEF Hash!TaskRecords
<1>5. task' = [task EXCEPT ![t] = r]
  <2>1. task \in Seq(Hash!TaskRecords) /\ t \in DOMAIN task
    BY <1>2, <1>3, RecordTypes DEF Hash!HashTypes
  <2> QED BY <1>1, <2>1
<1> HIDE DEF r
<1>6. task'[t] = r /\ \A u \in Hash!Tasks \ {t} : task'[u] = task[u]
  BY <1>2, <1>3, <1>4, <1>5, TaskMoves
<1>7. \A u \in Hash!Tasks \ {t} : printed'[u] = printed[u]
  BY <1>1, <1>2, <1>3 DEF Hash!HashTypes
<1>8. \A n : (Hash!Submitting' /\ n = at') <=> (Hash!Submitting /\ n = at)
  BY <1>1 DEF Hash!Submitting
<1>9. \A u \in Hash!Tasks \ {t} : Hash!Tiled(u)'
  BY <1>1, <1>6, <1>7, <1>8, TiledSame
<1>10. CASE printed' = printed
  <2>1. Hash!Tiled(t)'
    BY <1>1, <1>3, <1>4, <1>6, <1>8, <1>10, TiledSame
  <2> QED BY <1>9, <2>1
<1>11. CASE task[t].size = 0 /\ printed' = [printed EXCEPT ![t] = @ \cup {task[t].hashed}]
  <2>1. printed[t] = {} /\ task[t].read_offset <= task[t].size /\ Hash!Tiled(t)
        /\ \A i \in DOMAIN task[t].hashed : task[t].hashed[i] = i - 1
    BY <1>3 DEF Hash!OrderInv, Hash!TaskSound
  <2>2. Len(task[t].hashed) <= task[t].read_offset
    BY <2>1 DEF Hash!Tiled
  <2>3. Len(task[t].hashed) = task[t].size
    BY <1>3, <1>11, <2>1, <2>2
  <2>4. task[t].hashed = [i \in 1 .. task[t].size |-> i - 1]
    BY <1>3, <2>1, <2>3, WholeDigest
  <2>5. printed'[t] = {task[t].hashed}
    BY <1>2, <1>3, <1>11, <2>1 DEF Hash!HashTypes
  <2>6. Hash!Slots' = Hash!Slots /\ Hash!Holding(t)' = Hash!Holding(t) /\ Hash!Counted(t)' = Hash!Counted(t)
    BY <1>1, <1>8 DEF Hash!Slots, Hash!Holding, Hash!Counted
  <2>7. printed'[t] = {[i \in 1 .. task'[t].size |-> i - 1]}
    BY <1>4, <1>6, <2>4, <2>5
  <2>8. Hash!Tiled(t)'
    BY <1>1, <1>4, <1>6, <2>1, <2>6, <2>7 DEF Hash!Tiled
  <2> QED BY <1>9, <2>8
<1> QED BY <1>1, <1>10, <1>11

LEMMA BeginsTiles ==
  ASSUME Hash!HashConstants, Hash!OrderInv, \A u \in Hash!Tasks : Hash!Tiled(u), Hash!ReadBegins
  PROVE  \A u \in Hash!Tasks : Hash!Tiled(u)'
<1>1. PICK t \in Hash!Tasks, n \in Nat \ {0} : Begun(t, n)
  BY BeginsEffect
<1>2. PICK r : r = [task[t] EXCEPT !.open = TRUE, !.read_offset = @ + n,
                                   !.reads_done = task[t].read_offset + n >= task[t].size]
  OBVIOUS
<1>3. PICK p : p = [state |-> "reading", task |-> t, offset |-> task[t].read_offset, bytes |-> n]
  OBVIOUS
<1>4. /\ SlotTo(at, p) /\ TaskTo(t, r) /\ pc = "fill" /\ pc' \in {"reading", "draining"}
      /\ slot[at].state = "free" /\ UNCHANGED <<config, at, printed>> /\ at \in Hash!Slots
      /\ task[t].read_offset + n <= task[t].size
  BY <1>1, <1>2, <1>3 DEF Begun
<1>5. Hash!HashTypes /\ Hash!Tiled(t) /\ slot[at].task = NoTask /\ NoTask \notin Hash!Tasks
  BY <1>4, RecordTypes DEF Hash!OrderInv, Hash!SlotSound
<1>6. /\ task[t] \in Hash!TaskRecords /\ task[t].size \in Nat /\ task[t].read_offset \in Nat
      /\ task[t].hashed \in Seq(Nat) /\ Len(task[t].hashed) \in Nat
      /\ \A s \in Hash!Slots : slot[s].offset \in Nat /\ slot[s].bytes \in Nat
  BY <1>5, RecordTypes
<1>7. /\ r.size = task[t].size /\ r.read_offset = task[t].read_offset + n
      /\ r.reads_done = (task[t].read_offset + n >= task[t].size)
      /\ r.hashed = task[t].hashed /\ r.done = task[t].done /\ r.active = task[t].active
  BY <1>2, <1>6 DEF Hash!TaskRecords
<1>8. p.task = t /\ p.offset = task[t].read_offset /\ p.bytes = n
  BY <1>3
<1>9. ~Hash!Submitting /\ Hash!Submitting'
  BY <1>4 DEF Hash!Submitting
<1>10. slot'[at] = p /\ task'[t] = r /\ (\A s \in Hash!Slots \ {at} : slot'[s] = slot[s])
       /\ \A u \in Hash!Tasks \ {t} : task'[u] = task[u]
  BY <1>4 DEF SlotTo, TaskTo
<1>11. ASSUME NEW u \in Hash!Tasks \ {t} PROVE Hash!Tiled(u)'
  <2>1. slot'[at].task # u /\ slot[at].task # u
    BY <1>5, <1>8, <1>10
  <2>2. \A s \in Hash!Slots : slot[s].task = u \/ slot'[s].task = u => s # at
    BY <2>1
  <2> QED BY <1>4, <1>9, <1>10, <2>1, <2>2, TiledSame
<1>12. Hash!Slots' = Hash!Slots /\ Hash!Holding(t)' = Hash!Holding(t) \cup {at} /\ at \notin Hash!Holding(t)
       /\ Hash!Counted(t)' = Hash!Counted(t)
  <2>1. Hash!Slots' = Hash!Slots
    BY <1>4 DEF Hash!Slots
  <2>2. Hash!Holding(t)' = Hash!Holding(t) \cup {at} /\ at \notin Hash!Holding(t)
    BY <1>4, <1>5, <1>8, <1>10, <2>1 DEF Hash!Holding
  <2>3. Hash!Counted(t)' = Hash!Counted(t)
    BY <1>4, <1>9, <2>2 DEF Hash!Counted
  <2> QED BY <2>1, <2>2, <2>3
<1>13. \A s \in Hash!Holding(t) : s \in Hash!Slots /\ s # at /\ slot'[s] = slot[s]
  BY <1>10, <1>12 DEF Hash!Holding
<1>14. PICK o \in Nat, l \in Nat : o = task[t].read_offset /\ l = Len(task[t].hashed)
  BY <1>6
<1>15. /\ l <= o
       /\ \A s \in Hash!Holding(t) : l <= slot[s].offset /\ slot[s].offset + slot[s].bytes <= o
  BY <1>5, <1>14 DEF Hash!Tiled
<1>16. /\ slot'[at].offset = o /\ slot'[at].bytes = n
       /\ task'[t].read_offset = o + n /\ task'[t].hashed = task[t].hashed /\ task'[t].size = task[t].size
  BY <1>7, <1>8, <1>10, <1>14
<1>17. /\ l <= o + n
       /\ \A s \in Hash!Holding(t)' : l <= slot'[s].offset /\ slot'[s].offset + slot'[s].bytes <= o + n
  <2>1. \A s \in Hash!Holding(t) : l <= slot'[s].offset /\ slot'[s].offset + slot'[s].bytes <= o + n
    BY <1>6, <1>13, <1>15
  <2> QED BY <1>12, <1>15, <1>16, <2>1
<1>18. \A s, v \in Hash!Holding(t)' : s # v =>
         \/ slot'[s].offset + slot'[s].bytes <= slot'[v].offset
         \/ slot'[v].offset + slot'[v].bytes <= slot'[s].offset
  <2>1. \A s, v \in Hash!Holding(t) : s # v =>
         \/ slot'[s].offset + slot'[s].bytes <= slot'[v].offset
         \/ slot'[v].offset + slot'[v].bytes <= slot'[s].offset
    BY <1>5, <1>13 DEF Hash!Tiled
  <2>2. \A s \in Hash!Holding(t) : slot'[s].offset + slot'[s].bytes <= slot'[at].offset
    BY <1>13, <1>15, <1>16
  <2> QED BY <1>12, <2>1, <2>2
<1>19. \A k \in l .. o + n - 1 :
         \E s \in Hash!Holding(t)' : slot'[s].offset <= k /\ k < slot'[s].offset + slot'[s].bytes
  <2> SUFFICES ASSUME NEW k \in l .. o + n - 1
               PROVE  \E s \in Hash!Holding(t)' : slot'[s].offset <= k /\ k < slot'[s].offset + slot'[s].bytes
    OBVIOUS
  <2>1. CASE k < o
    <3>1. k \in l .. o - 1
      BY <2>1
    <3>2. PICK s \in Hash!Holding(t) : slot[s].offset <= k /\ k < slot[s].offset + slot[s].bytes
      BY <1>5, <1>14, <3>1 DEF Hash!Tiled
    <3> QED BY <1>12, <1>13, <3>2
  <2>2. CASE ~(k < o)
    <3>1. o <= k /\ k < o + n
      BY <2>2
    <3> QED BY <1>12, <1>16, <3>1
  <2> QED BY <2>1, <2>2
<1>20. task'[t].reads_done /\ ~task'[t].done => o + n = task[t].size
  <2>1. task'[t].reads_done => o + n >= task[t].size
    BY <1>7, <1>10, <1>14
  <2>2. PICK z \in Nat : z = task[t].size
    BY <1>6
  <2>3. o + n <= z
    BY <1>4, <1>14, <2>2
  <2>4. o + n >= z => o + n = z
    BY <2>3
  <2> QED BY <2>1, <2>2, <2>4
<1>21. /\ task'[t].active = Cardinality(Hash!Counted(t)')
       /\ printed'[t] # {} => printed'[t] = {[i \in 1..task'[t].size |-> i - 1]}
  BY <1>4, <1>5, <1>7, <1>10, <1>12, HashCardinality DEF Hash!Tiled
<1>22. Hash!Tiled(t)'
  BY <1>14, <1>16, <1>17, <1>18, <1>19, <1>20, <1>21, HashCardinality DEF Hash!Tiled
<1> QED BY <1>11, <1>22

LEMMA SubmittedTiles ==
  ASSUME Hash!HashConstants, Hash!OrderInv, \A u \in Hash!Tasks : Hash!Tiled(u), Hash!ReadSubmitted
  PROVE  \A u \in Hash!Tasks : Hash!Tiled(u)'
<1>1. PICK t \in Hash!Tasks : Submitted(t)
  BY SubmittedEffect
<1>2. PICK r : r = [task[t] EXCEPT !.active = @ + 1]
  OBVIOUS
<1>3. /\ TaskTo(t, r) /\ Hash!Submitting /\ pc' = "fill" /\ at \in Hash!Slots /\ slot[at].task = t
      /\ UNCHANGED <<config, slot, printed>>
  BY <1>1, <1>2 DEF Submitted
<1>4. task[t] \in Hash!TaskRecords /\ task[t].active \in Int
  BY RecordTypes DEF Hash!OrderInv
<1>5. /\ r.size = task[t].size /\ r.read_offset = task[t].read_offset /\ r.active = task[t].active + 1
      /\ r.reads_done = task[t].reads_done /\ r.hashed = task[t].hashed /\ r.done = task[t].done
  BY <1>2, <1>4 DEF Hash!TaskRecords
<1>6. ~Hash!Submitting'
  BY <1>3 DEF Hash!Submitting
<1>7. task'[t] = r /\ \A u \in Hash!Tasks \ {t} : task'[u] = task[u]
  BY <1>3 DEF TaskTo
<1>8. ASSUME NEW u \in Hash!Tasks \ {t} PROVE Hash!Tiled(u)'
  <2>1. \A s \in Hash!Slots : slot[s].task = u => s # at
    BY <1>3
  <2> QED BY <1>3, <1>6, <1>7, <2>1, TiledSame
<1>9. Hash!Holding(t)' = Hash!Holding(t) /\ Hash!Counted(t)' = Hash!Counted(t) \cup {at} /\ at \notin Hash!Counted(t)
  <2>1. Hash!Slots' = Hash!Slots
    BY <1>3 DEF Hash!Slots
  <2> QED BY <1>3, <1>6, <2>1 DEF Hash!Holding, Hash!Counted
<1>10. Cardinality(Hash!Counted(t)') = Cardinality(Hash!Counted(t)) + 1
  <2>1. IsFiniteSet(Hash!Counted(t))
    BY CountedFinite
  <2> QED BY <1>9, <2>1, FS_AddElement
<1>11. Hash!Tiled(t)
  OBVIOUS
<1>12. task'[t].active = Cardinality(Hash!Counted(t)')
  BY <1>5, <1>7, <1>10, <1>11, HashCardinality DEF Hash!Tiled
<1>13. Hash!Tiled(t)'
  BY <1>3, <1>5, <1>7, <1>9, <1>11, <1>12, HashCardinality DEF Hash!Tiled
<1> QED BY <1>8, <1>13

LEMMA ArrivedTiles ==
  ASSUME Hash!HashConstants, Hash!OrderInv, ~ShortReads, \A u \in Hash!Tasks : Hash!Tiled(u), Hash!ReadArrives
  PROVE  \A u \in Hash!Tasks : Hash!Tiled(u)'
<1>1. PICK s \in Hash!Slots, n \in Nat : Arrived(s, n)
  BY ArrivedEffect
<1>2. PICK p : p = [slot[s] EXCEPT !.state = "done", !.bytes = n]
  OBVIOUS
<1>3. /\ SlotTo(s, p) /\ n = slot[s].bytes /\ UNCHANGED <<config, pc, at, task, printed>>
  BY <1>1, <1>2 DEF Arrived
<1>4. slot[s] \in Hash!SlotRecords
  BY RecordTypes DEF Hash!OrderInv
<1>5. p.task = slot[s].task /\ p.offset = slot[s].offset /\ p.bytes = slot[s].bytes
  BY <1>2, <1>3, <1>4 DEF Hash!SlotRecords
<1>6. \A v \in Hash!Slots : /\ slot'[v].task = slot[v].task /\ slot'[v].offset = slot[v].offset
                            /\ slot'[v].bytes = slot[v].bytes
  BY <1>3, <1>5 DEF SlotTo
<1>7. \A v : (Hash!Submitting' /\ v = at') <=> (Hash!Submitting /\ v = at)
  BY <1>3 DEF Hash!Submitting
<1> QED BY <1>3, <1>6, <1>7, TiledSame

LEMMA FedTiles ==
  ASSUME Hash!HashConstants, Hash!OrderInv, \A u \in Hash!Tasks : Hash!Tiled(u), Hash!FeedChunk
  PROVE  \A u \in Hash!Tasks : Hash!Tiled(u)'
<1>1. PICK s \in Hash!Slots, t \in Hash!Tasks, h \in Seq(Nat) : Fed(s, t, h)
  BY FedEffect
<1>2. PICK r : r = [task[t] EXCEPT !.hashed = h, !.active = @ - 1]
  OBVIOUS
<1>3. PICK p : p = [slot[s] EXCEPT !.state = "free", !.task = NoTask]
  OBVIOUS
<1>4. /\ TaskTo(t, r) /\ SlotTo(s, p) /\ slot[s].state = "done" /\ slot[s].task = t
      /\ slot[s].offset = Len(task[t].hashed) /\ Len(h) = slot[s].offset + slot[s].bytes
      /\ UNCHANGED <<config, pc, at, printed>>
  BY <1>1, <1>2, <1>3 DEF Fed
<1>5. Hash!HashTypes /\ Hash!SlotSound(s) /\ Hash!Tiled(t) /\ NoTask \notin Hash!Tasks
  BY RecordTypes DEF Hash!OrderInv
<1>6. /\ task[t] \in Hash!TaskRecords /\ task[t].active \in Int /\ slot[s] \in Hash!SlotRecords
      /\ \A v \in Hash!Slots : slot[v].offset \in Nat /\ slot[v].bytes \in Nat
      /\ task[t].read_offset \in Nat
  BY <1>5, RecordTypes
<1>7. /\ r.size = task[t].size /\ r.read_offset = task[t].read_offset /\ r.active = task[t].active - 1
      /\ r.reads_done = task[t].reads_done /\ r.hashed = h /\ r.done = task[t].done
  BY <1>2, <1>6 DEF Hash!TaskRecords
<1>8. p.task = NoTask
  BY <1>3, <1>6 DEF Hash!SlotRecords
<1>9. /\ task'[t] = r /\ slot'[s] = p /\ (\A u \in Hash!Tasks \ {t} : task'[u] = task[u])
      /\ \A v \in Hash!Slots \ {s} : slot'[v] = slot[v]
  BY <1>4 DEF TaskTo, SlotTo
<1>10. \A v : (Hash!Submitting' /\ v = at') <=> (Hash!Submitting /\ v = at)
  BY <1>4 DEF Hash!Submitting
<1>11. ~(Hash!Submitting /\ s = at)
  BY <1>4 DEF Hash!OrderInv, Hash!StepSound
<1>12. ASSUME NEW u \in Hash!Tasks \ {t} PROVE Hash!Tiled(u)'
  <2>1. slot'[s].task # u /\ slot[s].task # u
    BY <1>4, <1>5, <1>8, <1>9
  <2> QED BY <1>4, <1>9, <1>10, <2>1, TiledSame
<1>13. /\ Hash!Holding(t)' = Hash!Holding(t) \ {s} /\ s \in Hash!Holding(t)
       /\ Hash!Counted(t)' = Hash!Counted(t) \ {s} /\ s \in Hash!Counted(t)
  <2>1. Hash!Slots' = Hash!Slots
    BY <1>4 DEF Hash!Slots
  <2>2. Hash!Holding(t)' = Hash!Holding(t) \ {s} /\ s \in Hash!Holding(t)
    BY <1>4, <1>5, <1>8, <1>9, <2>1 DEF Hash!Holding
  <2>3. Hash!Counted(t)' = Hash!Counted(t) \ {s} /\ s \in Hash!Counted(t)
    BY <1>10, <1>11, <2>2 DEF Hash!Counted
  <2> QED BY <2>2, <2>3
<1>14. PICK o \in Nat, l \in Nat, m \in Nat :
         o = task[t].read_offset /\ l = slot[s].offset /\ m = slot[s].bytes
  BY <1>6
<1>15. /\ l = Len(task[t].hashed) /\ Len(h) = l + m /\ l + m <= o
       /\ \A v \in Hash!Holding(t) : l <= slot[v].offset /\ slot[v].offset + slot[v].bytes <= o
  BY <1>4, <1>5, <1>13, <1>14 DEF Hash!Tiled
<1>16. \A v \in Hash!Holding(t) \ {s} : v \in Hash!Slots /\ slot'[v] = slot[v] /\ l + m <= slot[v].offset
  <2> SUFFICES ASSUME NEW v \in Hash!Holding(t) \ {s}
               PROVE  v \in Hash!Slots /\ slot'[v] = slot[v] /\ l + m <= slot[v].offset
    OBVIOUS
  <2>1. v \in Hash!Slots /\ slot[v].task = t /\ slot'[v] = slot[v]
    BY <1>9 DEF Hash!Holding
  <2>2. Hash!SlotSound(v) /\ slot[v].task # NoTask
    BY <1>5, <2>1 DEF Hash!OrderInv
  <2>3. slot[v].bytes > 0
    BY <2>2 DEF Hash!SlotSound
  <2>4. l + m <= slot[v].offset \/ slot[v].offset + slot[v].bytes <= l
    BY <1>5, <1>13, <1>14 DEF Hash!Tiled
  <2>5. PICK a \in Nat, b \in Nat : a = slot[v].offset /\ b = slot[v].bytes
    BY <1>6, <2>1
  <2>6. l <= a
    BY <1>15, <2>5
  <2> QED BY <2>1, <2>3, <2>4, <2>5, <2>6
<1>17. \A v, w \in Hash!Holding(t)' : v # w =>
         \/ slot'[v].offset + slot'[v].bytes <= slot'[w].offset
         \/ slot'[w].offset + slot'[w].bytes <= slot'[v].offset
  BY <1>5, <1>13, <1>16 DEF Hash!Tiled
<1>18. \A k \in l + m .. o - 1 :
         \E v \in Hash!Holding(t)' : slot'[v].offset <= k /\ k < slot'[v].offset + slot'[v].bytes
  <2> SUFFICES ASSUME NEW k \in l + m .. o - 1
               PROVE  \E v \in Hash!Holding(t)' : slot'[v].offset <= k /\ k < slot'[v].offset + slot'[v].bytes
    OBVIOUS
  <2>1. k \in l .. o - 1 /\ ~(k < l + m)
    OBVIOUS
  <2>2. PICK v \in Hash!Holding(t) : slot[v].offset <= k /\ k < slot[v].offset + slot[v].bytes
    BY <1>5, <1>14, <1>15, <2>1 DEF Hash!Tiled
  <2>3. v # s
    BY <1>14, <2>1, <2>2
  <2> QED BY <1>13, <1>16, <2>2, <2>3
<1>19. task'[t].active = Cardinality(Hash!Counted(t)')
  <2>1. IsFiniteSet(Hash!Counted(t)) /\ Cardinality(Hash!Counted(t)) \in Nat
    BY CountedFinite
  <2>2. Cardinality(Hash!Counted(t)') = Cardinality(Hash!Counted(t)) - 1
    BY <1>13, <2>1, FS_RemoveElement
  <2>3. task[t].active = Cardinality(Hash!Counted(t))
    BY <1>5, HashCardinality DEF Hash!Tiled
  <2> QED BY <1>7, <1>9, <2>2, <2>3
<1>20. /\ task'[t].reads_done /\ ~task'[t].done => task'[t].read_offset = task'[t].size
       /\ printed'[t] # {} => printed'[t] = {[i \in 1..task'[t].size |-> i - 1]}
  BY <1>4, <1>5, <1>7, <1>9 DEF Hash!Tiled
<1>21. /\ Len(task'[t].hashed) = l + m /\ task'[t].read_offset = o
       /\ \A v \in Hash!Holding(t)' : l + m <= slot'[v].offset /\ slot'[v].offset + slot'[v].bytes <= o
  BY <1>7, <1>9, <1>13, <1>14, <1>15, <1>16
<1>22. Hash!Tiled(t)'
  BY <1>15, <1>17, <1>18, <1>19, <1>20, <1>21, HashCardinality DEF Hash!Tiled
<1> QED BY <1>12, <1>22

\* A task with nothing left to count, when drain_completed returns, was fed all
\* of its file: no slot holds bytes of it.
LEMMA FullyHashedIsWhole ==
  ASSUME Hash!HashConstants, Hash!WholeInv, ~error, NEW t \in Hash!Tasks, feeding = t, Hash!FullyHashed(t)
  PROVE  task[t].hashed = [i \in 1 .. task[t].size |-> i - 1]
<1>1. Hash!OrderInv /\ Hash!HashTypes /\ Hash!StepSound /\ Hash!Tiled(t) /\ NoTask \notin Hash!Tasks
  BY RecordTypes DEF Hash!WholeInv, Hash!OrderInv
<1>2. /\ task[t].hashed \in Seq(Nat) /\ Len(task[t].hashed) \in Nat /\ task[t].size \in Nat
      /\ task[t].active \in Int
  BY <1>1, RecordTypes
<1>3. task[t].read_offset = task[t].size /\ task[t].active = 0 /\ Cardinality(Hash!Counted(t)) = 0
  BY <1>1, HashCardinality DEF Hash!Tiled, Hash!FullyHashed
<1>4. Hash!Counted(t) = {}
  <2>1. IsFiniteSet(Hash!Counted(t))
    BY <1>1, CountedFinite
  <2> QED BY <1>3, <2>1, FS_EmptySet
<1>5. Hash!Holding(t) = {}
  <2> SUFFICES ASSUME NEW s \in Hash!Holding(t) PROVE FALSE
    OBVIOUS
  <2>1. s \in Hash!Slots /\ slot[s].task = t /\ Hash!Submitting /\ s = at
    BY <1>4 DEF Hash!Counted, Hash!Holding
  <2>2. feeding # NoTask
    BY <1>1
  <2>3. pc = "draining"
    BY <1>1, <2>1, <2>2 DEF Hash!StepSound, Hash!Submitting
  <2>4. task[t].size <= config.chunk
    BY <1>1, <2>3 DEF Hash!WholeInv, Hash!StepSound
  <2>5. slot[s].offset = 0
    BY <1>1, <2>1, <2>4 DEF Hash!OrderInv, Hash!SlotSound
  <2>6. Len(task[t].hashed) <= 0
    BY <1>1, <2>5 DEF Hash!Tiled
  <2>7. task[t].hashed = <<>>
    BY <1>2, <2>6
  <2>8. PICK v \in Hash!Slots : slot[v].state = "done" /\ slot[v].task = t
    BY <1>1, <2>2, <2>7 DEF Hash!StepSound
  <2>9. slot[at].state = "reading"
    BY <1>1, <2>1 DEF Hash!StepSound
  <2>10. v \in Hash!Counted(t)
    BY <2>8, <2>9 DEF Hash!Counted, Hash!Holding
  <2> QED BY <1>4, <2>10
<1>6. Len(task[t].hashed) = task[t].size
  <2>1. \A k \in Len(task[t].hashed) .. task[t].size - 1 : FALSE
    BY <1>1, <1>3, <1>5 DEF Hash!Tiled
  <2>2. Len(task[t].hashed) <= task[t].size
    BY <1>1, <1>3 DEF Hash!Tiled
  <2> QED BY <1>2, <2>1, <2>2
<1>7. \A i \in DOMAIN task[t].hashed : task[t].hashed[i] = i - 1
  BY <1>1 DEF Hash!OrderInv, Hash!TaskSound
<1> QED BY <1>2, <1>6, <1>7, WholeDigest

LEMMA EndedTiles ==
  ASSUME Hash!HashConstants, Hash!WholeInv, ~error, Hash!FeedEnds
  PROVE  \A u \in Hash!Tasks : Hash!Tiled(u)'
<1>1. Hash!OrderInv /\ Hash!HashTypes /\ \A u \in Hash!Tasks : Hash!Tiled(u)
  BY DEF Hash!WholeInv, Hash!OrderInv
<1>2. PICK t \in Hash!Tasks : Ended(t)
  BY <1>1, EndedEffect
<1>3. feeding = t /\ UNCHANGED <<config, pc, at, slot>>
  BY <1>2 DEF Ended
<1>4. \A v : (Hash!Submitting' /\ v = at') <=> (Hash!Submitting /\ v = at)
  BY <1>3 DEF Hash!Submitting
<1>5. CASE UNCHANGED <<task, printed>>
  BY <1>1, <1>3, <1>4, <1>5, TiledSame
<1>6. CASE ~UNCHANGED <<task, printed>>
  <2>1. PICK r : r = [task[t] EXCEPT !.open = FALSE, !.done = TRUE]
    OBVIOUS
  <2>2. /\ Hash!FullyHashed(t) /\ TaskTo(t, r)
        /\ printed' = [printed EXCEPT ![t] = @ \cup {task[t].hashed}]
    BY <1>2, <1>6, <2>1 DEF Ended
  <2>3. task[t] \in Hash!TaskRecords /\ printed \in [Hash!Tasks -> SUBSET Seq(Nat)]
    BY <1>1, RecordTypes DEF Hash!HashTypes
  <2>4. /\ r.size = task[t].size /\ r.read_offset = task[t].read_offset /\ r.active = task[t].active
        /\ r.reads_done = task[t].reads_done /\ r.hashed = task[t].hashed /\ r.done
    BY <2>1, <2>3 DEF Hash!TaskRecords
  <2>5. task'[t] = r /\ \A u \in Hash!Tasks \ {t} : task'[u] = task[u]
    BY <2>2 DEF TaskTo
  <2>6. \A u \in Hash!Tasks \ {t} : printed'[u] = printed[u]
    BY <2>2, <2>3
  <2>7. \A u \in Hash!Tasks \ {t} : Hash!Tiled(u)'
    BY <1>1, <1>3, <1>4, <2>5, <2>6, TiledSame
  <2>8. printed[t] = {}
    BY <1>1, <2>2 DEF Hash!OrderInv, Hash!TaskSound, Hash!FullyHashed
  <2>9. printed'[t] = {task[t].hashed}
    BY <2>2, <2>3, <2>8
  <2>10. printed'[t] = {[i \in 1 .. task'[t].size |-> i - 1]}
    BY <1>3, <2>2, <2>4, <2>5, <2>9, FullyHashedIsWhole
  <2>11. Hash!Slots' = Hash!Slots /\ Hash!Holding(t)' = Hash!Holding(t) /\ Hash!Counted(t)' = Hash!Counted(t)
    BY <1>3, <1>4 DEF Hash!Slots, Hash!Holding, Hash!Counted
  <2>12. Hash!Tiled(t)'
    BY <1>1, <1>3, <2>4, <2>5, <2>10, <2>11 DEF Hash!Tiled
  <2> QED BY <2>7, <2>12
<1> QED BY <1>5, <1>6

\* Files keep their sizes, and an error stays.
LEMMA SizesKept ==
  ASSUME Hash!HashConstants, Hash!OrderInv, [Hash!Next]_(Hash!vars)
  PROVE  /\ UNCHANGED config /\ Hash!Tasks' = Hash!Tasks /\ (error => error')
         /\ \A u \in Hash!Tasks : task'[u].size = task[u].size
<1>1. Hash!HashTypes
  BY DEF Hash!OrderInv
<1>2. \A u \in Hash!Tasks : task[u] \in Hash!TaskRecords
  BY <1>1, RecordTypes
<1>3. CASE UNCHANGED task /\ UNCHANGED config /\ (error => error')
  BY <1>3 DEF Hash!Tasks
<1>4. CASE (UNCHANGED Hash!vars) \/ Hash!Setup \/ Hash!sigint_handler \/ Hash!FillPassed \/ Hash!LoopHead \/ Hash!WaitReturns \/ Hash!Exit
  <2>1. UNCHANGED <<task, config>> /\ (error => error')
    BY <1>4 DEF Hash!vars, Hash!Setup, Hash!sigint_handler, Hash!FillPassed, Hash!LoopHead, Hash!WaitReturns, Hash!Exit
  <2> QED BY <1>3, <2>1
<1>5. ASSUME NEW t \in Hash!Tasks, NEW r, TaskTo(t, r), r.size = task[t].size, UNCHANGED config, error => error'
      PROVE  /\ UNCHANGED config /\ Hash!Tasks' = Hash!Tasks /\ (error => error')
             /\ \A u \in Hash!Tasks : task'[u].size = task[u].size
  BY <1>5 DEF TaskTo
<1>6. CASE Hash!OpenFails \/ Hash!SubmitEmpty
  <2>1. PICK t : t = Hash!NextTask
    OBVIOUS
  <2> DEFINE r == [task[t] EXCEPT !.reads_done = TRUE, !.done = TRUE]
  <2>2. /\ t # NoTask /\ task' = [task EXCEPT ![t].reads_done = TRUE, ![t].done = TRUE]
        /\ UNCHANGED <<config, error>>
    BY <1>6, <2>1 DEF Hash!OpenFails, Hash!SubmitEmpty
  <2>3. t \in Hash!Tasks
    BY <1>1, <2>1, <2>2, NextTaskIs
  <2>4. r \in Hash!TaskRecords /\ r.size = task[t].size
    BY <1>2, <2>3 DEF Hash!TaskRecords
  <2>5. task' = [task EXCEPT ![t] = r]
    <3>1. task \in Seq(Hash!TaskRecords) /\ t \in DOMAIN task
      BY <1>1, <2>3, RecordTypes DEF Hash!HashTypes
    <3> QED BY <2>2, <3>1
  <2>6. TaskTo(t, r)
    <3> HIDE DEF r
    <3> QED BY <1>1, <2>3, <2>4, <2>5, TaskMoves DEF TaskTo
  <2> HIDE DEF r
  <2> QED BY <1>5, <2>2, <2>3, <2>4, <2>6
<1>7. CASE Hash!ReadBegins
  <2>1. PICK t \in Hash!Tasks, n \in Nat \ {0} : Begun(t, n)
    BY <1>7, BeginsEffect
  <2>2. PICK r : r = [task[t] EXCEPT !.open = TRUE, !.read_offset = @ + n,
                                     !.reads_done = task[t].read_offset + n >= task[t].size]
    OBVIOUS
  <2>3. TaskTo(t, r) /\ UNCHANGED <<config, error>>
    BY <2>1, <2>2 DEF Begun
  <2>4. r.size = task[t].size
    BY <1>2, <2>2 DEF Hash!TaskRecords
  <2> QED BY <1>5, <2>3, <2>4
<1>8. CASE Hash!ReadSubmitted
  <2>1. PICK t \in Hash!Tasks : Submitted(t)
    BY <1>8, SubmittedEffect
  <2>2. PICK r : r = [task[t] EXCEPT !.active = @ + 1]
    OBVIOUS
  <2>3. TaskTo(t, r) /\ UNCHANGED <<config, error>>
    BY <2>1, <2>2 DEF Submitted
  <2>4. r.size = task[t].size
    BY <1>2, <2>2 DEF Hash!TaskRecords
  <2> QED BY <1>5, <2>3, <2>4
<1>9. CASE Hash!ReadRejected
  <2>1. PICK t \in Hash!Tasks : Rejected(t)
    BY <1>9, RejectedEffect
  <2>2. PICK r : r = [task[t] EXCEPT !.read_offset = slot[at].offset]
    OBVIOUS
  <2>3. TaskTo(t, r) /\ UNCHANGED config /\ error'
    BY <2>1, <2>2 DEF Rejected
  <2>4. r.size = task[t].size
    BY <1>2, <2>2 DEF Hash!TaskRecords
  <2> QED BY <1>5, <2>3, <2>4
<1>10. CASE Hash!ReadFails
  <2>1. PICK s \in Hash!Slots, t \in Hash!Tasks : Failed(s, t)
    BY <1>10, FailedEffect
  <2>2. PICK r : r = [task[t] EXCEPT !.active = @ - 1]
    OBVIOUS
  <2>3. TaskTo(t, r) /\ UNCHANGED config /\ (error => error')
    BY <2>1, <2>2 DEF Failed
  <2>4. r.size = task[t].size
    BY <1>2, <2>2 DEF Hash!TaskRecords
  <2> QED BY <1>5, <2>3, <2>4
<1>11. CASE Hash!ReadArrives
  <2>1. UNCHANGED <<task, config, error>>
    BY <1>11 DEF Hash!ReadArrives
  <2> QED BY <1>3, <2>1
<1>12. CASE Hash!FeedChunk
  <2>1. PICK s \in Hash!Slots, t \in Hash!Tasks, h \in Seq(Nat) : Fed(s, t, h)
    BY <1>12, FedEffect
  <2>2. PICK r : r = [task[t] EXCEPT !.hashed = h, !.active = @ - 1]
    OBVIOUS
  <2>3. TaskTo(t, r) /\ UNCHANGED <<config, error>>
    BY <2>1, <2>2 DEF Fed
  <2>4. r.size = task[t].size
    BY <1>2, <2>2 DEF Hash!TaskRecords
  <2> QED BY <1>5, <2>3, <2>4
<1>13. CASE Hash!FeedEnds
  <2>1. PICK t \in Hash!Tasks : Ended(t)
    BY <1>13, EndedEffect
  <2>2. PICK r : r = [task[t] EXCEPT !.open = FALSE, !.done = TRUE]
    OBVIOUS
  <2>3. TaskTo(t, r) \/ UNCHANGED task
    BY <2>1, <2>2 DEF Ended
  <2>4. UNCHANGED <<config, error>>
    BY <2>1 DEF Ended
  <2>5. r.size = task[t].size
    BY <1>2, <2>2 DEF Hash!TaskRecords
  <2> QED BY <1>3, <1>5, <2>3, <2>4, <2>5
<1> QED BY <1>4, <1>6, <1>7, <1>8, <1>9, <1>10, <1>11, <1>12, <1>13 DEF Hash!Next, Hash!Main, Hash!Callback

LEMMA WholeKept ==
  ASSUME Hash!HashConstants, Hash!WholeReads, Hash!WholeInv, [Hash!Next]_(Hash!vars)
  PROVE  Hash!WholeInv'
<1>1. Hash!OrderInv /\ Hash!HashTypes
  BY DEF Hash!WholeInv, Hash!OrderInv
<1>2. Hash!OrderInv'
  BY <1>1, OrderKept
<1>3. /\ UNCHANGED config /\ Hash!Tasks' = Hash!Tasks /\ (error => error')
      /\ \A u \in Hash!Tasks : task'[u].size = task[u].size
  BY <1>1, SizesKept
<1>4. config'.limit >= config'.depth \/ \A t \in Hash!Tasks' : task'[t].size <= config'.chunk
  BY <1>3 DEF Hash!WholeInv
<1>5. ASSUME ~error' PROVE \A u \in Hash!Tasks : Hash!Tiled(u)'
  <2>1. ~error /\ \A u \in Hash!Tasks : Hash!Tiled(u)
    BY <1>3, <1>5 DEF Hash!WholeInv
  <2>2. CASE UNCHANGED Hash!vars
    <3>1. UNCHANGED <<config, task, slot, printed, pc, at>>
      BY <2>2 DEF Hash!vars
    <3>2. \A n : (Hash!Submitting' /\ n = at') <=> (Hash!Submitting /\ n = at)
      BY <3>1 DEF Hash!Submitting
    <3> QED BY <2>1, <3>1, <3>2, TiledSame
  <2>3. CASE Hash!Setup \/ Hash!sigint_handler \/ Hash!FillPassed \/ Hash!LoopHead \/ Hash!WaitReturns \/ Hash!Exit
    BY <1>1, <2>1, <2>3, ControlTiles
  <2>4. CASE Hash!OpenFails \/ Hash!SubmitEmpty
    BY <1>1, <2>1, <2>4, SkipTiles
  <2>5. CASE Hash!ReadBegins
    BY <1>1, <2>1, <2>5, BeginsTiles
  <2>6. CASE Hash!ReadSubmitted
    BY <1>1, <2>1, <2>6, SubmittedTiles
  <2>7. ~Hash!ReadRejected
    BY <1>5 DEF Hash!ReadRejected
  <2>8. ~Hash!ReadFails
    <3> SUFFICES ASSUME Hash!ReadFails PROVE FALSE
      OBVIOUS
    <3>1. (\A n \in config.read_errors : n < 0) => error'
      BY <1>1, FailedEffect
    <3>2. \A n \in config.read_errors : n < 0
      BY <1>1 DEF Hash!WholeReads, Hash!HashTypes
    <3> QED BY <1>5, <3>1, <3>2
  <2>9. CASE Hash!ReadArrives
    BY <1>1, <2>1, <2>9, ArrivedTiles DEF Hash!WholeReads
  <2>10. CASE Hash!FeedChunk
    BY <1>1, <2>1, <2>10, FedTiles
  <2>11. CASE Hash!FeedEnds
    BY <2>1, <2>11, EndedTiles
  <2> QED BY <2>2, <2>3, <2>4, <2>5, <2>6, <2>7, <2>8, <2>9, <2>10, <2>11 DEF Hash!Next, Hash!Main, Hash!Callback
<1>6. ~error' => \A u \in Hash!Tasks' : Hash!Tiled(u)'
  BY <1>3, <1>5
<1> QED BY <1>2, <1>4, <1>6 DEF Hash!WholeInv

LEMMA WholeInit ==
  ASSUME Hash!HashConstants, Hash!WholeReads, Hash!Init
  PROVE  Hash!WholeInv
<1>1. Hash!OrderInv
  BY OrderInit
<1>2. config \in Scenarios /\ Hash!build_task_list(config) \in Seq(Nat)
  BY <1>1 DEF Hash!OrderInv, Hash!HashTypes, Hash!HashConstants
<1>3. ASSUME NEW t \in Hash!Tasks
      PROVE  \E k \in Nat : task[t] = Hash!add_file_task(k) /\ \E i \in DOMAIN Hash!build_task_list(config) : Hash!build_task_list(config)[i] = k
  <2>1. PICK i \in DOMAIN Hash!build_task_list(config) : task[t] = Hash!add_file_task(Hash!build_task_list(config)[i])
    BY StartIs
  <2>2. Hash!build_task_list(config)[i] \in Nat
    BY <1>2
  <2> QED BY <2>1, <2>2
<1>4. \A t \in Hash!Tasks : \E i \in DOMAIN Hash!build_task_list(config) : task[t].size = Hash!build_task_list(config)[i]
  <2> SUFFICES ASSUME NEW t \in Hash!Tasks
               PROVE  \E i \in DOMAIN Hash!build_task_list(config) : task[t].size = Hash!build_task_list(config)[i]
    OBVIOUS
  <2>1. PICK k \in Nat : task[t] = Hash!add_file_task(k)
                        /\ \E i \in DOMAIN Hash!build_task_list(config) : Hash!build_task_list(config)[i] = k
    BY <1>3
  <2>2. task[t].size = k
    BY <2>1 DEF Hash!add_file_task
  <2> QED BY <2>1, <2>2
<1>5. config.limit >= config.depth \/ \A t \in Hash!Tasks : task[t].size <= config.chunk
  BY <1>2, <1>4 DEF Hash!WholeReads
<1>6. ASSUME NEW t \in Hash!Tasks PROVE Hash!Tiled(t)
  <2>1. PICK k \in Nat : task[t] = Hash!add_file_task(k)
    BY <1>3
  <2>2. /\ task[t].size = k /\ task[t].read_offset = 0 /\ task[t].hashed = <<>>
        /\ task[t].reads_done = FALSE /\ task[t].active = 0
    BY <2>1 DEF Hash!add_file_task
  <2>3. printed[t] = {}
    BY DEF Hash!Init
  <2>4. Hash!Holding(t) = {} /\ Hash!Counted(t) = {}
    <3>1. \A s \in Hash!Slots : slot[s].task = NoTask
      BY DEF Hash!Init, Hash!FreeSlot
    <3>2. t # NoTask
      BY <1>1, RecordTypes DEF Hash!OrderInv
    <3> QED BY <3>1, <3>2 DEF Hash!Holding, Hash!Counted
  <2>5. Cardinality(Hash!Counted(t)) = 0
    BY <2>4, FS_EmptySet
  <2> QED BY <2>2, <2>3, <2>4, <2>5, HashCardinality DEF Hash!Tiled
<1> QED BY <1>1, <1>5, <1>6 DEF Hash!WholeInv

(***************************************************************************)
(* Whatever aura-hash prints, in a run without an error, is the digest of  *)
(* the whole of a file, its bytes in order: provided no file is cut short  *)
(* while it is read, and the ring is never at its limit while a file of    *)
(* several chunks is being submitted.                                      *)
(***************************************************************************)
THEOREM DigestsAreWhole ==
  ASSUME Hash!HashConstants, Hash!WholeReads
  PROVE  Hash!Spec => []Hash!DigestsWhole
<1>1. Hash!Init => Hash!WholeInv
  BY WholeInit
<1>2. Hash!WholeInv /\ [Hash!Next]_(Hash!vars) => Hash!WholeInv'
  BY WholeKept
<1>3. Hash!WholeInv => Hash!DigestsWhole
  BY DEF Hash!WholeInv, Hash!DigestsWhole, Hash!Tiled
<1> QED BY <1>1, <1>2, <1>3, PTL DEF Hash!Spec
=============================================================================
