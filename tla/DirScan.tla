------------------------------ MODULE DirScan ------------------------------
(***************************************************************************)
(* The parallel scan of tools/atree/atree.c: scan_tree reads the root      *)
(* itself, seeds a work queue with the directories found there, starts the *)
(* workers and joins them; a worker takes a batch of directories, opens,   *)
(* reads, stats and closes them through an engine of its own, queues the   *)
(* directories it found and retires its batch.  `pending' counts the       *)
(* directories queued or in a worker's hands: who takes it to zero ends    *)
(* the scan.  Entries that are not directories add nothing to the scan and *)
(* are left out.  visited_insert is one step here; VisitedSet looks inside *)
(* it.                                                                     *)
(***************************************************************************)
EXTENDS Integers, SequencesExt

CONSTANTS
    Workers,        \* the CPUs of the machine: 1..n
    Dirs,           \* the directories of the file system, by path
    Root,           \* the one the scan starts at
    Kids,           \* the directories in each directory
    Depth,          \* their depth below Root
    Inode,          \* their (dev, ino); a bind mount repeats one
    NoInode,        \* the (dev, ino) of a node that was never stat'ed
    Typed,          \* does the file system fill in d_type?
    Limits,         \* the values of -L; -1 is no limit
    DirsPerBatch,   \* DIRS_PER_BATCH
    Faults          \* what may fail: a subset of the names below

FaultNames == {"submit", "open", "statx", "engine", "thread", "memory",
               "interrupt"}

Main  == 0
Procs == {Main} \cup Workers

VARIABLES
    max_depth,      \* config.max_depth
    queue,          \* wq: the nodes from head to tail
    pending,        \* wq.pending
    done,           \* wq.done
    visited,        \* the visited set
    interrupted,    \* g_interrupted
    listed,         \* the children made of each node
    is_dir,         \* the nodes known to be directories
    stat,           \* the nodes whose st is filled in
    pc,             \* where each thread is
    batch,          \* the directories process_dir_batch was given
    fds,            \* those of the batch that are open
    flight,         \* the requests in the thread's engine
    todo,           \* what the loop the thread is in has left to do
    skipped         \* directories given up: no memory or no engine

vars == <<max_depth, queue, pending, done, visited, interrupted, listed,
          is_dir, stat, pc, batch, fds, flight, todo, skipped>>

shared == <<queue, pending, done>>
tree   == <<listed, is_dir, stat>>

Ops == {"open", "statx", "close"}

May(f) == f \in Faults

Batching == {"open", "open_drain", "statx_drain", "close_drain"}
MainPcs   == Batching \cup {"destroy", "seed", "spawn", "join", "returned",
                            "failed"}
WorkerPcs == Batching \cup {"absent", "create", "pop", "count", "push", "retire",
                            "signal", "drop", "dropped", "destroy", "exited"}

TypeOK ==
    /\ queue \in Seq(Dirs) /\ pending \in Int /\ done \in BOOLEAN
    /\ visited \subseteq {Inode[d] : d \in Dirs} \cup {NoInode}
    /\ interrupted \in BOOLEAN
    /\ listed \in [Dirs -> SUBSET Dirs]
    /\ is_dir \subseteq Dirs /\ stat \subseteq Dirs /\ skipped \subseteq Dirs
    /\ pc \in [Procs -> MainPcs \cup WorkerPcs]
    /\ pc[Main] \in MainPcs /\ \A w \in Workers : pc[w] \in WorkerPcs
    /\ batch \in [Procs -> Seq(Dirs)] /\ todo \in [Procs -> Seq(Dirs)]
    /\ fds \in [Procs -> SUBSET Dirs]
    /\ flight \in [Procs -> SUBSET (Ops \X Dirs)]

\* main has stat'ed the root, scan_tree has opened it once.
Init ==
    /\ max_depth \in Limits
    /\ queue = <<>> /\ pending = 0 /\ done = FALSE
    /\ visited = {} /\ interrupted = FALSE
    /\ listed = [d \in Dirs |-> {}]
    /\ is_dir = {Root} /\ stat = {Root}
    /\ pc = [p \in Procs |-> IF p = Main THEN "open" ELSE "absent"]
    /\ batch = [p \in Procs |-> IF p = Main THEN <<Root>> ELSE <<>>]
    /\ fds = [p \in Procs |-> {}]
    /\ flight = [p \in Procs |-> {}]
    /\ todo = batch
    /\ skipped = {}

Set(f, p, v)   == [f EXCEPT ![p] = v]
At(p, label)   == pc[p] = label
Goto(p, label) == pc' = Set(pc, p, label)
Begin(p, label, seq) == Goto(p, label) /\ todo' = Set(todo, p, seq)

Key(d) == IF d \in stat THEN Inode[d] ELSE NoInode

(***************************************************************************)
(* process_dir_batch, phase 1: a directory at the depth limit, or one      *)
(* already entered in the visited set, is not opened; an open that cannot  *)
(* be submitted is made synchronously, and may fail.                       *)
(***************************************************************************)
Expanded(d) == max_depth >= 0 => Depth[d] < max_depth

OpenSkip(p) ==
    /\ At(p, "open") /\ todo[p] # <<>>
    /\ ~Expanded(Head(todo[p])) \/ Key(Head(todo[p])) \in visited
    /\ todo' = Set(todo, p, Tail(todo[p]))
    /\ UNCHANGED <<shared, tree, visited, interrupted, pc, batch, fds,
                   flight, skipped>>

OpenNext(p) ==
    /\ At(p, "open") /\ todo[p] # <<>>
    /\ Expanded(Head(todo[p])) /\ Key(Head(todo[p])) \notin visited
    /\ visited' = visited \cup {Key(Head(todo[p]))}
    /\ todo' = Set(todo, p, Tail(todo[p]))

OpenAsync(p) ==
    /\ OpenNext(p)
    /\ flight' = Set(flight, p, flight[p] \cup {<<"open", Head(todo[p])>>})
    /\ UNCHANGED <<shared, tree, interrupted, pc, batch, fds, skipped>>

OpenSync(p) ==
    /\ May("submit")
    /\ OpenNext(p)
    /\ \/ fds' = Set(fds, p, fds[p] \cup {Head(todo[p])})
       \/ May("open") /\ UNCHANGED fds
    /\ UNCHANGED <<shared, tree, interrupted, pc, batch, flight, skipped>>

(***************************************************************************)
(* The callbacks run inside the calls the thread makes into its own        *)
(* engine: a submission, the poll and wait of a drain loop, aura_destroy.  *)
(***************************************************************************)
Calls == {"open", "open_drain", "statx_drain", "close_drain", "destroy"}

on_openat_complete(p, d, ok) ==
    /\ fds' = IF ok THEN Set(fds, p, fds[p] \cup {d}) ELSE fds
    /\ UNCHANGED tree

on_statx_complete(p, d, ok) ==
    /\ is_dir' = IF ok THEN is_dir \cup {d} ELSE is_dir
    /\ stat' = IF ok THEN stat \cup {d} ELSE stat
    /\ UNCHANGED <<listed, fds>>

on_close_complete(p, d) == UNCHANGED <<tree, fds>>

Complete(p) ==
    /\ pc[p] \in Calls
    /\ \E r \in flight[p] :
        /\ flight' = Set(flight, p, flight[p] \ {r})
        /\ \E ok \in {TRUE} \cup (IF May(r[1]) THEN {FALSE} ELSE {}) :
            \/ r[1] = "open" /\ on_openat_complete(p, r[2], ok)
            \/ r[1] = "statx" /\ on_statx_complete(p, r[2], ok)
            \/ r[1] = "close" /\ ok /\ on_close_complete(p, r[2])
    /\ UNCHANGED <<shared, visited, interrupted, pc, batch, todo, skipped>>

\* Fault: the loop waits for one completion only.
Drained_One(p, op) ==
    interrupted \/ Cardinality({r \in flight[p] : r[1] = op}) <= 1

\* A drain loop ends when its batch counter is zero, or on SIGINT.
Drained(p, op) == interrupted \/ \A r \in flight[p] : r[1] # op

OpensSubmitted(p) ==
    /\ At(p, "open") /\ todo[p] = <<>>
    /\ Goto(p, "open_drain")
    /\ UNCHANGED <<shared, tree, visited, interrupted, batch, fds, flight,
                   todo, skipped>>

(***************************************************************************)
(* Phases 2 and 3: the entries of the opened directories become nodes,     *)
(* directories already where d_type says so, and each is stat'ed, by a     *)
(* request or, where that cannot be submitted, by statx.  Without memory   *)
(* for the contexts nothing is stat'ed.                                    *)
(***************************************************************************)
Entries(p) == UNION {Kids[d] : d \in fds[p]}

ReadAndStat(p) ==
    /\ At(p, "open_drain") /\ Drained(p, "open")
    /\ listed' = [d \in Dirs |-> IF d \in fds[p] THEN Kids[d]
                                                 ELSE listed[d]]
    /\ \E asked \in {Entries(p)} \cup
                    (IF May("memory") THEN {{}} ELSE {}) :
       \E sync \in {{}} \cup (IF May("submit") THEN {asked} ELSE {}) :
       \E good \in {sync} \cup (IF May("statx") THEN {{}} ELSE {}) :
        /\ flight' = Set(flight, p, flight[p] \cup
                         {<<"statx", d>> : d \in asked \ sync})
        /\ stat' = stat \cup good
        /\ is_dir' = is_dir \cup good \cup (IF Typed THEN Entries(p) ELSE {})
    /\ Goto(p, "statx_drain")
    /\ UNCHANGED <<shared, visited, interrupted, batch, fds, todo, skipped>>

(***************************************************************************)
(* free(batch), then phase 4: the descriptors are closed, by requests or   *)
(* by close.                                                               *)
(***************************************************************************)
CloseAll(p) ==
    /\ At(p, "statx_drain") /\ Drained(p, "statx")
    /\ \E sync \in IF May("submit") THEN {{}, fds[p]} ELSE {{}} :
        flight' = Set(flight, p, flight[p] \cup
                      {<<"close", d>> : d \in fds[p] \ sync})
    /\ fds' = Set(fds, p, {})
    /\ Goto(p, "close_drain")
    /\ UNCHANGED <<shared, tree, visited, interrupted, batch, todo, skipped>>

(***************************************************************************)
(* worker_fn after process_dir_batch: the directories found are chained,   *)
(* counted, queued under the lock in one piece; then the batch is retired  *)
(* one directory at a time.  For a child there may be no work item.        *)
(***************************************************************************)
\* Fault: only the first directory of the batch is looked at.
Found_First(p) == {k \in listed[Head(batch[p])] : k \in is_dir}

Found(p) == {k \in UNION {listed[d] : d \in Range(batch[p])} : k \in is_dir}

Chains(p) ==
    {SetToSeq(c) : c \in IF May("memory") THEN SUBSET Found(p)
                                          ELSE {Found(p)}}

Chain(p) ==
    /\ p # Main
    /\ At(p, "close_drain") /\ Drained(p, "close")
    /\ \E c \in Chains(p) :
        /\ skipped' = skipped \cup (Found(p) \ Range(c))
        /\ IF c = <<>> THEN Begin(p, "retire", batch[p])
                       ELSE Begin(p, "count", c)
    /\ UNCHANGED <<shared, tree, visited, interrupted, batch, fds, flight>>

Count(p) ==
    /\ At(p, "count")
    /\ pending' = pending + Len(todo[p])
    /\ Goto(p, "push")
    /\ UNCHANGED <<queue, done, tree, visited, interrupted, batch, fds,
                   flight, todo, skipped>>

wq_push_batch(p) ==
    /\ At(p, "push")
    /\ queue' = queue \o todo[p]
    /\ Begin(p, "retire", batch[p])
    /\ UNCHANGED <<pending, done, tree, visited, interrupted, batch, fds,
                   flight, skipped>>

\* Fault: the batch is retired as if it were one directory.
Retire_Once(p) ==
    /\ At(p, "retire")
    /\ pending' = pending - 1
    /\ Begin(p, IF pending = 1 THEN "signal" ELSE "pop", <<>>)
    /\ UNCHANGED <<queue, done, tree, visited, interrupted, batch, fds,
                   flight, skipped>>

\* Fault: the end is declared when one directory is left.
Retire_Early(p) ==
    /\ At(p, "retire") /\ todo[p] # <<>>
    /\ pending' = pending - 1
    /\ Begin(p, IF pending = 2 THEN "signal" ELSE "retire", Tail(todo[p]))
    /\ UNCHANGED <<queue, done, tree, visited, interrupted, batch, fds,
                   flight, skipped>>

\* Fault: fetch_sub is taken to return the new value.
Retire_New(p) ==
    /\ At(p, "retire") /\ todo[p] # <<>>
    /\ pending' = pending - 1
    /\ Begin(p, IF pending = 0 THEN "signal" ELSE "retire", Tail(todo[p]))
    /\ UNCHANGED <<queue, done, tree, visited, interrupted, batch, fds,
                   flight, skipped>>

\* The fetch_sub that finds 1 is followed by wq_signal_done.
Retire(p) ==
    /\ At(p, "retire") /\ todo[p] # <<>>
    /\ pending' = pending - 1
    /\ Begin(p, IF pending = 1 THEN "signal" ELSE "retire", Tail(todo[p]))
    /\ UNCHANGED <<queue, done, tree, visited, interrupted, batch, fds,
                   flight, skipped>>

wq_signal_done(p) ==
    /\ At(p, "signal")
    /\ done' = TRUE
    /\ Goto(p, "retire")
    /\ UNCHANGED <<queue, pending, tree, visited, interrupted, batch, fds,
                   flight, todo, skipped>>

Retired(p) ==
    /\ At(p, "retire") /\ todo[p] = <<>>
    /\ Goto(p, IF interrupted THEN "destroy" ELSE "pop")
    /\ UNCHANGED <<shared, tree, visited, interrupted, batch, fds, flight,
                   todo, skipped>>

(***************************************************************************)
(* wq_pop_batch and wq_pop: they sleep, by turns of 50 ms, until there is  *)
(* an item, the end or SIGINT; a woken caller with nothing to take leaves. *)
(***************************************************************************)
wq_pop_batch(p) ==
    /\ At(p, "pop") /\ queue # <<>>
    /\ LET n     == IF Len(queue) < DirsPerBatch THEN Len(queue)
                                                 ELSE DirsPerBatch
           taken == SubSeq(queue, 1, n)
       IN /\ queue' = SubSeq(queue, n + 1, Len(queue))
          /\ batch' = Set(batch, p, taken)
          /\ Begin(p, "open", taken)
    /\ fds' = Set(fds, p, {})
    /\ UNCHANGED <<pending, done, tree, visited, interrupted, flight,
                   skipped>>

PopNothing(p) ==
    /\ pc[p] \in {"pop", "drop"}
    /\ queue = <<>> /\ (done \/ interrupted)
    /\ Goto(p, IF At(p, "pop") THEN "destroy" ELSE "exited")
    /\ UNCHANGED <<shared, tree, visited, interrupted, batch, fds, flight,
                   todo, skipped>>

aura_destroy(p) ==
    /\ At(p, "destroy") /\ flight[p] = {}
    /\ Goto(p, IF p = Main THEN "seed" ELSE "exited")
    /\ todo' = Set(todo, p, IF p = Main THEN SetToSeq(Found(p)) ELSE <<>>)
    /\ UNCHANGED <<shared, tree, visited, interrupted, batch, fds, flight,
                   skipped>>

\* A worker without an engine takes directories off the queue one by one
\* and counts them off, unread.
CreateEngine(p) ==
    /\ At(p, "create")
    /\ \/ Goto(p, IF interrupted THEN "destroy" ELSE "pop")
       \/ May("engine") /\ Goto(p, IF interrupted THEN "exited" ELSE "drop")
    /\ UNCHANGED <<shared, tree, visited, interrupted, batch, fds, flight,
                   todo, skipped>>

Drop(p) ==
    /\ At(p, "drop") /\ queue # <<>>
    /\ queue' = Tail(queue)
    /\ skipped' = skipped \cup {Head(queue)}
    /\ Goto(p, "dropped")
    /\ UNCHANGED <<pending, done, tree, visited, interrupted, batch, fds,
                   flight, todo>>

\* fetch_sub, wq_signal_done if it was the last, and the loop's condition.
Dropped(p) ==
    /\ At(p, "dropped")
    /\ pending' = pending - 1
    /\ done' = (done \/ pending = 1)
    /\ Goto(p, IF interrupted THEN "exited" ELSE "drop")
    /\ UNCHANGED <<queue, tree, visited, interrupted, batch, fds, flight,
                   todo, skipped>>

(***************************************************************************)
(* scan_tree: the root is read by process_dir_batch in the calling thread; *)
(* its directories are counted and queued, then as many workers as there   *)
(* are directories, CPUs at most, are started and joined.                  *)
(***************************************************************************)
RootRead ==
    /\ At(Main, "close_drain") /\ Drained(Main, "close")
    /\ Goto(Main, "destroy")
    /\ UNCHANGED <<shared, tree, visited, interrupted, batch, fds, flight,
                   todo, skipped>>

Seed ==
    /\ At(Main, "seed") /\ todo[Main] # <<>>
    /\ \/ /\ pending' = pending + 1
          /\ queue' = Append(queue, Head(todo[Main]))
          /\ UNCHANGED skipped
       \/ /\ May("memory")
          /\ skipped' = skipped \cup {Head(todo[Main])}
          /\ UNCHANGED <<pending, queue>>
    /\ todo' = Set(todo, Main, Tail(todo[Main]))
    /\ UNCHANGED <<done, tree, visited, interrupted, pc, batch, fds,
                   flight>>

NumWorkers ==
    LET children == Cardinality(Found(Main))
    IN IF children < Cardinality(Workers) THEN children
                                          ELSE Cardinality(Workers)

\* Nothing was queued: scan_tree returns at once.
Seeded ==
    /\ At(Main, "seed") /\ todo[Main] = <<>>
    /\ Goto(Main, IF pending = 0 THEN "returned" ELSE "spawn")
    /\ UNCHANGED <<shared, tree, visited, interrupted, batch, fds, flight,
                   todo, skipped>>

Spawn ==
    /\ At(Main, "spawn")
    /\ \E w \in 1 .. NumWorkers :
        /\ At(w, "absent") /\ \A v \in 1 .. w - 1 : ~At(v, "absent")
        /\ \/ pc' = [pc EXCEPT ![w] = "create",
                     ![Main] = IF w = NumWorkers THEN "join" ELSE "spawn"]
           \/ /\ May("thread")
              /\ Goto(Main, IF w = 1 THEN "failed" ELSE "join")
    /\ UNCHANGED <<shared, tree, visited, interrupted, batch, fds, flight,
                   todo, skipped>>

Join ==
    /\ At(Main, "join")
    /\ \A w \in Workers : pc[w] \in {"absent", "exited"}
    /\ Goto(Main, "returned")
    /\ UNCHANGED <<shared, tree, visited, interrupted, batch, fds, flight,
                   todo, skipped>>

sigint_handler ==
    /\ May("interrupt") /\ ~interrupted
    /\ pc[Main] \notin {"returned", "failed"}
    /\ interrupted' = TRUE
    /\ UNCHANGED <<shared, tree, visited, pc, batch, fds, flight, todo,
                   skipped>>

process_dir_batch(p) ==
    /\ \/ OpenSkip(p) \/ OpenAsync(p) \/ OpenSync(p) \/ OpensSubmitted(p)
       \/ ReadAndStat(p) \/ CloseAll(p) \/ Complete(p)
    /\ UNCHANGED max_depth

worker_fn(p) ==
    /\ \/ CreateEngine(p) \/ wq_pop_batch(p) \/ PopNothing(p)
       \/ Chain(p) \/ Count(p) \/ wq_push_batch(p)
       \/ Retire(p) \/ wq_signal_done(p) \/ Retired(p)
       \/ Drop(p) \/ Dropped(p) \/ aura_destroy(p)
    /\ UNCHANGED max_depth

scan_tree ==
    /\ RootRead \/ aura_destroy(Main) \/ Seed \/ Seeded \/ Spawn \/ Join
    /\ UNCHANGED max_depth

Next ==
    \/ scan_tree
    \/ \E p \in Procs : process_dir_batch(p)
    \/ \E w \in Workers : worker_fn(w)
    \/ sigint_handler /\ UNCHANGED max_depth

\* Threads run; the kernel completes every request.
Fairness ==
    /\ WF_vars(scan_tree)
    /\ \A p \in Procs : WF_vars(process_dir_batch(p))
    /\ \A w \in Workers : WF_vars(worker_fn(w))

Spec == Init /\ [][Next]_vars /\ Fairness

----------------------------------------------------------------------------
(* Properties *)

\* The directories a worker has taken and not retired.
Held(w) ==
    CASE pc[w] \in {"open", "open_drain", "statx_drain", "close_drain",
                    "count", "push"} -> Len(batch[w])
      [] pc[w] = "retire"  -> Len(todo[w])
      [] pc[w] = "signal"  -> Len(todo[w])
      [] pc[w] = "dropped" -> 1
      [] OTHER             -> 0

\* Those it has counted and is about to queue.
Counted(w) == IF At(w, "push") THEN Len(todo[w]) ELSE 0

InHands == [w \in Workers |-> Held(w) + Counted(w)]

\* The sum of a function on the workers, as the size of a disjoint union.
Total(f) == Cardinality(UNION {{w} \X (1 .. f[w]) : w \in Workers})

(***************************************************************************)
(* The pending counter of the work queue is exactly the directories queued *)
(* plus those in a worker's hands plus those counted and about to be       *)
(* queued: it never reaches zero early, and always reaches it.             *)
(***************************************************************************)
PendingExact ==
    pending = Len(queue) + Total(InHands)

(***************************************************************************)
(* When wq_signal_done has declared the scan over, no directory is queued  *)
(* or in a worker's hands, and no thread can queue another.                *)
(***************************************************************************)
DoneMeansEmpty ==
    done => queue = <<>> /\ \A w \in Workers : Held(w) = 0

\* Nothing went wrong that atree reports.
Undisturbed == ~interrupted /\ skipped = {}

(***************************************************************************)
(* A scan that returns without SIGINT and without a directory given up has *)
(* entered every directory it found within the depth limit in the visited  *)
(* set: none was lost between the queue and the workers.                   *)
(***************************************************************************)
AllScanned ==
    At(Main, "returned") /\ Undisturbed =>
        \A d \in is_dir : Expanded(d) => Key(d) \in visited

(***************************************************************************)
(* Without SIGINT, no request is in flight whose completion context is     *)
(* gone: the statx contexts are freed, the others leave the stack with     *)
(* process_dir_batch.                                                      *)
(***************************************************************************)
ContextsOutliveRequests ==
    ~interrupted =>
        \A p \in Procs : \A r \in flight[p] :
            /\ pc[p] \in {"open", "open_drain", "statx_drain", "close_drain"}
            /\ r[1] = "statx" => At(p, "statx_drain")

\* All four.
ScanSafe ==
    PendingExact /\ DoneMeansEmpty /\ AllScanned /\ ContextsOutliveRequests

\* A finite file system; a batch takes at least one directory.
ScanConstants ==
    /\ IsFiniteSet(Workers) /\ Workers = 1 .. Cardinality(Workers)
    /\ IsFiniteSet(Dirs) /\ Root \in Dirs /\ Kids \in [Dirs -> SUBSET Dirs]
    /\ DirsPerBatch \in Nat \ {0}

\* main seeds the queue before there are workers.
Seeding == pc[Main] \in Batching \cup {"destroy", "seed"}
SeededFirst ==
    /\ Seeding => ~done /\ \A w \in Workers : At(w, "absent")
    /\ At(Main, "join") => \E w \in Workers : ~At(w, "absent")
    /\ At(Main, "returned") =>
         /\ \A w \in Workers : pc[w] \in {"absent", "exited"}
         /\ Undisturbed => queue = <<>>

\* Who took pending to zero has nothing left, nor has anybody else; a worker
\* that leaves undisturbed has seen the end.
EndSeen ==
    /\ done \/ (\E w \in Workers : At(w, "signal")) => pending = 0
    /\ \A w \in Workers :
         /\ pc[w] \in Batching \cup {"count", "push"} => batch[w] # <<>>
         /\ pc[w] \in {"destroy", "exited"} => done \/ interrupted

\* The requests of each phase are over before the next one begins.
Phased ==
    ~interrupted => \A p \in Procs : \A r \in flight[p] :
        /\ r[1] = "open"  => pc[p] \in {"open", "open_drain"}
        /\ r[1] = "statx" => At(p, "statx_drain")
        /\ r[1] = "close" => At(p, "close_drain")

\* What a batch opens are its directories, and what it lists and stats are
\* entries of theirs.
Listing ==
    /\ \A d \in Dirs : listed[d] \subseteq Kids[d]
    /\ ~interrupted => \A p \in Procs :
         /\ pc[p] \in Batching => fds[p] \subseteq Range(batch[p])
         /\ At(p, "open") => Range(todo[p]) \subseteq Range(batch[p])
         /\ \A r \in flight[p] :
              /\ r[1] = "open"  => r[2] \in Range(batch[p])
              /\ r[1] = "statx" => \E d \in Range(batch[p]) : r[2] \in listed[d]

\* Where a directory waits to be opened: on the queue, in a thread's list, or
\* among the entries of a batch that will be looked through.
WaitsWith(p, d) ==
    \/ pc[p] \in {"open", "count", "push", "seed"} /\ d \in Range(todo[p])
    \/ pc[p] \in {"statx_drain", "close_drain"} /\ d \in Found(p)
    \/ p = Main /\ At(p, "destroy") /\ d \in Found(p)
NoneLost ==
    Undisturbed => \A d \in is_dir :
        Expanded(d) /\ Key(d) \notin visited =>
            d \in Range(queue) \/ \E p \in Procs : WaitsWith(p, d)

\* The inductive invariant.
ScanInv ==
    /\ TypeOK /\ PendingExact /\ SeededFirst /\ EndSeen /\ Phased
    /\ Listing /\ NoneLost

(***************************************************************************)
(* scan_tree returns: whatever fails, and when SIGINT comes, no worker     *)
(* sleeps on for ever in wq_pop and none waits for a lost completion.      *)
(***************************************************************************)
ScanEnds == <>(pc[Main] \in {"returned", "failed"})
============================================================================
