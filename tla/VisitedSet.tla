----------------------------- MODULE VisitedSet -----------------------------
(***************************************************************************)
(* visited_insert of tools/atree/atree.c: the lock-free hash set in which  *)
(* the scanning threads enter the directories they are about to open.  A   *)
(* bucket is claimed with PENDING, its key is written, its tag published;  *)
(* then the inserter looks at the buckets it passed over for a second copy *)
(* of its key.  One step per atomic access.                                *)
(***************************************************************************)
EXTENDS Integers, FiniteSets

CONSTANTS
    Threads,        \* the scanning threads
    Keys,           \* (dev, ino) pairs
    Homes,          \* visited_hash: a set of functions from keys to Nat
    Inserts,        \* what the threads insert: a set of functions to Keys
    Cap,            \* vs.cap, a power of two
    Load,           \* VISITED_LOAD_MAX, as a number of entries
    NoKey           \* a key slot never written

Empty   == 0
Pending == 1
Buckets == 0 .. Cap - 1

VARIABLES
    hash,           \* the hash of each key
    wants,          \* the key each thread inserts
    buckets,        \* Empty, Pending or a tag
    keys,           \* the parallel array of keys
    count,          \* vs.count
    pc,             \* the next access of each thread
    idx,            \* its position in the probe sequence
    scan,           \* j, the position of its rescan
    steps,          \* i, the buckets it has probed
    result          \* what its visited_insert returned

vars == <<hash, wants, buckets, keys, count, pc, idx, scan, steps, result>>

Mask(n) == n % Cap

visited_tag(k) == IF hash[k] <= Pending THEN hash[k] + 2 ELSE hash[k]

Init ==
    /\ hash \in Homes
    /\ wants \in Inserts
    /\ buckets = [b \in Buckets |-> Empty]
    /\ keys = [b \in Buckets |-> NoKey]
    /\ count = 0
    /\ pc = [t \in Threads |-> "load"]
    /\ idx = [t \in Threads |-> 0]
    /\ scan = [t \in Threads |-> 0]
    /\ steps = [t \in Threads |-> 0]
    /\ result = [t \in Threads |-> "none"]

Home(t) == Mask(hash[wants[t]])
Tag(t)  == visited_tag(wants[t])

Goto(t, label) == pc' = [pc EXCEPT ![t] = label]

Return(t, r) ==
    /\ Goto(t, "returned")
    /\ result' = [result EXCEPT ![t] = r]

\* The load factor: a set that is too full takes nothing more.
CheckLoad(t) ==
    /\ pc[t] = "load"
    /\ IF count >= Load
       THEN Return(t, "full") /\ UNCHANGED idx
       ELSE /\ Goto(t, "probe")
            /\ idx' = [idx EXCEPT ![t] = Home(t)]
            /\ UNCHANGED result
    /\ UNCHANGED <<hash, wants, buckets, keys, count, scan, steps>>

\* The bucket holds another key, or one that is not written yet.
PassOver(t) ==
    /\ idx' = [idx EXCEPT ![t] = Mask(@ + 1)]
    /\ steps' = [steps EXCEPT ![t] = @ + 1]
    /\ IF steps[t] + 1 = Cap
       THEN Return(t, "full")
       ELSE Goto(t, "probe") /\ UNCHANGED result

\* Fault: a bucket in the making is taken for our own key.
Occupied_Pending(t, cur) ==
    IF cur \in {Tag(t), Pending}
    THEN Return(t, "present") /\ UNCHANGED <<idx, steps>>
    ELSE PassOver(t)

Occupied(t, cur) ==
    IF cur = Tag(t) /\ keys[idx[t]] = wants[t]
    THEN Return(t, "present") /\ UNCHANGED <<idx, steps>>
    ELSE PassOver(t)

Probe(t) ==
    /\ pc[t] = "probe"
    /\ IF buckets[idx[t]] = Empty
       THEN Goto(t, "claim") /\ UNCHANGED <<idx, steps, result>>
       ELSE Occupied(t, buckets[idx[t]])
    /\ UNCHANGED <<hash, wants, buckets, keys, count, scan>>

\* Fault: the tag goes in with the claim, before the key.
ClaimMark_Tag(t) == Tag(t)

ClaimMark(t) == Pending

\* The compare-and-swap: a lost race goes on with what it found.
Claim(t) ==
    /\ pc[t] = "claim"
    /\ IF buckets[idx[t]] = Empty
       THEN /\ buckets' = [buckets EXCEPT ![idx[t]] = ClaimMark(t)]
            /\ Goto(t, "key")
            /\ UNCHANGED <<idx, steps, result>>
       ELSE Occupied(t, buckets[idx[t]]) /\ UNCHANGED buckets
    /\ UNCHANGED <<hash, wants, keys, count, scan>>

WriteKey(t) ==
    /\ pc[t] = "key"
    /\ keys' = [keys EXCEPT ![idx[t]] = wants[t]]
    /\ Goto(t, "publish")
    /\ UNCHANGED <<hash, wants, buckets, count, idx, scan, steps, result>>

Publish(t) ==
    /\ pc[t] = "publish"
    /\ buckets' = [buckets EXCEPT ![idx[t]] = Tag(t)]
    /\ scan' = [scan EXCEPT ![t] = Home(t)]
    /\ Goto(t, "rescan")
    /\ UNCHANGED <<hash, wants, keys, count, idx, steps, result>>

Duplicate(t) == buckets[scan[t]] = Tag(t) /\ keys[scan[t]] = wants[t]

Rescan(t) ==
    /\ pc[t] = "rescan"
    /\ scan[t] # idx[t]
    /\ IF Duplicate(t)
       THEN Goto(t, "release") /\ UNCHANGED scan
       ELSE scan' = [scan EXCEPT ![t] = Mask(@ + 1)] /\ UNCHANGED pc
    /\ UNCHANGED <<hash, wants, buckets, keys, count, idx, steps, result>>

Release(t) ==
    /\ pc[t] = "release"
    /\ buckets' = [buckets EXCEPT ![idx[t]] = Empty]
    /\ Return(t, "present")
    /\ UNCHANGED <<hash, wants, keys, count, idx, scan, steps>>

Count(t) ==
    /\ pc[t] = "rescan"
    /\ scan[t] = idx[t]
    /\ count' = count + 1
    /\ Return(t, "new")
    /\ UNCHANGED <<hash, wants, buckets, keys, idx, scan, steps>>

visited_insert(t) ==
    \/ CheckLoad(t) \/ Probe(t) \/ Claim(t) \/ WriteKey(t) \/ Publish(t)
    \/ Rescan(t) \/ Release(t) \/ Count(t)

Next == \E t \in Threads : visited_insert(t)

Spec == Init /\ [][Next]_vars

----------------------------------------------------------------------------
(***************************************************************************)
(* A published tag never stands for a key that is not written yet ("the    *)
(* key is always visible before the real tag"): a bucket whose tag is out  *)
(* holds a key with that tag.                                              *)
(***************************************************************************)
KeyBeforeTag ==
    \A b \in Buckets : buckets[b] \notin {Empty, Pending} =>
        keys[b] # NoKey /\ visited_tag(keys[b]) = buckets[b]

(***************************************************************************)
(* No directory is lost: when every thread that inserts a key has          *)
(* returned, some one of them was told that the key is new, unless the set *)
(* was full, so exactly the threads that drop a directory leave it to      *)
(* another.                                                                *)
(***************************************************************************)
SomeInserter ==
    \A k \in Keys :
        LET ts == {t \in Threads : wants[t] = k}
        IN  (ts # {} /\ \A t \in ts : result[t] \in {"new", "present"})
                => \E t \in ts : result[t] = "new"

\* Both.
VisitedSafe == KeyBeforeTag /\ SomeInserter

\* The table has a bucket, and hashes are numbers.
VisitedConstants ==
    /\ Cap \in Nat \ {0} /\ NoKey \notin Keys
    /\ Homes \subseteq [Keys -> Nat] /\ Inserts \subseteq [Threads -> Keys]

\* A thread has a bucket from its claim on: first marked, then with its key; it
\* gives it up only on "release".
Claims(t) == pc[t] \in {"key", "publish"}
Stays(t)  == pc[t] = "rescan" \/ result[t] = "new"
Holds(t)  == pc[t] = "release" \/ Stays(t)

Owned ==
    /\ \A t \in Threads :
         /\ Claims(t) => buckets[idx[t]] = Pending
         /\ pc[t] = "publish" => keys[idx[t]] = wants[t]
         /\ Holds(t) => buckets[idx[t]] = Tag(t) /\ keys[idx[t]] = wants[t]
    /\ \A t, u \in Threads :
         (Claims(t) \/ Holds(t)) /\ (Claims(u) \/ Holds(u)) /\ idx[t] = idx[u]
            => t = u
    /\ \A b \in Buckets : buckets[b] \notin {Empty, Pending} =>
         \E t \in Threads : Holds(t) /\ idx[t] = b

\* How far bucket b is down the probe sequence of t.
Distance(t, b) == IF b >= Home(t) THEN b - Home(t) ELSE b - Home(t) + Cap

\* Who leaves its key to another leaves it to one nearer to their home, which
\* stays or leaves it to one nearer still: threads never give way to each other.
LeftToOther(t) ==
    /\ pc[t] = "rescan" => Distance(t, scan[t]) <= Distance(t, idx[t])
    /\ pc[t] = "release" =>
         \E u \in Threads : /\ wants[u] = wants[t] /\ Stays(u)
                            /\ Distance(u, idx[u]) < Distance(t, idx[t])
    /\ result[t] = "present" =>
         \E u \in Threads : wants[u] = wants[t] /\ Stays(u)

VisitedTypes ==
    /\ hash \in [Keys -> Nat] /\ wants \in [Threads -> Keys]
    /\ buckets \in [Buckets -> Nat] /\ keys \in [Buckets -> Keys \cup {NoKey}]
    /\ idx \in [Threads -> Buckets] /\ scan \in [Threads -> Buckets]
    /\ pc \in [Threads -> {"load", "probe", "claim", "key", "publish",
                           "rescan", "release", "returned"}]
    /\ result \in [Threads -> {"none", "full", "present", "new"}]
    /\ \A t \in Threads : pc[t] = "returned" <=> result[t] # "none"

\* The inductive invariant.
VisitedInv == VisitedTypes /\ Owned /\ \A t \in Threads : LeftToOther(t)

(***************************************************************************)
(* No directory is entered twice: "Returns true if newly inserted, false   *)
(* if already present".                                                    *)
(***************************************************************************)
OneInserter ==
    \A t, u \in Threads :
        (t # u /\ wants[t] = wants[u]) =>
            ~(result[t] = "new" /\ result[u] = "new")
=============================================================================
