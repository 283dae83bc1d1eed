----------------------------- MODULE BufSizeMap -----------------------------
(***************************************************************************)
(* buf_size_map_t of engine/src/adaptive_buffer.c: an open-addressing hash *)
(* table with linear probing, growth at three quarters and deletion by     *)
(* backward shift.  One mutex makes every call a single step.              *)
(***************************************************************************)
EXTENDS Integers, FiniteSets, FiniteSetsExt

CONSTANTS Keys,             \* buffer addresses
          Classes,          \* size classes
          InitialCapacity,  \* BUF_MAP_INITIAL_CAPACITY
          MaxCapacity,      \* BUF_MAP_MAX_CAPACITY
          None, Failed

VARIABLES hash,      \* the mixed bits of an address, before the mask
          entries,   \* 0 .. capacity - 1 -> [key, class]; key None: empty
          count,     \* map->count
          ret        \* what the last call returned

vars == <<hash, entries, count, ret>>

Free == [key |-> None, class |-> None]
Table(cap) == [i \in 0 .. cap - 1 |-> Free]

\* Every way the mixed bits of the addresses can collide.
Init ==
  /\ hash \in [Keys -> 0 .. MaxCapacity - 1]
  /\ entries = Table(InitialCapacity)
  /\ count = 0
  /\ ret = None

capacity == Cardinality(DOMAIN entries)

\* buf_map_hash: the low bits.
buf_map_hash(k, cap) == hash[k] % cap

\* The probe for k: the first index, from its natural one on, that is empty or
\* holds k; when the table is full of other keys it is back at the start.
Probe(tab, k) ==
  LET cap == Cardinality(DOMAIN tab)
      hits == {d \in 0 .. cap - 1 :
                 tab[(buf_map_hash(k, cap) + d) % cap].key \in {None, k}}
  IN (buf_map_hash(k, cap) + (IF hits = {} THEN 0 ELSE Min(hits))) % cap

\* buf_map_grow: the entries are put into a table of twice the size in the
\* order of their indices.
Placed(new, e) == IF e.key = None THEN new ELSE [new EXCEPT ![Probe(new, e.key)] = e]

Grown(tab) ==
  LET cap == Cardinality(DOMAIN tab)
      copied[n \in 0 .. cap] ==
        IF n = 0 THEN Table(2 * cap) ELSE Placed(copied[n - 1], tab[n - 1])
  IN copied[cap]

\* The table that an insertion works on.
Ready(grow) == IF grow THEN Grown(entries) ELSE entries

\* memory: calloc succeeds, should the table have to grow.
buf_size_map_insert(k, c, memory) ==
  LET crowded == count * 4 >= capacity * 3
      grow == crowded /\ capacity < MaxCapacity
      tab == Ready(grow)
      i == Probe(tab, k)
  IN
  /\ UNCHANGED hash
  /\ IF \/ crowded /\ ~grow /\ count >= capacity
        \/ grow /\ ~memory
     THEN ret' = Failed /\ UNCHANGED <<entries, count>>
     ELSE IF tab[i].key \notin {None, k}
     THEN ret' = Failed /\ entries' = tab /\ UNCHANGED count
     ELSE /\ entries' = [tab EXCEPT ![i] = [key |-> k, class |-> c]]
          /\ count' = IF tab[i].key = None THEN count + 1 ELSE count
          /\ ret' = "ok"

\* Deletion at index i: while the entries follow without a gap, one that has
\* the hole on its probe path moves into it.
\* Fault: the hole is left where it is.
Closed_Hole(tab, i) == [tab EXCEPT ![i] = Free]

\* A round of the loop, at the n-th index past i.
Shift(s, i, n, cap) ==
  LET next == (i + n) % cap
      e == s.tab[next]
      natural == buf_map_hash(e.key, cap)
  IN IF ~s.open \/ e.key = None THEN [s EXCEPT !.open = FALSE]
     ELSE IF (s.hole - natural) % cap <= (next - natural) % cap
     THEN [s EXCEPT !.tab = [@ EXCEPT ![s.hole] = e], !.hole = next]
     ELSE s

Closed(tab, i) ==
  LET cap == Cardinality(DOMAIN tab)
      shift[n \in 0 .. cap] ==
        IF n = 0 THEN [tab |-> tab, hole |-> i, open |-> TRUE]
        ELSE Shift(shift[n - 1], i, n, cap)
  IN [shift[cap].tab EXCEPT ![shift[cap].hole] = Free]

\* Fault: the class is read where the next entry has been moved to.
buf_size_map_remove_Late(k) ==
  LET i == Probe(entries, k) IN
  /\ UNCHANGED hash
  /\ IF entries[i].key = k
     THEN /\ ret' = Closed(entries, i)[i].class
          /\ entries' = Closed(entries, i)
          /\ count' = count - 1
     ELSE ret' = Failed /\ UNCHANGED <<entries, count>>

buf_size_map_remove(k) ==
  LET i == Probe(entries, k) IN
  /\ UNCHANGED hash
  /\ IF entries[i].key = k
     THEN /\ ret' = entries[i].class
          /\ entries' = Closed(entries, i)
          /\ count' = count - 1
     ELSE ret' = Failed /\ UNCHANGED <<entries, count>>

Next ==
  \E k \in Keys :
    \/ buf_size_map_remove(k)
    \/ \E c \in Classes, memory \in BOOLEAN : buf_size_map_insert(k, c, memory)

Spec == Init /\ [][Next]_vars
-----------------------------------------------------------------------------
(* Properties *)

\* The type invariant.
TypeOK ==
  /\ capacity \in InitialCapacity .. MaxCapacity
  /\ \A i \in DOMAIN entries :
       entries[i] \in [key : Keys, class : Classes] \cup {Free}
  /\ count \in 0 .. capacity

\* After any sequence of insertions, growths and shifting deletions, with any
\* collisions, the probe from the natural index of every key stored finds the
\* one entry it has, and count, on which growth depends, is their number.
ChainsUnbroken ==
  /\ \A i \in DOMAIN entries :
       entries[i].key # None => Probe(entries, entries[i].key) = i
  /\ count = Cardinality({i \in DOMAIN entries : entries[i].key # None})

\* What a probe for k finds.
Found(tab, k) ==
  LET e == tab[Probe(tab, k)] IN IF e.key = k THEN e.class ELSE None
Recorded(k) == Found(entries, k)

\* The table implements a map from buffers to classes: an operation on one
\* buffer never changes or loses the class of another.
Abstract == INSTANCE SizeTable WITH class_of <- [k \in Keys |-> Recorded(k)]
ImplementsMap == Abstract!Spec

-----------------------------------------------------------------------------
(* The inductive invariant.                                                *)

MapConstants ==
  /\ None \notin Keys \cup Classes
  /\ InitialCapacity \in Nat \ {0} /\ MaxCapacity \in Nat

Entries == [key : Keys, class : Classes] \cup {Free}

\* How far a probe that starts at i has gone when it is at j.
Gap(i, j, cap) == (j - i) % cap

\* The probe for the key at j comes past m before it gets there.
Passes(tab, cap, j, m) ==
  LET natural == buf_map_hash(tab[j].key, cap)
  IN Gap(natural, m, cap) < Gap(natural, j, cap)

\* Every probe path is free of gaps and of its own key, and there is an index
\* that none comes past: an empty one, or in a full table the one that was
\* filled last. Without it a deletion could break a path that goes around.
TableSound(tab, cap) ==
  /\ tab \in [0 .. cap - 1 -> Entries]
  /\ \A j, m \in 0 .. cap - 1 :
       tab[j].key # None /\ Passes(tab, cap, j, m) => tab[m].key \notin {None, tab[j].key}
  /\ \E w \in 0 .. cap - 1 : \A j \in 0 .. cap - 1 :
       tab[j].key # None => ~Passes(tab, cap, j, w)

MapInv ==
  /\ hash \in [Keys -> Nat]
  /\ \E cap \in Nat \ {0} : TableSound(entries, cap)
  /\ count = Cardinality({k \in Keys : Recorded(k) # None})
=============================================================================
