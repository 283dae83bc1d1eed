----------------------------- MODULE TreeTotals -----------------------------
(***************************************************************************)
(* What tools/atree/atree.c does with the tree it has scanned: aggregate,  *)
(* sort_tree, print_node and node_free, four iterative walks with explicit *)
(* stacks that grow on the heap.  One step is one turn of a walk's loop.   *)
(* A stack that cannot grow ends aggregate, sort_tree and print_node where *)
(* they are; node_free goes on with what its stack holds.  Nodes are       *)
(* numbered in the order of their names.                                   *)
(***************************************************************************)
EXTENDS Integers, Sequences, FiniteSets

LOCAL INSTANCE SequencesExt

CONSTANTS
    MaxNodes,       \* bound: nodes of a tree; node 1 is the root
    Sizes,          \* the sizes of files
    Limits,         \* the values of -L; -1 is no limit
    Cap             \* frames a stack holds before it has to grow

Nodes == 1 .. MaxNodes

VARIABLES
    parent,         \* of each node: 0 for the root and for nodes unused
    is_dir,         \* node.is_dir
    size,           \* node.st.stx_size
    stat_err,       \* node.stat_err # 0
    max_depth,      \* config.max_depth
    by_size,        \* config.sort_by_size
    children,       \* node.children; emptied by node_free
    totals,         \* node.total_size, total_files and total_dirs
    walk,           \* the function at work
    stack,          \* its frames, the top one last
    cap,            \* the frames its stack has room for
    short,          \* the walks that ran out of memory
    file_count,     \* as printed at the foot
    dir_count,
    freed           \* the nodes freed

tree == <<parent, is_dir, size, stat_err, max_depth, by_size>>
vars == <<tree, children, totals, walk, stack, cap, short, file_count,
          dir_count, freed>>

Used == {n \in Nodes : n = 1 \/ parent[n] # 0}

\* The children in the order in which getdents64 gave them.
Listed(n) == SetToSortSeq({k \in Nodes : parent[k] = n}, <)

DepthIn(par, n) ==
    LET d[k \in 0 .. MaxNodes] == IF k <= 1 THEN 0 ELSE 1 + d[par[k]]
    IN d[n]

Zero == [size |-> 0, files |-> 0, dirs |-> 0]

\* A frame; `next' is child_idx, -1 before the first visit.
Frame(n, depth) == [node |-> n, next |-> -1, depth |-> depth]
Top             == stack[Len(stack)]
Pop(s)          == SubSeq(s, 1, Len(s) - 1)

\* Every node but the root has its parent before it; a node no parent took
\* is not in the tree.  The scan goes no deeper than -L.
Init ==
    /\ parent \in {p \in [Nodes -> 0 .. MaxNodes] :
                    /\ p[1] = 0
                    /\ \A n \in Nodes : p[n] < n
                    /\ \A n \in 2 .. MaxNodes :
                        p[n] = 0 => \A m \in n .. MaxNodes : p[m] = 0}
    /\ is_dir \in {d \in [Nodes -> BOOLEAN] :
                    \A n \in Nodes : /\ n = 1 => d[n]
                                     /\ parent[n] # 0 => d[parent[n]]
                                     /\ n > 1 /\ parent[n] = 0 => ~d[n]}
    /\ size \in {z \in [Nodes -> Sizes \cup {0}] :
                    \A n \in Nodes : z[n] = 0 <=> is_dir[n] \/ n \notin Used}
    /\ stat_err \in {e \in [Nodes -> BOOLEAN] :
                    /\ Cardinality({n \in Nodes : e[n]}) <= 1
                    /\ \A n \in Nodes :
                        e[n] => n # 1 /\ n \in Used /\ is_dir[n]
                                /\ \A k \in Nodes : parent[k] # n}
    /\ max_depth \in Limits
    /\ \A n \in Used : max_depth >= 0 => DepthIn(parent, n) <= max_depth
    /\ by_size \in BOOLEAN
    /\ children = [n \in Nodes |-> Listed(n)]
    /\ totals = [n \in Nodes |-> Zero]
    /\ walk = "aggregate" /\ stack = <<Frame(1, 0)>> /\ cap = Cap
    /\ short = {} /\ file_count = 0 /\ dir_count = 0
    /\ freed = {}

(***************************************************************************)
(* The stack has to grow to hold n frames: realloc doubles it as often as  *)
(* it takes, or fails.                                                     *)
(***************************************************************************)
Grown(n) == CHOOSE c \in {cap * 2 ^ k : k \in 0 .. 3} :
                c >= n /\ (c = cap \/ c < 2 * n)

Push(s, fs) == stack' = s \o fs /\ cap' = Grown(Len(s \o fs))

GiveUp(n) == /\ n > cap
             /\ stack' = <<>> /\ short' = short \cup {walk} /\ UNCHANGED cap

\* child_idx after the first visit has set it to 0.
Index(f)    == IF f.next = -1 THEN 0 ELSE f.next
Child(f)    == children[f.node][Index(f) + 1]
AtEnd(f)    == Index(f) = Len(children[f.node])
Advanced(s) == [s EXCEPT ![Len(s)].next = Index(s[Len(s)]) + 1]

(***************************************************************************)
(* aggregate: a file adds itself to the directory at the top, a directory  *)
(* is pushed, and added to the one below when its own children are done.   *)
(***************************************************************************)
Plus(t, u) == [size |-> t.size + u.size, files |-> t.files + u.files,
               dirs |-> t.dirs + u.dirs]

\* Fault: a directory adds what it holds, not itself.
RollUp_Held(t, u) == Plus(t, u)

RollUp(t, u) == Plus(t, [u EXCEPT !.dirs = @ + 1])

Started(f) == IF f.next = -1 THEN Zero ELSE totals[f.node]

AggregateFile ==
    /\ walk = "aggregate" /\ stack # <<>> /\ ~AtEnd(Top)
    /\ ~is_dir[Child(Top)]
    /\ LET own == [Zero EXCEPT !.size = size[Child(Top)]]
       IN totals' = [totals EXCEPT
                        ![Child(Top)] = own,
                        ![Top.node] = Plus(Started(Top),
                                           [own EXCEPT !.files = 1])]
    /\ stack' = Advanced(stack)
    /\ UNCHANGED <<tree, children, walk, cap, short, file_count, dir_count,
                   freed>>

AggregateDir ==
    /\ walk = "aggregate" /\ stack # <<>> /\ ~AtEnd(Top)
    /\ is_dir[Child(Top)]
    /\ totals' = [totals EXCEPT ![Top.node] = Started(Top)]
    /\ \/ /\ Push(Advanced(stack), <<Frame(Child(Top), Top.depth + 1)>>)
          /\ UNCHANGED short
       \/ GiveUp(Len(stack) + 1)
    /\ UNCHANGED <<tree, children, walk, file_count, dir_count, freed>>

AggregateUp ==
    /\ walk = "aggregate" /\ stack # <<>> /\ AtEnd(Top)
    /\ stack' = Pop(stack)
    /\ totals' =
        IF Len(stack) = 1 THEN [totals EXCEPT ![Top.node] = Started(Top)]
        ELSE [totals EXCEPT
                ![Top.node] = Started(Top),
                ![stack[Len(stack) - 1].node] = RollUp(@, Started(Top))]
    /\ UNCHANGED <<tree, children, walk, cap, short, file_count, dir_count,
                   freed>>

(***************************************************************************)
(* sort_tree: directories first, then by name (here the node's number) or  *)
(* by size, the largest first.                                             *)
(***************************************************************************)
cmp_alpha(m, n) ==
    IF is_dir[m] # is_dir[n] THEN is_dir[m] ELSE m < n

cmp_size(m, n) ==
    LET s(k) == IF is_dir[k] THEN totals[k].size ELSE size[k]
    IN IF is_dir[m] # is_dir[n] THEN is_dir[m]
       ELSE IF s(m) # s(n) THEN s(m) > s(n) ELSE m < n

Before(m, n) == IF by_size THEN cmp_size(m, n) ELSE cmp_alpha(m, n)

\* Fault: one level is sorted.
SortPushed_None(ks) == <<>>

SortPushed(ks) == SelectSeq(ks, LAMBDA k : is_dir[k] /\ children[k] # <<>>)

sort_tree ==
    /\ walk = "sort_tree" /\ stack # <<>>
    /\ LET n      == Top.node
           sorted == SortSeq(children[n], Before)
           more   == SortPushed(sorted)
       IN /\ children' = [children EXCEPT ![n] = sorted]
          /\ \/ /\ Push(Pop(stack), [i \in DOMAIN more |->
                                        Frame(more[i], Top.depth + 1)])
                /\ UNCHANGED short
             \/ GiveUp(Len(stack) - 1 + Len(more))
    /\ UNCHANGED <<tree, totals, walk, file_count, dir_count, freed>>

(***************************************************************************)
(* print_node: a node is printed and counted on the first visit.  A node   *)
(* printed with an error is counted if it is a file.  The filter of -d has *)
(* nothing to do here: the scan has pruned the files.                      *)
(***************************************************************************)
\* Fault: the root counts as a directory.
emit_node_Root(f) ==
    /\ dir_count' = dir_count + (IF is_dir[f.node] /\ ~stat_err[f.node]
                                 THEN 1 ELSE 0)
    /\ file_count' = file_count + (IF is_dir[f.node] THEN 0 ELSE 1)

emit_node(f) ==
    /\ dir_count' = dir_count + (IF /\ is_dir[f.node] /\ f.depth > 0
                                    /\ ~stat_err[f.node]
                                 THEN 1 ELSE 0)
    /\ file_count' = file_count + (IF is_dir[f.node] THEN 0 ELSE 1)

Below(f) == max_depth >= 0 /\ f.depth >= max_depth

print_node ==
    /\ walk = "print_node" /\ stack # <<>>
    /\ IF Top.next = -1 THEN emit_node(Top)
                        ELSE UNCHANGED <<file_count, dir_count>>
    /\ IF ~is_dir[Top.node] \/ Below(Top) \/ AtEnd(Top)
       THEN stack' = Pop(stack) /\ UNCHANGED <<cap, short>>
       ELSE \/ /\ Push(Advanced(stack), <<Frame(Child(Top), Top.depth + 1)>>)
               /\ UNCHANGED short
            \/ GiveUp(Len(stack) + 1)
    /\ UNCHANGED <<tree, children, totals, walk, freed>>

(***************************************************************************)
(* node_free: the children are pushed and num_children is cleared; a node  *)
(* that has none is freed.  Children that find no room leak.               *)
(***************************************************************************)
\* Fault: num_children is not cleared.
Cleared_Kept(n) == children

Cleared(n) == [children EXCEPT ![n] = <<>>]

FreePush ==
    /\ walk = "node_free" /\ stack # <<>> /\ children[Top.node] # <<>>
    /\ LET ks == children[Top.node]
           Frames(n) == [i \in 1 .. n |-> Frame(ks[i], Top.depth + 1)]
       IN \/ Push(stack, Frames(Len(ks))) /\ UNCHANGED short
          \/ \E n \in 0 .. Len(ks) - 1 :
                /\ Grown(Len(stack) + n) = Len(stack) + n
                /\ Push(stack, Frames(n))
                /\ short' = short \cup {walk}
    /\ children' = Cleared(Top.node)
    /\ UNCHANGED <<tree, totals, walk, file_count, dir_count, freed>>

FreeTop ==
    /\ walk = "node_free" /\ stack # <<>> /\ children[Top.node] = <<>>
    /\ freed' = freed \cup {Top.node}
    /\ stack' = Pop(stack)
    /\ UNCHANGED <<tree, children, totals, walk, cap, short, file_count,
                   dir_count>>

\* main calls the four in turn.
NextWalk(w) == CASE w = "aggregate"  -> "sort_tree"
                 [] w = "sort_tree"  -> "print_node"
                 [] w = "print_node" -> "node_free"
                 [] w = "node_free"  -> "exit"

main ==
    /\ stack = <<>> /\ walk # "exit"
    /\ walk' = NextWalk(walk)
    /\ stack' = IF walk' = "exit" THEN <<>> ELSE <<Frame(1, 0)>>
    /\ cap' = Cap
    /\ UNCHANGED <<tree, children, totals, short, file_count, dir_count,
                   freed>>

Next == \/ AggregateFile \/ AggregateDir \/ AggregateUp
        \/ sort_tree \/ print_node \/ FreePush \/ FreeTop
        \/ main

Spec == Init /\ [][Next]_vars

----------------------------------------------------------------------------
(* Properties *)

\* The nodes under n, by following parents: the reference for the totals.
Under(n) ==
    LET up[k \in 0 .. MaxNodes] ==
            IF k = 0 THEN {} ELSE {parent[k]} \cup up[parent[k]]
    IN {k \in Used : n \in up[k]}

Reference(n) ==
    LET files == {k \in Under(n) : ~is_dir[k]}
    IN [size  |-> FoldFunctionOnSet(LAMBDA x, y : x + y, 0, size, files),
        files |-> Cardinality(files),
        dirs  |-> Cardinality(Under(n) \ files)]

(***************************************************************************)
(* After aggregate, every directory's totals are the files, the            *)
(* directories and the bytes under it, at every depth.                     *)
(***************************************************************************)
TotalsRight ==
    walk # "aggregate" /\ "aggregate" \notin short =>
        \A n \in Used : is_dir[n] => totals[n] = Reference(n)

(***************************************************************************)
(* After sort_tree the children of every directory, not of the root alone, *)
(* are in the order asked for.                                             *)
(***************************************************************************)
AllSorted ==
    walk = "print_node" /\ "sort_tree" \notin short =>
        \A n \in Used : \A i, j \in DOMAIN children[n] :
            i < j => Before(children[n][i], children[n][j])

(***************************************************************************)
(* The counts at the foot are those of the root's own line, but for a      *)
(* directory that could not be stat'ed.                                    *)
(***************************************************************************)
FootMatchesRoot ==
    /\ walk \in {"node_free", "exit"}
    /\ {"aggregate", "print_node"} \cap short = {}
    => /\ file_count = totals[1].files
       /\ dir_count = totals[1].dirs
                        - Cardinality({n \in Nodes : stat_err[n]})

(***************************************************************************)
(* node_free frees no node twice and looks at none it has freed; when no   *)
(* allocation fails it frees them all.                                     *)
(***************************************************************************)
FreedOnce ==
    /\ walk = "node_free" =>
        /\ \A i \in DOMAIN stack : stack[i].node \notin freed
        /\ \A i, j \in DOMAIN stack : stack[i].node = stack[j].node => i = j
    /\ walk = "exit" /\ "node_free" \notin short => freed = Used
=============================================================================
