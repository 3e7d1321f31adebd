------------------------------- MODULE TreeBin -------------------------------
(***************************************************************************)
(* The bins for large free chunks of dlmalloc.c, the allocator of          *)
(* libudirt.  A bin is a trie over the sizes of a range: a node holds the  *)
(* chunks of one size, in the order they will be used, and its subtrees    *)
(* the sizes whose next bit is 0 and 1.  Sizes are counted in words of     *)
(* 8 bytes and are even; TREEBIN_SHIFT is 5 in the code.                   *)
(***************************************************************************)
EXTENDS Naturals, Sequences

CONSTANTS
    TREEBIN_SHIFT,   \* a chunk of 2^TREEBIN_SHIFT words is large
    NTREEBINS

ASSUME TreeAssumption == TREEBIN_SHIFT \in Nat \ {0, 1} /\ NTREEBINS \in Nat \ {0}

is_small(s) == s < 2 ^ TREEBIN_SHIFT

\* No tree.
Nil == [size |-> 0, chain |-> <<>>, child |-> <<>>]

\* The bit of a size that decides between the subtrees; bits run out at 0.
Bit(s, k) == IF k < 0 THEN 0 ELSE (s \div 2 ^ k) % 2

\* The bit that is set highest.
RECURSIVE HighBit(_)
HighBit(x) == IF x < 2 THEN 0 ELSE 1 + HighBit(x \div 2)

compute_tree_index(s) ==
    LET x == s \div 2 ^ TREEBIN_SHIFT
        k == HighBit(x)
    IN  IF x = 0 THEN 0
        ELSE IF 2 * k + 1 > NTREEBINS - 1 THEN NTREEBINS - 1
        ELSE 2 * k + Bit(s, k + TREEBIN_SHIFT - 1)

\* The first bit that is decided in a bin, other than the last bin, which no
\* size of a model reaches.
bit_for_tree_index(i) == i \div 2 + TREEBIN_SHIFT - 2

-----------------------------------------------------------------------------
(* insert_large_chunk and unlink_large_chunk.                              *)

\* Which subtree a size belongs to.
Place(s, k) == Bit(s, k) + 1

RECURSIVE Insert(_, _, _, _)
Insert(t, x, s, k) ==
    IF t = Nil THEN [size |-> s, chain |-> <<x>>, child |-> <<Nil, Nil>>]
    ELSE IF t.size = s THEN [t EXCEPT !.chain = Append(@, x)]
    ELSE [t EXCEPT !.child[Place(s, k)] = Insert(@, x, s, k - 1)]

IsLeaf(t) == t.child = <<Nil, Nil>>

\* The subtree on the way to the rightmost leaf.
Rightmost(t) == IF t.child[2] # Nil THEN 2 ELSE 1

RECURSIVE LastLeaf(_)
LastLeaf(t) == IF IsLeaf(t) THEN t ELSE LastLeaf(t.child[Rightmost(t)])

RECURSIVE DropLast(_)
DropLast(t) ==
    IF IsLeaf(t) THEN Nil ELSE [t EXCEPT !.child[Rightmost(t)] = DropLast(@)]

\* Mutant: the node is replaced by its right child, without the left one.
Replaced_child(t) == t.child[Rightmost(t)]

\* A node without chunks is replaced by the rightmost leaf below it.
Replaced(t) ==
    IF IsLeaf(t) THEN Nil
    ELSE [LastLeaf(t) EXCEPT !.child = DropLast(t).child]

RECURSIVE Holds(_, _)
Holds(t, x) ==
    /\ t # Nil
    /\ \/ \E i \in DOMAIN t.chain : t.chain[i] = x
       \/ \E j \in {1, 2} : Holds(t.child[j], x)

RECURSIVE Unlink(_, _)
Unlink(t, x) ==
    IF \E i \in DOMAIN t.chain : t.chain[i] = x
    THEN IF Len(t.chain) > 1
         THEN [t EXCEPT !.chain = SelectSeq(@, LAMBDA y : y # x)]
         ELSE Replaced(t)
    ELSE LET j == IF Holds(t.child[1], x) THEN 1 ELSE 2
         IN  [t EXCEPT !.child[j] = Unlink(@, x)]

\* The sizes a tree holds, with the chunks of each.
RECURSIVE Nodes(_)
Nodes(t) == IF t = Nil THEN {}
            ELSE {<<t.size, t.chain>>} \cup Nodes(t.child[1]) \cup Nodes(t.child[2])

insert_large_chunk(treebins, x, s) ==
    LET i == compute_tree_index(s)
    IN  [treebins EXCEPT ![i] = Insert(@, x, s, bit_for_tree_index(i))]

unlink_large_chunk(treebins, x) ==
    LET i == CHOOSE j \in DOMAIN treebins : Holds(treebins[j], x)
    IN  [treebins EXCEPT ![i] = Unlink(@, x)]

-----------------------------------------------------------------------------
(* The search of tmalloc_large and tmalloc_small.                          *)

\* The node of the two that fits nb better; the first one when it is as good.
Better(v, t, nb) ==
    IF t.size >= nb /\ (v = Nil \/ t.size < v.size) THEN t ELSE v

\* Down the bits of nb: the best node met, and the deepest subtree passed by
\* that holds larger sizes only.
RECURSIVE Descend(_, _, _, _, _)
Descend(t, nb, k, v, rst) ==
    LET best == Better(v, t, nb)
        next == t.child[Place(nb, k)]
        right == t.child[2]
        passed == IF Place(nb, k) = 1 /\ right # Nil THEN right ELSE rst
    IN  IF best.size = nb THEN [v |-> best, t |-> Nil]
        ELSE IF next = Nil THEN [v |-> best, t |-> passed]
        ELSE Descend(next, nb, k - 1, best, passed)

leftmost_child(t) == IF t.child[1] # Nil THEN t.child[1] ELSE t.child[2]

RECURSIVE Least(_, _, _)
Least(t, nb, v) ==
    IF t = Nil THEN v ELSE Least(leftmost_child(t), nb, Better(v, t, nb))

\* The first bin after i, in order, that is not empty.
NextBin(treebins, i) ==
    LET above == {j \in DOMAIN treebins : j > i /\ treebins[j] # Nil}
    IN  IF above = {} THEN Nil
        ELSE treebins[CHOOSE j \in above : \A l \in above : j <= l]

\* The node tmalloc_large finds for a large request, Nil when there is none.
Fit(treebins, nb) ==
    LET i == compute_tree_index(nb)
        d == IF treebins[i] = Nil THEN [v |-> Nil, t |-> Nil]
             ELSE Descend(treebins[i], nb, bit_for_tree_index(i), Nil, Nil)
        t == IF d.t = Nil /\ d.v = Nil THEN NextBin(treebins, i) ELSE d.t
    IN  Least(t, nb, d.v)

\* The node tmalloc_small takes for a small request.
SmallFit(treebins, nb) ==
    LET full == {j \in DOMAIN treebins : treebins[j] # Nil}
    IN  Least(treebins[CHOOSE j \in full : \A l \in full : j <= l], nb, Nil)

=============================================================================
