------------------------------- MODULE MCHeap --------------------------------
(***************************************************************************)
(* The allocator on a few pages.  A chunk of 8 words is large, so that     *)
(* every bin sees several sizes.  The chunks of so small a heap make small *)
(* trees; therefore the bins for large chunks are also studied on their    *)
(* own, with free chunks of any size put in and taken out in any order.    *)
(* A behaviour is one of the allocator or one of the bins.                 *)
(***************************************************************************)
EXTENDS Heap

CONSTANTS
    Chunks,      \* the free chunks of the study of bins
    LargeSizes   \* and their sizes

\* A small chunk and one that needs two pages, without and with one between
\* them.  A large one is mapped by itself when top is used up.
Sizes == {{4, 14}, {2, 6, 14}}

VARIABLES
    bins,   \* treebins of the study
    free    \* history: the size of each chunk in them

mcvars == <<vars, bins, free>>

MCInit ==
    /\ Init
    /\ bins = InitialHeap.treebins
    /\ free = [x \in {} |-> 0]

\* A call of the allocator.
Call ==
    /\ free = [x \in {} |-> 0]
    /\ Next
    /\ UNCHANGED <<bins, free>>

PutIn(x, s) ==
    /\ x \notin DOMAIN free
    /\ bins' = insert_large_chunk(bins, x, s)
    /\ free' = Bound(free, x, s)

TakeOut(x) ==
    /\ x \in DOMAIN free
    /\ bins' = unlink_large_chunk(bins, x)
    /\ free' = Without(free, x)

Bins ==
    /\ sizes = {4, 14} /\ heap = InitialHeap
    /\ \E x \in Chunks : TakeOut(x) \/ \E s \in LargeSizes : PutIn(x, s)
    /\ UNCHANGED vars

MCSpec == MCInit /\ [][Call \/ Bins]_mcvars

-----------------------------------------------------------------------------

\* The bins hold the free chunks, and a request for a large chunk is met by
\* the smallest one that is large enough: whatever chunks were put in and
\* taken out before, the way down a tree (insert_large_chunk), the leaf that
\* takes the place of a node (unlink_large_chunk) and the search
\* (tmalloc_large) agree on where a size is, and the search passes no chunk
\* that fits better.
BestFit ==
    LET held == UNION {Nodes(bins[i]) : i \in DOMAIN bins}
    IN  /\ {<<x, free[x]>> : x \in DOMAIN free}
             = UNION {{<<x, n[1]>> : x \in ToSet(n[2])} : n \in held}
        /\ \A nb \in LargeSizes \cup {s + 2 : s \in LargeSizes} :
             LET enough == {free[x] : x \in DOMAIN free} \ (0 .. nb - 1)
             IN  Fit(bins, nb).size = IF enough = {} THEN 0 ELSE Min(enough)

=============================================================================
