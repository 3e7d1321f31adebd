-------------------------------- MODULE Heap ---------------------------------
(***************************************************************************)
(* The allocator of libudirt: dlmalloc.c as udirt-malloc.c builds it,      *)
(* without locks and MORECORE, on mmap.  Breakpoints, thread structures,   *)
(* names and messages live in it, and not in the heap of the debuggee.     *)
(*                                                                         *)
(* Memory is divided into chunks with boundary tags.  A free chunk is      *)
(* dv (the rest of the chunk split last), top (the end of the newest       *)
(* segment), or in a bin of its size.  Sizes and addresses are counted in  *)
(* words of 8 bytes; a chunk starts at an even one, and its memory two     *)
(* words later.  One call runs at a time.                                  *)
(***************************************************************************)
EXTENDS TreeBin, Integers, FiniteSets, FiniteSetsExt, SequencesExt

CONSTANTS
    PageSize,
    Granularity,     \* what is requested of mmap at a time
    Pages,           \* how many pages there are
    MmapThreshold,   \* from which size on chunks are mapped one by one
    TrimThreshold,   \* how large top may be
    ReleaseRate,     \* MAX_RELEASE_CHECK_RATE
    Requests,        \* the sizes asked for, in words: sets of those used together
    MaxBlocks        \* bound on the blocks held by the library

ASSUME HeapAssumption ==
    /\ PageSize \in Nat /\ PageSize % 2 = 0 /\ PageSize > 0
    /\ Granularity % PageSize = 0
    /\ Granularity >= 2 ^ TREEBIN_SHIFT + 10
    /\ MmapThreshold >= 2 ^ TREEBIN_SHIFT
    /\ \A n \in {Pages, TrimThreshold, ReleaseRate, MaxBlocks} : n \in Nat
    /\ Requests \subseteq SUBSET Nat

MIN_CHUNK_SIZE == 4
TOP_FOOT_SIZE == 10
SEGMENT_SIZE == 6     \* the chunk that holds a struct malloc_segment
MMAP_FOOT_PAD == 4
Never == 1000000      \* MAX_SIZE_T as a limit

VARIABLES
    sizes,   \* the sizes a behaviour asks for
    heap,    \* the state of the allocator, its chunks, and the pages mapped
    blocks   \* history: the chunks the library holds, with the size it asked for

vars == <<sizes, heap, blocks>>

Align(n, unit) == ((n + unit - 1) \div unit) * unit

\* Mutant: no word for the head.
request2size_head(words) ==
    IF words < MIN_CHUNK_SIZE - 1 THEN MIN_CHUNK_SIZE ELSE Align(words, 2)

\* request2size; an even number of words, with one for the head.
request2size(words) ==
    IF words < MIN_CHUNK_SIZE - 1 THEN MIN_CHUNK_SIZE ELSE Align(words + 1, 2)

PagesOf(base, size) == {a \div PageSize : a \in base .. base + size - 1}

\* Where mmap may place a region of that size.
Unmapped(mapped, size) ==
    {base \in {i * PageSize : i \in 1 .. Pages} :
        /\ base + size <= (Pages + 1) * PageSize
        /\ PagesOf(base, size) \cap mapped = {}}

\* tag: the heads of all chunks, with the size of the chunk before in foot
\* when that is free; otherwise the word is part of its memory.  A segment
\* other than the newest has its record in a chunk at its end.
InitialHeap ==
    [tag |-> [p \in {} |-> 0],
     smallbins |-> [s \in {n \in MIN_CHUNK_SIZE .. 2 ^ TREEBIN_SHIFT - 1 : n % 2 = 0} |-> <<>>],
     treebins |-> [i \in 0 .. NTREEBINS - 1 |-> Nil],
     dv |-> 0, dvsize |-> 0, top |-> 0, topsize |-> 0,
     segments |-> <<>>, least_addr |-> 0, footprint |-> 0,
     trim_check |-> 0, release_checks |-> 0, mapped |-> {}, error |-> FALSE]

-----------------------------------------------------------------------------
(* Boundary tags.                                                          *)

\* The head at p; what was inside the chunk is no tag any more.
SetHead(h, p, size, cinuse, pinuse) ==
    LET old == h.tag
        foot == IF p \in DOMAIN old /\ ~pinuse THEN old[p].foot ELSE 0
    IN  [h EXCEPT !.tag =
           [a \in (DOMAIN old \ (p .. p + size - 1)) \cup {p} |->
              IF a = p
              THEN [size |-> size, cinuse |-> cinuse, pinuse |-> pinuse, foot |-> foot]
              ELSE old[a]]]

\* The bit for p in the chunk n after it, and the foot of p.
SetPinuse(h, n) == [h EXCEPT !.tag[n].pinuse = TRUE, !.tag[n].foot = 0]
ClearPinuse(h, n) == [h EXCEPT !.tag[n].pinuse = FALSE]
SetFoot(h, p, size) == [h EXCEPT !.tag[p + size].foot = size]

chunksize(h, p) == h.tag[p].size
is_inuse(h, p) == h.tag[p].cinuse \/ ~h.tag[p].pinuse
is_mmapped(h, p) == ~h.tag[p].cinuse /\ ~h.tag[p].pinuse

set_inuse(h, p, size) ==
    LET pinuse == p \notin DOMAIN h.tag \/ h.tag[p].pinuse
        g == SetHead(h, p, size, TRUE, pinuse)
    IN  IF p + size \in DOMAIN g.tag THEN SetPinuse(g, p + size) ELSE g

set_inuse_and_pinuse(h, p, size) ==
    SetPinuse(SetHead(h, p, size, TRUE, TRUE), p + size)

set_size_and_pinuse_of_inuse_chunk(h, p, size) == SetHead(h, p, size, TRUE, TRUE)

set_size_and_pinuse_of_free_chunk(h, p, size) ==
    SetFoot(SetHead(h, p, size, FALSE, TRUE), p, size)

set_free_with_pinuse(h, p, size, n) ==
    set_size_and_pinuse_of_free_chunk(ClearPinuse(h, n), p, size)

\* The head of top has no foot.
SetTop(h, p, size) ==
    [SetHead(h, p, size, FALSE, TRUE) EXCEPT !.top = p, !.topsize = size]

\* The checks before a chunk is freed or resized; a failing one aborts.
ok_address(h, p) == p >= h.least_addr

-----------------------------------------------------------------------------
(* Bins.                                                                   *)

insert_small_chunk(h, p, size) == [h EXCEPT !.smallbins[size] = <<p>> \o @]

insert_chunk(h, p, size) ==
    IF is_small(size) THEN insert_small_chunk(h, p, size)
    ELSE [h EXCEPT !.treebins = insert_large_chunk(@, p, size)]

unlink_chunk(h, p, size) ==
    IF is_small(size)
    THEN [h EXCEPT !.smallbins[size] = SelectSeq(@, LAMBDA q : q # p)]
    ELSE [h EXCEPT !.treebins = unlink_large_chunk(@, p)]

NoDv(h) == [h EXCEPT !.dv = 0, !.dvsize = 0]

\* Mutant: the old dv is not put into a bin.
replace_dv_lost(h, p, size) == [h EXCEPT !.dv = p, !.dvsize = size]

replace_dv(h, p, size) ==
    [(IF h.dvsize # 0 THEN insert_small_chunk(h, h.dv, h.dvsize) ELSE h)
        EXCEPT !.dv = p, !.dvsize = size]

-----------------------------------------------------------------------------
(* dlmalloc.  The result is the heap and the chunk found, 0 when there is  *)
(* none.                                                                   *)

Found(h, p) == [h |-> h, p |-> p]

\* The chunk p is divided; the rest is free.
Carve(h, p, nb, rsize) ==
    set_size_and_pinuse_of_free_chunk(
        set_size_and_pinuse_of_inuse_chunk(h, p, nb), p + nb, rsize)

\* The chunk p of a bin is used whole, or its rest becomes dv.
UseAndKeepRest(h, p, size, nb) ==
    Found(IF size - nb < MIN_CHUNK_SIZE
          THEN set_inuse_and_pinuse(h, p, size)
          ELSE replace_dv(Carve(h, p, nb, size - nb), p + nb, size - nb), p)

\* The smallest size from nb on with a chunk in its small bin.
SmallSizes(h, nb) == {s \in DOMAIN h.smallbins : s >= nb /\ h.smallbins[s] # <<>>}

FromSmallBin(h, nb) ==
    LET s == Min(SmallSizes(h, nb))
        p == Head(h.smallbins[s])
    IN  UseAndKeepRest(unlink_chunk(h, p, s), p, s, nb)

tmalloc_small(h, nb) ==
    LET v == SmallFit(h.treebins, nb)
        p == v.chain[1]
    IN  UseAndKeepRest(unlink_chunk(h, p, v.size), p, v.size, nb)

\* dv is used when it fits as well.
FitsBetter(h, v, nb) == v # Nil /\ (h.dvsize >= nb => v.size < h.dvsize)

tmalloc_large(h, nb) ==
    LET v == Fit(h.treebins, nb)
        p == v.chain[1]
        rsize == v.size - nb
        g == unlink_chunk(h, p, v.size)
    IN  Found(IF rsize < MIN_CHUNK_SIZE
              THEN set_inuse_and_pinuse(g, p, v.size)
              ELSE insert_chunk(Carve(g, p, nb, rsize), p + nb, rsize), p)

FromDv(h, nb) ==
    LET p == h.dv
        rsize == h.dvsize - nb
    IN  Found(IF rsize >= MIN_CHUNK_SIZE
              THEN [Carve(h, p, nb, rsize) EXCEPT !.dv = p + nb, !.dvsize = rsize]
              ELSE NoDv(set_inuse_and_pinuse(h, p, h.dvsize)), p)

FromTop(h, nb) ==
    Found(SetTop(set_size_and_pinuse_of_inuse_chunk(h, h.top, nb),
                 h.top + nb, h.topsize - nb), h.top)

TopFits(h, nb) == nb < h.topsize

\* dlmalloc without sys_alloc.
from_chunks(h, nb) ==
    LET trees == \E i \in DOMAIN h.treebins : h.treebins[i] # Nil
    IN  CASE is_small(nb) /\ nb \in SmallSizes(h, nb) -> FromSmallBin(h, nb)
          [] is_small(nb) /\ nb \notin SmallSizes(h, nb) /\ nb > h.dvsize
               /\ SmallSizes(h, nb) # {} -> FromSmallBin(h, nb)
          [] is_small(nb) /\ nb > h.dvsize /\ SmallSizes(h, nb) = {} /\ trees ->
               tmalloc_small(h, nb)
          [] ~is_small(nb) /\ FitsBetter(h, Fit(h.treebins, nb), nb) ->
               tmalloc_large(h, nb)
          [] OTHER -> IF nb <= h.dvsize THEN FromDv(h, nb)
                      ELSE IF TopFits(h, nb) THEN FromTop(h, nb)
                      ELSE Found(h, 0)

-----------------------------------------------------------------------------
(* sys_alloc.  base is what mmap returns, 0 when it fails.                 *)

\* A region is mapped.
Map(h, base, size) ==
    [h EXCEPT !.mapped = @ \cup PagesOf(base, size), !.footprint = @ + size]

Unmap(h, base, size) ==
    LET pages == PagesOf(base, size)
    IN  [h EXCEPT !.mapped = @ \ pages, !.footprint = @ - size,
                  !.tag = [a \in {b \in DOMAIN @ : b \div PageSize \notin pages} |-> @[a]]]

mmap_size(nb) == Align(nb + 8, PageSize)

\* A chunk of its own region, with neither bit set, and a fence after it.
MmappedChunk(h, p, size) ==
    LET g == SetHead(h, p, size - MMAP_FOOT_PAD, FALSE, FALSE)
    IN  SetHead(g, p + size - MMAP_FOOT_PAD, MMAP_FOOT_PAD, TRUE, TRUE)

\* Mutant: the address is set once.
Lowest_first(h, base) == [h EXCEPT !.least_addr = IF @ = 0 THEN base ELSE @]

Lowest(h, base) ==
    [h EXCEPT !.least_addr = IF @ = 0 \/ base < @ THEN base ELSE @]

mmap_alloc(h, nb, base) ==
    Found(MmappedChunk(Lowest(Map(h, base, mmap_size(nb)), base), base, mmap_size(nb)), base)

init_top(h, p, size) == [SetTop(h, p, size) EXCEPT !.trim_check = TrimThreshold]

\* The newest segment is the first one; its record is not in a chunk.
Segment(base, size) == [base |-> base, size |-> size, record |-> 0]

segment_holds(s, a) == s.base <= a /\ a < s.base + s.size

FirstSegment(h, base, size) ==
    init_top([Lowest(h, base) EXCEPT !.segments = <<Segment(base, size)>>,
                                     !.release_checks = ReleaseRate],
             base, size - TOP_FOOT_SIZE)

\* The segments that end at base and hold top, and those that start at a.
Before(h, base) == {i \in DOMAIN h.segments :
                      LET s == h.segments[i]
                      IN  s.base + s.size = base /\ segment_holds(s, h.top)}
After(h, a) == {i \in DOMAIN h.segments : h.segments[i].base = a}

\* The rest of the new region is joined with the first chunk after it.
prepend_alloc(h, p, oldfirst, nb) ==
    LET q == p + nb
        qsize == oldfirst - q
        g == set_size_and_pinuse_of_inuse_chunk(h, p, nb)
        nsize == chunksize(h, oldfirst)
    IN  Found(
          IF oldfirst = h.top THEN SetTop(g, q, h.topsize + qsize)
          ELSE IF oldfirst = h.dv
          THEN [set_size_and_pinuse_of_free_chunk(g, q, h.dvsize + qsize)
                  EXCEPT !.dv = q, !.dvsize = h.dvsize + qsize]
          ELSE IF ~is_inuse(h, oldfirst)
          THEN insert_chunk(set_free_with_pinuse(unlink_chunk(g, oldfirst, nsize), q,
                                                 qsize + nsize, oldfirst + nsize),
                            q, qsize + nsize)
          ELSE insert_chunk(set_free_with_pinuse(g, q, qsize, oldfirst), q, qsize), p)

\* The record of the old segment and a fence take the foot of the old top,
\* and the rest of the old top goes into a bin.
add_segment(h, base, size) ==
    LET old_top == h.top
        old == h.segments[CHOOSE i \in DOMAIN h.segments :
                              segment_holds(h.segments[i], old_top)]
        old_end == old.base + old.size
        asp == old_end - TOP_FOOT_SIZE
        csp == IF asp < old_top + MIN_CHUNK_SIZE THEN old_top ELSE asp
        fence == csp + SEGMENT_SIZE
        psize == csp - old_top
        g == init_top(h, base, size - TOP_FOOT_SIZE)
        f == SetHead(set_size_and_pinuse_of_inuse_chunk(g, csp, SEGMENT_SIZE),
                     fence, old_end - fence, TRUE, TRUE)
        k == [f EXCEPT !.segments = <<Segment(base, size), [Head(@) EXCEPT !.record = csp]>>
                                    \o Tail(@)]
    IN  IF csp = old_top THEN k
        ELSE insert_chunk(set_free_with_pinuse(k, old_top, psize, csp), old_top, psize)

sys_size(nb) == Align(nb + TOP_FOOT_SIZE + 2, Granularity)

\* The region is joined with its neighbours.
sys_alloc(h, nb, base) ==
    LET size == sys_size(nb)
        g == Map(h, base, size)
        low == Lowest(g, base)
        i == Min(Before(h, base))
        j == Min(After(h, base + size))
    IN  IF base = 0 THEN Found(h, 0)
        ELSE IF h.top = 0 THEN FromTop(FirstSegment(g, base, size), nb)
        ELSE IF Before(h, base) # {}
        THEN FromTop(init_top([g EXCEPT !.segments[i].size = @ + size],
                              h.top, h.topsize + size), nb)
        ELSE IF After(h, base + size) # {}
        THEN prepend_alloc([low EXCEPT !.segments[j].base = base,
                                       !.segments[j].size = @ + size],
                           base, base + size, nb)
        ELSE FromTop(add_segment(low, base, size), nb)

-----------------------------------------------------------------------------
(* Memory is given back.  ok is FALSE when munmap fails.                   *)

\* The first chunk of a segment is free and leaves room for its record only.
Unused(h, s) ==
    ~is_inuse(h, s.base) /\ s.base + chunksize(h, s.base) >= s.base + s.size - TOP_FOOT_SIZE

\* From the i-th segment on.
RECURSIVE ReleaseFrom(_, _, _)
ReleaseFrom(h, i, ok) ==
    IF i > Len(h.segments) THEN h
    ELSE LET s == h.segments[i]
             size == chunksize(h, s.base)
             g == IF s.base = h.dv THEN NoDv(h)
                  ELSE unlink_chunk(h, s.base, size)
         IN  IF ~Unused(h, s) THEN ReleaseFrom(h, i + 1, ok)
             ELSE IF ok
             THEN ReleaseFrom([Unmap(g, s.base, s.size) EXCEPT !.segments = RemoveAt(@, i)], i, ok)
             ELSE ReleaseFrom(insert_chunk(g, s.base, size), i + 1, ok)

release_unused_segments(h, ok) ==
    [ReleaseFrom(h, 2, ok) EXCEPT
        !.release_checks = Max({Len(h.segments) - 1, ReleaseRate})]

has_segment_link(h, s) ==
    \E i \in DOMAIN h.segments : segment_holds(s, h.segments[i].record)

\* top is cut down to one unit, and the unused segments are released.
sys_trim(h, ok) ==
    LET s == h.segments[1]
        extra == ((h.topsize - TOP_FOOT_SIZE + Granularity - 1) \div Granularity - 1)
                   * Granularity
        newsize == s.size - extra
        trimmed == /\ h.topsize > TOP_FOOT_SIZE /\ extra > 0 /\ s.size >= extra
                   /\ ~has_segment_link(h, s) /\ ok
        g == IF trimmed
             THEN init_top([Unmap(h, s.base + newsize, extra)
                              EXCEPT !.segments[1].size = newsize],
                           h.top, h.topsize - extra)
             ELSE h
        f == release_unused_segments(g, ok)
    IN  IF f.footprint = h.footprint /\ f.topsize > f.trim_check
        THEN [f EXCEPT !.trim_check = Never] ELSE f

\* What free and realloc do with a chunk p whose predecessor has been joined:
\* it is joined with top, dv or the free chunk after it, or goes into a bin.
\* tidy: free also trims top and counts the large chunks it puts into bins.
Forward(h, p, psize, tidy, ok) ==
    LET next == p + psize
        nsize == chunksize(h, next)
        joined == set_size_and_pinuse_of_free_chunk(unlink_chunk(h, next, nsize),
                                                    p, psize + nsize)
        total == IF h.tag[next].cinuse THEN psize ELSE psize + nsize
        alone == IF h.tag[next].cinuse THEN set_free_with_pinuse(h, p, psize, next) ELSE joined
        binned == insert_chunk(alone, p, total)
        counted == [binned EXCEPT !.release_checks = @ - 1]
    IN  IF next = h.top
        THEN LET g == SetTop(IF p = h.dv THEN NoDv(h) ELSE h, p, h.topsize + psize)
             IN  IF tidy /\ g.topsize > g.trim_check THEN sys_trim(g, ok) ELSE g
        ELSE IF next = h.dv
        THEN [set_size_and_pinuse_of_free_chunk(h, p, h.dvsize + psize)
                EXCEPT !.dv = p, !.dvsize = h.dvsize + psize]
        ELSE IF p = h.dv THEN [alone EXCEPT !.dvsize = total]
        ELSE IF is_small(total) \/ ~tidy THEN binned
        ELSE IF counted.release_checks = 0 THEN release_unused_segments(counted, ok)
        ELSE counted

\* dlfree; an error aborts the process.
dlfree(h, p, ok) ==
    LET psize == chunksize(h, p)
        prevsize == h.tag[p].foot
        prev == p - prevsize
        checked == /\ ok_address(h, p) /\ is_inuse(h, p)
                   /\ h.tag[p].pinuse \/ is_mmapped(h, p) \/ ok_address(h, prev)
                   /\ is_mmapped(h, p) \/ h.tag[p + psize].pinuse
    IN  CASE ~checked -> [h EXCEPT !.error = TRUE]
          [] checked /\ is_mmapped(h, p) ->
               IF ok THEN Unmap(h, p - prevsize, psize + prevsize + MMAP_FOOT_PAD) ELSE h
          [] checked /\ ~is_mmapped(h, p) /\ ~h.tag[p].pinuse ->
               Forward(IF prev = h.dv THEN h ELSE unlink_chunk(h, prev, prevsize),
                       prev, psize + prevsize, TRUE, ok)
          [] checked /\ ~is_mmapped(h, p) /\ h.tag[p].pinuse ->
               Forward(h, p, psize, TRUE, ok)

-----------------------------------------------------------------------------
(* dlrealloc.  remap is what mremap returns, 0 when it fails.              *)

mmap_resize(h, p, nb, remap) ==
    LET oldsize == chunksize(h, p)
        size == mmap_size(nb)
        g == Map(Unmap(h, p, oldsize + MMAP_FOOT_PAD), remap, size)
    IN  IF is_small(nb) THEN Found(h, 0)
        ELSE IF oldsize >= nb + 1 /\ oldsize - nb <= 2 * Granularity THEN Found(h, p)
        ELSE IF remap = 0 THEN Found(h, 0)
        ELSE Found(MmappedChunk(Lowest(g, remap), remap, size), remap)

\* p keeps nb words; the rest, in use for a moment, is disposed of.
\* dispose_chunk differs from free in that it leaves the segments alone.
SplitOff(h, p, nb, rsize) ==
    LET r == p + nb
    IN  Forward(set_inuse(set_inuse(h, p, nb), r, rsize), r, rsize, FALSE, TRUE)

IntoTop(h, p, nb) ==
    LET newsize == chunksize(h, p) + h.topsize
    IN  SetTop(set_inuse(h, p, nb), p + nb, newsize - nb)

\* Mutant: the chunk after the new dv keeps the old foot.
IntoDv_foot(h, p, nb) ==
    LET newsize == chunksize(h, p) + h.dvsize
        dsize == newsize - nb
    IN  IF dsize >= MIN_CHUNK_SIZE
        THEN [SetHead(set_inuse(h, p, nb), p + nb, dsize, FALSE, TRUE)
                EXCEPT !.dv = p + nb, !.dvsize = dsize]
        ELSE NoDv(set_inuse(h, p, newsize))

IntoDv(h, p, nb) ==
    LET newsize == chunksize(h, p) + h.dvsize
        dsize == newsize - nb
    IN  IF dsize >= MIN_CHUNK_SIZE
        THEN [ClearPinuse(set_size_and_pinuse_of_free_chunk(set_inuse(h, p, nb), p + nb, dsize),
                          p + newsize) EXCEPT !.dv = p + nb, !.dvsize = dsize]
        ELSE NoDv(set_inuse(h, p, newsize))

IntoFree(h, p, nb) ==
    LET next == p + chunksize(h, p)
        newsize == chunksize(h, p) + chunksize(h, next)
        g == unlink_chunk(h, next, chunksize(h, next))
    IN  IF newsize - nb < MIN_CHUNK_SIZE THEN set_inuse(g, p, newsize)
        ELSE SplitOff(g, p, nb, newsize - nb)

\* The chunk is resized in place, or 0.
try_realloc_chunk(h, p, nb, remap) ==
    LET oldsize == chunksize(h, p)
        next == p + oldsize
        nsize == chunksize(h, next)
    IN  IF ~(ok_address(h, p) /\ is_inuse(h, p) /\ h.tag[next].pinuse)
        THEN Found([h EXCEPT !.error = TRUE], 0)
        ELSE IF is_mmapped(h, p) THEN mmap_resize(h, p, nb, remap)
        ELSE IF oldsize >= nb
        THEN Found(IF oldsize - nb >= MIN_CHUNK_SIZE
                   THEN SplitOff(h, p, nb, oldsize - nb) ELSE h, p)
        ELSE IF next = h.top
        THEN IF oldsize + h.topsize > nb THEN Found(IntoTop(h, p, nb), p) ELSE Found(h, 0)
        ELSE IF h.tag[next].cinuse \/ oldsize + nsize < nb THEN Found(h, 0)
        ELSE IF next = h.dv THEN Found(IntoDv(h, p, nb), p)
        ELSE Found(IntoFree(h, p, nb), p)

-----------------------------------------------------------------------------
(* The calls.                                                              *)

Init ==
    /\ sizes \in Requests
    /\ heap = InitialHeap
    /\ blocks = [p \in {} |-> 0]

Bound(held, p, words) ==
    [q \in (DOMAIN held) \cup {p} |-> IF q = p THEN words ELSE held[q]]

Without(held, p) == [q \in DOMAIN held \ {p} |-> held[q]]

\* What sys_alloc may find for nb words: a region for the chunk alone, or a
\* new or longer segment, or nothing.
FromSystem(h, nb) ==
    LET direct == IF nb >= MmapThreshold /\ h.topsize # 0
                  THEN Unmapped(h.mapped, mmap_size(nb)) ELSE {}
    IN  {mmap_alloc(h, nb, base) : base \in direct} \cup
        {sys_alloc(h, nb, base) : base \in Unmapped(h.mapped, sys_size(nb)) \cup {0}}

\* The results of dlmalloc.
dlmalloc(h, nb) ==
    LET r == from_chunks(h, nb) IN IF r.p # 0 THEN {r} ELSE FromSystem(h, nb)

udi_malloc(words) ==
    /\ Cardinality(DOMAIN blocks) < MaxBlocks
    /\ \E r \in dlmalloc(heap, request2size(words)) :
         /\ heap' = r.h
         /\ blocks' = IF r.p = 0 THEN blocks ELSE Bound(blocks, r.p, words)

udi_free(p) ==
    /\ p \in DOMAIN blocks
    /\ \E ok \in BOOLEAN : heap' = dlfree(heap, p, ok)
    /\ blocks' = Without(blocks, p)

\* Where mremap may put the region of a chunk.
Remapped(h, p, nb) ==
    LET own == PagesOf(p, chunksize(h, p) + MMAP_FOOT_PAD)
        size == mmap_size(nb)
    IN  IF ~is_mmapped(h, p) THEN {0}
        ELSE {0} \cup Unmapped(h.mapped, size)
                 \cup ({p} \cap Unmapped(h.mapped \ own, size))

\* The results of dlrealloc: in place, or a new chunk is allocated and the old
\* one freed.
dlrealloc(h, p, nb) ==
    LET moved == {IF r.p = 0 THEN r ELSE Found(dlfree(r.h, p, ok), r.p) :
                    r \in dlmalloc(h, nb), ok \in BOOLEAN}
        result(t) == IF t.p # 0 \/ t.h.error THEN {t} ELSE moved
    IN  UNION {result(try_realloc_chunk(h, p, nb, remap)) : remap \in Remapped(h, p, nb)}

udi_realloc(p, words) ==
    /\ p \in DOMAIN blocks
    /\ \E r \in dlrealloc(heap, p, request2size(words)) :
         /\ heap' = r.h
         /\ blocks' = IF r.p = 0 THEN blocks ELSE Bound(Without(blocks, p), r.p, words)

Next ==
    /\ ~heap.error
    /\ UNCHANGED sizes
    /\ \/ \E words \in sizes : udi_malloc(words)
       \/ \E p \in DOMAIN blocks : udi_free(p)
       \/ \E p \in DOMAIN blocks, words \in sizes : udi_realloc(p, words)

Spec == Init /\ [][Next]_vars

-----------------------------------------------------------------------------
(* Properties.                                                             *)

\* Everything is of its type: chunks lie in the pages there are, bins hold
\* chunks, and dv and top are chunks or 0.
TypeOK ==
    /\ DOMAIN heap.tag \subseteq 0 .. (Pages + 1) * PageSize
    /\ \A p \in DOMAIN heap.tag :
         /\ heap.tag[p].size \in 1 .. Pages * PageSize
         /\ heap.tag[p].cinuse \in BOOLEAN /\ heap.tag[p].pinuse \in BOOLEAN
    /\ \A s \in DOMAIN heap.smallbins : ToSet(heap.smallbins[s]) \subseteq DOMAIN heap.tag
    /\ {heap.dv, heap.top} \subseteq DOMAIN heap.tag \cup {0}
    /\ heap.dv = 0 <=> heap.dvsize = 0
    /\ heap.top = 0 <=> heap.segments = <<>>
    /\ heap.mapped \subseteq 1 .. Pages
    /\ heap.release_checks \in 0 .. Max({ReleaseRate, Pages})
    /\ \A p \in DOMAIN blocks : blocks[p] \in sizes

\* The chunks of a segment follow each other without gap from its start to
\* its end, or to top and the room for a record behind it; the bit and the
\* foot a chunk keeps for the one before it are right; and no two free chunks
\* are neighbours, however free, realloc and sys_alloc have joined and
\* divided them (assertions of do_check_malloc_state).
Tiled ==
    \A i \in DOMAIN heap.segments :
        LET s == heap.segments[i]
            chunks == {p \in DOMAIN heap.tag : segment_holds(s, p)}
            end == s.base + s.size
            next(p) == p + chunksize(heap, p)
        IN  /\ s.base \in chunks /\ heap.tag[s.base].pinuse
            /\ i = 1 <=> heap.top \in chunks
            /\ \A p \in chunks :
                 IF p = heap.top
                 THEN chunksize(heap, p) = heap.topsize /\ next(p) = end - TOP_FOOT_SIZE
                 ELSE /\ next(p) \in chunks \/ next(p) = end
                      /\ next(p) \in chunks =>
                           /\ heap.tag[next(p)].pinuse = heap.tag[p].cinuse
                           /\ ~heap.tag[p].cinuse =>
                                /\ heap.tag[next(p)].cinuse
                                /\ heap.tag[next(p)].foot = chunksize(heap, p)

\* The nodes of the i-th bin for large chunks.
TreeNodes(i) == Nodes(heap.treebins[i])

SumOver(nodes) == FoldSet(LAMBDA n, sum : sum + Len(n[2]), 0, nodes)

\* Every free chunk other than top can be found: it is dv or in the one bin
\* for its size, once; and dv and the bins hold nothing else.  A chunk that
\* is joined with a neighbour has left its bin.
Binned ==
    LET free == {p \in DOMAIN heap.tag : ~is_inuse(heap, p)} \ {heap.top}
        small == {<<s, heap.smallbins[s]>> : s \in DOMAIN heap.smallbins}
        all == small \cup UNION {TreeNodes(i) : i \in DOMAIN heap.treebins}
        found == UNION {ToSet(n[2]) : n \in all} \cup ({heap.dv} \ {0})
    IN  /\ free = found
        /\ SumOver(all) + (IF heap.dv = 0 THEN 0 ELSE 1)
             = Cardinality(free)
        /\ \A n \in all : \A p \in ToSet(n[2]) : chunksize(heap, p) = n[1]
        /\ \A i \in DOMAIN heap.treebins : \A n \in TreeNodes(i) :
             ~is_small(n[1]) /\ compute_tree_index(n[1]) = i
        /\ heap.dv # 0 => chunksize(heap, heap.dv) = heap.dvsize

\* The memory the library holds is its own: as large as it asked for, mapped,
\* and shared with no other block, no record of a segment, no free chunk.
BlocksHeld ==
    LET memory(p) == p + 2 .. p + 1 + blocks[p]
    IN  /\ \A p \in DOMAIN blocks :
             /\ p \in DOMAIN heap.tag /\ is_inuse(heap, p)
             /\ chunksize(heap, p) >=
                  blocks[p] + (IF is_mmapped(heap, p) THEN 2 ELSE 1)
             /\ PagesOf(p + 2, blocks[p]) \subseteq heap.mapped
             /\ \A i \in DOMAIN heap.segments : heap.segments[i].record # p
        /\ \A p, q \in DOMAIN blocks : p # q => memory(p) \cap memory(q) = {}

\* What is mapped is counted in the footprint and is used: every page belongs
\* to a segment or to a chunk mapped by itself, and every chunk in use that
\* the library does not hold is the record of a segment or a fence.
Accounted ==
    LET records == {heap.segments[i].record : i \in DOMAIN heap.segments} \ {0}
        single == {p \in DOMAIN heap.tag : is_mmapped(heap, p)}
        fences == {p + SEGMENT_SIZE : p \in records}
                    \cup {p + chunksize(heap, p) : p \in single}
    IN  /\ heap.footprint = Cardinality(heap.mapped) * PageSize
        /\ heap.mapped = UNION ({PagesOf(heap.segments[i].base, heap.segments[i].size) :
                                   i \in DOMAIN heap.segments} \cup
                                {PagesOf(p, chunksize(heap, p) + MMAP_FOOT_PAD) : p \in single})
        /\ {p \in DOMAIN heap.tag : heap.tag[p].cinuse}
             = (DOMAIN blocks \ single) \cup records \cup fences

\* The records the allocator keeps of its memory agree with each other.
WellFormed == TypeOK /\ Tiled /\ Accounted

\* The checks of free and realloc never fail: no legal sequence of calls
\* makes the allocator take its own memory for corrupted and abort.
NoCorruption == ~heap.error

=============================================================================
