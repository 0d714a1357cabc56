-------------------------------- MODULE Slob --------------------------------
(***************************************************************************)
(* The kernel heap (kmalloc.c): a circular list of free blocks in the      *)
(* order of their addresses, searched from where the last call stopped,    *)
(* and whole pages for large requests.  Addresses count units; the arena   *)
(* has address 0 and page p begins at p * PageUnits.  The pages come from  *)
(* alloc_pages, any free run of them.  Nothing here sleeps, so a call of   *)
(* kmalloc or kfree is one step.  No caller asks for alignment.            *)
(***************************************************************************)
EXTENDS Integers, FiniteSets, FiniteSetsExt

CONSTANTS PAGE_SIZE, SLOB_UNIT, BIGBLOCK,    \* sizeof(slob_t), sizeof(bigblock_t)
          HeapPages, HeapSizes,              \* pages to be had, sizes of requests
          NoBlock                            \* NULL

ASSUME SlobAssumption ==
    /\ {PAGE_SIZE, SLOB_UNIT, BIGBLOCK, HeapPages} \subseteq Nat \ {0}
    /\ PAGE_SIZE % SLOB_UNIT = 0
    /\ SLOB_UNIT < BIGBLOCK /\ BIGBLOCK + SLOB_UNIT < PAGE_SIZE
    /\ HeapSizes \subseteq Nat \ {0}
    /\ NoBlock \notin Nat

PageUnits == PAGE_SIZE \div SLOB_UNIT
SLOB_UNITS(size) == (size + SLOB_UNIT - 1) \div SLOB_UNIT
arena == 0

NONE == -1
Addr == 0..((HeapPages + 1) * PageUnits - 1)

VARIABLES heap,        \* units and next of the blocks (0 and NONE where no block
                       \* starts, NONE outside the list), and slobfree
          live,        \* small blocks in the hands of callers
          bigblocks,   \* [bb, pages, order, size], size being what was asked for
          slob_pages,  \* pages that became blocks
          assertion    \* "NO", or the assertion that failed

heapVars == <<heap, live, bigblocks, slob_pages, assertion>>

Page(p) == p * PageUnits
\* 1 << order
Shifted[order \in Nat] == IF order = 0 THEN 1 ELSE 2 * Shifted[order - 1]
PageRun(p, order) == p..(p + Shifted[order] - 1)
FreePages == (1..HeapPages) \ (slob_pages \cup UNION {PageRun(b.pages, b.order) : b \in bigblocks})
\* alloc_pages(1 << order): the first page of a free run.
Runs(order) == {p \in 1..HeapPages : PageRun(p, order) \subseteq FreePages}

-----------------------------------------------------------------------------
(* The list.  The arena is smaller than any request and never leaves it,   *)
(* so a block that is taken always has another one in front of it.         *)

FreeBlocks(h) == {b \in Addr : h.next[b] # NONE}
\* The k-th free block behind slobfree, once around.
Behind(h, k) ==
    LET node[i \in 0..Cardinality(FreeBlocks(h))] == IF i = 0 THEN h.slobfree ELSE h.next[node[i - 1]]
    IN  node[k]

\* The block after which b belongs, at the first place from slobfree on.
ReinsertionPoint(h, b) ==
    LET Fits(cur) == \/ b > cur /\ b < h.next[cur]
                     \/ cur >= h.next[cur] /\ (b > cur \/ b < h.next[cur])
        k == Min({i \in 0..Cardinality(FreeBlocks(h)) : Fits(Behind(h, i))}) IN
    Behind(h, k)

\* b, of n units, takes over the block behind it if they touch.
JoinUpper(h, cur, b, n) ==
    LET upper == h.next[cur] IN
    IF b + n = upper
    THEN [h EXCEPT !.next[b] = h.next[upper], !.units[b] = n + h.units[upper],
                   !.next[upper] = NONE, !.units[upper] = 0]
    ELSE [h EXCEPT !.next[b] = upper, !.units[b] = n]

\* cur takes over b, or is linked to it.
JoinLower(h, cur, b) ==
    IF cur + h.units[cur] = b
    THEN [h EXCEPT !.units[cur] = @ + h.units[b], !.next[cur] = h.next[b],
                   !.units[b] = 0, !.next[b] = NONE]
    ELSE [h EXCEPT !.next[cur] = b]

slob_free(h, b, n) ==
    LET cur == ReinsertionPoint(h, b) IN
    [JoinLower(JoinUpper(h, cur, b, n), cur, b) EXCEPT !.slobfree = cur]

\* How far the search goes, from slobfree->next to slobfree; 0 if nothing fits.
Search(h, units) ==
    LET Roomy == {k \in 1..Cardinality(FreeBlocks(h)) : h.units[Behind(h, k)] >= units} IN
    IF Roomy = {} THEN 0 ELSE Min(Roomy)

RestUnits(h, cur, units) == h.units[cur] - units

\* The block at which the search has stopped, without the surplus at its end.
TakeUnits(h, k, units) ==
    LET prev == Behind(h, k - 1)
        cur == Behind(h, k)
        rest == cur + units
        taken == [h EXCEPT !.next[cur] = NONE, !.slobfree = prev] IN
    IF h.units[cur] = units
    THEN [taken EXCEPT !.next[prev] = h.next[cur]]
    ELSE [taken EXCEPT !.next[prev] = rest, !.next[rest] = h.next[cur],
                       !.units[rest] = RestUnits(h, cur, units), !.units[cur] = units]

-----------------------------------------------------------------------------
\* The outcomes of slob_alloc: a block, after a new page if nothing fits, or
\* NULL when there is no page.
Outcome(h, units, pages) ==
    [block |-> Behind(h, Search(h, units)), heap |-> TakeUnits(h, Search(h, units), units), pages |-> pages]
slob_alloc(size) ==
    LET units == SLOB_UNITS(size) IN
    IF Search(heap, units) # 0 THEN {Outcome(heap, units, {})}
    ELSE IF Runs(0) = {} THEN {[block |-> NoBlock, heap |-> heap, pages |-> {}]}
    ELSE {Outcome(slob_free(heap, Page(p), PageUnits), units, {p}) : p \in Runs(0)}

IsSmall(size) == size < PAGE_SIZE - SLOB_UNIT

\* A small request carries a slob_t in front of it.
kmalloc_small(size) ==
    /\ assertion = "NO" /\ IsSmall(size)
    /\ IF size + SLOB_UNIT + SLOB_UNIT >= PAGE_SIZE
       THEN assertion' = "(size + SLOB_UNIT) < PAGE_SIZE" /\ UNCHANGED <<heap, live, slob_pages>>
       ELSE /\ \E r \in slob_alloc(size + SLOB_UNIT) :
                  /\ heap' = r.heap
                  /\ slob_pages' = slob_pages \cup r.pages
                  /\ live' = IF r.block = NoBlock THEN live ELSE live \cup {r.block}
            /\ UNCHANGED assertion
    /\ UNCHANGED bigblocks

\* for (; size > 4096; size >>= 1) order++
find_order(size) == Min({k \in 0..size : size \div Shifted[k] <= PAGE_SIZE})

\* Mutant: the bigblock_t stays when there are no pages for it.
Mutant_KeepsHeader(h, bb) == h
GiveBack(h, bb) == slob_free(h, bb, SLOB_UNITS(BIGBLOCK))

\* A large one has its pages to itself, and a bigblock_t in the heap.
kmalloc_big(size) ==
    /\ assertion = "NO" /\ ~IsSmall(size)
    /\ \E r \in slob_alloc(BIGBLOCK) :
          LET order == find_order(size)
              free == {p \in Runs(order) : PageRun(p, order) \cap r.pages = {}} IN
          /\ slob_pages' = slob_pages \cup r.pages
          /\ IF r.block # NoBlock /\ free # {}
             THEN /\ heap' = r.heap
                  /\ \E p \in free : bigblocks' = bigblocks \cup {[bb |-> r.block, pages |-> p, order |-> order, size |-> size]}
             ELSE /\ heap' = IF r.block = NoBlock THEN r.heap ELSE GiveBack(r.heap, r.block)
                  /\ UNCHANGED bigblocks
    /\ UNCHANGED <<live, assertion>>

\* kfree of a large block, found by its page in bigblocks; of a small one, by
\* the units in front of it.
kfree_big(b) ==
    /\ assertion = "NO"
    /\ bigblocks' = bigblocks \ {b}
    /\ heap' = slob_free(heap, b.bb, SLOB_UNITS(BIGBLOCK))
    /\ UNCHANGED <<live, slob_pages, assertion>>

kfree_small(m) ==
    /\ assertion = "NO"
    /\ live' = live \ {m}
    /\ heap' = slob_free(heap, m, heap.units[m])
    /\ UNCHANGED <<bigblocks, slob_pages, assertion>>

HeapNext == \/ \E size \in HeapSizes : kmalloc_small(size) \/ kmalloc_big(size)
            \/ \E m \in live : kfree_small(m)
            \/ \E b \in bigblocks : kfree_big(b)

HeapInit ==
        /\ heap = [next |-> [b \in Addr |-> IF b = arena THEN arena ELSE NONE],
                   units |-> [b \in Addr |-> IF b = arena THEN 1 ELSE 0],
                   slobfree |-> arena]
        /\ live = {} /\ bigblocks = {} /\ slob_pages = {} /\ assertion = "NO"

HeapSpec == HeapInit /\ [][HeapNext]_heapVars

-----------------------------------------------------------------------------
HeapTypeOK ==
    /\ heap.next \in [Addr -> Addr \cup {NONE}] /\ heap.units \in [Addr -> 0..Cardinality(Addr)]
    /\ heap.slobfree \in FreeBlocks(heap) /\ heap.next[arena] # NONE
    /\ live \subseteq Addr /\ slob_pages \subseteq 1..HeapPages
    /\ bigblocks \subseteq [bb : Addr, pages : 1..HeapPages, order : 0..HeapPages, size : HeapSizes]

\* Every unit of the heap lies in exactly one block: a free one, a caller's,
\* or the bigblock_t of a large request.
Blocks == FreeBlocks(heap) \cup live \cup {b.bb : b \in bigblocks}
Units == {arena} \cup UNION {Page(p)..(Page(p) + PageUnits - 1) : p \in slob_pages}
HeapPartition ==
    /\ {b \in Addr : heap.units[b] # 0} = Blocks
    /\ Cardinality(FreeBlocks(heap)) + Cardinality(live) + Cardinality(bigblocks) = Cardinality(Blocks)
    /\ \A u \in Addr : Cardinality({b \in Blocks : u \in b..(b + heap.units[b] - 1)}) = IF u \in Units THEN 1 ELSE 0

\* The list goes once through all free blocks in the order of their addresses,
\* and no two of them touch.
ListSorted ==
    \A b \in FreeBlocks(heap) :
       LET above == {c \in FreeBlocks(heap) : c > b} IN
       /\ heap.next[b] = IF above = {} THEN arena ELSE Min(above)
       /\ \A c \in above : b + heap.units[b] < c

\* slob_alloc: assert((size + SLOB_UNIT) < PAGE_SIZE).
SmallEnough == assertion = "NO"

\* A large block is as large as what was asked for.
BigEnough == \A b \in bigblocks : b.size <= PAGE_SIZE * Shifted[b.order]

\* What every call leaves behind: all units in disjoint blocks, the free ones in one sorted list.
HeapInv == HeapTypeOK /\ HeapPartition /\ ListSorted
=============================================================================
