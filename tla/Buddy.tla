-------------------------------- MODULE Buddy --------------------------------
(***************************************************************************)
(* The buddy allocator of lab02 (buddy_system_pmm.c): one list of free     *)
(* blocks per order, splitting on the way down, merging on the way up.     *)
(* The manager is called with interrupts off (pmm.c): a call is one step.  *)
(***************************************************************************)
EXTENDS Integers, Sequences, FiniteSets, FiniteSetsExt, Functions, SequencesExt

CONSTANTS BuddyPages,    \* pages given to init_memmap
          Requests,      \* numbers of pages that are asked for
          NoPage,        \* NULL
          CountLimit     \* bound on free_count

VARIABLES free_area,     \* of each order: first pages, from the head on
          free_count,    \* nr_free
          allocated,     \* blocks in the hands of callers: first page, requested size
          buddy_result   \* the last order asked for and the answer; <<>> after a return

buddyVars == <<free_area, free_count, allocated, buddy_result>>

power_of_two[order \in Nat] == IF order = 0 THEN 1 ELSE 2 * power_of_two[order - 1]

\* get_order(fix_size(n)): the order of the least power of two not below n.
Order(n) == Min({k \in 0..n : power_of_two[k] >= n})

max_order == Order(BuddyPages)
total_pages == power_of_two[max_order]
Orders == 0..max_order
Managed == 0..(total_pages - 1)

ASSUME BuddyAssumption ==
    /\ BuddyPages \in Nat \ {0} /\ Requests \subseteq Nat \ {0}
    /\ CountLimit \in Nat /\ total_pages <= CountLimit

-----------------------------------------------------------------------------
\* A block behind all others of its order is dropped.
Mutant_DropsLast(list, block) ==
    LET behind == {i \in DOMAIN list : block < list[i]} IN
    IF behind = {} THEN list ELSE InsertAt(list, Min(behind), block)

\* Before the first block behind it; list_add puts a block that is behind all
\* others at the head.
buddy_insert_block(list, block) ==
    LET behind == {i \in DOMAIN list : block < list[i]} IN
    InsertAt(list, IF behind = {} THEN 1 ELSE Min(behind), block)

\* The upper halves, from the order of the block that was found down to the one needed.
Split(lists, block, from, to) ==
    [k \in Orders |-> IF k \in to..(from - 1) THEN buddy_insert_block(lists[k], block + power_of_two[k])
                                              ELSE lists[k]]

CountAfter(order) == free_count - power_of_two[order]

buddy_alloc_pages(n) ==
    LET required == Order(n)
        Filled == {k \in required..max_order : free_area[k] # <<>>}
        k == Min(Filled)
        block == Head(free_area[k]) IN
    IF n > free_count \/ Filled = {}
    THEN buddy_result' = <<required, NoPage>> /\ UNCHANGED <<free_area, free_count, allocated>>
    ELSE /\ free_area' = Split([free_area EXCEPT ![k] = Tail(@)], block, k, required)
         /\ free_count' = CountAfter(required)
         /\ allocated' = allocated \cup {<<block, n>>}
         /\ buddy_result' = <<required, block>>

\* Blocks merge with what follows them, buddy or not.
Mutant_AnyNeighbour(block, order) == block + power_of_two[order]

\* offset ^ block_size
BuddyOf(block, order) ==
    IF (block \div power_of_two[order]) % 2 = 0 THEN block + power_of_two[order]
    ELSE block - power_of_two[order]

\* list_del of the entry that the search found.
Unlinked(list, block) == RemoveAt(list, Min({i \in DOMAIN list : list[i] = block}))

\* One round of the merging loop: the block joins its buddy if that is free.
MergeOnce(m, k) ==
    LET buddy == BuddyOf(m.block, k) IN
    IF m.order = k /\ buddy \in Range(m.lists[k])
    THEN [lists |-> [m.lists EXCEPT ![k] = Unlinked(@, buddy)],
          block |-> Min({m.block, buddy}), order |-> k + 1]
    ELSE m

\* The merging loop: lists, block and order after it.
Merged(lists, block, order) ==
    LET merge[k \in Orders] ==
           IF k <= order THEN [lists |-> lists, block |-> block, order |-> order]
           ELSE MergeOnce(merge[k - 1], k - 1) IN
    merge[max_order]

\* The count grows by the merged block, of which a part was counted before.
buddy_free_pages(block, n) ==
    LET m == Merged(free_area, block, Order(n)) IN
    /\ <<block, n>> \in allocated
    /\ free_count + power_of_two[m.order] <= CountLimit
    /\ free_area' = [m.lists EXCEPT ![m.order] = buddy_insert_block(@, m.block)]
    /\ free_count' = free_count + power_of_two[m.order]
    /\ allocated' = allocated \ {<<block, n>>}
    /\ buddy_result' = <<>>

BuddyNext == \E n \in Requests :
                \/ buddy_alloc_pages(n)
                \/ \E block \in Managed : buddy_free_pages(block, n)

\* buddy_init_memmap rounds the number of pages up.
BuddyInit == /\ free_area = [k \in Orders |-> IF k = max_order THEN <<0>> ELSE <<>>]
             /\ free_count = total_pages
             /\ allocated = {} /\ buddy_result = <<>>

BuddySpec == BuddyInit /\ [][BuddyNext]_buddyVars

-----------------------------------------------------------------------------
PagesOf(block, order) == block..(block + power_of_two[order] - 1)
FreeBuddies == {b \in Managed \X Orders : b[1] \in Range(free_area[b[2]])}
HeldBuddies == {<<a[1], Order(a[2])>> : a \in allocated}

BuddyTypeOK ==
    /\ \A k \in Orders : Range(free_area[k]) \subseteq Managed
    /\ free_count \in 0..CountLimit
    /\ allocated \subseteq Managed \X Requests
    /\ buddy_result \in {<<>>} \cup {Order(n) : n \in Requests} \X (Managed \cup {NoPage})

\* Every page is in exactly one block, free or held, and each block is aligned.
BlocksPartition ==
    LET blocks == FreeBuddies \cup HeldBuddies IN
    /\ \A page \in Managed : Cardinality({b \in blocks : page \in PagesOf(b[1], b[2])}) = 1
    /\ \A b \in blocks : b[1] % power_of_two[b[2]] = 0
    /\ FreeBuddies \cap HeldBuddies = {}
    /\ \A k \in Orders : IsInjective(free_area[k])

\* Two free buddies never stay apart, so that all memory becomes one block again.
FullyMerged ==
    LET free == FreeBuddies IN
    /\ \A b \in free : b[2] < max_order => <<BuddyOf(b[1], b[2]), b[2]>> \notin free
    /\ allocated = {} => free = {<<0, max_order>>}

\* A request fails only if no aligned run of free pages fits it.
Buddies == INSTANCE BuddyPool WITH MaxOrder <- max_order, Size <- power_of_two,
                                   Wanted <- {Order(n) : n \in Requests}, NULL <- NoPage,
                                   held <- HeldBuddies, result <- buddy_result
ImplementsBuddyPool == Buddies!Spec

\* buddy_system_pmm.c: "size_t nr_free; // the number of free pages".
CountsFreePages == free_count = Cardinality(UNION {PagesOf(b[1], b[2]) : b \in FreeBuddies})

\* pmm.h: init_memmap sets the manager up "according to the initial free
\* physical memory space": no caller gets pages beyond it.
HeldExists == \A h \in HeldBuddies : PagesOf(h[1], h[2]) \subseteq 0..(BuddyPages - 1)

\* buddy_insert_block: "otherwise insert in the order of the addresses (from low to high)".
SortedByAddress == \A k \in Orders : \A i \in 2..Len(free_area[k]) : free_area[k][i - 1] < free_area[k][i]

\* What every call leaves behind: all memory in disjoint aligned blocks, free
\* or held, and merged as far as possible.
BuddyInv == BuddyTypeOK /\ BlocksPartition /\ FullyMerged
=============================================================================
