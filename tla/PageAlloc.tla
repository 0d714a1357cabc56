------------------------------ MODULE PageAlloc ------------------------------
(***************************************************************************)
(* The page allocator (default_pmm.c) at the level of its pointers: a      *)
(* doubly linked list of free blocks in the order of their addresses, the  *)
(* size of a block in its first page.  alloc_pages and free_pages run with *)
(* interrupts off (pmm.c), so each is one step.                            *)
(***************************************************************************)
EXTENDS Integers, FiniteSets, FiniteSetsExt, Functions

CONSTANTS NPages,
          Sizes,       \* of requests, and of what is given back
          NULL

ASSUME PageAssumption ==
    /\ NPages \in Nat \ {0}
    /\ Sizes \subseteq 1..NPages
    /\ NULL \notin Int

Pages == 0..(NPages - 1)
free_list == -1                     \* free_list
Run(base, n) == base..(base + n - 1)

VARIABLES links,     \* next and prev of the pages' links and of free_list
          property,  \* p->property
          flagged,   \* the pages with PG_property
          nr_free,
          used,      \* pages in the hands of callers
          result,    \* the last request and its answer; <<>> when pages were given back
          halted,    \* "NO", or why the kernel stopped
          linkage    \* history: "merged" until a block is freed behind all others
                     \* and linked to itself; then "loose" until such a link is
                     \* followed; from then on "misled"

pagesVars == <<links, property, flagged, nr_free, used, result, halted, linkage>>

-----------------------------------------------------------------------------
(* list.h                                                                  *)

\* __list_add writes next->prev and prev->next, then elm's own links.
Between(l, elm, before, after) ==
    [next |-> [[l.next EXCEPT ![before] = elm] EXCEPT ![elm] = after],
     prev |-> [[l.prev EXCEPT ![after] = elm] EXCEPT ![elm] = before]]
list_add(l, at, elm) == Between(l, elm, at, l.next[at])
list_add_before(l, at, elm) == Between(l, elm, l.prev[at], at)

\* The neighbours are joined; the links of elm stay.
list_del(l, elm) ==
    [next |-> [l.next EXCEPT ![l.prev[elm]] = l.next[elm]],
     prev |-> [l.prev EXCEPT ![l.next[elm]] = l.prev[elm]]]

\* Where le is after k + 1 rounds of while ((le = list_next(le)) != &free_list).
Walk(l) ==
    LET at[k \in 0..NPages] ==
           IF k = 0 THEN l.next[free_list]
           ELSE IF at[k - 1] = free_list THEN free_list ELSE l.next[at[k - 1]] IN
    at
ReachesEnd(l) == Walk(l)[NPages] = free_list
Entries(l) == Range(Walk(l)) \ {free_list}

\* Where the loop breaks that looks for an entry in S; free_list if there is none.
Rounds(l, S) == LET at == Walk(l) IN {k \in 0..NPages : at[k] \in S}
First(l, S) == LET rounds == Rounds(l, S) IN IF rounds = {} THEN free_list ELSE Walk(l)[Min(rounds)]
LastEntry(l) == CHOOSE e \in Entries(l) : l.next[e] = free_list

-----------------------------------------------------------------------------

\* Where the insertion loop breaks.
Above(l, base) == First(l, {p \in Pages : base < p})

\* The insertion loop: before the first block behind base; else behind the
\* last one, and then once more, because the loop goes on with base itself.
Insert(l, base) ==
    IF l.next[free_list] = free_list THEN list_add(l, free_list, base)
    ELSE IF Above(l, base) # free_list THEN list_add_before(l, Above(l, base), base)
    ELSE list_add(list_add(l, LastEntry(l), base), base, base)

\* The history.  prev of e is followed when e is unlinked or gets a neighbour.
Followed(e) == IF links.prev[e] = e THEN "misled" ELSE linkage
Inserted(base) ==
    IF links.next[free_list] = free_list THEN linkage
    ELSE IF Above(links, base) # free_list THEN Followed(Above(links, base))
    ELSE IF linkage = "merged" THEN "loose" ELSE linkage

\* The block behind base is not merged.
Mutant_MergeDown(m, base) == m

\* Merges two neighbours in the list that touch: base and the one behind it.
Merge(m, base) ==
    LET p == m.links.next[base] IN
    IF p # free_list /\ base + m.property[base] = p
    THEN [links |-> list_del(m.links, p),
          property |-> [m.property EXCEPT ![base] = @ + m.property[p]],
          flagged |-> m.flagged \ {p}]
    ELSE m

\* The flag of the block that is absorbed stays.
Mutant_KeepsFlag(m, base) ==
    LET p == m.links.prev[base] IN
    IF p # free_list /\ p + m.property[p] = base
    THEN [links |-> list_del(m.links, base),
          property |-> [m.property EXCEPT ![p] = @ + m.property[base]],
          flagged |-> m.flagged]
    ELSE m

\* The same with the block in front of base.
MergeBefore(m, base) ==
    LET p == m.links.prev[base] IN
    IF p # free_list /\ p + m.property[p] = base
    THEN [links |-> list_del(m.links, base),
          property |-> [m.property EXCEPT ![p] = @ + m.property[base]],
          flagged |-> m.flagged \ {base}]
    ELSE m

LowerBase(m, base) ==
    LET p == m.links.prev[base] IN
    IF p # free_list /\ p + m.property[p] = base THEN p ELSE base

-----------------------------------------------------------------------------
Found(n) == First(links, {p \in Pages : property[p] >= n})

Rest(page, n) == property[page] - n

\* The first n pages of a block; what remains takes its place in the list.
Take(page, n) ==
    LET prev == links.prev[page]
        rest == page + n
        l == list_del(links, page) IN
    /\ IF property[page] > n
       THEN /\ links' = list_add(l, prev, rest)
            /\ property' = [property EXCEPT ![rest] = Rest(page, n)]
            /\ flagged' = (flagged \cup {rest}) \ {page}
       ELSE /\ links' = l
            /\ flagged' = flagged \ {page}
            /\ UNCHANGED property
    /\ nr_free' = nr_free - n
    /\ used' = used \cup Run(page, n)
    /\ result' = <<n, page>>
    /\ linkage' = Followed(page)
    /\ UNCHANGED halted

default_alloc_pages(n) ==
    /\ halted = "NO"
    /\ \/ /\ n > nr_free \/ (Found(n) = free_list /\ ReachesEnd(links))
          /\ result' = <<n, NULL>>
          /\ UNCHANGED <<links, property, flagged, nr_free, used, halted, linkage>>
       \/ n <= nr_free /\ Found(n) # free_list /\ Take(Found(n), n)
       \/ /\ n <= nr_free /\ Found(n) = free_list /\ ~ReachesEnd(links)
          /\ halted' = "endless loop"
          /\ UNCHANGED <<links, property, flagged, nr_free, used, result, linkage>>

\* Callers give back what they were given, whole or in parts.
MayFree(base, n) == Run(base, n) \subseteq used

default_free_pages(base, n) ==
    /\ halted = "NO" /\ MayFree(base, n)
    /\ LET inserted == [links |-> Insert(links, base), property |-> [property EXCEPT ![base] = n],
                        flagged |-> flagged \cup {base}]
           lower == MergeBefore(inserted, base)
           m == Merge(lower, LowerBase(inserted, base)) IN
       IF Run(base, n) \cap flagged # {} THEN
          /\ halted' = "!PageReserved(p) && !PageProperty(p)"
          /\ UNCHANGED <<links, property, flagged, nr_free, used, linkage>>
       ELSE IF links.next[free_list] # free_list /\ ~ReachesEnd(links) /\ Above(links, base) = free_list THEN
          /\ halted' = "endless loop"
          /\ UNCHANGED <<links, property, flagged, nr_free, used, linkage>>
       ELSE
          /\ links' = m.links /\ property' = m.property /\ flagged' = m.flagged
          /\ nr_free' = nr_free + n
          /\ used' = used \ Run(base, n)
          /\ linkage' = Inserted(base)
          /\ UNCHANGED halted
    /\ result' = <<>>

PagesNext == \E n \in Sizes : \/ default_alloc_pages(n)
                             \/ \E base \in Pages : default_free_pages(base, n)

\* After default_init and default_init_memmap of all pages as one block.
PagesInit ==
    LET self == [i \in Pages \cup {free_list} |-> i] IN
    /\ links = list_add([next |-> self, prev |-> self], free_list, 0)
    /\ property = [p \in Pages |-> IF p = 0 THEN NPages ELSE 0]
    /\ flagged = {0}
    /\ nr_free = NPages
    /\ used = {} /\ result = <<>> /\ halted = "NO" /\ linkage = "merged"

PagesSpec == PagesInit /\ [][PagesNext]_pagesVars

-----------------------------------------------------------------------------
PagesTypeOK ==
    /\ links \in [{"next", "prev"} -> [Pages \cup {free_list} -> Pages \cup {free_list}]]
    /\ property \in [Pages -> 0..NPages]
    /\ flagged \subseteq Pages /\ nr_free \in 0..NPages
    /\ used \subseteq Pages /\ result \in {<<>>} \cup Sizes \X (Pages \cup {NULL})
    /\ linkage \in {"merged", "loose", "misled"}

\* The first pages of the maximal runs of free pages.
FreeStarts == {p \in Pages \ used : p = 0 \/ p - 1 \in used}
Length(p) == Max({n \in 1..(NPages - p) : Run(p, n) \cap used = {}})

\* The list holds exactly the maximal runs of free pages, in order and with
\* their sizes; it reads the same in both directions, the flag is set on the
\* first page of each and nowhere else, and nr_free is their sum.
ListIsFreeRuns ==
    /\ ReachesEnd(links) /\ Entries(links) = FreeStarts
    /\ \A k \in 1..NPages : Walk(links)[k] # free_list => Walk(links)[k - 1] < Walk(links)[k]
    /\ \A e \in FreeStarts \cup {free_list} : links.prev[links.next[e]] = e
    /\ \A p \in FreeStarts : property[p] = Length(p)
    /\ flagged = FreeStarts
    /\ nr_free = Cardinality(Pages \ used)

\* The listed blocks are in order and disjoint and cover the free pages, though
\* neighbours need not be merged; the flag is set on the first page of each and
\* nowhere else, and nr_free is their sum.
ListCoversFree ==
    /\ ReachesEnd(links)
    /\ \A k \in 1..NPages : Walk(links)[k] # free_list => Walk(links)[k - 1] < Walk(links)[k]
    /\ \A p, q \in Entries(links) : p < q => p + property[p] <= q
    /\ UNION {Run(p, property[p]) : p \in Entries(links)} = Pages \ used
    /\ flagged = Entries(links)
    /\ nr_free = Cardinality(Pages \ used)

\* No assertion fails and no search goes round for ever.
NeverStops == halted = "NO"

\* What the calls leave behind, whatever is allocated and freed.  The free runs
\* are listed until a block is freed behind all others, as the checks of the
\* boot do; what is listed is still free, and all that is free is listed, until
\* the link of such a block to itself is followed.  (Afterwards it need not be:
\* ListedAreFree.)
PagesInv ==
    /\ PagesTypeOK
    /\ linkage = "merged" => ListIsFreeRuns
    /\ linkage # "misled" => ListCoversFree /\ NeverStops

\* Requests are answered by first fit, the lowest free run that is large enough,
\* until a block is freed behind all others; from then on by some free run or
\* not at all, until the link of such a block to itself is followed.
Pool == INSTANCE PagePool
ImplementsFirstFit ==
    /\ Pool!Init
    /\ [][\/ linkage' = "merged" /\ Pool!Next
          \/ linkage' = "loose" /\ Pool!LooseNext
          \/ linkage' = "misled"]_(Pool!vars)

\* default_check: every block in the list has PageProperty, and their sizes
\* sum up to nr_free.  Violated by a block that was freed behind all others and
\* is allocated: it stays in the list.
ListedAreFree ==
    halted = "NO" /\ ReachesEnd(links)
    => Entries(links) \subseteq flagged /\ MapThenSumSet(LAMBDA p : property[p], Entries(links)) = nr_free
=============================================================================
