---------------------------- MODULE AddressSpace ----------------------------
(***************************************************************************)
(* The memory of a user process (vmm.c, pmm.c and its users in proc.c):    *)
(* the sorted list of areas with its one-entry cache, and the page tables  *)
(* in three levels.  load_icode maps segments and the stack, do_fork       *)
(* copies, exit_mmap frees; any allocation may fail.  Pages and tables are *)
(* numbered from address 0; addresses within pages only occur where the    *)
(* code rounds them.                                                       *)
(***************************************************************************)
EXTENDS Integers, Sequences, SequencesExt, FiniteSetsExt, Functions

CONSTANTS Mm, NULL,
          PGSIZE,                 \* addresses in a page
          NPTEENTRY, NPDEENTRY,   \* entries of a table and of a level-0 directory
          Directories,            \* level-0 directories of user space
          USERBASE,               \* the first user page
          USTACKPAGE,             \* pages of the stack area
          StackMapped,            \* pages of it that load_icode allocates
          Programs,               \* sets of program headers: [va, memsz, write]
          AnyOrder                \* whether headers come in any order of addresses

PTSIZE == NPTEENTRY                  \* in pages
PDSIZE == PTSIZE * NPDEENTRY
USERTOP == Directories * PDSIZE
PT(page) == page \div PTSIZE         \* the table of a page, the directory of a page
PD(page) == page \div PDSIZE
DirOf(table) == table \div NPDEENTRY

VARIABLES segments,    \* the headers of the programs that are run, fixed from the start
          label,       \* what an mm is used for
          mmap_list,   \* sequence of [vm_start, vm_end, write, stack], in pages
          mmap_cache,
          from,        \* the mm it is copied from
          rest,        \* areas still to be copied
          at, end,     \* pages being allocated or copied
          pd0, pt,     \* directories and tables that can be reached
          pages,       \* mapped pages
          lost,        \* kinds of memory that nobody can free any more
          stopped      \* the assertion that failed

treeVars == <<pd0, pt, pages>>
areaVars == <<mmap_list, mmap_cache>>
loopVars == <<from, rest, at, end>>
spaceVars == <<segments, label, areaVars, loopVars, treeVars, lost, stopped>>

Becomes(m, use) == label' = [label EXCEPT ![m] = use]

-----------------------------------------------------------------------------
\* Areas.
In(vma, page) == vma.vm_start <= page /\ page < vma.vm_end

\* Mutant: where the cached area starts is not tested.
Mutant_CacheEnd(list, cache, page) ==
    IF cache # NULL /\ cache.vm_end > page THEN cache
    ELSE LET hits == {i \in DOMAIN list : In(list[i], page)} IN
         IF hits = {} THEN NULL ELSE list[Min(hits)]
\* The cached area if it has the page, else the first one of the list that has it.
find_vma(list, cache, page) ==
    IF cache # NULL /\ In(cache, page) THEN cache
    ELSE LET hits == {i \in DOMAIN list : In(list[i], page)} IN
         IF hits = {} THEN NULL ELSE list[Min(hits)]
Cached(cache, vma) == IF vma = NULL THEN cache ELSE vma

ROUNDDOWN(a, n) == (a \div n) * n
ROUNDUP(a, n) == ROUNDDOWN(a + n - 1, n)
FirstPage(s) == ROUNDDOWN(s.va, PGSIZE) \div PGSIZE
\* Mutant: the length is rounded, not the end.
Mutant_RoundsLength(s) == FirstPage(s) + ROUNDUP(s.memsz, PGSIZE) \div PGSIZE
EndPage(s) == ROUNDUP(s.va + s.memsz, PGSIZE) \div PGSIZE
\* Behind the last page that the loops of load_icode allocate.
LoopEnd(s) == (s.va + s.memsz - 1) \div PGSIZE + 1
USER_ACCESS(lo, hi) == USERBASE <= lo /\ lo < hi /\ hi <= USERTOP

Area(lo, hi, write, stack) == [vm_start |-> lo, vm_end |-> hi, write |-> write, stack |-> stack]
SegmentArea(s) == Area(FirstPage(s), EndPage(s), s.write, FALSE)
StackArea == Area(USERTOP - USTACKPAGE, USERTOP, TRUE, TRUE)

Areas == [vm_start : 0..USERTOP, vm_end : 0..USERTOP, write : BOOLEAN, stack : BOOLEAN]
Header == [va : Nat, memsz : Nat, write : BOOLEAN]
(* Programs are linked below the stack (user/libs/user.ld). *)
ASSUME AddressSpaceAssumption ==
    /\ {PGSIZE, NPTEENTRY, NPDEENTRY, Directories} \subseteq Nat \ {0}
    /\ USERBASE \in Nat /\ USTACKPAGE \in 1..USERTOP /\ StackMapped \in 0..USTACKPAGE
    /\ NULL \notin Mm \cup Areas
    /\ \A headers \in Programs : headers \subseteq Header
    /\ ~AnyOrder => \A headers \in Programs : \A s \in headers : FirstPage(s) <= StackArea.vm_start

\* insert_vma_struct: the last area before the first one that starts later.
Position(list, vma) ==
    LET later == {i \in DOMAIN list : list[i].vm_start > vma.vm_start} IN
    IF later = {} THEN Len(list) ELSE Min(later) - 1
Overlaps(list, vma) ==
    LET i == Position(list, vma) IN
    \/ i > 0 /\ list[i].vm_end > vma.vm_start
    \/ i < Len(list) /\ vma.vm_end > list[i + 1].vm_start
insert_vma_struct(list, vma) == InsertAt(list, Position(list, vma) + 1, vma)

\* user_mem_check of the addresses lo..hi-1 of a process with an mm, with the
\* cache moving along.  Every area is readable here: programs whose segments lack
\* the flag PF_R are left out, and with them the test of VM_READ.
user_mem_check(list, cache0, lo, hi, write) ==
    LET check[now \in [start : Nat, cache : Range(list) \cup {NULL}]] ==
          \/ now.start >= hi
          \/ LET vma == find_vma(list, now.cache, now.start \div PGSIZE) IN
             /\ vma # NULL
             /\ write => vma.write
             /\ write /\ vma.stack => now.start >= (vma.vm_start + 1) * PGSIZE
             /\ check[[start |-> vma.vm_end * PGSIZE, cache |-> vma]]
    IN  /\ USER_ACCESS(lo \div PGSIZE, ROUNDUP(hi, PGSIZE) \div PGSIZE) /\ lo < hi
        /\ check[[start |-> lo, cache |-> cache0]]

ToPageEnd(src) == ROUNDDOWN(src + PGSIZE, PGSIZE) - src

\* copy_string: page by page, at most maxn0 addresses; nul is where the string ends.
copy_string(list, cache, src0, nul, maxn0) ==
    LET copy[src \in Nat] ==
          LET maxn == src0 + maxn0 - src
              part == IF ToPageEnd(src) > maxn THEN maxn ELSE ToPageEnd(src)
          IN /\ user_mem_check(list, cache, src, src + part, FALSE)
             /\ \/ nul < src + part
                \/ part # maxn /\ copy[src + part]
    IN  copy[src0]

-----------------------------------------------------------------------------
\* Page tables.
Reached(m, page) == PT(page) \in pt[m]

\* get_pte with create: where memory may end, and whether there is an entry then.
get_pte(m, page, ok) ==
    \/ /\ ok
       /\ pd0' = [pd0 EXCEPT ![m] = @ \cup {PD(page)}]
       /\ pt' = [pt EXCEPT ![m] = @ \cup {PT(page)}]
    \/ /\ ~ok /\ PD(page) \notin pd0[m]
       /\ UNCHANGED <<pd0, pt>>
    \/ /\ ~ok /\ PT(page) \notin pt[m]
       /\ pd0' = [pd0 EXCEPT ![m] = @ \cup {PD(page)}]
       /\ UNCHANGED pt

\* Where the loops of unmap_range and copy_range go on: without a table behind
\* it.  Mutant: without a page as well.
Mutant_SkipsPages(m, page) ==
    IF page \notin pages[m] THEN ROUNDDOWN(page + PTSIZE, PTSIZE) ELSE page + 1
NextPage(m, page) ==
    IF ~Reached(m, page) THEN ROUNDDOWN(page + PTSIZE, PTSIZE) ELSE page + 1

\* The pages unmap_range frees.
Unmapped(m, vma) ==
    LET walk[page \in Nat] ==
          IF page >= vma.vm_end THEN {}
          ELSE ({page} \cap {p \in pages[m] : Reached(m, p)}) \cup walk[NextPage(m, page)]
    IN  walk[vma.vm_start]

Tables(vma) == PT(vma.vm_start)..PT(vma.vm_end - 1)

\* exit_range in one directory: tables without pages go.  The directory goes
\* with them unless one of the tables looked at was missing.
Freed(tree, vma, dir) ==
    LET looked == {t \in Tables(vma) : DirOf(t) = dir}
        tables == {t \in looked \cap tree.pt : \A p \in tree.pages : PT(p) # t}
        left == {t \in tree.pt \ tables : DirOf(t) = dir}
    IN  IF dir \notin tree.pd0 THEN tree
        ELSE IF ~(looked \subseteq tree.pt) THEN [tree EXCEPT !.pt = @ \ tables]
        ELSE [pd0 |-> tree.pd0 \ {dir},
              pt |-> tree.pt \ (tables \cup left),
              pages |-> {p \in tree.pages : PT(p) \notin left},
              lost |-> tree.lost \cup (IF left = {} THEN {} ELSE {"table"})
                                 \cup (IF \E p \in tree.pages : PT(p) \in left THEN {"page"} ELSE {})]

\* All directories of an area, from the first one on.
DirCount(vma) == PD(vma.vm_end - 1) - PD(vma.vm_start) + 1
exit_range(tree0, vma) ==
    LET tree[n \in 0..DirCount(vma)] == IF n = 0 THEN tree0 ELSE Freed(tree[n - 1], vma, PD(vma.vm_start) + n - 1)
    IN  tree[DirCount(vma)]

\* One loop over the areas frees the pages, the next one the tables.
exit_mmap(m) ==
    LET list == mmap_list[m]
        unmapped == UNION {Unmapped(m, v) : v \in Range(list)}
        tree[n \in 0..Len(list)] ==
           IF n = 0 THEN [pd0 |-> pd0[m], pt |-> pt[m], pages |-> pages[m] \ unmapped, lost |-> {}]
                    ELSE exit_range(tree[n - 1], list[n])
    IN  tree[Len(list)]

-----------------------------------------------------------------------------
\* mm_create: everything empty.  In the model a freed mm is cleared already.
mm_create(m) ==
    /\ label[m] = "free"
    /\ Becomes(m, "load")
    /\ UNCHANGED <<areaVars, loopVars, treeVars, lost, stopped>>

\* mm_map: the area overlaps one that has its first page, memory is short, an
\* assertion fails, or it is inserted.
mm_map(m, vma, first, last, then) ==
    LET lo == vma.vm_start
        found == find_vma(mmap_list[m], mmap_cache[m], lo)
        room == USER_ACCESS(lo, vma.vm_end) /\ found = NULL
    IN
    /\ mmap_cache' = [mmap_cache EXCEPT ![m] = Cached(@, found)]
    /\ \/ Becomes(m, "fail") /\ UNCHANGED <<mmap_list, at, end, stopped>>
       \/ /\ room /\ Overlaps(mmap_list[m], vma)
          /\ stopped' = "overlap" /\ UNCHANGED <<label, mmap_list, at, end>>
       \/ /\ room /\ ~Overlaps(mmap_list[m], vma)
          /\ mmap_list' = [mmap_list EXCEPT ![m] = insert_vma_struct(@, vma)]
          /\ at' = [at EXCEPT ![m] = first] /\ end' = [end EXCEPT ![m] = last]
          /\ Becomes(m, then) /\ UNCHANGED stopped
    /\ UNCHANGED <<from, rest, treeVars, lost>>

Behind(m, s) == \A i \in DOMAIN mmap_list[m] : mmap_list[m][i].vm_start <= FirstPage(s)

load_segment(m) ==
    /\ label[m] = "load"
    /\ \E s \in segments : /\ AnyOrder \/ Behind(m, s)
                           /\ mm_map(m, SegmentArea(s), FirstPage(s), LoopEnd(s), "pages")

load_stack(m) ==
    /\ label[m] = "load"
    /\ mm_map(m, StackArea, USERTOP - StackMapped, USERTOP, "stack")

\* pgdir_alloc_page; a page of the stack is asserted.
pgdir_alloc_page(m) ==
    /\ label[m] \in {"pages", "stack"} /\ at[m] < end[m]
    /\ \/ /\ get_pte(m, at[m], TRUE)
          /\ pages' = [pages EXCEPT ![m] = @ \cup {at[m]}]
          /\ at' = [at EXCEPT ![m] = @ + 1]
          /\ UNCHANGED <<label, stopped>>
       \/ /\ UNCHANGED <<pd0, pt>> \/ get_pte(m, at[m], FALSE)
          /\ IF label[m] = "stack" THEN stopped' = "memory" /\ UNCHANGED label
                                ELSE Becomes(m, "fail") /\ UNCHANGED stopped
          /\ UNCHANGED <<pages, at>>
    /\ UNCHANGED <<areaVars, from, rest, end, lost>>

loaded(m) ==
    /\ at[m] = end[m]
    /\ \/ label[m] = "pages" /\ Becomes(m, "load")
       \/ label[m] = "stack" /\ Becomes(m, "user")
    /\ at' = [at EXCEPT ![m] = 0] /\ end' = [end EXCEPT ![m] = 0]
    /\ UNCHANGED <<areaVars, from, rest, treeVars, lost, stopped>>

-----------------------------------------------------------------------------
\* copy_mm: the parent waits in do_fork.
fork(m, c) ==
    /\ label[m] = "user" /\ label[c] = "free"
    /\ label' = [label EXCEPT ![m] = "fork", ![c] = "dup"]
    /\ from' = [from EXCEPT ![c] = m]
    /\ rest' = [rest EXCEPT ![c] = mmap_list[m]]
    /\ UNCHANGED <<areaVars, at, end, treeVars, lost, stopped>>

\* The next area, from the end of the list.
dup_mmap(c) ==
    /\ label[c] = "dup" /\ rest[c] # <<>>
    /\ LET vma == Last(rest[c]) IN
       \/ Becomes(c, "fail") /\ UNCHANGED <<mmap_list, rest, at, end, stopped>>
       \/ /\ Overlaps(mmap_list[c], vma)
          /\ stopped' = "overlap" /\ UNCHANGED <<label, mmap_list, rest, at, end>>
       \/ /\ ~Overlaps(mmap_list[c], vma)
          /\ mmap_list' = [mmap_list EXCEPT ![c] = insert_vma_struct(@, vma)]
          /\ rest' = [rest EXCEPT ![c] = Front(@)]
          /\ at' = [at EXCEPT ![c] = vma.vm_start]
          /\ end' = [end EXCEPT ![c] = vma.vm_end]
          /\ Becomes(c, "copy") /\ UNCHANGED stopped
    /\ UNCHANGED <<mmap_cache, from, treeVars, lost>>

\* One round of copy_range; the page itself is asserted.
copy_range(c) ==
    /\ label[c] = "copy" /\ at[c] < end[c]
    /\ IF at[c] \notin pages[from[c]]
       THEN at' = [at EXCEPT ![c] = NextPage(from[c], @)] /\ UNCHANGED <<label, treeVars, stopped>>
       ELSE \/ /\ get_pte(c, at[c], TRUE)
               /\ pages' = [pages EXCEPT ![c] = @ \cup {at[c]}]
               /\ at' = [at EXCEPT ![c] = NextPage(from[c], @)]
               /\ UNCHANGED <<label, stopped>>
            \/ /\ get_pte(c, at[c], FALSE)
               /\ Becomes(c, "fail") /\ UNCHANGED <<pages, at, stopped>>
            \/ /\ get_pte(c, at[c], TRUE)
               /\ stopped' = "memory" /\ UNCHANGED <<label, pages, at>>
    /\ UNCHANGED <<areaVars, from, rest, end, lost>>

copied(c) ==
    /\ \/ label[c] = "copy" /\ at[c] >= end[c] /\ Becomes(c, "dup") /\ UNCHANGED from
       \/ /\ label[c] = "dup" /\ rest[c] = <<>>
          /\ label' = [label EXCEPT ![c] = "user", ![from[c]] = "user"]
          /\ from' = [from EXCEPT ![c] = NULL]
    /\ at' = [at EXCEPT ![c] = 0] /\ end' = [end EXCEPT ![c] = 0]
    /\ UNCHANGED <<areaVars, rest, treeVars, lost, stopped>>

-----------------------------------------------------------------------------
\* A system call checks a range and leaves an area in the cache.
access(m) ==
    /\ label[m] = "user"
    /\ \E page \in USERBASE..(USERTOP - 1) :
          mmap_cache' = [mmap_cache EXCEPT ![m] = Cached(@, find_vma(mmap_list[m], @, page))]
    /\ UNCHANGED <<label, mmap_list, loopVars, treeVars, lost, stopped>>

\* The next mm starts without a cached area.
Uncached(m) == [mmap_cache EXCEPT ![m] = NULL]

\* exit_mmap, put_pgdir and mm_destroy.
leave(m) ==
    /\ label[m] \in {"user", "fail"}
    /\ \E tree \in {exit_mmap(m)} :
          lost' = lost \cup tree.lost \cup (IF tree.pd0 = {} THEN {} ELSE {"directory"})
                                      \cup (IF tree.pt = {} THEN {} ELSE {"table"})
                                      \cup (IF tree.pages = {} THEN {} ELSE {"page"})
    /\ pd0' = [pd0 EXCEPT ![m] = {}] /\ pt' = [pt EXCEPT ![m] = {}] /\ pages' = [pages EXCEPT ![m] = {}]
    /\ mmap_list' = [mmap_list EXCEPT ![m] = <<>>]
    /\ mmap_cache' = Uncached(m)
    /\ label' = [q \in Mm |-> IF q = m THEN "free" ELSE IF q = from[m] THEN "user" ELSE label[q]]
    /\ from' = [from EXCEPT ![m] = NULL]
    /\ rest' = [rest EXCEPT ![m] = <<>>]
    /\ at' = [at EXCEPT ![m] = 0] /\ end' = [end EXCEPT ![m] = 0]
    /\ UNCHANGED stopped

SpacesNext == /\ stopped = "no"
        /\ \E m \in Mm :
              \/ mm_create(m) \/ load_segment(m) \/ load_stack(m) \/ pgdir_alloc_page(m) \/ loaded(m)
              \/ \E c \in Mm : fork(m, c)
              \/ dup_mmap(m) \/ copy_range(m) \/ copied(m)
              \/ access(m) \/ leave(m)
        /\ UNCHANGED segments

SpacesInit == /\ segments \in Programs
        /\ label = [m \in Mm |-> "free"]
        /\ mmap_list = [m \in Mm |-> <<>>]
        /\ mmap_cache = [m \in Mm |-> NULL]
        /\ from = [m \in Mm |-> NULL]
        /\ rest = [m \in Mm |-> <<>>]
        /\ at = [m \in Mm |-> 0] /\ end = [m \in Mm |-> 0]
        /\ pd0 = [m \in Mm |-> {}] /\ pt = [m \in Mm |-> {}] /\ pages = [m \in Mm |-> {}]
        /\ lost = {}
        /\ stopped = "no"

SpacesSpec == SpacesInit /\ [][SpacesNext]_spaceVars

-----------------------------------------------------------------------------
\* Types; the cache holds an area of the same mm; only a copy has a source.
SpacesTypeOK ==
    /\ \A m \in Mm :
          /\ mmap_list[m] \in Seq(Areas)
          /\ mmap_cache[m] \in Range(mmap_list[m]) \cup {NULL}
          /\ from[m] # NULL => label[from[m]] = "fork" /\ label[m] \in {"dup", "copy", "fail"}
    /\ lost \subseteq {"directory", "table", "page"}
    /\ stopped \in {"no", "overlap", "memory"}

\* The list is sorted and its areas are disjoint and not empty; no assertion
\* about it fails when segments come in the order of their addresses
\* (mm_map, insert_vma_struct, dup_mmap).
AreasInOrder ==
    /\ ~AnyOrder => stopped # "overlap"
    /\ \A m \in Mm : LET list == mmap_list[m] IN
          /\ \A i \in DOMAIN list : list[i].vm_start < list[i].vm_end
          /\ \A i \in 1..(Len(list) - 1) : list[i].vm_end <= list[i + 1].vm_start

\* Every mapped page is inside an area and reached through a table and a
\* directory: otherwise exit_mmap would not find it.
PagesInAreas ==
    \A m \in Mm :
       /\ \A p \in pages[m] : /\ \E v \in Range(mmap_list[m]) : In(v, p)
                              /\ PT(p) \in pt[m]
       /\ \A t \in pt[m] : DirOf(t) \in pd0[m]

\* A fork is a copy: the same areas and the same pages (dup_mmap, copy_range).
CopyIsComplete ==
    [][\A c \in Mm : label[c] = "dup" /\ label'[c] = "user" =>
          mmap_list'[c] = mmap_list'[from[c]] /\ pages'[c] = pages'[from[c]]]_spaceVars

\* Whatever the layout, no data page is lost: exit_mmap finds them all before
\* tables are freed (exit_mmap, unmap_range, exit_range).
NoPageLost == "page" \notin lost

\* A program with one table in a directory, as the shipped ones have, loses no
\* table either, wherever memory ends (get_pte, exit_range).
UserAreas == {v \in {SegmentArea(s) : s \in segments} \cup {StackArea} : USER_ACCESS(v.vm_start, v.vm_end)}
OneTable == \A v, w \in UserAreas : \A t \in Tables(v), u \in Tables(w) : DirOf(t) = DirOf(u) => t = u
OnlyDirectoriesLost == OneTable => lost \subseteq {"directory"}

\* Checks of user addresses are exact, wherever the cache points: a range is
\* accepted if every address of it may be accessed, the lowest page of the
\* stack being a guard (user_mem_check, find_vma), a string if it ends in time
\* and can be read up to its end (copy_string).
Addresses == 0..(USERTOP * PGSIZE)
Allowed(list, a, write) ==
    \E v \in Range(list) : /\ In(v, a \div PGSIZE)
                           /\ write => v.write
                           /\ write /\ v.stack => a \div PGSIZE # v.vm_start
RangesExact(list, cache) ==
    \A lo, hi \in Addresses : \A write \in BOOLEAN :
       lo < hi => (user_mem_check(list, cache, lo, hi, write)
                   <=> \A a \in lo..(hi - 1) : Allowed(list, a, write))
StringsExact(list, cache) ==
    \A src \in Addresses : \A nul \in src..(USERTOP * PGSIZE - 1) : \A maxn \in 1..(2 * PGSIZE + 1) :
       copy_string(list, cache, src, nul, maxn)
          <=> nul - src < maxn /\ \A a \in src..nul : Allowed(list, a, FALSE)
ChecksExact ==
    \A m \in Mm : label[m] = "user" =>
       RangesExact(mmap_list[m], mmap_cache[m]) /\ StringsExact(mmap_list[m], mmap_cache[m])

\* check_vma_overlap: the assertion prev->vm_end <= next->vm_start.  Violated
\* by a segment that reaches into a later one that is mapped already.
NoOverlapAssertion == stopped # "overlap"

\* exit_range: "free level 0 page directory only when all pde0s in it are
\* already invalid".  Violated by a program with two page tables.
DirectoryFreedEmpty == "table" \notin lost

\* load_icode: "if up steps failed, you should cleanup the env."  Violated
\* when memory ends between a directory and its first table.
NoMemoryLost == lost = {}

\* memlayout.h: USTACKPAGE is the number "of pages in user stack".  Violated:
\* load_icode allocates four, and checked addresses of the others fault.
CheckedIsMapped ==
    \A m \in Mm : label[m] = "user" =>
       \A a \in Addresses :
          user_mem_check(mmap_list[m], mmap_cache[m], a, a + 1, TRUE) => a \div PGSIZE \in pages[m]

\* What holds of an address space between any two steps.
SpacesInv == SpacesTypeOK /\ AreasInOrder /\ PagesInAreas /\ NoPageLost /\ OnlyDirectoriesLost
=============================================================================
